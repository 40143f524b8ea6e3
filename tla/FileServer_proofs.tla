--------------------------- MODULE FileServer_proofs ---------------------------
(***************************************************************************)
(* Proofs about FileServer, for every disk, every Chunk and files of every *)
(* size.                                                                   *)
(***************************************************************************)
EXTENDS FileServer, TLAPS

-----------------------------------------------------------------------------
(* The inductive invariant *)

TypeOK ==
  /\ DOMAIN disk \subseteq Paths
  /\ \A p \in DOMAIN disk : disk[p] \in DiskEntries
  /\ toVisit \subseteq DOMAIN disk
  /\ buffer \in Nat /\ produced \in Nat /\ room \in Nat
  /\ place \in {"build", "deflate", "deflated", "serve"}

Compressing == place \in {"deflate", "deflated"}

\* The compressor works on one readable file, inside its buffer, and leaves
\* its loop only when everything zlib had to produce is out.
CompressorOK ==
  /\ produced + room <= buffer
  /\ ~Compressing => loading = NoPath /\ buffer = 0 /\ produced = 0 /\ room = 0
  /\ Compressing =>
       /\ loading \in DOMAIN disk
       /\ disk[loading].kind = "file"
       /\ produced <= disk[loading].packed
  /\ place = "deflated" => produced = disk[loading].packed
  /\ place = "serve" => toVisit = {}

\* What the cache holds of a file, from what the disk says of it.
EntryOf(p) ==
  [file |-> p,
   compressed |-> IF disk[p].packed < disk[p].size THEN disk[p].packed ELSE 0,
   type |-> TypeOf(p)]

\* A target is cached with a file it names; one that is not cached names
\* nothing but files that were not reached yet.
CacheOK ==
  /\ DOMAIN cache = Targets
  /\ \A t \in Targets :
       IF cache[t] = NoEntry
         THEN Named(t) \subseteq toVisit \cup {loading}
         ELSE cache[t].file \in Named(t) /\ cache[t] = EntryOf(cache[t].file)

FilesInv == TypeOK /\ CompressorOK /\ CacheOK /\ AnswersMatchDisk

-----------------------------------------------------------------------------
(* Paths and entries *)

LEMMA PathIsSome == \A p \in Paths : p # NoPath
BY DEF Paths, NoPath

LEMMA IncreaseIsSome ==
  ASSUME TypeOK, loading \in DOMAIN disk, disk[loading].kind = "file"
  PROVE  /\ Increase \in Nat \ {0}
         /\ disk[loading].size \in Nat
         /\ disk[loading].packed \in Nat \ {0}
<1>1. disk[loading] \in DiskEntries
  BY DEF TypeOK
<1>2. /\ disk[loading].size \in Nat
      /\ disk[loading].packed \in Nat \ {0}
  BY <1>1, SizesAssumption DEF DiskEntries
<1>3. disk[loading].size \div 2 \in Nat
  BY <1>2
<1> QED
  BY <1>2, <1>3, ChunkAssumption DEF Increase

\* A file is cached under the targets that name it and no other.
LEMMA KeysName ==
  ASSUME NEW p \in DOMAIN disk, disk[p].kind = "file", NEW t
  PROVE  t \in CacheKeys(p) <=> p \in Named(t)
BY DEF CacheKeys, Named

\* An entry of a file is not the absence of one.
LEMMA EntryIsSome ==
  ASSUME NEW p \in Paths
  PROVE  EntryOf(p) # NoEntry /\ EntryOf(p).file = p
<1>1. EntryOf(p).file = p
  BY DEF EntryOf
<1>2. NoEntry.file = NoPath
  BY DEF NoEntry
<1> QED
  BY <1>1, <1>2, PathIsSome

-----------------------------------------------------------------------------
(* The steps *)

LEMMA FilesInit == Init => FilesInv
<1> SUFFICES ASSUME Init PROVE FilesInv
  OBVIOUS
<1>1. PICK paths \in SUBSET Paths : disk \in [paths -> DiskEntries]
  BY DEF Init
<1>2. TypeOK
  BY <1>1 DEF Init, TypeOK
<1>3. CompressorOK
  BY DEF Init, CompressorOK, Compressing
<1>4. CacheOK
  <2>1. DOMAIN cache = Targets /\ toVisit = DOMAIN disk
    BY DEF Init
  <2>2. \A t \in Targets : cache[t] = NoEntry
    BY DEF Init
  <2> QED
    BY <2>1, <2>2 DEF CacheOK, Named
<1>5. AnswersMatchDisk
  BY DEF Init, AnswersMatchDisk, NoAnswer
<1> QED
  BY <1>2, <1>3, <1>4, <1>5 DEF FilesInv

\* While the cache is built no request is answered.
LEMMA AnswerKept ==
  ASSUME AnswersMatchDisk, UNCHANGED <<disk, request, answer>>
  PROVE  AnswersMatchDisk'
BY DEF AnswersMatchDisk, Named

LEMMA SkipNext ==
  ASSUME FilesInv, NEW p \in Paths, SkipEntry(p)
  PROVE  FilesInv'
<1> USE DEF FilesInv
<1>1. /\ place = "build" /\ p \in toVisit /\ disk[p].kind # "file"
      /\ toVisit' = toVisit \ {p}
      /\ UNCHANGED <<disk, loading, buffer, produced, room, cache, place, request, answer>>
  BY DEF SkipEntry, compressVars, serveVars
<1>2. TypeOK'
  BY <1>1 DEF TypeOK
<1>3. CompressorOK'
  BY <1>1 DEF CompressorOK, Compressing
<1>4. CacheOK'
  <2>1. \A t : Named(t)' = Named(t) /\ p \notin Named(t)
    BY <1>1 DEF Named
  <2>2. \A q : EntryOf(q)' = EntryOf(q)
    BY <1>1 DEF EntryOf
  <2> QED
    BY <1>1, <2>1, <2>2 DEF CacheOK
<1> QED
  BY <1>1, <1>2, <1>3, <1>4, AnswerKept

LEMMA LoadNext ==
  ASSUME FilesInv, NEW p \in Paths, LoadFile(p)
  PROVE  FilesInv'
<1> USE DEF FilesInv
<1>1. /\ place = "build" /\ p \in toVisit /\ disk[p].kind = "file"
      /\ toVisit' = toVisit \ {p} /\ loading' = p /\ buffer' = 0 /\ produced' = 0
      /\ place' = "deflate"
      /\ UNCHANGED <<disk, room, cache, request, answer>>
  BY DEF LoadFile, serveVars
<1>2. TypeOK'
  BY <1>1 DEF TypeOK
<1>3. CompressorOK'
  <2>1. p \in DOMAIN disk /\ disk[p] \in DiskEntries /\ room = 0
    BY <1>1 DEF TypeOK, CompressorOK, Compressing
  <2>2. disk[p].packed \in Nat
    BY <2>1, SizesAssumption DEF DiskEntries
  <2> QED
    BY <1>1, <2>1, <2>2 DEF CompressorOK, Compressing
<1>4. CacheOK'
  <2>1. \A t : Named(t)' = Named(t)
    BY <1>1 DEF Named
  <2>2. \A q : EntryOf(q)' = EntryOf(q)
    BY <1>1 DEF EntryOf
  <2>3. loading \notin DOMAIN disk
    BY <1>1, PathIsSome DEF CompressorOK, Compressing, TypeOK
  <2>4. \A t : Named(t) \subseteq DOMAIN disk
    BY DEF Named
  <2> QED
    BY <1>1, <2>1, <2>2, <2>3, <2>4 DEF CacheOK
<1> QED
  BY <1>1, <1>2, <1>3, <1>4, AnswerKept

\* A turn of the loop gives deflate() room the buffer has, and stops when
\* deflate() did not use all of it.
LEMMA DeflateNext ==
  ASSUME FilesInv, Deflate
  PROVE  FilesInv'
<1> USE DEF FilesInv
<1> DEFINE packed == disk[loading].packed
           out == Min(Increase, packed - produced)
<1>1. /\ place = "deflate"
      /\ buffer' = NewSize /\ produced' = produced + out /\ room' = Increase - out
      /\ place' = IF room' = 0 THEN "deflate" ELSE "deflated"
      /\ UNCHANGED <<disk, toVisit, loading, cache, request, answer>>
  BY DEF Deflate, AnotherTurn, serveVars
<1>2. /\ loading \in DOMAIN disk /\ disk[loading].kind = "file"
      /\ produced \in Nat /\ buffer \in Nat /\ produced <= packed
  BY <1>1 DEF CompressorOK, Compressing, TypeOK
<1>3. Increase \in Nat \ {0} /\ packed \in Nat
  BY <1>2, IncreaseIsSome
<1>4. /\ out \in Nat /\ out <= Increase /\ out <= packed - produced
      /\ out # Increase => out = packed - produced
  BY <1>2, <1>3 DEF Min
<1>5. NewSize \in Nat /\ produced + Increase <= NewSize
  BY <1>2, <1>3 DEF NewSize, Larger
<1> HIDE DEF out, packed
<1>6. /\ buffer' \in Nat /\ produced' \in Nat /\ room' \in Nat
      /\ produced' + room' <= buffer'
      /\ produced' <= packed
      /\ room' # 0 => produced' = packed
  BY <1>1, <1>2, <1>3, <1>4, <1>5
<1>7. TypeOK'
  BY <1>1, <1>6 DEF TypeOK
<1>8. CompressorOK'
  <2>1. disk'[loading'] = disk[loading] /\ Compressing'
    BY <1>1 DEF Compressing
  <2> QED
    BY <1>1, <1>2, <1>6, <2>1 DEF CompressorOK, Compressing, packed
<1>9. CacheOK'
  BY <1>1 DEF CacheOK, Named, EntryOf
<1> QED
  BY <1>1, <1>7, <1>8, <1>9, AnswerKept

LEMMA CacheNext ==
  ASSUME FilesInv, CacheFile
  PROVE  FilesInv'
<1> USE DEF FilesInv
<1>1. /\ place = "deflated"
      /\ cache' = [t \in Targets |-> IF t \in CacheKeys(loading) THEN CacheEntry ELSE cache[t]]
      /\ loading' = NoPath /\ buffer' = 0 /\ produced' = 0 /\ room' = 0 /\ place' = "build"
      /\ UNCHANGED <<disk, toVisit, request, answer>>
  BY DEF CacheFile, serveVars
<1>2. /\ loading \in DOMAIN disk /\ disk[loading].kind = "file"
      /\ produced = disk[loading].packed
      /\ loading \in Paths
  BY <1>1 DEF CompressorOK, Compressing, TypeOK
<1>3. TypeOK'
  BY <1>1 DEF TypeOK
<1>4. CompressorOK'
  BY <1>1 DEF CompressorOK, Compressing
<1>5. CacheEntry = EntryOf(loading)
  BY <1>2 DEF CacheEntry, EntryOf
<1>6. /\ \A t : Named(t)' = Named(t)
      /\ \A q : EntryOf(q)' = EntryOf(q)
  BY <1>1 DEF Named, EntryOf
<1>7. ASSUME NEW t \in Targets
      PROVE  IF cache'[t] = NoEntry
               THEN Named(t) \subseteq toVisit \cup {NoPath}
               ELSE cache'[t].file \in Named(t) /\ cache'[t] = EntryOf(cache'[t].file)
  <2>1. CASE t \in CacheKeys(loading)
    <3>1. cache'[t] = EntryOf(loading) /\ loading \in Named(t)
      BY <1>1, <1>2, <1>5, <2>1, KeysName
    <3> QED
      BY <1>2, <3>1, EntryIsSome
  <2>2. CASE t \notin CacheKeys(loading)
    <3>1. cache'[t] = cache[t] /\ loading \notin Named(t)
      BY <1>1, <1>2, <2>2, KeysName
    <3> QED
      BY <3>1 DEF CacheOK
  <2> QED
    BY <2>1, <2>2
<1>8. CacheOK'
  BY <1>1, <1>6, <1>7 DEF CacheOK
<1> QED
  BY <1>1, <1>3, <1>4, <1>8, AnswerKept

LEMMA DoneNext ==
  ASSUME FilesInv, BuildDone
  PROVE  FilesInv'
<1> USE DEF FilesInv
<1>1. /\ place = "build" /\ toVisit = {} /\ place' = "serve"
      /\ UNCHANGED <<disk, toVisit, loading, buffer, produced, room, cache, request, answer>>
  BY DEF BuildDone, compressVars, serveVars
<1>2. TypeOK' /\ CompressorOK'
  BY <1>1 DEF TypeOK, CompressorOK, Compressing
<1>3. CacheOK'
  BY <1>1 DEF CacheOK, Named, EntryOf
<1> QED
  BY <1>1, <1>2, <1>3, AnswerKept

\* A response leaves all but itself alone.
LEMMA RespondKeeps ==
  ASSUME FilesInv, NEW r, NEW a, Respond(r, a)
  PROVE  /\ TypeOK' /\ CompressorOK' /\ CacheOK'
         /\ place = "serve" /\ request' = r /\ answer' = a /\ disk' = disk
<1>1. UNCHANGED <<disk, toVisit, loading, buffer, produced, room, cache, place>>
  BY DEF Respond, compressVars
<1> QED
  BY <1>1 DEF Respond, FilesInv, TypeOK, CompressorOK, Compressing, CacheOK, Named, EntryOf

LEMMA OtherNext ==
  ASSUME FilesInv, NEW r \in Requests, OnOtherMethod(r) \/ OnCustomRequest(r)
  PROVE  FilesInv'
<1>1. PICK a : Respond(r, a) /\ a.status \in {"bad_request", "custom"}
  BY DEF OnOtherMethod, OnCustomRequest
<1>2. TypeOK' /\ CompressorOK' /\ CacheOK' /\ answer' = a
  BY <1>1, RespondKeeps
<1>3. AnswersMatchDisk'
  BY <1>1, <1>2 DEF AnswersMatchDisk
<1> QED
  BY <1>2, <1>3 DEF FilesInv

\* Once the cache is built, what is not in it is not on the disk.
LEMMA MissingNext ==
  ASSUME FilesInv, NEW r \in Requests, OnMissingFile(r)
  PROVE  FilesInv'
<1>1. Respond(r, [status |-> "not_found"]) /\ cache[r.target] = NoEntry
  BY DEF OnMissingFile, GetFile
<1>2. /\ TypeOK' /\ CompressorOK' /\ CacheOK'
      /\ place = "serve" /\ request' = r /\ answer' = [status |-> "not_found"] /\ disk' = disk
  BY <1>1, RespondKeeps
<1>3. r.target \in Targets
  BY DEF Requests
<1>4. Named(r.target) \subseteq {NoPath}
  BY <1>1, <1>2, <1>3 DEF FilesInv, CacheOK, CompressorOK, Compressing
<1>5. NoPath \notin DOMAIN disk
  BY PathIsSome DEF FilesInv, TypeOK
<1>6. Named(r.target) = {}
  BY <1>4, <1>5 DEF Named
<1>7. AnswersMatchDisk'
  <2>1. Named(request.target)' = {}
    BY <1>2, <1>6 DEF Named
  <2>2. answer'.status = "not_found"
    BY <1>2
  <2> QED
    BY <2>1, <2>2 DEF AnswersMatchDisk
<1> QED
  BY <1>2, <1>7 DEF FilesInv

LEMMA CachedNext ==
  ASSUME FilesInv, NEW r \in Requests, OnCachedFile(r)
  PROVE  FilesInv'
<1> DEFINE e == cache[r.target]
           f == disk[e.file]
           small == r.gzip /\ f.packed < f.size
           gzip == IsGzipCompressionPossible(e, r)
           a == [status |-> "ok", file |-> e.file, type |-> e.type, gzip |-> gzip,
                 length |-> IF gzip THEN e.compressed ELSE disk[e.file].size]
<1>1. Respond(r, a) /\ e # NoEntry
  BY DEF OnCachedFile, GetFile
<1>2. /\ TypeOK' /\ CompressorOK' /\ CacheOK'
      /\ request' = r /\ answer' = a /\ disk' = disk
  BY <1>1, RespondKeeps
<1>3. r.target \in Targets /\ r.gzip \in BOOLEAN
  BY DEF Requests
<1>4. e.file \in Named(r.target) /\ e = EntryOf(e.file)
  BY <1>1, <1>3 DEF FilesInv, CacheOK
<1>5. f \in DiskEntries /\ f.kind = "file"
  BY <1>4 DEF Named, FilesInv, TypeOK
<1>6. f.packed \in Nat \ {0} /\ f.size \in Nat
  BY <1>5, SizesAssumption DEF DiskEntries
<1>7. e.compressed = IF f.packed < f.size THEN f.packed ELSE 0
  BY <1>4 DEF EntryOf
<1>8. gzip = small
  BY <1>3, <1>6, <1>7 DEF IsGzipCompressionPossible
<1>9. /\ answer'.status = "ok" /\ answer'.file = e.file /\ answer'.gzip = small
      /\ answer'.length = IF small THEN f.packed ELSE f.size
  <2> HIDE DEF gzip, small
  <2>1. /\ answer'.status = "ok" /\ answer'.file = e.file /\ answer'.gzip = gzip
        /\ answer'.length = IF gzip THEN e.compressed ELSE f.size
    BY <1>2
  <2>2. small => e.compressed = f.packed
    BY <1>7 DEF small
  <2> QED
    BY <1>8, <2>1, <2>2
<1>10. /\ Named(request.target)' = Named(r.target)
       /\ disk'[answer'.file] = f /\ request'.gzip = r.gzip
  BY <1>2, <1>9 DEF Named
<1>11. AnswersMatchDisk'
  BY <1>4, <1>9, <1>10 DEF AnswersMatchDisk
<1> QED
  BY <1>2, <1>11 DEF FilesInv

LEMMA FilesNext == FilesInv /\ [Next]_vars => FilesInv'
<1> SUFFICES ASSUME FilesInv, [Next]_vars PROVE FilesInv'
  OBVIOUS
<1>1. CASE UNCHANGED vars
  BY <1>1 DEF vars, compressVars, serveVars, FilesInv, TypeOK, CompressorOK, Compressing,
              CacheOK, EntryOf, Named, AnswersMatchDisk
<1>2. CASE Build
  BY <1>2, SkipNext, LoadNext, DeflateNext, CacheNext, DoneNext DEF Build
<1>3. ASSUME NEW r \in Requests,
             \/ OnOtherMethod(r) \/ OnCustomRequest(r)
             \/ OnMissingFile(r) \/ OnCachedFile(r)
      PROVE  FilesInv'
  BY <1>3, OtherNext, MissingNext, CachedNext
<1> QED
  BY <1>1, <1>2, <1>3 DEF Next

-----------------------------------------------------------------------------
(* The theorems *)

\* Whatever the sizes of a file and of what zlib makes of it, and however
\* many turns the compressor takes, deflate() never writes outside the
\* output buffer.
THEOREM DeflateStaysInBuffer == Spec => []RoomInBuffer
<1>1. FilesInv => RoomInBuffer
  BY DEF FilesInv, CompressorOK, RoomInBuffer
<1> QED
  BY FilesInit, FilesNext, <1>1, PTL DEF Spec

\* Whatever is on the disk and in whatever order its entries are visited, a
\* response is the whole file the target names, packed exactly when that is
\* smaller and the client reads gzip, or 404 when the target names nothing.
THEOREM AnswersAreTheFiles == Spec => []AnswersMatchDisk
<1>1. FilesInv => AnswersMatchDisk
  BY DEF FilesInv
<1> QED
  BY FilesInit, FilesNext, <1>1, PTL DEF Spec
=============================================================================
