----------------------------- MODULE FileServer -----------------------------
(***************************************************************************)
(* The files of the http server: FileManager fills its cache when it is    *)
(* constructed, through the Compressor, and HttpFileServer then answers    *)
(* requests from it.  The cache never changes again, so that the threads   *)
(* of the server share it freely and an answer is one step.                *)
(*                                                                         *)
(* The disk is any set of at most MaxEntries entries, visited in any       *)
(* order.  A file is known by its path, its size and the size zlib packs   *)
(* it to; sizes are in units of which Chunk make the 1024 bytes the        *)
(* output buffer of the compressor grows by.                               *)
(***************************************************************************)
EXTENDS Integers, FiniteSets

CONSTANTS
  Dirs,        \* directories, as in the part of a path up to its last "/"
  Bases,       \* names of files without their extension
  Extensions,  \* what follows the last "."
  Chunk,       \* the 1024 of the compressor
  MaxEntries,  \* bound of the model: entries on the disk
  MaxSize,     \* bound of the model: size of a file
  MaxPacked    \* bound of the model: size zlib packs a file to

ASSUME ChunkAssumption == Chunk \in Nat \ {0}
ASSUME SizesAssumption == {MaxEntries, MaxSize, MaxPacked} \subseteq Nat \ {0}

Paths == Dirs \X Bases \X Extensions
DirOf(p) == <<p[1]>>
IsIndex(p) == p[2] = "index" /\ p[3] = "html"

\* What a request may name: a path, a directory with its "/", or the route
\* of the custom handler.
CustomRoute == <<"custom">>
Targets == Paths \cup {DirOf(p) : p \in Paths} \cup {CustomRoute}
Requests == [get : BOOLEAN, target : Targets, gzip : BOOLEAN]

Kinds == {"directory", "unreadable", "file"}
DiskEntries ==
  [kind : {"file"}, size : 0..MaxSize, packed : 1..MaxPacked]
    \cup [kind : Kinds \ {"file"}, size : {0}, packed : {1}]

VARIABLES
  disk,      \* what is under the base path
  toVisit,   \* entries recursive_directory_iterator has yet to yield
  loading,   \* the file being loaded, or NoPath
  buffer,    \* output.size()
  produced,  \* size_compressed
  room,      \* deflate_s.avail_out after the last deflate()
  cache,     \* _fileCache
  place,     \* "build", "deflate", "deflated" or "serve"
  request,   \* the last request
  answer     \* and its response

compressVars == <<buffer, produced, room>>
serveVars == <<request, answer>>
vars == <<disk, toVisit, loading, compressVars, cache, place, serveVars>>

NoPath == <<>>
NoEntry == [file |-> NoPath]
NoRequest == [target |-> <<>>]
NoAnswer == [status |-> "none"]

Min(a, b) == IF a < b THEN a ELSE b
Larger(a, b) == IF a < b THEN b ELSE a

\* _buildTypesMap
TypesMap ==
  [ico |-> "image/x-icon", html |-> "text/html", js |-> "text/javascript",
   json |-> "application/json", css |-> "text/css", png |-> "image/png",
   jpg |-> "image/jpeg", wav |-> "audio/wav", mp3 |-> "audio/mpeg",
   svg |-> "image/svg+xml", pdf |-> "application/pdf",
   doc |-> "application/msword", wasm |-> "application/wasm"]

TypeOf(p) == IF p[3] \in DOMAIN TypesMap THEN TypesMap[p[3]] ELSE "text/plain"

Init ==
  /\ \E paths \in SUBSET Paths :
       /\ Cardinality(paths) <= MaxEntries
       /\ disk \in [paths -> DiskEntries]
  /\ toVisit = DOMAIN disk
  /\ loading = NoPath
  /\ buffer = 0
  /\ produced = 0
  /\ room = 0
  /\ cache = [t \in Targets |-> NoEntry]
  /\ place = "build"
  /\ request = NoRequest
  /\ answer = NoAnswer

(***************************************************************************)
(* _buildFileCache and _loadFile                                           *)
(***************************************************************************)
\* _loadFile returns null for what is no regular file or cannot be opened.
SkipEntry(p) ==
  /\ place = "build"
  /\ p \in toVisit
  /\ disk[p].kind # "file"
  /\ toVisit' = toVisit \ {p}
  /\ UNCHANGED <<disk, loading, compressVars, cache, place, serveVars>>

LoadFile(p) ==
  /\ place = "build"
  /\ p \in toVisit
  /\ disk[p].kind = "file"
  /\ toVisit' = toVisit \ {p}
  /\ loading' = p
  /\ buffer' = 0
  /\ produced' = 0
  /\ place' = "deflate"
  /\ UNCHANGED <<disk, room, cache, serveVars>>

\* One turn of the compressor's loop: deflate() fills what it is given, or
\* ends before.
Increase == disk[loading].size \div 2 + Chunk

\* Mutant: the buffer grows to one increase only.
NewSizeSmall == Larger(buffer, Increase)

NewSize == Larger(buffer, produced + Increase)

\* Mutant: the loop ends after its first turn.
AnotherTurnNever(left) == FALSE

AnotherTurn(left) == left = 0

Deflate ==
  LET out == Min(Increase, disk[loading].packed - produced)
  IN  /\ place = "deflate"
      /\ buffer' = NewSize
      /\ produced' = produced + out
      /\ room' = Increase - out
      /\ place' = IF AnotherTurn(room') THEN "deflate" ELSE "deflated"
      /\ UNCHANGED <<disk, toVisit, loading, cache, serveVars>>

\* The compressed content, of which output.resize() keeps what was produced,
\* is kept when it is the smaller one; the entry is stored under the path
\* and, for an index.html, under its directory.
CacheEntry ==
  [file |-> loading,
   compressed |-> IF produced < disk[loading].size THEN produced ELSE 0,
   type |-> TypeOf(loading)]

CacheKeys(p) == {p} \cup (IF IsIndex(p) THEN {DirOf(p)} ELSE {})

CacheFile ==
  /\ place = "deflated"
  /\ cache' = [t \in Targets |-> IF t \in CacheKeys(loading) THEN CacheEntry ELSE cache[t]]
  /\ loading' = NoPath
  /\ buffer' = 0
  /\ produced' = 0
  /\ room' = 0
  /\ place' = "build"
  /\ UNCHANGED <<disk, toVisit, serveVars>>

BuildDone ==
  /\ place = "build"
  /\ toVisit = {}
  /\ place' = "serve"
  /\ UNCHANGED <<disk, toVisit, loading, compressVars, cache, serveVars>>

(***************************************************************************)
(* _onNewConnection and _onGetRequest                                      *)
(***************************************************************************)
Respond(r, a) ==
  /\ place = "serve"
  /\ request' = r
  /\ answer' = a
  /\ UNCHANGED <<disk, toVisit, loading, compressVars, cache, place>>

OnOtherMethod(r) ==
  /\ ~r.get
  /\ Respond(r, [status |-> "bad_request"])

OnCustomRequest(r) ==
  /\ r.get
  /\ r.target = CustomRoute
  /\ Respond(r, [status |-> "custom"])

\* getFile
GetFile(target) == cache[target]

OnMissingFile(r) ==
  /\ r.get
  /\ r.target # CustomRoute
  /\ GetFile(r.target) = NoEntry
  /\ Respond(r, [status |-> "not_found"])

IsGzipCompressionPossible(e, r) == e.compressed > 0 /\ r.gzip

OnCachedFile(r) ==
  LET e == GetFile(r.target)
      gzip == IsGzipCompressionPossible(e, r)
  IN  /\ r.get
      /\ r.target # CustomRoute
      /\ e # NoEntry
      /\ Respond(r, [status |-> "ok", file |-> e.file, type |-> e.type, gzip |-> gzip,
                     length |-> IF gzip THEN e.compressed ELSE disk[e.file].size])

Build ==
  \/ \E p \in Paths : SkipEntry(p) \/ LoadFile(p)
  \/ Deflate \/ CacheFile \/ BuildDone

Next ==
  \/ Build
  \/ \E r \in Requests :
       \/ OnOtherMethod(r) \/ OnCustomRequest(r)
       \/ OnMissingFile(r) \/ OnCachedFile(r)

Spec == Init /\ [][Next]_vars

-----------------------------------------------------------------------------
(* Properties *)

\* The room given to deflate() is inside the output buffer, whatever number
\* of turns the compression takes.
RoomInBuffer == produced + room <= buffer

\* "open every files (when possible)", "compressed files must be smaller to
\* be kept in the cache", "404 status if the requested file is missing": an
\* answer is, from any thread and in any order of the directory, the whole
\* file the target names on the disk, packed only when that is smaller and
\* the client reads gzip.
Named(target) ==
  {p \in DOMAIN disk :
     disk[p].kind = "file" /\ (target = p \/ (target = DirOf(p) /\ IsIndex(p)))}

AnswersMatchDisk ==
  answer.status = "ok" \/ answer.status = "not_found" =>
    IF answer.status = "not_found"
      THEN Named(request.target) = {}
      ELSE LET f == disk[answer.file]
               packed == request.gzip /\ f.packed < f.size
           IN  /\ answer.file \in Named(request.target)
               /\ answer.gzip = packed
               /\ answer.length = IF packed THEN f.packed ELSE f.size
=============================================================================
