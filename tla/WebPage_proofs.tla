---------------------------- MODULE WebPage_proofs ----------------------------
(***************************************************************************)
(* Proofs about WebPage and the WasmConnection in it, for any number of    *)
(* connections and messages, and a log of any size.                        *)
(***************************************************************************)
EXTENDS WebPage, SequenceTheorems, TLAPS

ReadyStates == {"connecting", "open", "closing", "closed"}
Spoken == {"info", "error"}
LineKinds == Spoken \cup {"progress"}

TypeOK ==
  /\ isConnected \in BOOLEAN
  /\ ready \in Seq(ReadyStates)
  /\ sent \in Seq(Nat) /\ Len(sent) = Len(ready)
  /\ thrown \in BOOLEAN
  /\ overlapped \in BOOLEAN
  /\ lines \in Seq(LineKinds)

\* A connect() that found no socket open, on its way or closing leaves the
\* newest socket alone with its events.
OthersClosed ==
  ~overlapped => \A s \in DOMAIN ready : s # wsSocket => ready[s] = "closed"

PageInv == TypeOK /\ OthersClosed /\ FlagIsHonest /\ PingsGoOut /\ TidyLog

\* What the steps of the page do to the connection.
WasmNext ==
  \/ Connect \/ Disconnect \/ SendUtf8Text
  \/ \E s \in DOMAIN ready : OnOpen(s) \/ PeerCloses(s) \/ Closed(s)

-----------------------------------------------------------------------------
(* The logger *)

Tidy(log) == \A i \in 1..(Len(log) - 1) : log[i] # "progress" \/ log[i + 1] # "progress"

\* The lines a step adds, but for a progress line, are no progress lines.
LEMMA SpokenLines ==
  ASSUME NEW n \in Nat, NEW m \in Nat
  PROVE  /\ Infos(n) \in Seq(Spoken) /\ Errors(n) \in Seq(Spoken)
         /\ Infos(n) \o Errors(m) \in Seq(Spoken)
<1>1. ASSUME NEW k \in Nat PROVE Infos(k) \in Seq(Spoken) /\ Errors(k) \in Seq(Spoken)
  <2>1. Infos(k) \in [1..k -> Spoken] /\ Errors(k) \in [1..k -> Spoken]
    BY DEF Infos, Errors, Spoken
  <2> QED
    BY <2>1, SeqDef
<1> QED
  BY <1>1, ConcatProperties

\* Two logs one after the other: no progress line of the first meets one of
\* the second.
LEMMA JoinedTidy ==
  ASSUME NEW a \in Seq(LineKinds), NEW b \in Seq(LineKinds), Tidy(a), Tidy(b),
         a = <<>> \/ b = <<>> \/ a[Len(a)] # "progress" \/ b[1] # "progress"
  PROVE  a \o b \in Seq(LineKinds) /\ Tidy(a \o b)
<1>1. /\ a \o b \in Seq(LineKinds)
      /\ Len(a \o b) = Len(a) + Len(b)
      /\ \A i \in 1..(Len(a) + Len(b)) :
           (a \o b)[i] = IF i <= Len(a) THEN a[i] ELSE b[i - Len(a)]
  BY ConcatProperties
<1>2. Len(a) \in Nat /\ Len(b) \in Nat
  BY LenProperties
<1>3. ASSUME NEW i \in 1..(Len(a \o b) - 1)
      PROVE  (a \o b)[i] # "progress" \/ (a \o b)[i + 1] # "progress"
  <2>0. i \in 1..(Len(a) + Len(b)) /\ i + 1 \in 1..(Len(a) + Len(b))
    BY <1>1, <1>2, <1>3
  <2>1. CASE i + 1 <= Len(a)
    <3>1. i \in 1..(Len(a) - 1)
      BY <2>1, <1>2
    <3>2. (a \o b)[i] = a[i] /\ (a \o b)[i + 1] = a[i + 1]
      BY <1>1, <1>2, <2>0, <2>1
    <3> QED
      BY <3>1, <3>2 DEF Tidy
  <2>2. CASE i = Len(a)
    <3>1. a # <<>> /\ b # <<>>
      BY <2>2, <2>0, <1>2, EmptySeq
    <3>2. (a \o b)[i] = a[Len(a)] /\ (a \o b)[i + 1] = b[1]
      BY <1>1, <1>2, <2>0, <2>2
    <3> QED
      BY <3>1, <3>2
  <2>3. CASE i > Len(a)
    <3>1. i - Len(a) \in 1..(Len(b) - 1) /\ i + 1 - Len(a) = (i - Len(a)) + 1
      BY <2>3, <2>0, <1>2
    <3>2. (a \o b)[i] = b[i - Len(a)] /\ (a \o b)[i + 1] = b[(i - Len(a)) + 1]
      BY <1>1, <1>2, <2>0, <2>3, <3>1
    <3> QED
      BY <3>1, <3>2 DEF Tidy
  <2> QED
    BY <2>1, <2>2, <2>3, <1>2
<1> QED
  BY <1>1, <1>3 DEF Tidy

\* A part of a tidy log is one.
LEMMA PartTidy ==
  ASSUME NEW a \in Seq(LineKinds), Tidy(a), NEW m \in Nat \ {0}, NEW n \in 0..Len(a)
  PROVE  /\ SubSeq(a, m, n) \in Seq(LineKinds) /\ Tidy(SubSeq(a, m, n))
         /\ n >= m - 1 => Len(SubSeq(a, m, n)) = n - m + 1
<1>1. Len(a) \in Nat /\ \A i \in m..n : a[i] \in LineKinds
  BY LenProperties, ElementOfSeq
<1>2. /\ SubSeq(a, m, n) \in Seq(LineKinds)
      /\ Len(SubSeq(a, m, n)) = IF m <= n THEN n - m + 1 ELSE 0
      /\ \A i \in 1..(n - m + 1) : SubSeq(a, m, n)[i] = a[m + i - 1]
  BY <1>1, SubSeqProperties
<1>3. ASSUME NEW i \in 1..(Len(SubSeq(a, m, n)) - 1)
      PROVE  SubSeq(a, m, n)[i] # "progress" \/ SubSeq(a, m, n)[i + 1] # "progress"
  <2>1. m + i - 1 \in 1..(Len(a) - 1) /\ m + (i + 1) - 1 = (m + i - 1) + 1
    BY <1>1, <1>2, <1>3
  <2>2. i \in 1..(n - m + 1) /\ i + 1 \in 1..(n - m + 1)
    BY <1>1, <1>2, <1>3
  <2>3. SubSeq(a, m, n)[i] = a[m + i - 1] /\ SubSeq(a, m, n)[i + 1] = a[(m + i - 1) + 1]
    BY <1>2, <2>1, <2>2
  <2> QED
    BY <2>1, <2>3 DEF Tidy
<1>4. n >= m - 1 => Len(SubSeq(a, m, n)) = n - m + 1
  BY <1>1, <1>2
<1> QED
  BY <1>2, <1>3, <1>4 DEF Tidy

\* _pushText keeps the log tidy and within its bound.
LEMMA PushedTidy ==
  ASSUME NEW a \in Seq(LineKinds), NEW b \in Seq(LineKinds), Tidy(a), Tidy(b),
         a = <<>> \/ b = <<>> \/ a[Len(a)] # "progress" \/ b[1] # "progress"
  PROVE  /\ Pushed(a, b) \in Seq(LineKinds) /\ Tidy(Pushed(a, b))
         /\ Len(Pushed(a, b)) <= MaxLines
<1> DEFINE all == a \o b
<1>1. all \in Seq(LineKinds) /\ Tidy(all)
  BY JoinedTidy
<1>2. Len(all) \in Nat /\ MaxLines \in Nat \ {0}
  BY <1>1, LenProperties, PageBoundsAssumption
<1> HIDE DEF all
<1>3. CASE Len(all) <= MaxLines
  BY <1>1, <1>2, <1>3 DEF Pushed, all
<1>4. CASE Len(all) > MaxLines
  <2>1. Len(all) - MaxLines + 1 \in Nat \ {0} /\ Len(all) \in 0..Len(all)
    BY <1>2, <1>4
  <2>2. Pushed(a, b) = SubSeq(all, Len(all) - MaxLines + 1, Len(all))
    BY <1>2, <1>4 DEF Pushed, all
  <2>3. /\ Pushed(a, b) \in Seq(LineKinds) /\ Tidy(Pushed(a, b))
        /\ Len(all) >= (Len(all) - MaxLines + 1) - 1
             => Len(Pushed(a, b)) = Len(all) - (Len(all) - MaxLines + 1) + 1
    BY <1>1, <2>1, <2>2, PartTidy
  <2>4. Len(Pushed(a, b)) <= MaxLines
    BY <2>3, <1>2
  <2> QED
    BY <2>3, <2>4
<1> QED
  BY <1>2, <1>3, <1>4

\* Every step leaves the log alone, replaces the progress line at its end,
\* or adds lines that are no progress lines.
LEMMA LogSteps ==
  ASSUME [Next]_vars
  PROVE  UNCHANGED lines \/ OnProgress \/ \E new \in Seq(Spoken) : Log(new)
<1>0. /\ 0 \in Nat /\ 1 \in Nat /\ 2 \in Nat /\ 4 \in Nat /\ 6 \in Nat /\ 8 \in Nat
      /\ 3..4 \subseteq Nat
  OBVIOUS
<1>1. CASE UNCHANGED vars
  BY <1>1 DEF vars
<1>2. CASE Loading
  <2>1. CASE PageLoads \/ ConfigFetched \/ ScriptFetched \/ ModuleLoaded
    BY <1>0, <2>1, SpokenLines DEF PageLoads, ConfigFetched, ScriptFetched, ModuleLoaded
  <2>2. ASSUME NEW from, NEW said \in Nat, Fails(from, said)
        PROVE  \E new \in Seq(Spoken) : Log(new)
    BY <1>0, <2>2, SpokenLines DEF Fails
  <2> QED
    BY <1>0, <1>2, <2>1, <2>2
       DEF Loading, ConfigFails, FeatureMissing, ScriptFails, ModuleFails
<1>3. CASE Prints
  <2>1. PICK kind \in Spoken : Log(<<kind>>)
    BY <1>3 DEF Prints, Spoken
  <2>2. <<kind>> \in Seq(Spoken)
    OBVIOUS
  <2> QED
    BY <2>1, <2>2
<1>4. ASSUME NEW percent, SetStatusDownloading(percent) PROVE UNCHANGED lines \/ OnProgress
  BY <1>4 DEF SetStatusDownloading
<1>5. \A states : \E n \in Nat : Exception(states) = Errors(n)
  BY <1>0 DEF Exception
<1>6. ASSUME NEW s \in DOMAIN ready, SocketEvent(s) PROVE \E new \in Seq(Spoken) : Log(new)
  <2>1. CASE Opens(s)
    <3>1. PICK n \in Nat : Exception(ready') = Errors(n)
      BY <1>5
    <3>2. Log(Infos(2) \o Errors(n))
      BY <2>1, <3>1 DEF Opens
    <3> QED
      BY <1>0, <3>2, SpokenLines
  <2>2. CASE ReceivesMessage(s)
    BY <1>0, <2>2, SpokenLines DEF ReceivesMessage
  <2>3. CASE Ends(s)
    BY <1>0, <2>3, SpokenLines DEF Ends
  <2> QED
    BY <1>6, <2>1, <2>2, <2>3 DEF SocketEvent
<1>7. CASE Sends
  BY <1>5, <1>7, SpokenLines DEF Sends
<1>8. CASE Silent
  BY <1>8 DEF Silent
<1> QED
  BY <1>1, <1>2, <1>3, <1>4, <1>6, <1>7, <1>8 DEF Next

LEMMA LogNext ==
  ASSUME lines \in Seq(LineKinds), TidyLog, [Next]_vars
  PROVE  lines' \in Seq(LineKinds) /\ TidyLog'
<1>1. Len(lines) \in Nat /\ Tidy(lines)
  BY LenProperties DEF TidyLog, Tidy
<1>2. CASE UNCHANGED lines
  BY <1>2 DEF TidyLog
<1>3. ASSUME NEW new \in Seq(Spoken), Log(new) PROVE lines' \in Seq(LineKinds) /\ TidyLog'
  <2>1. new \in Seq(LineKinds)
    BY SeqMonotonic DEF LineKinds
  <2>2. Len(new) \in Nat /\ \A i \in 1..Len(new) : new[i] # "progress"
    BY LenProperties, ElementOfSeq DEF Spoken
  <2>3. Tidy(new) /\ (new = <<>> \/ new[1] # "progress")
    BY <2>2, EmptySeq DEF Tidy
  <2>4. lines' \in Seq(LineKinds) /\ Tidy(lines') /\ Len(lines') <= MaxLines
    BY <1>1, <1>3, <2>1, <2>3, PushedTidy DEF Log
  <2> QED
    BY <2>4 DEF TidyLog, Tidy
<1>4. CASE OnProgress
  <2> DEFINE kept == IF lines # <<>> /\ Last(lines) = "progress" THEN Front(lines) ELSE lines
  <2>1. <<"progress">> \in Seq(LineKinds) /\ Len(<<"progress">>) = 1 /\ Tidy(<<"progress">>)
    BY DEF LineKinds, Tidy
  <2>2. kept \in Seq(LineKinds) /\ Tidy(kept) /\ (kept = <<>> \/ kept[Len(kept)] # "progress")
    <3>1. CASE lines # <<>> /\ Last(lines) = "progress"
      <4>0. Len(lines) \in Nat \ {0}
        BY <3>1, EmptySeq
      <4>1. /\ Front(lines) \in Seq(LineKinds) /\ Tidy(Front(lines))
            /\ Len(Front(lines)) = Len(lines) - 1
        <5>1. 1 \in Nat \ {0} /\ Len(lines) - 1 \in 0..Len(lines)
          BY <4>0
        <5>2. SubSeq(lines, 1, Len(lines) - 1) = Front(lines)
          BY DEF Front
        <5>3. Len(lines) - 1 >= 1 - 1 /\ (Len(lines) - 1) - 1 + 1 = Len(lines) - 1
          BY <4>0
        <5> QED
          BY <1>1, <5>1, <5>2, <5>3, PartTidy
      <4>2. CASE Len(lines) = 1
        BY <3>1, <4>1, <4>2, EmptySeq
      <4>3. CASE Len(lines) > 1
        <5>1. Front(lines)[Len(lines) - 1] = lines[Len(lines) - 1]
          BY <4>3, <1>1, ElementOfSeq, SubSeqProperties DEF Front
        <5>2. lines[(Len(lines) - 1) + 1] = "progress" /\ Len(lines) - 1 \in 1..(Len(lines) - 1)
          BY <3>1, <4>3, <1>1 DEF Last
        <5> QED
          BY <3>1, <4>1, <5>1, <5>2, <1>1 DEF Tidy
      <4>4. Len(lines) = 1 \/ Len(lines) > 1
        <5>1. \A n \in Nat \ {0} : n = 1 \/ n > 1
          OBVIOUS
        <5> QED
          BY <4>0, <5>1
      <4> QED
        BY <4>2, <4>3, <4>4
    <3>2. CASE ~(lines # <<>> /\ Last(lines) = "progress")
      BY <1>1, <3>2 DEF Last
    <3> QED
      BY <3>1, <3>2
  <2>3. lines' = Pushed(kept, <<"progress">>)
    BY <1>4 DEF OnProgress
  <2> HIDE DEF kept
  <2>4. lines' \in Seq(LineKinds) /\ Tidy(lines') /\ Len(lines') <= MaxLines
    BY <2>1, <2>2, <2>3, PushedTidy
  <2> QED
    BY <2>4 DEF TidyLog, Tidy
<1> QED
  BY <1>2, <1>3, <1>4, LogSteps

\* What a part of a log holds.
LEMMA PartIs ==
  ASSUME NEW a \in Seq(LineKinds), NEW m \in Nat \ {0}, NEW n \in 0..Len(a), n >= m - 1
  PROVE  /\ SubSeq(a, m, n) \in Seq(LineKinds) /\ Len(SubSeq(a, m, n)) = n - m + 1
         /\ \A i \in 1..(n - m + 1) : SubSeq(a, m, n)[i] = a[m + i - 1]
<1>1. Len(a) \in Nat /\ \A i \in m..n : a[i] \in LineKinds
  BY LenProperties, ElementOfSeq
<1> QED
  BY <1>1, SubSeqProperties

\* _pushText cuts old lines only from a log it leaves full, no more of them
\* than it adds, and ends with the last line it adds.
LEMMA PushedKeeps ==
  ASSUME NEW a \in Seq(LineKinds), NEW b \in Seq(LineKinds), Len(a) <= MaxLines,
         Len(b) > 0
  PROVE  \E cut \in 0..Len(a) :
           /\ cut <= Len(b)
           /\ cut > 0 => Len(Pushed(a, b)) = MaxLines
           /\ \A i \in (cut + 1)..Len(a) :
                i - cut \in DOMAIN Pushed(a, b) /\ Pushed(a, b)[i - cut] = a[i]
           /\ Last(Pushed(a, b)) = b[Len(b)]
<1> DEFINE all == a \o b
<1>1. /\ all \in Seq(LineKinds) /\ Len(all) = Len(a) + Len(b)
      /\ \A i \in 1..(Len(a) + Len(b)) : all[i] = IF i <= Len(a) THEN a[i] ELSE b[i - Len(a)]
  BY ConcatProperties
<1>2. Len(a) \in Nat /\ Len(b) \in Nat \ {0} /\ MaxLines \in Nat \ {0}
  BY LenProperties, PageBoundsAssumption
<1>3. all[Len(all)] = b[Len(b)]
  BY <1>1, <1>2
<1> HIDE DEF all
<1>4. CASE Len(all) <= MaxLines
  <2>1. Pushed(a, b) = all
    BY <1>1, <1>2, <1>4 DEF Pushed, all
  <2>2. DOMAIN all = 1..Len(all)
    BY <1>1, LenProperties
  <2>3. \A i \in (0 + 1)..Len(a) : i - 0 \in DOMAIN all /\ all[i - 0] = a[i]
    BY <1>1, <1>2, <2>2
  <2>4. Last(all) = b[Len(b)]
    BY <1>3 DEF Last
  <2> QED
    BY <1>2, <2>1, <2>3, <2>4
<1>5. CASE Len(all) > MaxLines
  <2> DEFINE from == Len(all) - MaxLines + 1
             cut == IF from - 1 <= Len(a) THEN from - 1 ELSE Len(a)
             rest == SubSeq(all, from, Len(all))
  <2>1. /\ from \in Nat \ {0} /\ Len(all) \in Nat /\ Len(all) - from + 1 = MaxLines
        /\ from <= Len(all) /\ from - 1 <= Len(b) /\ from + MaxLines - 1 = Len(a) + Len(b)
    BY <1>1, <1>2, <1>5
  <2>2. Len(all) \in 0..Len(all) /\ Len(all) >= from - 1
    BY <2>1
  <2>3. /\ Len(rest) = MaxLines /\ rest \in Seq(LineKinds)
        /\ \A i \in 1..MaxLines : rest[i] = all[from + i - 1]
    <3> HIDE DEF from
    <3>1. /\ rest \in Seq(LineKinds) /\ Len(rest) = Len(all) - from + 1
          /\ \A i \in 1..(Len(all) - from + 1) : rest[i] = all[from + i - 1]
      BY <1>1, <2>1, <2>2, PartIs
    <3> QED
      BY <2>1, <3>1
  <2>4. Pushed(a, b) = rest
    BY <1>2, <1>5, <2>1 DEF Pushed, all
  <2> HIDE DEF from
  <2>5. cut \in 0..Len(a) /\ cut <= Len(b)
    BY <1>1, <1>2, <2>1
  <2>6. DOMAIN rest = 1..MaxLines
    BY <2>3, LenProperties
  <2>7. ASSUME NEW i \in (cut + 1)..Len(a)
        PROVE  i - cut \in DOMAIN rest /\ rest[i - cut] = a[i]
    <3>1. cut = from - 1 /\ i \in Nat /\ i <= Len(a) /\ i >= from
      BY <1>2, <2>1, <2>5
    <3> HIDE DEF cut, rest
    <3>2. i - cut \in 1..MaxLines /\ from + (i - cut) - 1 = i /\ i \in 1..(Len(a) + Len(b))
      BY <1>1, <1>2, <2>1, <3>1
    <3>3. rest[i - cut] = all[from + (i - cut) - 1]
      BY <2>3, <3>2
    <3>4. rest[i - cut] = all[i] /\ all[i] = a[i]
      BY <1>1, <3>1, <3>2, <3>3
    <3> QED
      BY <2>6, <3>2, <3>4
  <2>8. Last(rest) = b[Len(b)]
    <3>1. MaxLines \in 1..MaxLines /\ from + MaxLines - 1 = Len(all)
      BY <1>2, <2>1
    <3> QED
      BY <1>3, <2>3, <3>1 DEF Last
  <2> HIDE DEF cut, rest
  <2> QED
    BY <2>3, <2>4, <2>5, <2>7, <2>8
<1> QED
  BY <1>1, <1>2, <1>4, <1>5

\* A log without its last line.
LEMMA FrontIs ==
  ASSUME NEW a \in Seq(LineKinds), Len(a) \in Nat \ {0}
  PROVE  /\ Front(a) \in Seq(LineKinds) /\ Len(Front(a)) = Len(a) - 1
         /\ \A i \in 1..(Len(a) - 1) : Front(a)[i] = a[i]
<1> DEFINE n == Len(a) - 1
<1>1. /\ 1 \in Nat \ {0} /\ n \in 0..Len(a) /\ n >= 1 - 1 /\ n - 1 + 1 = n
      /\ \A i \in 1..n : 1 + i - 1 = i
  OBVIOUS
<1>2. Front(a) = SubSeq(a, 1, n)
  BY DEF Front
<1> HIDE DEF n
<1>3. /\ Front(a) \in Seq(LineKinds) /\ Len(Front(a)) = n - 1 + 1
      /\ \A i \in 1..(n - 1 + 1) : Front(a)[i] = a[1 + i - 1]
  BY <1>1, <1>2, PartIs
<1>4. Len(Front(a)) = n /\ \A i \in 1..n : Front(a)[i] = a[i]
  BY <1>1, <1>3
<1> QED
  BY <1>3, <1>4 DEF n

\* What a step adds leaves what was said.
LEMMA LogSaidStays ==
  ASSUME lines \in Seq(LineKinds), TidyLog, [Next]_vars
  PROVE  [SaidStays]_lines
<1>0. Len(lines) \in Nat /\ Len(lines) <= MaxLines /\ MaxLines \in Nat \ {0}
  BY LenProperties, PageBoundsAssumption DEF TidyLog
<1>1. ASSUME NEW new \in Seq(Spoken), Log(new) PROVE [SaidStays]_lines
  <2>0. Len(new) \in Nat /\ new \in Seq(LineKinds) /\ \A i \in 1..Len(new) : new[i] # "progress"
    BY LenProperties, ElementOfSeq, SeqMonotonic DEF Spoken, LineKinds
  <2>1. CASE Len(new) = 0
    <3>1. lines \o new = lines
      BY <2>0, <2>1, EmptySeq, ConcatEmptySeq
    <3> QED
      BY <1>0, <1>1, <3>1 DEF Log, Pushed
  <2>2. CASE Len(new) > 0
    <3>1. PICK cut \in 0..Len(lines) :
            /\ cut > 0 => Len(lines') = MaxLines
            /\ \A i \in (cut + 1)..Len(lines) :
                 i - cut \in DOMAIN lines' /\ lines'[i - cut] = lines[i]
            /\ Last(lines') = new[Len(new)]
      BY <1>0, <1>1, <2>0, <2>2, PushedKeeps DEF Log
    <3>2. Last(lines') # "progress"
      BY <2>0, <2>2, <3>1
    <3> QED
      BY <3>1, <3>2 DEF SaidStays
  <2> QED
    BY <2>0, <2>1, <2>2
<1>2. ASSUME OnProgress PROVE SaidStays
  <2> DEFINE kept == IF lines # <<>> /\ Last(lines) = "progress" THEN Front(lines) ELSE lines
             new == <<"progress">>
  <2>1. /\ kept \in Seq(LineKinds) /\ Len(kept) \in Nat /\ Len(kept) <= Len(lines)
        /\ \A i \in 1..Len(kept) : kept[i] = lines[i]
        /\ \A i \in 1..Len(lines) : i <= Len(kept) \/ (i = Len(lines) /\ lines[i] = "progress")
    <3>1. CASE lines # <<>> /\ Last(lines) = "progress"
      <4>1. Len(lines) \in Nat \ {0}
        BY <3>1, <1>0, EmptySeq
      <4>2. /\ Front(lines) \in Seq(LineKinds) /\ Len(Front(lines)) = Len(lines) - 1
            /\ \A i \in 1..(Len(lines) - 1) : Front(lines)[i] = lines[i]
        BY <4>1, FrontIs
      <4> QED
        BY <3>1, <4>1, <4>2 DEF Last
    <3>2. CASE ~(lines # <<>> /\ Last(lines) = "progress")
      BY <1>0, <3>2
    <3> QED
      BY <3>1, <3>2
  <2>2. lines' = Pushed(kept, new)
    BY <1>2 DEF OnProgress
  <2>3. new \in Seq(LineKinds) /\ Len(new) = 1 /\ new[1] = "progress"
    BY DEF LineKinds
  <2> HIDE DEF kept, new
  <2>4. Len(kept) <= MaxLines /\ Len(new) > 0
    BY <1>0, <2>1, <2>3
  <2>5. PICK cut \in 0..Len(kept) :
          /\ cut <= 1
          /\ cut > 0 => Len(lines') = MaxLines
          /\ \A i \in (cut + 1)..Len(kept) :
               i - cut \in DOMAIN lines' /\ lines'[i - cut] = kept[i]
          /\ Last(lines') = "progress"
    <3>1. \E cut \in 0..Len(kept) :
            /\ cut <= Len(new)
            /\ cut > 0 => Len(Pushed(kept, new)) = MaxLines
            /\ \A i \in (cut + 1)..Len(kept) :
                 /\ i - cut \in DOMAIN Pushed(kept, new)
                 /\ Pushed(kept, new)[i - cut] = kept[i]
            /\ Last(Pushed(kept, new)) = new[Len(new)]
      BY <2>1, <2>3, <2>4, PushedKeeps
    <3> QED
      BY <2>2, <2>3, <3>1
  <2>6. cut \in 0..1 /\ cut \in Nat
    BY <2>1, <2>5
  <2>7. ASSUME NEW i \in (cut + 1)..Len(lines)
        PROVE  \/ i = Len(lines) /\ lines[i] = "progress" /\ Last(lines') = "progress"
               \/ i - cut \in DOMAIN lines' /\ lines'[i - cut] = lines[i]
    <3>1. i \in 1..Len(lines)
      BY <1>0, <2>6
    <3>2. CASE i <= Len(kept)
      <4>1. i \in (cut + 1)..Len(kept) /\ i \in 1..Len(kept)
        BY <1>0, <2>1, <2>6, <3>1, <3>2
      <4> QED
        BY <2>1, <2>5, <4>1
    <3> QED
      BY <2>1, <2>5, <3>1, <3>2
  <2> QED
    BY <2>5, <2>6, <2>7 DEF SaidStays
<1>3. UNCHANGED lines => [SaidStays]_lines
  OBVIOUS
<1> QED
  BY <1>1, <1>2, <1>3, LogSteps

-----------------------------------------------------------------------------
(* The connection *)

LEMMA WasmSteps ==
  ASSUME [Next]_vars
  PROVE  WasmNext \/ UNCHANGED wasmVars
<1>1. CASE UNCHANGED vars
  BY <1>1 DEF vars
<1>2. CASE Loading
  BY <1>2 DEF Loading, PageLoads, ConfigFetched, FeatureMissing, ConfigFails, ScriptFetched,
     ScriptFails, ModuleLoaded, ModuleFails, Fails, StartApplication, WasmNext
<1>3. CASE Prints \/ \E percent \in Percents \cup {NaN} : SetStatusDownloading(percent)
  BY <1>3 DEF Prints, SetStatusDownloading, ModuleSpeaks
<1>4. CASE \E s \in DOMAIN ready : SocketEvent(s)
  BY <1>4 DEF SocketEvent, Opens, ReceivesMessage, Ends, OnMessage, WasmNext
<1>5. CASE Sends \/ Silent
  BY <1>5 DEF Sends, Silent, WasmNext
<1> QED
  BY <1>1, <1>2, <1>3, <1>4, <1>5 DEF Next

\* The connection's part of the invariant.
WasmTypeOK ==
  /\ isConnected \in BOOLEAN
  /\ ready \in Seq(ReadyStates)
  /\ sent \in Seq(Nat) /\ Len(sent) = Len(ready)
  /\ thrown \in BOOLEAN
  /\ overlapped \in BOOLEAN

WasmInv == WasmTypeOK /\ OthersClosed /\ FlagIsHonest /\ PingsGoOut

\* The sockets, once a step set the state of one of them.
LEMMA SetReady ==
  ASSUME WasmTypeOK, NEW s \in DOMAIN ready, NEW v \in ReadyStates,
         ready' = [ready EXCEPT ![s] = v]
  PROVE  /\ ready' \in Seq(ReadyStates) /\ Len(ready') = Len(ready)
         /\ DOMAIN ready = 1..Len(ready) /\ DOMAIN ready' = DOMAIN ready
         /\ Len(ready) \in Nat \ {0}
         /\ wsSocket' = wsSocket /\ wsSocket \in DOMAIN ready
         /\ \A u \in DOMAIN ready : ready'[u] = IF u = s THEN v ELSE ready[u]
<1>1. DOMAIN ready = 1..Len(ready) /\ Len(ready) \in Nat /\ Len(ready) # 0
  BY LenProperties DEF WasmTypeOK
<1>2. /\ ready' \in Seq(ReadyStates) /\ Len(ready') = Len(ready)
      /\ \A u \in 1..Len(ready) : ready'[u] = IF u = s THEN v ELSE ready[u]
  BY <1>1, ExceptSeq DEF WasmTypeOK
<1> QED
  BY <1>1, <1>2, LenProperties DEF wsSocket

\* What went out, once a message was sent on socket s.
LEMMA SetSent ==
  ASSUME WasmTypeOK, NEW states, NEW s \in DOMAIN ready, SendTo(states, s)
  PROVE  /\ sent' \in Seq(Nat) /\ Len(sent') = Len(sent) /\ thrown' \in BOOLEAN
         /\ \A u \in DOMAIN ready : sent[u] \in Nat /\ sent'[u] \in Nat /\ sent'[u] >= sent[u]
         /\ states[s] = "open" => sent'[s] > 0
         /\ states[s] # "connecting" => thrown' = thrown
<1>1. DOMAIN ready = 1..Len(ready) /\ Len(ready) \in Nat /\ Len(sent) = Len(ready)
  BY LenProperties DEF WasmTypeOK
<1>2. \A u \in DOMAIN ready : sent[u] \in Nat
  BY <1>1, ElementOfSeq DEF WasmTypeOK
<1>3. CASE states[s] = "open"
  <2>1. sent' = [sent EXCEPT ![s] = sent[s] + 1] /\ sent[s] + 1 \in Nat
    BY <1>2, <1>3 DEF SendTo
  <2>2. /\ sent' \in Seq(Nat) /\ Len(sent') = Len(sent)
        /\ \A u \in DOMAIN ready : sent'[u] = IF u = s THEN sent[s] + 1 ELSE sent[u]
    BY <1>1, <2>1, ExceptSeq DEF WasmTypeOK
  <2> QED
    BY <1>2, <1>3, <2>2 DEF SendTo, WasmTypeOK
<1>4. CASE states[s] # "open"
  BY <1>2, <1>4 DEF SendTo, WasmTypeOK
<1> QED
  BY <1>3, <1>4

LEMMA ConnectKeeps == ASSUME WasmInv, Connect PROVE WasmInv'
<1>0. /\ DOMAIN ready = 1..Len(ready) /\ Len(ready) \in Nat
      /\ \A s \in DOMAIN ready : ready[s] \in ReadyStates
  BY LenProperties, ElementOfSeq DEF WasmInv, WasmTypeOK
<1>1. isConnected => wsSocket \in DOMAIN ready
  BY <1>0 DEF WasmInv, FlagIsHonest, wsSocket
<1>2. AfterDisconnect \in Seq(ReadyStates) /\ Len(AfterDisconnect) = Len(ready)
  <2>1. CASE AfterDisconnect = ready
    BY <2>1 DEF WasmInv, WasmTypeOK
  <2>2. CASE AfterDisconnect = [ready EXCEPT ![wsSocket] = "closing"] /\ isConnected
    BY <2>2, <1>0, <1>1, ExceptSeq DEF WasmInv, WasmTypeOK, ReadyStates
  <2> QED
    BY <2>1, <2>2 DEF AfterDisconnect, CloseSocket
<1>3. "connecting" \in ReadyStates /\ 0 \in Nat
  BY DEF ReadyStates
<1>4. /\ ready' \in Seq(ReadyStates) /\ Len(ready') = Len(ready) + 1
      /\ \A s \in 1..Len(ready) : ready'[s] = AfterDisconnect[s]
      /\ ready'[Len(ready) + 1] = "connecting"
  BY <1>2, <1>3, AppendProperties DEF Connect
<1>5. sent' \in Seq(Nat) /\ Len(sent') = Len(sent) + 1
  BY <1>3, AppendProperties DEF Connect, WasmInv, WasmTypeOK
<1>6. WasmTypeOK'
  BY <1>4, <1>5 DEF Connect, WasmInv, WasmTypeOK
<1>7. DOMAIN ready' = 1..(Len(ready) + 1) /\ wsSocket' = Len(ready) + 1
  BY <1>4, LenProperties DEF wsSocket
<1>8. ASSUME ~overlapped', NEW s \in 1..Len(ready) PROVE ready'[s] = "closed"
  <2>1. \A u \in DOMAIN ready : ready[u] = "closed"
    BY <1>8 DEF Connect
  <2>2. AfterDisconnect = ready
    BY <2>1, <1>1 DEF AfterDisconnect, CloseSocket
  <2> QED
    BY <2>1, <2>2, <1>4, <1>0
<1>9. OthersClosed'
  BY <1>0, <1>7, <1>8 DEF OthersClosed
<1>10. FlagIsHonest'
  BY <1>4, <1>7 DEF Connect, FlagIsHonest
<1>11. PingsGoOut'
  BY <1>0, <1>4, <1>7, <1>8 DEF Connect, PingsGoOut
<1> QED
  BY <1>6, <1>9, <1>10, <1>11 DEF WasmInv

LEMMA DisconnectKeeps == ASSUME WasmInv, Disconnect PROVE WasmInv'
<1>0. /\ DOMAIN ready = 1..Len(ready) /\ Len(ready) \in Nat
      /\ \A s \in DOMAIN ready : ready[s] \in ReadyStates
  BY LenProperties, ElementOfSeq DEF WasmInv, WasmTypeOK
<1>1. isConnected /\ wsSocket \in DOMAIN ready
  BY <1>0 DEF Disconnect, WasmInv, FlagIsHonest, wsSocket
<1>2. CASE ready[wsSocket] \in {"connecting", "open"}
  <2>1. ready' = [ready EXCEPT ![wsSocket] = "closing"] /\ "closing" \in ReadyStates
    BY <1>1, <1>2 DEF Disconnect, AfterDisconnect, CloseSocket, ReadyStates
  <2>2. /\ ready' \in Seq(ReadyStates) /\ Len(ready') = Len(ready)
        /\ DOMAIN ready' = DOMAIN ready /\ wsSocket' = wsSocket
        /\ \A u \in DOMAIN ready : ready'[u] = IF u = wsSocket THEN "closing" ELSE ready[u]
    BY <1>1, <2>1, SetReady DEF WasmInv
  <2>3. WasmTypeOK'
    BY <2>2 DEF Disconnect, WasmInv, WasmTypeOK
  <2>4. OthersClosed' /\ FlagIsHonest' /\ PingsGoOut'
    BY <1>1, <2>2 DEF Disconnect, WasmInv, OthersClosed, FlagIsHonest, PingsGoOut
  <2> QED
    BY <2>3, <2>4 DEF WasmInv
<1>3. CASE ready[wsSocket] \notin {"connecting", "open"}
  <2>1. UNCHANGED <<ready, wsSocket>> /\ ~isConnected'
    BY <1>3, <1>1 DEF Disconnect, AfterDisconnect, CloseSocket, wsSocket
  <2>2. WasmTypeOK'
    BY <2>1 DEF Disconnect, WasmInv, WasmTypeOK
  <2>3. OthersClosed' /\ FlagIsHonest' /\ PingsGoOut'
    BY <1>3, <2>1 DEF Disconnect, WasmInv, OthersClosed, FlagIsHonest, PingsGoOut
  <2> QED
    BY <2>2, <2>3 DEF WasmInv
<1> QED
  BY <1>2, <1>3

LEMMA SendKeeps == ASSUME WasmInv, SendUtf8Text PROVE WasmInv'
<1>0. DOMAIN ready = 1..Len(ready) /\ Len(ready) \in Nat
  BY LenProperties DEF WasmInv, WasmTypeOK
<1>1. isConnected /\ wsSocket \in DOMAIN ready
  BY <1>0 DEF SendUtf8Text, WasmInv, FlagIsHonest, wsSocket
<1>2. /\ sent' \in Seq(Nat) /\ Len(sent') = Len(sent) /\ thrown' \in BOOLEAN
      /\ \A u \in DOMAIN ready : sent[u] \in Nat /\ sent'[u] \in Nat /\ sent'[u] >= sent[u]
      /\ ready[wsSocket] # "connecting" => thrown' = thrown
  BY <1>1, SetSent DEF SendUtf8Text, WasmInv
<1>3. WasmTypeOK'
  BY <1>2 DEF SendUtf8Text, WasmInv, WasmTypeOK
<1>4. OthersClosed' /\ FlagIsHonest'
  BY DEF SendUtf8Text, WasmInv, OthersClosed, FlagIsHonest, wsSocket
<1>5. ~overlapped => ready[wsSocket] # "connecting"
  BY <1>1 DEF WasmInv, FlagIsHonest
<1>6. ASSUME ~overlapped' PROVE ~thrown' /\ \A s \in DOMAIN ready' : ready'[s] = "open" => sent'[s] > 0
  <2>1. ~overlapped /\ ready' = ready
    BY <1>6 DEF SendUtf8Text
  <2>2. ~thrown /\ \A s \in DOMAIN ready : ready[s] = "open" => sent[s] > 0
    BY <2>1 DEF WasmInv, PingsGoOut
  <2>3. thrown' = thrown
    BY <2>1, <1>2, <1>5
  <2> QED
    BY <2>1, <2>2, <2>3, <1>2
<1>7. PingsGoOut'
  BY <1>6 DEF PingsGoOut
<1> QED
  BY <1>3, <1>4, <1>7 DEF WasmInv

LEMMA OnOpenKeeps == ASSUME WasmInv, NEW s \in DOMAIN ready, OnOpen(s) PROVE WasmInv'
<1>1. /\ ready' \in Seq(ReadyStates) /\ Len(ready') = Len(ready)
      /\ DOMAIN ready' = DOMAIN ready /\ wsSocket' = wsSocket /\ wsSocket \in DOMAIN ready
      /\ \A u \in DOMAIN ready : ready'[u] = IF u = s THEN "open" ELSE ready[u]
  BY SetReady DEF OnOpen, WasmInv, ReadyStates
<1>2. /\ sent' \in Seq(Nat) /\ Len(sent') = Len(sent) /\ thrown' \in BOOLEAN
      /\ \A u \in DOMAIN ready : sent[u] \in Nat /\ sent'[u] \in Nat /\ sent'[u] >= sent[u]
      /\ ready'[wsSocket] = "open" => sent'[wsSocket] > 0
      /\ ready'[wsSocket] # "connecting" => thrown' = thrown
  BY <1>1, SetSent DEF OnOpen, OnOpenCallback, WasmInv
<1>3. WasmTypeOK'
  BY <1>1, <1>2 DEF OnOpen, WasmInv, WasmTypeOK
<1>4. ~overlapped => s = wsSocket
  BY DEF OnOpen, WasmInv, OthersClosed
<1>5. OthersClosed'
  BY <1>1, <1>4 DEF OnOpen, WasmInv, OthersClosed
<1>6. FlagIsHonest'
  BY <1>1, <1>4 DEF OnOpen, FlagIsHonest
<1>7. ASSUME ~overlapped' PROVE ~thrown' /\ \A u \in DOMAIN ready' : ready'[u] = "open" => sent'[u] > 0
  <2>1. ~overlapped /\ s = wsSocket /\ ready'[wsSocket] = "open"
    BY <1>7, <1>1, <1>4 DEF OnOpen
  <2>2. ~thrown /\ \A u \in DOMAIN ready : ready[u] = "open" => sent[u] > 0
    BY <2>1 DEF WasmInv, PingsGoOut
  <2> QED
    BY <2>1, <2>2, <1>1, <1>2
<1>8. PingsGoOut'
  BY <1>7 DEF PingsGoOut
<1> QED
  BY <1>3, <1>5, <1>6, <1>8 DEF WasmInv

\* The peer starts to close socket s, or s is gone.
LEMMA EndKeeps ==
  ASSUME WasmInv, NEW s \in DOMAIN ready, PeerCloses(s) \/ Closed(s)
  PROVE  WasmInv'
<1>1. PICK v \in {"closing", "closed"} :
        /\ ready' = [ready EXCEPT ![s] = v]
        /\ v = "closing" => PeerCloses(s)
        /\ v = "closed" => Closed(s)
  BY DEF PeerCloses, Closed
<1>2. /\ ready' \in Seq(ReadyStates) /\ Len(ready') = Len(ready)
      /\ DOMAIN ready' = DOMAIN ready /\ wsSocket' = wsSocket /\ wsSocket \in DOMAIN ready
      /\ Len(ready) \in Nat \ {0}
      /\ \A u \in DOMAIN ready : ready'[u] = IF u = s THEN v ELSE ready[u]
  BY <1>1, SetReady DEF WasmInv, ReadyStates
<1>3. UNCHANGED <<sent, thrown, overlapped>>
  BY DEF PeerCloses, Closed
<1>4. WasmTypeOK'
  BY <1>2, <1>3 DEF PeerCloses, Closed, OnEnd, WasmInv, WasmTypeOK
<1>5. ~overlapped => s = wsSocket
  BY DEF PeerCloses, Closed, WasmInv, OthersClosed
<1>6. OthersClosed'
  BY <1>2, <1>3, <1>5 DEF WasmInv, OthersClosed
<1>7. FlagIsHonest'
  <2>1. CASE v = "closing"
    BY <1>1, <1>2, <1>5, <2>1 DEF PeerCloses, WasmInv, FlagIsHonest
  <2>2. CASE v = "closed"
    BY <1>1, <1>2, <1>5, <2>2 DEF Closed, OnEnd, FlagIsHonest
  <2> QED
    BY <2>1, <2>2
<1>8. PingsGoOut'
  BY <1>1, <1>2, <1>3 DEF WasmInv, PingsGoOut
<1> QED
  BY <1>4, <1>6, <1>7, <1>8 DEF WasmInv

LEMMA WasmNextKeeps == ASSUME WasmInv, [Next]_vars PROVE WasmInv'
<1>1. CASE UNCHANGED wasmVars
  BY <1>1 DEF wasmVars, WasmInv, WasmTypeOK, OthersClosed, FlagIsHonest, PingsGoOut, wsSocket
<1>2. CASE WasmNext
  BY <1>2, ConnectKeeps, DisconnectKeeps, SendKeeps, OnOpenKeeps, EndKeeps DEF WasmNext
<1> QED
  BY <1>1, <1>2, WasmSteps

-----------------------------------------------------------------------------
LEMMA PageInit == Init => PageInv
<1> SUFFICES ASSUME Init PROVE PageInv
  OBVIOUS
<1>1. lines = <<>> /\ ready = <<>> /\ sent = <<>>
      /\ isConnected = FALSE /\ thrown = FALSE /\ overlapped = FALSE
  BY DEF Init, WasmInit
<1>2. /\ lines \in Seq(LineKinds) /\ ready \in Seq(ReadyStates) /\ sent \in Seq(Nat)
      /\ Len(lines) = 0 /\ Len(ready) = 0 /\ Len(sent) = 0 /\ DOMAIN ready = 1..0
  BY <1>1, EmptySeq, LenProperties
<1>3. TidyLog
  BY <1>2, PageBoundsAssumption DEF TidyLog
<1>4. OthersClosed /\ FlagIsHonest /\ PingsGoOut
  BY <1>1, <1>2 DEF OthersClosed, FlagIsHonest, PingsGoOut, wsSocket
<1> QED
  <2>1. TypeOK
    BY <1>1, <1>2 DEF TypeOK
  <2> QED
    BY <2>1, <1>3, <1>4 DEF PageInv

LEMMA PageNext == PageInv /\ [Next]_vars => PageInv'
<1> SUFFICES ASSUME PageInv, [Next]_vars PROVE PageInv'
  OBVIOUS
<1>1. WasmInv'
  BY WasmNextKeeps DEF PageInv, TypeOK, WasmInv, WasmTypeOK
<1>2. lines' \in Seq(LineKinds) /\ TidyLog'
  BY LogNext DEF PageInv, TypeOK
<1> QED
  BY <1>1, <1>2 DEF PageInv, TypeOK, WasmInv, WasmTypeOK

LEMMA PageInvariant == Spec => []PageInv
BY PageInit, PageNext, PTL DEF Spec

\* The flag of the wasm client tells the truth of the newest socket after
\* every connect() that found the older ones closed, however connects,
\* disconnects and events of any number of sockets interleave.
THEOREM FlagTellsTheTruth == Spec => []FlagIsHonest
<1>1. PageInv => FlagIsHonest
  BY DEF PageInv
<1> QED
  BY <1>1, PageInvariant, PTL

\* After such a connect() send() never throws, and the ping goes out on
\* every socket that opens.
THEOREM PingGoesOut == Spec => []PingsGoOut
<1>1. PageInv => PingsGoOut
  BY DEF PageInv
<1> QED
  BY <1>1, PageInvariant, PTL

\* The page's log keeps its bound, whatever that is, never shows two
\* progress lines in a row, and loses no other line to a progress update.
THEOREM LogStaysTidy == Spec => LogIsTidy
<1>1. PageInv => TidyLog
  BY DEF PageInv
<1>2. PageInv /\ [Next]_vars => [SaidStays]_lines
  BY LogSaidStays DEF PageInv, TypeOK
<1> QED
  BY <1>1, <1>2, PageInvariant, PTL DEF Spec, LogIsTidy
=============================================================================
