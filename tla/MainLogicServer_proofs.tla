------------------------ MODULE MainLogicServer_proofs ------------------------
(***************************************************************************)
(* Proofs about MainLogicServer, for any number of threads, sessions and   *)
(* messages.                                                               *)
(***************************************************************************)
EXTENDS MainLogicServer, SequenceTheorems, TLAPS

Places ==
  {"idle", "takeId", "bumpId", "pushData", "announce", "broadcast", "addSession",
   "welcome", "feedback", "removeSession", "eraseData"}

Kinds == {"NEW", "LEFT", "MESSAGE"}
Notes == {NoNote} \cup ({"NEW", "LEFT"} \X Int) \cup ({"MESSAGE"} \X Int \X Nat)
Messages == Notes \cup ({"WELCOME"} \X Int) \cup ({"FROM YOU"} \X Nat)
Frames == [at : Places, cur : Sessions \cup {0}, note : Notes, index : Nat]

TypeOK ==
  /\ totalThreads \in Threads
  /\ sessionList \in Seq(Sessions) /\ playersData \in Seq(Sessions)
  /\ lastPlayerId \in Nat /\ playerId \in [Sessions -> Nat]
  /\ userData \subseteq Sessions
  /\ outbox \in [Sessions -> SUBSET Messages]
  /\ reading \in [Sessions -> {"accept", "none", "read"}]
  /\ lost \subseteq Sessions /\ writeFailed \subseteq Sessions
  /\ received \in Nat
  /\ frame \in [Threads -> Frames]
  /\ status \in {"running", "exception", "undefined"}

\* What a callback is about: _onNewClient, in whose first three steps the
\* session is in neither vector, _onNewMessage with the end of a welcome, and
\* _onLostClient, which first takes the session out of both.
role ==
  [t \in Threads |->
     CASE at(t) \in {"announce", "broadcast"} -> frame[t].note[1]
       [] at(t) = "addSession" -> "NEW"
       [] at(t) \in {"welcome", "feedback"} -> "MESSAGE"
       [] OTHER -> at(t)]

who == [t \in Threads |-> cur(t)]

Early == {"takeId", "bumpId", "pushData"}
Joining == Early \cup {"NEW"}
Reader == Joining \cup {"MESSAGE"}
Leaving == {"removeSession", "eraseData", "LEFT"}
Roles == {"idle"} \cup Reader \cup Leaving

\* Some thread has a callback of these kinds for session s.
In(s, kinds) == \E t \in Threads : who[t] = s /\ role[t] \in kinds

\* Only threads that serve have a callback to run, and it is for a session.
FramesOK ==
  \A t \in Threads :
    /\ at(t) # "idle" => t <= totalThreads /\ cur(t) \in Sessions
    /\ at(t) \in {"announce", "broadcast"} =>
         frame[t].note # NoNote /\ frame[t].note[1] \in Kinds
    /\ at(t) = "feedback" => frame[t].note # NoNote /\ frame[t].note[1] = "MESSAGE"
    /\ at(t) \in {"removeSession", "eraseData"} =>
         frame[t].note # NoNote /\ frame[t].note[1] = "LEFT"
    /\ at(t) = "broadcast" => frame[t].index > 0

\* The session's reads and what they lead to come one after the other.
OneReader(s) ==
  \A t \in Threads : who[t] = s /\ role[t] \in Reader =>
    /\ reading[s] = "none"
    /\ \A u \in Threads : who[u] = s /\ role[u] \in Reader => u = t

\* Nothing was done yet for a session that waits to be accepted, and no write
\* can fail for one on its way into the list.
Fresh(s) ==
  /\ reading[s] = "accept" =>
       s \notin lost /\ s \notin userData /\ outbox[s] = {} /\ ~In(s, Roles \ {"idle"})
  /\ In(s, Joining) => s \notin lost /\ outbox[s] = {}

\* The session does not read any more.
Silent(s) == reading[s] = "none" /\ ~In(s, Reader)

\* A session is lost once, when its reading ends, unless a write to it
\* failed, and then at most a second time.
LostOnce(s) ==
  /\ s \in writeFailed \/ In(s, Leaving) => s \in lost
  /\ s \in lost /\ s \notin writeFailed => Silent(s)
  /\ \A t, u \in Threads :
       who[t] = s /\ who[u] = s /\ role[t] \in Leaving /\ role[u] \in Leaving =>
         t = u \/ (s \in writeFailed /\ Silent(s))

Here(s) == reading[s] # "accept" /\ s \notin lost

\* The list, the vector and the ids hold a session from the step of its
\* _onNewClient that put it there to the step of its _onLostClient that
\* takes it out.
Listed(s) ==
  /\ Here(s) => Contains(sessionList, s) \/ In(s, Joining)
  /\ Contains(sessionList, s) =>
       reading[s] # "accept" /\ ~In(s, Joining) /\ (s \notin lost \/ In(s, {"removeSession"}))

Kept(s) ==
  /\ Here(s) => Contains(playersData, s) \/ In(s, Early)
  /\ Contains(playersData, s) =>
       /\ reading[s] # "accept" /\ ~In(s, Early)
       /\ s \notin lost \/ In(s, {"removeSession", "eraseData"})

Identified(s) == Here(s) => s \in userData \/ In(s, {"takeId", "bumpId"})

\* Who is about to be removed is in the list, or is lost for the second
\* time or without having been added.
Removable(s) ==
  In(s, {"removeSession"}) =>
    Contains(sessionList, s) \/ s \notin userData \/ (s \in writeFailed /\ Silent(s))

Parts(s) ==
  OneReader(s) /\ Fresh(s) /\ LostOnce(s) /\ Listed(s) /\ Kept(s) /\ Identified(s) /\ Removable(s)

RosterInv ==
  /\ TypeOK
  /\ status = "running" =>
       /\ FramesOK
       /\ IsInjective(sessionList) /\ IsInjective(playersData)
       /\ \A s \in Sessions : Parts(s)
  /\ RemovalThrowsTwiceLost

-----------------------------------------------------------------------------
(* The vectors *)

LEMMA AppendContains ==
  ASSUME NEW S, NEW v \in Seq(S), NEW x \in S
  PROVE  /\ Append(v, x) \in Seq(S)
         /\ \A y : Contains(Append(v, x), y) <=> (Contains(v, y) \/ y = x)
         /\ IsInjective(v) /\ ~Contains(v, x) => IsInjective(Append(v, x))
<1>1. /\ Append(v, x) \in Seq(S) /\ Len(Append(v, x)) = Len(v) + 1
      /\ \A i \in 1..Len(v) : Append(v, x)[i] = v[i]
      /\ Append(v, x)[Len(v) + 1] = x
  BY AppendProperties
<1>2. Len(v) \in Nat /\ DOMAIN v = 1..Len(v) /\ DOMAIN Append(v, x) = 1..(Len(v) + 1)
  BY <1>1, LenProperties
<1>3. \A i \in 1..(Len(v) + 1) : i \in 1..Len(v) \/ i = Len(v) + 1
  BY <1>2
<1>4. \A y : Contains(Append(v, x), y) <=> (Contains(v, y) \/ y = x)
  BY <1>1, <1>2, <1>3 DEF Contains
<1>5. IsInjective(v) /\ ~Contains(v, x) => IsInjective(Append(v, x))
  BY <1>1, <1>2, <1>3 DEF Contains, IsInjective
<1> QED
  BY <1>1, <1>4, <1>5

\* stdVectorNoReallocEraseByValue takes the value out of a vector that holds
\* it once at most, and keeps every other element, once.
LEMMA EraseContains ==
  ASSUME NEW S, NEW v \in Seq(S), NEW x, IsInjective(v)
  PROVE  /\ EraseByValue(v, x) \in Seq(S)
         /\ \A y : Contains(EraseByValue(v, x), y) <=> (Contains(v, y) /\ y # x)
         /\ IsInjective(EraseByValue(v, x))
         /\ WasErased(v, x) <=> Contains(v, x)
<1>0. Len(v) \in Nat /\ DOMAIN v = 1..Len(v) /\ \A i \in 1..Len(v) : v[i] \in S
  BY LenProperties, ElementOfSeq
<1>1. Len(v) \in Nat
  BY <1>0
<1>2. WasErased(v, x) <=> Contains(v, x)
  BY DEF WasErased, Contains
<1>3. CASE ~Contains(v, x)
  <2>1. EraseByValue(v, x) = v
    BY <1>3 DEF EraseByValue, Contains
  <2> QED
    BY <1>2, <1>3, <2>1 DEF Contains
<1>4. CASE Contains(v, x)
  <2>1. PICK k \in 1..Len(v) : v[k] = x
    BY <1>4 DEF Contains
  <2>2. \A i \in 1..Len(v) : v[i] = x => i = k
    BY <1>0, <2>1 DEF IsInjective
  <2>3. FirstIndex(v, x) = k
    <3>1. k \in DOMAIN v /\ v[k] = x /\ \A j \in 1..(k - 1) : v[j] # x
      BY <1>0, <2>1, <2>2
    <3>2. \A i \in DOMAIN v : v[i] = x => i = k
      BY <1>0, <2>2
    <3> QED
      BY <3>1, <3>2 DEF FirstIndex
  <2> DEFINE e == EraseByIterator(v, k)
  <2>4. EraseByValue(v, x) = e
    BY <1>4, <2>3 DEF EraseByValue, Contains
  <2>5. Len(v) - 1 \in Nat /\ Len(v) \in 1..Len(v)
    BY <1>0, <2>1
  <2>6. e \in [1..(Len(v) - 1) -> S]
    BY <1>0, <2>5 DEF EraseByIterator
  <2>7. e \in Seq(S) /\ DOMAIN e = 1..(Len(v) - 1) /\ Len(e) = Len(v) - 1
    BY <2>5, <2>6, SeqDef, LenProperties
  <2>8. \A i \in 1..(Len(v) - 1) : e[i] = IF i = k THEN v[Len(v)] ELSE v[i]
    BY DEF EraseByIterator
  <2> HIDE DEF e
  <2>9. ASSUME NEW y, Contains(e, y) PROVE Contains(v, y) /\ y # x
    <3>1. PICK i \in 1..(Len(v) - 1) : e[i] = y
      BY <2>7, <2>9 DEF Contains
    <3>2. CASE i = k
      <4>1. y = v[Len(v)]
        BY <2>8, <3>1, <3>2
      <4>2. Len(v) # k
        BY <3>1, <3>2, <1>1
      <4> QED
        BY <4>1, <4>2, <2>2, <2>5 DEF Contains
    <3>3. CASE i # k
      <4>1. y = v[i] /\ i \in 1..Len(v)
        BY <2>8, <3>1, <3>3, <1>0
      <4> QED
        BY <4>1, <2>2, <3>3 DEF Contains
    <3> QED
      BY <3>2, <3>3
  <2>10. ASSUME NEW y, Contains(v, y), y # x PROVE Contains(e, y)
    <3>1. PICK i \in 1..Len(v) : v[i] = y /\ i # k
      BY <2>1, <2>10 DEF Contains
    <3>2. CASE i = Len(v)
      <4>1. k \in 1..(Len(v) - 1)
        BY <1>1, <2>1, <3>1, <3>2
      <4>2. e[k] = y
        BY <4>1, <2>8, <3>1, <3>2
      <4> QED
        BY <2>7, <4>1, <4>2 DEF Contains
    <3>3. CASE i # Len(v)
      <4>1. i \in 1..(Len(v) - 1)
        BY <1>1, <3>1, <3>3
      <4>2. e[i] = y
        BY <4>1, <2>8, <3>1
      <4> QED
        BY <2>7, <4>1, <4>2 DEF Contains
    <3> QED
      BY <3>2, <3>3
  <2>11. IsInjective(e)
    <3>1. SUFFICES ASSUME NEW i \in 1..(Len(v) - 1), NEW j \in 1..(Len(v) - 1), e[i] = e[j]
                   PROVE  i = j
      BY <2>7 DEF IsInjective
    <3>2. i \in 1..Len(v) /\ j \in 1..Len(v) /\ i # Len(v) /\ j # Len(v)
      BY <1>1, <3>1
    <3>3. \A a, b \in 1..Len(v) : v[a] = v[b] => a = b
      BY <1>0 DEF IsInjective
    <3> QED
      BY <2>5, <2>8, <3>1, <3>2, <3>3
  <2> QED
    BY <1>2, <2>4, <2>7, <2>9, <2>10, <2>11
<1> QED
  BY <1>3, <1>4

-----------------------------------------------------------------------------
(* The types *)

USE DEF Goto, Enter, Return, At, Idle, at, cur, WriteTo,
        serverVars, idVars, netVars

\* The tuples that go over the wire.
LEMMA Tuples ==
  /\ NoNote \in Notes
  /\ \A id \in Int : New(id) \in Notes /\ Left(id) \in Notes /\ Welcome(id) \in Messages
  /\ \A id \in Int, k \in Nat : FromUser(id, k) \in Notes
  /\ \A k \in Nat : FromYou(k) \in Messages
  /\ Notes \subseteq Messages
  /\ \A n \in Notes : n # NoNote /\ n[1] = "MESSAGE" => n[3] \in Nat
BY DEF Notes, Messages, NoNote, New, Left, Welcome, FromUser, FromYou

\* What the notes are that a frame is made with.
LEMMA NoteKinds ==
  /\ \A id : New(id) # NoNote /\ New(id)[1] = "NEW"
  /\ \A id : Left(id) # NoNote /\ Left(id)[1] = "LEFT"
  /\ \A id, k : FromUser(id, k) # NoNote /\ FromUser(id, k)[1] = "MESSAGE"
BY DEF NoNote, New, Left, FromUser

\* Where a callback goes, its frame is one.
LEMMA FrameType ==
  ASSUME frame \in [Threads -> Frames], NEW t \in Threads
  PROVE  /\ \A p \in Places : Goto(t, p) => frame' \in [Threads -> Frames]
         /\ \A p \in Places, s \in Sessions, n \in Notes :
              frame' = [frame EXCEPT ![t] = At(p, s, n)] => frame' \in [Threads -> Frames]
         /\ Return(t) => frame' \in [Threads -> Frames]
         /\ \A p \in Places, i \in Nat :
              frame' = [frame EXCEPT ![t].at = p, ![t].index = i] => frame' \in [Threads -> Frames]
         /\ \A i \in Nat :
              frame' = [frame EXCEPT ![t].index = i] => frame' \in [Threads -> Frames]
<1> USE DEF Frames
<1>1. NoNote \in Notes /\ "idle" \in Places
  BY Tuples DEF Places
<1>2. ASSUME NEW p \in Places, Goto(t, p) PROVE frame' \in [Threads -> Frames]
  BY <1>2
<1>3. ASSUME NEW p \in Places, NEW s \in Sessions \cup {0}, NEW n \in Notes,
             frame' = [frame EXCEPT ![t] = At(p, s, n)]
      PROVE  frame' \in [Threads -> Frames]
  BY <1>3
<1>4. ASSUME Return(t) PROVE frame' \in [Threads -> Frames]
  BY <1>1, <1>4
<1>5. ASSUME NEW p \in Places, NEW i \in Nat,
             frame' = [frame EXCEPT ![t].at = p, ![t].index = i]
      PROVE  frame' \in [Threads -> Frames]
  BY <1>5
<1>6. ASSUME NEW i \in Nat, frame' = [frame EXCEPT ![t].index = i]
      PROVE  frame' \in [Threads -> Frames]
  BY <1>6
<1> QED
  BY <1>2, <1>3, <1>4, <1>5, <1>6

LEMMA TypeInit == Init => TypeOK
<1> SUFFICES ASSUME Init PROVE TypeOK
  OBVIOUS
<1>1. <<>> \in Seq(Sessions)
  BY EmptySeq
<1>2. NoNote \in Notes
  BY Tuples
<1> QED
  BY <1>1, <1>2 DEF Init, TypeOK, Frames, Places

LEMMA TypeNext ==
  ASSUME TypeOK, status = "running" => FramesOK /\ IsInjective(sessionList) /\ IsInjective(playersData),
         [Next]_vars
  PROVE  TypeOK'
<1> USE DEF TypeOK
<1>1. CASE UNCHANGED vars
  BY <1>1 DEF vars
<1>2. CASE Next
  <2>1. FramesOK /\ status = "running" /\ IsInjective(sessionList) /\ IsInjective(playersData)
    BY <1>2 DEF Next
  <2>2. ASSUME NEW t \in Threads, at(t) # "idle"
        PROVE  cur(t) \in Sessions /\ playerId[cur(t)] \in Nat /\ frame[t].note \in Notes
    BY <2>1, <2>2 DEF FramesOK, Frames
  <2>3. \A s \in Sessions : ReadableIds(s) \subseteq Int
    BY DEF ReadableIds, NoId, Ids, Sessions
  <2> USE DEF Places
  <2>4. ASSUME NEW t \in Threads, TakeId(t) PROVE TypeOK'
    BY <2>4, FrameType DEF TakeId
  <2>5. ASSUME NEW t \in Threads, BumpId(t) PROVE TypeOK'
    <3>1. cur(t) \in Sessions /\ lastPlayerId' \in Nat
      BY <2>2, <2>5 DEF BumpId
    <3> QED
      BY <2>5, <3>1, FrameType DEF BumpId
  <2>6. ASSUME NEW t \in Threads, PushData(t) PROVE TypeOK'
    <3>1. cur(t) \in Sessions /\ playerId[cur(t)] \in Int
      BY <2>2, <2>6 DEF PushData
    <3>2. playersData' \in Seq(Sessions) /\ New(playerId[cur(t)]) \in Notes
      BY <2>6, <3>1, AppendProperties, Tuples DEF PushData
    <3> QED
      BY <2>6, <3>1, <3>2, FrameType DEF PushData, UseVector
  <2>7. ASSUME NEW t \in Threads, AddSession(t) PROVE TypeOK'
    <3>1. cur(t) \in Sessions
      BY <2>2, <2>7 DEF AddSession
    <3>2. sessionList' \in Seq(Sessions)
      BY <2>7, <3>1, AppendProperties DEF AddSession
    <3> QED
      BY <2>7, <3>1, <3>2, FrameType DEF AddSession
  <2>8. ASSUME NEW t \in Threads, NEW m \in Messages, WriteAndReturn(t, m) PROVE TypeOK'
    BY <2>8, FrameType DEF WriteAndReturn
  <2>9. ASSUME NEW t \in Threads, WelcomeClient(t) PROVE TypeOK'
    <3>1. Welcome(playerId[cur(t)]) \in Messages
      BY <2>2, <2>9, Tuples DEF WelcomeClient
    <3> QED
      BY <2>8, <2>9, <3>1 DEF WelcomeClient
  <2>10. ASSUME NEW t \in Threads, Feedback(t) PROVE TypeOK'
    <3>1. frame[t].note \in Notes /\ frame[t].note # NoNote /\ frame[t].note[1] = "MESSAGE"
      BY <2>1, <2>2, <2>10 DEF Feedback, FramesOK
    <3>2. FromYou(frame[t].note[3]) \in Messages
      BY <3>1, Tuples
    <3> QED
      BY <2>8, <2>10, <3>2 DEF Feedback
  <2>11. ASSUME NEW t \in Threads, ForEachStart(t) PROVE TypeOK'
    BY <2>11, FrameType DEF ForEachStart, LoopStart
  <2>12. ASSUME NEW t \in Threads, ForEachWrite(t) PROVE TypeOK'
    <3>1. frame[t].note \in Messages
      BY <2>2, <2>12, Tuples DEF ForEachWrite
    <3>2. frame' = [frame EXCEPT ![t].index = frame[t].index + 1] /\ frame[t].index + 1 \in Nat
      BY <2>12 DEF ForEachWrite, Frames
    <3>3. outbox' = outbox
          \/ \E s : outbox' = [outbox EXCEPT ![s] = outbox[s] \cup {frame[t].note}]
      BY <2>12 DEF ForEachWrite
    <3>4. ASSUME NEW s, outbox' = [outbox EXCEPT ![s] = outbox[s] \cup {frame[t].note}]
          PROVE  outbox' \in [Sessions -> SUBSET Messages]
      <4>1. CASE s \in Sessions
        BY <3>1, <3>4, <4>1
      <4>2. CASE s \notin Sessions
        BY <3>4, <4>2
      <4> QED
        BY <4>1, <4>2
    <3> QED
      BY <2>12, <3>2, <3>3, <3>4, FrameType DEF ForEachWrite
  <2>13. ASSUME NEW t \in Threads, ForEachEnd(t) PROVE TypeOK'
    <3>1. Goto(t, "addSession") \/ Goto(t, "feedback") \/ Return(t)
      BY <2>1, <2>13 DEF ForEachEnd, FramesOK, Kinds
    <3>2. frame' \in [Threads -> Frames]
      BY <3>1, FrameType
    <3> QED
      BY <2>13, <3>2 DEF ForEachEnd
  <2>14. ASSUME NEW t \in Threads, RemoveSession(t) PROVE TypeOK'
    <3>1. sessionList' \in Seq(Sessions)
      BY <2>1, <2>14, EraseContains DEF RemoveSession
    <3> QED
      BY <2>14, <3>1, FrameType DEF RemoveSession
  <2>15. ASSUME NEW t \in Threads, EraseData(t) PROVE TypeOK'
    <3>1. playersData' \in Seq(Sessions)
      BY <2>1, <2>15, EraseContains DEF EraseData
    <3>2. status' \in {"running", "exception", "undefined"}
      BY <2>15 DEF EraseData, UseVector
    <3>3. frame' \in [Threads -> Frames]
      BY <2>15, FrameType DEF EraseData
    <3> QED
      BY <2>15, <3>1, <3>2, <3>3 DEF EraseData
  <2>16. ASSUME NEW t \in Threads, NEW s \in Sessions, NewClient(t, s) PROVE TypeOK'
    BY <2>16, FrameType, Tuples DEF NewClient
  <2>17. ASSUME NEW t \in Threads, NEW s \in Sessions, NewMessage(t, s) PROVE TypeOK'
    <3>1. received' \in Nat
      BY <2>17 DEF NewMessage
    <3>2. PICK id \in ReadableIds(s) : Enter(t, "announce", s, FromUser(id, received'))
      BY <2>17 DEF NewMessage
    <3>3. FromUser(id, received') \in Notes
      BY <2>3, <3>1, <3>2, Tuples
    <3> QED
      BY <2>17, <3>1, <3>2, <3>3, FrameType DEF NewMessage
  <2>18. ASSUME NEW t \in Threads, NEW s \in Sessions, LostClient(t, s)
        PROVE  frame' \in [Threads -> Frames] /\ lost' \subseteq Sessions
    <3>1. PICK id \in ReadableIds(s) : Enter(t, "removeSession", s, Left(id))
      BY <2>18 DEF LostClient
    <3>2. Left(id) \in Notes
      BY <2>3, <3>1, Tuples
    <3> QED
      BY <2>18, <3>1, <3>2, FrameType DEF LostClient
  <2>19. ASSUME NEW t \in Threads, NEW s \in Sessions, ReadFails(t, s) PROVE TypeOK'
    BY <2>18, <2>19 DEF ReadFails, LostClient
  <2>20. ASSUME NEW t \in Threads, NEW s \in Sessions, WriteFails(t, s) PROVE TypeOK'
    BY <2>18, <2>20 DEF WriteFails, LostClient
  <2>21. 1..totalThreads \subseteq Threads
    BY BoundAssumption DEF Threads
  <2> QED
    BY <1>2, <2>4, <2>5, <2>6, <2>7, <2>9, <2>10, <2>11, <2>12, <2>13,
       <2>14, <2>15, <2>16, <2>17, <2>19, <2>20, <2>21 DEF Next, Continue, Callback
<1> QED
  BY <1>1, <1>2

-----------------------------------------------------------------------------
(* What the steps do to the callbacks *)

\* Thread t runs a callback of kind r for session s, and nothing changed for
\* the other threads.
Turns(t, r, s) ==
  role' = [role EXCEPT ![t] = r] /\ who' = [who EXCEPT ![t] = s]

RoleOf(f) ==
  CASE f.at \in {"announce", "broadcast"} -> f.note[1]
    [] f.at = "addSession" -> "NEW"
    [] f.at \in {"welcome", "feedback"} -> "MESSAGE"
    [] OTHER -> f.at

LEMMA RoleFunctions ==
  /\ role = [t \in Threads |-> RoleOf(frame[t])] /\ role' = [t \in Threads |-> RoleOf(frame'[t])]
  /\ who = [t \in Threads |-> frame[t].cur] /\ who' = [t \in Threads |-> frame'[t].cur]
BY DEF role, who, RoleOf

LEMMA TurnsWhen ==
  ASSUME TypeOK, NEW t \in Threads, NEW f, frame' = [frame EXCEPT ![t] = f]
  PROVE  Turns(t, RoleOf(f), f.cur)
<1>1. frame'[t] = f /\ \A u \in Threads \ {t} : frame'[u] = frame[u]
  BY DEF TypeOK
<1> HIDE DEF RoleOf
<1>2. \A u \in Threads :
        /\ role'[u] = IF u = t THEN RoleOf(f) ELSE role[u]
        /\ who'[u] = IF u = t THEN f.cur ELSE who[u]
  BY <1>1, RoleFunctions
<1> QED
  BY <1>2, RoleFunctions DEF Turns

LEMMA RolesOK ==
  ASSUME TypeOK, FramesOK, NEW t \in Threads
  PROVE  /\ role[t] \in Roles /\ role[t] = RoleOf(frame[t]) /\ who[t] = frame[t].cur
         /\ at(t) = "idle" <=> role[t] = "idle"
         /\ role[t] # "idle" => who[t] \in Sessions
<1>1. role[t] = RoleOf(frame[t]) /\ who[t] = frame[t].cur
  BY RoleFunctions
<1>2. frame[t] \in Frames
  BY DEF TypeOK
<1>3. RoleOf(frame[t]) \in Roles /\ (at(t) = "idle" <=> RoleOf(frame[t]) = "idle")
  BY <1>2 DEF FramesOK, RoleOf, Roles, Reader, Joining, Early, Leaving, Kinds, Frames, Places
<1>4. at(t) # "idle" => frame[t].cur \in Sessions
  BY DEF FramesOK
<1> QED
  BY <1>1, <1>3, <1>4

\* The frames that Goto and the loop make.
LEMMA TurnsGoto ==
  ASSUME TypeOK, NEW t \in Threads
  PROVE  /\ \A p : Goto(t, p) => \E f : f.at = p /\ f.note = frame[t].note /\ f.cur = frame[t].cur
                                       /\ frame' = [frame EXCEPT ![t] = f]
         /\ \A p, i : frame' = [frame EXCEPT ![t].at = p, ![t].index = i] =>
              \E f : f.at = p /\ f.note = frame[t].note /\ f.cur = frame[t].cur
                     /\ frame' = [frame EXCEPT ![t] = f]
         /\ \A i : frame' = [frame EXCEPT ![t].index = i] =>
              \E f : f.at = frame[t].at /\ f.note = frame[t].note /\ f.cur = frame[t].cur
                     /\ frame' = [frame EXCEPT ![t] = f]
<1>1. frame[t] \in Frames
  BY DEF TypeOK
<1>2. ASSUME NEW p, Goto(t, p)
      PROVE  \E f : f.at = p /\ f.note = frame[t].note /\ f.cur = frame[t].cur
                    /\ frame' = [frame EXCEPT ![t] = f]
  <2> WITNESS [frame[t] EXCEPT !.at = p]
  <2> QED
    BY <1>1, <1>2 DEF Frames
<1>3. ASSUME NEW p, NEW i, frame' = [frame EXCEPT ![t].at = p, ![t].index = i]
      PROVE  \E f : f.at = p /\ f.note = frame[t].note /\ f.cur = frame[t].cur
                    /\ frame' = [frame EXCEPT ![t] = f]
  <2> WITNESS [frame[t] EXCEPT !.at = p, !.index = i]
  <2> QED
    BY <1>1, <1>3 DEF Frames, TypeOK
<1>4. ASSUME NEW i, frame' = [frame EXCEPT ![t].index = i]
      PROVE  \E f : f.at = frame[t].at /\ f.note = frame[t].note /\ f.cur = frame[t].cur
                    /\ frame' = [frame EXCEPT ![t] = f]
  <2> WITNESS [frame[t] EXCEPT !.index = i]
  <2> QED
    BY <1>1, <1>4 DEF Frames
<1> QED
  BY <1>2, <1>3, <1>4

\* Where each step takes a callback.
LEMMA Moves ==
  ASSUME TypeOK, FramesOK, NEW t \in Threads
  PROVE  /\ TakeId(t) => role[t] = "takeId" /\ Turns(t, "bumpId", who[t])
         /\ BumpId(t) => role[t] = "bumpId" /\ Turns(t, "pushData", who[t])
         /\ PushData(t) => role[t] = "pushData" /\ Turns(t, "NEW", who[t])
         /\ AddSession(t) => role[t] = "NEW" /\ Turns(t, "MESSAGE", who[t])
         /\ \A m : WriteAndReturn(t, m) => Turns(t, "idle", 0)
         /\ WelcomeClient(t) \/ Feedback(t) => role[t] = "MESSAGE" /\ Turns(t, "idle", 0)
         /\ ForEachStart(t) \/ ForEachWrite(t) => Turns(t, role[t], who[t])
         /\ ForEachEnd(t) =>
              \/ role[t] \in {"NEW", "MESSAGE"} /\ Turns(t, role[t], who[t])
              \/ role[t] = "LEFT" /\ Turns(t, "idle", 0)
         /\ RemoveSession(t) => role[t] = "removeSession" /\ Turns(t, "eraseData", who[t])
         /\ EraseData(t) => role[t] = "eraseData" /\ Turns(t, "LEFT", who[t])
         /\ \A s : NewClient(t, s) => role[t] = "idle" /\ Turns(t, "takeId", s)
         /\ \A s : NewMessage(t, s) => role[t] = "idle" /\ Turns(t, "MESSAGE", s)
         /\ \A s : LostClient(t, s) => role[t] = "idle" /\ Turns(t, "removeSession", s)
<1>1. role[t] = RoleOf(frame[t]) /\ who[t] = frame[t].cur
  BY RolesOK
<1>2. ASSUME NEW p, Goto(t, p), at(t) \in {"takeId", "bumpId", "removeSession", "addSession"},
             p \in {"bumpId", "pushData", "eraseData", "welcome"}
      PROVE  Turns(t, IF p = "welcome" THEN "MESSAGE" ELSE p, who[t])
  <2> HIDE DEF Goto
  <2>1. PICK f : /\ f.at = p /\ f.note = frame[t].note /\ f.cur = frame[t].cur
                 /\ frame' = [frame EXCEPT ![t] = f]
    BY <1>2, TurnsGoto
  <2>2. RoleOf(f) = IF p = "welcome" THEN "MESSAGE" ELSE p
    BY <1>2, <2>1 DEF RoleOf
  <2> QED
    BY <1>1, <2>1, <2>2, TurnsWhen
<1>3. ASSUME NEW p, NEW s, NEW n, frame' = [frame EXCEPT ![t] = At(p, s, n)]
      PROVE  Turns(t, RoleOf(At(p, s, n)), s)
  <2>1. At(p, s, n).cur = s
    OBVIOUS
  <2> HIDE DEF At
  <2>2. Turns(t, RoleOf(At(p, s, n)), At(p, s, n).cur)
    BY <1>3, TurnsWhen
  <2> QED
    BY <2>1, <2>2
<1>4. ASSUME Return(t) PROVE Turns(t, "idle", 0)
  <2>1. RoleOf(Idle) = "idle" /\ Idle.cur = 0
    BY DEF RoleOf
  <2> QED
    BY <1>4, <2>1, TurnsWhen
<1>5. TakeId(t) => role[t] = "takeId" /\ Turns(t, "bumpId", who[t])
  BY <1>1, <1>2 DEF TakeId, RoleOf
<1>6. BumpId(t) => role[t] = "bumpId" /\ Turns(t, "pushData", who[t])
  BY <1>1, <1>2 DEF BumpId, RoleOf
<1>7. PushData(t) => role[t] = "pushData" /\ Turns(t, "NEW", who[t])
  <2> SUFFICES ASSUME PushData(t) PROVE role[t] = "pushData" /\ Turns(t, "NEW", who[t])
    OBVIOUS
  <2>1. Turns(t, RoleOf(At("announce", cur(t), New(playerId[cur(t)]))), cur(t))
    BY <1>3 DEF PushData
  <2>2. RoleOf(At("announce", cur(t), New(playerId[cur(t)]))) = "NEW"
    BY NoteKinds DEF RoleOf
  <2> QED
    BY <1>1, <2>1, <2>2 DEF PushData, RoleOf
<1>8. AddSession(t) => role[t] = "NEW" /\ Turns(t, "MESSAGE", who[t])
  BY <1>1, <1>2 DEF AddSession, RoleOf
<1>9. \A m : WriteAndReturn(t, m) => Turns(t, "idle", 0)
  BY <1>4 DEF WriteAndReturn
<1>10. WelcomeClient(t) \/ Feedback(t) => role[t] = "MESSAGE" /\ Turns(t, "idle", 0)
  BY <1>1, <1>9 DEF WelcomeClient, Feedback, RoleOf
<1>11. ForEachStart(t) \/ ForEachWrite(t) => Turns(t, role[t], who[t])
  <2> SUFFICES ASSUME ForEachStart(t) \/ ForEachWrite(t) PROVE Turns(t, role[t], who[t])
    OBVIOUS
  <2>1. \E f : /\ f.at \in {"announce", "broadcast"} /\ f.note = frame[t].note
               /\ f.cur = frame[t].cur /\ frame' = [frame EXCEPT ![t] = f]
    <3>1. CASE ForEachStart(t)
      <4>1. frame' = [frame EXCEPT ![t].at = "broadcast", ![t].index = LoopStart]
        BY <3>1 DEF ForEachStart
      <4>2. PICK f : /\ f.at = "broadcast" /\ f.note = frame[t].note /\ f.cur = frame[t].cur
                     /\ frame' = [frame EXCEPT ![t] = f]
        BY <4>1, TurnsGoto
      <4> QED
        BY <4>2
    <3>2. CASE ForEachWrite(t)
      <4>1. frame' = [frame EXCEPT ![t].index = frame[t].index + 1] /\ at(t) = "broadcast"
        BY <3>2 DEF ForEachWrite
      <4>2. PICK f : /\ f.at = frame[t].at /\ f.note = frame[t].note /\ f.cur = frame[t].cur
                     /\ frame' = [frame EXCEPT ![t] = f]
        BY <4>1, TurnsGoto
      <4> QED
        BY <4>1, <4>2
    <3> QED
      BY <3>1, <3>2
  <2>2. at(t) \in {"announce", "broadcast"}
    BY DEF ForEachStart, ForEachWrite
  <2>3. PICK f : /\ f.at \in {"announce", "broadcast"} /\ f.note = frame[t].note
                 /\ f.cur = frame[t].cur /\ frame' = [frame EXCEPT ![t] = f]
    BY <2>1
  <2>4. RoleOf(f) = RoleOf(frame[t])
    BY <2>2, <2>3 DEF RoleOf
  <2> QED
    BY <1>1, <2>3, <2>4, TurnsWhen
<1>12. ASSUME ForEachEnd(t)
       PROVE  \/ role[t] \in {"NEW", "MESSAGE"} /\ Turns(t, role[t], who[t])
              \/ role[t] = "LEFT" /\ Turns(t, "idle", 0)
  <2>1. at(t) = "broadcast" /\ role[t] = frame[t].note[1] /\ frame[t].note[1] \in Kinds
    BY <1>1, <1>12 DEF ForEachEnd, RoleOf, FramesOK
  <2>2. \/ frame[t].note[1] = "NEW" /\ Goto(t, "addSession")
        \/ frame[t].note[1] = "MESSAGE" /\ Goto(t, "feedback")
        \/ frame[t].note[1] = "LEFT" /\ Return(t)
    BY <1>12, <2>1 DEF ForEachEnd, Kinds
  <2>3. CASE frame[t].note[1] = "NEW" /\ Goto(t, "addSession")
    <3>1. PICK f : f.at = "addSession" /\ f.cur = frame[t].cur /\ frame' = [frame EXCEPT ![t] = f]
      BY <2>3, TurnsGoto
    <3>2. RoleOf(f) = "NEW"
      BY <3>1 DEF RoleOf
    <3>3. Turns(t, "NEW", who[t])
      BY <1>1, <3>1, <3>2, TurnsWhen
    <3> QED
      BY <2>1, <2>3, <3>3
  <2>4. CASE frame[t].note[1] = "MESSAGE" /\ Goto(t, "feedback")
    <3>1. PICK f : f.at = "feedback" /\ f.cur = frame[t].cur /\ frame' = [frame EXCEPT ![t] = f]
      BY <2>4, TurnsGoto
    <3>2. RoleOf(f) = "MESSAGE"
      BY <3>1 DEF RoleOf
    <3>3. Turns(t, "MESSAGE", who[t])
      BY <1>1, <3>1, <3>2, TurnsWhen
    <3> QED
      BY <2>1, <2>4, <3>3
  <2>5. CASE frame[t].note[1] = "LEFT" /\ Return(t)
    BY <1>4, <2>1, <2>5
  <2> QED
    BY <2>2, <2>3, <2>4, <2>5
<1>13. RemoveSession(t) => role[t] = "removeSession" /\ Turns(t, "eraseData", who[t])
  BY <1>1, <1>2 DEF RemoveSession, RoleOf
<1>14. EraseData(t) => role[t] = "eraseData" /\ Turns(t, "LEFT", who[t])
  <2> SUFFICES ASSUME EraseData(t) PROVE role[t] = "eraseData" /\ Turns(t, "LEFT", who[t])
    OBVIOUS
  <2>1. frame[t].note[1] = "LEFT"
    BY DEF EraseData, FramesOK
  <2>2. PICK f : /\ f.at = "announce" /\ f.note = frame[t].note /\ f.cur = frame[t].cur
                 /\ frame' = [frame EXCEPT ![t] = f]
    BY TurnsGoto DEF EraseData
  <2>3. RoleOf(f) = "LEFT"
    BY <2>1, <2>2 DEF RoleOf
  <2> QED
    BY <1>1, <2>2, <2>3, TurnsWhen DEF EraseData, RoleOf
<1>15. ASSUME NEW p, NEW s, NEW n, Enter(t, p, s, n)
       PROVE  role[t] = "idle" /\ Turns(t, RoleOf(At(p, s, n)), s)
  BY <1>1, <1>3, <1>15 DEF RoleOf
<1>16. ASSUME NEW s, NewClient(t, s) PROVE role[t] = "idle" /\ Turns(t, "takeId", s)
  <2>1. RoleOf(At("takeId", s, NoNote)) = "takeId"
    BY DEF RoleOf
  <2> QED
    BY <1>15, <1>16, <2>1 DEF NewClient
<1>17. ASSUME NEW s, NewMessage(t, s) PROVE role[t] = "idle" /\ Turns(t, "MESSAGE", s)
  <2>1. PICK id : Enter(t, "announce", s, FromUser(id, received'))
    BY <1>17 DEF NewMessage
  <2>2. RoleOf(At("announce", s, FromUser(id, received'))) = "MESSAGE"
    BY NoteKinds DEF RoleOf
  <2> QED
    BY <1>15, <2>1, <2>2
<1>18. ASSUME NEW s, LostClient(t, s) PROVE role[t] = "idle" /\ Turns(t, "removeSession", s)
  <2>1. PICK id : Enter(t, "removeSession", s, Left(id))
    BY <1>18 DEF LostClient
  <2>2. RoleOf(At("removeSession", s, Left(id))) = "removeSession"
    BY DEF RoleOf
  <2> QED
    BY <1>15, <2>1, <2>2
<1> QED
  BY <1>5, <1>6, <1>7, <1>8, <1>9, <1>10, <1>11, <1>12, <1>13, <1>14, <1>16, <1>17, <1>18

-----------------------------------------------------------------------------
(* The invariant *)

RoleTypes == role \in [Threads -> Roles] /\ who \in [Threads -> Sessions \cup {0}]

LEMMA RolesTyped == ASSUME TypeOK, FramesOK PROVE RoleTypes
<1>1. \A t \in Threads : role[t] \in Roles /\ who[t] \in Sessions \cup {0}
  <2> SUFFICES ASSUME NEW t \in Threads PROVE role[t] \in Roles /\ who[t] \in Sessions \cup {0}
    OBVIOUS
  <2>1. frame[t].cur \in Sessions \cup {0}
    BY DEF TypeOK, Frames
  <2> QED
    BY <2>1, RolesOK
<1> QED
  BY <1>1, RoleFunctions DEF RoleTypes

LEMMA TakeIdKeeps ==
  ASSUME RoleTypes, NEW t \in Threads, NEW s \in Sessions, Parts(s),
         role[t] = "takeId",
         Turns(t, "bumpId", who[t]),
         UNCHANGED <<reading, lost, writeFailed, outbox, userData, sessionList, playersData>>
  PROVE  Parts(s)'
<1>1. OneReader(s)'
  BY DEF RoleTypes, Turns, In, Here, Roles, Reader, Joining, Early, Leaving, Silent, Parts, OneReader
<1>2. Fresh(s)'
  BY DEF RoleTypes, Turns, In, Here, Roles, Reader, Joining, Early, Leaving, Silent, Parts, Fresh
<1>3. LostOnce(s)'
  BY DEF RoleTypes, Turns, In, Here, Roles, Reader, Joining, Early, Leaving, Silent, Parts, LostOnce, Fresh, OneReader
<1>4. Listed(s)'
  BY DEF RoleTypes, Turns, In, Here, Roles, Reader, Joining, Early, Leaving, Silent, Parts, Listed
<1>5. Kept(s)'
  BY DEF RoleTypes, Turns, In, Here, Roles, Reader, Joining, Early, Leaving, Silent, Parts, Kept
<1>6. Identified(s)'
  BY DEF RoleTypes, Turns, In, Here, Roles, Reader, Joining, Early, Leaving, Silent, Parts, Identified
<1>7. Removable(s)'
  BY DEF RoleTypes, Turns, In, Here, Roles, Reader, Joining, Early, Leaving, Silent, Parts, Removable, LostOnce, Fresh, OneReader
<1> QED
  BY <1>1, <1>2, <1>3, <1>4, <1>5, <1>6, <1>7 DEF Parts

LEMMA BumpIdKeeps ==
  ASSUME RoleTypes, NEW t \in Threads, NEW s \in Sessions, Parts(s),
         role[t] = "bumpId",
         Turns(t, "pushData", who[t]),
         userData' = userData \cup {who[t]},
         UNCHANGED <<reading, lost, writeFailed, outbox, sessionList, playersData>>
  PROVE  Parts(s)'
<1>1. OneReader(s)'
  BY DEF RoleTypes, Turns, In, Here, Roles, Reader, Joining, Early, Leaving, Silent, Parts, OneReader
<1>2. Fresh(s)'
  BY DEF RoleTypes, Turns, In, Here, Roles, Reader, Joining, Early, Leaving, Silent, Parts, Fresh, OneReader
<1>3. LostOnce(s)'
  BY DEF RoleTypes, Turns, In, Here, Roles, Reader, Joining, Early, Leaving, Silent, Parts, LostOnce, Fresh, OneReader
<1>4. Listed(s)'
  BY DEF RoleTypes, Turns, In, Here, Roles, Reader, Joining, Early, Leaving, Silent, Parts, Listed
<1>5. Kept(s)'
  BY DEF RoleTypes, Turns, In, Here, Roles, Reader, Joining, Early, Leaving, Silent, Parts, Kept
<1>6. Identified(s)'
  BY DEF RoleTypes, Turns, In, Here, Roles, Reader, Joining, Early, Leaving, Silent, Parts, Identified
<1>7. Removable(s)'
  BY DEF RoleTypes, Turns, In, Here, Roles, Reader, Joining, Early, Leaving, Silent, Parts, Removable, Fresh, LostOnce, OneReader
<1> QED
  BY <1>1, <1>2, <1>3, <1>4, <1>5, <1>6, <1>7 DEF Parts

LEMMA PushDataKeeps ==
  ASSUME RoleTypes, NEW t \in Threads, NEW s \in Sessions, Parts(s),
         role[t] = "pushData",
         Turns(t, "NEW", who[t]),
         \A y : Contains(playersData', y) <=> (Contains(playersData, y) \/ y = who[t]),
         UNCHANGED <<reading, lost, writeFailed, outbox, userData, sessionList>>
  PROVE  Parts(s)'
<1>1. OneReader(s)'
  BY DEF RoleTypes, Turns, In, Here, Roles, Reader, Joining, Early, Leaving, Silent, Parts, OneReader
<1>2. Fresh(s)'
  BY DEF RoleTypes, Turns, In, Here, Roles, Reader, Joining, Early, Leaving, Silent, Parts, Fresh
<1>3. LostOnce(s)'
  BY DEF RoleTypes, Turns, In, Here, Roles, Reader, Joining, Early, Leaving, Silent, Parts, LostOnce, Fresh, OneReader
<1>4. Listed(s)'
  BY DEF RoleTypes, Turns, In, Here, Roles, Reader, Joining, Early, Leaving, Silent, Parts, Listed
<1>5. Kept(s)'
  BY DEF RoleTypes, Turns, In, Here, Roles, Reader, Joining, Early, Leaving, Silent, Parts, Kept, Fresh, OneReader
<1>6. Identified(s)'
  BY DEF RoleTypes, Turns, In, Here, Roles, Reader, Joining, Early, Leaving, Silent, Parts, Identified
<1>7. Removable(s)'
  BY DEF RoleTypes, Turns, In, Here, Roles, Reader, Joining, Early, Leaving, Silent, Parts, Removable, LostOnce, Fresh, OneReader
<1> QED
  BY <1>1, <1>2, <1>3, <1>4, <1>5, <1>6, <1>7 DEF Parts

LEMMA AddSessionKeeps ==
  ASSUME RoleTypes, NEW t \in Threads, NEW s \in Sessions, Parts(s),
         role[t] = "NEW",
         Turns(t, "MESSAGE", who[t]),
         \A y : Contains(sessionList', y) <=> (Contains(sessionList, y) \/ y = who[t]),
         UNCHANGED <<reading, lost, writeFailed, outbox, userData, playersData>>
  PROVE  Parts(s)'
<1>1. OneReader(s)'
  BY DEF RoleTypes, Turns, In, Here, Roles, Reader, Joining, Early, Leaving, Silent, Parts, OneReader
<1>2. Fresh(s)'
  BY DEF RoleTypes, Turns, In, Here, Roles, Reader, Joining, Early, Leaving, Silent, Parts, Fresh, OneReader
<1>3. LostOnce(s)'
  BY DEF RoleTypes, Turns, In, Here, Roles, Reader, Joining, Early, Leaving, Silent, Parts, LostOnce, Fresh, OneReader
<1>4. Listed(s)'
  BY DEF RoleTypes, Turns, In, Here, Roles, Reader, Joining, Early, Leaving, Silent, Parts, Listed, Fresh, OneReader
<1>5. Kept(s)'
  BY DEF RoleTypes, Turns, In, Here, Roles, Reader, Joining, Early, Leaving, Silent, Parts, Kept
<1>6. Identified(s)'
  BY DEF RoleTypes, Turns, In, Here, Roles, Reader, Joining, Early, Leaving, Silent, Parts, Identified
<1>7. Removable(s)'
  BY DEF RoleTypes, Turns, In, Here, Roles, Reader, Joining, Early, Leaving, Silent, Parts, Removable, LostOnce, Fresh, OneReader
<1> QED
  BY <1>1, <1>2, <1>3, <1>4, <1>5, <1>6, <1>7 DEF Parts

\* The session reads again after a callback of its own.
LEMMA ReturnKeeps ==
  ASSUME RoleTypes, NEW t \in Threads, NEW s \in Sessions, Parts(s), NEW o,
         role[t] = "MESSAGE",
         Turns(t, "idle", 0),
         reading \in [Sessions -> {"accept", "none", "read"}],
         outbox \in [Sessions -> SUBSET Messages],
         reading' = [reading EXCEPT ![who[t]] = "read"],
         outbox' = [outbox EXCEPT ![who[t]] = o],
         UNCHANGED <<lost, writeFailed, userData, sessionList, playersData>>
  PROVE  Parts(s)'
<1>1. OneReader(s)'
  BY DEF RoleTypes, Turns, In, Here, Roles, Reader, Joining, Early, Leaving, Silent, Parts, OneReader
<1>2. Fresh(s)'
  BY DEF RoleTypes, Turns, In, Here, Roles, Reader, Joining, Early, Leaving, Silent, Parts, Fresh, OneReader
<1>3. LostOnce(s)'
  BY DEF RoleTypes, Turns, In, Here, Roles, Reader, Joining, Early, Leaving, Silent, Parts, LostOnce, OneReader, Fresh
<1>4. Listed(s)'
  BY DEF RoleTypes, Turns, In, Here, Roles, Reader, Joining, Early, Leaving, Silent, Parts, Listed, OneReader
<1>5. Kept(s)'
  BY DEF RoleTypes, Turns, In, Here, Roles, Reader, Joining, Early, Leaving, Silent, Parts, Kept, OneReader
<1>6. Identified(s)'
  BY DEF RoleTypes, Turns, In, Here, Roles, Reader, Joining, Early, Leaving, Silent, Parts, Identified, OneReader
<1>7. Removable(s)'
  BY DEF RoleTypes, Turns, In, Here, Roles, Reader, Joining, Early, Leaving, Silent, Parts, Removable, LostOnce, Fresh, OneReader
<1> QED
  BY <1>1, <1>2, <1>3, <1>4, <1>5, <1>6, <1>7 DEF Parts

LEMMA LoopKeeps ==
  ASSUME RoleTypes, NEW t \in Threads, NEW s \in Sessions, Parts(s),
         Turns(t, role[t], who[t]),
         outbox'[s] = outbox[s] \/ Contains(sessionList, s),
         UNCHANGED <<reading, lost, writeFailed, userData, sessionList, playersData>>
  PROVE  Parts(s)'
<1>1. OneReader(s)'
  BY DEF RoleTypes, Turns, In, Here, Roles, Reader, Joining, Early, Leaving, Silent, Parts, OneReader
<1>2. Fresh(s)'
  BY DEF RoleTypes, Turns, In, Here, Roles, Reader, Joining, Early, Leaving, Silent, Parts, Fresh, Listed
<1>3. LostOnce(s)'
  BY DEF RoleTypes, Turns, In, Here, Roles, Reader, Joining, Early, Leaving, Silent, Parts, LostOnce, Fresh, OneReader
<1>4. Listed(s)'
  BY DEF RoleTypes, Turns, In, Here, Roles, Reader, Joining, Early, Leaving, Silent, Parts, Listed
<1>5. Kept(s)'
  BY DEF RoleTypes, Turns, In, Here, Roles, Reader, Joining, Early, Leaving, Silent, Parts, Kept
<1>6. Identified(s)'
  BY DEF RoleTypes, Turns, In, Here, Roles, Reader, Joining, Early, Leaving, Silent, Parts, Identified
<1>7. Removable(s)'
  BY DEF RoleTypes, Turns, In, Here, Roles, Reader, Joining, Early, Leaving, Silent, Parts, Removable, LostOnce, Fresh, OneReader
<1> QED
  BY <1>1, <1>2, <1>3, <1>4, <1>5, <1>6, <1>7 DEF Parts

LEMMA LeftKeeps ==
  ASSUME RoleTypes, NEW t \in Threads, NEW s \in Sessions, Parts(s),
         role[t] = "LEFT",
         Turns(t, "idle", 0),
         UNCHANGED <<reading, lost, writeFailed, outbox, userData, sessionList, playersData>>
  PROVE  Parts(s)'
<1>1. OneReader(s)'
  BY DEF RoleTypes, Turns, In, Here, Roles, Reader, Joining, Early, Leaving, Silent, Parts, OneReader
<1>2. Fresh(s)'
  BY DEF RoleTypes, Turns, In, Here, Roles, Reader, Joining, Early, Leaving, Silent, Parts, Fresh
<1>3. LostOnce(s)'
  BY DEF RoleTypes, Turns, In, Here, Roles, Reader, Joining, Early, Leaving, Silent, Parts, LostOnce, Fresh, OneReader
<1>4. Listed(s)'
  BY DEF RoleTypes, Turns, In, Here, Roles, Reader, Joining, Early, Leaving, Silent, Parts, Listed
<1>5. Kept(s)'
  BY DEF RoleTypes, Turns, In, Here, Roles, Reader, Joining, Early, Leaving, Silent, Parts, Kept
<1>6. Identified(s)'
  BY DEF RoleTypes, Turns, In, Here, Roles, Reader, Joining, Early, Leaving, Silent, Parts, Identified
<1>7. Removable(s)'
  BY DEF RoleTypes, Turns, In, Here, Roles, Reader, Joining, Early, Leaving, Silent, Parts, Removable, LostOnce, Fresh, OneReader
<1> QED
  BY <1>1, <1>2, <1>3, <1>4, <1>5, <1>6, <1>7 DEF Parts

LEMMA RemoveKeeps ==
  ASSUME RoleTypes, NEW t \in Threads, NEW s \in Sessions, Parts(s),
         role[t] = "removeSession",
         Turns(t, "eraseData", who[t]),
         Contains(sessionList, who[t]),
         \A y : Contains(sessionList', y) <=> (Contains(sessionList, y) /\ y # who[t]),
         UNCHANGED <<reading, lost, writeFailed, outbox, userData, playersData>>
  PROVE  Parts(s)'
<1>1. OneReader(s)'
  BY DEF RoleTypes, Turns, In, Here, Roles, Reader, Joining, Early, Leaving, Silent, Parts, OneReader
<1>2. Fresh(s)'
  BY DEF RoleTypes, Turns, In, Here, Roles, Reader, Joining, Early, Leaving, Silent, Parts, Fresh
<1>3. LostOnce(s)'
  BY DEF RoleTypes, Turns, In, Here, Roles, Reader, Joining, Early, Leaving, Silent, Parts, LostOnce, Fresh, OneReader
<1>4. Listed(s)'
  BY DEF RoleTypes, Turns, In, Here, Roles, Reader, Joining, Early, Leaving, Silent, Parts, Listed, LostOnce
<1>5. Kept(s)'
  BY DEF RoleTypes, Turns, In, Here, Roles, Reader, Joining, Early, Leaving, Silent, Parts, Kept
<1>6. Identified(s)'
  BY DEF RoleTypes, Turns, In, Here, Roles, Reader, Joining, Early, Leaving, Silent, Parts, Identified
<1>7. Removable(s)'
  BY DEF RoleTypes, Turns, In, Here, Roles, Reader, Joining, Early, Leaving, Silent, Parts, Removable, LostOnce, Fresh, OneReader
<1> QED
  BY <1>1, <1>2, <1>3, <1>4, <1>5, <1>6, <1>7 DEF Parts

LEMMA EraseKeeps ==
  ASSUME RoleTypes, NEW t \in Threads, NEW s \in Sessions, Parts(s),
         role[t] = "eraseData",
         Turns(t, "LEFT", who[t]),
         \A y : Contains(playersData', y) <=> (Contains(playersData, y) /\ y # who[t]),
         UNCHANGED <<reading, lost, writeFailed, outbox, userData, sessionList>>
  PROVE  Parts(s)'
<1>1. OneReader(s)'
  BY DEF RoleTypes, Turns, In, Here, Roles, Reader, Joining, Early, Leaving, Silent, Parts, OneReader
<1>2. Fresh(s)'
  BY DEF RoleTypes, Turns, In, Here, Roles, Reader, Joining, Early, Leaving, Silent, Parts, Fresh
<1>3. LostOnce(s)'
  BY DEF RoleTypes, Turns, In, Here, Roles, Reader, Joining, Early, Leaving, Silent, Parts, LostOnce, Fresh, OneReader
<1>4. Listed(s)'
  BY DEF RoleTypes, Turns, In, Here, Roles, Reader, Joining, Early, Leaving, Silent, Parts, Listed
<1>5. Kept(s)'
  BY DEF RoleTypes, Turns, In, Here, Roles, Reader, Joining, Early, Leaving, Silent, Parts, Kept, LostOnce
<1>6. Identified(s)'
  BY DEF RoleTypes, Turns, In, Here, Roles, Reader, Joining, Early, Leaving, Silent, Parts, Identified
<1>7. Removable(s)'
  BY DEF RoleTypes, Turns, In, Here, Roles, Reader, Joining, Early, Leaving, Silent, Parts, Removable, LostOnce, Fresh, OneReader
<1> QED
  BY <1>1, <1>2, <1>3, <1>4, <1>5, <1>6, <1>7 DEF Parts

LEMMA NewClientKeeps ==
  ASSUME RoleTypes, NEW t \in Threads, NEW s \in Sessions, Parts(s), NEW c \in Sessions,
         role[t] = "idle",
         Turns(t, "takeId", c),
         reading \in [Sessions -> {"accept", "none", "read"}],
         reading[c] = "accept",
         reading' = [reading EXCEPT ![c] = "none"],
         UNCHANGED <<lost, writeFailed, outbox, userData, sessionList, playersData>>
  PROVE  Parts(s)'
<1>1. OneReader(s)'
  BY DEF RoleTypes, Turns, In, Here, Roles, Reader, Joining, Early, Leaving, Silent, Parts, OneReader, Fresh
<1>2. Fresh(s)'
  BY DEF RoleTypes, Turns, In, Here, Roles, Reader, Joining, Early, Leaving, Silent, Parts, Fresh
<1>3. LostOnce(s)'
  BY DEF RoleTypes, Turns, In, Here, Roles, Reader, Joining, Early, Leaving, Silent, Parts, LostOnce, Fresh, OneReader
<1>4. Listed(s)'
  BY DEF RoleTypes, Turns, In, Here, Roles, Reader, Joining, Early, Leaving, Silent, Parts, Listed, Fresh
<1>5. Kept(s)'
  BY DEF RoleTypes, Turns, In, Here, Roles, Reader, Joining, Early, Leaving, Silent, Parts, Kept, Fresh
<1>6. Identified(s)'
  BY DEF RoleTypes, Turns, In, Here, Roles, Reader, Joining, Early, Leaving, Silent, Parts, Identified, Fresh
<1>7. Removable(s)'
  BY DEF RoleTypes, Turns, In, Here, Roles, Reader, Joining, Early, Leaving, Silent, Parts, Removable, Fresh, LostOnce, OneReader
<1> QED
  BY <1>1, <1>2, <1>3, <1>4, <1>5, <1>6, <1>7 DEF Parts

LEMMA NewMessageKeeps ==
  ASSUME RoleTypes, NEW t \in Threads, NEW s \in Sessions, Parts(s), NEW c \in Sessions,
         role[t] = "idle",
         Turns(t, "MESSAGE", c),
         reading \in [Sessions -> {"accept", "none", "read"}],
         reading[c] = "read",
         reading' = [reading EXCEPT ![c] = "none"],
         UNCHANGED <<lost, writeFailed, outbox, userData, sessionList, playersData>>
  PROVE  Parts(s)'
<1>1. OneReader(s)'
  BY DEF RoleTypes, Turns, In, Here, Roles, Reader, Joining, Early, Leaving, Silent, Parts, OneReader
<1>2. Fresh(s)'
  BY DEF RoleTypes, Turns, In, Here, Roles, Reader, Joining, Early, Leaving, Silent, Parts, Fresh
<1>3. LostOnce(s)'
  BY DEF RoleTypes, Turns, In, Here, Roles, Reader, Joining, Early, Leaving, Silent, Parts, LostOnce, Fresh, OneReader
<1>4. Listed(s)'
  BY DEF RoleTypes, Turns, In, Here, Roles, Reader, Joining, Early, Leaving, Silent, Parts, Listed
<1>5. Kept(s)'
  BY DEF RoleTypes, Turns, In, Here, Roles, Reader, Joining, Early, Leaving, Silent, Parts, Kept
<1>6. Identified(s)'
  BY DEF RoleTypes, Turns, In, Here, Roles, Reader, Joining, Early, Leaving, Silent, Parts, Identified
<1>7. Removable(s)'
  BY DEF RoleTypes, Turns, In, Here, Roles, Reader, Joining, Early, Leaving, Silent, Parts, Removable, LostOnce, Fresh, OneReader
<1> QED
  BY <1>1, <1>2, <1>3, <1>4, <1>5, <1>6, <1>7 DEF Parts

LEMMA ReadFailsKeeps ==
  ASSUME RoleTypes, NEW t \in Threads, NEW s \in Sessions, Parts(s), NEW c \in Sessions,
         role[t] = "idle",
         Turns(t, "removeSession", c),
         reading \in [Sessions -> {"accept", "none", "read"}],
         reading[c] \in {"accept", "read"},
         reading' = [reading EXCEPT ![c] = "none"],
         lost' = lost \cup {c},
         UNCHANGED <<writeFailed, outbox, userData, sessionList, playersData>>
  PROVE  Parts(s)'
<1>1. OneReader(s)'
  BY DEF RoleTypes, Turns, In, Here, Roles, Reader, Joining, Early, Leaving, Silent, Parts, OneReader
<1>2. Fresh(s)'
  BY DEF RoleTypes, Turns, In, Here, Roles, Reader, Joining, Early, Leaving, Silent, Parts, Fresh, OneReader
<1>3. LostOnce(s)'
  BY DEF RoleTypes, Turns, In, Here, Roles, Reader, Joining, Early, Leaving, Silent, Parts, LostOnce, OneReader, Fresh
<1>4. Listed(s)'
  BY DEF RoleTypes, Turns, In, Here, Roles, Reader, Joining, Early, Leaving, Silent, Parts, Listed, OneReader, Fresh
<1>5. Kept(s)'
  BY DEF RoleTypes, Turns, In, Here, Roles, Reader, Joining, Early, Leaving, Silent, Parts, Kept, OneReader, Fresh
<1>6. Identified(s)'
  BY DEF RoleTypes, Turns, In, Here, Roles, Reader, Joining, Early, Leaving, Silent, Parts, Identified
<1>7. Removable(s)'
  BY DEF RoleTypes, Turns, In, Here, Roles, Reader, Joining, Early, Leaving, Silent, Parts, Removable, Fresh, LostOnce, Listed, OneReader
<1> QED
  BY <1>1, <1>2, <1>3, <1>4, <1>5, <1>6, <1>7 DEF Parts

LEMMA WriteFailsKeeps ==
  ASSUME RoleTypes, NEW t \in Threads, NEW s \in Sessions, Parts(s), NEW c \in Sessions,
         role[t] = "idle",
         Turns(t, "removeSession", c),
         outbox[c] # {},
         c \notin writeFailed,
         writeFailed' = writeFailed \cup {c},
         lost' = lost \cup {c},
         UNCHANGED <<reading, outbox, userData, sessionList, playersData>>
  PROVE  Parts(s)'
<1>1. OneReader(s)'
  BY DEF RoleTypes, Turns, In, Here, Roles, Reader, Joining, Early, Leaving, Silent, Parts, OneReader
<1>2. Fresh(s)'
  BY DEF RoleTypes, Turns, In, Here, Roles, Reader, Joining, Early, Leaving, Silent, Parts, Fresh
<1>3. LostOnce(s)'
  BY DEF RoleTypes, Turns, In, Here, Roles, Reader, Joining, Early, Leaving, Silent, Parts, LostOnce, Fresh, OneReader
<1>4. Listed(s)'
  BY DEF RoleTypes, Turns, In, Here, Roles, Reader, Joining, Early, Leaving, Silent, Parts, Listed
<1>5. Kept(s)'
  BY DEF RoleTypes, Turns, In, Here, Roles, Reader, Joining, Early, Leaving, Silent, Parts, Kept
<1>6. Identified(s)'
  BY DEF RoleTypes, Turns, In, Here, Roles, Reader, Joining, Early, Leaving, Silent, Parts, Identified
<1>7. Removable(s)'
  BY DEF RoleTypes, Turns, In, Here, Roles, Reader, Joining, Early, Leaving, Silent, Parts, Removable, Listed, LostOnce, Fresh, OneReader
<1> QED
  BY <1>1, <1>2, <1>3, <1>4, <1>5, <1>6, <1>7 DEF Parts

LEMMA FramesNext ==
  ASSUME TypeOK, FramesOK, Next
  PROVE  FramesOK'
<1>0. PICK t \in Threads : t <= totalThreads /\ (Continue(t) \/ \E s \in Sessions : Callback(t, s))
  BY BoundAssumption DEF Next, TypeOK, Threads
<1>1. frame[t] \in Frames /\ totalThreads' = totalThreads
  BY <1>0 DEF TypeOK, Continue, Callback, TakeId, BumpId, PushData, AddSession, WelcomeClient,
     WriteAndReturn, ForEachStart, ForEachWrite, ForEachEnd, Feedback, RemoveSession, EraseData,
     NewClient, NewMessage, ReadFails, WriteFails, LostClient
<1>2. ASSUME NEW f, frame' = [frame EXCEPT ![t] = f],
             f.at # "idle" => f.cur \in Sessions,
             f.at \in {"announce", "broadcast"} => f.note # NoNote /\ f.note[1] \in Kinds,
             f.at = "feedback" => f.note # NoNote /\ f.note[1] = "MESSAGE",
             f.at \in {"removeSession", "eraseData"} => f.note # NoNote /\ f.note[1] = "LEFT",
             f.at = "broadcast" => f.index > 0
      PROVE  FramesOK'
  <2>1. frame'[t] = f /\ \A u \in Threads \ {t} : frame'[u] = frame[u]
    BY <1>2 DEF TypeOK
  <2> QED
    BY <1>0, <1>1, <1>2, <2>1 DEF FramesOK
<1>3. ASSUME NEW p, Goto(t, p), p # "broadcast", at(t) # "idle",
             p = "announce" => at(t) = "eraseData",
             p = "feedback" => at(t) = "broadcast" /\ frame[t].note[1] = "MESSAGE",
             p = "eraseData" => at(t) = "removeSession", p # "removeSession"
      PROVE  FramesOK'
  <2> HIDE DEF Goto
  <2>1. PICK f : /\ f.at = p /\ f.note = frame[t].note /\ f.cur = frame[t].cur
                 /\ frame' = [frame EXCEPT ![t] = f]
    BY <1>3, TurnsGoto
  <2> QED
    BY <1>2, <1>3, <2>1 DEF FramesOK, Kinds
<1>4. ASSUME NEW p, NEW s \in Sessions, NEW n, frame' = [frame EXCEPT ![t] = At(p, s, n)],
             p \in {"takeId", "announce", "removeSession"},
             p = "announce" => n # NoNote /\ n[1] \in Kinds,
             p = "removeSession" => n # NoNote /\ n[1] = "LEFT"
      PROVE  FramesOK'
  BY <1>2, <1>4
<1>5. ASSUME Return(t) PROVE FramesOK'
  BY <1>2, <1>5
<1>6. CASE TakeId(t)
  BY <1>3, <1>6 DEF TakeId
<1>7. CASE BumpId(t)
  BY <1>3, <1>7 DEF BumpId
<1>8. CASE PushData(t)
  <2>1. cur(t) \in Sessions
    BY <1>8 DEF PushData, FramesOK
  <2> QED
    BY <1>4, <1>8, <2>1, NoteKinds DEF PushData, Kinds
<1>9. CASE AddSession(t)
  BY <1>3, <1>9 DEF AddSession
<1>10. CASE WelcomeClient(t) \/ Feedback(t)
  BY <1>5, <1>10 DEF WelcomeClient, Feedback, WriteAndReturn
<1>11. CASE ForEachStart(t)
  <2> DEFINE f == [frame[t] EXCEPT !.at = "broadcast", !.index = LoopStart]
  <2>1. frame' = [frame EXCEPT ![t] = f]
    BY <1>11 DEF ForEachStart, TypeOK
  <2>2. f.at = "broadcast" /\ f.cur = frame[t].cur /\ f.note = frame[t].note /\ f.index = 1
    BY <1>1 DEF Frames, LoopStart
  <2>3. at(t) = "announce"
    BY <1>11 DEF ForEachStart
  <2> HIDE DEF f
  <2>4. f.cur \in Sessions /\ f.note # NoNote /\ f.note[1] \in Kinds /\ f.index > 0
    BY <2>2, <2>3 DEF FramesOK
  <2> QED
    BY <1>2, <2>1, <2>2, <2>4
<1>12. CASE ForEachWrite(t)
  <2> DEFINE f == [frame[t] EXCEPT !.index = frame[t].index + 1]
  <2>1. frame' = [frame EXCEPT ![t] = f]
    BY <1>12 DEF ForEachWrite
  <2>2. /\ f.at = frame[t].at /\ f.cur = frame[t].cur /\ f.note = frame[t].note
        /\ f.index = frame[t].index + 1 /\ f.index > 0
    BY <1>1 DEF Frames
  <2>3. at(t) = "broadcast"
    BY <1>12 DEF ForEachWrite
  <2> QED
    BY <1>2, <2>1, <2>2, <2>3 DEF FramesOK
<1>13. CASE ForEachEnd(t)
  <2>1. at(t) = "broadcast" /\ frame[t].note[1] \in Kinds
    BY <1>13 DEF ForEachEnd, FramesOK
  <2>2. \/ frame[t].note[1] = "NEW" /\ Goto(t, "addSession")
        \/ frame[t].note[1] = "MESSAGE" /\ Goto(t, "feedback")
        \/ frame[t].note[1] = "LEFT" /\ Return(t)
    BY <1>13, <2>1 DEF ForEachEnd, Kinds
  <2> HIDE DEF Goto
  <2> QED
    BY <1>3, <1>5, <2>1, <2>2
<1>14. CASE RemoveSession(t)
  BY <1>3, <1>14 DEF RemoveSession
<1>15. CASE EraseData(t)
  BY <1>3, <1>15 DEF EraseData
<1>16. ASSUME NEW s \in Sessions, NewClient(t, s) PROVE FramesOK'
  BY <1>4, <1>16 DEF NewClient
<1>17. ASSUME NEW s \in Sessions, NewMessage(t, s) PROVE FramesOK'
  <2>1. PICK id : Enter(t, "announce", s, FromUser(id, received'))
    BY <1>17 DEF NewMessage
  <2> QED
    BY <1>4, <2>1, NoteKinds DEF Kinds
<1>18. ASSUME NEW s \in Sessions, LostClient(t, s) PROVE FramesOK'
  <2>1. PICK id : Enter(t, "removeSession", s, Left(id))
    BY <1>18 DEF LostClient
  <2> QED
    BY <1>4, <2>1, NoteKinds
<1> QED
  BY <1>0, <1>6, <1>7, <1>8, <1>9, <1>10, <1>11, <1>12, <1>13, <1>14, <1>15, <1>16, <1>17, <1>18
     DEF Continue, Callback, ReadFails, WriteFails

\* Everything RosterInv says of a server that runs.
Running == FramesOK /\ IsInjective(sessionList) /\ IsInjective(playersData) /\ \A s \in Sessions : Parts(s)

LEMMA RunningNext ==
  ASSUME TypeOK, Running, Next, status' = "running"
  PROVE  Running'
<1>0. PICK t \in Threads : Continue(t) \/ \E s \in Sessions : Callback(t, s)
  BY BoundAssumption DEF Next, TypeOK, Threads
<1>1. /\ FramesOK /\ RoleTypes
      /\ IsInjective(sessionList) /\ sessionList \in Seq(Sessions)
      /\ IsInjective(playersData) /\ playersData \in Seq(Sessions)
  BY RolesTyped DEF Running, TypeOK
<1>2. FramesOK'
  BY <1>1, FramesNext
<1>3. \A s \in Sessions : Parts(s)
  BY DEF Running
<1>4. who[t] = cur(t) /\ (role[t] # "idle" => who[t] \in Sessions)
  BY <1>1, RolesOK
<1> DEFINE Goal == Running'
<1>5. ASSUME UNCHANGED <<sessionList, playersData>>, \A s \in Sessions : Parts(s)' PROVE Goal
  BY <1>1, <1>2, <1>5 DEF Running
<1>6. CASE TakeId(t)
  <2>1. \A s \in Sessions : Parts(s)'
    BY <1>1, <1>3, <1>6, Moves, TakeIdKeeps DEF TakeId
  <2> QED
    BY <1>5, <1>6, <2>1 DEF TakeId
<1>7. CASE BumpId(t)
  <2>1. \A s \in Sessions : Parts(s)'
    BY <1>1, <1>3, <1>4, <1>7, Moves, BumpIdKeeps DEF BumpId
  <2> QED
    BY <1>5, <1>7, <2>1 DEF BumpId
<1>8. CASE PushData(t)
  <2>1. /\ role[t] = "pushData" /\ Turns(t, "NEW", who[t]) /\ who[t] \in Sessions
        /\ playersData' = Append(playersData, who[t])
        /\ UNCHANGED <<reading, lost, writeFailed, outbox, userData, sessionList>>
    BY <1>1, <1>4, <1>8, Moves DEF PushData
  <2>2. ~Contains(playersData, who[t])
    BY <1>3, <2>1 DEF Parts, Kept, In, Early
  <2>3. /\ \A y : Contains(playersData', y) <=> (Contains(playersData, y) \/ y = who[t])
        /\ IsInjective(playersData')
    BY <1>1, <2>1, <2>2, AppendContains
  <2>4. \A s \in Sessions : Parts(s)'
    BY <1>1, <1>3, <2>1, <2>3, PushDataKeeps
  <2> QED
    BY <1>1, <1>2, <2>1, <2>3, <2>4 DEF Running
<1>9. CASE AddSession(t)
  <2>1. /\ role[t] = "NEW" /\ Turns(t, "MESSAGE", who[t]) /\ who[t] \in Sessions
        /\ sessionList' = Append(sessionList, who[t])
        /\ UNCHANGED <<reading, lost, writeFailed, outbox, userData, playersData>>
    BY <1>1, <1>4, <1>9, Moves DEF AddSession
  <2>2. ~Contains(sessionList, who[t])
    BY <1>3, <2>1 DEF Parts, Listed, In, Joining
  <2>3. /\ \A y : Contains(sessionList', y) <=> (Contains(sessionList, y) \/ y = who[t])
        /\ IsInjective(sessionList')
    BY <1>1, <2>1, <2>2, AppendContains
  <2>4. \A s \in Sessions : Parts(s)'
    BY <1>1, <1>3, <2>1, <2>3, AddSessionKeeps
  <2> QED
    BY <1>1, <1>2, <2>1, <2>3, <2>4 DEF Running
<1>10. CASE WelcomeClient(t) \/ Feedback(t)
  <2>1. role[t] = "MESSAGE" /\ Turns(t, "idle", 0)
    BY <1>1, <1>10, Moves
  <2>2. PICK m : WriteAndReturn(t, m)
    BY <1>10 DEF WelcomeClient, Feedback
  <2>3. /\ reading \in [Sessions -> {"accept", "none", "read"}]
        /\ outbox \in [Sessions -> SUBSET Messages]
        /\ reading' = [reading EXCEPT ![who[t]] = "read"]
        /\ outbox' = [outbox EXCEPT ![who[t]] = outbox[who[t]] \cup {m}]
        /\ UNCHANGED <<lost, writeFailed, userData, sessionList, playersData>>
    BY <1>4, <2>2 DEF WriteAndReturn, TypeOK
  <2>4. \A s \in Sessions : Parts(s)'
    BY <1>1, <1>3, <2>1, <2>3, ReturnKeeps
  <2> QED
    BY <1>5, <2>3, <2>4
<1>11. CASE ForEachStart(t)
  <2>1. \A s \in Sessions : Parts(s)'
    BY <1>1, <1>3, <1>11, Moves, LoopKeeps DEF ForEachStart
  <2> QED
    BY <1>5, <1>11, <2>1 DEF ForEachStart
<1>12. CASE ForEachWrite(t)
  <2>1. Turns(t, role[t], who[t])
    BY <1>1, <1>12, Moves
  <2>2. UNCHANGED <<reading, lost, writeFailed, userData, sessionList, playersData>>
    BY <1>12 DEF ForEachWrite
  <2>3. Contains(sessionList, sessionList[frame[t].index])
    <3>1. frame[t].index \in Nat /\ frame[t].index > 0 /\ frame[t].index <= Len(sessionList)
      BY <1>1, <1>12 DEF ForEachWrite, FramesOK, TypeOK, Frames
    <3>2. frame[t].index \in 1..Len(sessionList)
      BY <1>1, <3>1, LenProperties
    <3> QED
      BY <3>2 DEF Contains
  <2>4. ASSUME NEW s \in Sessions PROVE outbox'[s] = outbox[s] \/ Contains(sessionList, s)
    BY <1>12, <2>3 DEF ForEachWrite, TypeOK
  <2>5. \A s \in Sessions : Parts(s)'
    BY <1>1, <1>3, <2>1, <2>2, <2>4, LoopKeeps
  <2> QED
    BY <1>5, <2>2, <2>5
<1>13. CASE ForEachEnd(t)
  <2>1. UNCHANGED <<reading, lost, writeFailed, outbox, userData, sessionList, playersData>>
    BY <1>13 DEF ForEachEnd
  <2>2. \A s \in Sessions : Parts(s)'
    BY <1>1, <1>3, <1>13, <2>1, Moves, LoopKeeps, LeftKeeps
  <2> QED
    BY <1>5, <2>1, <2>2
<1>14. CASE RemoveSession(t)
  <2>1. /\ role[t] = "removeSession" /\ Turns(t, "eraseData", who[t])
        /\ sessionList' = EraseByValue(sessionList, who[t])
        /\ UNCHANGED <<reading, lost, writeFailed, outbox, userData, playersData>>
    BY <1>1, <1>4, <1>14, Moves DEF RemoveSession
  <2>2. /\ \A y : Contains(sessionList', y) <=> (Contains(sessionList, y) /\ y # who[t])
        /\ IsInjective(sessionList') /\ (WasErased(sessionList, who[t]) <=> Contains(sessionList, who[t]))
    BY <1>1, <2>1, EraseContains
  <2>3. Contains(sessionList, who[t])
    BY <1>4, <1>14, <2>2 DEF RemoveSession
  <2>4. \A s \in Sessions : Parts(s)'
    BY <1>1, <1>3, <2>1, <2>2, <2>3, RemoveKeeps
  <2> QED
    BY <1>1, <1>2, <2>1, <2>2, <2>4 DEF Running
<1>15. CASE EraseData(t)
  <2>1. /\ role[t] = "eraseData" /\ Turns(t, "LEFT", who[t])
        /\ playersData' = EraseByValue(playersData, who[t])
        /\ UNCHANGED <<reading, lost, writeFailed, outbox, userData, sessionList>>
    BY <1>1, <1>4, <1>15, Moves DEF EraseData
  <2>2. /\ \A y : Contains(playersData', y) <=> (Contains(playersData, y) /\ y # who[t])
        /\ IsInjective(playersData')
    BY <1>1, <2>1, EraseContains
  <2>3. \A s \in Sessions : Parts(s)'
    BY <1>1, <1>3, <2>1, <2>2, EraseKeeps
  <2> QED
    BY <1>1, <1>2, <2>1, <2>2, <2>3 DEF Running
<1>16. ASSUME NEW c \in Sessions, NewClient(t, c) PROVE Goal
  <2>1. \A s \in Sessions : Parts(s)'
    BY <1>1, <1>3, <1>16, Moves, NewClientKeeps DEF NewClient, Arrives, TypeOK
  <2> QED
    BY <1>5, <1>16, <2>1 DEF NewClient
<1>17. ASSUME NEW c \in Sessions, NewMessage(t, c) PROVE Goal
  <2>1. role[t] = "idle" /\ Turns(t, "MESSAGE", c)
    BY <1>1, <1>17, Moves
  <2>2. /\ reading \in [Sessions -> {"accept", "none", "read"}] /\ reading[c] = "read"
        /\ reading' = [reading EXCEPT ![c] = "none"]
        /\ UNCHANGED <<lost, writeFailed, outbox, userData, sessionList, playersData>>
    BY <1>17 DEF NewMessage, TypeOK
  <2>3. \A s \in Sessions : Parts(s)'
    BY <1>1, <1>3, <2>1, <2>2, NewMessageKeeps
  <2> QED
    BY <1>5, <2>2, <2>3
<1>18. ASSUME NEW c \in Sessions, ReadFails(t, c) PROVE Goal
  <2>1. /\ role[t] = "idle" /\ Turns(t, "removeSession", c) /\ lost' = lost \cup {c}
        /\ UNCHANGED <<writeFailed, outbox, userData, sessionList, playersData>>
    BY <1>1, <1>18, Moves DEF ReadFails, LostClient
  <2>2. /\ reading \in [Sessions -> {"accept", "none", "read"}] /\ reading[c] \in {"accept", "read"}
        /\ reading' = [reading EXCEPT ![c] = "none"]
    BY <1>18 DEF ReadFails, Arrives, TypeOK
  <2>3. \A s \in Sessions : Parts(s)'
    BY <1>1, <1>3, <2>1, <2>2, ReadFailsKeeps
  <2> QED
    BY <1>5, <2>1, <2>3
<1>19. ASSUME NEW c \in Sessions, WriteFails(t, c) PROVE Goal
  <2>1. /\ role[t] = "idle" /\ Turns(t, "removeSession", c) /\ lost' = lost \cup {c}
        /\ writeFailed' = writeFailed \cup {c} /\ outbox[c] # {} /\ c \notin writeFailed
        /\ UNCHANGED <<reading, outbox, userData, sessionList, playersData>>
    BY <1>1, <1>19, Moves DEF WriteFails, LostClient
  <2>2. \A s \in Sessions : Parts(s)'
    BY <1>1, <1>3, <2>1, WriteFailsKeeps
  <2> QED
    BY <1>5, <2>1, <2>2
<1> QED
  BY <1>0, <1>6, <1>7, <1>8, <1>9, <1>10, <1>11, <1>12, <1>13, <1>14, <1>15, <1>16, <1>17,
     <1>18, <1>19 DEF Continue, Callback

\* removeSession finds its session, unless it was lost before or never added.
LEMMA ThrowsNext ==
  ASSUME TypeOK, status = "running" => Running, RemovalThrowsTwiceLost, [Next]_vars
  PROVE  RemovalThrowsTwiceLost'
<1>1. CASE UNCHANGED vars
  BY <1>1 DEF vars, RemovalThrowsTwiceLost, ReadingEnded
<1>2. CASE Next
  <2>0. PICK t \in Threads : Continue(t) \/ \E s \in Sessions : Callback(t, s)
    BY <1>2, BoundAssumption DEF Next, TypeOK, Threads
  <2>1. status = "running" /\ Running
    BY <1>2 DEF Next
  <2>2. CASE RemoveSession(t)
    <3>1. IsInjective(sessionList) /\ sessionList \in Seq(Sessions) /\ FramesOK
      BY <2>1 DEF Running, TypeOK
    <3>2. WasErased(sessionList, cur(t)) <=> Contains(sessionList, cur(t))
      BY <3>1, EraseContains
    <3>3. role[t] = "removeSession" /\ who[t] = cur(t) /\ cur(t) \in Sessions
      BY <2>2, <3>1, Moves, RolesOK
    <3>4. \/ Contains(sessionList, cur(t)) \/ cur(t) \notin userData
          \/ cur(t) \in writeFailed /\ Silent(cur(t))
      BY <2>1, <3>3 DEF Running, Parts, Removable, In
    <3>5. /\ at(t) = "removeSession" /\ at(t)' = "eraseData" /\ cur(t)' = cur(t)
          /\ frame'[t].note = frame[t].note
          /\ \A u \in Threads : u # t => frame'[u] = frame[u]
          /\ UNCHANGED <<userData, writeFailed, reading>>
      BY <2>2 DEF RemoveSession, TypeOK, Frames
    <3>6. ASSUME Silent(cur(t)) PROVE ReadingEnded(cur(t))'
      <4>1. ASSUME NEW u \in Threads, at(u) # "idle", cur(u) = cur(t)
            PROVE  frame[u].note # NoNote /\ frame[u].note[1] = "LEFT"
        <5>1. /\ role[u] \in Roles \ {"idle"} /\ who[u] = cur(t)
              /\ role[u] = RoleOf(frame[u]) /\ frame[u].at \in Places
          BY <3>1, <4>1, RolesOK DEF TypeOK, Frames
        <5>2. role[u] \in Leaving
          BY <3>6, <5>1 DEF Silent, In, Roles
        <5>3. \/ frame[u].at \in {"removeSession", "eraseData"}
              \/ frame[u].at \in {"announce", "broadcast"} /\ frame[u].note[1] = "LEFT"
          BY <3>1, <5>1, <5>2 DEF RoleOf, Leaving, Places, Kinds, FramesOK
        <5> QED
          BY <3>1, <4>1, <5>3 DEF FramesOK
      <4> QED
        BY <3>3, <3>5, <3>6, <4>1 DEF Silent, ReadingEnded
    <3> QED
      BY <2>1, <2>2, <3>2, <3>4, <3>5, <3>6 DEF RemoveSession, RemovalThrowsTwiceLost
  <2>3. CASE ~RemoveSession(t)
    <3>1. status' # "exception"
      BY <2>0, <2>1, <2>3 DEF Continue, Callback, TakeId, BumpId, PushData, AddSession,
         WelcomeClient, WriteAndReturn, ForEachStart, ForEachWrite, ForEachEnd, Feedback,
         EraseData, NewClient, NewMessage, ReadFails, WriteFails, LostClient, UseVector
    <3> QED
      BY <3>1 DEF RemovalThrowsTwiceLost
  <2> QED
    BY <2>2, <2>3
<1> QED
  BY <1>1, <1>2

LEMMA RosterInit == Init => RosterInv
<1> SUFFICES ASSUME Init PROVE RosterInv
  OBVIOUS
<1>1. TypeOK
  BY TypeInit
<1>2. \A t \in Threads : frame[t] = Idle
  BY DEF Init
<1>3. FramesOK
  BY <1>2 DEF FramesOK
<1>4. \A t \in Threads : role[t] = "idle"
  BY <1>2, RoleFunctions DEF RoleOf
<1>5. \A y : ~Contains(sessionList, y) /\ ~Contains(playersData, y)
  BY DEF Init, Contains
<1>6. IsInjective(sessionList) /\ IsInjective(playersData)
  BY DEF Init, IsInjective
<1>7. ASSUME NEW s \in Sessions PROVE Parts(s)
  <2>1. reading[s] = "accept" /\ outbox[s] = {} /\ lost = {} /\ userData = {} /\ writeFailed = {}
    BY DEF Init
  <2> QED
    BY <1>4, <1>5, <2>1 DEF Parts, OneReader, Fresh, LostOnce, Listed, Kept, Identified,
       Removable, Here, In, Roles, Reader, Joining, Early, Leaving, Silent
<1>8. RemovalThrowsTwiceLost
  BY DEF Init, RemovalThrowsTwiceLost
<1> QED
  BY <1>1, <1>3, <1>6, <1>7, <1>8 DEF RosterInv

LEMMA RosterNext == RosterInv /\ [Next]_vars => RosterInv'
<1> SUFFICES ASSUME RosterInv, [Next]_vars PROVE RosterInv'
  OBVIOUS
<1>1. TypeOK /\ (status = "running" => Running) /\ RemovalThrowsTwiceLost
  BY DEF RosterInv, Running
<1>2. TypeOK'
  BY <1>1, TypeNext DEF Running
<1>3. RemovalThrowsTwiceLost'
  BY <1>1, ThrowsNext
<1>4. (status = "running" => Running)'
  <2>1. CASE UNCHANGED vars
    <3>1. UNCHANGED <<status, frame, sessionList, playersData, reading, lost, writeFailed,
                      outbox, userData, totalThreads>>
      BY <2>1 DEF vars
    <3>2. UNCHANGED <<role, who>>
      BY <3>1 DEF role, who
    <3> QED
      BY <1>1, <3>1, <3>2 DEF Running, FramesOK, Parts, OneReader, Fresh, LostOnce, Listed, Kept,
         Identified, Removable, Silent, Here, In
  <2>2. CASE Next
    BY <1>1, <2>2, RunningNext DEF Next
  <2> QED
    BY <2>1, <2>2
<1> QED
  BY <1>2, <1>3, <1>4 DEF RosterInv, Running

LEMMA RosterInvariant == Spec => []RosterInv
BY RosterInit, RosterNext, PTL DEF Spec

\* The list and the players' vector hold the connected users, each once,
\* whenever no callback runs, on any number of threads, unless the vector
\* was used by two of them at once.
THEOREM RosterIsOnline == Spec => []RosterMatches
<1>1. RosterInv => RosterMatches
  <2> SUFFICES ASSUME RosterInv, Quiet PROVE
        /\ ToSet(sessionList) = Online /\ IsInjective(sessionList)
        /\ ToSet(playersData) = Online /\ IsInjective(playersData)
    BY DEF RosterMatches
  <2>1. TypeOK /\ Running
    BY DEF RosterInv, Running, Quiet
  <2>2. \A t \in Threads : role[t] = "idle"
    BY <2>1, RolesOK DEF Running, Quiet
  <2>3. \A s \in Sessions : /\ Contains(sessionList, s) <=> s \in Online
                            /\ Contains(playersData, s) <=> s \in Online
    BY <2>1, <2>2 DEF Running, Parts, Listed, Kept, Here, In, Joining, Early, Online
  <2>4. ASSUME NEW v \in Seq(Sessions), \A s \in Sessions : Contains(v, s) <=> s \in Online
        PROVE  ToSet(v) = Online
    <3>1. DOMAIN v = 1..Len(v) /\ \A i \in 1..Len(v) : v[i] \in Sessions
      BY LenProperties, ElementOfSeq
    <3>2. Online \subseteq Sessions
      BY DEF Online
    <3> QED
      BY <2>4, <3>1, <3>2 DEF ToSet, Contains
  <2> QED
    BY <2>1, <2>3, <2>4 DEF Running, TypeOK
<1> QED
  BY <1>1, RosterInvariant, PTL

\* The manager throws only for a session reported lost before, and for a
\* connection that never became a websocket.
THEOREM RemovalOnlyThrowsTwiceLost == Spec => []RemovalThrowsTwiceLost
<1>1. RosterInv => RemovalThrowsTwiceLost
  BY DEF RosterInv
<1> QED
  BY <1>1, RosterInvariant, PTL

\* A message is announced with the id of the session it came from, unless
\* that session was reported lost.
THEOREM MessagesAreNamed == Spec => MessagesNameTheirSender
<1>1. ASSUME RosterInv, [Next]_vars, NEW t \in Threads, received' > received, frame'[t] # frame[t]
      PROVE  cur(t)' \in lost \/ frame'[t].note = FromUser(playerId[cur(t)'], received')
  <2>1. TypeOK /\ received \in Nat
    BY <1>1 DEF RosterInv, TypeOK
  <2>2. PICK u \in Threads, s \in Sessions : NewMessage(u, s) /\ status = "running"
    <3>1. received' # received
      BY <1>1, <2>1
    <3>2. PICK u \in Threads : Continue(u) \/ \E s \in Sessions : Callback(u, s)
      BY <1>1, <2>1, <3>1, BoundAssumption DEF Next, vars, Threads, TypeOK
    <3>3. ~Continue(u)
      BY <3>1 DEF Continue, TakeId, BumpId, PushData, AddSession, WelcomeClient, WriteAndReturn,
         ForEachStart, ForEachWrite, ForEachEnd, Feedback, RemoveSession, EraseData
    <3>4. \A s \in Sessions : Callback(u, s) => NewMessage(u, s)
      BY <3>1 DEF Callback, NewClient, ReadFails, WriteFails, LostClient
    <3>5. status = "running"
      BY <1>1, <3>1 DEF Next, vars
    <3> QED
      BY <3>2, <3>3, <3>4, <3>5
  <2>3. PICK id \in ReadableIds(s) :
          frame' = [frame EXCEPT ![u] = At("announce", s, FromUser(id, received'))]
    BY <2>2 DEF NewMessage
  <2>4. u = t /\ cur(t)' = s /\ frame'[t].note = FromUser(id, received')
    BY <1>1, <2>1, <2>3 DEF TypeOK
  <2>5. ASSUME s \notin lost PROVE id = playerId[s]
    <3>1. Parts(s) /\ reading[s] = "read"
      BY <1>1, <2>2 DEF RosterInv, NewMessage
    <3>2. ~In(s, Joining)
      BY <3>1 DEF Parts, OneReader, In, Reader
    <3>3. s \in userData /\ Contains(playersData, s)
      BY <2>5, <3>1, <3>2 DEF Parts, Kept, Identified, Here, In, Joining, Early
    <3> QED
      BY <2>3, <3>3 DEF ReadableIds
  <2> QED
    BY <2>4, <2>5
<1>2. RosterInv /\ [Next]_vars =>
        [\A t \in Threads : received' > received /\ frame'[t] # frame[t] =>
           LET s == cur(t)' IN
           s \in lost \/ frame'[t].note = FromUser(playerId[s], received')]_vars
  BY <1>1
<1> QED
  BY <1>2, RosterInvariant, PTL DEF Spec, MessagesNameTheirSender

-----------------------------------------------------------------------------
(* A server with one thread: what the users know of each other. *)

\* The callback the thread runs.
place == frame[1].at
served == frame[1].cur
said == frame[1].note
upTo == frame[1].index

Announced(kind) == place \in {"announce", "broadcast"} /\ said[1] = kind
Coming == place = "addSession" \/ Announced("NEW")
Going == place = "eraseData" \/ Announced("LEFT")

\* Sessions are numbered as they come.
InOrder == \A s, u \in Sessions : s < u /\ reading[u] # "accept" => reading[s] # "accept"

\* Every user has an id of its own, from the step that hands it out, and
\* came after those that have one.
IdsOK ==
  /\ \A s \in userData : playerId[s] < lastPlayerId
  /\ \A s, u \in userData : playerId[s] = playerId[u] => s = u
  /\ place = "bumpId" => playerId[served] = lastPlayerId
  /\ place \in {"takeId", "bumpId"} => \A u \in userData : u < served
  /\ \A s \in Sessions : Contains(sessionList, s) => s \in userData

\* Announcements name the user they are about, and who comes is the last.
NotesOK ==
  /\ place = "pushData" \/ Coming => served \in userData /\ \A u \in userData : u <= served
  /\ Announced("NEW") => said[2] = playerId[served]
  /\ Going => served \in userData /\ said[2] = playerId[served]
  /\ place = "removeSession" /\ Contains(sessionList, served) => said[2] = playerId[served]

\* Only lost users were announced as gone.
GoneOK ==
  \A s \in Sessions : Heard(s, "LEFT") \subseteq {playerId[q] : q \in userData \cap lost}

\* Of the users that came after it, a session knows those in the list, and
\* the one that comes, once the session was told, or goes, until it is.
Known(s) == Heard(s, "NEW") \ Heard(s, "LEFT")

Reached(s) == \E i \in 1..Len(sessionList) : sessionList[i] = s /\ i < upTo

Knows(s) ==
  \/ place \in {"addSession", "eraseData"} \/ (place = "announce" /\ said[1] = "LEFT")
  \/ place = "broadcast" /\ said[1] = "NEW" /\ Reached(s)
  \/ place = "broadcast" /\ said[1] = "LEFT" /\ ~Reached(s)

Expected(s) ==
  {q \in Sessions : q > s /\ (Contains(sessionList, q) \/ (q = served /\ Knows(s)))}

ViewsOK ==
  \A s \in Sessions :
    Contains(sessionList, s) => Known(s) = {playerId[q] : q \in Expected(s)}

View == IdsOK /\ NotesOK /\ GoneOK /\ ViewsOK

ViewInv ==
  /\ RosterInv
  /\ status = "running" => InOrder
  /\ totalThreads = 1 /\ status = "running" => View

LEMMA NoteFields ==
  /\ \A id : New(id)[1] = "NEW" /\ New(id)[2] = id
  /\ \A id : Left(id)[1] = "LEFT" /\ Left(id)[2] = id
  /\ \A id : Welcome(id)[1] = "WELCOME"
  /\ \A id, k : FromUser(id, k)[1] = "MESSAGE"
  /\ \A k : FromYou(k)[1] = "FROM YOU"
BY DEF New, Left, Welcome, FromUser, FromYou

\* What a write adds to what its session heard.
LEMMA HeardWrite ==
  ASSUME TypeOK, NEW s \in Sessions, NEW m, WriteTo(s, m), NEW u \in Sessions, NEW kind
  PROVE  Heard(u, kind)' = IF u = s /\ m[1] = kind THEN Heard(u, kind) \cup {m[2]}
                                                    ELSE Heard(u, kind)
<1>1. outbox'[u] = IF u = s THEN outbox[u] \cup {m} ELSE outbox[u]
  BY DEF TypeOK
<1> QED
  BY <1>1 DEF Heard

LEMMA HeardKept ==
  ASSUME UNCHANGED outbox, NEW u, NEW kind
  PROVE  Heard(u, kind)' = Heard(u, kind)
BY DEF Heard

LEMMA PlaceMoves ==
  ASSUME TypeOK, 1 \in Threads
  PROVE  /\ \A p : Goto(1, p) => place' = p /\ UNCHANGED <<served, said, upTo>>
         /\ \A p, s, n : frame' = [frame EXCEPT ![1] = At(p, s, n)] =>
                           place' = p /\ served' = s /\ said' = n
         /\ Return(1) => place' = "idle"
         /\ ForEachStart(1) => place = "announce" /\ place' = "broadcast" /\ upTo' = 1
                               /\ UNCHANGED <<served, said>>
         /\ ForEachWrite(1) => place = "broadcast" /\ upTo' = upTo + 1
                               /\ UNCHANGED <<place, served, said>>
<1>1. frame[1] \in Frames /\ frame \in [Threads -> Frames]
  BY DEF TypeOK
<1>2. ASSUME NEW p, Goto(1, p) PROVE place' = p /\ UNCHANGED <<served, said, upTo>>
  BY <1>1, <1>2 DEF place, served, said, upTo, Frames
<1>3. ASSUME NEW p, NEW s, NEW n, frame' = [frame EXCEPT ![1] = At(p, s, n)]
      PROVE  place' = p /\ served' = s /\ said' = n
  BY <1>1, <1>3 DEF place, served, said
<1>4. Return(1) => place' = "idle"
  BY <1>1 DEF place
<1>5. ForEachStart(1) => place = "announce" /\ place' = "broadcast" /\ upTo' = 1
                         /\ UNCHANGED <<served, said>>
  BY <1>1 DEF ForEachStart, LoopStart, place, served, said, upTo, Frames
<1>6. ForEachWrite(1) => place = "broadcast" /\ upTo' = upTo + 1
                         /\ UNCHANGED <<place, served, said>>
  BY <1>1 DEF ForEachWrite, place, served, said, upTo, Frames
<1> QED
  BY <1>2, <1>3, <1>4, <1>5, <1>6

\* What the other invariant says of a server with one thread.
LEMMA OneThread ==
  ASSUME TypeOK, Running, totalThreads = 1
  PROVE  /\ 1 \in Threads
         /\ place # "idle" => served \in Sessions
         /\ place \in {"announce", "broadcast"} => said[1] \in Kinds
         /\ place \in {"takeId", "bumpId", "pushData"} \/ Coming =>
              served \notin lost /\ ~Contains(sessionList, served)
         /\ Coming => outbox[served] = {}
         /\ Going => served \in lost /\ ~Contains(sessionList, served)
         /\ place = "idle" => \A s \in Sessions : Contains(sessionList, s) => Contains(playersData, s)
         /\ \A s \in Sessions : reading[s] = "accept" => s \notin userData
<1>1. 1 \in Threads /\ FramesOK /\ \A s \in Sessions : Parts(s)
  BY BoundAssumption DEF Threads, Running
<1>2. \A t \in Threads : t # 1 => role[t] = "idle"
  BY <1>1, RolesOK DEF FramesOK, Threads
<1>3. role[1] = RoleOf(frame[1]) /\ who[1] = served
  BY <1>1, RoleFunctions DEF served
<1>4. place # "idle" => served \in Sessions
  BY <1>1 DEF FramesOK, place, served
<1>5. place \in {"announce", "broadcast"} => said[1] \in Kinds
  BY <1>1 DEF FramesOK, place, said
<1>6. /\ place \in {"takeId", "bumpId", "pushData"} \/ Coming => role[1] \in Joining
      /\ Going => role[1] \in {"eraseData", "LEFT"}
      /\ place = "idle" => role[1] = "idle"
  BY <1>3 DEF RoleOf, Coming, Going, Announced, Joining, Early, place, said
<1>7. ASSUME place \in {"takeId", "bumpId", "pushData"} \/ Coming
      PROVE  served \notin lost /\ ~Contains(sessionList, served) /\ outbox[served] = {}
  <2>1. served \in Sessions /\ In(served, Joining)
    BY <1>1, <1>3, <1>4, <1>6, <1>7 DEF In, Coming, Announced
  <2> QED
    BY <1>1, <2>1 DEF Parts, Fresh, Listed
<1>8. ASSUME Going PROVE served \in lost /\ ~Contains(sessionList, served)
  <2>1. served \in Sessions /\ In(served, Leaving) /\ ~In(served, {"removeSession"})
    BY <1>1, <1>2, <1>3, <1>4, <1>6, <1>8 DEF In, Going, Announced, Leaving
  <2> QED
    BY <1>1, <2>1 DEF Parts, LostOnce, Listed
<1>9. ASSUME place = "idle", NEW s \in Sessions, Contains(sessionList, s)
      PROVE  Contains(playersData, s)
  <2>1. \A t \in Threads : role[t] = "idle"
    BY <1>2, <1>6, <1>9
  <2> QED
    BY <1>1, <1>9, <2>1 DEF Parts, Listed, Kept, Here, In, Early
<1>10. \A s \in Sessions : reading[s] = "accept" => s \notin userData
  BY <1>1 DEF Parts, Fresh
<1> QED
  BY <1>1, <1>4, <1>5, <1>7, <1>8, <1>9, <1>10 DEF Coming

LEMMA ViewsKept ==
  ASSUME ViewsOK, UNCHANGED <<sessionList, playerId>>,
         \A s \in Sessions : Contains(sessionList, s) =>
           /\ Heard(s, "NEW")' = Heard(s, "NEW") /\ Heard(s, "LEFT")' = Heard(s, "LEFT")
           /\ Expected(s)' = Expected(s)
  PROVE  ViewsOK'
BY DEF ViewsOK, Known

\* Nobody is coming or going.
LEMMA NobodyKnows ==
  ASSUME ~Coming, ~Going, NEW s
  PROVE  ~Knows(s)
BY DEF Coming, Going, Announced, Knows

LEMMA ExpectedKept ==
  ASSUME NEW s, UNCHANGED sessionList,
         (Knows(s)' = Knows(s) /\ served' = served) \/ (~Knows(s) /\ ~Knows(s)')
  PROVE  Expected(s)' = Expected(s)
BY DEF Expected

\* Steps that leave the ids, the announcements and the list alone, and in
\* which nobody begins or ends to come or go.
LEMMA QuietStep ==
  ASSUME View, ~Coming, ~Going, ~Coming', ~Going',
         UNCHANGED <<sessionList, playerId, userData, outbox, lastPlayerId>>,
         lost \subseteq lost', place' \notin {"takeId", "bumpId", "pushData"},
         place' = "removeSession" =>
           (Contains(sessionList, served') => said'[2] = playerId[served'])
  PROVE  View'
<1>1. IdsOK'
  BY DEF View, IdsOK
<1>2. NotesOK'
  BY DEF NotesOK, Coming
<1>3. GoneOK'
  BY HeardKept DEF View, GoneOK
<1>4. \A s \in Sessions : ~Knows(s) /\ ~Knows(s)'
  BY DEF Coming, Going, Announced, Knows
<1>5. ViewsOK'
  BY <1>4, ExpectedKept, HeardKept, ViewsKept DEF View
<1> QED
  BY <1>1, <1>2, <1>3, <1>5 DEF View

\* A session that comes is the next, and one that came reads or is lost.
LEMMA OrderNext ==
  ASSUME TypeOK, Running, InOrder, Next
  PROVE  InOrder'
<1>0. PICK t \in Threads : Continue(t) \/ \E s \in Sessions : Callback(t, s)
  BY BoundAssumption DEF Next, TypeOK, Threads
<1>1. FramesOK /\ Sessions \subseteq Nat /\ reading \in [Sessions -> {"accept", "none", "read"}]
  BY BoundAssumption DEF Running, TypeOK, Sessions
<1>2. ASSUME NEW c \in Sessions, reading[c] # "accept" \/ Arrives(c),
             NEW v \in {"none", "read"}, reading' = [reading EXCEPT ![c] = v]
      PROVE  InOrder'
  <2>1. \A s \in Sessions : s < c => reading[s] # "accept"
    <3>1. \A s \in Sessions : s < c => s \in 1..(c - 1)
      BY DEF Sessions
    <3> QED
      BY <1>2, <3>1 DEF InOrder, Arrives
  <2>2. \A s \in Sessions : reading'[s] = IF s = c THEN v ELSE reading[s]
    BY <1>1, <1>2
  <2> QED
    BY <1>2, <2>1, <2>2 DEF InOrder
<1>3. CASE UNCHANGED reading
  BY <1>3 DEF InOrder
<1>4. CASE WelcomeClient(t) \/ Feedback(t)
  <2>1. role[t] = "MESSAGE" /\ who[t] = cur(t) /\ cur(t) \in Sessions
    BY <1>1, <1>4, Moves, RolesOK
  <2>2. reading[cur(t)] = "none"
    BY <2>1 DEF Running, Parts, OneReader, Reader
  <2>3. reading' = [reading EXCEPT ![cur(t)] = "read"]
    BY <1>4 DEF WelcomeClient, Feedback, WriteAndReturn
  <2> QED
    BY <1>2, <2>1, <2>2, <2>3
<1>5. ASSUME NEW s \in Sessions, NewClient(t, s) \/ NewMessage(t, s) \/ ReadFails(t, s)
      PROVE  InOrder'
  <2>1. reading[s] = "read" \/ Arrives(s)
    BY <1>5 DEF NewClient, NewMessage, ReadFails
  <2>2. reading' = [reading EXCEPT ![s] = "none"]
    BY <1>5 DEF NewClient, NewMessage, ReadFails
  <2> QED
    BY <1>2, <2>1, <2>2
<1>6. CASE ~(WelcomeClient(t) \/ Feedback(t)) /\ Continue(t)
  <2>1. UNCHANGED reading
    BY <1>6 DEF Continue, TakeId, BumpId, PushData, AddSession, ForEachStart, ForEachWrite,
       ForEachEnd, RemoveSession, EraseData
  <2> QED
    BY <1>3, <2>1
<1>7. \A s \in Sessions : WriteFails(t, s) => UNCHANGED reading
  BY DEF WriteFails
<1> QED
  BY <1>0, <1>3, <1>4, <1>5, <1>6, <1>7 DEF Callback

LEMMA ViewNext ==
  ASSUME TypeOK, Running, InOrder, totalThreads = 1, View, Next, status' = "running"
  PROVE  View'
<1>0. Continue(1) \/ \E s \in Sessions : Callback(1, s)
  BY DEF Next
<1>1. /\ 1 \in Threads /\ FramesOK /\ lastPlayerId \in Nat /\ playerId \in [Sessions -> Nat]
      /\ userData \subseteq Sessions /\ lost \subseteq Sessions /\ Sessions \subseteq Nat
      /\ sessionList \in Seq(Sessions) /\ IsInjective(sessionList)
  BY OneThread, BoundAssumption DEF Running, TypeOK, Sessions
<1>2. at(1) = place /\ cur(1) = served /\ frame[1].note = said /\ frame[1].index = upTo
  BY DEF place, served, said, upTo
<1>3. place # "idle" => served \in Sessions
  BY OneThread
<1>4. /\ place \in {"takeId", "bumpId", "pushData"} \/ Coming =>
           served \notin lost /\ ~Contains(sessionList, served)
      /\ Coming => outbox[served] = {}
      /\ Going => served \in lost /\ ~Contains(sessionList, served)
  BY OneThread
<1>5. IdsOK /\ NotesOK /\ GoneOK /\ ViewsOK
  BY DEF View
<1>6. CASE TakeId(1)
  <2>1. /\ place = "takeId" /\ place' = "bumpId" /\ served' = served
        /\ playerId' = [playerId EXCEPT ![served] = lastPlayerId]
        /\ UNCHANGED <<userData, outbox, lost, sessionList, lastPlayerId>>
    BY <1>1, <1>2, <1>6, PlaceMoves DEF TakeId
  <2>2. served \in Sessions /\ served \notin userData
    BY <1>1, <1>3, <1>5, <2>1 DEF IdsOK
  <2>3. \A s \in userData : playerId'[s] = playerId[s]
    BY <1>1, <2>1, <2>2
  <2>4. IdsOK'
    BY <1>1, <1>5, <2>1, <2>2, <2>3 DEF IdsOK
  <2>5. NotesOK'
    BY <2>1 DEF NotesOK, Coming, Going, Announced
  <2>6. GoneOK'
    BY <1>5, <2>1, <2>3, HeardKept DEF GoneOK
  <2>7. ASSUME NEW s \in Sessions, Contains(sessionList', s)
        PROVE  Known(s)' = {playerId[q] : q \in Expected(s)}'
    <3>1. Expected(s)' = Expected(s) /\ Expected(s) \subseteq userData
      BY <1>5, <2>1 DEF Expected, Knows, IdsOK
    <3>2. Known(s)' = Known(s)
      BY <2>1, HeardKept DEF Known
    <3> QED
      BY <1>5, <2>1, <2>3, <2>7, <3>1, <3>2 DEF ViewsOK
  <2>8. ViewsOK'
    BY <2>7 DEF ViewsOK
  <2> QED
    BY <2>4, <2>5, <2>6, <2>8 DEF View
<1>7. CASE BumpId(1)
  <2>1. /\ place = "bumpId" /\ place' = "pushData" /\ served' = served
        /\ lastPlayerId' = playerId[served] + 1 /\ userData' = userData \cup {served}
        /\ UNCHANGED <<playerId, outbox, lost, sessionList>>
    BY <1>1, <1>2, <1>7, PlaceMoves DEF BumpId
  <2>2. served \in Sessions /\ playerId[served] = lastPlayerId
    BY <1>3, <1>5, <2>1 DEF IdsOK
  <2>3. IdsOK'
    <3>1. \A s \in userData : playerId[s] \in Nat /\ playerId[s] < lastPlayerId
      BY <1>1, <1>5 DEF IdsOK
    <3> QED
      BY <1>1, <1>5, <2>1, <2>2, <3>1 DEF IdsOK
  <2>4. NotesOK'
    <3>1. \A u \in userData' : u <= served
      BY <1>1, <1>5, <2>1, <2>2 DEF IdsOK
    <3> QED
      BY <2>1, <3>1 DEF NotesOK, Coming, Going, Announced
  <2>5. GoneOK'
    BY <1>5, <2>1, HeardKept DEF GoneOK
  <2>6. \A s \in Sessions : ~Knows(s) /\ ~Knows(s)'
    BY <2>1 DEF Knows
  <2>7. ViewsOK'
    BY <1>5, <2>1, <2>6, ExpectedKept, HeardKept, ViewsKept
  <2> QED
    BY <2>3, <2>4, <2>5, <2>7 DEF View
<1>8. CASE PushData(1)
  <2>1. /\ place = "pushData" /\ place' = "announce" /\ served' = served
        /\ said' = New(playerId[served])
        /\ UNCHANGED <<playerId, lastPlayerId, userData, outbox, lost, sessionList>>
    BY <1>1, <1>2, <1>8, PlaceMoves DEF PushData
  <2>2. said'[1] = "NEW" /\ said'[2] = playerId[served]
    BY <2>1, NoteFields
  <2>3. IdsOK'
    BY <1>5, <2>1 DEF IdsOK
  <2>4. NotesOK'
    BY <1>5, <2>1, <2>2 DEF NotesOK, Coming, Going, Announced
  <2>5. GoneOK'
    BY <1>5, <2>1, HeardKept DEF GoneOK
  <2>6. \A s \in Sessions : ~Knows(s) /\ ~Knows(s)'
    BY <2>1, <2>2 DEF Knows
  <2>7. ViewsOK'
    BY <1>5, <2>1, <2>6, ExpectedKept, HeardKept, ViewsKept
  <2> QED
    BY <2>3, <2>4, <2>5, <2>7 DEF View
<1>9. CASE AddSession(1)
  <2>1. /\ place = "addSession" /\ place' = "welcome" /\ served' = served
        /\ sessionList' = Append(sessionList, served) /\ served \in Sessions
        /\ UNCHANGED <<playerId, lastPlayerId, userData, outbox, lost>>
    BY <1>1, <1>2, <1>3, <1>9, PlaceMoves DEF AddSession
  <2>2. /\ served \in userData /\ outbox[served] = {}
        /\ \A u \in userData : u <= served
    BY <1>4, <1>5, <2>1 DEF NotesOK, Coming
  <2>3. \A y : Contains(sessionList', y) <=> (Contains(sessionList, y) \/ y = served)
    BY <1>1, <2>1, AppendContains
  <2>4. IdsOK'
    BY <1>5, <2>1, <2>2, <2>3 DEF IdsOK
  <2>5. NotesOK'
    BY <2>1 DEF NotesOK, Coming, Going, Announced
  <2>6. GoneOK'
    BY <1>5, <2>1, HeardKept DEF GoneOK
  <2>7. ASSUME NEW s \in Sessions, Contains(sessionList', s)
        PROVE  Known(s)' = {playerId[q] : q \in Expected(s)}'
    <3>1. Heard(s, "NEW")' = Heard(s, "NEW") /\ Heard(s, "LEFT")' = Heard(s, "LEFT")
      BY <2>1, HeardKept
    <3>2. Expected(s)' = {q \in Sessions : q > s /\ Contains(sessionList', q)}
      BY <2>1 DEF Expected, Knows
    <3>3. CASE s = served
      <4>1. Heard(s, "NEW") = {}
        BY <2>2, <3>3 DEF Heard
      <4>2. \A q \in Sessions : Contains(sessionList', q) => q <= s
        BY <1>5, <2>2, <2>3, <3>3 DEF IdsOK
      <4>3. Expected(s)' = {}
        BY <1>1, <3>2, <4>2
      <4> QED
        BY <3>1, <4>1, <4>3 DEF Known
    <3>4. CASE s # served
      <4>1. Contains(sessionList, s)
        BY <2>3, <2>7, <3>4
      <4>2. Expected(s)' = Expected(s)
        BY <2>1, <2>3, <3>2 DEF Expected, Knows
      <4>3. Known(s)' = Known(s)
        BY <3>1 DEF Known
      <4> QED
        BY <1>5, <2>1, <4>1, <4>2, <4>3 DEF ViewsOK
    <3> QED
      BY <3>3, <3>4
  <2>8. ViewsOK'
    BY <2>7 DEF ViewsOK
  <2> QED
    BY <2>4, <2>5, <2>6, <2>8 DEF View
<1>10. CASE WelcomeClient(1) \/ Feedback(1)
  <2>1. PICK m : WriteAndReturn(1, m) /\ m[1] \notin {"NEW", "LEFT"}
    BY <1>10, NoteFields DEF WelcomeClient, Feedback
  <2>2. place \in {"welcome", "feedback"} /\ place' = "idle"
    BY <1>1, <1>2, <1>10, <2>1, PlaceMoves DEF WelcomeClient, Feedback, WriteAndReturn
  <2>3. /\ WriteTo(served, m) /\ served \in Sessions
        /\ UNCHANGED <<playerId, lastPlayerId, userData, lost, sessionList>>
    BY <1>2, <1>3, <2>1, <2>2 DEF WriteAndReturn
  <2>4. ASSUME NEW s \in Sessions PROVE /\ Heard(s, "NEW")' = Heard(s, "NEW")
                                        /\ Heard(s, "LEFT")' = Heard(s, "LEFT")
    <3> HIDE DEF WriteTo
    <3> QED
      BY <2>1, <2>3, HeardWrite
  <2>5. IdsOK'
    BY <1>5, <2>2, <2>3 DEF IdsOK
  <2>6. NotesOK'
    BY <2>2 DEF NotesOK, Coming, Going, Announced
  <2>7. GoneOK'
    BY <1>5, <2>3, <2>4 DEF GoneOK
  <2>8. \A s \in Sessions : ~Knows(s) /\ ~Knows(s)'
    BY <2>2 DEF Knows
  <2>9. ViewsOK'
    BY <1>5, <2>3, <2>4, <2>8, ExpectedKept, ViewsKept
  <2> QED
    BY <2>5, <2>6, <2>7, <2>9 DEF View
<1>11. CASE ForEachStart(1)
  <2>1. /\ place = "announce" /\ place' = "broadcast" /\ upTo' = 1 /\ UNCHANGED <<served, said>>
        /\ UNCHANGED <<playerId, lastPlayerId, userData, outbox, lost, sessionList>>
    BY <1>1, <1>11, PlaceMoves DEF ForEachStart
  <2>2. IdsOK'
    BY <1>5, <2>1 DEF IdsOK
  <2>3. NotesOK'
    BY <1>5, <2>1 DEF NotesOK, Coming, Going, Announced
  <2>4. GoneOK'
    BY <1>5, <2>1, HeardKept DEF GoneOK
  <2>5. ASSUME NEW s \in Sessions PROVE Knows(s)' <=> Knows(s)
    <3>1. ~Reached(s)'
      BY <2>1 DEF Reached
    <3>2. said[1] # "NEW" \/ said[1] # "LEFT"
      OBVIOUS
    <3> QED
      BY <2>1, <3>1, <3>2 DEF Knows
  <2>6. \A s \in Sessions : Expected(s)' = Expected(s)
    BY <2>1, <2>5 DEF Expected
  <2>7. ViewsOK'
    BY <1>5, <2>1, <2>6, HeardKept, ViewsKept
  <2> QED
    BY <2>2, <2>3, <2>4, <2>7 DEF View
<1>12. CASE ForEachWrite(1)
  <2> DEFINE s == sessionList[upTo]
  <2>1. /\ place = "broadcast" /\ upTo' = upTo + 1 /\ UNCHANGED <<place, served, said>>
        /\ UNCHANGED <<playerId, lastPlayerId, userData, lost, sessionList>>
    BY <1>1, <1>12, PlaceMoves DEF ForEachWrite
  <2>2. upTo \in 1..Len(sessionList)
    BY <1>1, <1>2, <1>12, LenProperties DEF ForEachWrite, FramesOK, TypeOK, Frames
  <2>3. s \in Sessions /\ Contains(sessionList, s)
    BY <1>1, <2>2, ElementOfSeq DEF Contains
  <2>4. (said[1] = "MESSAGE" /\ UNCHANGED outbox) \/ WriteTo(s, said)
    BY <1>2, <1>12 DEF ForEachWrite
  <2>5. ~Reached(s) /\ \A u : Reached(u)' <=> (Reached(u) \/ u = s)
    <3>1. DOMAIN sessionList = 1..Len(sessionList) /\ Len(sessionList) \in Nat
      BY <1>1, LenProperties
    <3>2. ~Reached(s)
      BY <1>1, <2>2, <3>1 DEF Reached, IsInjective
    <3>3. \A i \in 1..Len(sessionList) : i < upTo + 1 <=> (i < upTo \/ i = upTo)
      BY <2>2, <3>1
    <3> QED
      BY <2>1, <2>2, <3>2, <3>3 DEF Reached
  <2> HIDE DEF s, WriteTo
  <2>6. IdsOK'
    BY <1>5, <2>1 DEF IdsOK
  <2>7. NotesOK'
    BY <1>5, <2>1 DEF NotesOK, Coming, Going, Announced
  <2>8. CASE said[1] = "MESSAGE"
    <3>1. ASSUME NEW u \in Sessions PROVE /\ Heard(u, "NEW")' = Heard(u, "NEW")
                                          /\ Heard(u, "LEFT")' = Heard(u, "LEFT")
      BY <2>3, <2>4, <2>8, HeardWrite, HeardKept
    <3>2. \A u \in Sessions : ~Knows(u) /\ ~Knows(u)'
      BY <2>1, <2>8 DEF Knows
    <3>3. ViewsOK'
      BY <1>5, <2>1, <3>1, <3>2, ExpectedKept, ViewsKept
    <3>4. GoneOK'
      BY <1>5, <2>1, <3>1 DEF GoneOK
    <3> QED
      BY <2>6, <2>7, <3>3, <3>4 DEF View
  <2>9. CASE said[1] = "NEW"
    <3>1. /\ served \in userData /\ said[2] = playerId[served] /\ served \notin lost
          /\ ~Contains(sessionList, served)
          /\ \A u \in userData : u <= served
      BY <1>4, <1>5, <2>1, <2>9 DEF NotesOK, Coming, Announced
    <3>2. ASSUME NEW u \in Sessions
          PROVE  /\ Heard(u, "NEW")' = IF u = s THEN Heard(u, "NEW") \cup {playerId[served]}
                                                ELSE Heard(u, "NEW")
                 /\ Heard(u, "LEFT")' = Heard(u, "LEFT")
      BY <2>3, <2>4, <2>9, <3>1, HeardWrite
    <3>3. GoneOK'
      BY <1>5, <2>1, <3>2 DEF GoneOK
    <3>4. \A u : /\ Knows(u) <=> Reached(u)
                 /\ Knows(u)' <=> (Reached(u) \/ u = s)
      BY <2>1, <2>5, <2>9 DEF Knows
    <3>5. ASSUME NEW u \in Sessions, Contains(sessionList, u)
          PROVE  Known(u)' = {playerId[q] : q \in Expected(u)}'
      <4>1. CASE u = s
        <5>1. playerId[served] \notin Heard(u, "LEFT")
          BY <1>5, <3>1 DEF GoneOK, IdsOK
        <5>2. Known(u)' = Known(u) \cup {playerId[served]}
          BY <2>1, <3>2, <4>1, <5>1 DEF Known
        <5>3. served > u
          <6>1. u \in userData /\ u # served
            BY <1>5, <3>1, <3>5 DEF IdsOK
          <6> QED
            BY <1>1, <3>1, <6>1
        <5>4. Expected(u)' = Expected(u) \cup {served}
          BY <1>1, <2>1, <2>5, <3>1, <3>4, <4>1, <5>3 DEF Expected
        <5> QED
          BY <1>5, <2>1, <3>5, <5>2, <5>4 DEF ViewsOK
      <4>2. CASE u # s
        <5>1. Known(u)' = Known(u)
          BY <2>1, <3>2, <4>2 DEF Known
        <5>2. Expected(u)' = Expected(u)
          BY <2>1, <3>4, <4>2 DEF Expected
        <5> QED
          BY <1>5, <2>1, <3>5, <5>1, <5>2 DEF ViewsOK
      <4> QED
        BY <4>1, <4>2
    <3>6. ViewsOK'
      BY <2>1, <3>5 DEF ViewsOK
    <3> QED
      BY <2>6, <2>7, <3>3, <3>6 DEF View
  <2>10. CASE said[1] = "LEFT"
    <3>1. /\ served \in userData /\ said[2] = playerId[served] /\ served \in lost
          /\ ~Contains(sessionList, served)
      BY <1>4, <1>5, <2>1, <2>10 DEF NotesOK, Going, Announced
    <3>2. ASSUME NEW u \in Sessions
          PROVE  /\ Heard(u, "LEFT")' = IF u = s THEN Heard(u, "LEFT") \cup {playerId[served]}
                                                 ELSE Heard(u, "LEFT")
                 /\ Heard(u, "NEW")' = Heard(u, "NEW")
      BY <2>3, <2>4, <2>10, <3>1, HeardWrite
    <3>3. GoneOK'
      BY <1>5, <2>1, <3>1, <3>2 DEF GoneOK
    <3>4. \A u : /\ Knows(u) <=> ~Reached(u)
                 /\ Knows(u)' <=> ~(Reached(u) \/ u = s)
      BY <2>1, <2>5, <2>10 DEF Knows
    <3>5. ASSUME NEW u \in Sessions, Contains(sessionList, u)
          PROVE  Known(u)' = {playerId[q] : q \in Expected(u)}'
      <4>1. CASE u = s
        <5>1. Known(u)' = Known(u) \ {playerId[served]}
          BY <2>1, <3>2, <4>1 DEF Known
        <5>2. Expected(u)' = Expected(u) \ {served}
          BY <1>1, <2>1, <2>5, <3>1, <3>4, <4>1 DEF Expected
        <5>3. Expected(u) \subseteq userData
          BY <1>5, <3>1, <3>4, <4>1 DEF Expected, IdsOK
        <5>4. \A q \in Expected(u)' : playerId[q] # playerId[served]
          BY <1>5, <3>1, <5>2, <5>3 DEF IdsOK
        <5> QED
          BY <1>5, <2>1, <3>5, <5>1, <5>2, <5>4 DEF ViewsOK
      <4>2. CASE u # s
        <5>1. Known(u)' = Known(u)
          BY <2>1, <3>2, <4>2 DEF Known
        <5>2. Expected(u)' = Expected(u)
          BY <2>1, <3>4, <4>2 DEF Expected
        <5> QED
          BY <1>5, <2>1, <3>5, <5>1, <5>2 DEF ViewsOK
      <4> QED
        BY <4>1, <4>2
    <3>6. ViewsOK'
      BY <2>1, <3>5 DEF ViewsOK
    <3> QED
      BY <2>6, <2>7, <3>3, <3>6 DEF View
  <2> QED
    BY <2>1, <2>8, <2>9, <2>10, OneThread DEF Kinds
<1>13. CASE ForEachEnd(1)
  <2>1. /\ place = "broadcast" /\ said[1] \in Kinds /\ upTo > Len(sessionList)
        /\ UNCHANGED <<playerId, lastPlayerId, userData, outbox, lost, sessionList>>
    BY <1>2, <1>13, OneThread DEF ForEachEnd, LoopDone
  <2>2. \/ said[1] = "NEW" /\ place' = "addSession" /\ UNCHANGED <<served, said>>
        \/ said[1] = "MESSAGE" /\ place' = "feedback" /\ UNCHANGED <<served, said>>
        \/ said[1] = "LEFT" /\ place' = "idle"
    <3>1. \/ said[1] = "NEW" /\ Goto(1, "addSession")
          \/ said[1] = "MESSAGE" /\ Goto(1, "feedback")
          \/ said[1] = "LEFT" /\ Return(1)
      BY <1>2, <1>13, <2>1 DEF ForEachEnd, Kinds
    <3> HIDE DEF Goto, Return
    <3> QED
      BY <1>1, <3>1, PlaceMoves
  <2>3. IdsOK'
    BY <1>5, <2>1, <2>2 DEF IdsOK
  <2>4. NotesOK'
    BY <1>5, <2>1, <2>2 DEF NotesOK, Coming, Going, Announced
  <2>5. GoneOK'
    BY <1>5, <2>1, HeardKept DEF GoneOK
  <2>6. ASSUME NEW s \in Sessions, Contains(sessionList, s) PROVE Reached(s)
    <3>1. \A i \in 1..Len(sessionList) : i < upTo
      BY <1>1, <1>2, <2>1, LenProperties DEF TypeOK, Frames
    <3> QED
      BY <2>6, <3>1 DEF Reached, Contains
  <2>7. ASSUME NEW s \in Sessions, Contains(sessionList, s) PROVE Expected(s)' = Expected(s)
    <3>1. \/ Knows(s) /\ Knows(s)' /\ served' = served
          \/ ~Knows(s) /\ ~Knows(s)'
      BY <2>1, <2>2, <2>6, <2>7 DEF Knows
    <3> QED
      BY <2>1, <3>1 DEF Expected
  <2>8. ViewsOK'
    BY <1>5, <2>1, <2>7, HeardKept, ViewsKept
  <2> QED
    BY <2>3, <2>4, <2>5, <2>8 DEF View
<1>14. CASE RemoveSession(1)
  <2>1. /\ place = "removeSession" /\ place' = "eraseData" /\ UNCHANGED <<served, said>>
        /\ sessionList' = EraseByValue(sessionList, served) /\ served \in Sessions
        /\ UNCHANGED <<playerId, lastPlayerId, userData, outbox, lost>>
    BY <1>1, <1>2, <1>3, <1>14, PlaceMoves DEF RemoveSession
  <2>2. /\ \A y : Contains(sessionList', y) <=> (Contains(sessionList, y) /\ y # served)
        /\ WasErased(sessionList, served) <=> Contains(sessionList, served)
    BY <1>1, <2>1, EraseContains
  <2>3. Contains(sessionList, served)
    BY <1>2, <1>14, <2>2 DEF RemoveSession
  <2>4. IdsOK'
    BY <1>5, <2>1, <2>2 DEF IdsOK
  <2>5. NotesOK'
    BY <1>5, <2>1, <2>3 DEF NotesOK, IdsOK, Coming, Going, Announced
  <2>6. GoneOK'
    BY <1>5, <2>1, HeardKept DEF GoneOK
  <2>7. ASSUME NEW s \in Sessions, Contains(sessionList', s)
        PROVE  Known(s)' = {playerId[q] : q \in Expected(s)}'
    <3>1. s # served /\ Contains(sessionList, s)
      BY <2>2, <2>7
    <3>2. Expected(s)' = Expected(s)
      BY <2>1, <2>2, <2>3, <3>1 DEF Expected, Knows
    <3>3. Known(s)' = Known(s)
      BY <2>1, HeardKept DEF Known
    <3> QED
      BY <1>5, <2>1, <3>1, <3>2, <3>3 DEF ViewsOK
  <2>8. ViewsOK'
    BY <2>7 DEF ViewsOK
  <2> QED
    BY <2>4, <2>5, <2>6, <2>8 DEF View
<1>15. CASE EraseData(1)
  <2>1. /\ place = "eraseData" /\ place' = "announce" /\ UNCHANGED <<served, said>>
        /\ said[1] = "LEFT"
        /\ UNCHANGED <<playerId, lastPlayerId, userData, outbox, lost, sessionList>>
    BY <1>1, <1>2, <1>15, PlaceMoves DEF EraseData, FramesOK
  <2>2. IdsOK'
    BY <1>5, <2>1 DEF IdsOK
  <2>3. NotesOK'
    BY <1>5, <2>1 DEF NotesOK, Coming, Going, Announced
  <2>4. GoneOK'
    BY <1>5, <2>1, HeardKept DEF GoneOK
  <2>5. \A s \in Sessions : Knows(s) /\ Knows(s)'
    BY <2>1 DEF Knows
  <2>6. \A s \in Sessions : Expected(s)' = Expected(s)
    BY <2>1, <2>5 DEF Expected
  <2>7. ViewsOK'
    BY <1>5, <2>1, <2>6, HeardKept, ViewsKept
  <2> QED
    BY <2>2, <2>3, <2>4, <2>7 DEF View
<1>16. ASSUME NEW s \in Sessions, NewClient(1, s) PROVE View'
  <2>1. /\ place = "idle" /\ place' = "takeId" /\ served' = s
        /\ UNCHANGED <<playerId, lastPlayerId, userData, outbox, lost, sessionList>>
    BY <1>1, <1>2, <1>16, PlaceMoves DEF NewClient
  <2>2. \A u \in userData : u < s
    <3>1. reading[s] = "accept" /\ \A u \in userData : reading[u] # "accept"
      BY <1>1, <1>16, OneThread DEF NewClient, Arrives
    <3>2. \A u \in userData : u # s /\ ~(s < u)
      BY <1>1, <3>1 DEF InOrder
    <3> QED
      BY <1>1, <3>2
  <2>3. IdsOK'
    BY <1>5, <2>1, <2>2 DEF IdsOK
  <2>4. NotesOK'
    BY <2>1 DEF NotesOK, Coming, Going, Announced
  <2>5. GoneOK'
    BY <1>5, <2>1, HeardKept DEF GoneOK
  <2>6. \A u \in Sessions : ~Knows(u) /\ ~Knows(u)'
    BY <2>1 DEF Knows
  <2>7. ViewsOK'
    BY <1>5, <2>1, <2>6, ExpectedKept, HeardKept, ViewsKept
  <2> QED
    BY <2>3, <2>4, <2>5, <2>7 DEF View
<1>17. ASSUME NEW s \in Sessions, NewMessage(1, s) PROVE View'
  <2>1. PICK id : Enter(1, "announce", s, FromUser(id, received'))
    BY <1>17 DEF NewMessage
  <2>2. /\ place = "idle" /\ place' = "announce" /\ said'[1] = "MESSAGE"
        /\ UNCHANGED <<playerId, lastPlayerId, userData, outbox, lost, sessionList>>
    <3>1. frame' = [frame EXCEPT ![1] = At("announce", s, FromUser(id, received'))] /\ place = "idle"
      BY <1>2, <2>1
    <3> HIDE DEF At
    <3>2. place' = "announce" /\ said' = FromUser(id, received')
      BY <1>1, <3>1, PlaceMoves
    <3>3. said'[1] = "MESSAGE"
      BY <3>2, NoteFields
    <3>4. UNCHANGED <<playerId, lastPlayerId, userData, outbox, lost, sessionList>>
      BY <1>17 DEF NewMessage
    <3> QED
      BY <3>1, <3>2, <3>3, <3>4
  <2>3. ~Coming /\ ~Going /\ ~Coming' /\ ~Going'
    BY <2>2 DEF Coming, Going, Announced
  <2> QED
    BY <2>2, <2>3, QuietStep
<1>18. ASSUME NEW s \in Sessions, LostClient(1, s), UNCHANGED outbox PROVE View'
  <2>1. PICK id \in ReadableIds(s) : Enter(1, "removeSession", s, Left(id))
    BY <1>18 DEF LostClient
  <2>2. /\ place = "idle" /\ place' = "removeSession" /\ served' = s /\ said'[2] = id
        /\ lost \subseteq lost'
        /\ UNCHANGED <<playerId, lastPlayerId, userData, outbox, sessionList>>
    <3>1. frame' = [frame EXCEPT ![1] = At("removeSession", s, Left(id))] /\ place = "idle"
      BY <1>2, <2>1
    <3> HIDE DEF At
    <3>2. place' = "removeSession" /\ served' = s /\ said' = Left(id)
      BY <1>1, <3>1, PlaceMoves
    <3> QED
      BY <1>18, <3>1, <3>2, NoteFields DEF LostClient
  <2>3. ~Coming /\ ~Going /\ ~Coming' /\ ~Going'
    BY <2>2 DEF Coming, Going, Announced
  <2>4. Contains(sessionList, s) => id = playerId[s]
    BY <1>5, <2>1, <2>2, OneThread DEF IdsOK, ReadableIds
  <2> QED
    BY <2>2, <2>3, <2>4, QuietStep
<1> QED
  BY <1>0, <1>6, <1>7, <1>8, <1>9, <1>10, <1>11, <1>12, <1>13, <1>14, <1>15, <1>16, <1>17, <1>18
     DEF Continue, Callback, ReadFails, WriteFails, LostClient

LEMMA ViewInvariant == Spec => []ViewInv
<1>1. Init => ViewInv
  <2> SUFFICES ASSUME Init PROVE ViewInv
    OBVIOUS
  <2>1. RosterInv /\ 1 \in Threads
    BY RosterInit, BoundAssumption DEF Threads
  <2>2. place = "idle" /\ userData = {} /\ \A s : ~Contains(sessionList, s)
    BY <2>1 DEF Init, place, Contains
  <2>3. InOrder /\ \A s \in Sessions : Heard(s, "LEFT") = {}
    BY DEF Init, Heard, InOrder
  <2> QED
    BY <2>1, <2>2, <2>3 DEF ViewInv, View, IdsOK, NotesOK, GoneOK, ViewsOK, Coming, Going, Announced
<1>2. ViewInv /\ [Next]_vars => ViewInv'
  <2> SUFFICES ASSUME ViewInv, [Next]_vars PROVE ViewInv'
    OBVIOUS
  <2>1. RosterInv' /\ TypeOK /\ (status = "running" => Running)
    BY RosterNext DEF ViewInv, RosterInv, Running
  <2>2. CASE UNCHANGED vars
    <3>1. UNCHANGED <<place, served, said, upTo, sessionList, userData, playerId, lastPlayerId,
                      outbox, lost, totalThreads, status>>
      BY <2>2 DEF vars, place, served, said, upTo
    <3>2. InOrder' <=> InOrder
      BY <2>2 DEF vars, netVars, InOrder
    <3>3. View' <=> View
      BY <3>1 DEF View, IdsOK, NotesOK, GoneOK, ViewsOK, Coming, Going, Announced,
         Heard, Known, Expected, Knows, Reached
    <3> QED
      BY <2>1, <3>1, <3>2, <3>3 DEF ViewInv
  <2>3. CASE Next
    <3>1. status = "running" /\ totalThreads' = totalThreads
      BY <2>3, BoundAssumption DEF Next, Continue, Callback, TakeId, BumpId, PushData, AddSession,
         WelcomeClient, WriteAndReturn, ForEachStart, ForEachWrite, ForEachEnd, Feedback,
         RemoveSession, EraseData, NewClient, NewMessage, ReadFails, WriteFails, LostClient
    <3>2. status' = "running" => InOrder'
      BY <2>1, <2>3, <3>1, OrderNext DEF ViewInv
    <3> QED
      BY <2>1, <2>3, <3>1, <3>2, ViewNext DEF ViewInv
  <2> QED
    BY <2>2, <2>3
<1> QED
  BY <1>1, <1>2, PTL DEF Spec

\* On a server with one thread every user that follows the announcements
\* knows, whenever no callback runs, exactly which of the users that came
\* after it are connected, and was told of no connected user that it left.
THEOREM UsersKnowWhoCameAfter == Spec => []ViewMatches
<1>1. ViewInv => ViewMatches
  <2> SUFFICES ASSUME ViewInv, Quiet, totalThreads = 1, NEW s \in Online
               PROVE  /\ Known(s) = {playerId[u] : u \in {v \in Online : v > s}}
                      /\ \A u \in Online : playerId[u] \notin Heard(s, "LEFT")
    BY DEF ViewMatches, Known
  <2>1. TypeOK /\ Running /\ View
    BY DEF ViewInv, RosterInv, Running, Quiet
  <2>2. place = "idle" /\ \A t \in Threads : role[t] = "idle"
    BY <2>1, OneThread, RolesOK DEF Quiet, place, Running
  <2>3. \A u \in Sessions : Contains(sessionList, u) <=> u \in Online
    BY <2>1, <2>2 DEF Running, Parts, Listed, Here, In, Joining, Early, Online
  <2>4. s \in Sessions /\ Online \subseteq Sessions /\ Online \cap lost = {}
    BY DEF Online
  <2>5. Expected(s) = {v \in Online : v > s}
    BY <2>2, <2>3, <2>4 DEF Expected, Knows
  <2>6. ASSUME NEW u \in Online PROVE playerId[u] \notin Heard(s, "LEFT")
    BY <2>1, <2>3, <2>4 DEF View, IdsOK, GoneOK
  <2> QED
    BY <2>1, <2>3, <2>4, <2>5, <2>6 DEF View, ViewsOK
<1> QED
  BY <1>1, ViewInvariant, PTL
=============================================================================
