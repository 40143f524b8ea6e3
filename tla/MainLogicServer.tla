--------------------------- MODULE MainLogicServer ---------------------------
(***************************************************************************)
(* The sample's websocket application: WebSocketMainLogicServer and its    *)
(* session manager, driven by the callbacks of the sessions.  With several *)
(* threads the manager is the thread safe one, whose shared mutex is held  *)
(* shared for a whole forEachSession() and exclusively by addSession() and *)
(* removeSession(); the players' vector and the id counter have no lock.   *)
(*                                                                         *)
(* A session is seen through its callbacks: an operation that reads and,   *)
(* once something was written to it, one that writes.  Each may fail, and  *)
(* each failure calls onDisconnection (WebSocketSession, LossPerDirection).*)
(* How many threads serve is the server's totalThreads argument.           *)
(***************************************************************************)
EXTENDS Integers, Sequences, FiniteSets, SequencesExt, NoReallocErase

CONSTANTS
  MaxThreads,        \* bound of the model: threads in io_context::run()
  MaxSessions,       \* bound of the model: connections that come
  MaxLoad,           \* bound of the model: threads and connections together
  MaxMessages,       \* bound of the model: messages the clients send
  HandshakeMayFail,  \* whether a connection may fail to become a websocket
  WriteMayFail       \* whether a write may fail

ASSUME BoundAssumption ==
  /\ MaxThreads \in Nat \ {0} /\ MaxSessions \in Nat \ {0}
  /\ MaxLoad \in Nat /\ MaxMessages \in Nat
ASSUME FailureAssumption == HandshakeMayFail \in BOOLEAN /\ WriteMayFail \in BOOLEAN

VARIABLES
  totalThreads,  \* the threads that start() launched
  sessionList,   \* _allSessions
  playersData,   \* _allPlayersData, each named by the session it was made for
  lastPlayerId,  \* _lastPlayerId
  playerId,      \* the id in the PlayerData made for each session
  userData,      \* the sessions whose userData is set
  outbox,        \* what was written to each session
  reading,       \* the accept/read operation each session waits for
  lost,          \* the sessions onDisconnection was called for
  writeFailed,   \* the sessions whose write failed
  received,      \* how many messages came in
  frame,         \* the callback each thread runs
  status         \* "running", "exception" or "undefined"

idVars == <<lastPlayerId, playerId, userData>>
serverVars == <<totalThreads, sessionList, playersData, idVars>>
netVars == <<reading, lost, writeFailed, received>>
vars == <<serverVars, netVars, frame, outbox, status>>

Threads == 1..MaxThreads

\* Connections are numbered as their first callbacks come.
Sessions == 1..MaxSessions

NoId == -1
Ids == Sessions
NoNote == <<>>
New(id) == <<"NEW", id>>
Left(id) == <<"LEFT", id>>
Welcome(id) == <<"WELCOME", id>>
FromUser(id, k) == <<"MESSAGE", id, k>>
FromYou(k) == <<"FROM YOU", k>>

\* A callback's frame: the place it has reached, the session it is for, the
\* message it broadcasts and the index of its forEachSession loop.
At(p, s, n) == [at |-> p, cur |-> s, note |-> n, index |-> 0]
Idle == At("idle", 0, NoNote)

Init ==
  /\ totalThreads \in Threads
  /\ sessionList = <<>>
  /\ playersData = <<>>
  /\ lastPlayerId = 1
  /\ playerId = [s \in Sessions |-> 0]
  /\ userData = {}
  /\ outbox = [s \in Sessions |-> {}]
  /\ reading = [s \in Sessions |-> "accept"]
  /\ lost = {}
  /\ writeFailed = {}
  /\ received = 0
  /\ frame = [t \in Threads |-> Idle]
  /\ status = "running"

at(t) == frame[t].at
cur(t) == frame[t].cur
Goto(t, p) == frame' = [frame EXCEPT ![t].at = p]
Enter(t, p, s, n) == at(t) = "idle" /\ frame' = [frame EXCEPT ![t] = At(p, s, n)]
Return(t) == frame' = [frame EXCEPT ![t] = Idle]
WriteTo(s, m) == outbox' = [outbox EXCEPT ![s] = @ \cup {m}]

\* forEachSession holds the mutex shared for its whole loop.
ListUnshared == \A t \in Threads : at(t) # "broadcast"

\* currPlayerData->id: the PlayerData belongs to the vector alone, so after
\* eraseData the pointer dangles and any value may be read.
ReadableIds(s) ==
  IF s \notin userData THEN {NoId}
  ELSE IF Contains(playersData, s) THEN {playerId[s]}
  ELSE Ids \cup {NoId}

\* A vector without a lock: two threads that use it at once may go wrong.
UseVector(t) ==
  status' \in IF \E u \in Threads \ {t} : at(u) \in {"pushData", "eraseData"}
                THEN {status, "undefined"} ELSE {status}

(***************************************************************************)
(* _onNewClient                                                            *)
(***************************************************************************)
Arrives(s) ==
  /\ reading[s] = "accept" /\ \A r \in 1..(s - 1) : reading[r] # "accept"
  /\ totalThreads + s <= MaxLoad

NewClient(t, s) ==
  /\ Arrives(s)
  /\ reading' = [reading EXCEPT ![s] = "none"]
  /\ Enter(t, "takeId", s, NoNote)
  /\ UNCHANGED <<serverVars, lost, writeFailed, received, outbox, status>>

\* _lastPlayerId++ is a read and a write.
TakeId(t) ==
  /\ at(t) = "takeId"
  /\ playerId' = [playerId EXCEPT ![cur(t)] = lastPlayerId]
  /\ Goto(t, "bumpId")
  /\ UNCHANGED <<totalThreads, sessionList, playersData, lastPlayerId, userData>>
  /\ UNCHANGED <<netVars, outbox, status>>

BumpId(t) ==
  /\ at(t) = "bumpId"
  /\ lastPlayerId' = playerId[cur(t)] + 1
  /\ userData' = userData \cup {cur(t)}
  /\ Goto(t, "pushData")
  /\ UNCHANGED <<totalThreads, sessionList, playersData, playerId, netVars, outbox, status>>

PushData(t) ==
  /\ at(t) = "pushData"
  /\ UseVector(t)
  /\ playersData' = Append(playersData, cur(t))
  /\ frame' = [frame EXCEPT ![t] = At("announce", cur(t), New(playerId[cur(t)]))]
  /\ UNCHANGED <<totalThreads, sessionList, idVars, netVars, outbox>>

AddSession(t) ==
  /\ at(t) = "addSession"
  /\ ListUnshared
  /\ sessionList' = Append(sessionList, cur(t))
  /\ Goto(t, "welcome")
  /\ UNCHANGED <<totalThreads, playersData, idVars, netVars, outbox, status>>

\* The last statement of a callback: it writes to its own session, which
\* then reads (again).
WriteAndReturn(t, m) ==
  /\ WriteTo(cur(t), m)
  /\ reading' = [reading EXCEPT ![cur(t)] = "read"]
  /\ Return(t)
  /\ UNCHANGED <<serverVars, lost, writeFailed, received, status>>

WelcomeClient(t) ==
  at(t) = "welcome" /\ WriteAndReturn(t, Welcome(playerId[cur(t)]))

(***************************************************************************)
(* forEachSession with a callback that writes the note to each session but *)
(* the sender of a message.                                                *)
(***************************************************************************)
\* Mutant: the loop starts at the second session.
LoopStartLate == 2

LoopStart == 1

ForEachStart(t) ==
  /\ at(t) = "announce"
  /\ frame' = [frame EXCEPT ![t].at = "broadcast", ![t].index = LoopStart]
  /\ UNCHANGED <<serverVars, netVars, outbox, status>>

ForEachWrite(t) ==
  LET s == sessionList[frame[t].index]
      skipped == frame[t].note[1] = "MESSAGE" /\ s = cur(t)
  IN  /\ at(t) = "broadcast"
      /\ frame[t].index <= Len(sessionList)
      /\ frame' = [frame EXCEPT ![t].index = @ + 1]
      /\ IF skipped THEN UNCHANGED outbox ELSE WriteTo(s, frame[t].note)
      /\ UNCHANGED <<serverVars, netVars, status>>

\* Mutant: the loop waits for one session too many.
LoopDoneLate(t) == frame[t].index > Len(sessionList) + 1

LoopDone(t) == frame[t].index > Len(sessionList)

\* What follows the loop in each of the three callbacks.
ForEachEnd(t) ==
  /\ at(t) = "broadcast"
  /\ LoopDone(t)
  /\ CASE frame[t].note[1] = "NEW" -> Goto(t, "addSession")
       [] frame[t].note[1] = "MESSAGE" -> Goto(t, "feedback")
       [] frame[t].note[1] = "LEFT" -> Return(t)
  /\ UNCHANGED <<serverVars, netVars, outbox, status>>

(***************************************************************************)
(* _onNewMessage                                                           *)
(***************************************************************************)
NewMessage(t, s) ==
  /\ reading[s] = "read"
  /\ received < MaxMessages
  /\ received' = received + 1
  /\ reading' = [reading EXCEPT ![s] = "none"]
  /\ \E id \in ReadableIds(s) : Enter(t, "announce", s, FromUser(id, received'))
  /\ UNCHANGED <<serverVars, lost, writeFailed, outbox, status>>

Feedback(t) ==
  at(t) = "feedback" /\ WriteAndReturn(t, FromYou(frame[t].note[3]))

(***************************************************************************)
(* _onLostClient                                                           *)
(***************************************************************************)
LostClient(t, s) ==
  /\ lost' = lost \cup {s}
  /\ \E id \in ReadableIds(s) : Enter(t, "removeSession", s, Left(id))
  /\ UNCHANGED <<serverVars, received, outbox, status>>

\* _onAccept or _onRead gets an error.
ReadFails(t, s) ==
  /\ reading[s] = "read" \/ (HandshakeMayFail /\ Arrives(s))
  /\ reading' = [reading EXCEPT ![s] = "none"]
  /\ LostClient(t, s)
  /\ UNCHANGED writeFailed

WriteFails(t, s) ==
  /\ WriteMayFail
  /\ outbox[s] # {}
  /\ s \notin writeFailed
  /\ writeFailed' = writeFailed \cup {s}
  /\ LostClient(t, s)
  /\ UNCHANGED reading

\* removeSession throws when the session is not in the list; nothing
\* between it and the io_context thread's function catches.
RemoveSession(t) ==
  /\ at(t) = "removeSession"
  /\ ListUnshared
  /\ sessionList' = EraseByValue(sessionList, cur(t))
  /\ status' = IF WasErased(sessionList, cur(t)) THEN status ELSE "exception"
  /\ Goto(t, "eraseData")
  /\ UNCHANGED <<totalThreads, playersData, idVars, netVars, outbox>>

EraseData(t) ==
  /\ at(t) = "eraseData"
  /\ UseVector(t)
  /\ playersData' = EraseByValue(playersData, cur(t))
  /\ Goto(t, "announce")
  /\ UNCHANGED <<totalThreads, sessionList, idVars, netVars, outbox>>

Continue(t) ==
  \/ TakeId(t) \/ BumpId(t) \/ PushData(t) \/ AddSession(t) \/ WelcomeClient(t)
  \/ ForEachStart(t) \/ ForEachWrite(t) \/ ForEachEnd(t)
  \/ Feedback(t)
  \/ RemoveSession(t) \/ EraseData(t)

Callback(t, s) ==
  \/ NewClient(t, s)
  \/ NewMessage(t, s)
  \/ ReadFails(t, s)
  \/ WriteFails(t, s)

Next ==
  /\ status = "running"
  /\ \E t \in 1..totalThreads : Continue(t) \/ \E s \in Sessions : Callback(t, s)

Spec == Init /\ [][Next]_vars

\* A thread inside a callback keeps running.  A writer that waits for the
\* mutex needs no more: the broadcasts it waits for are finitely many here.
FairSpec ==
  /\ Spec
  /\ \A t \in Threads : WF_vars(status = "running" /\ Continue(t))

-----------------------------------------------------------------------------
(* Properties *)

Online == {s \in Sessions : reading[s] # "accept"} \ lost

Quiet == status = "running" /\ \A t \in Threads : at(t) = "idle"

\* Between callbacks the list and the players' vector hold exactly the
\* users that are connected, each once, however they came and left.
RosterMatches ==
  Quiet =>
    /\ ToSet(sessionList) = Online /\ IsInjective(sessionList)
    /\ ToSet(playersData) = Online /\ IsInjective(playersData)

\* "broadcast 'new user' to all users", "broadcast 'disconnected user' to
\* all users": on a server with one thread, between callbacks, whoever
\* follows the announcements it was sent knows which of the users that came
\* after it are connected, and was not told that a connected user left.
\* Nobody tells a newcomer who is there already.
Heard(s, kind) == {m[2] : m \in {n \in outbox[s] : n[1] = kind}}

ViewMatches ==
  Quiet /\ totalThreads = 1 =>
    \A s \in Online :
      /\ Heard(s, "NEW") \ Heard(s, "LEFT") = {playerId[u] : u \in {v \in Online : v > s}}
      /\ \A u \in Online : playerId[u] \notin Heard(s, "LEFT")

\* "remove the lost user": the session to remove is in the list, and no
\* exception ends the program.
RemovalFindsSession == status # "exception"

\* Removal throws only for a connection that never became a websocket, and
\* for a session whose write failed and whose reading has ended too, so that
\* both report it lost: whatever else happens, on any number of threads, a
\* lost session is in the list.
ReadingEnded(s) ==
  /\ reading[s] = "none"
  /\ \A t \in Threads : at(t) # "idle" /\ cur(t) = s =>
       frame[t].note # NoNote /\ frame[t].note[1] = "LEFT"

RemovalThrowsTwiceLost ==
  status = "exception" =>
    \E t \in Threads :
      /\ at(t) = "eraseData"
      /\ cur(t) \notin userData \/ (cur(t) \in writeFailed /\ ReadingEnded(cur(t)))

\* What a client sends is announced with its own id, on any number of
\* threads: its PlayerData is there until its loss was reported.  (After a
\* failed write a session may still be read, and userData then dangles.)
MessagesNameTheirSender ==
  [][\A t \in Threads : received' > received /\ frame'[t] # frame[t] =>
       LET s == cur(t)' IN
       s \in lost \/ frame'[t].note = FromUser(playerId[s], received')]_vars

\* No callback waits forever for the manager's mutex.
HandlersReturn ==
  \A t \in Threads : (at(t) # "idle") ~> (at(t) = "idle" \/ status # "running")
=============================================================================
