------------------------ MODULE HttpConnection_proofs ------------------------
(***************************************************************************)
(* Proofs about HttpConnection, for any number of threads and connections. *)
(***************************************************************************)
EXTENDS HttpConnection, TLAPS

Places == {"idle", "readRequest", "checkTimeout", "process", "shutdown", "cancel"}
Operation == {"none", "pending", "ok", "error", "done"}

\* No connection at all is allowed: cur then names something else.
TypeOK ==
  /\ socket \in [Connections -> {"new", "open", "halfClosed", "closed"}]
  /\ request \in [Connections -> Operation]
  /\ response \in [Connections -> Operation]
  /\ timer \in [Connections -> Operation]
  /\ elapsed \in [Connections -> BOOLEAN]
  /\ at \in [Threads -> Places]
  /\ cur \in [Threads -> Connections \cup {CHOOSE c \in Connections : TRUE}]
  /\ \A t \in Threads : at[t] # "idle" => cur[t] \in Connections

Within(t, c, places) == at[t] \in places /\ cur[t] = c
Starting == {"readRequest", "checkTimeout"}

\* What a thread that is in a handler of c may rely on.
Located(c) ==
  \A t \in Threads :
    /\ Within(t, c, {"readRequest"}) => request[c] = "none"
    /\ Within(t, c, {"checkTimeout"}) => request[c] # "none"
    /\ Within(t, c, Starting) => timer[c] = "none"
    /\ Within(t, c, {"process"}) => request[c] = "done" /\ response[c] = "none"
    /\ Within(t, c, {"shutdown", "cancel"}) => response[c] = "done"
    /\ Within(t, c, {"cancel"}) => socket[c] \in {"halfClosed", "closed"}

\* One thread starts a connection, and one answers it.
OneEach(c) ==
  \A t, u \in Threads :
    /\ Within(t, c, Starting) /\ Within(u, c, Starting) => t = u
    /\ Within(t, c, {"process"}) /\ Within(u, c, {"process"}) => t = u

\* The operations follow each other: the read begins once the connection is
\* started, the write once the read is done.
Sequenced(c) ==
  /\ socket[c] = "new" =>
       /\ request[c] = "none" /\ timer[c] = "none"
       /\ \A t \in Threads : ~Within(t, c, Places \ {"idle"})
  /\ response[c] # "none" => request[c] = "done"
  /\ request[c] = "none" => response[c] = "none"

\* The timer starts with the connection, and ends when it closed the socket
\* or when the answer was sent and the socket shut down.
Timed(c) ==
  /\ timer[c] = "none" /\ socket[c] # "new" =>
       \E t \in Threads : Within(t, c, Starting)
  /\ timer[c] = "error" => response[c] = "done" /\ socket[c] \in {"halfClosed", "closed"}
  /\ timer[c] = "done" =>
       socket[c] = "closed" \/ (response[c] = "done" /\ socket[c] = "halfClosed")

Parts(c) == Located(c) /\ OneEach(c) /\ Sequenced(c) /\ Timed(c)

ConnectionInv == TypeOK /\ \A c \in Connections : Parts(c)

USE DEF Goto, Enter, Set, opVars, threadVars

-----------------------------------------------------------------------------
LEMMA TypeInit == Init => TypeOK
BY DEF Init, TypeOK, Places, Operation

LEMMA TypeNext == TypeOK /\ [Next]_vars => TypeOK'
<1> SUFFICES ASSUME TypeOK, [Next]_vars PROVE TypeOK'
  OBVIOUS
<1> USE DEF TypeOK, Places, Operation, Ended
<1>1. CASE UNCHANGED vars
  BY <1>1 DEF vars
<1>2. ASSUME NEW t \in Threads, NEW d \in Connections, Accept(t, d) PROVE TypeOK'
  BY <1>2 DEF Accept
<1>3. ASSUME NEW t \in Threads, ReadRequest(t) PROVE TypeOK'
  BY <1>3 DEF ReadRequest
<1>4. ASSUME NEW t \in Threads, CheckConnectionTimeout(t) PROVE TypeOK'
  BY <1>4 DEF CheckConnectionTimeout
<1>5. ASSUME NEW t \in Threads, WriteResponse(t) PROVE TypeOK'
  BY <1>5 DEF WriteResponse
<1>6. ASSUME NEW t \in Threads, Shutdown(t) PROVE TypeOK'
  BY <1>6 DEF Shutdown, ShutDown
<1>7. ASSUME NEW t \in Threads, CancelTimer(t) PROVE TypeOK'
  BY <1>7 DEF CancelTimer, Cancelled
<1>8. ASSUME NEW t \in Threads, NEW d \in Connections, OnRead(t, d) PROVE TypeOK'
  BY <1>8 DEF OnRead, TimerMeanwhile
<1>9. ASSUME NEW t \in Threads, NEW d \in Connections, OnReadError(t, d) PROVE TypeOK'
  BY <1>9 DEF OnReadError
<1>10. ASSUME NEW t \in Threads, NEW d \in Connections, OnWrite(t, d) PROVE TypeOK'
  BY <1>10 DEF OnWrite
<1>11. ASSUME NEW t \in Threads, NEW d \in Connections, OnTimeout(t, d) PROVE TypeOK'
  BY <1>11 DEF OnTimeout, CloseSocket, Aborted
<1>12. ASSUME NEW t \in Threads, NEW d \in Connections, OnTimerCancelled(t, d) PROVE TypeOK'
  BY <1>12 DEF OnTimerCancelled
<1>13. ASSUME NEW d \in Connections, RequestEnds(d) PROVE TypeOK'
  BY <1>13 DEF RequestEnds
<1>14. ASSUME NEW d \in Connections, ResponseEnds(d) PROVE TypeOK'
  BY <1>14 DEF ResponseEnds
<1>15. ASSUME NEW d \in Connections, TimePasses(d) PROVE TypeOK'
  BY <1>15 DEF TimePasses
<1>16. ASSUME NEW d \in Connections, Expire(d) PROVE TypeOK'
  BY <1>16 DEF Expire
<1> QED
  BY <1>1, <1>2, <1>3, <1>4, <1>5, <1>6, <1>7, <1>8,
     <1>9, <1>10, <1>11, <1>12, <1>13, <1>14, <1>15, <1>16
     DEF Next, Proceed, Handle

LEMMA LocatedNext ==
  ASSUME ConnectionInv, [Next]_vars, NEW c \in Connections
  PROVE  Located(c)'
<1>0. TypeOK /\ Parts(c)
  BY DEF ConnectionInv
<1> USE <1>0 DEF TypeOK, Parts, Located, OneEach, Sequenced, Timed, Within, Starting, Places, Operation, Ended
<1>1. CASE UNCHANGED vars
  BY <1>1 DEF vars
<1>2. ASSUME NEW t \in Threads, NEW d \in Connections, Accept(t, d) PROVE Located(c)'
  BY <1>2 DEF Accept
<1>3. ASSUME NEW t \in Threads, ReadRequest(t) PROVE Located(c)'
  BY <1>3 DEF ReadRequest
<1>4. ASSUME NEW t \in Threads, CheckConnectionTimeout(t) PROVE Located(c)'
  BY <1>4 DEF CheckConnectionTimeout
<1>5. ASSUME NEW t \in Threads, WriteResponse(t) PROVE Located(c)'
  BY <1>5 DEF WriteResponse
<1>6. ASSUME NEW t \in Threads, Shutdown(t) PROVE Located(c)'
  BY <1>6 DEF Shutdown, ShutDown
<1>7. ASSUME NEW t \in Threads, CancelTimer(t) PROVE Located(c)'
  BY <1>7 DEF CancelTimer, Cancelled
<1>8. ASSUME NEW t \in Threads, NEW d \in Connections, OnRead(t, d) PROVE Located(c)'
  BY <1>8 DEF OnRead, TimerMeanwhile
<1>9. ASSUME NEW t \in Threads, NEW d \in Connections, OnReadError(t, d) PROVE Located(c)'
  BY <1>9 DEF OnReadError
<1>10. ASSUME NEW t \in Threads, NEW d \in Connections, OnWrite(t, d) PROVE Located(c)'
  BY <1>10 DEF OnWrite
<1>11. ASSUME NEW t \in Threads, NEW d \in Connections, OnTimeout(t, d) PROVE Located(c)'
  BY <1>11 DEF OnTimeout, CloseSocket, Aborted
<1>12. ASSUME NEW t \in Threads, NEW d \in Connections, OnTimerCancelled(t, d) PROVE Located(c)'
  BY <1>12 DEF OnTimerCancelled
<1>13. ASSUME NEW d \in Connections, RequestEnds(d) PROVE Located(c)'
  BY <1>13 DEF RequestEnds
<1>14. ASSUME NEW d \in Connections, ResponseEnds(d) PROVE Located(c)'
  BY <1>14 DEF ResponseEnds
<1>15. ASSUME NEW d \in Connections, TimePasses(d) PROVE Located(c)'
  BY <1>15 DEF TimePasses
<1>16. ASSUME NEW d \in Connections, Expire(d) PROVE Located(c)'
  BY <1>16 DEF Expire
<1> QED
  BY <1>1, <1>2, <1>3, <1>4, <1>5, <1>6, <1>7, <1>8,
     <1>9, <1>10, <1>11, <1>12, <1>13, <1>14, <1>15, <1>16
     DEF Next, Proceed, Handle

LEMMA OneEachNext ==
  ASSUME ConnectionInv, [Next]_vars, NEW c \in Connections
  PROVE  OneEach(c)'
<1>0. TypeOK /\ Parts(c)
  BY DEF ConnectionInv
<1> USE <1>0 DEF TypeOK, Parts, Located, OneEach, Sequenced, Timed, Within, Starting, Places, Operation, Ended
<1>1. CASE UNCHANGED vars
  BY <1>1 DEF vars
<1>2. ASSUME NEW t \in Threads, NEW d \in Connections, Accept(t, d) PROVE OneEach(c)'
  BY <1>2 DEF Accept
<1>3. ASSUME NEW t \in Threads, ReadRequest(t) PROVE OneEach(c)'
  BY <1>3 DEF ReadRequest
<1>4. ASSUME NEW t \in Threads, CheckConnectionTimeout(t) PROVE OneEach(c)'
  BY <1>4 DEF CheckConnectionTimeout
<1>5. ASSUME NEW t \in Threads, WriteResponse(t) PROVE OneEach(c)'
  BY <1>5 DEF WriteResponse
<1>6. ASSUME NEW t \in Threads, Shutdown(t) PROVE OneEach(c)'
  BY <1>6 DEF Shutdown, ShutDown
<1>7. ASSUME NEW t \in Threads, CancelTimer(t) PROVE OneEach(c)'
  BY <1>7 DEF CancelTimer, Cancelled
<1>8. ASSUME NEW t \in Threads, NEW d \in Connections, OnRead(t, d) PROVE OneEach(c)'
  BY <1>8 DEF OnRead, TimerMeanwhile
<1>9. ASSUME NEW t \in Threads, NEW d \in Connections, OnReadError(t, d) PROVE OneEach(c)'
  BY <1>9 DEF OnReadError
<1>10. ASSUME NEW t \in Threads, NEW d \in Connections, OnWrite(t, d) PROVE OneEach(c)'
  BY <1>10 DEF OnWrite
<1>11. ASSUME NEW t \in Threads, NEW d \in Connections, OnTimeout(t, d) PROVE OneEach(c)'
  BY <1>11 DEF OnTimeout, CloseSocket, Aborted
<1>12. ASSUME NEW t \in Threads, NEW d \in Connections, OnTimerCancelled(t, d) PROVE OneEach(c)'
  BY <1>12 DEF OnTimerCancelled
<1>13. ASSUME NEW d \in Connections, RequestEnds(d) PROVE OneEach(c)'
  BY <1>13 DEF RequestEnds
<1>14. ASSUME NEW d \in Connections, ResponseEnds(d) PROVE OneEach(c)'
  BY <1>14 DEF ResponseEnds
<1>15. ASSUME NEW d \in Connections, TimePasses(d) PROVE OneEach(c)'
  BY <1>15 DEF TimePasses
<1>16. ASSUME NEW d \in Connections, Expire(d) PROVE OneEach(c)'
  BY <1>16 DEF Expire
<1> QED
  BY <1>1, <1>2, <1>3, <1>4, <1>5, <1>6, <1>7, <1>8,
     <1>9, <1>10, <1>11, <1>12, <1>13, <1>14, <1>15, <1>16
     DEF Next, Proceed, Handle

LEMMA SequencedNext ==
  ASSUME ConnectionInv, [Next]_vars, NEW c \in Connections
  PROVE  Sequenced(c)'
<1>0. TypeOK /\ Parts(c)
  BY DEF ConnectionInv
<1> USE <1>0 DEF TypeOK, Parts, Located, OneEach, Sequenced, Timed, Within, Starting, Places, Operation, Ended
<1>1. CASE UNCHANGED vars
  BY <1>1 DEF vars
<1>2. ASSUME NEW t \in Threads, NEW d \in Connections, Accept(t, d) PROVE Sequenced(c)'
  BY <1>2 DEF Accept
<1>3. ASSUME NEW t \in Threads, ReadRequest(t) PROVE Sequenced(c)'
  BY <1>3 DEF ReadRequest
<1>4. ASSUME NEW t \in Threads, CheckConnectionTimeout(t) PROVE Sequenced(c)'
  BY <1>4 DEF CheckConnectionTimeout
<1>5. ASSUME NEW t \in Threads, WriteResponse(t) PROVE Sequenced(c)'
  BY <1>5 DEF WriteResponse
<1>6. ASSUME NEW t \in Threads, Shutdown(t) PROVE Sequenced(c)'
  BY <1>6 DEF Shutdown, ShutDown
<1>7. ASSUME NEW t \in Threads, CancelTimer(t) PROVE Sequenced(c)'
  BY <1>7 DEF CancelTimer, Cancelled
<1>8. ASSUME NEW t \in Threads, NEW d \in Connections, OnRead(t, d) PROVE Sequenced(c)'
  BY <1>8 DEF OnRead, TimerMeanwhile
<1>9. ASSUME NEW t \in Threads, NEW d \in Connections, OnReadError(t, d) PROVE Sequenced(c)'
  BY <1>9 DEF OnReadError
<1>10. ASSUME NEW t \in Threads, NEW d \in Connections, OnWrite(t, d) PROVE Sequenced(c)'
  BY <1>10 DEF OnWrite
<1>11. ASSUME NEW t \in Threads, NEW d \in Connections, OnTimeout(t, d) PROVE Sequenced(c)'
  BY <1>11 DEF OnTimeout, CloseSocket, Aborted
<1>12. ASSUME NEW t \in Threads, NEW d \in Connections, OnTimerCancelled(t, d) PROVE Sequenced(c)'
  BY <1>12 DEF OnTimerCancelled
<1>13. ASSUME NEW d \in Connections, RequestEnds(d) PROVE Sequenced(c)'
  BY <1>13 DEF RequestEnds
<1>14. ASSUME NEW d \in Connections, ResponseEnds(d) PROVE Sequenced(c)'
  BY <1>14 DEF ResponseEnds
<1>15. ASSUME NEW d \in Connections, TimePasses(d) PROVE Sequenced(c)'
  BY <1>15 DEF TimePasses
<1>16. ASSUME NEW d \in Connections, Expire(d) PROVE Sequenced(c)'
  BY <1>16 DEF Expire
<1> QED
  BY <1>1, <1>2, <1>3, <1>4, <1>5, <1>6, <1>7, <1>8,
     <1>9, <1>10, <1>11, <1>12, <1>13, <1>14, <1>15, <1>16
     DEF Next, Proceed, Handle

LEMMA TimedNext ==
  ASSUME ConnectionInv, [Next]_vars, NEW c \in Connections
  PROVE  Timed(c)'
<1>0. TypeOK /\ Parts(c)
  BY DEF ConnectionInv
<1> USE <1>0 DEF TypeOK, Parts, Located, OneEach, Sequenced, Timed, Within, Starting, Places, Operation, Ended
<1>1. CASE UNCHANGED vars
  BY <1>1 DEF vars
<1>2. ASSUME NEW t \in Threads, NEW d \in Connections, Accept(t, d) PROVE Timed(c)'
  BY <1>2 DEF Accept
<1>3. ASSUME NEW t \in Threads, ReadRequest(t) PROVE Timed(c)'
  BY <1>3 DEF ReadRequest
<1>4. ASSUME NEW t \in Threads, CheckConnectionTimeout(t) PROVE Timed(c)'
  BY <1>4 DEF CheckConnectionTimeout
<1>5. ASSUME NEW t \in Threads, WriteResponse(t) PROVE Timed(c)'
  BY <1>5 DEF WriteResponse
<1>6. ASSUME NEW t \in Threads, Shutdown(t) PROVE Timed(c)'
  BY <1>6 DEF Shutdown, ShutDown
<1>7. ASSUME NEW t \in Threads, CancelTimer(t) PROVE Timed(c)'
  BY <1>7 DEF CancelTimer, Cancelled
<1>8. ASSUME NEW t \in Threads, NEW d \in Connections, OnRead(t, d) PROVE Timed(c)'
  BY <1>8 DEF OnRead, TimerMeanwhile
<1>9. ASSUME NEW t \in Threads, NEW d \in Connections, OnReadError(t, d) PROVE Timed(c)'
  BY <1>9 DEF OnReadError
<1>10. ASSUME NEW t \in Threads, NEW d \in Connections, OnWrite(t, d) PROVE Timed(c)'
  BY <1>10 DEF OnWrite
<1>11. ASSUME NEW t \in Threads, NEW d \in Connections, OnTimeout(t, d) PROVE Timed(c)'
  BY <1>11 DEF OnTimeout, CloseSocket, Aborted
<1>12. ASSUME NEW t \in Threads, NEW d \in Connections, OnTimerCancelled(t, d) PROVE Timed(c)'
  BY <1>12 DEF OnTimerCancelled
<1>13. ASSUME NEW d \in Connections, RequestEnds(d) PROVE Timed(c)'
  BY <1>13 DEF RequestEnds
<1>14. ASSUME NEW d \in Connections, ResponseEnds(d) PROVE Timed(c)'
  BY <1>14 DEF ResponseEnds
<1>15. ASSUME NEW d \in Connections, TimePasses(d) PROVE Timed(c)'
  BY <1>15 DEF TimePasses
<1>16. ASSUME NEW d \in Connections, Expire(d) PROVE Timed(c)'
  BY <1>16 DEF Expire
<1> QED
  BY <1>1, <1>2, <1>3, <1>4, <1>5, <1>6, <1>7, <1>8,
     <1>9, <1>10, <1>11, <1>12, <1>13, <1>14, <1>15, <1>16
     DEF Next, Proceed, Handle

LEMMA ConnectionNext == ConnectionInv /\ [Next]_vars => ConnectionInv'
BY TypeNext, LocatedNext, OneEachNext, SequencedNext, TimedNext DEF ConnectionInv, Parts

LEMMA ConnectionInit == Init => ConnectionInv
<1> SUFFICES ASSUME Init, NEW c \in Connections PROVE Parts(c)
  BY TypeInit DEF ConnectionInv
<1> QED
  BY DEF Init, Parts, Located, OneEach, Sequenced, Timed, Within, Starting, Places

LEMMA ConnectionInvariant == Spec => []ConnectionInv
BY ConnectionInit, ConnectionNext, PTL DEF Spec

\* Whatever the order of expiry, cancellation and completion on however many
\* threads, a connection that nothing refers to was shut down or closed.
THEOREM ReleasedEnded == Spec => []ReleasedIsEnded
<1>1. ConnectionInv => ReleasedIsEnded
  <2> SUFFICES ASSUME ConnectionInv, NEW c \in Connections, Released(c)
               PROVE  socket[c] \in {"halfClosed", "closed"}
    BY DEF ReleasedIsEnded
  <2>1. TypeOK /\ Timed(c)
    BY DEF ConnectionInv, Parts
  <2>2. timer[c] \in {"none", "done"} /\ socket[c] # "new"
    BY <2>1 DEF TypeOK, Released, Waits, Ended, Operation
  <2>3. timer[c] # "none"
    BY <2>1, <2>2 DEF Released, Running, Timed, Within, Starting
  <2> QED  BY <2>1, <2>2, <2>3 DEF Timed
<1> QED  BY ConnectionInvariant, <1>1, PTL

\* As long as a connection waits for its peer its timer is pending, about to
\* be started by start(), or has already closed the socket.
THEOREM TimerAlwaysGuards == Spec => []TimerGuards
<1>1. ConnectionInv => TimerGuards
  <2> SUFFICES ASSUME ConnectionInv, NEW c \in Connections,
                      Waits(request[c]) \/ Waits(response[c])
               PROVE  \/ Waits(timer[c])
                      \/ \E t \in Threads : at[t] = "checkTimeout" /\ cur[t] = c
                      \/ socket[c] = "closed"
    BY DEF TimerGuards
  <2>1. TypeOK /\ Parts(c)
    BY DEF ConnectionInv
  <2>2. request[c] # "none" /\ socket[c] # "new"
    BY <2>1 DEF Parts, Sequenced, Waits, Ended
  <2>3. CASE timer[c] = "none"
    BY <2>1, <2>2, <2>3 DEF Parts, Located, Timed, Within, Starting
  <2>4. CASE timer[c] = "done"
    BY <2>1, <2>4 DEF Parts, Sequenced, Timed, Waits, Ended
  <2>5. CASE timer[c] \in {"pending", "ok", "error"}
    BY <2>5 DEF Waits, Ended
  <2> QED  BY <2>1, <2>3, <2>4, <2>5 DEF TypeOK, Operation
<1> QED  BY ConnectionInvariant, <1>1, PTL
=============================================================================
