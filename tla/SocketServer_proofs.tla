------------------------- MODULE SocketServer_proofs -------------------------
(***************************************************************************)
(* Proofs about SocketServer, for any threads, peers and number of calls.  *)
(***************************************************************************)
EXTENDS SocketServer, SequenceTheorems, TLAPS

Results == Clients \cup Failures
PoolPlaces == {"none", "run", "returned"} \cup Handlers
CallerPlaces == {"idle", "close", "stopContext", "join", "listen", "launch"}

TypeOK ==
  /\ backlog \in Seq(Clients)
  /\ accepting \in BOOLEAN
  /\ completions \in Seq(Results)
  /\ stopped \in BOOLEAN
  /\ pool \in [Threads -> PoolPlaces]
  /\ result \in [Threads -> Results]
  /\ caller \in CallerPlaces

\* stop() joins the threads of an io_context it has stopped, and start()
\* listens when no thread is left.
CallerKnows ==
  /\ caller = "join" => stopped
  /\ caller = "listen" => NoThreads

\* Until the io_context is stopped one accept is pending, completed or
\* handled, and none before the first start() listens.
OneAccept ==
  ~stopped =>
    /\ accepting => completions = <<>> /\ \A t \in Threads : ~InListener(t)
    /\ completions # <<>> => Len(completions) = 1 /\ \A t \in Threads : ~InListener(t)
    /\ caller \in {"idle", "listen"} /\ NoThreads => ~accepting /\ completions = <<>>

ServerInv == TypeOK /\ CallerKnows /\ OneAccept /\ SerialAccepts

USE DEF Goto, listenerVars, callerVars

-----------------------------------------------------------------------------
LEMMA TypeInit == Init => TypeOK
BY EmptySeq DEF Init, TypeOK, Results, PoolPlaces, CallerPlaces, Failures

\* A result that is queued keeps the types of the queue.
LEMMA Queued ==
  ASSUME TypeOK, NEW r \in Results, completions' = Append(completions, r)
  PROVE  /\ completions' \in Seq(Results)
         /\ completions' # <<>>
         /\ Len(completions') = Len(completions) + 1
BY AppendProperties DEF TypeOK

LEMMA Unqueued ==
  ASSUME TypeOK, completions # <<>>, completions' = Tail(completions)
  PROVE  /\ Head(completions) \in Results
         /\ completions' \in Seq(Results)
         /\ Len(completions) = 1 => completions' = <<>>
<1>1. /\ Head(completions) \in Results
      /\ completions' \in Seq(Results)
      /\ Len(completions') = Len(completions) - 1
  BY HeadTailProperties DEF TypeOK
<1> QED  BY <1>1, EmptySeq

LEMMA TypeNext == TypeOK /\ [Next]_vars => TypeOK'
<1> SUFFICES ASSUME TypeOK, [Next]_vars PROVE TypeOK'
  OBVIOUS
<1> USE DEF TypeOK, PoolPlaces, CallerPlaces, Handlers
<1>1. CASE UNCHANGED vars
  BY <1>1 DEF vars
<1>2. CASE Start
  BY <1>2 DEF Start
<1>3. CASE Stop
  BY <1>3 DEF Stop
<1>4. CASE Close
  <2>1. backlog' \in Seq(Clients)
    BY <1>4, EmptySeq DEF Close
  <2>2. completions' \in Seq(Results)
    BY <1>4, Queued, "aborted" \in Results DEF Close, Results, Failures
  <2> QED  BY <1>4, <2>1, <2>2 DEF Close
<1>5. CASE StopContext
  BY <1>5 DEF StopContext, Stopped
<1>6. CASE Join
  BY <1>6 DEF Join
<1>7. CASE Listen
  BY <1>7 DEF Listen
<1>8. ASSUME NEW t \in Threads, Launch(t) PROVE TypeOK'
  BY <1>8 DEF Launch
<1>9. ASSUME NEW c \in Clients, Connect(c) PROVE TypeOK'
  BY <1>9, AppendProperties DEF Connect
<1>10. CASE AcceptSucceeds
  <2>1. Head(backlog) \in Results /\ backlog' \in Seq(Clients)
    BY <1>10, HeadTailProperties DEF AcceptSucceeds, Results
  <2> QED  BY <1>10, <2>1, Queued DEF AcceptSucceeds, Complete
<1>11. CASE AcceptFails
  BY <1>11, Queued, "failed" \in Results DEF AcceptFails, Complete, Results, Failures
<1>12. ASSUME NEW t \in Threads, TakeAccept(t) PROVE TypeOK'
  BY <1>12, Unqueued DEF TakeAccept, AcceptsMeanwhile
<1>13. ASSUME NEW t \in Threads, TakeSession(t) PROVE TypeOK'
  BY <1>13 DEF TakeSession
<1>14. ASSUME NEW t \in Threads, OnAccept(t) PROVE TypeOK'
  BY <1>14 DEF OnAccept, AcceptsOn
<1>15. ASSUME NEW t \in Threads, OnAcceptError(t) PROVE TypeOK'
  BY <1>15 DEF OnAcceptError
<1>16. ASSUME NEW t \in Threads, DoAccept(t) PROVE TypeOK'
  <2>1. completions' \in Seq(Results)
    BY <1>16, Queued, "aborted" \in Results DEF DoAccept, Results, Failures
  <2> QED  BY <1>16, <2>1 DEF DoAccept
<1>17. ASSUME NEW t \in Threads, SessionReturns(t) PROVE TypeOK'
  BY <1>17 DEF SessionReturns
<1>18. ASSUME NEW t \in Threads, RunReturns(t) PROVE TypeOK'
  BY <1>18 DEF RunReturns
<1> QED
  BY <1>1, <1>2, <1>3, <1>4, <1>5, <1>6, <1>7, <1>8, <1>9,
     <1>10, <1>11, <1>12, <1>13, <1>14, <1>15, <1>16, <1>17, <1>18
     DEF Next, CallerStep, Proceed

LEMMA CallerKnowsNext == TypeOK /\ CallerKnows /\ [Next]_vars => CallerKnows'
<1> SUFFICES ASSUME TypeOK, CallerKnows, [Next]_vars PROVE CallerKnows'
  OBVIOUS
<1> USE DEF TypeOK, CallerKnows, NoThreads
<1>1. CASE UNCHANGED vars
  BY <1>1 DEF vars
<1>2. CASE Start
  BY <1>2 DEF Start
<1>3. CASE Stop
  BY <1>3 DEF Stop
<1>4. CASE Close
  BY <1>4 DEF Close
<1>5. CASE StopContext
  BY <1>5 DEF StopContext, Stopped
<1>6. CASE Join
  BY <1>6 DEF Join
<1>7. CASE Listen
  BY <1>7 DEF Listen
<1>8. ASSUME NEW t \in Threads, Launch(t) PROVE CallerKnows'
  BY <1>8 DEF Launch
<1>9. ASSUME NEW c \in Clients, Connect(c) PROVE CallerKnows'
  BY <1>9 DEF Connect
<1>10. CASE AcceptSucceeds
  BY <1>10 DEF AcceptSucceeds, Complete
<1>11. CASE AcceptFails
  BY <1>11 DEF AcceptFails, Complete
<1>12. ASSUME NEW t \in Threads, TakeAccept(t) PROVE CallerKnows'
  BY <1>12 DEF TakeAccept, AcceptsMeanwhile
<1>13. ASSUME NEW t \in Threads, TakeSession(t) PROVE CallerKnows'
  BY <1>13 DEF TakeSession
<1>14. ASSUME NEW t \in Threads, OnAccept(t) PROVE CallerKnows'
  BY <1>14 DEF OnAccept, AcceptsOn
<1>15. ASSUME NEW t \in Threads, OnAcceptError(t) PROVE CallerKnows'
  BY <1>15 DEF OnAcceptError
<1>16. ASSUME NEW t \in Threads, DoAccept(t) PROVE CallerKnows'
  BY <1>16 DEF DoAccept
<1>17. ASSUME NEW t \in Threads, SessionReturns(t) PROVE CallerKnows'
  BY <1>17 DEF SessionReturns
<1>18. ASSUME NEW t \in Threads, RunReturns(t) PROVE CallerKnows'
  BY <1>18 DEF RunReturns
<1> QED
  BY <1>1, <1>2, <1>3, <1>4, <1>5, <1>6, <1>7, <1>8, <1>9,
     <1>10, <1>11, <1>12, <1>13, <1>14, <1>15, <1>16, <1>17, <1>18
     DEF Next, CallerStep, Proceed

LEMMA OneAcceptNext == ServerInv /\ [Next]_vars => OneAccept' /\ SerialAccepts'
<1> SUFFICES ASSUME ServerInv, [Next]_vars PROVE OneAccept' /\ SerialAccepts'
  OBVIOUS
<1> USE DEF ServerInv, TypeOK, CallerKnows, NoThreads, OneAccept, SerialAccepts, InListener,
            PoolPlaces, Handlers
<1>1. CASE UNCHANGED vars
  BY <1>1 DEF vars
<1>2. CASE Start
  BY <1>2 DEF Start
<1>3. CASE Stop
  BY <1>3 DEF Stop
<1>4. CASE Close
  <2>1. CASE ~accepting
    BY <1>4, <2>1 DEF Close
  <2>2. CASE accepting
    <3>1. ~stopped => Len(completions) = 0
      BY <2>2
    <3>2. completions' # <<>> /\ Len(completions') = Len(completions) + 1
      BY <1>4, <2>2, Queued, "aborted" \in Results DEF Close, Results, Failures
    <3> QED  BY <1>4, <2>2, <3>1, <3>2 DEF Close
  <2> QED  BY <2>1, <2>2
<1>5. CASE StopContext
  BY <1>5 DEF StopContext, Stopped
<1>6. CASE Join
  BY <1>6 DEF Join
<1>7. CASE Listen
  BY <1>7 DEF Listen
<1>8. ASSUME NEW t \in Threads, Launch(t) PROVE OneAccept' /\ SerialAccepts'
  BY <1>8 DEF Launch
<1>9. ASSUME NEW c \in Clients, Connect(c) PROVE OneAccept' /\ SerialAccepts'
  BY <1>9 DEF Connect
<1>10. CASE AcceptSucceeds
  <2>1. Head(backlog) \in Results
    BY <1>10, HeadTailProperties DEF AcceptSucceeds, Results
  <2>2. completions = <<>> /\ completions' # <<>> /\ Len(completions') = Len(completions) + 1
    BY <1>10, <2>1, Queued DEF AcceptSucceeds, Complete, Polling
  <2> QED  BY <1>10, <2>2 DEF AcceptSucceeds, Complete, Polling
<1>11. CASE AcceptFails
  <2>1. completions = <<>> /\ completions' # <<>> /\ Len(completions') = Len(completions) + 1
    BY <1>11, Queued, "failed" \in Results DEF AcceptFails, Complete, Polling, Results, Failures
  <2> QED  BY <1>11, <2>1 DEF AcceptFails, Complete, Polling
<1>12. ASSUME NEW t \in Threads, TakeAccept(t) PROVE OneAccept' /\ SerialAccepts'
  <2>1. completions' = <<>>
    BY <1>12, Unqueued DEF TakeAccept
  <2> QED  BY <1>12, <2>1 DEF TakeAccept, AcceptsMeanwhile
<1>13. ASSUME NEW t \in Threads, TakeSession(t) PROVE OneAccept' /\ SerialAccepts'
  BY <1>13 DEF TakeSession
<1>14. ASSUME NEW t \in Threads, OnAccept(t) PROVE OneAccept' /\ SerialAccepts'
  BY <1>14 DEF OnAccept, AcceptsOn
<1>15. ASSUME NEW t \in Threads, OnAcceptError(t) PROVE OneAccept' /\ SerialAccepts'
  BY <1>15 DEF OnAcceptError
<1>16. ASSUME NEW t \in Threads, DoAccept(t) PROVE OneAccept' /\ SerialAccepts'
  <2>1. CASE acceptor # "closed"
    BY <1>16, <2>1 DEF DoAccept
  <2>2. CASE acceptor = "closed"
    <3>1. ~stopped => Len(completions) = 0
      BY <1>16 DEF DoAccept
    <3>2. completions' # <<>> /\ Len(completions') = Len(completions) + 1
      BY <1>16, <2>2, Queued, "aborted" \in Results DEF DoAccept, Results, Failures
    <3> QED  BY <1>16, <2>2, <3>1, <3>2 DEF DoAccept
  <2> QED  BY <2>1, <2>2
<1>17. ASSUME NEW t \in Threads, SessionReturns(t) PROVE OneAccept' /\ SerialAccepts'
  BY <1>17 DEF SessionReturns
<1>18. ASSUME NEW t \in Threads, RunReturns(t) PROVE OneAccept' /\ SerialAccepts'
  BY <1>18 DEF RunReturns
<1> QED
  BY <1>1, <1>2, <1>3, <1>4, <1>5, <1>6, <1>7, <1>8, <1>9,
     <1>10, <1>11, <1>12, <1>13, <1>14, <1>15, <1>16, <1>17, <1>18
     DEF Next, CallerStep, Proceed

LEMMA ServerInit == Init => ServerInv
BY TypeInit DEF Init, ServerInv, CallerKnows, OneAccept, SerialAccepts, InListener

LEMMA ServerNext == ServerInv /\ [Next]_vars => ServerInv'
BY TypeNext, CallerKnowsNext, OneAcceptNext DEF ServerInv

\* However often the server is started and stopped, and whatever fails, no
\* two threads are in the listener's handlers: it needs no strand.
THEOREM AcceptsAreSerial == Spec => []SerialAccepts
<1>1. ServerInv => SerialAccepts
  BY DEF ServerInv
<1> QED  BY ServerInit, ServerNext, <1>1, PTL DEF Spec
=============================================================================
