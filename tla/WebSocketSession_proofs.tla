----------------------- MODULE WebSocketSession_proofs -----------------------
(***************************************************************************)
(* Proofs about WebSocketSession, for every set of threads, with and       *)
(* without the strand, and every number of messages.                       *)
(***************************************************************************)
EXTENDS WebSocketSession, SequenceTheorems, TLAPS

USE DEF Idle, In, Enter, Goto

-----------------------------------------------------------------------------
(* Type correctness *)

LEMMA TypeInit == Init => TypeOK
<1> SUFFICES ASSUME Init PROVE TypeOK
  OBVIOUS
<1>1. /\ queue \in Seq(1..MaxWrites)
      /\ inflight \in Seq(1..MaxWrites)
      /\ written \in Seq(1..MaxWrites)
      /\ strand \in Seq(Closures)
  BY EmptySeq DEF Init
<1>2. /\ handler \in [Threads -> Handlers]
      /\ step \in [Threads -> Steps]
  BY DEF Init, Handlers, Steps
<1>3. accepted \in 0..MaxWrites /\ losses \in Nat
  BY WritesAssumption DEF Init
<1> QED  BY <1>1, <1>2, <1>3 DEF Init, TypeOK

LEMMA TypeEmplace ==
  ASSUME TypeOK, NEW t \in Threads, EmplaceBack(t)
  PROVE  /\ queue' \in Seq(1..MaxWrites)
         /\ accepted' \in 0..MaxWrites
         /\ step' \in [Threads -> Steps]
<1>1. accepted + 1 \in 1..MaxWrites
  BY WritesAssumption DEF TypeOK, EmplaceBack, WasEmpty, Rank
<1>2. queue' \in Seq(1..MaxWrites)
  BY <1>1, AppendProperties DEF TypeOK, EmplaceBack, WasEmpty, Rank
<1>3. accepted' \in 0..MaxWrites
  BY <1>1, WritesAssumption DEF EmplaceBack, WasEmpty, Rank
<1>4. step' \in [Threads -> Steps]
  BY DEF TypeOK, EmplaceBack, WasEmpty, Rank, Steps
<1> QED  BY <1>2, <1>3, <1>4

LEMMA TypeStart ==
  ASSUME TypeOK, StartAsyncWrite
  PROVE  inflight' \in Seq(1..MaxWrites) /\ crashed' \in BOOLEAN
<1>1. CASE queue = <<>>
  BY <1>1 DEF TypeOK, StartAsyncWrite
<1>2. CASE queue # <<>>
  <2>1. Head(queue) \in 1..MaxWrites
    BY <1>2, HeadTailProperties DEF TypeOK
  <2>2. inflight' = Append(inflight, Head(queue)) /\ crashed' = crashed
    BY <1>2 DEF StartAsyncWrite
  <2>3. inflight' \in Seq(1..MaxWrites)
    BY <2>1, <2>2, AppendProperties DEF TypeOK
  <2> QED  BY <2>2, <2>3 DEF TypeOK
<1> QED  BY <1>1, <1>2

LEMMA TypeError ==
  ASSUME TypeOK, NEW t \in Threads, ConnectionError(t)
  PROVE  /\ losses' \in Nat
         /\ handler' \in [Threads -> Handlers]
<1>1. losses' \in Nat
  BY DEF TypeOK, ConnectionError, FlagAfterError
<1>2. handler' \in [Threads -> Handlers]
  BY DEF TypeOK, ConnectionError, FlagAfterError, Handlers
<1> QED  BY <1>1, <1>2

LEMMA TypeNext == TypeOK /\ [Next]_vars => TypeOK'
<1> SUFFICES ASSUME TypeOK, [Next]_vars PROVE TypeOK'
  OBVIOUS
<1> USE DEF TypeOK, sendVars, appVars
<1>1. CASE UNCHANGED vars
  BY <1>1 DEF vars
<1>2. ASSUME NEW t \in Threads, ThreadStep(t) PROVE TypeOK'
  <2>1. CASE Run(t)
    <3>0. strand' = strand \/ strand' = Append(strand, "onRun")
      BY <2>1 DEF Run
    <3>1. strand' \in Seq(Closures)
      BY <3>0, AppendProperties, "onRun" \in Closures DEF Closures
    <3>2. reading' \in {"new", "none", "accept", "read"}
      BY <2>1 DEF Run
    <3> QED  BY <2>1, <3>1, <3>2 DEF Run
  <2>2. CASE OnAcceptOk(t)
    BY <2>2 DEF OnAcceptOk, Handlers
  <2>3. CASE OnAcceptError(t)
    BY <2>3, TypeError DEF OnAcceptError, ConnectionError, FlagAfterError
  <2>4. CASE OnReadOk(t)
    BY <2>4 DEF OnReadOk, Handlers
  <2>5. CASE OnReadError(t)
    BY <2>5, TypeError DEF OnReadError, AfterReadError, ConnectionError, FlagAfterError
  <2>6. CASE OnWriteOk(t)
    <3>1. /\ Head(inflight) \in 1..MaxWrites
          /\ inflight' \in Seq(1..MaxWrites)
      BY <2>6, HeadTailProperties DEF OnWriteOk
    <3>2. written' \in Seq(1..MaxWrites)
      BY <2>6, <3>1, AppendProperties DEF OnWriteOk
    <3>3. queue' \in Seq(1..MaxWrites)
      BY <2>6, HeadTailProperties DEF OnWriteOk
    <3>4. handler' \in [Threads -> Handlers] /\ step' \in [Threads -> Steps]
      BY <2>6 DEF OnWriteOk, Handlers, Steps
    <3> QED  BY <2>6, <3>1, <3>2, <3>3, <3>4 DEF OnWriteOk
  <2>7. CASE OnWriteError(t)
    <3>1. inflight' \in Seq(1..MaxWrites)
      BY <2>7, HeadTailProperties DEF OnWriteError
    <3> QED  BY <2>7, <3>1, TypeError DEF OnWriteError, ConnectionError, FlagAfterError
  <2>8. CASE RunStrand(t)
    <3>1. strand' \in Seq(Closures) /\ Head(strand) \in Closures
      BY <2>8, HeadTailProperties DEF RunStrand
    <3>2. reading' \in {"new", "none", "accept", "read"}
      BY <2>8, <3>1 DEF RunStrand, Closures
    <3>3. inflight' \in Seq(1..MaxWrites) /\ crashed' \in BOOLEAN
      BY <2>8, <3>1, TypeStart DEF RunStrand, Closures
    <3> QED  BY <2>8, <3>1, <3>2, <3>3 DEF RunStrand
  <2>9. CASE Broadcast(t)
    <3>1. EmplaceBack(t) /\ handler' \in [Threads -> Handlers]
      BY <2>9 DEF Broadcast, Handlers
    <3> QED  BY <3>1, TypeEmplace DEF EmplaceBack, WasEmpty, Rank
  <2>10. CASE WriteFromCallback(t)
    BY <2>10, TypeEmplace DEF WriteFromCallback, EmplaceBack, WasEmpty, Rank
  <2>11. CASE Register(t)
    BY <2>11 DEF Register
  <2>12. CASE Disconnect(t)
    BY <2>12 DEF Disconnect
  <2>13. CASE PostDoWrite(t)
    <3>1. strand' \in Seq(Closures) /\ step' \in [Threads -> Steps]
      BY <2>13, AppendProperties, "doWrite" \in Closures
         DEF PostDoWrite, Steps, Closures
    <3> QED  BY <2>13, <3>1 DEF PostDoWrite
  <2>14. CASE DoWrite(t)
    <3>1. handler' \in [Threads -> Handlers] /\ step' \in [Threads -> Steps]
      BY <2>14 DEF DoWrite, Handlers, Steps
    <3> QED  BY <2>14, <3>1, TypeStart DEF DoWrite
  <2>15. CASE CheckEmpty(t)
    BY <2>15 DEF CheckEmpty, NothingLeft, Handlers, Steps
  <2>16. CASE ConnectionDone(t)
    <3>0. strand' = strand \/ strand' = Append(strand, "doRead")
      BY <2>16 DEF ConnectionDone
    <3>1. strand' \in Seq(Closures)
      BY <3>0, AppendProperties, "doRead" \in Closures DEF Closures
    <3> QED  BY <2>16, <3>1 DEF ConnectionDone, Handlers
  <2>17. CASE MessageDone(t)
    BY <2>17 DEF MessageDone, AfterMessage, Handlers
  <2>18. CASE BroadcastDone(t)
    BY <2>18 DEF BroadcastDone, Handlers
  <2>19. CASE LossDone(t)
    BY <2>19 DEF LossDone, Handlers
  <2> QED
    BY <1>2, <2>1, <2>2, <2>3, <2>4, <2>5, <2>6, <2>7, <2>8, <2>9, <2>10,
       <2>11, <2>12, <2>13, <2>14, <2>15, <2>16, <2>17, <2>18, <2>19
       DEF ThreadStep, InWrite, Finish
<1> QED  BY <1>1, <1>2 DEF Next

\* The variables of a session keep their types, whatever the threads do.
THEOREM TypeCorrect == Spec => []TypeOK
BY TypeInit, TypeNext, PTL DEF Spec

-----------------------------------------------------------------------------
(* Nobody is forgotten: NoStall and DestructorNeverCloses *)

\* A thread outside every callback is outside write() and _onWrite() too,
\* and the only callback that pops is _onWrite.
Located ==
  \A t \in Threads :
    /\ Idle(t) => step[t] = "body"
    /\ step[t] = "popped" => handler[t] = "onWrite"

\* Either the session still reads, or is on its way to, or its loss was seen.
ReadChain ==
  \/ reading # "none"
  \/ \E i \in DOMAIN strand : strand[i] # "doWrite"
  \/ \E t \in Threads : handler[t] \in {"onConnection", "onMessage"}
  \/ losses > 0 /\ ~isConnected

ControlInv == TypeOK /\ Located /\ NoStall /\ ReadChain

LEMMA ControlInit == Init => ControlInv
BY TypeInit DEF Init, ControlInv, Located, NoStall, ReadChain

\* What a closure leaves in the strand when the first one is run.
LEMMA StrandTail ==
  ASSUME TypeOK, strand # <<>>, strand' = Tail(strand),
         NEW i \in DOMAIN strand, i # 1
  PROVE  i - 1 \in DOMAIN strand' /\ strand'[i - 1] = strand[i]
BY HeadTailProperties, LenProperties DEF TypeOK

\* A closure stays in the strand when another is posted.
LEMMA StrandAppend ==
  ASSUME TypeOK, NEW c \in Closures, strand' = Append(strand, c)
  PROVE  /\ \A i \in DOMAIN strand : i \in DOMAIN strand' /\ strand'[i] = strand[i]
         /\ \E i \in DOMAIN strand' : strand'[i] = c
<1>1. /\ strand \in Seq(Closures) /\ Len(strand) \in Nat
      /\ DOMAIN strand = 1..Len(strand)
  BY LenProperties DEF TypeOK
<1>2. /\ strand' \in Seq(Closures)
      /\ Len(strand') = Len(strand) + 1
      /\ \A i \in 1..Len(strand) : strand'[i] = strand[i]
      /\ strand'[Len(strand) + 1] = c
  BY <1>1, AppendProperties
<1>3. DOMAIN strand' = 1..Len(strand')
  BY <1>2, LenProperties
<1> QED  BY <1>1, <1>2, <1>3

LEMMA LocatedNext == TypeOK /\ Located /\ [Next]_vars => Located'
<1> SUFFICES ASSUME TypeOK, Located, [Next]_vars PROVE Located'
  OBVIOUS
<1> USE DEF TypeOK, Located, sendVars, appVars
<1>1. CASE UNCHANGED vars
  BY <1>1 DEF vars
<1>2. ASSUME NEW t \in Threads, ThreadStep(t) PROVE Located'
  <2>1. CASE Run(t)
    BY <2>1 DEF Run
  <2>2. CASE OnAcceptOk(t)
    BY <2>2 DEF OnAcceptOk
  <2>3. CASE OnAcceptError(t)
    BY <2>3 DEF OnAcceptError, ConnectionError, FlagAfterError
  <2>4. CASE OnReadOk(t)
    BY <2>4 DEF OnReadOk
  <2>5. CASE OnReadError(t)
    BY <2>5 DEF OnReadError, AfterReadError, ConnectionError, FlagAfterError
  <2>6. CASE OnWriteOk(t)
    BY <2>6 DEF OnWriteOk
  <2>7. CASE OnWriteError(t)
    BY <2>7 DEF OnWriteError, ConnectionError, FlagAfterError
  <2>8. CASE RunStrand(t)
    BY <2>8 DEF RunStrand
  <2>9. CASE Broadcast(t)
    BY <2>9 DEF Broadcast, EmplaceBack, WasEmpty, Rank
  <2>10. CASE WriteFromCallback(t)
    BY <2>10 DEF WriteFromCallback, EmplaceBack, WasEmpty, Rank
  <2>11. CASE Register(t)
    BY <2>11 DEF Register
  <2>12. CASE Disconnect(t)
    BY <2>12 DEF Disconnect
  <2>13. CASE PostDoWrite(t)
    BY <2>13 DEF PostDoWrite
  <2>14. CASE DoWrite(t)
    BY <2>14 DEF DoWrite
  <2>15. CASE CheckEmpty(t)
    BY <2>15 DEF CheckEmpty, NothingLeft
  <2>16. CASE ConnectionDone(t)
    BY <2>16 DEF ConnectionDone
  <2>17. CASE MessageDone(t)
    BY <2>17 DEF MessageDone, AfterMessage
  <2>18. CASE BroadcastDone(t)
    BY <2>18 DEF BroadcastDone
  <2>19. CASE LossDone(t)
    BY <2>19 DEF LossDone
  <2> QED
    BY <1>2, <2>1, <2>2, <2>3, <2>4, <2>5, <2>6, <2>7, <2>8, <2>9, <2>10,
       <2>11, <2>12, <2>13, <2>14, <2>15, <2>16, <2>17, <2>18, <2>19
       DEF ThreadStep, InWrite, Finish
<1> QED  BY <1>1, <1>2 DEF Next


\* _doWrite leaves a write in progress, or met an empty queue.
LEMMA StartedOrCrashed ==
  ASSUME TypeOK, StartAsyncWrite
  PROVE  inflight' # <<>> \/ crashed'
<1>1. CASE queue = <<>>
  BY <1>1 DEF StartAsyncWrite
<1>2. CASE queue # <<>>
  <2>1. Head(queue) \in 1..MaxWrites
    BY <1>2, HeadTailProperties DEF TypeOK
  <2>2. inflight' = Append(inflight, Head(queue))
    BY <1>2 DEF StartAsyncWrite
  <2> QED  BY <2>1, <2>2, AppendProperties DEF TypeOK
<1> QED  BY <1>1, <1>2

LEMMA NoStallNext == ControlInv /\ [Next]_vars => NoStall'
<1> SUFFICES ASSUME ControlInv, [Next]_vars PROVE NoStall'
  OBVIOUS
<1> USE DEF ControlInv, TypeOK, Located, NoStall, WriterActive, sendVars, appVars
<1>1. CASE UNCHANGED vars
  BY <1>1 DEF vars
<1>2. ASSUME NEW t \in Threads, ThreadStep(t) PROVE NoStall'
  <2>1. CASE Run(t)
    <3>1. UNCHANGED <<queue, inflight, step, losses, crashed>>
      BY <2>1 DEF Run
    <3>2. CASE UNCHANGED strand
      BY <3>1, <3>2
    <3>3. CASE strand' = Append(strand, "onRun")
      BY <3>1, <3>3, StrandAppend, "onRun" \in Closures DEF Closures
    <3> QED  BY <2>1, <3>2, <3>3 DEF Run
  <2>2. CASE OnAcceptOk(t)
    BY <2>2 DEF OnAcceptOk
  <2>3. CASE OnAcceptError(t)
    BY <2>3 DEF OnAcceptError, ConnectionError, FlagAfterError
  <2>4. CASE OnReadOk(t)
    BY <2>4 DEF OnReadOk
  <2>5. CASE OnReadError(t)
    BY <2>5 DEF OnReadError, AfterReadError, ConnectionError, FlagAfterError
  <2>6. CASE OnWriteOk(t)
    BY <2>6 DEF OnWriteOk
  <2>7. CASE OnWriteError(t)
    BY <2>7 DEF OnWriteError, ConnectionError, FlagAfterError
  <2>8. CASE RunStrand(t)
    <3>1. strand # <<>> /\ strand' = Tail(strand) /\ UNCHANGED <<queue, step, losses>>
      BY <2>8 DEF RunStrand
    <3>2. CASE Head(strand) = "doWrite"
      BY <2>8, <3>2, StartedOrCrashed DEF RunStrand
    <3>3. CASE Head(strand) # "doWrite"
      <4>1. UNCHANGED <<inflight, crashed>>
        <5>1. Head(strand) \in Closures \ {"doWrite"}
          BY <3>1, <3>3, HeadTailProperties
        <5> QED  BY <2>8, <5>1 DEF RunStrand, Closures
      <4>2. ASSUME NEW i \in DOMAIN strand, strand[i] = "doWrite"
            PROVE  \E k \in DOMAIN strand' : strand'[k] = "doWrite"
        <5>1. i # 1
          BY <3>1, <3>3, <4>2
        <5> QED  BY <3>1, <4>2, <5>1, StrandTail
      <4> QED  BY <3>1, <4>1, <4>2
    <3> QED  BY <3>2, <3>3
  <2>9. CASE Broadcast(t)
    BY <2>9 DEF Broadcast, EmplaceBack, WasEmpty, Rank
  <2>10. CASE WriteFromCallback(t)
    BY <2>10 DEF WriteFromCallback, EmplaceBack, WasEmpty, Rank
  <2>11. CASE Register(t)
    BY <2>11 DEF Register
  <2>12. CASE Disconnect(t)
    BY <2>12 DEF Disconnect
  <2>13. CASE PostDoWrite(t)
    <3>1. strand' = Append(strand, "doWrite") /\ "doWrite" \in Closures
      BY <2>13 DEF PostDoWrite, Closures
    <3>2. \E i \in DOMAIN strand' : strand'[i] = "doWrite"
      BY <3>1, StrandAppend
    <3> QED  BY <3>2
  <2>14. CASE DoWrite(t)
    BY <2>14, StartedOrCrashed DEF DoWrite
  <2>15. CASE CheckEmpty(t)
    BY <2>15 DEF CheckEmpty, NothingLeft
  <2>16. CASE ConnectionDone(t)
    <3>1. UNCHANGED <<queue, inflight, step, losses, crashed>>
      BY <2>16 DEF ConnectionDone
    <3>2. CASE UNCHANGED strand
      BY <3>1, <3>2
    <3>3. CASE strand' = Append(strand, "doRead")
      BY <3>1, <3>3, StrandAppend, "doRead" \in Closures DEF Closures
    <3> QED  BY <2>16, <3>2, <3>3 DEF ConnectionDone
  <2>17. CASE MessageDone(t)
    BY <2>17 DEF MessageDone, AfterMessage
  <2>18. CASE BroadcastDone(t)
    BY <2>18 DEF BroadcastDone
  <2>19. CASE LossDone(t)
    BY <2>19 DEF LossDone
  <2> QED
    BY <1>2, <2>1, <2>2, <2>3, <2>4, <2>5, <2>6, <2>7, <2>8, <2>9, <2>10,
       <2>11, <2>12, <2>13, <2>14, <2>15, <2>16, <2>17, <2>18, <2>19
       DEF ThreadStep, InWrite, Finish
<1> QED  BY <1>1, <1>2 DEF Next


LEMMA ReadChainNext == ControlInv /\ [Next]_vars => ReadChain'
<1> SUFFICES ASSUME ControlInv, [Next]_vars PROVE ReadChain'
  OBVIOUS
<1> USE DEF ControlInv, TypeOK, Located, ReadChain, sendVars, appVars
<1>1. CASE UNCHANGED vars
  BY <1>1 DEF vars
<1>2. ASSUME NEW t \in Threads, ThreadStep(t) PROVE ReadChain'
  <2>1. CASE Run(t)
    BY <2>1 DEF Run
  <2>2. CASE OnAcceptOk(t)
    BY <2>2 DEF OnAcceptOk
  <2>3. CASE OnAcceptError(t)
    BY <2>3 DEF OnAcceptError, ConnectionError, FlagAfterError
  <2>4. CASE OnReadOk(t)
    BY <2>4 DEF OnReadOk
  <2>5. CASE OnReadError(t)
    BY <2>5 DEF OnReadError, AfterReadError, ConnectionError, FlagAfterError
  <2>6. CASE OnWriteOk(t)
    BY <2>6 DEF OnWriteOk
  <2>7. CASE OnWriteError(t)
    BY <2>7 DEF OnWriteError, ConnectionError, FlagAfterError
  <2>8. CASE RunStrand(t)
    <3>1. strand # <<>> /\ strand' = Tail(strand)
          /\ UNCHANGED <<handler, losses, isConnected>>
      BY <2>8 DEF RunStrand
    <3>2. CASE Head(strand) # "doWrite"
      <4>1. Head(strand) \in Closures \ {"doWrite"}
        BY <3>1, <3>2, HeadTailProperties
      <4> QED  BY <2>8, <4>1 DEF RunStrand, Closures
    <3>3. CASE Head(strand) = "doWrite"
      <4>1. UNCHANGED reading
        BY <2>8, <3>3 DEF RunStrand
      <4>2. ASSUME NEW i \in DOMAIN strand, strand[i] # "doWrite"
            PROVE  \E k \in DOMAIN strand' : strand'[k] # "doWrite"
        <5>1. i # 1
          BY <3>1, <3>3, <4>2
        <5> QED  BY <3>1, <4>2, <5>1, StrandTail
      <4> QED  BY <3>1, <4>1, <4>2
    <3> QED  BY <3>2, <3>3
  <2>9. CASE Broadcast(t)
    BY <2>9 DEF Broadcast, EmplaceBack, WasEmpty, Rank
  <2>10. CASE WriteFromCallback(t)
    BY <2>10 DEF WriteFromCallback, EmplaceBack, WasEmpty, Rank
  <2>11. CASE Register(t)
    BY <2>11 DEF Register
  <2>12. CASE Disconnect(t)
    BY <2>12 DEF Disconnect
  <2>13. CASE PostDoWrite(t)
    BY <2>13 DEF PostDoWrite
  <2>14. CASE DoWrite(t)
    BY <2>14 DEF DoWrite
  <2>15. CASE CheckEmpty(t)
    BY <2>15 DEF CheckEmpty, NothingLeft
  <2>16. CASE ConnectionDone(t)
    BY <2>16 DEF ConnectionDone
  <2>17. CASE MessageDone(t)
    BY <2>17 DEF MessageDone, AfterMessage
  <2>18. CASE BroadcastDone(t)
    BY <2>18 DEF BroadcastDone
  <2>19. CASE LossDone(t)
    BY <2>19 DEF LossDone
  <2> QED
    BY <1>2, <2>1, <2>2, <2>3, <2>4, <2>5, <2>6, <2>7, <2>8, <2>9, <2>10,
       <2>11, <2>12, <2>13, <2>14, <2>15, <2>16, <2>17, <2>18, <2>19
       DEF ThreadStep, InWrite, Finish
<1> QED  BY <1>1, <1>2 DEF Next

LEMMA ControlNext == ControlInv /\ [Next]_vars => ControlInv'
BY TypeNext, LocatedNext, NoStallNext, ReadChainNext DEF ControlInv

\* With any number of threads, with or without the strand, no accepted
\* message is left waiting with nobody to send it.
THEOREM NeverStalls == Spec => []NoStall
<1>1. ControlInv => NoStall
  BY DEF ControlInv
<1> QED  BY ControlInit, ControlNext, <1>1, PTL DEF Spec

\* With any number of threads, the destructor of a session finds its loss
\* already reported and has no connection to close.
THEOREM DestructorIsQuiet == Spec => []DestructorNeverCloses
<1>1. ControlInv => DestructorNeverCloses
  BY DEF ControlInv, ReadChain, DestructorNeverCloses, HasOwner
<1> QED  BY ControlInit, ControlNext, <1>1, PTL DEF Spec

-----------------------------------------------------------------------------
(* Any number of threads: the order of the messages *)

\* The message in progress is the oldest one that waits.
Sending == inflight # <<>> => queue # <<>> /\ Head(inflight) = Head(queue)

\* What was sent and what waits are together what was accepted, in order.
Ordered ==
  /\ Len(written) + Len(queue) = accepted
  /\ \A i \in 1..Len(written) : written[i] = i
  /\ \A i \in 1..Len(queue) : queue[i] = Len(written) + i

\* emplaceBack adds the next message and leaves the oldest one in front.
LEMMA EmplacedInOrder ==
  ASSUME TypeOK, Ordered, Sending, NEW t \in Threads, EmplaceBack(t)
  PROVE  queue' # <<>> /\ Ordered' /\ Sending'
<1>1. accepted + 1 \in 1..MaxWrites
  BY WritesAssumption DEF TypeOK, EmplaceBack, WasEmpty, Rank
<1>2. queue \in Seq(1..MaxWrites) /\ Len(queue) \in Nat /\ Len(written) \in Nat
  BY LenProperties DEF TypeOK
<1>3. /\ queue' # <<>>
      /\ Len(queue') = Len(queue) + 1
      /\ \A i \in 1..Len(queue) : queue'[i] = queue[i]
      /\ queue'[Len(queue) + 1] = accepted + 1
  BY <1>1, <1>2, AppendProperties DEF EmplaceBack, WasEmpty, Rank
<1>4. Ordered'
  <2>1. accepted' = accepted + 1 /\ written' = written
    BY DEF EmplaceBack, WasEmpty, Rank
  <2>2. ASSUME NEW i \in 1..Len(queue')
        PROVE  queue'[i] = Len(written') + i
    <3>1. CASE i = Len(queue) + 1
      BY <1>2, <1>3, <2>1, <3>1 DEF Ordered
    <3>2. CASE i \in 1..Len(queue)
      BY <1>2, <1>3, <2>1, <3>2 DEF Ordered
    <3> QED  BY <1>2, <1>3, <2>2, <3>1, <3>2
  <2> QED  BY <1>2, <1>3, <2>1, <2>2 DEF Ordered
<1>5. Sending'
  <2> SUFFICES ASSUME inflight # <<>>
               PROVE  Head(queue') = Head(inflight)
    BY <1>3 DEF Sending, EmplaceBack
  <2>1. queue # <<>> /\ Head(inflight) = Head(queue)
    BY DEF Sending
  <2>2. Len(queue) \in Nat \ {0}
    BY <1>2, <2>1, EmptySeq
  <2> QED  BY <1>2, <1>3, <2>1, <2>2
<1> QED  BY <1>3, <1>4, <1>5

\* The completion of the only write in progress: it is the oldest message.
LEMMA SentInOrder ==
  ASSUME TypeOK, Ordered, Sending, OneWriteAtATime, NEW t \in Threads, OnWriteOk(t)
  PROVE  /\ Head(inflight) = Len(written) + 1
         /\ Len(written) < accepted
         /\ inflight' = <<>>
         /\ Ordered' /\ crashed' = crashed
<1>1. /\ queue # <<>> /\ Len(inflight) = 1 /\ Head(inflight) = Head(queue)
  <2>1. inflight # <<>>
    BY DEF OnWriteOk
  <2>2. inflight \in Seq(1..MaxWrites) /\ Len(inflight) \in Nat
    BY LenProperties DEF TypeOK
  <2>3. Len(inflight) # 0
    BY <2>1, <2>2, EmptySeq
  <2>4. Len(inflight) <= 1
    BY DEF OneWriteAtATime
  <2>5. \A n \in Nat : n <= 1 /\ n # 0 => n = 1
    OBVIOUS
  <2>6. Len(inflight) = 1
    BY <2>2, <2>3, <2>4, <2>5, Zenon
  <2> QED  BY <2>1, <2>6 DEF Sending
<1>2. /\ Len(queue) \in Nat \ {0} /\ Len(written) \in Nat
      /\ Head(queue) = queue[1]
      /\ Head(queue) \in 1..MaxWrites
  <2>1. /\ queue \in Seq(1..MaxWrites)
        /\ written \in Seq(1..MaxWrites)
    BY DEF TypeOK
  <2>2. Len(queue) \in Nat \ {0}
    BY <1>1, <2>1, EmptySeq
  <2>3. Len(written) \in Nat
    BY <2>1, LenProperties
  <2>4. Head(queue) \in 1..MaxWrites
    BY <1>1, <2>1, HeadTailProperties
  <2>5. Head(queue) = queue[1]
    BY <2>1
  <2> QED  BY <2>2, <2>3, <2>4, <2>5
<1>3. Head(inflight) = Len(written) + 1 /\ Len(written) < accepted
  BY <1>1, <1>2 DEF Ordered
<1>4. /\ queue' = Tail(queue)
      /\ written' = Append(written, Head(queue))
      /\ inflight' = Tail(inflight)
      /\ UNCHANGED <<strand, accepted, crashed>>
  BY <1>1 DEF OnWriteOk
<1>5. /\ Len(queue') = Len(queue) - 1
      /\ \A i \in 1..Len(queue') : queue'[i] = queue[i + 1]
  BY <1>1, <1>4, HeadTailProperties DEF TypeOK
<1>6. /\ Len(written') = Len(written) + 1
      /\ \A i \in 1..Len(written) : written'[i] = written[i]
      /\ written'[Len(written) + 1] = Len(written) + 1
  BY <1>1, <1>2, <1>3, <1>4, AppendProperties DEF TypeOK
<1>7. inflight' = <<>>
  <2>1. inflight # <<>> /\ inflight' \in Seq(1..MaxWrites) /\ Len(inflight') = 0
    BY <1>1, <1>4, HeadTailProperties DEF OnWriteOk, TypeOK
  <2> QED  BY <2>1, EmptySeq
<1>8. Ordered'
  <2>1. Len(written') + Len(queue') = accepted'
    BY <1>2, <1>4, <1>5, <1>6 DEF Ordered
  <2>2. \A i \in 1..Len(written') : written'[i] = i
    BY <1>2, <1>6 DEF Ordered
  <2>3. \A i \in 1..Len(queue') : queue'[i] = Len(written') + i
    BY <1>2, <1>5, <1>6 DEF Ordered
  <2> QED  BY <2>1, <2>2, <2>3 DEF Ordered
<1> QED  BY <1>3, <1>4, <1>7, <1>8

\* A write that starts while none is in progress takes the oldest message.
LEMMA StartedInOrder ==
  ASSUME TypeOK, StartAsyncWrite, queue' = queue, Len(inflight') <= 1
  PROVE  inflight' # <<>> /\ inflight # inflight' =>
           inflight = <<>> /\ queue' # <<>> /\ Head(inflight') = Head(queue')
<1> SUFFICES ASSUME inflight # inflight'
             PROVE  inflight = <<>> /\ queue' # <<>> /\ Head(inflight') = Head(queue')
  OBVIOUS
<1>1. queue # <<>> /\ inflight' = Append(inflight, Head(queue))
  BY DEF StartAsyncWrite
<1>2. Head(queue) \in 1..MaxWrites /\ inflight \in Seq(1..MaxWrites)
  BY <1>1, HeadTailProperties DEF TypeOK
<1>3. Len(inflight') = Len(inflight) + 1 /\ Len(inflight) \in Nat
  BY <1>1, <1>2, AppendProperties, LenProperties
<1>4. inflight = <<>>
  BY <1>2, <1>3, EmptySeq
<1>5. inflight' = <<Head(queue)>>
  BY <1>1, <1>4
<1> QED  BY <1>1, <1>4, <1>5

\* Threads that do not overlap two writes keep the order.
LEMMA OrderNext ==
  ASSUME TypeOK, Ordered, Sending, OneWriteAtATime, OneWriteAtATime', [Next]_vars
  PROVE  Ordered' /\ Sending'
<1> USE DEF sendVars, appVars
<1>1. CASE UNCHANGED vars
  BY <1>1 DEF vars, Ordered, Sending
<1>2. ASSUME NEW t \in Threads, ThreadStep(t) PROVE Ordered' /\ Sending'
  <2>1. CASE OnWriteOk(t)
    BY <2>1, SentInOrder DEF Sending
  <2>2. CASE Broadcast(t) \/ WriteFromCallback(t)
    BY <2>2, EmplacedInOrder DEF Broadcast, WriteFromCallback
  <2>3. CASE OnWriteError(t)
    <3>1. inflight # <<>> /\ inflight' = Tail(inflight) /\ UNCHANGED <<queue, accepted, written>>
      BY <2>3 DEF OnWriteError
    <3>2. inflight' \in Seq(1..MaxWrites) /\ Len(inflight') = Len(inflight) - 1
      BY <3>1, HeadTailProperties DEF TypeOK
    <3>3. Len(inflight') \in Nat /\ Len(inflight) \in Nat /\ Len(inflight) <= 1
      BY <3>2, LenProperties DEF OneWriteAtATime, TypeOK
    <3>4. Len(inflight') = 0
      BY <3>2, <3>3
    <3>5. inflight' = <<>>
      BY <3>2, <3>4, EmptySeq
    <3> QED  BY <3>1, <3>5 DEF Ordered, Sending
  <2>4. CASE DoWrite(t) \/ RunStrand(t)
    <3>1. UNCHANGED <<queue, accepted, written>> /\ (UNCHANGED inflight \/ StartAsyncWrite)
      <4>1. CASE DoWrite(t)
        BY <4>1 DEF DoWrite
      <4>2. CASE RunStrand(t)
        <5>1. strand # <<>> /\ Head(strand) \in Closures
          BY <4>2, HeadTailProperties DEF RunStrand, TypeOK
        <5> QED  BY <4>2, <5>1 DEF RunStrand, Closures
      <4> QED  BY <2>4, <4>1, <4>2
    <3>2. Ordered'
      BY <3>1 DEF Ordered
    <3>3. Sending'
      BY <3>1, StartedInOrder DEF Sending, OneWriteAtATime
    <3> QED  BY <3>2, <3>3
  <2>5. CASE \/ Run(t) \/ OnAcceptOk(t) \/ OnAcceptError(t) \/ OnReadOk(t) \/ OnReadError(t)
             \/ Register(t) \/ Disconnect(t) \/ PostDoWrite(t) \/ CheckEmpty(t) \/ Finish(t)
    <3>1. UNCHANGED <<queue, inflight, accepted, written>>
      BY <2>5 DEF Run, OnAcceptOk, OnAcceptError, OnReadOk, OnReadError, ConnectionError,
                  Register, Disconnect, PostDoWrite, CheckEmpty, NothingLeft, Finish,
                  ConnectionDone, MessageDone, BroadcastDone, LossDone
    <3> QED  BY <3>1 DEF Ordered, Sending
  <2> QED  BY <1>2, <2>1, <2>2, <2>3, <2>4, <2>5 DEF ThreadStep, InWrite
<1> QED  BY <1>1, <1>2 DEF Next

\* While writes do not overlap, each step is a step of the abstract channel or
\* leaves it alone.
LEMMA ChannelStep ==
  ASSUME TypeOK, Ordered, Sending, OneWriteAtATime, [Next]_vars
  PROVE  [Channel!ChanNext]_(Channel!chanVars)
<1> USE DEF sendVars, appVars, Channel!ChanNext, Channel!chanVars
<1>1. CASE UNCHANGED vars
  BY <1>1 DEF vars
<1>2. ASSUME NEW t \in Threads, Running, ThreadStep(t)
      PROVE  [Channel!ChanNext]_(Channel!chanVars)
  <2>1. CASE OnWriteOk(t)
    <3>1. /\ written' = Append(written, Len(written) + 1)
          /\ Len(written) < accepted
          /\ UNCHANGED <<accepted, losses, terminated>>
      BY <2>1, SentInOrder DEF OnWriteOk
    <3> QED  BY <3>1 DEF Channel!Deliver
  <2>2. CASE Broadcast(t) \/ WriteFromCallback(t)
    <3>1. accepted' = accepted + 1 /\ UNCHANGED <<written, losses, terminated>>
      BY <2>2 DEF Broadcast, WriteFromCallback, EmplaceBack, WasEmpty, Rank
    <3> QED  BY <3>1 DEF Channel!Accept
  <2>3. CASE OnAcceptError(t) \/ OnReadError(t) \/ OnWriteError(t)
    <3>1. losses' = losses + 1 /\ UNCHANGED <<accepted, written>>
      BY <2>3 DEF OnAcceptError, OnReadError, AfterReadError, OnWriteError, ConnectionError, FlagAfterError
    <3>2. (losses' > 0) = TRUE
      BY <3>1 DEF TypeOK
    <3> QED  BY <3>1, <3>2 DEF Channel!Break
  <2>4. CASE \/ Run(t) \/ OnAcceptOk(t) \/ OnReadOk(t) \/ RunStrand(t)
             \/ Register(t) \/ InWrite(t) \/ Finish(t)
    <3>1. UNCHANGED <<accepted, written, losses, terminated>>
      BY <2>4 DEF Run, OnAcceptOk, OnReadOk, RunStrand, Register,
                  InWrite, PostDoWrite, DoWrite, CheckEmpty, NothingLeft, Finish,
                  ConnectionDone, MessageDone, AfterMessage, BroadcastDone, LossDone
    <3> QED  BY <3>1
  <2>5. CASE Disconnect(t)
    <3>1. /\ UNCHANGED <<accepted, written, losses>>
          /\ terminated' = TRUE \/ UNCHANGED terminated
      BY <1>2, <2>5 DEF TypeOK, Disconnect, Running
    <3> QED  BY <3>1 DEF Channel!Break
  <2> QED  BY <1>2, <2>1, <2>2, <2>3, <2>4, <2>5 DEF ThreadStep
<1> QED  BY <1>1, <1>2 DEF Next, Running

\* With any number of threads and with or without the strand, overlapping
\* writes are the only way for messages to be sent out of order, twice or
\* with one left out: a session that never overlaps two implements the
\* channel.
THEOREM OnlyOverlapReorders == Spec /\ []OneWriteAtATime => SendsInOrder
<1>1. Init => TypeOK /\ Ordered /\ Sending /\ Channel!ChanInit
  BY TypeInit DEF Init, Ordered, Sending, Channel!ChanInit
<1>2. TypeOK /\ Ordered /\ Sending /\ OneWriteAtATime /\ [Next]_vars =>
        [Channel!ChanNext]_(Channel!chanVars)
  BY ChannelStep
<1>3. TypeOK /\ Ordered /\ Sending /\ OneWriteAtATime /\ OneWriteAtATime' /\ [Next]_vars =>
        TypeOK' /\ Ordered' /\ Sending'
  BY TypeNext, OrderNext
<1> QED
  BY <1>1, <1>2, <1>3, PTL DEF Spec, SendsInOrder, Channel!ChanSafety

-----------------------------------------------------------------------------
(* One thread: one write at a time, in order *)

\* The message in progress is the oldest one that waits, and while a thread
\* is about to start a write none is in progress.
Exclusive ==
  /\ strand = <<>>
  /\ inflight # <<>> =>
       /\ queue # <<>>
       /\ Len(inflight) = 1
       /\ Head(inflight) = Head(queue)
       /\ \A t \in Threads : step[t] = "body"
  /\ \A t \in Threads :
       /\ step[t] # "post"
       /\ step[t] = "doWrite" => queue # <<>>

OneThreadInv == TypeOK /\ Located /\ Exclusive /\ Ordered /\ ~crashed

LEMMA OneThreadInit == Init => OneThreadInv
<1> SUFFICES ASSUME Init PROVE OneThreadInv
  OBVIOUS
<1>1. TypeOK
  BY TypeInit
<1>2. Located /\ Exclusive /\ ~crashed
  BY DEF Init, Located, Exclusive
<1>3. Ordered
  BY DEF Init, Ordered
<1> QED  BY <1>1, <1>2, <1>3 DEF OneThreadInv


\* emplaceBack by the only thread starts a write only when the queue was
\* empty.
LEMMA OneThreadEmplace ==
  ASSUME SingleThreaded, OneThreadInv, NEW t \in Threads, step[t] = "body",
         EmplaceBack(t)
  PROVE  Exclusive' /\ Ordered'
<1> USE DEF OneThreadInv
<1>1. Sending
  BY DEF Exclusive, Sending
<1>2. queue' # <<>> /\ Ordered' /\ Sending'
  BY <1>1, EmplacedInOrder
<1>3. \A u \in Threads : u = t
  BY DEF SingleThreaded
<1>4. Exclusive'
  BY <1>2, <1>3 DEF Exclusive, Sending, EmplaceBack, WasEmpty, UseStrands, TypeOK
<1> QED  BY <1>2, <1>4

\* The completion of the only thread's write.
LEMMA OneThreadSent ==
  ASSUME SingleThreaded, OneThreadInv, NEW t \in Threads, OnWriteOk(t)
  PROVE  Exclusive' /\ Ordered' /\ ~crashed'
<1> USE DEF OneThreadInv
<1>1. Sending /\ OneWriteAtATime
  BY EmptySeq DEF Exclusive, Sending, OneWriteAtATime
<1>2. inflight' = <<>> /\ Ordered' /\ ~crashed'
  BY <1>1, SentInOrder
<1>3. \A u \in Threads : u = t
  BY DEF SingleThreaded
<1>4. Exclusive'
  BY <1>2, <1>3 DEF Exclusive, OnWriteOk, TypeOK
<1> QED  BY <1>2, <1>4

LEMMA OneThreadNext ==
  ASSUME SingleThreaded
  PROVE  OneThreadInv /\ [Next]_vars => OneThreadInv'
<1> SUFFICES ASSUME OneThreadInv, [Next]_vars PROVE OneThreadInv'
  OBVIOUS
<1> USE DEF OneThreadInv
<1>1. TypeOK' /\ Located'
  BY TypeNext, LocatedNext
<1> SUFFICES Exclusive' /\ Ordered' /\ ~crashed'
  BY <1>1
<1> USE DEF sendVars, appVars
<1>2. CASE UNCHANGED vars
  BY <1>2 DEF vars, Exclusive, Ordered
<1>3. ASSUME NEW t \in Threads, ThreadStep(t)
      PROVE  Exclusive' /\ Ordered' /\ ~crashed'
  <2>0. /\ ~UseStrands
        /\ \A u \in Threads : u = t
    BY DEF UseStrands, SingleThreaded
  <2>1. CASE Run(t)
    BY <2>0, <2>1 DEF Exclusive, Ordered, TypeOK, Run
  <2>2. CASE OnAcceptOk(t)
    BY <2>0, <2>2 DEF Exclusive, Ordered, TypeOK, OnAcceptOk
  <2>3. CASE OnAcceptError(t)
    BY <2>0, <2>3 DEF Exclusive, Ordered, TypeOK, OnAcceptError, ConnectionError, FlagAfterError
  <2>4. CASE OnReadOk(t)
    BY <2>0, <2>4 DEF Exclusive, Ordered, TypeOK, OnReadOk
  <2>5. CASE OnReadError(t)
    BY <2>0, <2>5 DEF Exclusive, Ordered, TypeOK, OnReadError, AfterReadError, ConnectionError, FlagAfterError
  <2>6. CASE OnWriteOk(t)
    BY <2>6, OneThreadSent
  <2>7. CASE OnWriteError(t)
    <3>1. inflight' = <<>>
      <4>1. inflight # <<>> /\ inflight' = Tail(inflight) /\ Len(inflight) = 1
        BY <2>7 DEF OnWriteError, Exclusive
      <4>2. inflight' \in Seq(1..MaxWrites) /\ Len(inflight') = 0
        BY <4>1, HeadTailProperties DEF TypeOK
      <4> QED  BY <4>2, EmptySeq
    <3> QED  BY <2>7, <3>1 DEF OnWriteError, ConnectionError, FlagAfterError, Exclusive, Ordered
  <2>8. CASE RunStrand(t)
    BY <2>8 DEF RunStrand, Exclusive
  <2>9. CASE Broadcast(t)
    <3>1. step[t] = "body" /\ EmplaceBack(t)
      BY <2>9 DEF Broadcast, Located
    <3> QED  BY <3>1, OneThreadEmplace DEF EmplaceBack, WasEmpty, Rank
  <2>10. CASE WriteFromCallback(t)
    <3>1. step[t] = "body" /\ EmplaceBack(t)
      BY <2>10 DEF WriteFromCallback, Located
    <3> QED  BY <3>1, OneThreadEmplace DEF EmplaceBack, WasEmpty, Rank
  <2>11. CASE Register(t)
    BY <2>0, <2>11 DEF Exclusive, Ordered, TypeOK, Register
  <2>12. CASE Disconnect(t)
    BY <2>0, <2>12 DEF Exclusive, Ordered, TypeOK, Disconnect
  <2>13. CASE PostDoWrite(t)
    BY <2>0, <2>13 DEF Exclusive, Ordered, TypeOK, PostDoWrite
  <2>14. CASE DoWrite(t)
    <3>1. queue # <<>> /\ inflight = <<>>
      BY <2>14 DEF DoWrite, Exclusive
    <3>2. inflight' = Append(inflight, Head(queue)) /\ UNCHANGED <<queue, strand, crashed>>
      BY <2>14, <3>1 DEF DoWrite, StartAsyncWrite
    <3>3. Head(queue) \in 1..MaxWrites
      BY <3>1, HeadTailProperties DEF TypeOK
    <3>4. Len(inflight') = 1 /\ Head(inflight') = Head(queue)
      BY <3>1, <3>2, <3>3, AppendProperties DEF TypeOK
    <3> QED  BY <2>0, <2>14, <3>1, <3>2, <3>4 DEF DoWrite, Exclusive, Ordered, TypeOK
  <2>15. CASE CheckEmpty(t)
    BY <2>0, <2>15 DEF Exclusive, Ordered, TypeOK, CheckEmpty, NothingLeft
  <2>16. CASE ConnectionDone(t)
    BY <2>0, <2>16 DEF Exclusive, Ordered, TypeOK, ConnectionDone
  <2>17. CASE MessageDone(t)
    BY <2>0, <2>17 DEF Exclusive, Ordered, TypeOK, MessageDone, AfterMessage
  <2>18. CASE BroadcastDone(t)
    BY <2>0, <2>18 DEF Exclusive, Ordered, TypeOK, BroadcastDone
  <2>19. CASE LossDone(t)
    BY <2>0, <2>19 DEF Exclusive, Ordered, TypeOK, LossDone
  <2> QED
    BY <1>3, <2>1, <2>2, <2>3, <2>4, <2>5, <2>6, <2>7, <2>8, <2>9, <2>10,
       <2>11, <2>12, <2>13, <2>14, <2>15, <2>16, <2>17, <2>18, <2>19
       DEF ThreadStep, InWrite, Finish
<1> QED  BY <1>2, <1>3 DEF Next

\* With one thread, write() and _onWrite never start two writes at once.
THEOREM OneThreadOneWrite ==
  ASSUME SingleThreaded
  PROVE  Spec => []OneWriteAtATime
<1>1. OneThreadInv => OneWriteAtATime
  BY EmptySeq DEF OneThreadInv, Exclusive, OneWriteAtATime
<1>2. OneThreadInv /\ [Next]_vars => OneThreadInv'
  BY OneThreadNext
<1> QED  BY OneThreadInit, <1>1, <1>2, PTL DEF Spec

\* With one thread, no callback ever meets an empty list or a dead session.
THEOREM OneThreadDefined ==
  ASSUME SingleThreaded
  PROVE  Spec => []NothingUndefined
<1>1. OneThreadInv => NothingUndefined
  BY DEF OneThreadInv, NothingUndefined
<1>2. OneThreadInv /\ [Next]_vars => OneThreadInv'
  BY OneThreadNext
<1> QED  BY OneThreadInit, <1>1, <1>2, PTL DEF Spec

\* With one thread the session implements the ordered channel: messages go
\* out in the order of the calls to write(), each once.
THEOREM OneThreadSendsInOrder ==
  ASSUME SingleThreaded
  PROVE  Spec => SendsInOrder
BY OneThreadOneWrite, OnlyOverlapReorders, PTL

-----------------------------------------------------------------------------
(* One thread: one loss for each direction *)

\* Nothing reads any more, and nothing will.
ReaderEnded ==
  /\ reading = "none"
  /\ \A t \in Threads : handler[t] \notin {"onConnection", "onMessage"}

\* Messages wait, no write is in progress and none is about to start: the
\* queue is never empty again, so write() will not start one either.
WriterEnded ==
  /\ queue # <<>>
  /\ inflight = <<>>
  /\ \A t \in Threads : step[t] = "body"

\* Every loss that was reported ended one direction for good.
LossesEnd ==
  \/ losses = 0
  \/ losses = 1 /\ (ReaderEnded \/ WriterEnded)
  \/ losses = 2 /\ ReaderEnded /\ WriterEnded

LossInv == OneThreadInv /\ LossesEnd

\* A direction that ended stays so.
LEMMA EndedForGood ==
  ASSUME SingleThreaded, OneThreadInv, [Next]_vars
  PROVE  (ReaderEnded => ReaderEnded') /\ (WriterEnded => WriterEnded')
<1> USE DEF sendVars, appVars
<1>0. strand = <<>> /\ ~UseStrands
  BY DEF OneThreadInv, Exclusive, UseStrands
<1>1. CASE UNCHANGED vars
  BY <1>1 DEF vars, ReaderEnded, WriterEnded
<1>2. ASSUME NEW t \in Threads, ThreadStep(t)
      PROVE  (ReaderEnded => ReaderEnded') /\ (WriterEnded => WriterEnded')
  <2>0. /\ handler \in [Threads -> Handlers]
        /\ step \in [Threads -> Steps]
        /\ queue \in Seq(1..MaxWrites)
    BY DEF OneThreadInv, TypeOK
  <2> USE DEF ReaderEnded, WriterEnded
  <2>1. CASE Run(t) \/ OnAcceptOk(t) \/ OnReadOk(t)
    BY <1>0, <2>0, <2>1 DEF Run, OnAcceptOk, OnReadOk
  <2>2. CASE OnAcceptError(t) \/ OnReadError(t)
    BY <2>0, <2>2 DEF OnAcceptError, OnReadError, AfterReadError, ConnectionError, FlagAfterError
  <2>3. CASE OnWriteOk(t)
    BY <2>0, <2>3 DEF OnWriteOk
  <2>4. CASE OnWriteError(t)
    BY <2>0, <2>4 DEF OnWriteError, ConnectionError, FlagAfterError
  <2>5. CASE RunStrand(t)
    BY <1>0, <2>5 DEF RunStrand
  <2>6. ASSUME Broadcast(t) \/ WriteFromCallback(t)
        PROVE  (ReaderEnded => ReaderEnded') /\ (WriterEnded => WriterEnded')
    <3>1. EmplaceBack(t) /\ (handler' = handler \/ handler' = [handler EXCEPT ![t] = "broadcast"])
      BY <2>6 DEF Broadcast, WriteFromCallback
    <3>2. UNCHANGED <<reading, inflight>>
      BY <3>1 DEF EmplaceBack
    <3>3. ReaderEnded => ReaderEnded'
      BY <2>0, <3>1, <3>2
    <3>4. ASSUME WriterEnded PROVE WriterEnded'
      <4>1. Rank \in 1..MaxWrites
        BY <3>1, WritesAssumption DEF EmplaceBack, Rank, OneThreadInv, TypeOK
      <4>2. queue' # <<>>
        BY <2>0, <3>1, <4>1, AppendProperties DEF EmplaceBack
      <4>3. step' = [step EXCEPT ![t] = "body"]
        BY <3>1, <3>4 DEF EmplaceBack, WasEmpty
      <4> QED
        BY <2>0, <3>2, <3>4, <4>2, <4>3
    <3> QED
      BY <3>3, <3>4
  <2>7. CASE Register(t) \/ Disconnect(t)
    BY <2>7 DEF Register, Disconnect
  <2>8. CASE PostDoWrite(t) \/ DoWrite(t) \/ CheckEmpty(t)
    BY <2>0, <2>8 DEF PostDoWrite, DoWrite, CheckEmpty, NothingLeft
  <2>9. CASE Finish(t)
    BY <1>0, <2>0, <2>9
       DEF Finish, ConnectionDone, MessageDone, AfterMessage, BroadcastDone, LossDone
  <2> QED
    BY <1>2, <2>1, <2>2, <2>3, <2>4, <2>5, <2>6, <2>7, <2>8, <2>9 DEF ThreadStep, InWrite
<1> QED
  BY <1>1, <1>2 DEF Next

\* A step that reports a loss ends a direction that had not ended.
LEMMA LossEnds ==
  ASSUME SingleThreaded, OneThreadInv, [Next]_vars, losses' # losses
  PROVE  /\ losses' = losses + 1
         /\ \/ ~ReaderEnded /\ ReaderEnded'
            \/ ~WriterEnded /\ WriterEnded'
<1> USE DEF sendVars, appVars
<1>1. PICK t \in Threads : ThreadStep(t)
  BY DEF Next, vars
<1>2. OnAcceptError(t) \/ OnReadError(t) \/ OnWriteError(t)
  BY <1>1 DEF ThreadStep, Run, OnAcceptOk, OnReadOk, RunStrand, Register, Disconnect,
     InWrite, PostDoWrite, DoWrite, CheckEmpty, NothingLeft, Finish, ConnectionDone, MessageDone,
     AfterMessage, BroadcastDone, LossDone, Broadcast, WriteFromCallback, EmplaceBack, OnWriteOk
<1>3. /\ losses' = losses + 1
      /\ handler' = [handler EXCEPT ![t] = "lost"]
      /\ step' = step
  BY <1>2 DEF OnAcceptError, OnReadError, OnWriteError, ConnectionError, FlagAfterError
<1>4. /\ handler \in [Threads -> Handlers]
      /\ \A u \in Threads : u = t
  BY DEF OneThreadInv, TypeOK, SingleThreaded
<1>5. CASE OnAcceptError(t) \/ OnReadError(t)
  <2>1. reading # "none" /\ reading' = "none"
    BY <1>5 DEF OnAcceptError, OnReadError, AfterReadError
  <2> QED
    BY <1>3, <1>4, <2>1 DEF ReaderEnded
<1>6. CASE OnWriteError(t)
  <2>1. inflight # <<>> /\ inflight' = Tail(inflight) /\ queue' = queue
    BY <1>6 DEF OnWriteError
  <2>2. Len(inflight) = 1 /\ queue # <<>> /\ \A u \in Threads : step[u] = "body"
    BY <2>1 DEF OneThreadInv, Exclusive
  <2>3. inflight' \in Seq(1..MaxWrites) /\ Len(inflight') = 0
    BY <2>1, <2>2, HeadTailProperties DEF OneThreadInv, TypeOK
  <2>4. inflight' = <<>>
    BY <2>3, EmptySeq
  <2> QED
    BY <1>3, <2>1, <2>2, <2>4 DEF WriterEnded
<1> QED
  BY <1>2, <1>3, <1>5, <1>6

LEMMA LossNext ==
  ASSUME SingleThreaded
  PROVE  LossInv /\ [Next]_vars => LossInv'
<1> SUFFICES ASSUME LossInv, [Next]_vars PROVE LossInv'
  OBVIOUS
<1>1. OneThreadInv /\ OneThreadInv'
  BY OneThreadNext DEF LossInv
<1>2. losses \in Nat
  BY <1>1 DEF OneThreadInv, TypeOK
<1>3. (ReaderEnded => ReaderEnded') /\ (WriterEnded => WriterEnded')
  BY <1>1, EndedForGood
<1>4. CASE losses' = losses
  BY <1>1, <1>3, <1>4 DEF LossInv, LossesEnd
<1>5. CASE losses' # losses
  <2>1. /\ losses' = losses + 1
        /\ \/ ~ReaderEnded /\ ReaderEnded'
           \/ ~WriterEnded /\ WriterEnded'
    BY <1>1, <1>5, LossEnds
  <2> QED
    BY <1>1, <1>2, <1>3, <2>1 DEF LossInv, LossesEnd
<1> QED
  BY <1>4, <1>5

\* With one thread the application is told of a loss twice at most, once by
\* the reader and once by the writer: each report ends its direction.
THEOREM OneThreadLosses ==
  ASSUME SingleThreaded
  PROVE  Spec => []LossPerDirection
<1>1. Init => LossInv
  BY OneThreadInit DEF Init, LossInv, LossesEnd
<1>2. LossInv /\ [Next]_vars => LossInv'
  BY LossNext
<1>3. LossInv => LossPerDirection
  BY DEF LossInv, LossesEnd, LossPerDirection
<1> QED
  BY <1>1, <1>2, <1>3, PTL DEF Spec
=============================================================================
