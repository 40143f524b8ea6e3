----------------------- MODULE NativeConnection_proofs -----------------------
(***************************************************************************)
(* Proofs about NativeConnection, for any users, number of attempts and    *)
(* number of messages.                                                     *)
(***************************************************************************)
EXTENDS NativeConnection, SequenceTheorems, TLAPS

OpeningOps == {"resolve", "connect", "handshake"}
Callbacks == {"none", "onOpen", "onMessage", "onError"}
Messages == Seq(1..MaxSends)

TypeOK ==
  /\ isConnected \in BOOLEAN
  /\ buffers \in Messages
  /\ locked \in BOOLEAN
  /\ stopped \in BOOLEAN
  /\ ops \subseteq OpeningOps \cup {"read"}
  /\ inflight \in Messages
  /\ slot \in BOOLEAN
  /\ running \in BOOLEAN
  /\ callback \in Callbacks
  /\ pc \in [Users -> {"idle", "execute", "resolve", "send"}]
  /\ held \in BOOLEAN
  /\ destroyedBy \in {"nobody", "user", "worker"}
  /\ terminated \in BOOLEAN
  /\ attempts \in Nat
  /\ answered \in Nat
  /\ errors \in Nat
  /\ gone \in BOOLEAN
  /\ accepted \in 0..MaxSends
  /\ written \in Messages

\* An attempt that was not answered has one operation that opens the
\* connection, and connect() begins another only when there is none.
OneAttempt ==
  /\ pc[Main] \in {"execute", "resolve"} => attempts = answered
  /\ attempts = answered => ops \cap OpeningOps = {}
  /\ attempts # answered =>
       attempts = answered + 1 /\ \E op \in OpeningOps : ops \cap OpeningOps = {op}

\* An answer means that the io_context has run; it is then stopped before
\* the worker is free for the next attempt, which nothing will serve.
OneLife ==
  /\ answered > 0 => running \/ stopped
  /\ answered > 0 /\ (pc[Main] = "resolve" \/ attempts # answered) => stopped

\* While nothing was ever connected nobody sends; a connection that is gone
\* does not come back.
OneConnection ==
  /\ gone \/ isConnected => answered > 0
  /\ isConnected => ~gone
  /\ ~isConnected /\ ~gone =>
       /\ accepted = 0 /\ buffers = <<>> /\ inflight = <<>> /\ written = <<>>
       /\ \A u \in Users : pc[u] # "send"

\* An open connection is read, or in the callback that a read follows or
\* that ends it.
Reading == isConnected => "read" \in ops \/ callback \in {"onMessage", "onError"}

\* The write in progress is the oldest message that waits.
Exclusive ==
  inflight # <<>> => /\ Len(inflight) = 1
                     /\ buffers # <<>>
                     /\ Head(inflight) = Head(buffers)

\* While the connection is not lost, what was written and what waits are
\* together what was accepted, in order.
Ordered ==
  ~gone =>
    /\ Len(written) + Len(buffers) = accepted
    /\ \A i \in 1..Len(buffers) : buffers[i] = Len(written) + i

ClientInv ==
  /\ TypeOK /\ OneAttempt /\ OneLife /\ OneConnection
  /\ Reading /\ Exclusive /\ Ordered /\ NoStall /\ DestructorNeverCloses

USE DEF Goto, userVars, iocVars, sendVars, countVars

-----------------------------------------------------------------------------
(* Type correctness *)

LEMMA TypeInit == Init => TypeOK
<1> SUFFICES ASSUME Init PROVE TypeOK
  OBVIOUS
<1>1. <<>> \in Messages
  BY EmptySeq DEF Messages
<1>2. accepted \in 0..MaxSends
  BY BoundsAssumption DEF Init
<1> QED  BY <1>1, <1>2 DEF Init, TypeOK, Callbacks

\* The new message is the last of those that wait, and in progress when it
\* is the only one.
LEMMA Pushed ==
  ASSUME TypeOK, PushBack
  PROVE  /\ accepted' = accepted + 1 /\ accepted' \in 0..MaxSends
         /\ written' = written
         /\ buffers' \in Messages /\ buffers' # <<>>
         /\ Len(buffers') = Len(buffers) + 1
         /\ \A i \in 1..Len(buffers) : buffers'[i] = buffers[i]
         /\ buffers'[Len(buffers) + 1] = accepted + 1
         /\ inflight' \in Messages
         /\ buffers = <<>> => inflight' = Append(inflight, Head(buffers'))
         /\ buffers # <<>> => inflight' = inflight
<1> USE DEF Messages
<1>1. accepted + 1 \in 1..MaxSends
  BY BoundsAssumption DEF TypeOK, PushBack
<1>2. /\ buffers' \in Messages /\ buffers' # <<>>
      /\ Len(buffers') = Len(buffers) + 1
      /\ \A i \in 1..Len(buffers) : buffers'[i] = buffers[i]
      /\ buffers'[Len(buffers) + 1] = accepted + 1
  BY <1>1, AppendProperties DEF TypeOK, PushBack
<1>3. Head(buffers') \in 1..MaxSends
  BY <1>2, HeadTailProperties
<1>4. inflight' \in Messages
  BY <1>3, AppendProperties DEF TypeOK, PushBack, WasEmpty
<1> QED  BY <1>1, <1>2, <1>4, BoundsAssumption DEF PushBack, WasEmpty

\* A completed write leaves the list it headed, and is followed by the next.
LEMMA Popped ==
  ASSUME TypeOK, OnWriteOk
  PROVE  /\ written' \in Messages
         /\ written' = Append(written, Head(inflight))
         /\ buffers' \in Messages
         /\ inflight' \in Messages
         /\ buffers # <<>> =>
              /\ buffers' = Tail(buffers)
              /\ inflight' = Tail(inflight) \o NextWrite(Tail(buffers))
<1> USE DEF Messages
<1>1. /\ Head(inflight) \in 1..MaxSends
      /\ Tail(inflight) \in Messages
  BY HeadTailProperties DEF TypeOK, OnWriteOk
<1>2. written' \in Messages /\ written' = Append(written, Head(inflight))
  BY <1>1, AppendProperties DEF TypeOK, OnWriteOk
<1>3. CASE buffers = <<>>
  BY <1>1, <1>2, <1>3 DEF TypeOK, OnWriteOk
<1>4. CASE buffers # <<>>
  <2>1. Tail(buffers) \in Messages
    BY <1>4, HeadTailProperties DEF TypeOK
  <2>2. NextWrite(Tail(buffers)) \in Messages
    <3>1. CASE Tail(buffers) = <<>>
      BY <3>1, EmptySeq DEF NextWrite
    <3>2. CASE Tail(buffers) # <<>>
      <4>1. Head(Tail(buffers)) \in 1..MaxSends
        BY <2>1, <3>2, HeadTailProperties
      <4> QED  BY <3>2, <4>1 DEF NextWrite
    <3> QED  BY <3>1, <3>2
  <2>3. Tail(inflight) \o NextWrite(Tail(buffers)) \in Messages
    BY <1>1, <2>2, ConcatProperties
  <2> QED  BY <1>2, <1>4, <2>1, <2>3 DEF OnWriteOk
<1> QED  BY <1>3, <1>4

LEMMA TypeNext == TypeOK /\ [LiveNext]_vars => TypeOK'
<1> SUFFICES ASSUME TypeOK, [LiveNext]_vars PROVE TypeOK'
  OBVIOUS
<1> USE MainAssumption DEF TypeOK, OpeningOps, Callbacks
<1>1. CASE UNCHANGED vars
  BY <1>1 DEF vars
<1>2. CASE Connect
  BY <1>2 DEF Connect
<1>3. CASE Execute
  BY <1>3 DEF Execute
<1>4. CASE AsyncResolve
  BY <1>4 DEF AsyncResolve
<1>5. CASE Disconnect
  BY <1>5 DEF Disconnect
<1>6. CASE Drop
  BY <1>6 DEF Drop
<1>7. CASE TakeTask
  BY <1>7 DEF TakeTask
<1>8. CASE RunReturns
  BY <1>8 DEF RunReturns
<1>9. CASE OnResolve
  BY <1>9 DEF OnResolve, OpeningGoesOn
<1>10. CASE OnConnect
  BY <1>10 DEF OnConnect, OpeningGoesOn
<1>11. CASE OnHandshake
  BY <1>11 DEF OnHandshake
<1>12. CASE OpeningFails
  BY <1>12 DEF OpeningFails, Failed
<1>13. CASE OnRead
  BY <1>13 DEF OnRead, Failed, Release
<1>14. CASE CallbackDone
  BY <1>14 DEF CallbackDone, ReadsOn, LockReleased, Release
<1>15. ASSUME NEW u \in Users, SendCheck(u) PROVE TypeOK'
  BY <1>15 DEF SendCheck
<1>16. ASSUME NEW u \in Users, SendPush(u) PROVE TypeOK'
  BY <1>16, Pushed DEF SendPush
<1>17. ASSUME NEW u \in Users, SendGivesUp(u) PROVE TypeOK'
  BY <1>17 DEF SendGivesUp
<1>18. CASE SendFromCallback
  BY <1>18, Pushed DEF SendFromCallback
<1>19. CASE OnWriteOk
  BY <1>19, Popped DEF OnWriteOk, Release
<1>20. CASE OnWriteError
  BY <1>20, HeadTailProperties DEF OnWriteError, Failed, Messages
<1>21. CASE OnWriteGone
  BY <1>21, HeadTailProperties, EmptySeq DEF OnWriteGone, Release, Messages
<1> QED
  BY <1>1, <1>2, <1>3, <1>4, <1>5, <1>6, <1>7, <1>8, <1>9, <1>10, <1>11, <1>12,
     <1>13, <1>14, <1>15, <1>16, <1>17, <1>18, <1>19, <1>20, <1>21
     DEF LiveNext, Next, Opening, OnWrite
-----------------------------------------------------------------------------
(* One attempt, one run of the io_context, one connection *)

LEMMA OneAttemptNext == TypeOK /\ OneAttempt /\ [LiveNext]_vars => OneAttempt'
<1> SUFFICES ASSUME TypeOK, OneAttempt, [LiveNext]_vars PROVE OneAttempt'
  OBVIOUS
<1> USE MainAssumption DEF TypeOK, OneAttempt, OpeningOps
<1>1. CASE UNCHANGED vars
  BY <1>1 DEF vars
<1>2. CASE Connect
  BY <1>2 DEF Connect
<1>3. CASE Execute
  BY <1>3 DEF Execute
<1>4. CASE AsyncResolve
  BY <1>4 DEF AsyncResolve
<1>5. CASE Disconnect
  BY <1>5 DEF Disconnect
<1>6. CASE Drop
  BY <1>6 DEF Drop
<1>7. CASE TakeTask
  BY <1>7 DEF TakeTask
<1>8. CASE RunReturns
  BY <1>8 DEF RunReturns
<1>9. CASE OnResolve
  BY <1>9 DEF OnResolve, OpeningGoesOn, Serving
<1>10. CASE OnConnect
  BY <1>10 DEF OnConnect, OpeningGoesOn, Serving
<1>11. CASE OnHandshake
  BY <1>11 DEF OnHandshake, Serving
<1>12. CASE OpeningFails
  BY <1>12 DEF OpeningFails, Failed, Serving
<1>13. CASE OnRead
  BY <1>13 DEF OnRead, Failed, Reports, Serving, Release
<1>14. CASE CallbackDone
  BY <1>14 DEF CallbackDone, ReadsOn, Release
<1>15. ASSUME NEW u \in Users, SendCheck(u) PROVE OneAttempt'
  BY <1>15 DEF SendCheck
<1>16. ASSUME NEW u \in Users, SendPush(u) PROVE OneAttempt'
  BY <1>16 DEF SendPush, PushBack
<1>17. ASSUME NEW u \in Users, SendGivesUp(u) PROVE OneAttempt'
  BY <1>17 DEF SendGivesUp
<1>18. CASE SendFromCallback
  BY <1>18 DEF SendFromCallback, PushBack
<1>19. CASE OnWriteOk
  BY <1>19 DEF OnWriteOk, Serving, Release
<1>20. CASE OnWriteError
  BY <1>20 DEF OnWriteError, Failed, Serving
<1>21. CASE OnWriteGone
  BY <1>21 DEF OnWriteGone, Serving, Release
<1> QED
  BY <1>1, <1>2, <1>3, <1>4, <1>5, <1>6, <1>7, <1>8, <1>9, <1>10, <1>11, <1>12,
     <1>13, <1>14, <1>15, <1>16, <1>17, <1>18, <1>19, <1>20, <1>21
     DEF LiveNext, Next, Opening, OnWrite

LEMMA OneLifeNext == TypeOK /\ OneAttempt /\ OneLife /\ [LiveNext]_vars => OneLife'
<1> SUFFICES ASSUME TypeOK, OneAttempt, OneLife, [LiveNext]_vars PROVE OneLife'
  OBVIOUS
<1> USE MainAssumption DEF TypeOK, OneAttempt, OneLife, OpeningOps
<1>1. CASE UNCHANGED vars
  BY <1>1 DEF vars
<1>2. CASE Connect
  BY <1>2 DEF Connect
<1>3. CASE Execute
  BY <1>3 DEF Execute
<1>4. CASE AsyncResolve
  BY <1>4 DEF AsyncResolve
<1>5. CASE Disconnect
  BY <1>5 DEF Disconnect
<1>6. CASE Drop
  BY <1>6 DEF Drop
<1>7. CASE TakeTask
  BY <1>7 DEF TakeTask
<1>8. CASE RunReturns
  BY <1>8 DEF RunReturns
<1>9. CASE OnResolve
  BY <1>9 DEF OnResolve, OpeningGoesOn, Serving
<1>10. CASE OnConnect
  BY <1>10 DEF OnConnect, OpeningGoesOn, Serving
<1>11. CASE OnHandshake
  BY <1>11 DEF OnHandshake, Serving
<1>12. CASE OpeningFails
  BY <1>12 DEF OpeningFails, Failed, Serving
<1>13. CASE OnRead
  BY <1>13 DEF OnRead, Failed, Reports, Serving, Release
<1>14. CASE CallbackDone
  BY <1>14 DEF CallbackDone, ReadsOn, Release
<1>15. ASSUME NEW u \in Users, SendCheck(u) PROVE OneLife'
  BY <1>15 DEF SendCheck
<1>16. ASSUME NEW u \in Users, SendPush(u) PROVE OneLife'
  BY <1>16 DEF SendPush, PushBack
<1>17. ASSUME NEW u \in Users, SendGivesUp(u) PROVE OneLife'
  BY <1>17 DEF SendGivesUp
<1>18. CASE SendFromCallback
  BY <1>18 DEF SendFromCallback, PushBack
<1>19. CASE OnWriteOk
  BY <1>19 DEF OnWriteOk, Serving, Release
<1>20. CASE OnWriteError
  BY <1>20 DEF OnWriteError, Failed, Serving
<1>21. CASE OnWriteGone
  BY <1>21 DEF OnWriteGone, Serving, Release
<1> QED
  BY <1>1, <1>2, <1>3, <1>4, <1>5, <1>6, <1>7, <1>8, <1>9, <1>10, <1>11, <1>12,
     <1>13, <1>14, <1>15, <1>16, <1>17, <1>18, <1>19, <1>20, <1>21
     DEF LiveNext, Next, Opening, OnWrite

LEMMA OneConnectionNext == ClientInv /\ [LiveNext]_vars => OneConnection'
<1> SUFFICES ASSUME ClientInv, [LiveNext]_vars PROVE OneConnection'
  OBVIOUS
<1> USE MainAssumption DEF ClientInv, TypeOK, OneAttempt, OneLife, OneConnection, OpeningOps
<1>1. CASE UNCHANGED vars
  BY <1>1 DEF vars
<1>2. CASE Connect
  BY <1>2 DEF Connect
<1>3. CASE Execute
  BY <1>3 DEF Execute
<1>4. CASE AsyncResolve
  BY <1>4 DEF AsyncResolve
<1>5. CASE Disconnect
  BY <1>5 DEF Disconnect
<1>6. CASE Drop
  BY <1>6 DEF Drop
<1>7. CASE TakeTask
  BY <1>7 DEF TakeTask
<1>8. CASE RunReturns
  BY <1>8 DEF RunReturns
<1>9. CASE OnResolve
  BY <1>9 DEF OnResolve, OpeningGoesOn, Serving
<1>10. CASE OnConnect
  BY <1>10 DEF OnConnect, OpeningGoesOn, Serving
<1>11. CASE OnHandshake
  BY <1>11 DEF OnHandshake, Serving
<1>12. CASE OpeningFails
  BY <1>12 DEF OpeningFails, Failed, Serving
<1>13. CASE OnRead
  BY <1>13 DEF OnRead, Failed, Reports, Serving, Release
<1>14. CASE CallbackDone
  BY <1>14 DEF CallbackDone, ReadsOn, Release
<1>15. ASSUME NEW u \in Users, SendCheck(u) PROVE OneConnection'
  BY <1>15 DEF SendCheck
<1>16. ASSUME NEW u \in Users, SendPush(u) PROVE OneConnection'
  BY <1>16 DEF SendPush, PushBack
<1>17. ASSUME NEW u \in Users, SendGivesUp(u) PROVE OneConnection'
  BY <1>17 DEF SendGivesUp
<1>18. CASE SendFromCallback
  BY <1>18 DEF SendFromCallback, PushBack
<1>19. CASE OnWriteOk
  BY <1>19 DEF OnWriteOk, Serving, Release
<1>20. CASE OnWriteError
  BY <1>20 DEF OnWriteError, Failed, Serving
<1>21. CASE OnWriteGone
  BY <1>21 DEF OnWriteGone, Serving, Release
<1> QED
  BY <1>1, <1>2, <1>3, <1>4, <1>5, <1>6, <1>7, <1>8, <1>9, <1>10, <1>11, <1>12,
     <1>13, <1>14, <1>15, <1>16, <1>17, <1>18, <1>19, <1>20, <1>21
     DEF LiveNext, Next, Opening, OnWrite

LEMMA ReadingNext == ClientInv /\ [LiveNext]_vars => Reading' /\ DestructorNeverCloses'
<1> SUFFICES ASSUME ClientInv, [LiveNext]_vars PROVE Reading' /\ DestructorNeverCloses'
  OBVIOUS
<1> USE DEF ClientInv, TypeOK, OneConnection, Reading, DestructorNeverCloses, Callbacks
<1>1. CASE UNCHANGED vars
  BY <1>1 DEF vars
<1>2. CASE Connect
  BY <1>2 DEF Connect
<1>3. CASE Execute
  BY <1>3 DEF Execute
<1>4. CASE AsyncResolve
  BY <1>4 DEF AsyncResolve
<1>5. CASE Disconnect
  BY <1>5 DEF Disconnect
<1>6. CASE Drop
  BY <1>6 DEF Drop
<1>7. CASE TakeTask
  BY <1>7 DEF TakeTask
<1>8. CASE RunReturns
  BY <1>8 DEF RunReturns
<1>9. CASE OnResolve
  BY <1>9 DEF OnResolve, OpeningGoesOn, Serving
<1>10. CASE OnConnect
  BY <1>10 DEF OnConnect, OpeningGoesOn, Serving
<1>11. CASE OnHandshake
  <2>1. destroyedBy = "nobody"
    BY <1>11 DEF LiveNext, Alive, vars, OnHandshake
  <2> QED  BY <1>11, <2>1 DEF OnHandshake, Serving
<1>12. CASE OpeningFails
  BY <1>12 DEF OpeningFails, Failed, Serving
<1>13. CASE OnRead
  BY <1>13 DEF OnRead, Failed, Reports, Serving, Release
<1>14. CASE CallbackDone
  BY <1>14 DEF CallbackDone, ReadsOn, Release
<1>15. ASSUME NEW u \in Users, SendCheck(u) PROVE Reading' /\ DestructorNeverCloses'
  BY <1>15 DEF SendCheck
<1>16. ASSUME NEW u \in Users, SendPush(u) PROVE Reading' /\ DestructorNeverCloses'
  BY <1>16 DEF SendPush, PushBack
<1>17. ASSUME NEW u \in Users, SendGivesUp(u) PROVE Reading' /\ DestructorNeverCloses'
  BY <1>17 DEF SendGivesUp
<1>18. CASE SendFromCallback
  BY <1>18 DEF SendFromCallback, PushBack
<1>19. CASE OnWriteOk
  BY <1>19 DEF OnWriteOk, Serving, Release
<1>20. CASE OnWriteError
  BY <1>20 DEF OnWriteError, Failed, Serving
<1>21. CASE OnWriteGone
  BY <1>21 DEF OnWriteGone, Serving, Release
<1> QED
  BY <1>1, <1>2, <1>3, <1>4, <1>5, <1>6, <1>7, <1>8, <1>9, <1>10, <1>11, <1>12,
     <1>13, <1>14, <1>15, <1>16, <1>17, <1>18, <1>19, <1>20, <1>21
     DEF LiveNext, Next, Opening, OnWrite

-----------------------------------------------------------------------------
(* One write at a time, in order *)

\* Emptiness and length, for the lists and the stream.
LEMMA Lengths ==
  ASSUME TypeOK
  PROVE  /\ Len(buffers) \in Nat /\ Len(inflight) \in Nat /\ Len(written) \in Nat
         /\ buffers # <<>> <=> Len(buffers) > 0
         /\ inflight # <<>> <=> Len(inflight) > 0
         /\ buffers # <<>> => Head(buffers) = buffers[1]
BY LenProperties, EmptySeq DEF TypeOK, Messages

\* A push keeps the order, and starts a write only when none is in progress.
LEMMA PushedInOrder ==
  ASSUME ClientInv, PushBack, UNCHANGED <<gone, isConnected, callback>>
  PROVE  Exclusive' /\ Ordered' /\ NoStall'
<1> USE DEF ClientInv
<1>1. /\ Len(buffers) \in Nat /\ Len(inflight) \in Nat /\ Len(written) \in Nat
      /\ buffers # <<>> => Len(buffers) > 0
  BY Lengths
<1>2. /\ accepted' = accepted + 1 /\ written' = written
      /\ Len(buffers') = Len(buffers) + 1
      /\ \A i \in 1..Len(buffers) : buffers'[i] = buffers[i]
      /\ buffers'[Len(buffers) + 1] = accepted + 1
  BY Pushed
<1>3. Ordered'
  BY <1>1, <1>2 DEF Ordered, TypeOK
<1>4. CASE buffers = <<>>
  <2>1. inflight = <<>>
    BY <1>4 DEF Exclusive
  <2>2. /\ inflight' = Append(inflight, Head(buffers'))
        /\ buffers' # <<>> /\ buffers' \in Messages
    BY <1>4, Pushed
  <2>3. Len(inflight') = 1 /\ Head(inflight') = Head(buffers') /\ inflight' # <<>>
    BY <2>1, <2>2
  <2> QED  BY <1>3, <2>2, <2>3 DEF Exclusive, NoStall
<1>5. CASE buffers # <<>>
  <2>1. inflight' = inflight /\ buffers' # <<>> /\ buffers' \in Messages
    BY <1>5, Pushed
  <2>2. Head(buffers') = Head(buffers)
    BY <1>1, <1>2, <1>5, <2>1, Lengths DEF Messages
  <2> QED  BY <1>3, <1>5, <2>1, <2>2 DEF Exclusive, NoStall
<1> QED  BY <1>4, <1>5

\* What completes is the oldest message, and the one after it follows.
LEMMA PoppedInOrder ==
  ASSUME ClientInv, OnWriteOk
  PROVE  /\ written' = Append(written, Len(written) + 1)
         /\ Len(written) < accepted
         /\ Exclusive' /\ Ordered' /\ NoStall'
<1> USE DEF ClientInv
<1>1. /\ Len(buffers) \in Nat /\ Len(inflight) \in Nat /\ Len(written) \in Nat
      /\ buffers # <<>> => Len(buffers) > 0 /\ Head(buffers) = buffers[1]
  BY Lengths
<1>2. /\ inflight # <<>> /\ Len(inflight) = 1
      /\ buffers # <<>> /\ Head(inflight) = Head(buffers)
      /\ ~gone /\ gone' = gone /\ accepted' = accepted
  BY DEF OnWriteOk, Exclusive, OneConnection
<1>3. /\ Head(inflight) = Len(written) + 1
      /\ Len(written) < accepted
  BY <1>1, <1>2 DEF Ordered
<1>4. /\ written' = Append(written, Head(inflight)) /\ written' \in Messages
      /\ buffers' = Tail(buffers) /\ buffers' \in Messages
      /\ inflight' = Tail(inflight) \o NextWrite(buffers')
  BY <1>2, Popped
<1>5. /\ Len(buffers') = Len(buffers) - 1
      /\ \A i \in 1..Len(buffers') : buffers'[i] = buffers[i + 1]
  BY <1>2, <1>4, HeadTailProperties DEF TypeOK, Messages
<1>6. Len(written') = Len(written) + 1
  BY <1>2, <1>4, HeadTailProperties, AppendProperties DEF TypeOK, Messages
<1>7. Ordered'
  BY <1>1, <1>2, <1>5, <1>6 DEF Ordered
<1>8. inflight' = NextWrite(buffers')
  <2>1. Tail(inflight) \in Messages /\ Len(Tail(inflight)) = 0
    BY <1>2, HeadTailProperties DEF TypeOK, Messages
  <2>2. Tail(inflight) = <<>>
    BY <2>1, EmptySeq DEF Messages
  <2>3. NextWrite(buffers') \in Messages
    <3>1. CASE buffers' = <<>>
      BY <3>1, EmptySeq DEF NextWrite, Messages
    <3>2. CASE buffers' # <<>>
      <4>1. Head(buffers') \in 1..MaxSends
        BY <1>4, <3>2, HeadTailProperties DEF Messages
      <4> QED  BY <3>2, <4>1 DEF NextWrite, Messages
    <3> QED  BY <3>1, <3>2
  <2> QED  BY <1>4, <2>2, <2>3, ConcatEmptySeq DEF Messages
<1>9. Exclusive' /\ (buffers' # <<>> => inflight' # <<>>)
  BY <1>8 DEF NextWrite, Exclusive
<1> QED  BY <1>3, <1>4, <1>7, <1>9 DEF NoStall

\* The stream is free after the only operation on it has ended.
LEMMA Freed ==
  ASSUME ClientInv, inflight # <<>>, inflight' = Tail(inflight)
  PROVE  inflight' = <<>>
<1>1. Len(inflight) = 1 /\ inflight \in Messages
  BY DEF ClientInv, TypeOK, Exclusive
<1>2. inflight' \in Messages /\ Len(inflight') = 0
  BY <1>1, HeadTailProperties DEF Messages
<1> QED  BY <1>2, EmptySeq DEF Messages

LEMMA QueueNext == ClientInv /\ [LiveNext]_vars => Exclusive' /\ Ordered' /\ NoStall'
<1> SUFFICES ASSUME ClientInv, [LiveNext]_vars PROVE Exclusive' /\ Ordered' /\ NoStall'
  OBVIOUS
<1> USE DEF ClientInv, TypeOK, OneConnection, Exclusive, Ordered, NoStall, Callbacks
<1>1. CASE UNCHANGED vars
  BY <1>1 DEF vars
<1>2. CASE Connect
  BY <1>2 DEF Connect
<1>3. CASE Execute
  BY <1>3 DEF Execute
<1>4. CASE AsyncResolve
  BY <1>4 DEF AsyncResolve
<1>5. CASE Disconnect
  BY <1>5 DEF Disconnect
<1>6. CASE Drop
  BY <1>6 DEF Drop
<1>7. CASE TakeTask
  BY <1>7 DEF TakeTask
<1>8. CASE RunReturns
  BY <1>8 DEF RunReturns
<1>9. CASE OnResolve
  BY <1>9 DEF OnResolve, OpeningGoesOn, Serving
<1>10. CASE OnConnect
  BY <1>10 DEF OnConnect, OpeningGoesOn, Serving
<1>11. CASE OnHandshake
  <2>1. answered = 0
    BY <1>11 DEF OneLife, OneAttempt, OnHandshake, Serving, OpeningOps
  <2> QED  BY <1>11, <2>1 DEF OnHandshake
<1>12. CASE OpeningFails
  BY <1>12 DEF OpeningFails, Failed, Serving
<1>13. CASE OnRead
  BY <1>13 DEF OnRead, Failed, Reports, Serving, Release
<1>14. CASE CallbackDone
  BY <1>14 DEF CallbackDone, ReadsOn, Release
<1>15. ASSUME NEW u \in Users, SendCheck(u) PROVE Exclusive' /\ Ordered' /\ NoStall'
  BY <1>15 DEF SendCheck
<1>16. ASSUME NEW u \in Users, SendPush(u) PROVE Exclusive' /\ Ordered' /\ NoStall'
  BY <1>16, PushedInOrder DEF SendPush
<1>17. ASSUME NEW u \in Users, SendGivesUp(u) PROVE Exclusive' /\ Ordered' /\ NoStall'
  BY <1>17 DEF SendGivesUp
<1>18. CASE SendFromCallback
  BY <1>18, PushedInOrder DEF SendFromCallback
<1>19. CASE OnWriteOk
  BY <1>19, PoppedInOrder
<1>20. CASE OnWriteError
  BY <1>20, Freed DEF OnWriteError, Failed
<1>21. CASE OnWriteGone
  <2>1. gone
    BY <1>21 DEF OnWriteGone
  <2> QED  BY <1>21, <2>1, Freed DEF OnWriteGone
<1> QED
  BY <1>1, <1>2, <1>3, <1>4, <1>5, <1>6, <1>7, <1>8, <1>9, <1>10, <1>11, <1>12,
     <1>13, <1>14, <1>15, <1>16, <1>17, <1>18, <1>19, <1>20, <1>21
     DEF LiveNext, Next, Opening, OnWrite

-----------------------------------------------------------------------------
(* The theorems *)

LEMMA ClientInit == Init => ClientInv
<1> SUFFICES ASSUME Init PROVE ClientInv
  OBVIOUS
<1>1. TypeOK
  BY TypeInit
<1>2. Ordered
  BY DEF Init, Ordered
<1> QED
  BY <1>1, <1>2, MainAssumption
     DEF Init, ClientInv, OneAttempt, OneLife, OneConnection, Reading, Exclusive,
         NoStall, DestructorNeverCloses, OpeningOps

LEMMA ClientNext == ClientInv /\ [LiveNext]_vars => ClientInv'
BY TypeNext, OneAttemptNext, OneLifeNext, OneConnectionNext, ReadingNext, QueueNext
   DEF ClientInv

LEMMA ClientInvariant == Spec => []ClientInv
BY ClientInit, ClientNext, PTL DEF Spec

\* However many users and callbacks send, no two async_write overlap.
THEOREM OneWrite == Spec => []OneWriteAtATime
<1>1. ClientInv => OneWriteAtATime
  <2> SUFFICES ASSUME ClientInv PROVE Len(inflight) <= 1
    BY DEF OneWriteAtATime
  <2>1. Len(inflight) \in Nat /\ (inflight # <<>> <=> Len(inflight) > 0)
    BY Lengths DEF ClientInv
  <2> QED  BY <2>1 DEF ClientInv, Exclusive
<1> QED  BY ClientInvariant, <1>1, PTL

\* While connected, nothing waits that no write in progress will reach.
THEOREM NeverStalls == Spec => []NoStall
<1>1. ClientInv => NoStall
  BY DEF ClientInv
<1> QED  BY ClientInvariant, <1>1, PTL

\* An open connection is never destroyed, so that the destructor, which may
\* run on the worker, has nothing to close.
THEOREM DestructorIsQuiet == Spec => []DestructorNeverCloses
<1>1. ClientInv => DestructorNeverCloses
  BY DEF ClientInv
<1> QED  BY ClientInvariant, <1>1, PTL

\* A connection that is gone calls nobody: of two operations that both fail
\* only the first is told, and none after disconnect().
THEOREM SilentWhenGone == Spec => NoCallbackWhenGone
<1>1. ASSUME ClientInv, LiveNext, gone, attempts = answered, callback = "none"
      PROVE  callback' = "none"
  <2>1. ~isConnected /\ ops \cap OpeningOps = {}
    BY <1>1 DEF ClientInv, OneConnection, OneAttempt
  <2> QED
    BY <1>1, <2>1
       DEF LiveNext, Next, Opening, OnWrite, Connect, Execute, AsyncResolve, Disconnect,
           Drop, TakeTask, RunReturns, OnResolve, OnConnect, OpeningGoesOn, OnHandshake,
           OpeningFails, OnRead, Reports, CallbackDone, SendCheck, SendPush, SendGivesUp,
           SendFromCallback, OnWriteOk, OnWriteError, OnWriteGone, OpeningOps
<1>2. ClientInv /\ [LiveNext]_vars
        => [gone /\ attempts = answered /\ callback = "none" => callback' = "none"]_vars
  BY <1>1
<1> QED  BY ClientInvariant, <1>2, PTL DEF Spec, NoCallbackWhenGone

\* Each step of the client is one of the ordered channel, or none.
LEMMA ClientStep ==
  ASSUME ClientInv, [LiveNext]_vars
  PROVE  [Channel!ChanNext]_(Channel!chanVars)
<1> USE DEF Channel!ChanNext, Channel!chanVars
<1>1. CASE UNCHANGED vars
  BY <1>1 DEF vars
<1>2. CASE OnWriteOk
  <2>1. /\ written' = Append(written, Len(written) + 1)
        /\ Len(written) < accepted
        /\ UNCHANGED <<accepted, gone>>
    BY <1>2, PoppedInOrder DEF OnWriteOk
  <2> QED  BY <2>1 DEF Channel!Deliver
<1>3. CASE SendFromCallback \/ \E u \in Users : SendPush(u)
  <2>1. accepted' = accepted + 1 /\ UNCHANGED <<written, gone>>
    BY <1>3 DEF SendFromCallback, SendPush, PushBack
  <2> QED  BY <2>1 DEF Channel!Accept
<1>4. CASE \/ Connect \/ Execute \/ AsyncResolve \/ Disconnect \/ Drop \/ TakeTask
           \/ RunReturns \/ Opening \/ OnRead \/ CallbackDone
           \/ \E u \in Users : SendCheck(u) \/ SendGivesUp(u)
           \/ OnWriteError \/ OnWriteGone
  <2>1. UNCHANGED <<accepted, written>> /\ (gone' = gone \/ gone' = TRUE)
    BY <1>4
       DEF Connect, Execute, AsyncResolve, Disconnect, Drop, TakeTask, RunReturns,
           Opening, OnResolve, OnConnect, OpeningGoesOn, OnHandshake, OpeningFails,
           OnRead, CallbackDone, SendCheck, SendGivesUp, OnWriteError, OnWriteGone,
           ClientInv, TypeOK
  <2> QED  BY <2>1 DEF Channel!Break
<1> QED  BY <1>1, <1>2, <1>3, <1>4 DEF LiveNext, Next, OnWrite

\* The client implements the ordered channel: the messages of all users and
\* callbacks go out in the order they were queued, each once.
THEOREM SendsInOrder == Spec => Channel!ChanSafety
<1>1. Init => Channel!ChanInit
  BY DEF Init, Channel!ChanInit
<1>2. ClientInv /\ [LiveNext]_vars => [Channel!ChanNext]_(Channel!chanVars)
  BY ClientStep
<1> QED  BY ClientInvariant, <1>1, <1>2, PTL DEF Spec, Channel!ChanSafety
=============================================================================
