-------------------------- MODULE WebSocketSession --------------------------
(***************************************************************************)
(* One session of the websocket server: WebSocketSession with its          *)
(* SafeQueue, driven by the threads that run the server's io_context.      *)
(*                                                                         *)
(* A thread takes one completion handler at a time.  Between two accesses  *)
(* to what the threads share (the send queue, the strand, the stream) any  *)
(* other thread may step, so write() and _onWrite() are split there:       *)
(* "doWrite", "post" and "popped" are the points inside them.  Completion  *)
(* handlers are bound with beast::bind_front_handler, which attaches no    *)
(* executor, and the socket comes from the io_context: with several        *)
(* threads they run concurrently even when the strand is in use.           *)
(*                                                                         *)
(* A message is its rank: the k-th emplaceBack() queues message k.         *)
(***************************************************************************)
EXTENDS Naturals, Sequences

CONSTANTS
  Threads,         \* the threads in io_context::run()
  RequestStrands,  \* the useStrands argument of the server
  MaxWrites        \* bound of the model: calls to write()

ASSUME ThreadsAssumption == Threads # {}
ASSUME StrandsAssumption == RequestStrands \in BOOLEAN
ASSUME WritesAssumption == MaxWrites \in Nat

SingleThreaded == \A t, u \in Threads : t = u

\* WebSocketServer::start: the strand only counts with two threads or more.
UseStrands == ~SingleThreaded /\ RequestStrands

VARIABLES
  queue,        \* _sendBufferSafeQueue
  inflight,     \* async_write operations on the stream, oldest first
  strand,       \* closures of this session posted to the shared strand
  reading,      \* the accept/read operation the session is waiting for
  isConnected,  \* _isConnected
  handler,      \* handler[t]: the callback thread t is in
  step,         \* step[t]: where in it, when inside write() or _onWrite()
  registered,   \* the application holds the session in its list
  closed,       \* the application called disconnect() and it closed _ws
  losses,       \* how many times onDisconnection was called
  accepted,     \* how many messages write() has queued
  written,      \* messages whose async_write completed without error
  terminated,   \* an exception left a callback and run(): the program ended
  crashed       \* the program did something the language leaves undefined

vars == <<queue, inflight, strand, reading, isConnected, handler, step,
          registered, closed, losses, accepted, written, terminated, crashed>>

sendVars == <<queue, inflight, accepted, written>>
appVars == <<registered, closed, losses, terminated>>

Handlers == {"none", "onConnection", "onMessage", "broadcast", "onWrite", "lost"}
Steps == {"body", "post", "doWrite", "popped"}
Closures == {"onRun", "doRead", "doWrite"}

Init ==
  /\ queue = <<>>
  /\ inflight = <<>>
  /\ strand = <<>>
  /\ reading = "new"
  /\ isConnected = TRUE
  /\ handler = [t \in Threads |-> "none"]
  /\ step = [t \in Threads |-> "body"]
  /\ registered = FALSE
  /\ closed = FALSE
  /\ losses = 0
  /\ accepted = 0
  /\ written = <<>>
  /\ terminated = FALSE
  /\ crashed = FALSE

Enter(t, h) == handler' = [handler EXCEPT ![t] = h]
Goto(t, s) == step' = [step EXCEPT ![t] = s]
Idle(t) == handler[t] = "none"
In(t, h) == handler[t] = h /\ step[t] = "body"

\* Someone holds a shared_ptr to the session: an operation or closure bound
\* to it, the application's list, or the frames of one of its callbacks.
HasOwner ==
  \/ reading # "none"
  \/ inflight # <<>>
  \/ \E i \in DOMAIN strand : strand[i] # "doWrite"
  \/ registered
  \/ \E t \in Threads : ~Idle(t)

(***************************************************************************)
(* Opening: the listener's callback creates the session and runs it.       *)
(***************************************************************************)
Run(t) ==
  /\ Idle(t)
  /\ reading = "new"
  /\ IF UseStrands
       THEN /\ strand' = Append(strand, "onRun")
            /\ reading' = "none"
       ELSE /\ reading' = "accept"
            /\ UNCHANGED strand
  /\ UNCHANGED <<isConnected, handler, step, sendVars, appVars, crashed>>

\* Mutant: the flag stays up.
FlagKept == isConnected

FlagAfterError == FALSE

\* _connectionError: the flag is cleared, then onDisconnection is called.
ConnectionError(t) ==
  /\ isConnected' = FlagAfterError
  /\ losses' = losses + 1
  /\ Enter(t, "lost")
  /\ UNCHANGED <<strand, step, registered, closed, terminated, crashed>>

OnAcceptOk(t) ==
  /\ Idle(t)
  /\ reading = "accept"
  /\ reading' = "none"
  /\ Enter(t, "onConnection")
  /\ UNCHANGED <<strand, isConnected, step, appVars, sendVars, crashed>>

OnAcceptError(t) ==
  /\ Idle(t)
  /\ reading = "accept"
  /\ reading' = "none"
  /\ ConnectionError(t)
  /\ UNCHANGED sendVars

\* The rest of _onAccept, once onConnection has returned.
ConnectionDone(t) ==
  /\ In(t, "onConnection")
  /\ Enter(t, "none")
  /\ IF UseStrands
       THEN /\ strand' = Append(strand, "doRead")
            /\ UNCHANGED reading
       ELSE /\ reading' = "read"
            /\ UNCHANGED strand
  /\ UNCHANGED <<isConnected, step, sendVars, appVars, crashed>>

(***************************************************************************)
(* Reading.  A read that had completed when disconnect() closed the stream *)
(* still delivers its message; the stream then has no other.               *)
(***************************************************************************)
OnReadOk(t) ==
  /\ Idle(t)
  /\ reading = "read"
  /\ reading' = "none"
  /\ Enter(t, "onMessage")
  /\ UNCHANGED <<strand, isConnected, step, sendVars, appVars, crashed>>

\* Mutant: a failed read is followed by another one.
ReadsOn == "read"

AfterReadError == "none"

OnReadError(t) ==
  /\ Idle(t)
  /\ reading = "read"
  /\ reading' = AfterReadError
  /\ ConnectionError(t)
  /\ UNCHANGED sendVars

\* Mutant: a session that was disconnected does not read any more.
AfterMessageConnected == IF isConnected THEN "read" ELSE "none"

AfterMessage == "read"

\* The rest of _onRead, once onMessage has returned: _doRead.
MessageDone(t) ==
  /\ In(t, "onMessage")
  /\ reading' = AfterMessage
  /\ Enter(t, "none")
  /\ UNCHANGED <<strand, isConnected, step, sendVars, appVars, crashed>>

(***************************************************************************)
(* Writing.                                                                *)
(***************************************************************************)
\* Mutant: the size emplaceBack returns is not looked at.
WasEmptyAlways == TRUE

\* The size is 1: nothing was queued.
WasEmpty == queue = <<>>

\* Mutant: the ranks start at zero.
RankFromZero == accepted

Rank == accepted + 1

\* emplaceBack under the spin lock; the size it returns decides the rest.
EmplaceBack(t) ==
  /\ accepted < MaxWrites
  /\ accepted' = accepted + 1
  /\ queue' = Append(queue, Rank)
  /\ Goto(t, IF ~WasEmpty THEN "body" ELSE IF UseStrands THEN "post" ELSE "doWrite")
  /\ UNCHANGED <<inflight, strand, reading, isConnected, written, appVars,
                 crashed>>

\* A callback of this session writes to it.
WriteFromCallback(t) ==
  /\ In(t, "onConnection") \/ In(t, "onMessage")
  /\ EmplaceBack(t)
  /\ UNCHANGED handler

\* A callback of another session writes to this one: forEachSession.
Broadcast(t) ==
  /\ Idle(t)
  /\ registered
  /\ Enter(t, "broadcast")
  /\ EmplaceBack(t)

BroadcastDone(t) ==
  /\ In(t, "broadcast")
  /\ Enter(t, "none")
  /\ UNCHANGED <<strand, reading, isConnected, step, sendVars, appVars,
                 crashed>>

PostDoWrite(t) ==
  /\ step[t] = "post"
  /\ strand' = Append(strand, "doWrite")
  /\ Goto(t, "body")
  /\ UNCHANGED <<reading, isConnected, handler, sendVars, appVars, crashed>>

\* _doWrite: peekFront of an empty list is undefined.
StartAsyncWrite ==
  IF queue = <<>>
    THEN crashed' = TRUE /\ UNCHANGED inflight
    ELSE inflight' = Append(inflight, Head(queue)) /\ UNCHANGED crashed

\* _onWrite ends with _doWrite: its thread is free again.
DoWrite(t) ==
  /\ step[t] = "doWrite"
  /\ StartAsyncWrite
  /\ Goto(t, "body")
  /\ Enter(t, IF handler[t] = "onWrite" THEN "none" ELSE handler[t])
  /\ UNCHANGED <<queue, strand, reading, isConnected, accepted, written,
                 appVars>>

\* _onWrite without error, up to popFront; pop_front of an empty list is
\* undefined.
OnWriteOk(t) ==
  /\ Idle(t)
  /\ inflight # <<>>
  /\ inflight' = Tail(inflight)
  /\ written' = Append(written, Head(inflight))
  /\ IF queue = <<>>
       THEN crashed' = TRUE /\ UNCHANGED queue
       ELSE queue' = Tail(queue) /\ UNCHANGED crashed
  /\ Enter(t, "onWrite")
  /\ Goto(t, "popped")
  /\ UNCHANGED <<strand, reading, isConnected, accepted, appVars>>

\* Mutant: what is still queued is not sent.
NothingLeftEver == TRUE

NothingLeft == queue = <<>>

\* The rest of _onWrite: empty() is read without the lock.
CheckEmpty(t) ==
  /\ step[t] = "popped"
  /\ IF NothingLeft
       THEN Goto(t, "body") /\ Enter(t, "none")
       ELSE Goto(t, "doWrite") /\ UNCHANGED handler
  /\ UNCHANGED <<strand, reading, isConnected, sendVars, appVars, crashed>>

\* _onWrite with an error: nothing is popped.
OnWriteError(t) ==
  /\ Idle(t)
  /\ inflight # <<>>
  /\ inflight' = Tail(inflight)
  /\ ConnectionError(t)
  /\ UNCHANGED <<queue, reading, accepted, written>>

(***************************************************************************)
(* The strand runs its closures one at a time, in order.  The closure of   *)
(* write() captures a bare this: run after the session is gone, it is      *)
(* undefined.                                                              *)
(***************************************************************************)
RunStrand(t) ==
  /\ Idle(t)
  /\ strand # <<>>
  /\ strand' = Tail(strand)
  /\ CASE Head(strand) = "onRun" ->
            reading' = "accept" /\ UNCHANGED <<inflight, crashed>>
       [] Head(strand) = "doRead" ->
            reading' = "read" /\ UNCHANGED <<inflight, crashed>>
       [] Head(strand) = "doWrite" ->
            /\ UNCHANGED reading
            /\ IF HasOwner
                 THEN StartAsyncWrite
                 ELSE crashed' = TRUE /\ UNCHANGED inflight
  /\ UNCHANGED <<queue, isConnected, handler, step, accepted, written, appVars>>

(***************************************************************************)
(* The application's side of the callbacks.                                *)
(***************************************************************************)
\* onConnection keeps the session in the application's list.
Register(t) ==
  /\ In(t, "onConnection")
  /\ ~registered
  /\ registered' = TRUE
  /\ UNCHANGED <<strand, reading, isConnected, handler, step, closed,
                 losses, sendVars, terminated, crashed>>

\* onDisconnection drops it; the list's unique lock waits for broadcasts.
LossDone(t) ==
  /\ In(t, "lost")
  /\ \A u \in Threads : handler[u] # "broadcast"
  /\ registered' = FALSE
  /\ Enter(t, "none")
  /\ UNCHANGED <<strand, reading, isConnected, step, closed, losses, sendVars,
                 terminated, crashed>>

\* disconnect(), called in the session's callbacks or, at any time, by whoever
\* was given the session in onConnection.  close() is the overload that waits
\* for the peer's answer and throws: when the peer vanished or the stream has
\* failed.  Out of a callback the exception leaves run() too, which nothing
\* catches: the program ends.  A caller of its own may catch it.
Disconnect(t) ==
  /\ In(t, "onConnection") \/ In(t, "onMessage") \/ registered
  /\ isConnected
  /\ isConnected' = FALSE
  /\ closed' = TRUE
  /\ terminated' \in BOOLEAN
  /\ UNCHANGED <<strand, reading, handler, step, registered, losses, sendVars,
                 crashed>>

Finish(t) == ConnectionDone(t) \/ MessageDone(t) \/ BroadcastDone(t) \/ LossDone(t)

InWrite(t) == PostDoWrite(t) \/ DoWrite(t) \/ CheckEmpty(t)

ThreadStep(t) ==
  \/ Run(t)
  \/ OnAcceptOk(t)
  \/ OnAcceptError(t)
  \/ OnReadOk(t)
  \/ OnReadError(t)
  \/ OnWriteOk(t)
  \/ OnWriteError(t)
  \/ RunStrand(t)
  \/ Broadcast(t)
  \/ WriteFromCallback(t)
  \/ Register(t)
  \/ Disconnect(t)
  \/ InWrite(t)
  \/ Finish(t)

Running == ~crashed /\ ~terminated

Next == Running /\ \E t \in Threads : ThreadStep(t)

\* A callback returns, close() included: its peer answers or goes away.  The
\* timeouts set in _onRun make every asynchronous operation on the stream
\* complete, and the io_context and the strand are first in, first out: what
\* is ready is not passed over forever.
WriteCompletes == \E t \in Threads : OnWriteOk(t) \/ OnWriteError(t)
ReadFails == \E t \in Threads : closed /\ OnReadError(t)

Fairness ==
  /\ \A t \in Threads : WF_vars(Running /\ (InWrite(t) \/ Finish(t)))
  /\ SF_vars(Running /\ WriteCompletes)
  /\ SF_vars(Running /\ ReadFails)
  /\ SF_vars(Running /\ \E t \in Threads : RunStrand(t))

Spec == Init /\ [][Next]_vars

FairSpec == Spec /\ Fairness

-----------------------------------------------------------------------------
(* Properties *)

\* Types of the session's state; no counter needs a bound of its own but
\* the ranks of the messages.
TypeOK ==
  /\ queue \in Seq(1..MaxWrites)
  /\ inflight \in Seq(1..MaxWrites)
  /\ strand \in Seq(Closures)
  /\ reading \in {"new", "none", "accept", "read"}
  /\ isConnected \in BOOLEAN
  /\ handler \in [Threads -> Handlers]
  /\ step \in [Threads -> Steps]
  /\ registered \in BOOLEAN
  /\ closed \in BOOLEAN
  /\ losses \in Nat
  /\ accepted \in 0..MaxWrites
  /\ written \in Seq(1..MaxWrites)
  /\ terminated \in BOOLEAN
  /\ crashed \in BOOLEAN

\* The stream never has two async_write operations at once, which Beast
\* forbids: write() and _onWrite() never both start one.
OneWriteAtATime == Len(inflight) <= 1

\* Neither popFront nor peekFront ever meets an empty list, and no closure
\* meets a destroyed session.
NothingUndefined == ~crashed

\* While messages wait, somebody is about to send the next one, so write()
\* may rely on "the next _onWrite callback will pick it up" (line 69); a
\* session stops sending only once its loss has been reported.
WriterActive ==
  \/ inflight # <<>>
  \/ \E i \in DOMAIN strand : strand[i] = "doWrite"
  \/ \E t \in Threads : step[t] # "body"

NoStall == (queue # <<>>) => (WriterActive \/ losses > 0 \/ crashed)

\* A session nobody owns any more is one whose loss was seen: its
\* destructor finds _isConnected cleared and never runs the blocking close
\* handshake on an io_context thread.
DestructorNeverCloses == ~HasOwner => (losses > 0 /\ ~isConnected)

\* write() in the order of its calls, each message once, and all of them
\* unless the session is lost or a throwing disconnect() ends the program.
Channel == INSTANCE OrderedChannel
  WITH accepted <- accepted, delivered <- written, broken <- losses > 0 \/ terminated

SendsInOrder == Channel!ChanSafety
SendsEverything == Channel!ChanSpec

\* A session the application disconnects is reported lost, by the read that
\* is in progress or by the one that follows the callback, unless close()
\* threw and nobody caught it: then the read at line 154 never starts.
DisconnectIsReported == closed ~> (losses > 0 \/ terminated)

\* The loss of a session is reported at most twice: once by the operation
\* that was reading and once by the one that was writing, never by more.
LossPerDirection == losses <= 2
=============================================================================
