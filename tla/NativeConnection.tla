-------------------------- MODULE NativeConnection --------------------------
(***************************************************************************)
(* The native websocket client: WebSocketConnection, its io_context and    *)
(* the worker thread that runs it.  The worker is used as the one-place    *)
(* slot that WorkerThread is proved to implement; execute() also waits for *)
(* the mutex the worker holds while it runs a task.                        *)
(*                                                                         *)
(* Main calls connect() and drops the object at the end; every user sends. *)
(* Main connects again only after the attempt before was answered and its  *)
(* connection is gone.  Handlers run on the worker, one at a time, between *)
(* callbacks into the application.  Main and every callback may disconnect *)
(* and send, but no callback sends under the spin lock, which onError may  *)
(* run under: that send would spin forever.  No callback calls connect(),  *)
(* which would wait for the mutex its own thread holds.                    *)
(*                                                                         *)
(* A message is its rank: the k-th push_back queues message k.             *)
(***************************************************************************)
EXTENDS Naturals, Sequences

CONSTANTS
  Users,        \* threads that send
  Main,         \* the user that connects and disconnects
  MaxConnects,  \* bound of the model: calls to connect()
  MaxSends      \* bound of the model: messages queued

ASSUME MainAssumption == Main \in Users
ASSUME BoundsAssumption == MaxConnects \in Nat /\ MaxSends \in Nat

VARIABLES
  isConnected,  \* _isConnected
  buffers,      \* _buffersToSend
  locked,       \* the worker holds _atomicLock across a callback
  stopped,      \* _ioc is stopped; nothing calls restart()
  ops,          \* pending operations that open the connection or read
  inflight,     \* async_write operations on the stream, oldest first
  slot,         \* the worker thread's waiting task: run the io_context
  running,      \* the worker is in _ioc.run()
  callback,     \* the application's callback the worker is in
  pc,           \* where each user is in connect() or sendBinary()
  held,         \* the users hold a shared_ptr to the connection
  destroyedBy,  \* the thread that ran the destructor
  terminated,   \* an exception nobody caught ended the program
  attempts,     \* calls to connect() that started to resolve
  answered,     \* attempts whose outcome a callback told
  errors,       \* calls of onError
  gone,         \* an established connection failed or was disconnected
  accepted,     \* messages queued so far
  written       \* messages whose async_write completed without error

userVars == <<pc, held, attempts>>
iocVars == <<stopped, ops, slot, running>>
sendVars == <<buffers, inflight, accepted, written>>
countVars == <<answered, errors, gone>>
vars == <<isConnected, locked, iocVars, userVars, sendVars, countVars,
          callback, destroyedBy, terminated>>

Init ==
  /\ isConnected = FALSE
  /\ buffers = <<>>
  /\ locked = FALSE
  /\ stopped = FALSE
  /\ ops = {}
  /\ inflight = <<>>
  /\ slot = FALSE
  /\ running = FALSE
  /\ callback = "none"
  /\ pc = [u \in Users |-> "idle"]
  /\ held = TRUE
  /\ destroyedBy = "nobody"
  /\ terminated = FALSE
  /\ attempts = 0
  /\ answered = 0
  /\ errors = 0
  /\ gone = FALSE
  /\ accepted = 0
  /\ written = <<>>

Goto(u, p) == pc' = [pc EXCEPT ![u] = p]

\* The worker drops the reference of the handler it has finished: the last
\* one destroys the connection there and then.
Release ==
  /\ destroyedBy' =
       IF ~held /\ ops' = {} /\ inflight' = <<>> THEN "worker" ELSE destroyedBy
  /\ UNCHANGED terminated

(***************************************************************************)
(* connect(), disconnect() and the destructor                              *)
(***************************************************************************)
\* Connected, connect() starts with disconnect().
Connect ==
  /\ pc[Main] = "idle" /\ held
  /\ attempts < MaxConnects
  /\ attempts = answered
  /\ attempts = 0 \/ isConnected \/ gone \/ errors > 0
  /\ Goto(Main, "execute")
  /\ isConnected' = FALSE
  /\ stopped' = (stopped \/ isConnected)
  /\ gone' = (gone \/ isConnected)
  /\ UNCHANGED <<locked, ops, slot, running, held, attempts, sendVars,
                 answered, errors, callback, destroyedBy, terminated>>

Execute ==
  /\ pc[Main] = "execute"
  /\ ~running
  /\ slot' = TRUE
  /\ Goto(Main, "resolve")
  /\ UNCHANGED <<isConnected, locked, stopped, ops, running, held, attempts,
                 sendVars, countVars, callback, destroyedBy, terminated>>

AsyncResolve ==
  /\ pc[Main] = "resolve"
  /\ ops' = ops \cup {"resolve"}
  /\ attempts' = attempts + 1
  /\ Goto(Main, "idle")
  /\ UNCHANGED <<isConnected, locked, stopped, slot, running, held, sendVars,
                 countVars, callback, destroyedBy, terminated>>

\* disconnect() and _stop().  close() throws when the peer is gone or the
\* stream has failed: out of a callback the exception leaves _ioc.run() on
\* the worker, out of main() the program, and ends it if nobody catches it.
\* So does connect() when its disconnect() throws: it goes no further.
Disconnect ==
  /\ (pc[Main] = "idle" /\ held) \/ callback # "none"
  /\ isConnected
  /\ isConnected' = FALSE
  /\ stopped' = TRUE
  /\ gone' = TRUE
  /\ terminated' \in BOOLEAN
  /\ UNCHANGED <<locked, ops, slot, running, userVars, sendVars, answered,
                 errors, callback, destroyedBy>>

\* The users let go; operations that are pending keep the object alive.
Drop ==
  /\ held
  /\ \A u \in Users : pc[u] = "idle"
  /\ held' = FALSE
  /\ destroyedBy' = IF ops = {} /\ inflight = <<>> /\ callback = "none"
                      THEN "user" ELSE destroyedBy
  /\ UNCHANGED <<isConnected, locked, iocVars, pc, attempts, sendVars,
                 countVars, callback, terminated>>

(***************************************************************************)
(* The worker: the task is [this]() { this->_ioc.run(); }                  *)
(***************************************************************************)
TakeTask ==
  /\ slot /\ ~running
  /\ slot' = FALSE
  /\ running' = TRUE
  /\ UNCHANGED <<isConnected, locked, stopped, ops, userVars, sendVars,
                 countVars, callback, destroyedBy, terminated>>

\* run() returns when the io_context is stopped, and stops it when no
\* operation is pending.
RunReturns ==
  /\ running /\ callback = "none"
  /\ stopped \/ (ops = {} /\ inflight = <<>>)
  /\ running' = FALSE
  /\ stopped' = TRUE
  /\ UNCHANGED <<isConnected, locked, ops, slot, userVars, sendVars,
                 countVars, callback, destroyedBy, terminated>>

Serving == running /\ ~stopped /\ callback = "none"

\* _failed() up to the callback; CallbackDone does what follows it.
Failed ==
  /\ callback' = "onError"
  /\ errors' = errors + 1
  /\ UNCHANGED <<destroyedBy, terminated>>

\* on_resolve and on_connect without error: the next operation starts.
OpeningGoesOn(op, next) ==
  /\ Serving
  /\ op \in ops
  /\ ops' = (ops \ {op}) \cup {next}
  /\ UNCHANGED <<isConnected, locked, stopped, slot, running, userVars,
                 sendVars, countVars, callback, destroyedBy, terminated>>

OnResolve == OpeningGoesOn("resolve", "connect")
OnConnect == OpeningGoesOn("connect", "handshake")

OpeningFails ==
  /\ Serving
  /\ \E op \in ops \cap {"resolve", "connect", "handshake"} : ops' = ops \ {op}
  /\ Failed
  /\ answered' = answered + 1
  /\ UNCHANGED <<isConnected, locked, stopped, slot, running, userVars,
                 sendVars, gone>>

\* on_handshake: connected, a read starts, then onOpen is called.
OnHandshake ==
  /\ Serving
  /\ "handshake" \in ops
  /\ ops' = (ops \ {"handshake"}) \cup {"read"}
  /\ isConnected' = TRUE
  /\ answered' = answered + 1
  /\ callback' = "onOpen"
  /\ UNCHANGED <<locked, stopped, slot, running, userVars, sendVars, errors,
                 gone, destroyedBy, terminated>>

\* Mutant: a read that fails after the connection was lost is reported.
ReportsAlways == TRUE

Reports == isConnected

OnRead ==
  /\ Serving
  /\ "read" \in ops
  /\ ops' = ops \ {"read"}
  /\ UNCHANGED sendVars
  /\ \/ /\ isConnected
        /\ callback' = "onMessage"
        /\ UNCHANGED <<errors, destroyedBy, terminated>>
     \/ Reports /\ Failed
     \/ ~Reports /\ Release /\ UNCHANGED <<callback, errors>>
  /\ UNCHANGED <<isConnected, locked, stopped, slot, running, userVars,
                 answered, gone>>

\* Mutant: no read follows a message.
ReadsOnce == ops

ReadsOn == ops \cup {"read"}

\* Mutant: the lock of _onWrite() is not released.
LockKept == locked

LockReleased == FALSE

\* The callback returns: on_read reads again; _failed() clears the flag, and
\* _onWrite() lets go of the lock.
CallbackDone ==
  /\ callback # "none"
  /\ callback' = "none"
  /\ ops' = IF callback = "onMessage" THEN ReadsOn ELSE ops
  /\ isConnected' = (isConnected /\ callback # "onError")
  /\ gone' = (gone \/ (isConnected /\ callback = "onError"))
  /\ locked' = LockReleased
  /\ UNCHANGED sendVars
  /\ Release
  /\ UNCHANGED <<stopped, slot, running, userVars, answered, errors>>

(***************************************************************************)
(* Sending                                                                 *)
(***************************************************************************)
\* Mutant: every push starts a write.
WasEmptyAlways == TRUE

WasEmpty == buffers = <<>>

\* push_back and, on a list that was empty, _doWrite, under the spin lock.
PushBack ==
  /\ ~locked
  /\ accepted < MaxSends
  /\ accepted' = accepted + 1
  /\ buffers' = Append(buffers, accepted + 1)
  /\ inflight' = IF WasEmpty THEN Append(inflight, Head(buffers')) ELSE inflight
  /\ UNCHANGED written

\* sendBinary() looks at the flag first, without the lock.
SendCheck(u) ==
  /\ pc[u] = "idle" /\ held
  /\ isConnected
  /\ Goto(u, "send")
  /\ UNCHANGED <<isConnected, locked, iocVars, held, attempts, sendVars,
                 countVars, callback, destroyedBy, terminated>>

SendPush(u) ==
  /\ pc[u] = "send"
  /\ PushBack
  /\ Goto(u, "idle")
  /\ UNCHANGED <<isConnected, locked, iocVars, held, attempts, countVars,
                 callback, destroyedBy, terminated>>

\* The bound: a user that would queue one message more gives up.
SendGivesUp(u) ==
  /\ pc[u] = "send"
  /\ accepted = MaxSends
  /\ Goto(u, "idle")
  /\ UNCHANGED <<isConnected, locked, iocVars, held, attempts, sendVars,
                 countVars, callback, destroyedBy, terminated>>

SendFromCallback ==
  /\ callback # "none"
  /\ isConnected
  /\ PushBack
  /\ UNCHANGED <<isConnected, locked, iocVars, userVars, countVars, callback,
                 destroyedBy, terminated>>

\* Mutant: the next message is not sent.
NextWriteNever(rest) == <<>>

NextWrite(rest) == IF rest = <<>> THEN <<>> ELSE <<Head(rest)>>

\* _onWrite without error while connected: pop, and send what is next.  A
\* stream that failed or was closed completes no operation without error.
OnWriteOk ==
  /\ Serving /\ ~locked
  /\ inflight # <<>>
  /\ isConnected
  /\ written' = Append(written, Head(inflight))
  /\ IF buffers = <<>>
       THEN UNCHANGED buffers /\ inflight' = Tail(inflight)
       ELSE /\ buffers' = Tail(buffers)
            /\ inflight' = Tail(inflight) \o NextWrite(Tail(buffers))
  /\ UNCHANGED ops
  /\ Release
  /\ UNCHANGED <<isConnected, locked, stopped, slot, running, userVars,
                 countVars, accepted, callback>>

\* _onWrite with an error calls _failed(), and onError, under the lock.
OnWriteError ==
  /\ Serving /\ ~locked
  /\ inflight # <<>>
  /\ isConnected
  /\ inflight' = Tail(inflight)
  /\ locked' = TRUE
  /\ Failed
  /\ UNCHANGED <<isConnected, iocVars, userVars, buffers, accepted, written,
                 answered, gone>>

\* _onWrite after the connection was lost: the list is cleared.
OnWriteGone ==
  /\ Serving /\ ~locked
  /\ inflight # <<>>
  /\ ~isConnected
  /\ inflight' = Tail(inflight)
  /\ buffers' = <<>>
  /\ UNCHANGED ops
  /\ Release
  /\ UNCHANGED <<isConnected, locked, stopped, slot, running, userVars,
                 countVars, accepted, written, callback>>

OnWrite == OnWriteOk \/ OnWriteError \/ OnWriteGone

Opening == OnResolve \/ OnConnect \/ OnHandshake \/ OpeningFails

Next ==
  \/ Connect \/ Execute \/ AsyncResolve \/ Disconnect \/ Drop
  \/ TakeTask \/ RunReturns
  \/ Opening \/ OnRead \/ CallbackDone
  \/ \E u \in Users : SendCheck(u) \/ SendPush(u) \/ SendGivesUp(u)
  \/ SendFromCallback
  \/ OnWrite

Alive == destroyedBy = "nobody" /\ ~terminated

LiveNext == Alive /\ Next

Spec == Init /\ [][LiveNext]_vars

\* The threads are scheduled, callbacks return (close() included: its peer
\* answers or goes away), and the operations that
\* open the connection or write complete, with the timeouts the code sets.
FairSpec ==
  /\ Spec
  /\ WF_vars(Alive /\ (Execute \/ AsyncResolve))
  /\ WF_vars(Alive /\ (TakeTask \/ RunReturns \/ Opening \/ CallbackDone))
  /\ \A u \in Users : SF_vars(Alive /\ (SendPush(u) \/ SendGivesUp(u)))
  /\ SF_vars(Alive /\ OnWrite)

-----------------------------------------------------------------------------
(* Properties *)

\* However many users send, one async_write is in progress at a time.
OneWriteAtATime == Len(inflight) <= 1

\* While connected, whatever waits is behind a write in progress.
NoStall == (isConnected /\ buffers # <<>>) => (inflight # <<>> \/ callback = "onError")

\* The messages of all users go out in the order they were queued, each
\* once, and all of them unless the connection is lost.
Channel == INSTANCE OrderedChannel
  WITH accepted <- accepted, delivered <- written, broken <- gone

SendsEverything == Channel!ChanSpec

\* Once a connection is lost or disconnected and its callback has returned,
\* no other callback reaches the application, whatever operations were
\* pending, until a new attempt is made.
NoCallbackWhenGone ==
  [][gone /\ attempts = answered /\ callback = "none" => callback' = "none"]_vars

\* Nobody who sends waits forever for the spin lock, although the worker
\* holds it while it is in onError.
SendsReturn == \A u \in Users : (pc[u] = "send") ~> (pc[u] = "idle" \/ ~Alive)

\* The destructor finds the flag cleared: it never runs the blocking close
\* handshake, because an open connection keeps itself alive.
DestructorNeverCloses == destroyedBy # "nobody" => ~isConnected

\* "connect() -> on_resolve() -> on_connect()": an attempt leads to onOpen
\* or onError.
ConnectAnswered ==
  \A k \in 1..MaxConnects : (attempts >= k) ~> (answered >= k \/ ~Alive)
=============================================================================
