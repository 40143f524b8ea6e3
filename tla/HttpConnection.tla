--------------------------- MODULE HttpConnection ----------------------------
(***************************************************************************)
(* The connections of the http server: each reads one request, answers it, *)
(* and is kept alive by its pending operations only.  A timer made with    *)
(* the connection closes the socket of one that takes 60 seconds.          *)
(*                                                                         *)
(* Connections have no strand: with several threads the handlers of one    *)
(* connection, and the start() that the listener called, run in parallel.  *)
(* Where they touch the timer or the socket at once asio does one thing    *)
(* before the other; the model takes both orders.                          *)
(***************************************************************************)
EXTENDS Integers, FiniteSets

CONSTANTS
  Threads,       \* the threads in io_context::run()
  Connections    \* the accepted connections

VARIABLES
  socket,    \* "new", "open", "halfClosed" (shutdown_send) or "closed"
  request,   \* the async_read of each connection
  response,  \* its async_write
  timer,     \* the async_wait of its _connectionTimer
  elapsed,   \* whether 60 seconds passed since it was made
  at,        \* where thread t is in its handler
  cur        \* the connection the handler is for

opVars == <<request, response, timer>>
threadVars == <<at, cur>>
vars == <<socket, opVars, elapsed, threadVars>>

\* An operation waits, then its handler is queued with its result, then run.
Ended == {"ok", "error"}

Init ==
  /\ socket = [c \in Connections |-> "new"]
  /\ request = [c \in Connections |-> "none"]
  /\ response = [c \in Connections |-> "none"]
  /\ timer = [c \in Connections |-> "none"]
  /\ elapsed = [c \in Connections |-> FALSE]
  /\ at = [t \in Threads |-> "idle"]
  /\ cur = [t \in Threads |-> CHOOSE c \in Connections : TRUE]

Goto(t, p) == at' = [at EXCEPT ![t] = p]
Enter(t, p, c) == at[t] = "idle" /\ Goto(t, p) /\ cur' = [cur EXCEPT ![t] = c]
Set(op, c, s) == op' = [op EXCEPT ![c] = s]

(***************************************************************************)
(* start(), called for a connection the listener accepted.                 *)
(***************************************************************************)
Accept(t, c) ==
  /\ socket[c] = "new"
  /\ socket' = [socket EXCEPT ![c] = "open"]
  /\ Enter(t, "readRequest", c)
  /\ UNCHANGED <<opVars, elapsed>>

ReadRequest(t) ==
  /\ at[t] = "readRequest"
  /\ Set(request, cur[t], "pending")
  /\ Goto(t, "checkTimeout")
  /\ UNCHANGED <<socket, response, timer, elapsed, cur>>

CheckConnectionTimeout(t) ==
  /\ at[t] = "checkTimeout"
  /\ Set(timer, cur[t], "pending")
  /\ Goto(t, "idle")
  /\ UNCHANGED <<socket, request, response, elapsed, cur>>

(***************************************************************************)
(* The peer and the clock.  A peer may also do nothing, for ever.          *)
(***************************************************************************)
RequestEnds(c) ==
  /\ request[c] = "pending"
  /\ \E r \in Ended : Set(request, c, r)
  /\ UNCHANGED <<socket, response, timer, elapsed, threadVars>>

ResponseEnds(c) ==
  /\ response[c] = "pending"
  /\ \E r \in Ended : Set(response, c, r)
  /\ UNCHANGED <<socket, request, timer, elapsed, threadVars>>

TimePasses(c) ==
  /\ socket[c] # "new"
  /\ ~elapsed[c]
  /\ elapsed' = [elapsed EXCEPT ![c] = TRUE]
  /\ UNCHANGED <<socket, opVars, threadVars>>

Expire(c) ==
  /\ timer[c] = "pending"
  /\ elapsed[c]
  /\ Set(timer, c, "ok")
  /\ UNCHANGED <<socket, request, response, elapsed, threadVars>>

(***************************************************************************)
(* The handlers.                                                           *)
(***************************************************************************)
\* The wait of the timer, after a cancel().
Cancelled(c) == [timer EXCEPT ![c] = IF @ = "pending" THEN "error" ELSE @]

\* Mutant: the timer is cancelled once the request is read.
TimerMeanwhileCancelled(c) == Cancelled(c)

TimerMeanwhile(c) == timer

OnRead(t, c) ==
  /\ request[c] = "ok"
  /\ Set(request, c, "done")
  /\ timer' = TimerMeanwhile(c)
  /\ Enter(t, "process", c)
  /\ UNCHANGED <<socket, response, elapsed>>

\* Nothing is done: only the timer is left to end the connection.
OnReadError(t, c) ==
  /\ at[t] = "idle"
  /\ request[c] = "error"
  /\ Set(request, c, "done")
  /\ UNCHANGED <<socket, response, timer, elapsed, threadVars>>

\* The callback returned; async_write on a closed socket fails.
WriteResponse(t) ==
  /\ at[t] = "process"
  /\ Set(response, cur[t], IF socket[cur[t]] = "closed" THEN "error" ELSE "pending")
  /\ Goto(t, "idle")
  /\ UNCHANGED <<socket, request, timer, elapsed, cur>>

\* The handler of async_write looks at no error: it shuts down, it cancels.
OnWrite(t, c) ==
  /\ response[c] \in Ended
  /\ Set(response, c, "done")
  /\ Enter(t, "shutdown", c)
  /\ UNCHANGED <<socket, request, timer, elapsed>>

\* Mutant: the socket is left as it is.
StillOpen == "open"

ShutDown == "halfClosed"

Shutdown(t) ==
  /\ at[t] = "shutdown"
  /\ socket' = [socket EXCEPT ![cur[t]] = IF @ = "open" THEN ShutDown ELSE @]
  /\ Goto(t, "cancel")
  /\ UNCHANGED <<opVars, elapsed, cur>>

\* cancel() reaches a wait that is pending, not one that expired already and
\* not one that start() has yet to begin.
CancelTimer(t) ==
  /\ at[t] = "cancel"
  /\ timer' = Cancelled(cur[t])
  /\ Goto(t, "idle")
  /\ UNCHANGED <<socket, request, response, elapsed, cur>>

\* Closing the socket ends what is pending on it.
Aborted(op, c) == [op EXCEPT ![c] = IF @ = "pending" THEN "error" ELSE @]

\* Mutant: the timer expires and nothing is closed.
CloseNothing(c) == UNCHANGED <<socket, request, response>>

CloseSocket(c) ==
  /\ socket' = [socket EXCEPT ![c] = "closed"]
  /\ request' = Aborted(request, c)
  /\ response' = Aborted(response, c)

OnTimeout(t, c) ==
  /\ at[t] = "idle"
  /\ timer[c] = "ok"
  /\ Set(timer, c, "done")
  /\ CloseSocket(c)
  /\ UNCHANGED <<elapsed, threadVars>>

OnTimerCancelled(t, c) ==
  /\ at[t] = "idle"
  /\ timer[c] = "error"
  /\ Set(timer, c, "done")
  /\ UNCHANGED <<socket, request, response, elapsed, threadVars>>

Handle(t, c) ==
  \/ OnRead(t, c) \/ OnReadError(t, c) \/ OnWrite(t, c)
  \/ OnTimeout(t, c) \/ OnTimerCancelled(t, c)

Proceed(t) ==
  \/ ReadRequest(t) \/ CheckConnectionTimeout(t) \/ WriteResponse(t)
  \/ Shutdown(t) \/ CancelTimer(t)

Next ==
  \/ \E t \in Threads : Proceed(t)
  \/ \E t \in Threads, c \in Connections : Accept(t, c) \/ Handle(t, c)
  \/ \E c \in Connections :
       RequestEnds(c) \/ ResponseEnds(c) \/ TimePasses(c) \/ Expire(c)

Spec == Init /\ [][Next]_vars

\* Threads go on, the queue of the io_context is first in first out, and the
\* clock runs; nothing is assumed of a peer.
FairSpec ==
  /\ Spec
  /\ \A t \in Threads : WF_vars(Proceed(t))
  /\ \A c \in Connections :
       /\ SF_vars(\E t \in Threads : Handle(t, c))
       /\ WF_vars(TimePasses(c))
       /\ WF_vars(Expire(c))

-----------------------------------------------------------------------------
(* Properties *)

Running(c) == \E t \in Threads : at[t] # "idle" /\ cur[t] = c
Waits(op) == op \in {"pending"} \cup Ended

\* Nothing holds a shared_ptr to the connection any more.
Released(c) ==
  /\ socket[c] # "new"
  /\ ~Waits(request[c]) /\ ~Waits(response[c]) /\ ~Waits(timer[c])
  /\ ~Running(c)

\* A connection nothing refers to any more is one that was ended: answered
\* and shut down, or closed by its timer, also after a failed read.
ReleasedIsEnded ==
  \A c \in Connections : Released(c) => socket[c] \in {"halfClosed", "closed"}

\* "Check whether we have spent enough time on this connection": the timer
\* waits as long as the connection has something left to wait for.
TimerGuards ==
  \A c \in Connections :
    Waits(request[c]) \/ Waits(response[c]) =>
      \/ Waits(timer[c])
      \/ \E t \in Threads : at[t] = "checkTimeout" /\ cur[t] = c
      \/ socket[c] = "closed"

\* A connection ends, whatever its peer does or fails to do.
ConnectionsEnd ==
  \A c \in Connections : (socket[c] # "new") ~> Released(c)
=============================================================================
