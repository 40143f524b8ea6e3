---------------------------- MODULE SocketServer -----------------------------
(***************************************************************************)
(* A server's life: start() and stop() of WebSocketServer and HttpServer,  *)
(* which are line for line the same, over their TcpListener and their      *)
(* io_context.  One user thread calls start() and stop(), in any order and *)
(* bounded by MaxStarts; the threads of _allThreads run the io_context.    *)
(*                                                                         *)
(* The io_context is external: run() returns once it is stopped, and it    *)
(* stops by itself when no operation is left; only restart(), which        *)
(* nothing calls, would make it run again.                                 *)
(***************************************************************************)
EXTENDS Integers, Sequences, FiniteSets, SequencesExt

CONSTANTS
  Threads,         \* _allThreads
  Clients,         \* peers that may connect
  MaxStarts,       \* bound of the model: calls of start()
  ListenMayFail,   \* whether open, bind or listen may fail
  AcceptMayFail    \* whether async_accept may fail on an open acceptor

ASSUME StartsAssumption == MaxStarts \in Nat
ASSUME MayFailAssumption == ListenMayFail \in BOOLEAN /\ AcceptMayFail \in BOOLEAN

VARIABLES
  acceptor,      \* "closed", "open" or "listening"
  backlog,       \* the clients that wait to be accepted, in order
  accepting,     \* whether an async_accept waits on the acceptor
  completions,   \* results of async_accept, queued for _onAccept
  served,        \* the clients that have a live session or http connection
  stopped,       \* io_context::stopped()
  pool,          \* what each thread of _allThreads does
  result,        \* the arguments of the _onAccept each thread runs
  caller,        \* where the user thread is in start() or stop()
  starting,      \* whether the stop() it is in was called by start()
  starts,        \* how often start() was called
  status         \* "running" or "undefined"

listenerVars == <<acceptor, backlog, accepting, completions>>
callerVars == <<caller, starting, starts>>
vars == <<listenerVars, served, stopped, pool, result, callerVars, status>>

Failures == {"aborted", "failed"}
Handlers == {"onAccept", "doAccept", "session"}

Init ==
  /\ acceptor = "closed"
  /\ backlog = <<>>
  /\ accepting = FALSE
  /\ completions = <<>>
  /\ served = {}
  /\ stopped = FALSE
  /\ pool = [t \in Threads |-> "none"]
  /\ result = [t \in Threads |-> "aborted"]
  /\ caller = "idle"
  /\ starting = FALSE
  /\ starts = 0
  /\ status = "running"

Goto(t, p) == pool' = [pool EXCEPT ![t] = p]
NoThreads == \A t \in Threads : pool[t] = "none"

(***************************************************************************)
(* start() and stop().                                                     *)
(***************************************************************************)
Start ==
  /\ caller = "idle"
  /\ starts < MaxStarts
  /\ starts' = starts + 1
  /\ starting' = TRUE
  /\ caller' = IF NoThreads THEN "listen" ELSE "close"
  /\ UNCHANGED <<listenerVars, served, stopped, pool, result, status>>

\* With no thread stop() returns at once, which changes nothing.
Stop ==
  /\ caller = "idle"
  /\ ~NoThreads
  /\ starting' = FALSE
  /\ caller' = "close"
  /\ UNCHANGED <<listenerVars, served, stopped, pool, result, starts, status>>

\* Closing the acceptor aborts its async_accept.
Close ==
  /\ caller = "close"
  /\ acceptor' = "closed"
  /\ backlog' = <<>>
  /\ accepting' = FALSE
  /\ completions' = IF accepting THEN Append(completions, "aborted") ELSE completions
  /\ caller' = "stopContext"
  /\ UNCHANGED <<served, stopped, pool, result, starting, starts, status>>

\* Mutant: closing the acceptor is thought to be enough.
NotStopped == stopped

Stopped == TRUE

StopContext ==
  /\ caller = "stopContext"
  /\ stopped' = Stopped
  /\ caller' = "join"
  /\ UNCHANGED <<listenerVars, served, pool, result, starting, starts, status>>

Join ==
  /\ caller = "join"
  /\ \A t \in Threads : pool[t] = "returned"
  /\ pool' = [t \in Threads |-> "none"]
  /\ caller' = IF starting THEN "listen" ELSE "idle"
  /\ UNCHANGED <<listenerVars, served, stopped, result, starting, starts, status>>

\* The acceptor is closed here: stop() returned or start() is the first one.
\* A failure is only logged, and leaves the acceptor open or not.
Listen ==
  /\ caller = "listen"
  /\ caller' = "launch"
  /\ \/ acceptor' = "listening" /\ accepting' = TRUE
     \/ ListenMayFail /\ acceptor' \in {"closed", "open"} /\ accepting' = FALSE
  /\ UNCHANGED <<backlog, completions, served, stopped, pool, result, starting,
                 starts, status>>

Launch(t) ==
  /\ caller = "launch"
  /\ pool[t] = "none"
  /\ Goto(t, "run")
  /\ caller' = IF \A u \in Threads \ {t} : pool[u] # "none" THEN "idle" ELSE caller
  /\ UNCHANGED <<listenerVars, served, stopped, result, starting, starts, status>>

(***************************************************************************)
(* The peers, and the acceptor's completions: a thread in run() polls.     *)
(***************************************************************************)
Connect(c) ==
  /\ acceptor = "listening"
  /\ c \notin served \cup ToSet(backlog) \cup ToSet(completions)
  /\ \A t \in Threads : pool[t] # "onAccept" \/ result[t] # c
  /\ backlog' = Append(backlog, c)
  /\ UNCHANGED <<acceptor, accepting, completions, served, stopped, pool, result,
                 callerVars, status>>

Polling == ~stopped /\ \E t \in Threads : pool[t] = "run"

Complete(r) ==
  /\ Polling
  /\ accepting
  /\ accepting' = FALSE
  /\ completions' = Append(completions, r)
  /\ UNCHANGED <<acceptor, served, stopped, pool, result, callerVars, status>>

AcceptSucceeds ==
  /\ backlog # <<>>
  /\ backlog' = Tail(backlog)
  /\ Complete(Head(backlog))

AcceptFails ==
  /\ AcceptMayFail
  /\ UNCHANGED backlog
  /\ Complete("failed")

(***************************************************************************)
(* The threads in io_context::run().                                       *)
(***************************************************************************)
\* Mutant: the next accept starts before this one is handled.
AcceptsEarly == Head(completions) \in Clients

AcceptsMeanwhile == accepting

TakeAccept(t) ==
  /\ pool[t] = "run"
  /\ ~stopped
  /\ completions # <<>>
  /\ result' = [result EXCEPT ![t] = Head(completions)]
  /\ completions' = Tail(completions)
  /\ accepting' = AcceptsMeanwhile
  /\ Goto(t, "onAccept")
  /\ UNCHANGED <<acceptor, backlog, served, stopped, callerVars, status>>

\* Mutant: no other accept is started.
AcceptsOnce == "run"

AcceptsOn == "doAccept"

\* The callback makes the session, or the http connection, and starts it.
OnAccept(t) ==
  /\ pool[t] = "onAccept"
  /\ result[t] \in Clients
  /\ served' = served \cup {result[t]}
  /\ Goto(t, AcceptsOn)
  /\ UNCHANGED <<listenerVars, stopped, result, callerVars, status>>

\* An error is logged; no other accept is started.
OnAcceptError(t) ==
  /\ pool[t] = "onAccept"
  /\ result[t] \in Failures
  /\ Goto(t, "run")
  /\ UNCHANGED <<listenerVars, served, stopped, result, callerVars, status>>

\* async_accept; the acceptor has no lock, so a stop() that is about to close
\* it may be closing it right now.
DoAccept(t) ==
  /\ pool[t] = "doAccept"
  /\ \/ status' = status
     \/ caller = "close" /\ status' = "undefined"
  /\ IF acceptor = "closed"
     THEN completions' = Append(completions, "aborted") /\ UNCHANGED accepting
     ELSE accepting' = TRUE /\ UNCHANGED completions
  /\ Goto(t, "run")
  /\ UNCHANGED <<acceptor, backlog, served, stopped, result, callerVars>>

\* A handler of a session runs, and the session goes on or ends.
TakeSession(t) ==
  /\ pool[t] = "run"
  /\ ~stopped
  /\ served # {}
  /\ Goto(t, "session")
  /\ UNCHANGED <<listenerVars, served, stopped, result, callerVars, status>>

SessionReturns(t) ==
  /\ pool[t] = "session"
  /\ \/ served' = served
     \/ \E c \in served : served' = served \ {c}
  /\ Goto(t, "run")
  /\ UNCHANGED <<listenerVars, stopped, result, callerVars, status>>

WorkLeft ==
  \/ accepting
  \/ completions # <<>>
  \/ served # {}
  \/ \E t \in Threads : pool[t] \in Handlers

RunReturns(t) ==
  /\ pool[t] = "run"
  /\ stopped \/ ~WorkLeft
  /\ stopped' = TRUE
  /\ Goto(t, "returned")
  /\ UNCHANGED <<listenerVars, served, result, callerVars, status>>

CallerStep == Close \/ StopContext \/ Join \/ Listen \/ \E t \in Threads : Launch(t)

\* The steps of a thread that no other thread can take from it.
Proceed(t) ==
  \/ OnAccept(t) \/ OnAcceptError(t) \/ DoAccept(t) \/ SessionReturns(t)
  \/ RunReturns(t)

Next ==
  /\ status = "running"
  /\ \/ Start \/ Stop \/ CallerStep
     \/ \E c \in Clients : Connect(c)
     \/ AcceptSucceeds \/ AcceptFails
     \/ \E t \in Threads : TakeAccept(t) \/ TakeSession(t) \/ Proceed(t)

Spec == Init /\ [][Next]_vars

\* The user thread ends the call it is in, a handler returns, and the queue
\* of the io_context is first in first out, its reactor being one entry.
FairSpec ==
  /\ Spec
  /\ WF_vars(status = "running" /\ CallerStep)
  /\ \A t \in Threads : WF_vars(status = "running" /\ Proceed(t))
  /\ SF_vars(status = "running" /\ \E t \in Threads : TakeAccept(t))
  /\ SF_vars(status = "running" /\ AcceptSucceeds)

-----------------------------------------------------------------------------
(* Properties *)

\* "the tcp listener doesn't need strands" (WebSocketServer.cpp:23): no two
\* threads are ever in the listener's handlers, however often the server was
\* stopped and started.
InListener(t) == pool[t] \in {"onAccept", "doAccept"}

SerialAccepts ==
  \A t, u \in Threads : InListener(t) /\ InListener(u) => t = u

\* The first start(), of a listener that listens and whose accepts succeed.
\* What follows a failure or a stop() is the README's "what goes wrong".
FirstLife ==
  starts = 1 /\ acceptor = "listening" /\ \A t \in Threads : result[t] # "failed"

\* start() and stop() return, whatever the sessions still have to do.
CallsReturn == (caller # "idle") ~> (caller = "idle" \/ status # "running")

\* "Accepts incoming connections" (TcpListener.hpp:16): a peer that connected
\* is accepted, unless the server is stopped first.
ClientsAreAccepted ==
  \A c \in Clients :
    (Contains(backlog, c) /\ FirstLife) ~>
      (~Contains(backlog, c) \/ ~FirstLife \/ status # "running")
=============================================================================
