--------------------------- MODULE WasmConnection ---------------------------
(***************************************************************************)
(* The websocket client in the browser: the wasm WebSocketConnection and   *)
(* the Application that owns it.  Everything runs in the page's event      *)
(* loop, one event or call at a time.  connect() makes a new browser       *)
(* socket; each socket, old ones included, calls its events on the one     *)
(* connection object, which does not look at which socket it is.           *)
(*                                                                         *)
(* The sample connects once.  Like the native client, the object may be    *)
(* connected again and disconnected, here between any two events.  The     *)
(* sample never deletes its Application, and neither does this model.      *)
(***************************************************************************)
EXTENDS Naturals, Sequences

CONSTANTS
  MaxConnects,  \* bound of the model: calls to connect()
  MaxSends      \* bound of the model: messages sent beside the pings

ASSUME WasmBoundsAssumption == MaxConnects \in Nat /\ MaxSends \in Nat

VARIABLES
  isConnected,  \* _isConnected
  isDone,       \* Application::_isDone
  ready,        \* readyState of the sockets made so far, oldest first
  sent,         \* how many messages went out on each
  sends,        \* calls of sendUtf8Text() by the user
  thrown,       \* since the last connect(), send() met a socket that still connects
  overlapped    \* the last connect() found an older socket not closed

wasmVars == <<isConnected, isDone, ready, sent, sends, thrown, overlapped>>

WasmInit ==
  /\ isConnected = FALSE
  /\ isDone = FALSE
  /\ ready = <<>>
  /\ sent = <<>>
  /\ sends = 0
  /\ thrown = FALSE
  /\ overlapped = FALSE

\* _wsSocket: the newest socket, the only one the object can still name.
wsSocket == Len(ready)

(***************************************************************************)
(* The browser's side of a socket, as the WebSocket API defines it.        *)
(***************************************************************************)
\* close(): nothing happens to a socket that is closing or closed.
CloseSocket(states, s) ==
  IF states[s] \in {"connecting", "open"}
    THEN [states EXCEPT ![s] = "closing"] ELSE states

\* send() throws while the socket connects, and drops what comes after
\* the socket started to close.
SendTo(states, s) ==
  /\ thrown' = (thrown \/ states[s] = "connecting")
  /\ sent' = IF states[s] = "open" THEN [sent EXCEPT ![s] = @ + 1] ELSE sent

(***************************************************************************)
(* connect(), disconnect() and sendUtf8Text()                              *)
(***************************************************************************)
\* What disconnect() leaves of the sockets: without the flag it returns.
AfterDisconnect == IF isConnected THEN CloseSocket(ready, wsSocket) ELSE ready

Disconnect ==
  /\ isConnected
  /\ ready' = AfterDisconnect
  /\ isConnected' = FALSE
  /\ UNCHANGED <<isDone, sent, sends, thrown, overlapped>>

\* Application::connect() and the WebSocketConnection::connect() it ends with.
Connect ==
  /\ wsSocket < MaxConnects
  /\ ready' = Append(AfterDisconnect, "connecting")
  /\ sent' = Append(sent, 0)
  /\ isConnected' = FALSE
  /\ overlapped' = \E s \in DOMAIN ready : ready[s] # "closed"
  /\ thrown' = FALSE
  /\ UNCHANGED <<isDone, sends>>

\* Mutant: startApplication() leaves the application unconnected.
StartApplicationReturns == UNCHANGED wasmVars

\* startApplication() does nothing when the application exists.  That there
\* are websockets was asked by the page, or it would not have come so far:
\* the same question here is left out.
StartApplication == wsSocket = 0 /\ Connect

SendUtf8Text ==
  /\ isConnected
  /\ sends < MaxSends
  /\ sends' = sends + 1
  /\ SendTo(ready, wsSocket)
  /\ UNCHANGED <<isConnected, isDone, ready, overlapped>>

(***************************************************************************)
(* The events of socket s                                                  *)
(***************************************************************************)
\* Mutant: the application is called before the flag is raised, and
\* sendUtf8Text() returns false.
OnOpenCallbackEarly(states) == UNCHANGED <<thrown, sent>>

\* The application sends "ping!", which goes to the newest socket.
OnOpenCallback(states) == SendTo(states, wsSocket)

\* _onOpen raises the flag before it calls the application.
OnOpen(s) ==
  /\ ready[s] = "connecting"
  /\ ready' = [ready EXCEPT ![s] = "open"]
  /\ isConnected' = TRUE
  /\ OnOpenCallback(ready')
  /\ UNCHANGED <<isDone, sends, overlapped>>

\* A socket that closes delivers no more messages.
OnMessage(s) == ready[s] = "open" /\ UNCHANGED wasmVars

\* The peer starts to close: the socket knows, its user is not told yet.
PeerCloses(s) ==
  /\ ready[s] = "open"
  /\ ready' = [ready EXCEPT ![s] = "closing"]
  /\ UNCHANGED <<isConnected, isDone, sent, sends, thrown, overlapped>>

\* Mutant: the flag stays up.
OnEndKeepsFlag == isDone' = TRUE /\ UNCHANGED isConnected

\* _onError and _onClose, and the callbacks the application set.
OnEnd == isDone' = TRUE /\ isConnected' = FALSE

\* The socket is gone: the close event, after an error event if it failed.
Closed(s) ==
  /\ ready[s] # "closed"
  /\ ready' = [ready EXCEPT ![s] = "closed"]
  /\ OnEnd
  /\ UNCHANGED <<sent, sends, thrown, overlapped>>

-----------------------------------------------------------------------------
(* Properties *)

\* A raised flag means that some socket is there: it is cleared before the
\* last one that raised it is closed.  After a connect() that found the older
\* sockets closed it tells the truth, whatever went on before: it is up while
\* the newest socket is open, and else only while that socket is closing and
\* its user was not told.
FlagIsHonest ==
  /\ isConnected => \E s \in DOMAIN ready : ready[s] \in {"open", "closing"}
  /\ ~overlapped =>
       /\ isConnected => ready[wsSocket] \in {"open", "closing"}
       /\ (wsSocket > 0 /\ ready[wsSocket] = "open") => isConnected

\* After such a connect() no send meets a socket that still connects, and
\* an open socket carried the application's ping.
PingsGoOut ==
  ~overlapped => ~thrown /\ \A s \in DOMAIN ready : ready[s] = "open" => sent[s] > 0
=============================================================================
