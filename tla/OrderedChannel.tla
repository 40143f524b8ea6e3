--------------------------- MODULE OrderedChannel ---------------------------
(***************************************************************************)
(* What the sending side of a websocket endpoint promises its user, with   *)
(* no queue, no lock, no thread and no completion handler: the k-th call   *)
(* to write()/send() is accepted as message k, messages reach the peer in  *)
(* the order they were accepted, each once, and every accepted message     *)
(* reaches it unless the connection breaks.  The server's WebSocketSession *)
(* and the native client's WebSocketConnection both implement it.          *)
(***************************************************************************)
EXTENDS Naturals, Sequences

VARIABLES
  accepted,   \* how many messages the user has handed over so far
  delivered,  \* the messages the transport has taken, in that order
  broken      \* the connection is lost: nothing more is promised

chanVars == <<accepted, delivered, broken>>

ChanInit ==
  /\ accepted = 0
  /\ delivered = <<>>
  /\ broken = FALSE

Accept ==
  /\ accepted' = accepted + 1
  /\ UNCHANGED <<delivered, broken>>

\* The oldest message that is still waiting goes out, and no other can.
Deliver ==
  /\ Len(delivered) < accepted
  /\ delivered' = Append(delivered, Len(delivered) + 1)
  /\ UNCHANGED <<accepted, broken>>

Break ==
  /\ broken' = TRUE
  /\ UNCHANGED <<accepted, delivered>>

ChanNext == Accept \/ Deliver \/ Break

ChanSafety == ChanInit /\ [][ChanNext]_chanVars

ChanSpec == ChanSafety /\ WF_chanVars(~broken /\ Deliver)
=============================================================================
