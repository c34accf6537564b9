------------------------------ MODULE MsgChannel ------------------------------
(***************************************************************************)
(* What XMsgEvent promises the handlers registered with RegCB, for one     *)
(* direction of one connection: the messages of SendMsg arrive whole, in   *)
(* the order they were sent and once each, until the connection breaks or  *)
(* is torn.  A torn connection promises nothing until it breaks, except    *)
(* that what was delivered stays so.                                       *)
(***************************************************************************)
EXTENDS Sequences

CONSTANTS
  Msgs,        \* the messages given to SendMsg
  Registered   \* those whose type has a callback in msg_callback

VARIABLES
  pending,     \* sent on this connection and not yet dispatched
  delivered,   \* what the callbacks were called with, over all connections
  torn         \* was a frame of this connection cut or crossed?

vars == <<pending, delivered, torn>>

Init == pending = <<>> /\ delivered = <<>> /\ torn = FALSE

Send(m) ==
  /\ ~torn
  /\ pending' = Append(pending, m)
  /\ UNCHANGED <<delivered, torn>>

\* A message whose type has no callback is dropped and disturbs no other.
Deliver ==
  /\ ~torn
  /\ pending # <<>>
  /\ pending' = Tail(pending)
  /\ delivered' = IF Head(pending) \in Registered
                  THEN Append(delivered, Head(pending)) ELSE delivered
  /\ UNCHANGED torn

\* A frame is cut or crossed, or has been: anything may be called for next.
Astray ==
  /\ torn'
  /\ pending' \in Seq(Msgs)
  /\ \/ UNCHANGED delivered
     \/ \E m \in Registered : delivered' = Append(delivered, m)

\* The connection closes; what was not dispatched is lost.
Break ==
  /\ pending' = <<>>
  /\ torn' = FALSE
  /\ UNCHANGED delivered

Next == (\E m \in Msgs : Send(m)) \/ Deliver \/ Astray \/ Break

Spec == Init /\ [][Next]_vars
=============================================================================
