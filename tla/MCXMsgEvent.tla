----------------------------- MODULE MCXMsgEvent -----------------------------
(* Three messages for the runs on XMsgEvent: one with a body, two without,   *)
(* and no callback is registered for the type of the third.  A second thread *)
(* sends that one.                                                           *)
EXTENDS XMsgEvent, TLC

CONSTANTS m1, m2, m3, s1, s2

MCMsgs == {m1, m2, m3}
MCRegistered == {m1, m2}
MCBodyLen == (m1 :> 2) @@ (m2 :> 0) @@ (m3 :> 0)
MCSenderOf == (m1 :> s1) @@ (m2 :> s1) @@ (m3 :> s2)
MCSenderOf1 == [m \in MCMsgs |-> s1]
MCOneSender == {s1}
MCTwoSenders == {s1, s2}
=============================================================================
