------------------------------ MODULE MCXComTask ------------------------------
(* The threads of the runs on XComTask. *)
EXTENDS XComTask

CONSTANTS t1, t2

MCOutside == {t1, t2}
MCNobody == {}
=============================================================================
