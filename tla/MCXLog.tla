------------------------------- MODULE MCXLog -------------------------------
(* Two threads that log twice each. *)
EXTENDS XLog, TLC

CONSTANTS t1, t2

MCThreads == {t1, t2}
=============================================================================
