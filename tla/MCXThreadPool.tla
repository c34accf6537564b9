---------------------------- MODULE MCXThreadPool ----------------------------
(* The tasks of the runs on XThreadPool, as model values. *)
EXTENDS XThreadPool

CONSTANTS x1, x2, x3, x4

MCTasks == {x1, x2, x3, x4}
=============================================================================
