------------------------------ MODULE MCGateway ------------------------------
(* Two clients with three requests and two instances of the service. *)
EXTENDS Gateway, TLC

CONSTANTS r1, r2, p1, p2, q1, q2, q3

MCRouters == {r1, r2}
MCProxies == {p1, p2}
MCRequests == {q1, q2, q3}

\* One request of each client, for the liveness run.
MCTwoRequests == {q1, q3}
MCTwoOwner == (q1 :> r1) @@ (q3 :> r2)
MCOwner == (q1 :> r1) @@ (q2 :> r1) @@ (q3 :> r2)
=============================================================================
