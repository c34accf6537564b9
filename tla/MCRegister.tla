------------------------------ MODULE MCRegister ------------------------------
(* A gateway that polls and looks up services, and two instances of a service. *)
EXTENDS Register, TLC

CONSTANTS g, a1, a2, gateway, auth

MCInstances == {g, a1, a2}
MCNames == {gateway, auth}
MCNameOf == (g :> gateway) @@ (a1 :> auth) @@ (a2 :> auth)
MCGateway == {g}
=============================================================================
