------------------------------ MODULE MCConfig ------------------------------
(* A configuration interface, the command line tool and a service on one    *)
(* configuration server.                                                    *)
EXTENDS Config, TLC

CONSTANTS gui, tool, service, s1, own, other

MCServers == {s1}
MCManagers == {gui, tool}
MCGuis == {gui}
MCAddrs == {own, other}
MCMaxOps == (gui :> 2) @@ (tool :> 1)
=============================================================================
