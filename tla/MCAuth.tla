------------------------------- MODULE MCAuth -------------------------------
(* Two clients of one gateway, the root user and one to be added. *)
EXTENDS Auth, TLC

CONSTANTS c1, c2, root, user, pw1, pw2

MCClients == {c1, c2}
MCUsers == {root, user}
MCMaxLogins == (c1 :> 2) @@ (c2 :> 1)
MCPasswords == {pw1, pw2}

\* One client logs in as root and as the other user, and adds that user or
\* changes the password it logs in with; the second is the other user only.
MCAttempts == {<<c1, root, pw1>>, <<c1, user, pw2>>, <<c2, user, pw2>>}
MCEdits == {<<c1, "add", user, pw2>>, <<c1, "change", root, pw2>>}
=============================================================================
