--------------------------- MODULE MCRunLifecycle ---------------------------
(* Two clients: one that cancels the run and one that starts it.           *)
EXTENDS RunLifecycle

CONSTANTS c1, c2

TwoClients == {c1, c2}
=============================================================================
