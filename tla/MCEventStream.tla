---------------------------- MODULE MCEventStream ----------------------------
(* Two concurrent transactions and one client.                             *)
EXTENDS EventStream

CONSTANTS x1, x2, c1

TwoWriters == {x1, x2}
OneClient == {c1}
=============================================================================
