---------------------------- MODULE MCDaemonSession ----------------------------
(* Instances of DaemonSession for TLC. *)
EXTENDS DaemonSession
CONSTANTS r1, r2
OneRequest  == {r1}
TwoRequests == {r1, r2}
=============================================================================
