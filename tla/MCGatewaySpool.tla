---------------------------- MODULE MCGatewaySpool ----------------------------
(* Instances of GatewaySpool for TLC. *)
EXTENDS GatewaySpool

CONSTANTS m1, m2, m3   \* model values

ThreeMessages == {m1, m2, m3}
NoMessage     == {}
Play(there, new, breaks, late, twins, old, gcs) ==
    [spooled |-> there, coming |-> new, drops |-> breaks, slow |-> late, overlaps |-> twins,
     stale |-> old, vacuums |-> gcs]

\* One connection ends before the next one begins ...
InTurn == {Play(<<>>, {m1, m2}, 1, 0, 0, 0, 1), Play(<<>>, {m1, m2}, 0, 1, 0, 1, 0)}
\* ... or the next one has begun: two senders, and workers that close each other's connection.
Meeting == {Play(<<m1, m2, m3>>, {}, 1, 0, 1, 0, 0), Play(<<m1>>, {m2}, 1, 0, 1, 0, 0)}

Everyday == InTurn \cup Meeting
===============================================================================
