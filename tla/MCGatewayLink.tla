----------------------------- MODULE MCGatewayLink -----------------------------
(* Instances of GatewayLink for TLC. *)
EXTENDS GatewayLink
CONSTANTS g1, g2
TwoGateways == {g1, g2}
OneGateway  == {g1}
AlwaysOne   == [e \in 1..2 |-> {g1}]
OneIsLost   == [e \in 1..2 |-> IF e = 1 THEN {g1, g2} ELSE {g2}]
Quiet == [breaks |-> 0, timeouts |-> 0, writes |-> 0, pushes |-> 0, sends |-> 1, early |-> 0,
          slow |-> FALSE]
Everyday ==
    {[Quiet EXCEPT !.breaks = 1],
     [Quiet EXCEPT !.pushes = 1, !.early = 1, !.sends = 0],
     [Quiet EXCEPT !.timeouts = 1, !.sends = 0, !.slow = TRUE],
     [Quiet EXCEPT !.writes = 1, !.breaks = 1, !.slow = TRUE]}
Slow  == {[Quiet EXCEPT !.timeouts = 1, !.breaks = 1]}
Fails == {[Quiet EXCEPT !.writes = 1, !.breaks = 1]}
Still == {Quiet}
=============================================================================
