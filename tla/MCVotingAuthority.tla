-------------------------- MODULE MCVotingAuthority --------------------------
(* Small instances of VotingAuthority for TLC. *)
EXTENDS VotingAuthority, TLC

CONSTANTS a1, a2, a3, m1, m2

ThreeAuthorities == {a1, a2, a3}
TwoAuthorities == {a1, a2}
OneBallot == {{m1}}
TwoBallots == {{m1}, {m2}}
FullBallots == {{m1}, {m1, m2}}

Symmetry == Permutations(ThreeAuthorities)
==============================================================================
