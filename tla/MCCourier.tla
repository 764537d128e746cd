------------------------------- MODULE MCCourier -------------------------------
(* Instances of Courier for TLC. *)
EXTENDS Courier
CONSTANTS r1, r2, e1, e2, e3, c1, c2
TwoReplicas == {r1, r2}
Letters     == {e1, e2, e3}
TwoCaps     == {c1, c2}
BothOrders  == (e1 :> <<r1, r2>>) @@ (e2 :> <<r2, r1>>) @@ (e3 :> <<r1, r2>>)
Now         == [e \in Letters |-> 1]
TwoStreams  == (c1 :> <<e1, e2>>) @@ (c2 :> <<e3>>)
TwoShards   == (c1 :> <<r1, r2>>) @@ (c2 :> <<r2, r1>>)
Lengths     == (e1 :> 2) @@ (e2 :> 1) @@ (e3 :> 1)
Quiet == [ask |-> {}, copy |-> {}, away |-> {}, down |-> {}, lagging |-> {}, keyless |-> {}, taken |-> {},
          faults |-> 0, losses |-> 0, decoys |-> 0, documents |-> 0, weeks |-> 0, ages |-> 0,
          crashes |-> 0]

Asked  == [Quiet EXCEPT !.ask = {e1}]
Copied == [Quiet EXCEPT !.copy = {c1}]
(* What the courier meets on its way: refusals and errors of replicas, lost connections,
   its own restart, a shard that lags or has no key, a taken destination, a replica that
   leaves the documents, the change of the replica epoch, the end of a cache's TTL. *)
Everyday ==
    {[Asked EXCEPT !.faults = 2, !.losses = 1],
     [Asked EXCEPT !.documents = 2],
     [Asked EXCEPT !.weeks = 2],
     [Quiet EXCEPT !.ask = {e1, e2}, !.ages = 1],
     [Quiet EXCEPT !.ask = {e1, e2}, !.decoys = 1],
     [Quiet EXCEPT !.copy = {c2}, !.ages = 1],
     [Copied EXCEPT !.faults = 1],
     [Copied EXCEPT !.losses = 1],
     [Copied EXCEPT !.crashes = 1],
     [Copied EXCEPT !.lagging = {r1}],
     [Copied EXCEPT !.keyless = {r1}],
     [Copied EXCEPT !.taken = {e2}],
     [Copied EXCEPT !.lagging = {r1}, !.ages = 1]}

(* A replica to which no connection exists yet, and one that cannot be reached. *)
Starting    == {[Asked EXCEPT !.away = {r1}]}
Unreachable == {[Copied EXCEPT !.down = {r2}]}
Untroubled  == {Copied}
=============================================================================
