-------------------------------- MODULE MCReplica --------------------------------
(* Instances of Replica for TLC: three replicas and four boxes, of which A and B are the
   shards of b1 to b3 and C is none, and up to three messages; in all scenarios but the last,
   they ask for b1. *)
EXTENDS Replica

CONSTANTS A, B, C, b1, b2, b3, b4, p1, p2, m1, m2, m3   \* model values

TheReplicas == {A, B, C}
FourBoxes   == {b1, b2, b3, b4}
TwoWrites   == {p1, p2}
Three       == {m1, m2, m3}
TheWorkers  == Handlers \cup Links
TheHomes    == [w \in TheWorkers |-> w[2]]
AllShards   == [b \in Boxes |-> IF b = b4 THEN {B, C} ELSE {A, B}]

Ask(r, kind, v)  == [at |-> r, kind |-> kind, box |-> b1, value |-> v]
Nothing          == Ask(A, "none", None)
Asks(q1, q2, q3) == [m \in Messages |-> CASE m = m1 -> q1 [] m = m2 -> q2 [] OTHER -> q3]

Play(asks, sets, cut, breaks, deaths) ==
    [ask |-> asks, docs |-> sets, deaf |-> cut, faults |-> breaks, crashes |-> deaths, weeks |-> 0]

Steady  == <<{A, B}>>
Joining == <<{A}, {A, B}>>
Leaving == <<{A, B}, {A}>>
Through == <<{A, C}>>

WriteA   == Ask(A, "write", p1)
WriteB   == Ask(B, "write", p2)
WriteC   == Ask(C, "write", p1)
ReadC    == Ask(C, "read", None)
EraseA   == Ask(A, "write", Tombstone)

\* Two couriers write the box on its two shards, and a third reads or erases it.
Conflict == Play(Asks(WriteA, WriteB, EraseA), Steady, {}, 0, 0)
Broken   == Play(Asks(WriteA, Ask(A, "write", p2), Nothing), Steady, {}, 1, 0)
\* A replica that is no shard passes on a write and a read.
Proxying == Play(Asks(WriteC, ReadC, Nothing), Through, {}, 0, 0)
Departure == Play(Asks(WriteA, Nothing, Nothing), Leaving, {B}, 0, 0)
Arrival   == Play(Asks(WriteA, Nothing, Nothing), Joining, {}, 0, 0)
Death     == Play(Asks(WriteA, Nothing, Nothing), Steady, {}, 0, 1)

\* The weeks pass over two writes and a tombstone on one replica.
Weeks     == [Play(Asks(WriteA, Ask(A, "write", p2), EraseA), <<{A}>>, {}, 0, 0) EXCEPT !.weeks = 2]

\* A box is written and erased while the links are down.
Erasure   == Play(Asks(WriteA, EraseA, Nothing), Steady, {}, 0, 1)

(* A replica in the middle of its life: A has stored and erased three boxes while B was slow and
   the link from A to B broke again and again. Two writes are in the retry queue and all the
   channels of the connection are full; the messages that asked for this are answered. Now the
   connection has broken once more with a write on the wire, or B has answered this write with a
   database failure. Then m1 asks A for a box of B and C. *)
Reconnect == Play(Asks([ReadC EXCEPT !.at = A, !.box = b4], Nothing, Nothing), Steady, {}, 3, 0)
Backlog   == [at |-> "failed", ch |-> <<Write(b3, Tombstone)>>, held |-> Write(b2, Tombstone),
              out |-> <<Write(b1, Tombstone)>>, wire |-> Write(b3, p1), got |-> None]
Midway ==
    /\ scenario = Reconnect /\ faults = 0 /\ crashes = 0 /\ epoch = 0
    /\ db = [r \in Replicas |-> [e \in Epochs |-> [b \in Boxes |->
               IF r = A /\ e = 0 /\ b # b4 THEN Tombstone ELSE None]]]
    /\ boxLocks = [r \in Replicas |-> [b \in Boxes |-> None]]
    /\ storageFull = [r \in Replicas |-> FALSE]
    /\ call = [w \in Workers |-> Idle] /\ answer = [w \in Workers |-> "pending"]
    /\ handler = [h \in Handlers |-> "idle"]
    /\ reply = [m \in Messages |-> "none"] /\ pending = [h \in Handlers |-> "none"]
    /\ \E link \in {Backlog, [Backlog EXCEPT !.at = "up", !.got = "dbFailure"]} :
          conns = [l \in Links |-> CASE l = <<A, B>> -> link
                                     [] l = <<B, A>> -> [Closed EXCEPT !.at = "up"]
                                     [] OTHER -> Closed]
    /\ retryQueue = [r \in Replicas |->
          IF r = A THEN <<<<B, Write(b1, p1)>>, <<B, Write(b2, p1)>>>> ELSE <<>>]
    /\ retrying = [r \in Replicas |-> 0] /\ sending = {} /\ lost = {}
    /\ owed = {<<<<A, B>>, b, v>> : b \in Boxes \ {b4}, v \in {p1, Tombstone}}
    /\ published = 1
    /\ docs = [r \in Replicas |-> {1}] /\ results = [r \in Replicas |-> <<>>]
    /\ members = [r \in Replicas |-> Docs[1]]
    /\ scan = [r \in Replicas |-> NoScan] /\ marker = [r \in Replicas |-> Docs[1]]
    /\ booting = [r \in Replicas |-> FALSE]

\* FairSpec, from the beginning or from there.
FairSpecs == (Init \/ Midway) /\ [][Next]_vars /\ Fairness

Everyday == {Conflict, Broken, Proxying, Arrival, Departure, Death, Weeks}
Arrivals == {Arrival}
Departures == {Departure}
Erasures == {Erasure}
=================================================================================
