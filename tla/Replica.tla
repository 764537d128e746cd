--------------------------------- MODULE Replica ---------------------------------
(* The storage replicas of one network (replica/): each serves the couriers' messages
   from its box store (ReplicaStore), replicates what it wrote to the other shard of the
   box, passes on what belongs to others, and copies its boxes when the set of replicas
   changes.

   A command to a peer goes through a channel of the connection object, a paced sender,
   a second channel and the wire, where one command at a time waits for its reply; the
   object outlives its TCP connections and is removed when the peer leaves the document.
   What cannot be delivered is kept in a retry queue, in memory.

   Abstracted: envelopes and their keys (see EnvelopeKeys); decoys; the order of two
   shards; the age of a queued command. A client's message is known by its number.    *)
EXTENDS ReplicaStore, Sequences, SequencesExt

CONSTANTS Messages,     \* messages of couriers
          Scenarios,    \* what the messages ask, the replicas on line in each document,
                        \* the replicas that hear of no new one, and bounds: connections
                        \* and databases that fail, replicas that die, weeks
          ShardsOf,     \* each box: the configured replicas it belongs to
          QueueSize,    \* OutgoingQueueSize
          RetrySize,    \* maxRetryQueuePerPeer
          Slots         \* ProxyWorkerCount

Links    == {l \in Replicas \X Replicas : l[1] # l[2]}
Handlers == Messages \X Replicas

Replies  == Answers \cup {"failed", "error"}
Requests == [at : Replicas, kind : {"none", "read", "write"}, box : Boxes, value : Values \cup {None}]

ASSUME ReplicaAssumption ==
    /\ Workers = Handlers \cup Links /\ Messages \cap Replicas = {}
    /\ \A w \in Workers : Home[w] = w[2]
    /\ None \notin Replies \cup {"taken"}
    /\ ShardsOf \in [Boxes -> SUBSET Replicas]
    /\ QueueSize \in Nat \ {0} /\ RetrySize \in Nat \ {0} /\ Slots \in Nat \ {0}
    /\ \A s \in Scenarios :
          /\ s.ask \in [Messages -> Requests]
          /\ \A m \in Messages : s.ask[m].kind = "write" <=> s.ask[m].value # None
          /\ \A d \in DOMAIN s.docs : s.docs[d] \subseteq Replicas
          /\ s.deaf \subseteq Replicas /\ {s.faults, s.crashes, s.weeks} \subseteq Nat

VARIABLES scenario,     \* never changes
          handler,      \* the goroutine of a message on a replica
          reply,        \* what the courier was told
          pending,      \* proxyManager: the reply channel of each handler that proxies
          conns,        \* the connection object of each link
          retryQueue,   \* of each replica
          retrying,     \* 1 + the position of processRetryQueue, which holds the mutex
          sending,      \* DispatchCommand calls under way
          published,    \* the latest consensus document
          docs, results,\* each replica: documents cached, documents fetched and unprocessed
          members,      \* its ReplicaMap
          scan,         \* its rebalance
          marker,       \* the replica set it has last rebalanced for, on disk
          booting,      \* the start has not come to maybeStartupRebalance yet
          faults, crashes,  \* what the bounds leave
          owed, lost    \* ghosts: what an acknowledged write owes to a peer; commands dropped

msgVars  == <<scenario, handler, reply, pending>>
connVars == <<conns, retryQueue, retrying, lost>>
pkiVars  == <<published, docs, results, members, scan, marker, booting>>
bounds   == <<faults, crashes>>
vars     == <<storeVars, msgVars, connVars, sending, owed, pkiVars, bounds>>

Write(b, v) == [box |-> b, value |-> v, msg |-> None]
Proxied(h)  == [box |-> None, value |-> None, msg |-> h]
Commands    == {Write(b, v) : b \in Boxes, v \in Values} \cup {Proxied(h) : h \in Handlers}

request == scenario.ask     \* of each message: the replica, the kind, the box, the value
Docs    == scenario.docs

\* A replica that is in no document does not run.
Running(r) == \E d \in DOMAIN Docs : r \in Docs[d]
Hears(r)   == Running(r) /\ r \notin scenario.deaf

Closed == [at |-> "none", ch |-> <<>>, held |-> None, out |-> <<>>, wire |-> None, got |-> None]
NoScan == [at |-> "idle", new |-> {}, old |-> {}, complete |-> TRUE]

TypeOK ==
    /\ StoreTypeOK
    /\ handler \in [Handlers -> {"idle", "waiting", "running", "asked", "proxying", "done"}]
    /\ reply \in [Messages -> Replies \cup {"none"}]
    /\ pending \in [Handlers -> Replies \cup {"none", "open", "closed"}]
    /\ \A l \in Links :
          /\ conns[l].at \in {"none", "dialing", "up", "leaving", "failed", "draining", "drained"}
          /\ \A q \in {conns[l].ch, conns[l].out} : q \in Seq(Commands) /\ Len(q) <= QueueSize
          /\ {conns[l].held, conns[l].wire} \subseteq Commands \cup {None}
          /\ conns[l].got \in Replies \cup {None, "taken"}
    /\ \A r \in Replicas :
          /\ retryQueue[r] \in Seq(Replicas \X Commands)
          /\ retrying[r] \in 0..(Len(retryQueue[r]) + 2)
          /\ docs[r] \subseteq DOMAIN Docs /\ members[r] \subseteq Replicas
          /\ results[r] \in Seq(DOMAIN Docs) /\ scan[r].at \in {"idle", "pki", "boot"}
    /\ \A s \in sending : s.link \in Links /\ s.cmd \in Commands /\ s.at \in {"lookup", "send", "panic"}
    /\ published \in DOMAIN Docs /\ lost \subseteq Links \X Commands /\ owed \subseteq Links \X Boxes \X Values
    /\ faults \in 0..scenario.faults /\ crashes \in 0..scenario.crashes

\* Every replica runs with the first document and a connection object for each member.
Init ==
    /\ StoreInit
    /\ scenario \in Scenarios
    /\ handler = [h \in Handlers |-> "idle"]
    /\ reply = [m \in Messages |-> "none"] /\ pending = [h \in Handlers |-> "none"]
    /\ conns = [l \in Links |-> IF {l[1], l[2]} \subseteq Docs[1]
                                THEN [Closed EXCEPT !.at = "dialing"] ELSE Closed]
    /\ retryQueue = [r \in Replicas |-> <<>>] /\ retrying = [r \in Replicas |-> 0]
    /\ sending = {} /\ lost = {} /\ owed = {}
    /\ published = 1
    /\ docs = [r \in Replicas |-> {1}] /\ results = [r \in Replicas |-> <<>>]
    /\ members = [r \in Replicas |-> Docs[1]]
    /\ scan = [r \in Replicas |-> NoScan] /\ marker = [r \in Replicas |-> Docs[1]]
    /\ booting = [r \in Replicas |-> FALSE]
    /\ faults = scenario.faults /\ crashes = scenario.crashes

(* ------------------------------------ documents ---------------------------------- *)

\* LastCachedPKIDocument; 0 when there is none.
LastDoc(S) == IF S = {} THEN 0 ELSE CHOOSE d \in S : \A e \in S : e <= d

\* The replicas of a document.
Online(d) == IF d = 0 THEN {} ELSE Docs[d]

\* GetShards: the configured shards of a box that are on line.
GetShards(b, d) == ShardsOf[b] \cap Online(d)

Shards(r, b) == GetShards(b, LastDoc(docs[r]))

(* ------------------------------- connector: dispatch ----------------------------- *)

Sending(by, l, c, at) == [by |-> by, link |-> l, cmd |-> c, at |-> at]

\* cmdIdentity: two writes to one box are the same command.
SameIdentity(c, d) == c.msg = d.msg /\ c.box = d.box

\* A queue without the first of the entries at positions S.
WithoutFirst(q, S) ==
    [i \in 1..(Len(q) - 1) |-> IF \E j \in S : j <= i THEN q[i + 1] ELSE q[i]]

\* QueueForRetry: the new command replaces one of the same identity; a full queue loses
\* its oldest entry for that peer.
Requeue(q, p, c) ==
    LET mine == {i \in DOMAIN q : q[i][1] = p}
        same == {i \in mine : SameIdentity(q[i][2], c)} IN
    IF same # {} THEN [i \in DOMAIN q |-> IF i \in same THEN <<p, c>> ELSE q[i]]
    ELSE IF Cardinality(mine) >= RetrySize
         THEN Append(WithoutFirst(q, mine), <<p, c>>)
         ELSE Append(q, <<p, c>>)

Evicted(q, p, c) ==
    {e \in ToSet(q) : e[1] = p /\ ~SameIdentity(e[2], c) /\ e \notin ToSet(Requeue(q, p, c))}

\* retryQueueMu is free.
MuFree(r) == retrying[r] = 0

\* With more: what the caller drops at the same time.
QueueForRetry(l, c, more) ==
    /\ MuFree(l[1])
    /\ retryQueue' = [retryQueue EXCEPT ![l[1]] = Requeue(@, l[2], c)]
    /\ lost' = lost \cup more \cup {<<l, e[2]>> : e \in Evicted(retryQueue[l[1]], l[2], c)}
    /\ UNCHANGED retrying

Room(q) == Len(q) < QueueSize

\* DispatchCommand looks the connection up; without one the command is queued.
Lookup(s) ==
    LET l == s.link IN
    /\ s \in sending /\ s.at = "lookup"
    /\ IF conns[l].at # "none"
       THEN sending' = (sending \ {s}) \cup {[s EXCEPT !.at = "send"]} /\ UNCHANGED connVars
       ELSE QueueForRetry(l, s.cmd, {}) /\ sending' = sending \ {s} /\ UNCHANGED conns
    /\ UNCHANGED <<storeVars, msgVars, owed, pkiVars, bounds>>

\* dispatchCommand puts the command into the channel, when there is room.
SendToChannel(s) ==
    LET l == s.link IN
    /\ s \in sending /\ s.at = "send" /\ Room(conns[l].ch)
    /\ conns' = [conns EXCEPT ![l].ch = Append(@, s.cmd)]
    /\ sending' = sending \ {s}
    /\ UNCHANGED <<storeVars, msgVars, retryQueue, retrying, lost, owed, pkiVars, bounds>>

\* A retry that is blocked on a channel.
Retrying(r) == {s \in sending : s.by = <<"retry">> /\ s.link[1] = r}

\* processRetryQueue, newest entry first, with the mutex held from begin to end. (A pass
\* that finds no connection changes nothing.)
ProcessRetryQueue(r) ==
    /\ MuFree(r)
    /\ \E i \in DOMAIN retryQueue[r] : conns[<<r, retryQueue[r][i][1]>>].at # "none"
    /\ retrying' = [retrying EXCEPT ![r] = Len(retryQueue[r]) + 1]
    /\ UNCHANGED <<storeVars, msgVars, conns, retryQueue, lost, sending, owed, pkiVars, bounds>>

RetryNext(r) ==
    LET i == retrying[r] - 1
        l == <<r, retryQueue[r][i][1]>> IN
    /\ retrying[r] > 1 /\ Retrying(r) = {}
    /\ retrying' = [retrying EXCEPT ![r] = i]
    /\ IF conns[l].at # "none"
       THEN /\ sending' = sending \cup {Sending(<<"retry">>, l, retryQueue[r][i][2], "send")}
            /\ retryQueue' = [retryQueue EXCEPT ![r] = WithoutFirst(@, {i})]
       ELSE UNCHANGED <<sending, retryQueue>>
    /\ UNCHANGED <<storeVars, msgVars, conns, lost, owed, pkiVars, bounds>>

RetryEnds(r) ==
    /\ retrying[r] = 1 /\ Retrying(r) = {}
    /\ retrying' = [retrying EXCEPT ![r] = 0]
    /\ UNCHANGED <<storeVars, msgVars, conns, retryQueue, lost, sending, owed, pkiVars, bounds>>

(* ------------------------------ connector: connections --------------------------- *)

\* spawnNewConns, for one peer.
SpawnConn(l) ==
    /\ conns[l].at = "none" /\ l[2] \in members[l[1]]
    /\ conns' = [conns EXCEPT ![l] = [Closed EXCEPT !.at = "dialing"]]
    /\ UNCHANGED <<storeVars, msgVars, retryQueue, retrying, lost, sending, owed, pkiVars, bounds>>

\* The dial loop: connect to a peer that accepts us, or give up one that has left.
Connect(l) ==
    /\ conns[l].at = "dialing"
    /\ conns' = [conns EXCEPT ![l].at = IF l[2] \in members[l[1]] THEN "up" ELSE "draining"]
    /\ l[2] \in members[l[1]] => l[1] \in members[l[2]]
    /\ UNCHANGED <<storeVars, msgVars, retryQueue, retrying, lost, sending, owed, pkiVars, bounds>>

\* The end of the connection object: its channel is emptied into the retry queue ...
DrainTake(l) ==
    LET k == conns[l] IN
    /\ k.at = "draining" /\ k.held = None
    /\ conns' = [conns EXCEPT ![l] = IF k.ch = <<>> THEN [k EXCEPT !.at = "drained"]
                                     ELSE [k EXCEPT !.held = Head(k.ch), !.ch = Tail(k.ch)]]
    /\ UNCHANGED <<storeVars, msgVars, retryQueue, retrying, lost, sending, owed, pkiVars, bounds>>

DrainQueue(l) ==
    /\ conns[l].at = "draining" /\ conns[l].held # None
    /\ QueueForRetry(l, conns[l].held, {})
    /\ conns' = [conns EXCEPT ![l].held = None]
    /\ UNCHANGED <<storeVars, msgVars, sending, owed, pkiVars, bounds>>

\* ... then it is unregistered and the channel closed: what was put there since is gone,
\* and who is about to send there will panic.
OnClosedConn(l) ==
    /\ conns[l].at = "drained"
    /\ conns' = [conns EXCEPT ![l] = Closed]
    /\ lost' = lost \cup {<<l, c>> : c \in ToSet(conns[l].ch)}
    /\ sending' = {IF s.link = l /\ s.at = "send" THEN [s EXCEPT !.at = "panic"] ELSE s : s \in sending}
    /\ UNCHANGED <<storeVars, msgVars, retryQueue, retrying, owed, pkiVars, bounds>>

\* The paced sender moves a command from one channel to the next, or holds it.
Pace(l) ==
    LET k == conns[l]
        room == Room(k.out) IN
    /\ k.at \in {"up", "failed"}
    /\ \/ /\ k.held = None /\ k.ch # <<>>
          /\ conns' = [conns EXCEPT ![l] =
                IF room THEN [k EXCEPT !.ch = Tail(k.ch), !.out = Append(k.out, Head(k.ch))]
                ELSE [k EXCEPT !.ch = Tail(k.ch), !.held = Head(k.ch)]]
       \/ /\ k.held # None /\ room
          /\ conns' = [conns EXCEPT ![l] = [k EXCEPT !.held = None, !.out = Append(k.out, k.held)]]
    /\ UNCHANGED <<storeVars, msgVars, retryQueue, retrying, lost, sending, owed, pkiVars, bounds>>

\* egressWorker: one command at a time is on the wire.
EgressSend(l) ==
    LET k == conns[l] IN
    /\ k.at \in {"up", "leaving"} /\ k.wire = None /\ k.out # <<>>
    /\ conns' = [conns EXCEPT ![l] = [k EXCEPT !.wire = Head(k.out), !.out = Tail(k.out)]]
    /\ UNCHANGED <<storeVars, msgVars, retryQueue, retrying, lost, sending, owed, pkiVars, bounds>>

\* The reply to a write decides whether it is tried again; the reply to a message goes to
\* the handler that waits for it, if its entry is still there.
EgressRecv(l) ==
    LET k == conns[l]
        h == k.wire.msg IN
    /\ k.at \in {"up", "leaving"} /\ k.got \in Replies
    /\ conns' = [conns EXCEPT ![l] = [k EXCEPT !.wire = None, !.got = None]]
    /\ IF h = None
       THEN /\ IF k.got = "dbFailure" THEN QueueForRetry(l, k.wire, {})
               ELSE /\ lost' = IF k.got \in {"ok", "exists"} THEN lost ELSE lost \cup {<<l, k.wire>>}
                    /\ UNCHANGED <<retryQueue, retrying>>
            /\ UNCHANGED pending
       ELSE /\ pending' = [pending EXCEPT ![h] = IF @ = "open" THEN k.got ELSE @]
            /\ UNCHANGED <<retryQueue, retrying, lost>>
    /\ UNCHANGED <<storeVars, scenario, handler, reply, sending, owed, pkiVars, bounds>>

\* The TCP connection breaks, or the peer does not know us any more.
Break(l) ==
    /\ conns[l].at = "up"
    /\ \/ l[1] \notin members[l[2]] /\ UNCHANGED faults
       \/ faults > 0 /\ faults' = faults - 1
    /\ conns' = [conns EXCEPT ![l].at = "failed"]
    /\ UNCHANGED <<storeVars, msgVars, retryQueue, retrying, lost, sending, owed, pkiVars, crashes>>

(* Fault: the command on the wire is forgotten. *)
FaultyUnfinished(k) == None

Unfinished(k) == k.wire

\* The egress worker queues the command it could not complete and ends; the sender is
\* halted, and what it holds and has passed on is dropped with the connection.
EgressFails(l) ==
    LET k == conns[l]
        drop == {<<l, c>> : c \in ToSet(k.out) \cup ({k.held} \ {None})} IN
    /\ k.at = "failed"
    /\ conns' = [conns EXCEPT ![l] = [Closed EXCEPT !.at = "dialing", !.ch = k.ch]]
    /\ IF Unfinished(k) # None THEN QueueForRetry(l, Unfinished(k), drop)
       ELSE lost' = lost \cup drop /\ UNCHANGED <<retryQueue, retrying>>
    /\ UNCHANGED <<storeVars, msgVars, sending, owed, pkiVars, bounds>>

\* The reauthentication finds that the peer has left: the egress worker sends what it has,
\* or queues it.
Reauthenticate(l) ==
    LET k == conns[l] IN
    /\ k.at = "up" /\ l[2] \notin members[l[1]]
    /\ conns' = [conns EXCEPT ![l] = [k EXCEPT !.at = "leaving", !.held = None]]
    /\ lost' = lost \cup {<<l, c>> : c \in {k.held} \ {None}}
    /\ UNCHANGED <<storeVars, msgVars, retryQueue, retrying, sending, owed, pkiVars, bounds>>

Undelivered(l) ==
    /\ conns[l].at = "leaving" /\ conns[l].wire # None
    /\ QueueForRetry(l, conns[l].wire, {})
    /\ conns' = [conns EXCEPT ![l] = [@ EXCEPT !.wire = None, !.got = None]]
    /\ UNCHANGED <<storeVars, msgVars, sending, owed, pkiVars, bounds>>

Left(l) ==
    /\ conns[l].at = "leaving" /\ conns[l].wire = None /\ conns[l].out = <<>>
    /\ conns' = [conns EXCEPT ![l].at = "dialing"]
    /\ UNCHANGED <<storeVars, msgVars, retryQueue, retrying, lost, sending, owed, pkiVars, bounds>>

Connection(l) ==
    \/ SpawnConn(l) \/ Connect(l) \/ DrainTake(l) \/ DrainQueue(l) \/ OnClosedConn(l) \/ Pace(l)
    \/ EgressSend(l) \/ EgressRecv(l) \/ EgressFails(l) \/ Reauthenticate(l) \/ Left(l)

(* ------------------------------ the peer's connection ---------------------------- *)

\* The command loop of the peer runs a write itself, and a message in a goroutine of its
\* own. (A copy waits for the goroutine that serves the first one.)
TakeWrite(l) ==
    LET c == conns[l].wire IN
    /\ conns[l].at \in {"up", "leaving"} /\ conns[l].got = None
    /\ c # None /\ c.msg = None
    /\ Call(l, "write", c.box, c.value)
    /\ conns' = [conns EXCEPT ![l].got = "taken"]
    /\ UNCHANGED <<msgVars, retryQueue, retrying, lost, sending, owed, pkiVars, bounds>>

TakeMessage(l) ==
    LET c == conns[l].wire IN
    /\ conns[l].at \in {"up", "leaving"} /\ conns[l].got = None
    /\ c # None /\ c.msg # None
    /\ LET h == <<c.msg[1], l[2]>> IN
          /\ handler[h] \in {"idle", "done"}
          /\ handler' = [handler EXCEPT ![h] = "waiting"]
    /\ conns' = [conns EXCEPT ![l].got = "taken"]
    /\ UNCHANGED <<storeVars, scenario, reply, pending, retryQueue, retrying, lost, sending,
                   owed, pkiVars, bounds>>

WriteReply(l) ==
    LET c == conns[l].wire IN
    /\ conns[l].got = "taken" /\ c # None /\ c.msg = None /\ call[l].at = "idle"
    /\ conns' = [conns EXCEPT ![l].got = answer[l]]
    /\ UNCHANGED <<storeVars, msgVars, retryQueue, retrying, lost, sending, owed, pkiVars, bounds>>

(* ------------------------------- messages of couriers ---------------------------- *)

Arrive(m) ==
    LET h == <<m, request[m].at>> IN
    /\ handler[h] = "idle" /\ reply[m] = "none" /\ request[m].kind # "none"
    /\ handler' = [handler EXCEPT ![h] = "waiting"]
    /\ UNCHANGED <<storeVars, scenario, reply, pending, connVars, sending, owed, pkiVars, bounds>>

(* Fault: a handler that has replied keeps its slot. *)
FaultyBusy(r) == {h \in Handlers : h[2] = r /\ handler[h] \notin {"idle", "waiting"}}

\* The goroutines that hold a slot of proxySema.
Busy(r) == {h \in Handlers : h[2] = r /\ handler[h] \in {"running", "asked", "proxying"}}

TakeSlot(h) ==
    /\ handler[h] = "waiting" /\ Cardinality(Busy(h[2])) < Slots
    /\ handler' = [handler EXCEPT ![h] = "running"]
    /\ UNCHANGED <<storeVars, scenario, reply, pending, connVars, sending, owed, pkiVars, bounds>>

\* The handler ends with reply a, for the courier or for the replica that proxies.
Replied(h, a) ==
    LET m == h[1]
        from == {l \in Links : /\ l[2] = h[2] /\ conns[l].got = "taken"
                               /\ conns[l].wire # None /\ conns[l].wire.msg # None
                               /\ conns[l].wire.msg[1] = m} IN
    /\ handler' = [handler EXCEPT ![h] = "done"]
    /\ reply' = IF h[2] = request[m].at THEN [reply EXCEPT ![m] = a] ELSE reply
    /\ conns' = [l \in Links |-> IF l \in from THEN [conns[l] EXCEPT !.got = a] ELSE conns[l]]
    /\ UNCHANGED <<scenario, retryQueue, retrying, lost>>

\* handleReplicaMessage without a document, without a place in it, or without a shard.
Refuse(h) ==
    LET d == LastDoc(docs[h[2]]) IN
    /\ handler[h] = "running"
    /\ h[2] \notin Online(d) \/ Shards(h[2], request[h[1]].box) = {}
    /\ Replied(h, "error")
    /\ UNCHANGED <<storeVars, pending, sending, owed, pkiVars, bounds>>

\* A shard of the box serves it from its store ...
Serve(h) ==
    LET q == request[h[1]] IN
    /\ handler[h] = "running" /\ h[2] \in Shards(h[2], q.box)
    /\ Call(h, q.kind, q.box, q.value)
    /\ handler' = [handler EXCEPT ![h] = "asked"]
    /\ UNCHANGED <<scenario, reply, pending, connVars, sending, owed, pkiVars, bounds>>

\* DispatchReplication: a write that went well is sent to the other shard on line.
DispatchReplication(r, b, v) ==
    {Sending(<<"replication">>, <<r, t>>, Write(b, v), "lookup") : t \in Shards(r, b) \ {r}}

Served(h) ==
    LET q == request[h[1]]
        wrote == q.kind = "write" /\ answer[h] = "ok" IN
    /\ handler[h] = "asked" /\ call[h].at = "idle"
    /\ Replied(h, answer[h])
    /\ sending' = IF wrote THEN sending \cup DispatchReplication(h[2], q.box, q.value) ELSE sending
    /\ owed' = IF wrote THEN owed \cup {<<<<h[2], t>>, q.box, q.value>> : t \in Shards(h[2], q.box) \ {h[2]}}
               ELSE owed
    /\ UNCHANGED <<storeVars, pending, pkiVars, bounds>>

\* ... and any other replica asks a shard: sendProxyRequestSync.
Proxy(h) ==
    LET r == h[2]
        b == request[h[1]].box IN
    /\ handler[h] = "running" /\ r \in Online(LastDoc(docs[r]))
    /\ r \notin Shards(r, b)
    /\ \E t \in Shards(r, b) : sending' = sending \cup {Sending(h, <<r, t>>, Proxied(h), "lookup")}
    /\ pending' = [pending EXCEPT ![h] = "open"]
    /\ handler' = [handler EXCEPT ![h] = "proxying"]
    /\ UNCHANGED <<storeVars, scenario, reply, connVars, owed, pkiVars, bounds>>

\* The wait of the handler begins when DispatchCommand has returned: the reply, a closed
\* channel, or ProxyRequestTimeout.
Await(h) == handler[h] = "proxying" /\ ~\E s \in sending : s.by = h

ProxyReply(h) ==
    /\ Await(h) /\ pending[h] \in Replies \cup {"closed"}
    /\ Replied(h, IF pending[h] = "closed" THEN "failed" ELSE pending[h])
    /\ UNCHANGED <<storeVars, pending, sending, owed, pkiVars, bounds>>

ProxyTimeout(h) ==
    /\ Await(h) /\ Replied(h, "failed")
    /\ UNCHANGED <<storeVars, pending, sending, owed, pkiVars, bounds>>

CleanupExpiredRequests(h) ==
    /\ pending[h] = "open" /\ pending' = [pending EXCEPT ![h] = "closed"]
    /\ UNCHANGED <<storeVars, scenario, handler, reply, connVars, sending, owed, pkiVars, bounds>>

Handle(h) ==
    TakeSlot(h) \/ Refuse(h) \/ Serve(h) \/ Served(h) \/ Proxy(h) \/ ProxyReply(h) \/ ProxyTimeout(h)

(* ---------------------------- PKI worker and rebalance --------------------------- *)

Publish ==
    /\ published < Len(Docs) /\ published' = published + 1
    /\ UNCHANGED <<storeVars, msgVars, connVars, sending, owed, docs, results, members, scan, marker,
                   booting, bounds>>

NewestFirst(S) == SetToSortSeq(S, >)

\* FetchDocuments: those of the last three epochs that are missing, the newest first; some
\* fetches may fail.
Fetch(r) ==
    /\ Hears(r) /\ results[r] = <<>> /\ scan[r].at = "idle"
    /\ \E S \in SUBSET (({published - i : i \in 0..2} \cap DOMAIN Docs) \ docs[r]) :
          /\ S # {} /\ results' = [results EXCEPT ![r] = NewestFirst(S)]
    /\ UNCHANGED <<storeVars, msgVars, connVars, sending, owed, published, docs, members, scan, marker,
                   booting, bounds>>

\* StoreDocument and PruneDocuments.
Stored(S, d) == {e \in S \cup {d} : e + 2 >= published}

\* Rebalance: what the kept epochs hold, newest first, for the other shards of each box in
\* the last cached document; a box without a shard ends it early.
ScanOf(r, by) ==
    LET others == {bt \in Boxes \X Replicas : bt[2] \in Shards(r, bt[1]) \ {r}}
        sends(e) == {<<bt[2], Write(bt[1], db[r][e][bt[1]])>> :
                        bt \in {x \in others : db[r][e][x[1]] # None}} IN
    [at |-> by, new |-> sends(epoch), old |-> IF epoch = 0 THEN {} ELSE sends(epoch - 1),
     complete |-> docs[r] = {} \/ \A b \in Boxes : Visible(r, b) = None \/ Shards(r, b) # {}]

\* updateReplicas comes before StoreDocument: a rebalance still sees the old documents.
ProcessDocument(r) ==
    LET d == Head(results[r]) IN
    /\ results[r] # <<>> /\ scan[r].at = "idle"
    /\ IF Docs[d] = members[r]
       THEN /\ docs' = [docs EXCEPT ![r] = Stored(@, d)]
            /\ results' = [results EXCEPT ![r] = Tail(@)]
            /\ UNCHANGED <<members, scan>>
       ELSE /\ members' = [members EXCEPT ![r] = Docs[d]]
            /\ scan' = [scan EXCEPT ![r] = ScanOf(r, "pki")]
            /\ UNCHANGED <<docs, results>>
    /\ UNCHANGED <<storeVars, msgVars, connVars, sending, owed, published, marker, booting, bounds>>

\* maybeStartupRebalance, skipped when there is no document or the set has not changed.
Boot(r) ==
    /\ booting[r] /\ scan[r].at = "idle"
    /\ booting' = [booting EXCEPT ![r] = FALSE]
    /\ IF published \in docs[r] /\ Online(LastDoc(docs[r])) # marker[r]
       THEN scan' = [scan EXCEPT ![r] = ScanOf(r, "boot")]
       ELSE UNCHANGED scan
    /\ UNCHANGED <<storeVars, msgVars, connVars, sending, owed, published, docs, results, members,
                   marker, bounds>>

Scanning(r) == scan[r].at # "idle" /\ ~\E s \in sending : s.by = <<"rebalance">> /\ s.link[1] = r

RebalanceNext(r) ==
    LET new == scan[r].new
        old == scan[r].old IN
    /\ Scanning(r)
    /\ \E x \in IF new # {} THEN new ELSE old :
          /\ scan' = [scan EXCEPT ![r] = [@ EXCEPT !.new = new \ {x},
                                                   !.old = IF new = {} THEN old \ {x} ELSE old]]
          /\ sending' = sending \cup {Sending(<<"rebalance">>, <<r, x[1]>>, x[2], "lookup")}
    /\ UNCHANGED <<storeVars, msgVars, connVars, owed, published, docs, results, members, marker,
                   booting, bounds>>

RebalanceEnds(r) ==
    /\ Scanning(r)
    /\ scan[r].complete => scan[r].new \cup scan[r].old = {}
    /\ marker' = IF scan[r].complete /\ docs[r] # {}
                 THEN [marker EXCEPT ![r] = Online(LastDoc(docs[r]))] ELSE marker
    /\ IF scan[r].at = "pki"
       THEN /\ docs' = [docs EXCEPT ![r] = Stored(@, Head(results[r]))]
            /\ results' = [results EXCEPT ![r] = Tail(@)]
       ELSE UNCHANGED <<docs, results>>
    /\ scan' = [scan EXCEPT ![r] = NoScan]
    /\ UNCHANGED <<storeVars, msgVars, connVars, sending, owed, published, members, booting, bounds>>

(* --------------------------------- crash, restart -------------------------------- *)

\* All but the store and the marker is gone; the goroutines of r on behalf of others end
\* without a reply and their connections break.
Restart(r) ==
    LET mine == {l \in Links : l[1] = r} IN
    /\ StoreCrash(r)
    /\ handler' = [h \in Handlers |-> IF h[2] = r /\ handler[h] # "idle" THEN "done" ELSE handler[h]]
    /\ pending' = [h \in Handlers |-> IF h[2] = r THEN "none" ELSE pending[h]]
    /\ lost' = lost \cup {<<o[1], Write(o[2], o[3])>> : o \in {o \in owed : o[1] \in mine}}
    /\ conns' = [l \in Links |-> IF l \in mine THEN Closed
                                 ELSE IF l[2] = r /\ conns[l].at \in {"up", "leaving"}
                                      THEN [conns[l] EXCEPT !.at = "failed", !.got = None] ELSE conns[l]]
    /\ retryQueue' = [retryQueue EXCEPT ![r] = <<>>] /\ retrying' = [retrying EXCEPT ![r] = 0]
    /\ sending' = {s \in sending : s.link[1] # r}
    /\ docs' = [docs EXCEPT ![r] = {}] /\ results' = [results EXCEPT ![r] = <<>>]
    /\ members' = [members EXCEPT ![r] = {}] /\ scan' = [scan EXCEPT ![r] = NoScan]
    /\ booting' = [booting EXCEPT ![r] = TRUE]
    /\ UNCHANGED <<scenario, reply, owed, published, marker, faults>>

Dies(r) == crashes > 0 /\ crashes' = crashes - 1 /\ Restart(r)

Crash(r) == Running(r) /\ Dies(r)

\* "send on closed channel" ends the process.
Panic(s) == s \in sending /\ s.at = "panic" /\ Restart(s.link[1]) /\ UNCHANGED crashes

(* ------------------------------------ behaviour ---------------------------------- *)

Store(w) ==
    /\ StoreStep(w)
    /\ UNCHANGED <<msgVars, connVars, sending, owed, pkiVars, bounds>>

StoreFault(w) ==
    /\ faults > 0 /\ faults' = faults - 1
    /\ DatabaseFails(w) \/ RefreshStorageFull(Home[w])
    /\ UNCHANGED <<msgVars, connVars, sending, owed, pkiVars, crashes>>

Weekly ==
    /\ (epoch < scenario.weeks /\ NextEpoch) \/ \E r \in Replicas : WipeStaleBoxes(r)
    /\ UNCHANGED <<msgVars, connVars, sending, owed, pkiVars, bounds>>

Deliver == \E s \in sending : Lookup(s) \/ SendToChannel(s)
Retry(r) == ProcessRetryQueue(r) \/ RetryNext(r) \/ RetryEnds(r)
PeerLoop(l) == TakeWrite(l) \/ TakeMessage(l) \/ WriteReply(l)
Pki(r) == Fetch(r) \/ ProcessDocument(r) \/ RebalanceNext(r) \/ RebalanceEnds(r)

Next ==
    \/ \E w \in Workers : Store(w) \/ StoreFault(w)
    \/ Weekly \/ Deliver \/ Publish
    \/ \E l \in Links : Connection(l) \/ PeerLoop(l) \/ Break(l) \/ Undelivered(l)
    \/ \E r \in Replicas : Retry(r) \/ Pki(r) \/ Boot(r) \/ Crash(r)
    \/ \E m \in Messages : Arrive(m)
    \/ \E h \in Handlers : Handle(h) \/ CleanupExpiredRequests(h)
    \/ \E s \in sending : Panic(s)

Spec == Init /\ [][Next]_vars

\* What goroutines and timers do by themselves; a peer that is dialled answers in the end.
Work ==
    \/ Deliver \/ \E s \in sending : Panic(s)
    \/ \E l \in Links : Connection(l) \/ PeerLoop(l)
    \/ \E r \in Replicas : Retry(r) \/ Pki(r) \/ Boot(r)

Fairness ==
    /\ WF_vars(Work)
    /\ WF_vars(\E w \in Workers : Store(w)) /\ WF_vars(\E h \in Handlers : Handle(h))

FairSpec == Spec /\ Fairness

(* ----------------------------------- properties ---------------------------------- *)

(* A courier that is told "ok" for a write finds it stored on a shard of the box until it
   is erased or its epochs are over, although the reply may have come through another
   replica, after a retry, and with other writes to the box under way
   (handleReplicaMessage, sendProxyRequestSync, ProxyRequestManager.HandleReply). *)
SuccessIsStored ==
    \A m \in Messages :
        LET q == request[m] IN
        reply[m] = "ok" /\ q.kind = "write" /\ epoch <= 1 =>
            \E r \in ShardsOf[q.box] : Visible(r, q.box) \in {q.value, Tombstone}

(* Nothing takes commands out of the channel of a connection, or its goroutine waits for
   retryQueueMu. *)
Stopped(k) == ~Room(k.ch) /\ (k.at \in {"up", "failed"} => k.held # None /\ ~Room(k.out))

WaitsForMu(k) ==
    \/ k.at = "draining" /\ k.held # None
    \/ k.at = "failed" /\ Unfinished(k) # None
    \/ k.at \in {"up", "leaving"} /\ k.wire # None /\ k.wire.msg = None /\ k.got = "dbFailure"

(* The retry queue of r is locked for good: processRetryQueue holds the mutex while it waits
   for room in the channel of a connection, which waits for the mutex to queue what it
   could not deliver. *)
Wedged(r) == \E s \in Retrying(r) : Stopped(conns[s.link]) /\ WaitsForMu(conns[s.link])

(* A write that one shard has acknowledged reaches the other one that was on line, unless
   it is dropped at one of the points named here: the queue is full, the peer refuses it
   for good, the connection dies with the command between its two channels, the replica
   dies (connector.go, outgoing_conn.go); or the retry queue of the replica is locked. *)
AckedIsReplicated ==
    <>[](\A o \in owed : \/ Visible(o[1][2], o[2]) # None
                          \/ epoch > 1 \/ o[1][2] \notin Online(published)
                          \/ (\E x \in lost : x[1] = o[1] /\ x[2].box = o[2])
                          \/ Wedged(o[1][1]))

(* A message that a replica has taken up is answered, unless the replica dies or its retry
   queue is locked: nothing else it waits for (a slot, a channel, a peer) lasts for ever. *)
MessageIsAnswered ==
    <>[](\A h \in Handlers : handler[h] \in {"idle", "done"} \/ Wedged(h[2]))

(* "This prevents losing commands when connections fail." (replica/outgoing_conn.go:116):
   the drain of a connection ends, and no retry pass lasts for ever. It fails where a pass
   and a drain, or an egress worker, wait for each other. *)
NeverWedged == \A r \in Replicas : ~Wedged(r)

(* "copy the share to the other replica" (replica/state.go:541): when the set of replicas
   changes, a shard that is on line gets the boxes that another one holds. *)
Rebalanced ==
    \A r, t \in Replicas, b \in Boxes :
        Visible(r, b) # None /\ t \in Shards(r, b) ~> Visible(t, b) # None \/ epoch > 1

(* "a fingerprint identifying the logical command, used as a dedup key" (cmdIdentity,
   replica/connector.go:102): a tombstone that one shard has acknowledged reaches the
   other one, under the terms of AckedIsReplicated. The fingerprint is the box alone. *)
ErasureIsReplicated ==
    <>[](\A o \in owed : \/ o[3] # Tombstone \/ Visible(o[1][2], o[2]) = Tombstone
                          \/ epoch > 1 \/ o[1][2] \notin Online(published)
                          \/ <<o[1], Write(o[2], Tombstone)>> \in lost)

(* "Panicking here let any write crash the replica" (replica/connector.go:288): no command
   makes the process panic. *)
NoPanic == \A s \in sending : s.at # "panic"
=================================================================================
