# TLA+ models of the anonymous RPC demo

The demo sends Ethereum JSON-RPC requests through a Katzenpost mix network. This
directory models the parts of it whose behaviour over time is hard to test: the
directory authorities that agree on the network's document every epoch, the chain of
processes on the client's machine that carries a request to the gateway, the gateway and
the service node at the two ends of the mix network, and the courier and the storage
replicas behind it. Each module is translated from the Go source; `PROJECT.json` maps
its definitions to the lines they stand for. TLC checks small instances; TLAPS proves
the main results for every value of the constants.

    tlc -workers 2 -config voting_crash.cfg MCVotingAuthority.tla
    tlapm VotingAuthorityProofs.tla

## 1. The system

Paths are relative to `src/`; `kp/` stands for `katzenpost/`.

| part | source | modelled in |
|---|---|---|
| directory authority, voting | `kp/authority/voting/server/state.go` | `VotingAuthority`, `DirectoryConsensus` |
| directory authority, descriptor upload | `state.go`, `wire_handler.go`, `kp/authority/voting/client/client.go`, the PKI workers of the nodes | `DescriptorUpload` |
| directory authority, replica envelope keys | `state.go`, `kp/replica/pki.go` | `EnvelopeKeys` |
| thin client library | `kp/client/thin/thin.go`, `kp/core/worker` | `ThinClient` |
| client daemon `kpclientd`, sessions | `kp/client/listener.go`, `incoming_conn.go`, `daemon.go` | `DaemonSession` |
| client daemon, send path and ARQ | `kp/client/daemon.go`, `arq.go`, `pigeonhole.go`, `sender.go`, `kp/core/queue/timer_queue.go` | `ClientARQ` |
| client daemon, gateway connection | `kp/client/connection.go`, `pki.go`, `send.go` | `GatewayLink` |
| walletshield | `walletshield/main.go` | `Walletshield` |
| gateway: client connections and spool | `kp/server/internal/incoming`, `gateway`, `kp/server/spool/boltspool` | `GatewaySpool` |
| service node: services and plugins | `kp/server/internal/service`, `kp/server/cborplugin` | `ServiceNode` |
| courier | `kp/courier/server` | `Courier` |
| copy streams | `kp/pigeonhole/copy_stream.go` | `CopyStream` |
| storage replica, box store | `kp/replica/state.go`, `state_gc.go` | `ReplicaStore` |
| storage replica, handlers and connections | `kp/replica` | `Replica` |
| sessions of the wire protocol | `kp/core/wire/session.go` | `WireSession` |
| mix server: keys, replay filters, scheduler, outgoing connections, PKI worker | `kp/server/internal` | not modelled |
| kps-monitor, kps-client, kps-relay, kps-sendtx, dashboard, scripts, genconfig | | not modelled |
| Sphinx, certificates, encodings | `kp/core` | not modelled |

**How they interact.** A wallet posts JSON-RPC to walletshield (HTTP on 9200, a stream
protocol on 9201). Each request is handled in a goroutine of its own; all of them share
one thin client, a socket to the daemon `kpclientd`. The daemon wraps the request in a
Sphinx packet with a SURB, sends it over its gateway connection, and routes the answer
back by application ID. Mixes, gateways, service nodes and replicas upload a descriptor
for the next epoch to every directory authority; the authorities vote on them and sign
one consensus document per epoch, which every other process fetches. For Pigeonhole
traffic a courier dispatches envelopes to the storage replicas.

### Inventory

**Directory authority, voting.** *State:* the FSM state and the epoch voted on; maps of
votes, commits, reveals, certificates, signatures and documents by epoch; `priorSRV`;
the documents bucket of `persistence.db`. *Operations:* one `fsm()` step per timer, one
handler per command of a peer, the fetch of a missing document, start and restart.
*Hard:* five phases paced by wall clocks; commands that arrive late or never; a process
that crashes and remembers none of what it signed; certificates that alias live maps; a
map iteration whose order decides which commits count. *Correct when* there is at most
one document per epoch, its contents have the backing of a majority, the random number
was committed to before any was revealed, and the rounds go on after a fault.

**Descriptor upload.** *State:* `descriptors[epoch]` in memory, the bytes on disk; at
the node, the state of the upload to every authority. *Operations:* posting rounds with
retries; check under the read lock, write to disk without a lock, store under the write
lock. *Hard:* the gap between check and store; repeated uploads after a lost answer;
restart of either side. *Correct when* a node that stops posting is voted for, and what
was acknowledged is neither lost nor replaced.

**Replica envelope keys.** *State:* a cache of keys by replica and replica epoch, in
memory only. *Operations:* vote, tally, document; restart. *Hard:* a cache written at
two moments of a round and lost in a restart, on which documents depend. *Correct when*
the keys of replicas that are off line stay in the document for the epochs they cover.

**Thin client.** *State:* the socket, the flag `isConnected`, a channel of two events,
a map of subscribed drains (channels of one), `HaltCh`. *Operations:* reader with
redial, fan-out, `BlockingSendMessage` (subscribe, send, wait, unsubscribe), `Close`.
*Hard:* rendezvous channels between a caller and a fan-out that waits for the caller;
close against redial. *Correct when* a reply reaches its caller, calls end by their
deadline, and `Close` returns.

**Daemon sessions.** *State:* connections by app ID, tokens, disconnected sessions with
queued replies and a grace timer, each under a lock of its own. *Operations:* accept,
handshake, resume, end of a connection, timer, reply, broadcast. *Hard:* the end of the
old connection, the resume on the new one, the timer and a reply run in four goroutines.
*Correct when* a client that reconnects is reachable under its old app ID, gets what was
queued, and nothing is kept for ever for one that does not.

**Walletshield.** *State:* the shared thin client under a mutex; the event loop.
*Operations:* HTTP handler with one retry, stream handler, `reconnect`. *Hard:* several
goroutines find the client broken and replace it while others wait on it. *Correct when*
the client in use is open, no connection is left behind, and requests end.

**Client daemon, send path and ARQ.** *State:* `arqSurbIDMap` and `arqEnvelopeHashMap`
under `replyLock`, the timer queue, a resend channel for every client. *Operations:* the
egress worker composes and sends, a timer resends what is not answered, the ingress
worker handles replies, the thin client's reader cancels. *Hard:* a message changes its
SURB ID with each packet while timers and replies for the old one are under way.
*Correct when* the maps agree, a message is answered in the end, what is said of it is
true, and what is cancelled stays so.

**Gateway connection.** *State:* the connection, one fetch in flight, the documents by
epoch. *Operations:* connect, event loop, fetch of a document in chunks, push of
replies, send, disconnect with back-off. *Hard:* replies have no number, so that order
alone says which call a reply is for; callers meet the loop on unbuffered channels.
*Correct when* no call gets the answer to another, documents arrive, and nobody waits
for ever.

**Gateway and service node.** *State:* the spool of a client, the connections with two
goroutines each; the channels of the plugins and their processes. *Operations:* store a
reply, wake the sender, push one entry, wait for its acknowledgement, advance; hand a
packet to a plugin, launch it, take it out. *Hard:* a newer connection of a client
closes the older ones, whose goroutines compete for one close message; a plugin ends
while packets are on their way to it. *Correct when* a wake-up is not lost, what left
the spool was delivered, and what is advertised is served.

**Courier.** *State:* `dedupCache` by envelope, `copyCache` of waiting hashes,
`copyDedupCache` of verdicts, connections to the replicas. *Operations:* cache, dispatch,
accept a reply, Copy with reading, writing and erasing, expiry. *Hard:* Copies run for
minutes while clients poll, replicas answer late or refuse, and entries expire.
*Correct when* an answer stays, an error does not, and the verdict of a Copy is true.

**Storage replica.** *State:* boxes by epoch with a lock each, proxied requests, the
retry queue, connection objects. *Operations:* read, write once, tombstone, replicate,
proxy, rebalance, collect garbage, crash and start. *Hard:* what is acknowledged
before it is replicated. *Correct when* a box never changes its contents, and what was
acknowledged reaches the other shard.

**Left out.** The command line tools send one request and exit. The dashboard displays
polled values. Scripts, containers and `genconfig` deploy. Sphinx, the wire protocol and
certificates are cryptography, whose promises TLC cannot examine; encodings are pure.

## 2. The modules

`MC<Module>` only gives the constants their sets; every definition is in the module
itself. A definition called `Faulty...` is a plausible mistake in the definition after
it; it is in no specification, and shows that a property would notice.

### VotingAuthority and DirectoryConsensus

Time is counted in slots of Period/8, the unit of every deadline of `state.go`. `Tick`
ends a slot when every timer that may not lag further has fired and at most `MaxLate`
commands are undelivered. One action per case of `fsm()` (`FsmBootstrap` ...
`FsmConsensusReached`, `FsmConsensusFailed`), each with the sends, the assignments and
the pruning of that case; one per handler (`OnVoteUpload`, `OnRevealUpload`,
`OnCertUpload`, `OnSigUpload`), which as in the code look at the epoch and the sender
and not at the phase. `msgs` is the set of all commands sent: a command arrives in any
order, or late, or never, and again when its sender retries. `Crash` clears memory and
keeps the disk; `Restart` runs `restorePersistence`. `FetchConsensus` is the background
fetch after a failed round.

The certificate of an authority holds the live maps of commits and reveals in the
code, so `CertCommits` reads the ledger for one's own; `verifyCommits` gives all the
results Go's map order allows. A secret is a record with a nonce that makes those of two
lives of a process different.

Abstracted: a descriptor is a model value; topology, parameters and replica keys are
functions of the fields that are kept; signatures are the set of their signers; all
authorities share one configuration and run this code.

`DirectoryConsensus` is what the authorities promise together: documents are decided
one per epoch, for ever, and an authority holds some of those decided. `VotingAuthority`
implements it with `decided` the contents of `published` and `held` what each has in
memory and on disk.

### DescriptorUpload

One node, one epoch. `PostRound`, `TransportError`, `FinishPost` are the posting rounds
of the node; `Check`, `Persist`, `StoreDescriptor` the phases of a handler goroutine, of
which several may run for the same node. What is written to disk is a `SignedUpload`,
what is compared and read back is a bare descriptor (`MarshalBinary`), and the module
keeps the two apart. Restarts of both sides are actions.

### EnvelopeKeys

Rounds are synchronous and votes arrive: lateness is the subject of `VotingAuthority`.
Uploads reach any subset of the authorities. `getVote` fills the cache from the descriptors
an authority holds, `MakeDocument` from the tally, as `getVote` and `getMyConsensus` do
through `getDocument`. Authorities restart; replicas go off line but keep their keys.
`OfflineKeysAreKept` is about runs without a restart, which loses the cache; `SplitsEnd`
says that what a restart or a partial upload splits heals once those keys are tallied
again or expire (the history `stray`).

### ThinClient

`worker` is `ReaderTop`, `ReadEvent`, `ReadEof`, `Offer`, `Backoff`, `Redial`;
`eventSinkWorker` is `TakeEvent`, `Deliver`, `FanoutHalts`; a caller is `Call`,
`Subscribe`, `Send`, `Receive`, `GiveUp`, `Unsubscribe`; `Close` is its three
statements. Channels have their capacities (`EventSinkCap`, `DrainCap`); `EventSink` and
`StopEventSink` are unbuffered and hence joint steps with a fan-out at its select.
`Backoff`, a second at least, outlasts the two statements of a `Close` under way.
The Pigeonhole calls subscribe and wait in the same way, and are not repeated.

### DaemonSession

One client and its token; connection *k* is the *k*-th dialled and is assigned app ID
*k*. `conns` is `listener.conns`, `session` `disconnectedSessions`, `timer` the grace
timer each ended connection armed. A request or its reply is somewhere (`at`): pending,
queued, on the wire, got, or gone in one of four ways. `Unregister`, then `Forget` or
`Preserve`, are the steps of `onClosedConn`; `GraceOver` and `Reap` those of the timer
callback on either side of its unlock. `Resume` is one step: `handleSessionToken` takes
the other locks in turn while it holds `clientTokensLock`. A write meets its deadline
only when the client, once connected, does not read.

### Walletshield

Clients are numbered in the order they are dialled; a handler holds the one it took
(`using`) whatever `s.thin` is meanwhile. What a client does inside is the subject of
`ThinClient`; kept is what a caller sees: a fan-out that serves subscriptions until the
client is closed, an outcome for every waiting caller, and a `Close` that returns unless
the client is dialling. The refusals of `sendRequest` before anything is sent are one
action. The probe mode (a loop of the same calls) and the static endpoints are left out.

### ClientARQ

One daemon and one thin client. `Egress` takes a request or a resend, `Ingress` a reply,
`TimerFires` and `EnqueueResend` are the callback of the timer queue, `Cancel` the client's reader;
each critical section of `replyLock` is a step, and what a goroutine holds between two
of them is in `egress` or `ingress`. An ID is `<<m, k>>`, the *k*-th SURB of message
`m`; the code draws them at random, so a number that nothing refers to is used again.
The courier is as much of `Courier` as the client can tell: `courier[m]` is how far the
work for message `m` is. Kinds of messages are the branches of `arq.go` (read,
write, write that must find an empty box, Copy) and a plain packet.

### GatewayLink

`link` is the goroutine that connects and then runs the event loop; `Worker` is the PKI
worker, `"user"` a caller that needs a document, `Sends` the sender. Calls and the loop
meet on unbuffered channels, hence joint steps. A document comes in `Chunks`. `asked` is
what the gateway has not answered yet, in order; replies carry no number. Back-off and
clock skew are left out.

### GatewaySpool

One client, connections in the order of their arrival. The worker and the sender of a
connection are two processes; `toClose` is the unbuffered channel both receive from.
`spool` is a sequence of entries; `Peek` shows the first, `Advance` removes
the first at that time. `VacuumExpired` looks at the connections, then removes, in two
steps. What the spool holds at the start (`left.spooled`) is on disk from before. `crossed`
counts how often a sender has met another one of the client, or the collection, at the
spool.

### ServiceNode

A launch of a plugin has a channel, a worker, a client and a process of its own, known
by the number of the launch; `pluginChans[e]` is the launch that an endpoint leads to.
`lock` is the mutex of the plugin worker. The plugin may crash, hang, be stopped, fail
to start and stay silent.

### Courier and CopyStream

The tasks `<<"query", e>>`, `<<"copy", c>>` and `<<"erase", c>>` are the goroutines that
send to replicas. The replicas are external: they accept, refuse, answer late, lose a
connection, or leave the document. `CopyStream` is the format of a stream, with
recursive functions for the encoder and the decoder; `Courier` decodes what it has read.
`Register` and `Drop` are the two changes of `copyCache`.

### ReplicaStore and Replica

`ReplicaStore` is the box store alone, used by arbitrary goroutines (`StoreNext`): check
and put under the lock of a box, in separate steps, with an epoch taken from the clock
before. `Replica` has the goroutines: a handler for each message on each replica, a link
for each pair, with the queue of the connection object, the command held by the paced
sender, the second channel and the wire as stages; the retry queue; the PKI worker,
rebalancing, and death with what it forgets. `retrying` is the mutex of the retry queue,
which a pass (`ProcessRetryQueue` to `RetryEnds`) holds while it waits for room in a channel;
`QueueForRetry` waits for it. `Wedged` says that both wait for each other.

### WireSession

Two sides, the handshake message by message, and a cipher state for each direction of
which both sides have a copy. The three calls are modelled in their sections, each of
which may come between any two of another goroutine's: `SendCommand` (encrypt the header,
encrypt the body, change the key, write), `RecvCommand` (read and decrypt the header, then
the body, change the key), `Close` (change the key to send with, then that to receive with,
close the connection, invalidate the state). `recv` and `closing` say how far a side's
`RecvCommand` and `Close` are. Cryptography is reduced to whether both copies are in step.

### MCDirectory and MCClients

Two MC modules hold several components that share no state: `part` chooses one of them
in `Init`, and the others stay as they are. `MCDirectory` has `DescriptorUpload`,
`EnvelopeKeys` and `WireSession`; `MCClients` has `ThinClient`, alone and with two
callers, and `Walletshield`.

## 3. What is checked

| run | bounds | shows |
|---|---|---|
| `voting_crash` | 3 authorities, slots 80-85, timers up to a slot late, 1 late command, 1 crash | `IInv`, `NoEquivocation`, `Agreement`, `NeverBackward`; a document has the random numbers of a majority (`MajorityRandom`); `Implements` |
| `voting_recovery` | 3 authorities, slots 80-102, timers in time, 1 crash | `OneRoundLost`: no two rounds in a row without a document; `CommitBeforeReveal` |
| `voting_liveness` | 3 authorities, 2 ballots, slots 80-96, no fault | `EveryEpochDecided`; the mixes of a document are those of a majority (`MajorityMixes`) |
| `directory` | upload: 2 authorities, 2 descriptors, 2 attempts, 1 crash, 1 reconfiguration; keys: 3 authorities, 1 replica, 6 epochs, 2 restarts; wire: a sender on each side, 2 commands and 1, Close on both sides | `StoppedIsVotedFor`, `AckedIsKept`; `OfflineKeysAreKept`; `PeerDecrypts` |
| `clients` | thin client: 1 caller and 2 events, or 2 callers, and Close; walletshield: 1 request, 1 stream, 3 clients, 2 notices, 1 outage | `ReplyReachesCaller`, `CloseReturns`; `ReconnectEnds` |
| `session_resume` | 5 connections, 2 drops, 1 broadcast, 1 wedged writer, 1 request, Close | `RoutedToOwner`, `Reconnects` |
| `arq_answers` | 5 messages, one of each kind, in 7 scenarios of two at a time; room for 1 resend, 6 IDs | `MapsAgree`, `StaysCancelled`, `SuccessIsTrue`, `AnswerComes` |
| `link_documents` | 1 gateway, documents of 2 chunks, 1 attempt, 4 scenarios | `RepliesMatch`, `DocumentArrives`, `PacketsLeave` |
| `gateway` | 3 messages, 3 connections; in turn: a hang-up with a collection, or a slow client with a stale acknowledgement; meeting: a hang-up that the gateway notices late, with 3 messages in the spool, or 1 and another to come | `WakeIsPending`, `GoneIsDelivered`, `OneSkipPerMeeting`, `SpoolDrains` |
| `service` | 2 plugins and an echo, 2 packets, 1 worker, channels of 3, 3 launches; a crash and a failed launch, a hang and a stale acknowledgement, a stop and a silent plugin | `AdvertisedIsServed`, `OthersAreServed` |
| `courier_cache` | 2 replicas, 3 envelopes, 2 write caps, 13 scenarios | `VerdictIsTrue`, `AnswersStay`, `ErrorsAreRefreshed`, `CopyEnds` |
| `replica_shards` | 3 replicas; 7 scenarios with 1 box, 2 payloads and a tombstone, 3 messages, 3 weeks; from the middle: 4 boxes, 2 commands in the retry queue, 4 with a connection that breaks or is answered with a failure, 1 message; queues of 1, retry queue of 2 | `SuccessIsStored`, `WrittenOnce`, `AckedIsReplicated`, `MessageIsAnswered` |

The comment before each property says which behaviour of the code it is about.

**Why the bounds are enough.** Three authorities are the fewest of which a majority is
not all. A voting round takes the slots 1 to 5 of an epoch, and slot 80 is the start of
epoch 10: 80-85 is a whole round, and 80-102 has the rounds for three documents, so that
"two in a row" can fail at either pair. One crash hits every slot and every state, and
the restart comes at once or later; two crashes in one round leave no majority, and
nothing to show. In the upload two authorities, both needed for a majority, make the
loss of either visible; two attempts are the first and its repetition. Six epochs cover
three replica epochs: a key enters the window, crosses it and leaves. Two callers are
enough for one to hold up the fan-out another needs; one event besides the two replies
fills the sink. Five connections give the client a handshake after each thing that can
spoil one: two drops, a queued reply and a broadcast. Three clients let a replacement be
replaced by another goroutine.

The later modules have *scenarios*: a set of records that say how often each thing
beyond the component's control may still happen (`left`, `scenario`). A scenario gives
one or two troubles the whole freedom of when to strike, which is where the errors are,
and their product is left out, which is what would make the state space unmanageable.
Two kinds of messages share the ARQ's maps and its resend channel of one, so that the
channel is full when the other wants it. Two chunks are the fewest with a middle; one
gateway is enough for everything but a change of gateways. In two
of the gateway's scenarios a new connection begins before the gateway has noticed the end
of the old one, so that two senders work on one spool and the workers close each other's
connections; a third connection comes after both. Three
launches are two plugins and a new launch of either. The three replicas are the two
shards of the box and one that is none; a queue of one is full while a command waits,
and three weeks are written, still readable and gone. A backlog in a replica takes a
dozen commands and three faults to build up, more than TLC can enumerate from `Init`; the
run has it as a second initial state (`Midway`): two commands for one peer in the retry
queue, the channels of the connection full, a command on the wire that has failed. TLC
reaches `Midway` from `Init` when six messages are made to come in that order. From there
the retry queue overflows, or the pass and the connection lock each other out.

`CHECK_DEADLOCK FALSE` stands in every configuration because each model really stops:
the clock reaches its last epoch, or the bounded requests, troubles and outages are used
up.

**Fairness.**
- `VotingAuthority`: timers fire, the clock goes on, and a sent command arrives, since
  peers retry over connections they reopen; only `voting_liveness` uses it, with no
  crash and no lag.
- `ThinClient`: each goroutine that can take a step takes one; a context deadline passes
  (`GiveUp`); a started `Close` goes on. Nobody has to call, the daemon has to answer
  nobody, and it need not come back.
- `DaemonSession`: the client keeps dialling and reading (`redial` loops), the
  goroutines of the daemon run. Drops, timers, broadcasts and replies are free.
- `Walletshield`: goroutines run and `Dial` ends. A Go mutex starves nobody (its
  starvation mode hands it to the longest waiter), hence strong fairness of `Lock`.
  Nothing is assumed of a `Close` of a client that is dialling.
- `ClientARQ`: the workers run, the mix network and the courier deliver what they do not
  lose (losses are bounded), the timers of every message fire. The client does nothing
  it need not do.
- `GatewayLink`: goroutines run and the gateway answers. A caller that waits on a channel
  the event loop receives from again and again is served (`Push`, `TakePacket`,
  `TakeCall`, `TakeCommand`, `LoopEnds` are strongly fair): a Go channel serves its
  waiters in turn, and `select` picks among the ready cases at random.
- `GatewaySpool`: workers, senders and the client's reader run; the wait for an
  acknowledgement times out when none can come; the collection goes on.
- `ServiceNode`: service workers, the workers of the plugins and the plugins that do not
  hang run.
- `Courier`: clients poll, tasks run, connections are made and given up, replicas answer
  what reaches them. Nothing is assumed of a replica that cannot be reached.
- `Replica`: handlers, links, the store's callers and the PKI workers run, and a peer that
  is dialled answers in the end (one that does not, and is not taken out of the document,
  leaves its channel full, and a retry pass that waits there holds up every other link). A
  replica that has died need not come back.

### Promises the code does not keep

The modules also state promises that a comment, a doc or a test makes and the code does
not keep. None is in a run, and nothing above assumes one. TLC gives a counterexample
for each when the property takes the place of those of the run named, with the
constants changed as said; definitions such as `Late` are in the `MC` module.

| run, changed by | property | what happens |
|---|---|---|
| `voting_recovery`: `Authority <- TwoAuthorities`, `WeekOfEpochs = 2`, `MaxCrash = 0` | `PriorRandomIsPublished` | the weekly rotation of `priorSRV` is done twice in a round, once with zeroes (`state.go:511`), so that the published `PriorSharedRandom` has a value no document ever had |
| `directory` | `RedundantIsHarmless` | the uploaded bytes are compared with another encoding of the same descriptor (`state.go:2380`), so that a repeated upload is refused as a conflict |
| `directory` | `PersistedIsRestored` | what was persisted is a `SignedUpload` and is read back as a descriptor (`state.go:2578`) |
| `directory` | `OneAccepted` | two different descriptors that overlap are both answered `DescriptorOk` (`state.go:2421`) |
| `directory` | `DeterministicKeys` | keys are cached when a vote is made, before the tally the comment at `state.go:2329` relies on |
| `directory`: `Senders <- TwoOnOne` | `PeerDecrypts` | two goroutines of one side send, as those of a client do (`connection.go:572` and `:659`) and of its gateway (`incoming_conn.go:493` and `:609`): nothing in `SendCommand` keeps the cipher states in the order of the writes |
| `directory` | `NeverGarbled` | `Close` changes the key between the header and the body that another goroutine encrypts, and writes, before the connection is closed (`session.go:620` beside `:536` and `:544`; the courier's deferred `Close` at `outgoing_conn.go:362` runs beside its sender), and the peer has a command it cannot decrypt |
| `clients` | `CallReturns` | a caller past its deadline waits in `StopEventSink` for a fan-out that waits for that caller's full drain |
| `clients` | `CloseInterrupts` | `StopEventSink` has no case for `HaltCh` and waits for a fan-out that `Close` has ended |
| `clients` | `CloseAlwaysReturns` | `Close` wrote to the old connection, the reader blocks on the one it has just dialled |
| `clients`: `Handlers <- TwoRequests`, `Connections <- NoStream` | `Shield!RequestEnds` | `reconnect` closes the client another handler is about to subscribe to, which then waits for ever |
| `session_resume`: 3 connections, 1 drop, no broadcast or wedged writer | `FlushIsKept` | replies queued for a session are sent before `SessionTokenReply` (`listener.go:545`); the client takes that for a failed handshake, and they are lost |
| the same | `NothingIsLost` | a reply that comes between `unregisterConn` and the new disconnected session is dropped |
| the same | `LiveIsRegistered` | the late end of the old connection unregisters the one that resumed (`listener.go:394`) |
| the same | `ReapsTheAbsent` | the grace timer, past its unlock, reaps a client that has resumed |
| `session_resume`: 2 connections, 1 broadcast | `NoProtocolViolation` | a broadcast before `SessionTokenReply` makes the first `Dial` panic (`thin.go:738`) |
| `session_resume`: 2 connections, 1 broadcast, 1 wedged writer | `WedgedIsTornDown` | a connection whose writer gave up stays registered |
| `arq_answers`: `Scenarios <- Resumes` | `ResumedIsAnswered` | a request or a resend that finds its client away is dropped, and the client that resumes is never answered |
| `Scenarios <- Late` | `AnswerComesLate` | each resend takes a new SURB ID, and the reply to the one before finds no entry |
| `Scenarios <- Leaves` | `NothingLeaks` | a message that is being composed while its client is cleaned up enters the map after it |
| `Scenarios <- Cancels` | `CancelIsHeard` | a request that is still with the egress worker is cancelled, and registered afterwards |
| `Scenarios <- CannotCompose` | `StaysCancelled` | a resend that fails to compose is registered again without a look at the map (`daemon.go:822`) |
| `Scenarios <- PlainOnly` | `PlainIsDelivered` | the entry for the reply is made after the packet is handed over (`daemon.go:742`), and a reply that is faster finds none |
| `Scenarios <- Twins`, `Hash <- SameHash` | `MapsAgree` | two messages with one hash: the second takes the entry of the first |
| `link_documents`: `Gateways <- TwoGateways`, `Listed <- OneIsLost`, `Scenarios <- Still` | `DelistedIsLeft` | the descriptor is taken once for a connection (`connection.go:617`), which stays with a gateway that has left the document |
| `link_documents`: `Scenarios <- Slow` | `Reconnects` | the loop hands the outcome to a call that has timed out, on a channel nobody reads any more, and never sees that its reader has failed |
| `link_documents`: `Scenarios <- Fails` | `Reconnects` | the call whose request could not be written is told so and ends; the loop, on leaving, hands the same call an error once more and waits for ever |
| `gateway` | `CommandsAreRead` | "Newest connection wins." (`incoming_conn.go:317`): a worker that closes the other connections waits for ever when the worker and the sender of one of them have left, or when it has been listed by a worker it lists itself; `CloseOldConns` looks under the lock and closes without it (`listener.go:298`), a later connection meets the same, and an older worker may close a newer connection |
| the same | `NothingIsSkipped` | the senders of an old and of a new connection both advance the spool for one entry |
| the same | `NoPanic` | a log line reads the peer's credentials without a look at the error, and the connection has been closed meanwhile |
| the same | `VacuumSparesConnected` | the collection looks at the clients first and removes later |
| `service` | `FailsAlone` | the end of one plugin halts the worker all plugins share (`cbor_plugins.go:263`) |
| `service` | `OwnChannel` | a worker that begins late looks its channel up under the endpoint and finds that of the next launch |
| `service` | `EchoIsAnswered` | a launch waits with the lock for a plugin that stays silent; the service workers wait for the lock, and packets for an echo behind them |
| `service`: scenario `Play(2, 0, 0, 0, 0, 0)` | `NoPanic` | a plugin that is launched again ends before it listens; forty attempts to connect, and a panic |
| `courier_cache`: `Scenarios <- Untroubled` | `StreamIsErased` | what is written over a temporary stream is not a tombstone of its boxes |
| `Scenarios <- Untroubled`, `MaxWrites = 3` | `LoopsRun` | the channel for the replies to a Copy has room for two; the reply to a third attempt holds up the event loop of its connection |
| `Scenarios <- Starting` | `PolledIsAnswered` | an envelope whose dispatch found no connection yet stays in the cache without a reply; a poll dispatches it again only for errors |
| `Scenarios <- Unreachable` | `CopyEnds` | a Copy waits for room in the queue of a replica that cannot be reached |
| `replica_shards` | `NeverWedged` | "This prevents losing commands when connections fail." (`outgoing_conn.go:116`): a retry pass holds `retryQueueMu` while it waits for room in the channel of a connection (`connector.go:213`), and the egress worker of that connection, or the drain at its end, waits for the mutex to queue what it could not deliver (`outgoing_conn.go:508`, `:118`); both wait for ever, with acknowledged writes and the messages proxied to that peer |
| `replica_shards`: `SPECIFICATION FairSpec`, `Scenarios <- Erasures` | `ErasureIsReplicated` | the key by which the retry queue finds duplicates is the box alone: a tombstone is taken for the write before it and dropped |
| the same, `Scenarios <- Departures` | `NoPanic` | a command is sent to the channel of a connection object that is closed meanwhile |
| the same, `Scenarios <- Arrivals` | `Rebalanced` | a replica joins: the scan for the new set runs before its document is stored (`updateReplicas`, then `StoreDocument`), finds the shards of the document before, and sends nothing |

The passing properties say what holds in spite of these. `LiveUnlessOverlapped` is
`LiveIsRegistered` as long as the daemon has dealt with the end of each connection
before the next one (the history `client.overlapped`). `CloseReturns` leaves out the
dial of `CloseAlwaysReturns`, and `ReconnectEnds` a close of a client that redials.
`PeerDecrypts` says which commands a `Close` can spoil: those that were not written when it
began, or that the side which closes has not read. `SpoolDrains` leaves out the worker of
`CommandsAreRead` that waits for ever (`Stranded`), and `OneSkipPerMeeting` bounds what
`NothingIsSkipped` loses. `AckedIsReplicated` and `MessageIsAnswered` leave out the replica
of `NeverWedged` (`Wedged`), so that they say that nothing else has that effect; without
that clause TLC refutes both on `replica_shards`.

One more observation, outside any property: in `client/pki.go:333` `updateTimer` has
branches for a time after `PublishConsensusDeadline` that the condition before them makes
unreachable, so that a daemon without the document of this epoch does not ask for it
again before the next.

## 4. What is proved

Each theorem holds for every value of the constants under the named assumptions of its
module, which are about types and finiteness unless the table says more; TLC evaluates
them in the runs. The `Proofs` modules extend the modules they are about. The prover's encoding
of sequences for SMT says of `Len` and `DOMAIN` more than holds of values that are not
sequences; no leaf depends on that, all go through with the weaker, sound form as well.

| module | theorem | statement |
|---|---|---|
| `VotingAuthorityProofs` | `TypeCorrect` | `Spec => []TypeOK` |
| | `Inductive` | `Spec => []IInv` |
| | `SaidOnce` | `Spec => []NoEquivocation` |
| | `OneDocument` | `Spec => []Agreement` |
| | `Forward` | `Spec => NeverBackward` |
| | `Refinement` | `Spec => Implements` |
| | `MixesOfAMajority` | `Spec => []MajorityMixes` |
| | `RandomOfAMajority` | `Spec => []MajorityRandom` |
| | `CommitsComeFirst` | `Spec => CommitBeforeReveal`, if `MaxLag = 0` |
| | `NoTwoRoundsLost` | `Spec => []OneRoundLost`, if `RecoveryAssumption` |
| `DirectoryProofs` | `UploadIsTyped` | `Spec => []TypeOK` |
| | `AcknowledgedIsKept` | `Spec => []AckedIsKept` |
| | `DescriptorStays` | `Spec => NeverReplaced` |
| | `StoppedNodeIsVotedFor` | `Spec => []StoppedIsVotedFor` |
| | `KeysAreKeptWhileOffline` | `KeysSpec => []OfflineKeysAreKept` |
| | `SplitsOfTheKeysEnd` | `KeysSpec => []SplitsEnd` |
| | `PeersDecryptUntilClose` | `SessionSpec => []PeerDecrypts`, if `OneSenderEach` |
| | `SessionsAreAuthenticated` | `SessionSpec => []BothAreValid`, if `OneSenderEach` |
| `DaemonClientProofs` | `RepliesGoToTheirApp` | `Spec => []RoutedToOwner` |
| | `SessionsAreTimed` | `Spec => []SessionIsTimed` |
| | `LiveClientIsFound` | `Spec => []LiveUnlessOverlapped` |
| | `RepliesReachCallers` | `ThinSpec => []ReplyReachesCaller` |
| | `SubscribersAreCallers` | `ThinSpec => []OnlyCallersAreServed` |
| `ClientARQProofs` | `MapsAlwaysAgree` | `Spec => []MapsAgree`, if hashes are distinct |
| | `SuccessesAreTrue` | `Spec => []SuccessIsTrue` |
| | `CancelledStays` | `Spec => []StaysCancelled`, if hashes are distinct and `NoFailureMeetsCancel` |
| `GatewayLinkProofs` | `RepliesAlwaysMatch` | `Spec => []RepliesMatch` |
| | `CallsGetTheirDocument`, `NoUnaskedDocument`, `OnlyPublishedDocuments` | consequences of the same invariant, see below |
| `CourierProofs` | `SuccessesAreKept` | `Spec => AnswersStay` |
| | `PollersAreServed` | `Spec => []InProgressIsWorking` |
| | `VerdictsAreTrue` | `Spec => []VerdictIsTrue` |
| `ReplicaProofs` | `StoreIsTyped` | `StoreSpec => []StoreTypeOK` |
| | `WritesAreImmutable` | `StoreSpec => WrittenOnce` |
| | `StoreIsUsed` | `Spec => StoreSpec`: the replicas implement the store |
| | `SuccessesAreStored` | `Spec => []SuccessIsStored` |
| | `ReplicasKeepWrites` | `Spec => WrittenOnce` |
| `MixServerProofs` | `RemovedIsDelivered` | `Spec => []GoneIsDelivered` |
| | `NoWakeIsLost` | `Spec => []WakeIsPending` |
| | `AdvertisedServicesAreServed` | `ServiceSpec => []AdvertisedIsServed` |

**`VotingAuthority`.** *Assumptions:* `AuthorityAssumption` (the set of authorities is
finite), `TimeAssumption` (start, end and lag are natural numbers), `WeekAssumption` (a
week has an epoch). Nothing is assumed of the network, except in `NoTwoRoundsLost`.

`NoEquivocation` is not inductive: nothing in the memory of a restarted process says
what it has signed. What keeps it from signing again is the schedule. So `IInv` adds
`OnSchedule` (where each timer stands relative to the epoch voted on, and that nothing
is said of an epoch before `VotingStarts`) and `SaidInTurn` (what is said of an epoch
was said by an authority that has moved past that phase, or has restarted and not joined
a round yet). A process that restarts after the upload deadline sits out, and one that
restarts before it finds nothing said: that is `StepMoves` and `ScheduleStep`, from
which `SaidInTurnStep` and `NoEquivocationStep` follow action by action.
`WellFormedMessages` and `OneRevealEach` tie messages and stored secrets to their
authors; `OwnConsensusSigned` and `PublishedIsSigned` tie what an authority holds to
signatures that were sent. Agreement is then `MajoritiesMeet` (two majorities of a
finite set share a member) with `NoEquivocation` (that member signed one document).
`Forward` is a corollary of `StepMoves`. For the refinement, `HeldStep` shows that each
step adds at most one decided document to what one authority holds; each action of
`Next` is a `Learn`, a `Forget` or a stutter of `DirectoryConsensus`, whose guard
`OnePerEpoch` is `Agreement` of the next state.

`MajorityMixes` and `MajorityRandom` say where the contents of a document come from. A
second invariant, `Backed`, follows them through every place they pass: a commit that an
authority holds was sent in the vote of its owner, a reveal was sent too (one's own from
the phase in which it is), a certificate carries such commits and reveals, and a
document that anybody signs has mixes from the votes, and random numbers from the
certificates, of a majority. The properties follow for what is published, with
`PublishedIsSigned`.

`CommitBeforeReveal` is false of an authority whose timer fires a whole phase late: it
votes when others have revealed, and nothing in the code stops it. The theorem says
that lateness is the only way: with `MaxLag = 0`, `OnTime` and `RevealedInTime` put every
vote of an epoch before the slot in which the first reveal can be sent.

`OneRoundLost` says that the authorities get something done, as a safety property: two
epochs in a row never go without a document once the time for the second has passed.
`RecoveryAssumption` states what that takes, for any number of authorities.
Timers fire in their slot and commands arrive before the next one
(`MaxLag = 0`, `MaxLate = 0`): `fsm()` goes on at its deadlines with whatever it has. At
most one process crashes, and the authorities are at least three, so that all but one are
a majority. They start at an epoch boundary, which makes
the first round a whole one. Some mix is in every vote, because a round
without a mix that a majority lists fails. The constants of `voting_recovery` satisfy
all of it.

The invariant `Recovery` has two parts. `Rounds`: all but one vote on every epoch
(`Present`, `Quorum`); who votes takes part in the round to its end (`Stay`), sends what
its phases send (`Spoke`), and has what the others sent when its slot is over
(`Arrived`). `CommonView`: in a round that no crash touches (`Good`) everyone who takes
part has the same votes, commits and reveals, sends the same certificate (`Certs`),
starts from the same last document (`Hold`, `PriorsKnown`) and signs the same one
(`Sigs`, `OwnSig`), for which a majority of signatures arrives; so the round has a
document. The crash, which loses the memory of one process, can hit any step. Of two
rounds in a row either the second is untouched, or it was voted on before the crash, and
then the first has its document (`PastVotes`): nobody votes before the round before has
ended. A round after the crash counts as untouched only if the epoch before has no
document, since the restarted authority may not have it; that is the only case in which
the property asks anything of it.

**`DescriptorUpload`.** `UploadInv` says that what is in memory, and what a handler is
about to store, is on disk (`Persisted`), that who has given an answer, `DescriptorOk` or
a refusal, has a descriptor of the node and votes for it as long as nobody has crashed
(`SettledIsVotedFor`), and that a node stops only when a majority has answered
(`StoppedByMajority`). A refusal needs the clause as much as an acceptance: the code
refuses because of a descriptor that it has.

**`EnvelopeKeys`.** *Assumptions:* the replica epoch has a length, the set of authorities
is finite. `OfflineKeysAreKept` compares a document with all earlier tallies, and `Kept`
says why it holds: as long as nobody was restarted a key that was in a consensus is in
every cache, or comes into it with the document an authority has still to make this
round (`Underway`). `Listed` ties a document to the cache it was made from, `NoneAhead`
keeps the window from ever reaching a key tallied before it. For `SplitsEnd` the caches
of different authorities are compared (`Agreed`): they have the same keys in the window
but for those in `stray`, which a vote cached and a tally left out, or a restart lost.
`RoundInTurn` is the order of a round.

**`WireSession`.** *Assumptions:* `SessionAssumption`, types. `PeerDecrypts` needs to know
for every byte on the way which state of the cipher made it. `Ciphers` says which state a
side sends with, for the section its `SendCommand` is at, and `Sized` how much it holds
already; `OnTheWay` says that what is written and not read is
on the stream as its key and nonce say, after the message of the handshake that may still
be there; `Received` and `Receiving`, that the state of the reader is that of the next
part of the next command. `InStep` is the handshake, message by message, with `Before` (nothing is sent early),
`Ended` (who has closed) and `Closings` (how far). A `Close` changes the key under the calls
of others: from then on these parts speak of the commands written before it
(`closing[s].sent`), and `Excused` says that a side that could not decrypt was itself past
the change of its key, or had read those. The theorem assumes `OneSenderEach`, one goroutine
that sends on
each side of a session: that is so between authorities, mixes, couriers and replicas, and
not between a client and its gateway, see the table of promises not kept. From the same
invariant and `Authenticated`, an initiator that has a session has accepted the responder
and has been accepted, and a responder that has one has accepted its peer.

**`DaemonSession`.** A session is under the app ID of the closed connection that left it
(`LeftBy`), which armed the timer in the same step, and keeps it whichever of two
overlapping connections ends last. `Fresh` says that a connection that has not been
dialled has never had an app ID but its own, which is what keeps a resumed ID from
colliding with one assigned later. `Uncut` and `Alone` follow the client's connection:
unless an end was late it is the only one that lasts, and is registered.

**`ThinClient`.** *Assumptions:* `ClientAssumption`, types and capacities. A reply goes
through five places between the daemon and its caller, and each hand-over may find the
next one full, closed or gone. `Flight` lists the places (`OnItsWay`): while the client is
open and the daemon has not restarted, the reply of a caller that waits is in one of
them. That needs `Calm` (nothing has ended yet), `Holding` (what the reader and
the fan-out have in hand) and `OnlyCallersAreServed`, which is a promise as well: the
fan-out has a subscription exactly for the callers between `EventSink` and the deferred
`StopEventSink`, whichever way a call ends. A drain has room for one event and other
events go through it too; the fan-out waits for room and passes nobody over.

**`ClientARQ`.** `ARQInv` adds to the maps what the goroutines hold between two critical
sections: a message that the egress worker sends is in the map under the ID it sends
with or has been taken out, and IDs of different messages differ. Two messages with one
hash would share an entry; the envelope hash is of an encrypted envelope, so distinct
hashes are an assumption (`HashesDistinct`). `SuccessInv` has no need of it: what a reply
says, in the network or with the ingress worker, is true of the courier and stays true
(`Truth`), and a reply names the message it answers (`Names`). `CancelInv` says that a
message enters the map once, by its request, and afterwards only by those who find it
there, so that a cancellation that takes it out is final. The exception is the resend
that fails to compose (`daemon.go:822`), which does not look: `NoFailureMeetsCancel` rules
it out, and the row `CannotCompose` above is its counterexample.

**`GatewayLink`.** Replies carry no number. `OneFetch` says that the outstanding fetch,
the request on its way and the pieces that come in are of one epoch, and that nothing
comes after the last piece; `ContextsBelong`, that a call has one context, in the queue,
with the loop or outstanding, however many earlier calls have timed out. From it: a call
takes only the document it asked for, the branch
"BUG" of `getDocument` (`pki.go:458`) is not reached and no chunk comes that nobody asked
for, with a gateway that answers in order; and the daemon has documents only of epochs
that have one.

**`Courier`.** `SuccessesAreKept` goes through every way to change an entry of the dedup
cache. `CourierInv` ties each Copy's status to the task that works on it: `InProgress`
is set as a task starts and replaced only as it ends, also when an entry expires.

`VerdictIsTrue` depends on what the courier makes of a stream it reads box by box. The
first half of the proof is about `CopyStream` alone. `EncodesAll`: the elements of a
stream, made by a call for each envelope that passes the rest of the buffer on, hold all
units of the envelopes in order, and only the last element is final. `DecodesInOrder`: decoding what
follows the i-th envelope, up to any place of the stream, gives the envelopes that end
there and leaves the beginning of the next. `Layout` names these places for a cap: where
its envelopes end and where its boxes cut. The induction goes through the least element of
a set of numbers (`LeastNumber`, `Induction`), since the library's induction theorems take
an operator.

The second half follows a Copy. `InStep` says that its buffer and the envelopes it has
ready are what the layout has between the last envelope stored and the last box read. That
is not all that happens: after a success the courier writes what is meant as tombstones,
and a replica that did not have a box yet stores them. When the cap is copied again it
answers with a box that decrypts to nothing, which the courier takes for data (the
scenario with a lagging replica and an expired verdict reaches this). From there the
decoder is `OutOfStep`: what it takes off need not be next in the stream. But such boxes
exist only when everything in the stream is stored (`AllHeld`), which is what a
success may say; and a failure may name no index beyond the stream, because no more
envelopes are counted than begin in what is left of it (`Begin0`). `TruthInv` carries this
to the messages in the queues and on the wire (tombstones only of what is all stored), to
the replies in the channels (`Hears`) and to the collectors in `copyCache`, which belong
to a task that still sends that hash. *Assumptions:* `CourierAssumption`, types only.

**`ReplicaStore`.** `StoreInv` says that a goroutine past its existence check holds the
lock of its box, and that what it has found is still so: no record in the epoch it looked
from, the one before it or any later one (`PutIsSafe`), although the epoch it has taken
from the clock may be over when it puts. The specification is of arbitrary callers: what
is proved of it holds wherever the store is reached by its steps only.

**`Replica`.** *Assumptions:* `ReplicaAssumption`, that goroutines are named by what they
serve (a message and a replica, or a link), that a request that writes has a value and
only such a one, and that queues and slots have room for something. `StoreIsUsed` is the
refinement that carries the store's theorems over: the callers of `Replica` (handlers, the
command loops of the peers, a rebalance through them, crashes, "send on closed channel")
take `StoreNext` steps. A handler's call has to be a call, with a box and a value of the
store, and what a peer is asked to write has come through two channels, a paced sender
and a retry queue whose entries are replaced, evicted and put back: `CommandsTyped` says
that all of them hold commands, that the reply on a link belongs to the command on its
wire, and that a pass over the retry queue stays within the queue.

`SuccessIsStored` joins what a courier was told to what the stores hold, two steps of
several goroutines apart. `SuccessInv` repeats it at each station: `AskedIsKept` (the
handler that asks its store asks for the write of its own message, so that the "ok" it
finds is about that write), `PassedOnIsKept` (an "ok" on a wire), the reply channel of
the handler that proxies, and the reply. `PutShows` needs more of the store than
`WritesAreImmutable` does: nobody has put anything under a later epoch since the epoch was
read, or the record put now would be behind the one that is shown. Once true it stays
true (`RecordsStay`), since two weeks have to pass before a record is collected.

**`GatewaySpool`.** A sender removes whatever is first in the spool. `UnderWay` follows one
entry: from the look at the spool to the removal the first entry stays the same, the
message on the wire, its acknowledgement in the reader and in the channel are about it,
at most one of these exists at a time, and a sender that is not in between has nothing
under way. `OneSender` keeps others from moving the head. Both need that the spool has not
had two senders nor been emptied under one (`crossed = 0`; `Meeting` says that a sender
that starts alone adds nothing to the count), which the code does not prevent:
the row `NothingIsSkipped` above. `WakeIsPending` needs no more than the types.

**`ServiceNode`.** *Assumptions:* `ServiceAssumption`, that the endpoints of the plugins
are distinct, which the code checks at the start (`cbor_plugins.go:324`), and types.
What a node advertises are its clients, what it hands packets to its channels:
`ChannelsHaveClients` and `ClientsHaveChannels` are two directions between which `register`,
the launch and `unregister` lie, with the plugin lock in between. `LastIsLaunching` says
that at most one launch is halfway, and that it is the last of its endpoint.

**Only model-checked.** Liveness and `ENABLED`, which the provers do not reach:
`EveryEpochDecided`, `CloseReturns`, `ReconnectEnds`, `Reconnects`, `AnswerComes`,
`DocumentArrives`, `PacketsLeave`, `SpoolDrains`, `OthersAreServed`, `ErrorsAreRefreshed`,
`CopyEnds`, `AckedIsReplicated`, `MessageIsAnswered`; and the safety property
`OneSkipPerMeeting`, whose invariant would have to follow two senders at a time.

## 5. Plan

Modelled and checked: everything in the table of section 1 that names a module.

Not modelled, and why: the mix server's key rotation, replay filters, scheduler and
outgoing connections (queues with timers like those of `Replica`, over keys whose use is
cryptography); its PKI worker beyond the posting of descriptors; the ARQ's decoys and
rates, which only pace the sender; the files of replica keys (`keys.go`); rate limits,
shutdown of whole processes, legacy commands; kps-monitor and the command line
programs, which are loops over what `ThinClient` and `Walletshield` promise; Sphinx,
certificates and encodings, which are pure data and cryptography.
