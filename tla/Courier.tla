------------------------------- MODULE Courier -------------------------------
(***************************************************************************)
(* The courier (courier/server): the plugin that answers clients, caches   *)
(* what the replicas reply and executes Copy commands, and its connections *)
(* to the storage replicas.                                                *)
(*                                                                         *)
(* Three kinds of goroutine send to replicas and are the tasks of this     *)
(* module: <<"query", e>> dispatches an envelope, <<"copy", c>> executes   *)
(* the Copy command of a write cap, <<"erase", c>> writes what is meant to *)
(* be the tombstones of its temporary stream.  A message is named by its   *)
(* envelope hash, a tuple whose head says what it is.                      *)
(***************************************************************************)
EXTENDS CopyStream, FiniteSets, TLC

CONSTANTS Replicas, Envelopes, Caps,
          None,
          Intermediates, \* envelope -> the two replicas the client has chosen
          ReadEpoch,     \* envelope -> the replica epoch it is made for
          Contents,      \* write cap -> the envelopes of its copy stream
          Shards,        \* write cap -> the two shards of its temporary boxes
          Zero,          \* the replica with the identifier 0
          QueueSize,     \* MaxQueueSize and the slot of sender.out
          DispatchSlots, \* maxConcurrentReplicaDispatch
          MaxReads,      \* maxCopyReadTransientAttempts
          MaxWrites,     \* maxCopyWriteAttempts
          MaxBoxes,      \* maxCopyStreamBoxes
          Scenarios      \* what may happen in this instance, see Init

(* The verdict of a Copy that is under way. *)
InProgress == [status : {"InProgress"}, code : {"none"}, index : {0}, old : BOOLEAN]

ASSUME CourierAssumption ==
    /\ Envelopes # {} /\ Caps \cap Envelopes = {} /\ None \notin Replicas \cup InProgress
    /\ {QueueSize, DispatchSlots, MaxReads, MaxWrites, MaxBoxes} \subseteq Nat \ {0}
    /\ Intermediates \in [Envelopes -> Replicas \X Replicas]
    /\ Shards \in [Caps -> Replicas \X Replicas]
    /\ Contents \in [Caps -> Seq(Envelopes)] /\ \A e \in Envelopes : SizeOf[e] \in Nat
    /\ Scenarios \subseteq [ask : SUBSET Envelopes, copy : SUBSET Caps, taken : SUBSET Envelopes,
                           away : SUBSET Replicas, down : SUBSET Replicas,
                           lagging : SUBSET Replicas, keyless : SUBSET Replicas, faults : Nat,
                           losses : Nat, decoys : Nat, documents : Nat, weeks : Nat, ages : Nat,
                           crashes : Nat]

VARIABLES left,           \* what may still happen of the scenario
          epoch,          \* replica epoch of the clock
          listed,         \* replicas in the latest document, and in PKI.replicas
          conns,          \* Connector.conns: one outgoingConn for a replica, or None
          dedupCache,     \* Courier.dedupCache
          copyCache,      \* Courier.copyCache: the tasks that wait for a hash
          copyDedupCache, \* Courier.copyDedupCache
          tasks,          \* the goroutines that send to replicas
          stored,         \* replica -> the envelopes whose write it has accepted
          temp,           \* replica -> temporary box -> what the replica holds
          answers         \* envelope -> the last answer its client got

vars == <<left, epoch, listed, conns, dedupCache, copyCache, copyDedupCache, tasks,
          stored, temp, answers>>
network == <<left, epoch, listed>>
caches  == <<dedupCache, copyDedupCache, answers>>

Streams   == [c \in Caps |-> Encode(Contents[c])]
Stream(c) == Streams[c]
Boxes(c)  == DOMAIN Stream(c)
Tasks     == ({"query"} \X Envelopes) \cup ({"copy", "erase"} \X Caps)
Owner(t)  == t[2]

IdleTask == [at |-> "idle", todo |-> <<>>, chan |-> <<>>, want |-> 0, attempt |-> 0, shard |-> 1,
             box |-> 1, buffer |-> <<>>, ready |-> <<>>, done |-> 0, code |-> "none"]

(* The hash of what a task sends now: a read has a fresh key pair for every attempt, an
   envelope always the same hash, also when a Copy sends it. *)
Hash(t, w) ==
    CASE t[1] = "query" -> <<"query", Owner(t)>>
      [] t[1] = "erase" -> <<"erase", Owner(t), w.box>>
      [] t[1] = "copy" /\ w.ready # <<>> -> <<"query", Head(w.ready)>>
      [] t[1] = "copy" /\ w.ready = <<>> -> <<"read", Owner(t), w.box, w.shard, w.attempt>>

(* An entry of copyCache is set, in place of one with that hash, and deleted. *)
Register(f, h, t) == [k \in DOMAIN f \cup {h} |-> IF k = h THEN t ELSE f[k]]
Drop(f, h)        == [k \in DOMAIN f \ {h} |-> f[k]]

NewConn == [up |-> FALSE, queue |-> <<>>, wire |-> <<>>, waiting |-> FALSE, hold |-> None]

(* A scenario says which envelopes clients ask for and which caps they copy, what the
   replicas hold, and how often each thing beyond the courier's control may happen. *)
Init ==
    /\ left \in Scenarios
    /\ epoch = 1
    /\ listed = Replicas
    /\ conns = [r \in Replicas |-> IF r \in left.away THEN None ELSE NewConn]
    /\ dedupCache = [e \in Envelopes |-> None]
    /\ copyCache = <<>>
    /\ copyDedupCache = [c \in Caps |-> None]
    /\ tasks = [t \in Tasks |-> IdleTask]
    /\ stored = [r \in Replicas |-> {}]
    /\ temp = [r \in Replicas |->
                 [b \in {<<c, k>> : c \in Caps, k \in 1..MaxBoxes} |->
                    IF b[2] \in Boxes(b[1]) /\ r \notin left.lagging THEN "data" ELSE "none"]]
    /\ answers = [e \in Envelopes |-> "none"]

-------------------------------------------------------------------------------
(* isEnvelopeEpochAcceptable *)
Acceptable(e) == ReadEpoch[e] \in (epoch - 1)..(epoch + 1)

(* The bug of a cache that waits for both replies before it sends again. *)
FaultyOnlyErrors(entry) == \A i \in 1..2 : entry.replies[i] \notin {None, "ok"}

(* cacheEntryHasOnlyErrors: some reply has come and none is a success. *)
OnlyErrors(entry) ==
    /\ \E i \in 1..2 : entry.replies[i] # None
    /\ \A i \in 1..2 : entry.replies[i] # "ok"

(* handleOldMessage: the reply at the index the client asks for, or the other one when
   that has not come or is empty.  A refusal before decryption has an empty payload. *)
OldAnswer(entry, i) ==
    LET mine  == entry.replies[i]
        other == entry.replies[3 - i]
        Empty(reply) == reply \in {None, "refused"}
    IN  IF ~Empty(mine) THEN mine ELSE IF ~Empty(other) THEN other ELSE "ack"

(* scheduleReplicaDispatch collapses to the dispatch in flight, if there is one. *)
Schedule(e) ==
    LET t == <<"query", e>>
    IN  tasks' = IF tasks[t].at = "idle"
                 THEN [tasks EXCEPT ![t].at = "queued", ![t].todo = Intermediates[e]]
                 ELSE tasks

(* cacheHandleCourierEnvelope: a client asks for the first or the second reply. *)
Ask(e, i) ==
    /\ e \in left.ask
    /\ \/ /\ ~Acceptable(e)
          /\ answers' = [answers EXCEPT ![e] = "epoch"]
          /\ UNCHANGED <<dedupCache, tasks>>
       \/ /\ Acceptable(e) /\ dedupCache[e] = None
          /\ dedupCache' = [d \in Envelopes |->
                IF d = e THEN [old |-> FALSE, replies |-> <<None, None>>]
                ELSE IF dedupCache[d] # None /\ dedupCache[d].old THEN None
                ELSE dedupCache[d]]
          /\ Schedule(e)
          /\ answers' = [answers EXCEPT ![e] = "ack"]
       \/ /\ Acceptable(e) /\ dedupCache[e] # None
          /\ IF OnlyErrors(dedupCache[e]) THEN Schedule(e) ELSE UNCHANGED tasks
          /\ answers' = [answers EXCEPT ![e] = OldAnswer(dedupCache[e], i)]
          /\ UNCHANGED dedupCache
    /\ UNCHANGED <<network, conns, copyCache, copyDedupCache, stored, temp>>

(* handleCopyCommand.  A poll that finds a state in progress or a fresh verdict answers
   with it and changes nothing. *)
Expired(verdict) == verdict # None /\ verdict.status # "InProgress" /\ verdict.old

Copy(c) ==
    /\ c \in left.copy
    /\ copyDedupCache[c] = None \/ Expired(copyDedupCache[c])
    /\ copyDedupCache' = [d \in Caps |->
          IF d = c THEN [status |-> "InProgress", code |-> "none", index |-> 0, old |-> FALSE]
          ELSE IF Expired(copyDedupCache[d]) THEN None ELSE copyDedupCache[d]]
    /\ tasks' = [tasks EXCEPT ![<<"copy", c>>] = [IdleTask EXCEPT !.at = "pause"]]
    /\ UNCHANGED <<network, conns, dedupCache, copyCache, stored, temp, answers>>

-------------------------------------------------------------------------------
(* What a Copy does after an attempt that failed, and after one that did not. *)
NextShard(w) ==
    IF w.shard < 2 THEN [w EXCEPT !.at = "pause", !.shard = 2, !.attempt = 0]
    ELSE [w EXCEPT !.at = "failed"]

(* The bug of an attempt that is not counted. *)
FaultyCopyAgain(w) == [w EXCEPT !.at = "pause"]

CopyAgain(w) ==
    IF w.ready = <<>>
    THEN IF w.attempt + 1 < MaxReads THEN [w EXCEPT !.at = "pause", !.attempt = @ + 1]
         ELSE NextShard(w)
    ELSE IF w.attempt + 1 < MaxWrites THEN [w EXCEPT !.at = "pause", !.attempt = @ + 1]
         ELSE [w EXCEPT !.at = "failed", !.code = "none"]

(* The box after the one that is finished, unless that one was final or the last allowed. *)
NextBox(c, w) ==
    IF w.box \in Boxes(c) /\ Stream(c)[w.box].final THEN [w EXCEPT !.at = "succeeded"]
    ELSE IF w.box = MaxBoxes THEN [w EXCEPT !.at = "failed", !.code = "none"]
    ELSE [w EXCEPT !.at = "pause", !.box = @ + 1, !.shard = 1, !.attempt = 0]

(* A box has been read: what it holds is added to the decoder, the envelopes that are
   complete now are dispatched in order.  A box that was overwritten decrypts to nothing. *)
BoxRead(c, w, code) ==
    LET got     == IF code = "data" THEN Stream(c)[w.box].data ELSE <<>>
        decoded == Decode(w.buffer \o got)
        next    == [w EXCEPT !.buffer = decoded.rest, !.ready = decoded.envelopes,
                             !.attempt = 0, !.code = "none"]
    IN  IF decoded.failed THEN [w EXCEPT !.at = "failed", !.code = "none"]
        ELSE IF decoded.envelopes = <<>> THEN NextBox(c, next)
        ELSE [next EXCEPT !.at = "pause"]

EnvelopeCopied(c, w) ==
    LET next == [w EXCEPT !.ready = Tail(@), !.done = @ + 1, !.attempt = 0]
    IN  IF next.ready = <<>> THEN NextBox(c, next) ELSE [next EXCEPT !.at = "pause"]

(* classifyReplicaErrorForCopyRead *)
Temporary(code) == code \in {"absent", "busy"}

(* The bug of a Copy that takes any reply for a write that was accepted. *)
FaultyCopyReplies(c, w, replies) ==
    IF w.ready # <<>>
    THEN IF replies = <<>> THEN CopyAgain(w) ELSE EnvelopeCopied(c, w)
    ELSE IF replies = <<>> THEN CopyAgain(w) ELSE BoxRead(c, w, replies[1])

(* dispatchCopyEnvelope and readBoxFromShardReplicas on the replies of one attempt. *)
CopyReplies(c, w, replies) ==
    IF w.ready # <<>>
    THEN IF replies = <<>> THEN CopyAgain(w)
         ELSE IF Contains(replies, "ok") THEN EnvelopeCopied(c, w)
         ELSE [w EXCEPT !.at = "failed",
                        !.code = IF Contains(replies, "exists") THEN "exists" ELSE replies[1]]
    ELSE IF replies = <<>> THEN CopyAgain(w)
    ELSE LET code == replies[1]
         IN  IF code \in {"data", "blank"} THEN BoxRead(c, w, code)
             ELSE IF Temporary(code) THEN CopyAgain([w EXCEPT !.code = code])
             ELSE NextShard([w EXCEPT !.code = code])

(* dispatchTombstone, and the loop over the boxes in writeTombstonesToTempChannel. *)
EraseNext(c, w) ==
    IF w.box < Len(Stream(c)) THEN [w EXCEPT !.at = "pause", !.box = @ + 1, !.attempt = 0]
    ELSE IdleTask

EraseReplies(c, w, replies) ==
    IF Contains(replies, "ok") \/ Contains(replies, "exists") \/ w.attempt + 1 = MaxWrites
    THEN EraseNext(c, w)
    ELSE [w EXCEPT !.at = "pause", !.attempt = @ + 1]

(* runCopyCommand stores the verdict; after a success the tombstones are written by a
   goroutine of their own, off the reply path. *)
Settle(t, w) ==
    LET c == Owner(t)
    IN  IF w.at \notin {"failed", "succeeded"}
        THEN tasks' = [tasks EXCEPT ![t] = w] /\ UNCHANGED copyDedupCache
        ELSE /\ copyDedupCache' = [copyDedupCache EXCEPT ![c] =
                  IF w.at = "succeeded"
                  THEN [status |-> "Succeeded", code |-> "none", index |-> 0, old |-> FALSE]
                  ELSE [status |-> "Failed", code |-> w.code, index |-> w.done + 1, old |-> FALSE]]
             /\ tasks' = [tasks EXCEPT ![t] = IdleTask,
                   ![<<"erase", c>>] = IF w.at = "succeeded" /\ @.at = "idle"
                                       THEN [IdleTask EXCEPT !.at = "pause"] ELSE @]

-------------------------------------------------------------------------------
(* The goroutine of scheduleReplicaDispatch gets a slot of dispatchSem. *)
Acquire(e) ==
    LET t == <<"query", e>>
    IN  /\ tasks[t].at = "queued"
        /\ Cardinality({d \in Envelopes : tasks[<<"query", d>>].at \notin {"idle", "queued"}})
              < DispatchSlots
        /\ tasks' = [tasks EXCEPT ![t].at = "send"]
        /\ UNCHANGED <<network, conns, caches, copyCache, stored, temp>>

(* An attempt of a Copy or of a tombstone begins: the channel for its replies is
   registered before anything is sent. *)
Targets(t, w) ==
    LET c         == Owner(t)
        Usable(r) == IF r \in listed \ left.keyless THEN <<r>> ELSE <<>>
    IN  IF t[1] = "erase" THEN Usable(Shards[c][1]) \o Usable(Shards[c][2])
        ELSE IF w.ready # <<>> THEN Intermediates[Head(w.ready)]
        ELSE Usable(Shards[c][w.shard])

Begin(t) ==
    LET w == tasks[t]
    IN  /\ w.at = "pause"
        /\ IF Targets(t, w) = <<>>
           THEN /\ Settle(t, IF t[1] = "erase" THEN EraseNext(Owner(t), w) ELSE NextShard(w))
                /\ UNCHANGED copyCache
           ELSE /\ tasks' = [tasks EXCEPT ![t] =
                      [w EXCEPT !.at = "send", !.todo = Targets(t, w), !.chan = <<>>,
                              !.want = Len(Targets(t, w))]]
                /\ copyCache' = Register(copyCache, Hash(t, w), t)
                /\ UNCHANGED copyDedupCache
        /\ UNCHANGED <<network, conns, dedupCache, stored, temp, answers>>

(* propagateQueryToReplicas, the SendMessage of a read and the sends of a tombstone, one
   replica at a time.  DispatchMessage fails without a document that lists the replica or
   without a connection; dispatchMessage waits for room in the queue of the connection. *)
Room(r) == conns[r] # None /\ Len(conns[r].queue) < QueueSize

SendFails(r) == r \notin listed \/ conns[r] = None

Sent(t, w) ==
    LET next == [w EXCEPT !.todo = Tail(@)]
    IN  IF next.todo # <<>> THEN [next EXCEPT !.at = "send"]
        ELSE IF t[1] = "query" THEN IdleTask
        ELSE [next EXCEPT !.at = "wait"]

Send(t) ==
    LET w == tasks[t]
        r == Head(w.todo)
    IN  /\ w.at \in {"send", "stuck"}
        /\ \/ /\ w.at = "send" /\ SendFails(r)
              /\ IF t[1] = "copy"
                 THEN /\ Settle(t, CopyAgain(w))
                      /\ copyCache' = Drop(copyCache, Hash(t, w))
                 ELSE /\ tasks' = [tasks EXCEPT ![t] =
                             IF t[1] = "query" THEN IdleTask ELSE Sent(t, w)]
                      /\ UNCHANGED <<copyCache, copyDedupCache>>
              /\ UNCHANGED conns
           \/ /\ w.at = "stuck" \/ ~SendFails(r)
              /\ Room(r)
              /\ conns' = [conns EXCEPT ![r].queue = Append(@, Hash(t, w))]
              /\ tasks' = [tasks EXCEPT ![t] = Sent(t, w)]
              /\ UNCHANGED <<copyCache, copyDedupCache>>
           \/ /\ w.at = "send" /\ ~SendFails(r) /\ ~Room(r)
              /\ tasks' = [tasks EXCEPT ![t].at = "stuck"]
              /\ UNCHANGED <<conns, copyCache, copyDedupCache>>
    /\ UNCHANGED <<network, dedupCache, stored, temp, answers>>

(* The collector of an attempt leaves with the replies it has, when they are all it wants
   or when its timeout has passed, and unregisters the channel. *)
Collect(t) ==
    LET w       == tasks[t]
        replies == SubSeq(w.chan, 1, IF Len(w.chan) < w.want THEN Len(w.chan) ELSE w.want)
    IN  /\ w.at = "wait"
        /\ copyCache' = Drop(copyCache, Hash(t, w))
        /\ Settle(t, IF t[1] = "copy" THEN CopyReplies(Owner(t), w, replies)
                     ELSE EraseReplies(Owner(t), w, replies))
        /\ UNCHANGED <<network, conns, dedupCache, stored, temp, answers>>

-------------------------------------------------------------------------------
(* The connection worker.  Establish: the handshake is done and the sender has a rate. *)
Establish(r) ==
    /\ conns[r] # None /\ ~conns[r].up /\ r \in listed /\ r \notin left.down
    /\ conns' = [conns EXCEPT ![r].up = TRUE, ![r].waiting = FALSE]
    /\ UNCHANGED <<network, caches, copyCache, tasks, stored, temp>>

(* runEventLoop hands one command to the writer and waits for something to come back. *)
Running(r) == conns[r] # None /\ conns[r].up /\ conns[r].hold = None

Transmit(r) ==
    /\ Running(r) /\ ~conns[r].waiting /\ conns[r].queue # <<>>
    /\ conns' = [conns EXCEPT ![r].queue = Tail(@), ![r].waiting = TRUE,
                              ![r].wire = Append(@, Head(conns[r].queue))]
    /\ UNCHANGED <<network, caches, copyCache, tasks, stored, temp>>

(* What a replica does with a message, and the codes it may answer (external: replica).
   The "tombstone" of a temporary box is a ciphertext of an empty message and not an
   empty payload, so a replica that holds the box refuses it like any second write. *)
Holds(r, h) == temp[r][<<h[2], h[3]>>]

Codes(r, h) ==
    (CASE h[1] = "query" -> {IF h[2] \in left.taken THEN "exists" ELSE "ok"}
       [] h[1] = "read"  -> {IF Holds(r, h) = "none" THEN "absent" ELSE Holds(r, h)}
       [] h[1] = "erase" -> {IF Holds(r, h) = "data" THEN "exists" ELSE "ok"})
    \cup (IF left.faults > 0 THEN {"busy", "refused"} ELSE {})

Applies(r, h, code) ==
    /\ stored' = IF h[1] = "query" /\ code = "ok"
                 THEN [stored EXCEPT ![r] = @ \cup {h[2]}] ELSE stored
    /\ temp' = IF h[1] = "erase" /\ code = "ok"
               THEN [temp EXCEPT ![r][<<h[2], h[3]>>] = "blank"] ELSE temp

(* The bug of a cache where the latest reply wins. *)
FaultyReplaces(old, new) == TRUE

(* storeOrReplaceReply, for the slot of the replica the reply names. *)
Replaces(old, new) == old # "ok"

CacheReply(e, from, code) ==
    dedupCache' = IF dedupCache[e] = None THEN dedupCache
                  ELSE [dedupCache EXCEPT ![e].replies = [i \in 1..2 |->
                          IF Intermediates[e][i] = from /\ Replaces(@[i], code)
                          THEN code ELSE @[i]]]

(* A reply arrives and the event loop runs HandleReply: to the collector that waits for
   its hash, or into the cache.  A full channel holds the loop up.  A replica that
   refuses a message before it has decrypted it answers with the identifier 0. *)
Answer(r) ==
    /\ Running(r) /\ conns[r].wire # <<>>
    /\ \E code \in Codes(r, Head(conns[r].wire)) :
        LET h    == Head(conns[r].wire)
            from == IF code = "refused" THEN Zero ELSE r
            read == [conns EXCEPT ![r].wire = Tail(@), ![r].waiting = FALSE]
        IN  /\ left' = IF code \in {"busy", "refused"} THEN [left EXCEPT !.faults = @ - 1] ELSE left
            /\ Applies(r, h, code)
            /\ IF h \in DOMAIN copyCache
               THEN LET t == copyCache[h]
                    IN  /\ IF Len(tasks[t].chan) < 2 * tasks[t].want
                           THEN /\ tasks' = [tasks EXCEPT ![t].chan = Append(@, code)]
                                /\ conns' = read
                           ELSE /\ conns' = [read EXCEPT ![r].hold = code]
                                /\ UNCHANGED tasks
                        /\ UNCHANGED dedupCache
               ELSE /\ conns' = read
                    /\ IF h[1] = "query" THEN CacheReply(h[2], from, code)
                       ELSE UNCHANGED dedupCache
                    /\ UNCHANGED tasks
    /\ UNCHANGED <<epoch, listed, copyCache, copyDedupCache, answers>>

(* A decoy of the replica counts as the answer the event loop waits for. *)
Decoy(r) ==
    /\ left.decoys > 0 /\ Running(r) /\ conns[r].waiting
    /\ left' = [left EXCEPT !.decoys = @ - 1]
    /\ conns' = [conns EXCEPT ![r].waiting = FALSE]
    /\ UNCHANGED <<epoch, listed, caches, copyCache, tasks, stored, temp>>

(* The connection dies.  What is on the wire is lost, before the replica has applied it
   or after; the queue stays with the sender for the next session. *)
Lose(r) ==
    /\ left.losses > 0 /\ Running(r)
    /\ left' = [left EXCEPT !.losses = @ - 1]
    /\ conns' = [conns EXCEPT ![r].up = FALSE, ![r].wire = <<>>]
    /\ IF conns[r].wire = <<>> THEN UNCHANGED <<stored, temp>>
       ELSE LET h == Head(conns[r].wire)
            IN  \E code \in Codes(r, h) : Applies(r, h, code)
    /\ UNCHANGED <<epoch, listed, caches, copyCache, tasks>>

(* spawnNewConns; and the end of the worker of a replica that has left the documents:
   OnClosedConn removes it, what waits for room in its queue waits for ever. *)
Spawn(r) ==
    /\ conns[r] = None /\ r \in listed
    /\ conns' = [conns EXCEPT ![r] = NewConn]
    /\ UNCHANGED <<network, caches, copyCache, tasks, stored, temp>>

Leave(r) ==
    /\ conns[r] # None /\ ~conns[r].up /\ r \notin listed
    /\ conns' = [conns EXCEPT ![r] = None]
    /\ tasks' = [t \in Tasks |-> IF tasks[t].at = "stuck" /\ Head(tasks[t].todo) = r
                                THEN [tasks[t] EXCEPT !.at = "wedged"] ELSE tasks[t]]
    /\ UNCHANGED <<network, caches, copyCache, stored, temp>>

-------------------------------------------------------------------------------
(* A document without the replica, or with it again. *)
Document(r) ==
    /\ left.documents > 0
    /\ left' = [left EXCEPT !.documents = @ - 1]
    /\ listed' = IF r \in listed THEN listed \ {r} ELSE listed \cup {r}
    /\ UNCHANGED <<epoch, conns, caches, copyCache, tasks, stored, temp>>

(* The next replica epoch begins. *)
Tick ==
    /\ left.weeks > 0
    /\ left' = [left EXCEPT !.weeks = @ - 1]
    /\ epoch' = epoch + 1
    /\ UNCHANGED <<listed, conns, caches, copyCache, tasks, stored, temp>>

(* DedupCacheTTL and CopyDedupCacheTTL pass.  They are minutes: a bound of the model is
   that neither a message on its way nor the tombstones of a stream take that long. *)
Age ==
    /\ left.ages > 0
    /\ \A r \in Replicas : conns[r] # None => conns[r].queue = <<>> /\ conns[r].wire = <<>>
    /\ \A c \in Caps : tasks[<<"erase", c>>].at = "idle"
    /\ left' = [left EXCEPT !.ages = @ - 1]
    /\ dedupCache' = [e \in Envelopes |->
          IF dedupCache[e] = None THEN None ELSE [dedupCache[e] EXCEPT !.old = TRUE]]
    /\ copyDedupCache' = [c \in Caps |->
          IF copyDedupCache[c] = None THEN None ELSE [copyDedupCache[c] EXCEPT !.old = TRUE]]
    /\ UNCHANGED <<epoch, listed, conns, copyCache, tasks, stored, temp, answers>>

(* The courier restarts with nothing: its caches and its queues are in memory. *)
Restart ==
    /\ left.crashes > 0
    /\ left' = [left EXCEPT !.crashes = @ - 1]
    /\ conns' = [r \in Replicas |-> None]
    /\ dedupCache' = [e \in Envelopes |-> None]
    /\ copyDedupCache' = [c \in Caps |-> None]
    /\ copyCache' = <<>>
    /\ tasks' = [t \in Tasks |-> IdleTask]
    /\ UNCHANGED <<epoch, listed, stored, temp, answers>>

Work(t) == Begin(t) \/ Send(t) \/ Collect(t)

Next ==
    \/ \E e \in Envelopes, i \in 1..2 : Ask(e, i)
    \/ \E c \in Caps : Copy(c)
    \/ \E e \in Envelopes : Acquire(e)
    \/ \E t \in Tasks : Work(t)
    \/ \E r \in Replicas :
           \/ Establish(r) \/ Transmit(r) \/ Answer(r) \/ Decoy(r) \/ Lose(r)
           \/ Spawn(r) \/ Leave(r) \/ Document(r)
    \/ Tick \/ Age \/ Restart

Spec == Init /\ [][Next]_vars

(* Clients resend until they have their payload, the goroutines run, and a replica that
   is listed and not down is reached and answers. *)
FairSpec ==
    /\ Spec
    /\ \A e \in Envelopes : WF_vars(\E i \in 1..2 : Ask(e, i)) /\ WF_vars(Acquire(e))
    /\ \A t \in Tasks : WF_vars(Work(t))
    /\ \A r \in Replicas : /\ WF_vars(Establish(r)) /\ WF_vars(Spawn(r)) /\ WF_vars(Leave(r))
                           /\ WF_vars(Transmit(r)) /\ WF_vars(Answer(r))

-------------------------------------------------------------------------------
Codings == {None, "ok", "exists", "busy", "refused"}

(* Type invariant of the courier: its caches, its tasks and the queues at their limits. *)
TypeOK ==
    /\ epoch \in Nat /\ listed \subseteq Replicas
    /\ \A r \in Replicas : conns[r] # None =>
          /\ Len(conns[r].queue) <= QueueSize
          /\ conns[r].up \/ conns[r].wire = <<>>
    /\ \A e \in Envelopes : dedupCache[e] # None =>
          \A i \in 1..2 : dedupCache[e].replies[i] \in Codings
    /\ \A h \in DOMAIN copyCache : copyCache[h] \in Tasks
    /\ \A t \in Tasks : Len(tasks[t].chan) <= 2 * tasks[t].want

(* A verdict that clients poll is true of the replicas.  Succeeded: every envelope of the
   stream is stored.  Failed at an index: what precedes it in the stream is stored, and if
   the code is "already exists", that envelope is the one whose destination is taken. *)
VerdictIsTrue ==
    \A c \in Caps : copyDedupCache[c] # None =>
        LET verdict   == copyDedupCache[c]
            Copied(n) == \E r \in Replicas : Contents[c][n] \in stored[r]
        IN  /\ verdict.status = "Succeeded" => \A n \in DOMAIN Contents[c] : Copied(n)
            /\ verdict.status = "Failed" =>
                  /\ \A n \in 1..verdict.index - 1 : Copied(n)
                  /\ verdict.code = "exists" => Contents[c][verdict.index] \in left.taken

(* The status InProgress stands for one worker: while clients are told to keep polling
   somebody works on the Copy, and no Copy runs that no status answers for. *)
InProgressIsWorking ==
    \A c \in Caps : tasks[<<"copy", c>>].at # "idle"
                    <=> copyDedupCache[c] # None /\ copyDedupCache[c].status = "InProgress"

(* What a replica has answered with success stays in the cache for the client's next
   poll, whatever comes late from another attempt. *)
Stays ==
    \A e \in Envelopes, i \in 1..2 :
        dedupCache[e] # None /\ dedupCache[e].replies[i] = "ok" /\ dedupCache'[e] # None
        => dedupCache'[e].replies[i] = "ok"

AnswersStay == [][Stays]_vars

(* An envelope of which the cache knows only errors is dispatched again by its client's
   polls until something better is known, also when dispatches and replies get lost. *)
ErrorsAreRefreshed ==
    \A e \in Envelopes :
        LET HasReply(codes) == dedupCache[e] # None
                               /\ \E i \in 1..2 : dedupCache[e].replies[i] \in codes
        IN  e \notin left.taken /\ HasReply({"exists", "busy", "refused"}) ~>
                dedupCache[e] = None \/ HasReply({"ok"})

(* Every Copy comes to a verdict. *)
CopyEnds == \A c \in Caps : tasks[<<"copy", c>>].at # "idle" ~> tasks[<<"copy", c>>].at = "idle"

(* "The client is expected to keep resending the identical CourierEnvelope until it
   receives a PAYLOAD reply" (plugin.go:493): a client that does receives one. *)
PolledIsAnswered == \A e \in Envelopes : answers[e] = "ack" ~> answers[e] # "ack"

(* "writes tombstones to clean up the temporary channel" (plugin.go:1261): what a Copy has
   read is gone once its tombstones are written. *)
StreamIsErased ==
    \A c \in Caps :
        copyDedupCache[c] # None /\ copyDedupCache[c].status = "Succeeded"
        /\ tasks[<<"erase", c>>].at = "idle"
        => \A k \in Boxes(c), r \in Replicas : temp[r][<<c, k>>] # "data"

(* "Buffer 2 so both intermediates can land without blocking the HandleReply goroutine"
   (plugin.go:999): the event loop of a connection is never held up by a channel. *)
LoopsRun == \A r \in Replicas : conns[r] # None => conns[r].hold = None
=============================================================================
