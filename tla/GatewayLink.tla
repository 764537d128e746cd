------------------------------ MODULE GatewayLink ------------------------------
(***************************************************************************)
(* The client daemon's connection to a gateway (client/connection.go), the *)
(* documents it fetches over it (client/pki.go) and the packets it sends   *)
(* over it (client/send.go).                                               *)
(*                                                                         *)
(* One goroutine connects and runs the event loop of the connection.  The  *)
(* goroutines that fetch documents ("worker", the PKI worker, and "user",  *)
(* who needs a document to select a path) and the one that sends meet the  *)
(* event loop on unbuffered channels.                                      *)
(***************************************************************************)
EXTENDS Integers, Sequences, FiniteSets

CONSTANTS Gateways, None,
          Listed,      \* epoch -> the gateways of its document
          Chunks,      \* in how many pieces a document comes
          Attempts,    \* waitForCurrentDocumentAttempts
          Scenarios    \* how often what is beyond the daemon's control may happen

Callers == {"worker", "user"}

(* getConsensusCtx: whose call of GetConsensus it belongs to, and the epoch it asks for. *)
Contexts == [by : Callers, n : Nat, epoch : Nat \ {0}]

ASSUME LinkAssumption ==
    /\ None \notin Gateways \cup Contexts /\ {Chunks, Attempts} \subseteq Nat \ {0}
    /\ 1 \in DOMAIN Listed
    /\ \A e \in DOMAIN Listed : Listed[e] # {} /\ Listed[e] \subseteq Gateways

Epochs  == DOMAIN Listed

VARIABLES left,       \* what may still happen of the scenario
          epoch,      \* the epoch of the clock
          published,  \* the last epoch of which the gateways have the document
          link,       \* the connect goroutine and its event loop
          inbox,      \* what the gateway has sent and the reader has not handed over
          asked,      \* the GetConsensus commands the gateway has not answered
          queue,      \* connection.getConsensusCh
          calls,      \* the calls of GetConsensus
          docs,       \* pki.docs
          failed,     \* pki.failedFetches
          announced,  \* lastCallbackEpoch
          round,      \* of the PKI worker: its epoch, what it has still to fetch, has it got any
          sender      \* who sends a packet

vars == <<left, epoch, published, link, inbox, asked, queue, calls, docs, failed,
          announced, round, sender>>
world  == <<left, epoch, published>>
worker == <<failed, announced, round>>

NoCall == [at |-> "idle", n |-> 0, epoch |-> 0, tries |-> 0]
Asleep == [now |-> 0, todo |-> <<>>, updated |-> FALSE]
Free   == [kind |-> "free"]
Done(ctx, ok)     == [kind |-> "done", ctx |-> ctx, ok |-> ok]
Reply(ctx, reply) == [kind |-> "reply", ctx |-> ctx, reply |-> reply]

Init ==
    /\ left \in Scenarios
    /\ epoch = 1 /\ published = 1
    /\ link = [at |-> "connect", gateway |-> None, up |-> FALSE, dead |-> FALSE,
               ctx |-> None, chunk |-> 0, busy |-> Free]
    /\ inbox = <<>> /\ asked = <<>> /\ queue = <<>>
    /\ calls = [c \in Callers |-> NoCall]
    /\ docs = {} /\ failed = {} /\ announced = 0 /\ round = Asleep
    /\ sender = "idle"

-------------------------------------------------------------------------------
(* currentDocument: the epoch's document, or the one of the epoch before. *)
Current == IF epoch \in docs THEN epoch ELSE IF epoch - 1 \in docs THEN epoch - 1 ELSE 0

(* A fetch of a document, by the PKI worker or by a call of CurrentDocument, ends. *)
Store(e, code) == docs' = IF code = "ok" THEN docs \cup {e} ELSE docs

(* updateDocument and GetConsensus: a call ends at once without a connection. *)
Fetch(c, e) ==
    calls' = [calls EXCEPT ![c].at = IF link.up THEN "push" ELSE "failed", ![c].epoch = e]

(* The context of a call goes into the channel, which holds one. *)
Push(c) ==
    /\ calls[c].at = "push" /\ queue = <<>>
    /\ queue' = <<[by |-> c, n |-> calls[c].n, epoch |-> calls[c].epoch]>>
    /\ calls' = [calls EXCEPT ![c].at = "dispatch"]
    /\ UNCHANGED <<world, link, inbox, asked, docs, worker, sender>>

(* pkiFetchTimeout passes.  The call that is made next has channels of its own. *)
Timeout(c) ==
    /\ left.timeouts > 0 /\ calls[c].at \in {"push", "dispatch", "wait"}
    /\ left' = [left EXCEPT !.timeouts = @ - 1]
    /\ calls' = [calls EXCEPT ![c].at = "failed", ![c].n = @ + 1]
    /\ UNCHANGED <<epoch, published, link, inbox, asked, queue, docs, worker, sender>>

(* doneFn and replyCh are unbuffered: the event loop goes on when the call they belong to
   takes what it has for it. *)
HandDone ==
    LET c == link.busy.ctx.by
    IN  /\ link.busy.kind = "done"
        /\ calls[c].at = "dispatch" /\ calls[c].n = link.busy.ctx.n
        /\ calls' = [calls EXCEPT ![c].at = IF link.busy.ok THEN "wait" ELSE "failed"]
        /\ link' = [link EXCEPT !.busy = Free]
        /\ UNCHANGED <<world, inbox, asked, queue, docs, worker, sender>>

(* getDocument on the reply: a document that cannot be had any more is remembered by the
   PKI worker, every other failure is retried. *)
HandReply ==
    LET c == link.busy.ctx.by
        code == link.busy.reply.code
    IN  /\ link.busy.kind = "reply"
        /\ calls[c].at = "wait" /\ calls[c].n = link.busy.ctx.n
        /\ calls' = [calls EXCEPT ![c].at = IF code = "ok" THEN "ok"
                                            ELSE IF code = "gone" THEN "gone" ELSE "failed"]
        /\ Store(calls[c].epoch, code)
        /\ link' = [link EXCEPT !.busy = Free]
        /\ UNCHANGED <<world, inbox, asked, queue, worker, sender>>

-------------------------------------------------------------------------------
(* pki.worker wakes up when it may be missing something: nextPKIWakeup, or the update
   that a handshake forces.  Its round is about the epoch it wakes up in. *)
Wanted(e) ==
    e \notin docs \cup failed /\ (e = epoch \/ published > epoch \/ left.early > 0)
Missing == (IF Wanted(epoch) THEN <<epoch>> ELSE <<>>)
           \o (IF Wanted(epoch + 1) THEN <<epoch + 1>> ELSE <<>>)

Wake ==
    /\ round = Asleep
    /\ Missing # <<>> \/ (epoch \in docs /\ announced # epoch)
    /\ round' = [now |-> epoch, todo |-> Missing, updated |-> FALSE]
    /\ left' = IF published = epoch /\ left.early > 0 THEN [left EXCEPT !.early = @ - 1] ELSE left
    /\ UNCHANGED <<epoch, published, link, inbox, asked, queue, calls, docs, failed, announced, sender>>

WorkerFetches ==
    /\ round.todo # <<>> /\ calls["worker"].at = "idle"
    /\ IF Head(round.todo) \in docs
       THEN round' = [round EXCEPT !.todo = Tail(@)] /\ UNCHANGED calls
       ELSE Fetch("worker", Head(round.todo)) /\ UNCHANGED round
    /\ UNCHANGED <<world, link, inbox, asked, queue, docs, failed, announced, sender>>

WorkerFetched ==
    /\ calls["worker"].at \in {"ok", "gone", "failed"}
    /\ failed' = IF calls["worker"].at = "gone" THEN failed \cup {Head(round.todo)} ELSE failed
    /\ round' = [round EXCEPT !.todo = Tail(@), !.updated = @ \/ calls["worker"].at = "ok"]
    /\ calls' = [calls EXCEPT !["worker"].at = "idle"]
    /\ UNCHANGED <<world, link, inbox, asked, queue, docs, announced, sender>>

(* Prune, then announce the epoch of the round. *)
WorkerSleeps ==
    LET now == round.now
    IN  /\ round # Asleep /\ round.todo = <<>>
        /\ round' = Asleep
        /\ failed' = failed \cap {now, now + 1}
        /\ docs' = IF round.updated THEN {e \in docs : e + 1 >= now} ELSE docs
        /\ announced' = IF now \in docs' THEN now ELSE announced
        /\ UNCHANGED <<world, link, inbox, asked, queue, calls, sender>>

-------------------------------------------------------------------------------
(* ComposeSphinxPacket asks for a document first: WaitForCurrentDocument fetches it if
   there is none, again and again up to a limit. *)
WaitForCurrentDocument ==
    /\ sender = "compose" /\ Current = 0 /\ calls["user"].at \in {"idle", "failed", "gone", "ok"}
    /\ IF calls["user"].tries < Attempts
       THEN /\ calls' = [calls EXCEPT !["user"].at = IF link.up THEN "push" ELSE "failed",
                            !["user"].epoch = epoch, !["user"].tries = @ + 1]
            /\ UNCHANGED sender
       ELSE /\ sender' = "idle"
            /\ calls' = [calls EXCEPT !["user"].at = "idle", !["user"].tries = 0]
    /\ UNCHANGED <<world, link, inbox, asked, queue, docs, worker>>

StartsSending ==
    /\ sender = "idle" /\ left.sends > 0
    /\ sender' = "compose"
    /\ UNCHANGED <<world, link, inbox, asked, queue, calls, docs, worker>>

(* makePath needs the gateway in the document; sendPacket needs a connection and then
   blocks until the event loop takes the packet. *)
Compose ==
    /\ sender = "compose" /\ Current # 0 /\ calls["user"].at \in {"idle", "failed", "gone", "ok"}
    /\ calls' = [calls EXCEPT !["user"].at = "idle", !["user"].tries = 0]
    /\ sender' = IF link.gateway \in Listed[Current] /\ link.up THEN "offer" ELSE "idle"
    /\ UNCHANGED <<world, link, inbox, asked, queue, docs, worker>>

-------------------------------------------------------------------------------
(* getDescriptor: a gateway of the current document, else a pinned one. *)
Connect ==
    /\ link.at = "connect"
    /\ \E g \in IF Current # 0 THEN Listed[Current] ELSE Gateways :
          link' = [link EXCEPT !.at = "dial", !.gateway = g]
    /\ UNCHANGED <<world, inbox, asked, queue, calls, docs, worker, sender>>

(* Dialing or the handshake fails, or onWireConn runs.  The handshake forces a fetch. *)
Refused ==
    /\ link.at = "dial" /\ left.breaks > 0
    /\ left' = [left EXCEPT !.breaks = @ - 1]
    /\ link' = [link EXCEPT !.at = "connect"]
    /\ UNCHANGED <<epoch, published, inbox, asked, queue, calls, docs, worker, sender>>

Established ==
    /\ link.at = "dial"
    /\ link' = [link EXCEPT !.at = "loop", !.up = TRUE, !.dead = FALSE, !.ctx = None, !.chunk = 0]
    /\ inbox' = <<>> /\ asked' = <<>>
    /\ UNCHANGED <<world, queue, calls, docs, worker, sender>>

(* The event loop takes a call, a packet or a command, one at a time. *)
Looping == link.at = "loop" /\ link.busy = Free

(* The bug of a loop that starts a second fetch while one is outstanding. *)
FaultyOutstanding == FALSE
Outstanding == link.ctx # None

(* Without an outstanding fetch the request is sent, and the call is told how that went.
   Writing to a connection that is dead fails or does not. *)
TakeCall ==
    /\ Looping /\ queue # <<>>
    /\ queue' = <<>>
    /\ IF Outstanding
       THEN link' = [link EXCEPT !.busy = Done(Head(queue), FALSE)] /\ UNCHANGED asked
       ELSE /\ link' = [link EXCEPT !.ctx = Head(queue), !.busy = Done(Head(queue), TRUE)]
            /\ asked' = IF link.dead THEN asked ELSE Append(asked, Head(queue).epoch)
    /\ UNCHANGED <<world, inbox, calls, docs, worker, sender>>

CannotWrite ==
    /\ Looping /\ link.dead /\ left.writes > 0
    /\ left' = [left EXCEPT !.writes = @ - 1]
    /\ \/ /\ queue # <<>> /\ ~Outstanding
          /\ queue' = <<>>
          /\ link' = [link EXCEPT !.at = "leave", !.ctx = Head(queue), !.busy = Done(Head(queue), FALSE)]
          /\ UNCHANGED sender
       \/ /\ sender = "offer"
          /\ sender' = "idle"
          /\ link' = [link EXCEPT !.at = "leave"]
          /\ UNCHANGED queue
    /\ UNCHANGED <<epoch, published, inbox, asked, calls, docs, worker>>

TakePacket ==
    /\ Looping /\ sender = "offer"
    /\ sender' = "idle"
    /\ left' = [left EXCEPT !.sends = IF @ > 0 /\ ~link.dead THEN @ - 1 ELSE @]
    /\ UNCHANGED <<epoch, published, link, inbox, asked, queue, calls, docs, worker>>

(* A pushed message goes to a goroutine of its own, which tells the gateway that the
   message is delivered.  A document that nobody has asked for ends the connection. *)
TakeCommand ==
    LET cmd == Head(inbox)
    IN  /\ Looping /\ inbox # <<>>
        /\ inbox' = Tail(inbox)
        /\ link' = CASE cmd.kind = "push" -> link
                     [] cmd.kind = "consensus" /\ link.ctx = None -> [link EXCEPT !.at = "leave"]
                     [] cmd.kind = "consensus" /\ link.ctx # None /\ cmd.chunk < Chunks ->
                            [link EXCEPT !.chunk = cmd.chunk]
                     [] OTHER -> [link EXCEPT !.ctx = None, !.chunk = 0, !.busy = Reply(link.ctx, cmd)]
        /\ UNCHANGED <<world, asked, queue, calls, docs, worker, sender>>

(* The connection dies: the reader's error is the next thing the loop gets from it. *)
Break ==
    /\ left.breaks > 0 /\ link.at = "loop" /\ ~link.dead
    /\ left' = [left EXCEPT !.breaks = @ - 1]
    /\ link' = [link EXCEPT !.dead = TRUE]
    /\ inbox' = <<>> /\ asked' = <<>>
    /\ UNCHANGED <<epoch, published, queue, calls, docs, worker, sender>>

LoopEnds ==
    /\ Looping /\ link.dead
    /\ link' = [link EXCEPT !.at = "leave"]
    /\ UNCHANGED <<world, inbox, asked, queue, calls, docs, worker, sender>>

(* The bug of a loop that forgets the fetch it leaves behind. *)
FaultyLeave ==
    /\ link.at = "leave" /\ link.busy = Free
    /\ link' = [link EXCEPT !.at = "drain", !.up = FALSE, !.ctx = None]
    /\ UNCHANGED <<world, inbox, asked, queue, calls, docs, worker, sender>>

(* The deferred calls of onWireConn: the outstanding fetch gets an error, and only when it
   has taken it the connection counts as lost. *)
Leave ==
    /\ link.at = "leave" /\ link.busy = Free
    /\ link' = IF link.ctx # None
               THEN [link EXCEPT !.ctx = None,
                                 !.busy = Reply(link.ctx, [kind |-> "consensus", code |-> "lost"])]
               ELSE [link EXCEPT !.at = "drain", !.up = FALSE]
    /\ UNCHANGED <<world, inbox, asked, queue, calls, docs, worker, sender>>

(* The bug of a lost connection that empties the channels and tells nobody. *)
FaultyDrain ==
    /\ link.at = "drain" /\ link.busy = Free
    /\ sender' = IF sender = "offer" THEN "waits" ELSE sender
    /\ queue' = <<>>
    /\ link' = [link EXCEPT !.at = "connect"]
    /\ UNCHANGED <<world, inbox, asked, calls, docs, worker>>

(* onConnStatusChange takes one packet and one call out of the channels. *)
Drain ==
    /\ link.at = "drain" /\ link.busy = Free
    /\ sender' = IF sender = "offer" THEN "idle" ELSE sender
    /\ queue' = <<>>
    /\ link' = [link EXCEPT !.at = "connect",
                            !.busy = IF queue # <<>> THEN Done(Head(queue), FALSE) ELSE Free]
    /\ UNCHANGED <<world, inbox, asked, calls, docs, worker>>

-------------------------------------------------------------------------------
(* The gateway (server/internal/incoming) answers in order, a document in chunks. *)
Answer ==
    /\ asked # <<>> /\ ~link.dead
    /\ asked' = Tail(asked)
    /\ LET e == Head(asked)
           Piece(k) == [kind |-> "consensus", code |-> "ok", epoch |-> e, chunk |-> k]
           Failure(code) == <<[kind |-> "consensus", code |-> code, epoch |-> e, chunk |-> Chunks]>>
       IN  inbox' = inbox \o (IF e < epoch - 1 THEN Failure("gone")
                              ELSE IF e > published THEN Failure("notfound")
                              ELSE [k \in 1..Chunks |-> Piece(k)])
    /\ UNCHANGED <<world, link, queue, calls, docs, worker, sender>>

PushMessage ==
    /\ left.pushes > 0 /\ link.at = "loop" /\ ~link.dead
    /\ left' = [left EXCEPT !.pushes = @ - 1]
    /\ inbox' = Append(inbox, [kind |-> "push"])
    /\ UNCHANGED <<epoch, published, link, asked, queue, calls, docs, worker, sender>>

(* The authorities publish the next document before its epoch begins; the daemon may ask
   for it even earlier (left.early). *)
Publish ==
    /\ published = epoch /\ epoch + 1 \in Epochs
    /\ published' = epoch + 1
    /\ UNCHANGED <<left, epoch, link, inbox, asked, queue, calls, docs, worker, sender>>

Tick ==
    /\ published = epoch + 1
    /\ epoch' = epoch + 1
    /\ UNCHANGED <<left, published, link, inbox, asked, queue, calls, docs, worker, sender>>

(* What each goroutine does. *)
Worker  == Wake \/ WorkerFetches \/ WorkerFetched \/ WorkerSleeps
Sends   == StartsSending \/ WaitForCurrentDocument \/ Compose
Links   == Connect \/ Established \/ HandDone \/ HandReply \/ Leave \/ Drain
Loop    == TakeCall \/ CannotWrite \/ TakePacket \/ TakeCommand \/ LoopEnds
Outside == Refused \/ Break \/ Answer \/ PushMessage \/ Publish \/ Tick

Next ==
    \/ \E c \in Callers : Push(c) \/ Timeout(c)
    \/ Worker \/ Sends \/ Links \/ Loop \/ Outside

Spec == Init /\ [][Next]_vars

(* The goroutines of the daemon run, the gateway answers, a dial succeeds when it is not
   refused.  The loop's select takes every channel that is ready again and again sooner or
   later, and Go serves those who wait for a channel in their order. *)
FairSpec ==
    /\ Spec
    /\ WF_vars(Worker) /\ WF_vars(Sends) /\ WF_vars(Links) /\ WF_vars(Answer)
    /\ \A c \in Callers : SF_vars(Push(c))
    /\ SF_vars(TakePacket) /\ SF_vars(TakeCall) /\ SF_vars(TakeCommand) /\ SF_vars(LoopEnds)

-------------------------------------------------------------------------------
(* A reply that goes to a call is for the epoch the call has asked for ("BUG: Provider
   returned document for incorrect epoch", pki.go:459): two calls, or a call and one that
   has ended, never get each other's document. *)
RepliesMatch ==
    link.busy.kind = "reply" /\ link.busy.reply.code # "lost"
        => link.busy.reply.epoch = link.busy.ctx.epoch

(* Whatever breaks, the document of an epoch that lasts is fetched and announced, unless a
   fetch takes longer than its caller waits or a request cannot be written (left.slow). *)
DocumentArrives == announced # epoch /\ ~left.slow ~> announced = epoch

(* Who sends a packet is told whether it has been sent, and in the end every packet is:
   nobody waits for ever at a connection that is gone. *)
PacketsLeave == left.sends > 0 /\ ~left.slow ~> left.sends = 0

(* A connection that is lost "will fail and tear the connection down for reconnect rather
   than wedging" (connection.go:537): it is replaced. *)
Reconnects == link.dead ~> ~link.dead

(* "current consensus no longer lists the Gateway" (connection.go:620): the connection to a
   gateway that the documents have dropped is closed. *)
Delisted == link.at = "loop" /\ Current # 0 /\ link.gateway \notin Listed[Current]
DelistedIsLeft == Delisted ~> ~Delisted
=============================================================================
