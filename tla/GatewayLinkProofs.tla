--------------------------- MODULE GatewayLinkProofs ---------------------------
(***************************************************************************)
(* The documents that come over the connection to a gateway, for any       *)
(* number of chunks, epochs and interruptions: at most one fetch is        *)
(* outstanding, what comes in belongs to it, and the call that takes a     *)
(* document has asked for that one.                                        *)
(***************************************************************************)
EXTENDS GatewayLink, SequenceTheorems, TLAPS

Epoch    == Nat \ {0}
Stages   == {"idle", "push", "dispatch", "wait", "ok", "gone", "failed"}
Calls    == [at : Stages, n : Nat, epoch : Nat, tries : Nat]
Pieces   == [kind : {"consensus"}, code : {"ok", "gone", "notfound"}, epoch : Epoch, chunk : 1..Chunks]
Commands == [kind : {"push"}] \cup Pieces
Lost     == [kind : {"consensus"}, code : {"lost"}]
Busy     == [kind : {"free"}] \cup [kind : {"done"}, ctx : Contexts, ok : BOOLEAN]
            \cup [kind : {"reply"}, ctx : Contexts, reply : Pieces \cup Lost]
LinkType == [at : {"connect", "dial", "loop", "leave", "drain"}, gateway : Gateways \cup {None},
             up : BOOLEAN, dead : BOOLEAN, ctx : Contexts \cup {None}, chunk : 0..Chunks, busy : Busy]

Rounds   == [now : Nat, todo : Seq(Epoch), updated : BOOLEAN]

Typed ==
    /\ epoch \in Epoch /\ published \in Epoch
    /\ link \in LinkType
    /\ inbox \in Seq(Commands) /\ asked \in Seq(Epoch) /\ queue \in Seq(Contexts)
    /\ calls \in [Callers -> Calls]
    /\ round \in Rounds
    /\ calls["worker"].at # "idle" => round.todo # <<>>
    /\ \A c \in Callers : calls[c].at = "push" => calls[c].epoch \in Epoch

(* A document is published before a gateway has it, and before the daemon has it. *)
Published ==
    /\ 1..published \subseteq Epochs /\ epoch <= published
    /\ docs \subseteq 1..published
    /\ \A i \in DOMAIN inbox :
          inbox[i].kind = "consensus" /\ inbox[i].code = "ok" => inbox[i].epoch <= published
    /\ link.busy.kind = "reply" /\ link.busy.reply.code = "ok" => link.busy.reply.epoch <= published

(* What is on its way lives as long as the connection. *)
NoLeftovers == link.dead \/ link.at # "loop" => inbox = <<>> /\ asked = <<>>

Consensus(i) == i \in DOMAIN inbox /\ inbox[i].kind = "consensus"

(* What has been asked for or comes in belongs to the outstanding fetch, and nothing comes
   after its last piece. *)
OneFetch ==
    /\ Len(asked) <= 1 /\ Len(queue) <= 1
    /\ asked # <<>> => link.ctx # None /\ asked[1] = link.ctx.epoch /\ \A i \in DOMAIN inbox : ~Consensus(i)
    /\ \A i \in DOMAIN inbox : Consensus(i) =>
          /\ link.ctx # None /\ inbox[i].epoch = link.ctx.epoch
          /\ \A j \in i + 1..Len(inbox) : Consensus(j) => inbox[i].chunk < Chunks

(* The call that a context belongs to is still the one that has made it. *)
Live(x) == x.n = calls[x.by].n
Asks(x, at) == Live(x) => calls[x.by].at = at /\ calls[x.by].epoch = x.epoch
Young(x) == x.n <= calls[x.by].n

(* A call has one context, which is in the queue, then with the loop until the call is told
   that its request is sent, and then the outstanding one. *)
ContextsBelong ==
    /\ queue # <<>> => Young(queue[1]) /\ Asks(queue[1], "dispatch")
    /\ link.busy.kind # "free" => Young(link.busy.ctx)
    /\ link.ctx # None => Young(link.ctx)
    /\ link.busy.kind = "done" =>
          /\ Asks(link.busy.ctx, "dispatch")
          /\ queue # <<>> => queue[1].by # link.busy.ctx.by \/ queue[1].n # link.busy.ctx.n
          /\ link.busy.ok => link.at = "loop" /\ link.ctx = link.busy.ctx
    /\ link.busy.kind = "reply" =>
          link.ctx = None /\ (link.busy.reply.code # "lost" => Asks(link.busy.ctx, "wait"))
    /\ link.at = "loop" /\ link.ctx # None /\ link.busy # Done(link.ctx, TRUE) =>
          Asks(link.ctx, "wait")

(* The call that takes a document from the loop has asked for the epoch of that document. *)
DocumentIsTheCallers ==
    link.busy.kind = "reply" /\ link.busy.reply.code # "lost"
    /\ calls[link.busy.ctx.by].n = link.busy.ctx.n
        => calls[link.busy.ctx.by].epoch = link.busy.reply.epoch

LinkInv == Typed /\ Published /\ NoLeftovers /\ OneFetch /\ ContextsBelong /\ RepliesMatch

-------------------------------------------------------------------------------
(* The types.                                                              *)

LEMMA EpochFacts ==
    /\ 1 \in Epoch /\ \A e \in Epoch : e \in Nat /\ e # 0 /\ e + 1 \in Epoch
    /\ \A e \in Nat : e # 0 => e \in Epoch
BY DEF Epoch

LEMMA DoneFacts ==
    \A x \in Contexts : /\ Done(x, TRUE).kind = "done" /\ Done(x, FALSE).kind = "done"
                       /\ Done(x, TRUE).ctx = x /\ Done(x, FALSE).ctx = x
                       /\ Done(x, TRUE).ok /\ ~Done(x, FALSE).ok
BY DEF Done

(* A context of GatewayLink names an epoch of the clock. *)
LEMMA ContextType ==
    /\ \A c \in Callers, n \in Nat, e \in Epoch : [by |-> c, n |-> n, epoch |-> e] \in Contexts
    /\ \A x \in Contexts : x.by \in Callers /\ x.n \in Nat /\ x.epoch \in Epoch
BY DEF Contexts, Epoch

LEMMA Constants == /\ Chunks \in Nat \ {0} /\ None \notin Contexts /\ None \notin Gateways
                   /\ 1 \in Epochs /\ \A e \in Epochs : Listed[e] \subseteq Gateways
BY LinkAssumption DEF Epochs

LEMMA BusyTypes ==
    /\ Free \in Busy /\ Free.kind = "free"
    /\ \A x \in Contexts, ok \in BOOLEAN :
           /\ Done(x, ok) \in Busy /\ Done(x, ok).kind = "done"
           /\ Done(x, ok).ctx = x /\ Done(x, ok).ok = ok
    /\ \A x \in Contexts, r \in Pieces \cup Lost :
           /\ Reply(x, r) \in Busy /\ Reply(x, r).kind = "reply"
           /\ Reply(x, r).ctx = x /\ Reply(x, r).reply = r
    /\ \A b \in Busy : /\ b.kind # "free" => b.ctx \in Contexts
                       /\ b.kind = "reply" => b.reply \in Pieces \cup Lost
BY DEF Free, Done, Reply, Busy

LEMMA OnlyCallers == "worker" \in Callers /\ "user" \in Callers /\ "worker" # "user"
BY DEF Callers

(* A context at the head of the queue, and the queue without it. *)
LEMMA QueueHead ==
    ASSUME Typed, queue # <<>>
    PROVE  Head(queue) \in Contexts /\ Head(queue) = queue[1]
BY DEF Typed

LEMMA LinkInit == Init => LinkInv
<1> SUFFICES ASSUME Init PROVE LinkInv
  OBVIOUS
<1>1. link \in LinkType
  BY Constants, BusyTypes DEF Init, LinkType
<1>2. calls \in [Callers -> Calls]
  BY DEF Init, NoCall, Calls, Stages
<1>a. round \in Rounds /\ calls["worker"].at = "idle"
  BY DEF Init, Rounds, Asleep, NoCall, Callers
<1>b. epoch \in Epoch /\ published \in Epoch /\ inbox = <<>> /\ asked = <<>> /\ queue = <<>>
      /\ \A c \in Callers : calls[c].at # "push"
  BY EpochFacts DEF Init, NoCall
<1>3. Typed
  BY <1>1, <1>2, <1>a, <1>b DEF Typed
<1>4. link.ctx = None /\ link.busy.kind = "free" /\ link.at = "connect"
  BY BusyTypes DEF Init
<1>5. inbox = <<>> /\ asked = <<>> /\ queue = <<>>
  BY DEF Init
<1>6. Published
  BY <1>4, <1>5, Constants DEF Init, Published
<1>7. OneFetch /\ NoLeftovers /\ ContextsBelong /\ RepliesMatch
  BY <1>4, <1>5 DEF NoLeftovers, OneFetch, Consensus, ContextsBelong, RepliesMatch
<1> QED BY <1>3, <1>6, <1>7 DEF LinkInv

(* What the actions of the callers do to the link and to the channels: nothing. *)
LEMMA TypedCalls ==
    ASSUME Typed, NEW c \in Callers, Push(c) \/ Timeout(c)
    PROVE  Typed'
<1> USE DEF Typed, world, worker
<1>1. calls[c] \in Calls
  OBVIOUS
<1>2. CASE Push(c)
  <2>1. [by |-> c, n |-> calls[c].n, epoch |-> calls[c].epoch] \in Contexts
    BY <1>1, <1>2, ContextType DEF Calls, Push
  <2>2. queue' \in Seq(Contexts)
    BY <1>2, <2>1 DEF Push
  <2>3. calls' = [calls EXCEPT ![c] = [calls[c] EXCEPT !.at = "dispatch"]]
    BY <1>2 DEF Push
  <2>4. calls' \in [Callers -> Calls]
    BY <1>1, <2>3 DEF Calls, Stages
  <2>5. \A d \in Callers : calls'[d].at # "idle" => calls[d].at # "idle"
    BY <1>1, <1>2, <2>3 DEF Push
  <2> QED BY <1>2, <2>2, <2>4, <2>5, OnlyCallers DEF Push
<1>3. CASE Timeout(c)
  <2>1. calls' = [calls EXCEPT ![c] = [calls[c] EXCEPT !.at = "failed", !.n = calls[c].n + 1]]
    BY <1>3 DEF Timeout
  <2>a. calls[c].n + 1 \in Nat
    BY <1>1 DEF Calls
  <2>2. [calls[c] EXCEPT !.at = "failed", !.n = calls[c].n + 1] \in Calls
    BY <1>1, <2>a DEF Calls, Stages
  <2>3. calls' \in [Callers -> Calls]
    BY <2>1, <2>2
  <2>4. \A d \in Callers : calls'[d].at # "idle" => calls[d].at # "idle"
    BY <1>1, <1>3, <2>1 DEF Timeout
  <2> QED BY <1>3, <2>3, <2>4, OnlyCallers DEF Timeout
<1> QED BY <1>2, <1>3

LEMMA TypedWorker ==
    ASSUME Typed, Worker
    PROVE  Typed'
<1> USE DEF Typed, world, worker
<1>0. ASSUME round.todo # <<>> PROVE Head(round.todo) \in Epoch /\ Tail(round.todo) \in Seq(Epoch)
  BY <1>0 DEF Rounds
<1>1. CASE Wake
  <2>1. Missing \in Seq(Epoch)
    BY EpochFacts DEF Missing
  <2>2. round' \in Rounds
    BY <1>1, <2>1, EpochFacts DEF Wake, Rounds
  <2>3. calls["worker"].at = "idle"
    BY <1>1 DEF Wake, Asleep
  <2> QED BY <1>1, <2>2, <2>3 DEF Wake
<1>2. CASE WorkerFetches
  <2>1. Head(round.todo) \in Epoch /\ round.todo # <<>> /\ calls["worker"].at = "idle"
    BY <1>0, <1>2 DEF WorkerFetches
  <2>2. CASE Head(round.todo) \in docs
    <3>1. round' = [round EXCEPT !.todo = Tail(round.todo)] /\ UNCHANGED calls
      BY <1>2, <2>2 DEF WorkerFetches
    <3>2. round' \in Rounds
      BY <1>0, <2>1, <3>1 DEF Rounds
    <3> QED BY <1>2, <2>1, <3>1, <3>2 DEF WorkerFetches
  <2>3. CASE Fetch("worker", Head(round.todo)) /\ UNCHANGED round
    <3>1. PICK a \in {"push", "failed"} :
             calls' = [calls EXCEPT !["worker"] = [calls["worker"] EXCEPT !.at = a,
                                                        !.epoch = Head(round.todo)]]
      BY <2>3 DEF Fetch, Callers
    <3>2. [calls["worker"] EXCEPT !.at = a, !.epoch = Head(round.todo)] \in Calls
      BY <2>1, EpochFacts, OnlyCallers DEF Calls, Stages
    <3>3. /\ calls' \in [Callers -> Calls]
          /\ \A c \in Callers : calls'[c].at = "push" => calls'[c].epoch \in Epoch
      BY <2>1, <3>1, <3>2, OnlyCallers DEF Calls
    <3> QED BY <1>2, <2>1, <2>3, <3>3 DEF WorkerFetches
  <2> QED BY <1>2, <2>2, <2>3 DEF WorkerFetches
<1>3. CASE WorkerFetched
  <2>1. calls' = [calls EXCEPT !["worker"] = [calls["worker"] EXCEPT !.at = "idle"]]
    BY <1>3 DEF WorkerFetched, Callers
  <2>2. calls' \in [Callers -> Calls] /\ calls'["worker"].at = "idle"
    BY <2>1 DEF Calls, Stages, Callers
  <2>3. Tail(round.todo) \in Seq(Epoch)
    BY <1>0, <1>3 DEF WorkerFetched
  <2>4. PICK u \in BOOLEAN : round' = [round EXCEPT !.todo = Tail(round.todo), !.updated = u]
    <3>1. (round.updated \/ calls["worker"].at = "ok") \in BOOLEAN
      OBVIOUS
    <3> QED BY <1>3, <3>1 DEF WorkerFetched
  <2>5. round' \in Rounds
    BY <2>3, <2>4 DEF Rounds
  <2> QED BY <1>3, <2>2, <2>5 DEF WorkerFetched
<1>4. CASE WorkerSleeps
  <2>1. round' \in Rounds /\ calls["worker"].at = "idle"
    BY <1>4 DEF WorkerSleeps, Asleep, Rounds
  <2> QED BY <1>4, <2>1 DEF WorkerSleeps
<1> QED BY <1>1, <1>2, <1>3, <1>4 DEF Worker

LEMMA TypedSends ==
    ASSUME Typed, Sends
    PROVE  Typed'
<1> USE DEF Typed, world, worker
<1>0. calls["user"] \in Calls
  BY DEF Callers
<1>1. ASSUME NEW c \in Calls, calls' = [calls EXCEPT !["user"] = c]
      PROVE  /\ calls' \in [Callers -> Calls] /\ calls'["worker"] = calls["worker"]
             /\ (c.at = "push" => c.epoch \in Epoch) =>
                    \A d \in Callers : calls'[d].at = "push" => calls'[d].epoch \in Epoch
  BY <1>1, OnlyCallers
<1>2. CASE WaitForCurrentDocument
  <2>1. PICK a \in {"push", "failed", "idle"}, e \in Nat, n \in Nat :
          (a = "push" => e \in Epoch) /\ calls' = [calls EXCEPT !["user"] = [calls["user"] EXCEPT !.at = a, !.epoch = e, !.tries = n]]
    <3>1. CASE calls["user"].tries < Attempts
      <4>1. calls' = [calls EXCEPT !["user"] = [calls["user"] EXCEPT
                          !.at = IF link.up THEN "push" ELSE "failed", !.epoch = epoch,
                          !.tries = calls["user"].tries + 1]]
        BY <1>2, <3>1 DEF WaitForCurrentDocument
      <4>2. calls["user"].tries + 1 \in Nat
        BY <1>0 DEF Calls
      <4> QED BY <4>1, <4>2, EpochFacts
    <3>2. CASE ~(calls["user"].tries < Attempts)
      <4>1. calls' = [calls EXCEPT !["user"] = [calls["user"] EXCEPT !.at = "idle",
                                    !.epoch = calls["user"].epoch, !.tries = 0]]
        BY <1>0, <1>2, <3>2 DEF WaitForCurrentDocument, Calls
      <4> QED BY <1>0, <4>1 DEF Calls
    <3> QED BY <3>1, <3>2
  <2>a. /\ [calls["user"] EXCEPT !.at = a, !.epoch = e, !.tries = n] \in Calls
        /\ [calls["user"] EXCEPT !.at = a, !.epoch = e, !.tries = n].at = a
        /\ [calls["user"] EXCEPT !.at = a, !.epoch = e, !.tries = n].epoch = e
    BY <1>0 DEF Calls, Stages
  <2>2. /\ calls' \in [Callers -> Calls] /\ calls'["worker"] = calls["worker"]
        /\ \A d \in Callers : calls'[d].at = "push" => calls'[d].epoch \in Epoch
    BY <1>1, <2>1, <2>a
  <2> QED BY <1>2, <2>2 DEF WaitForCurrentDocument
<1>3. CASE Compose
  <2>1. calls' = [calls EXCEPT !["user"] = [calls["user"] EXCEPT !.at = "idle", !.tries = 0]]
    BY <1>3 DEF Compose
  <2>a. /\ [calls["user"] EXCEPT !.at = "idle", !.tries = 0] \in Calls
        /\ [calls["user"] EXCEPT !.at = "idle", !.tries = 0].at = "idle"
    BY <1>0 DEF Calls, Stages
  <2>2. /\ calls' \in [Callers -> Calls] /\ calls'["worker"] = calls["worker"]
        /\ \A d \in Callers : calls'[d].at = "push" => calls'[d].epoch \in Epoch
    BY <1>1, <2>1, <2>a
  <2> QED BY <1>3, <2>2 DEF Compose
<1>4. CASE StartsSending
  BY <1>4 DEF StartsSending
<1> QED BY <1>2, <1>3, <1>4 DEF Sends

LEMMA PieceTypes ==
    /\ \A r \in Pieces : r.kind = "consensus" /\ r.code # "lost" /\ r.epoch \in Epoch
    /\ \A r \in Commands : r.kind # "push" => r \in Pieces
    /\ [kind |-> "push"] \in Commands
    /\ [kind |-> "consensus", code |-> "lost"] \in Lost
    /\ \A r \in Lost : r.code = "lost"
BY DEF Pieces, Commands, Lost

(* The gateway's answer to a request: the pieces of a document in their order, or one
   refusal. *)
AnswerToFirst(ps) ==
    /\ ps \in Seq(Pieces)
    /\ \A i \in 1..Len(ps) : /\ ps[i].epoch = asked[1]
                             /\ i < Len(ps) => ps[i].chunk < Chunks
                             /\ ps[i].code = "ok" => ps[i].epoch <= published

LEMMA Answers ==
    ASSUME Typed, Answer
    PROVE  \E ps : AnswerToFirst(ps) /\ inbox' = inbox \o ps /\ inbox' \in Seq(Commands)
<1> DEFINE e == Head(asked)
           Refusal(code) == <<[kind |-> "consensus", code |-> code, epoch |-> e, chunk |-> Chunks]>>
           Whole == [k \in 1..Chunks |-> [kind |-> "consensus", code |-> "ok", epoch |-> e, chunk |-> k]]
<1>1. e \in Epoch /\ e = asked[1] /\ e \in Nat /\ published \in Nat /\ Chunks \in Nat \ {0}
  BY EpochFacts, Constants DEF Typed, Answer
<1>2. \/ inbox' = inbox \o Whole /\ e <= published
      \/ inbox' = inbox \o Refusal("gone")
      \/ inbox' = inbox \o Refusal("notfound")
  <2>1. inbox' = inbox \o (IF e < epoch - 1 THEN Refusal("gone")
                           ELSE IF e > published THEN Refusal("notfound") ELSE Whole)
    BY DEF Answer
  <2>2. e > published \/ e <= published
    BY <1>1
  <2> HIDE DEF Refusal, Whole, e
  <2> QED BY <2>1, <2>2
<1>3. ASSUME NEW code \in {"gone", "notfound"}
      PROVE  AnswerToFirst(Refusal(code))
  <2> DEFINE r == [kind |-> "consensus", code |-> code, epoch |-> e, chunk |-> Chunks]
  <2>1. r \in Pieces /\ r.epoch = asked[1] /\ r.code # "ok"
    BY <1>1 DEF Pieces
  <2> HIDE DEF r
  <2>2. <<r>> \in Seq(Pieces) /\ Len(<<r>>) = 1 /\ <<r>>[1] = r
    BY <2>1
  <2>3. AnswerToFirst(<<r>>)
    BY <2>1, <2>2 DEF AnswerToFirst
  <2> QED BY <2>3 DEF r
<1>4. ASSUME e <= published
      PROVE  AnswerToFirst(Whole)
  <2>1. \A k \in 1..Chunks :
            [kind |-> "consensus", code |-> "ok", epoch |-> e, chunk |-> k] \in Pieces
    BY <1>1 DEF Pieces
  <2>2. Whole \in [1..Chunks -> Pieces]
    BY <2>1
  <2>3. Whole \in Seq(Pieces) /\ Len(Whole) = Chunks
    BY <1>1, <2>2
  <2>4. \A i \in 1..Chunks : Whole[i].epoch = e /\ Whole[i].chunk = i
    OBVIOUS
  <2> HIDE DEF Whole, e
  <2> QED BY <1>1, <1>4, <2>3, <2>4 DEF AnswerToFirst
<1> HIDE DEF Refusal, Whole, e
<1>5. \A ps : AnswerToFirst(ps) => inbox \o ps \in Seq(Commands)
  <2>1. Pieces \subseteq Commands
    BY DEF Commands
  <2>2. \A ps \in Seq(Pieces) : ps \in Seq(Commands)
    BY <2>1, SeqMonotonic
  <2> QED BY <2>2, ConcatProperties DEF AnswerToFirst, Typed
<1> QED BY <1>2, <1>3, <1>4, <1>5

LEMMA TypedOutside ==
    ASSUME Typed, Outside
    PROVE  Typed'
<1> USE DEF Typed, world, worker
<1>1. CASE Refused
  <2>1. link' \in LinkType
    BY <1>1 DEF Refused, LinkType
  <2> QED BY <1>1, <2>1 DEF Refused
<1>2. CASE Break
  <2>1. link' \in LinkType
    BY <1>2 DEF Break, LinkType
  <2> QED BY <1>2, <2>1 DEF Break
<1>3. CASE Answer
  <2>1. inbox' \in Seq(Commands)
    BY <1>3, Answers
  <2>2. asked' \in Seq(Epoch)
    BY <1>3 DEF Answer
  <2> QED BY <1>3, <2>1, <2>2 DEF Answer
<1>4. CASE PushMessage
  <2>1. inbox' \in Seq(Commands)
    BY <1>4, PieceTypes DEF PushMessage
  <2> QED BY <1>4, <2>1 DEF PushMessage
<1>5. CASE Publish
  BY <1>5, EpochFacts DEF Publish
<1>6. CASE Tick
  BY <1>6 DEF Tick
<1> QED BY <1>1, <1>2, <1>3, <1>4, <1>5, <1>6 DEF Outside

(* CurrentDocument only finds epochs whose document has been published. *)
LEMMA CurrentType == Typed /\ Published => Current = 0 \/ (Current \in docs /\ Current \in Epochs)
BY DEF Published, Current

LEMMA TypedLinks ==
    ASSUME Typed, Published, Links
    PROVE  Typed'
<1> USE DEF Typed, world, worker
<1>1. CASE Connect
  <2>1. PICK g \in Gateways : link' = [link EXCEPT !.at = "dial", !.gateway = g]
    BY <1>1, CurrentType, Constants DEF Connect
  <2>2. link' \in LinkType
    BY <2>1 DEF LinkType
  <2> QED BY <1>1, <2>2 DEF Connect
<1>2. CASE Established
  <2>1. link' = [link EXCEPT !.at = "loop", !.up = TRUE, !.dead = FALSE, !.ctx = None, !.chunk = 0]
    BY <1>2 DEF Established
  <2>2. link' \in LinkType
    <3>1. 0 \in 0..Chunks
      BY Constants
    <3> QED BY <2>1, <3>1 DEF LinkType
  <2> QED BY <1>2, <2>2 DEF Established
<1>3. ASSUME NEW c \in Callers, NEW a \in {"wait", "failed", "ok", "gone"},
             calls[c].at \in {"dispatch", "wait"}, calls' = [calls EXCEPT ![c].at = a],
             link' = [link EXCEPT !.busy = Free],
             UNCHANGED <<world, inbox, asked, queue, round>>
      PROVE  Typed'
  <2>1. link' \in LinkType
    BY <1>3, BusyTypes DEF LinkType
  <2>2. calls' = [calls EXCEPT ![c] = [calls[c] EXCEPT !.at = a]]
    BY <1>3
  <2>3. [calls[c] EXCEPT !.at = a] \in Calls /\ [calls[c] EXCEPT !.at = a].at = a
    BY DEF Calls, Stages
  <2>4. /\ calls' \in [Callers -> Calls]
        /\ \A d \in Callers : /\ calls'[d].at = "push" => calls'[d].epoch \in Epoch
                              /\ calls'[d].at # "idle" => calls[d].at # "idle"
    BY <1>3, <2>2, <2>3
  <2> QED BY <1>3, <2>1, <2>4, OnlyCallers
<1>4. CASE HandDone
  <2>1. link.busy.ctx.by \in Callers
    BY <1>4, BusyTypes, ContextType DEF HandDone, LinkType
  <2> QED BY <1>3, <1>4, <2>1 DEF HandDone
<1>5. CASE HandReply
  <2>1. link.busy.ctx.by \in Callers
    BY <1>5, BusyTypes, ContextType DEF HandReply, LinkType
  <2> QED BY <1>3, <1>5, <2>1 DEF HandReply
<1>6. CASE Leave
  <2>1. CASE link.ctx # None
    <3>1. Reply(link.ctx, [kind |-> "consensus", code |-> "lost"]) \in Busy
      BY <2>1, BusyTypes, PieceTypes DEF LinkType
    <3>2. link' \in LinkType
      BY <1>6, <2>1, <3>1 DEF Leave, LinkType
    <3> QED BY <1>6, <3>2 DEF Leave
  <2>2. CASE link.ctx = None
    <3>1. link' \in LinkType
      BY <1>6, <2>2 DEF Leave, LinkType
    <3> QED BY <1>6, <3>1 DEF Leave
  <2> QED BY <2>1, <2>2
<1>7. CASE Drain
  <2>1. PICK b \in Busy : link' = [link EXCEPT !.at = "connect", !.busy = b]
    BY <1>7, QueueHead, BusyTypes DEF Drain
  <2>2. link' \in LinkType
    BY <2>1 DEF LinkType
  <2> QED BY <1>7, <2>2 DEF Drain
<1> QED BY <1>1, <1>2, <1>4, <1>5, <1>6, <1>7 DEF Links

(* What the loop does with a command: a message, a document nobody waits for, a piece that
   is not the last one, the last one. *)
LEMMA TakesCommand ==
    ASSUME Typed, TakeCommand
    PROVE  LET cmd == inbox[1]
           IN  /\ cmd \in Commands /\ inbox' = Tail(inbox) /\ Looping /\ inbox # <<>>
               /\ UNCHANGED <<world, asked, queue, calls, docs, worker, sender>>
               /\ \/ cmd.kind = "push" /\ link' = link
                  \/ cmd \in Pieces /\ link.ctx = None /\ link' = [link EXCEPT !.at = "leave"]
                  \/ /\ cmd \in Pieces /\ link.ctx # None /\ cmd.chunk < Chunks
                     /\ link' = [link EXCEPT !.chunk = cmd.chunk]
                  \/ /\ cmd \in Pieces /\ link.ctx # None /\ ~(cmd.chunk < Chunks)
                     /\ link' = [link EXCEPT !.ctx = None, !.chunk = 0, !.busy = Reply(link.ctx, cmd)]
<1> DEFINE cmd == inbox[1]
<1>1. cmd \in Commands /\ Head(inbox) = cmd /\ inbox # <<>>
  BY DEF Typed, TakeCommand
<1>2. CASE cmd.kind = "push"
  <2>1. link' = link
    BY <1>1, <1>2 DEF TakeCommand
  <2> QED BY <1>1, <1>2, <2>1 DEF TakeCommand
<1>3. CASE cmd \in Pieces
  <2>1. cmd.kind = "consensus"
    BY <1>3, PieceTypes
  <2>2. CASE link.ctx = None
    <3>1. link' = [link EXCEPT !.at = "leave"]
      BY <1>1, <2>1, <2>2 DEF TakeCommand
    <3> QED BY <1>1, <1>3, <2>2, <3>1 DEF TakeCommand
  <2>3. CASE link.ctx # None /\ cmd.chunk < Chunks
    <3>1. link' = [link EXCEPT !.chunk = cmd.chunk]
      BY <1>1, <2>1, <2>3 DEF TakeCommand
    <3> QED BY <1>1, <1>3, <2>3, <3>1 DEF TakeCommand
  <2>4. CASE link.ctx # None /\ ~(cmd.chunk < Chunks)
    <3>1. link' = [link EXCEPT !.ctx = None, !.chunk = 0, !.busy = Reply(link.ctx, cmd)]
      BY <1>1, <2>1, <2>4 DEF TakeCommand
    <3> QED BY <1>1, <1>3, <2>4, <3>1 DEF TakeCommand
  <2> QED BY <2>2, <2>3, <2>4
<1> QED BY <1>1, <1>2, <1>3, PieceTypes

LEMMA Appended ==
    ASSUME NEW S, NEW s \in Seq(S), NEW x \in S
    PROVE  Append(s, x) \in Seq(S)
OBVIOUS

LEMMA TypedLoop ==
    ASSUME Typed, Loop
    PROVE  Typed'
<1> USE DEF Typed, world, worker
<1>1. ASSUME NEW x \in Contexts \cup {None}, NEW at \in {"loop", "leave"}, NEW b \in Busy,
             link' = [link EXCEPT !.at = at, !.ctx = x, !.busy = b]
      PROVE  link' \in LinkType
  BY <1>1 DEF LinkType
<1>2. CASE TakeCall
  <2>1. Head(queue) \in Contexts /\ Looping /\ link.at \in {"loop", "leave"}
        /\ link.ctx \in Contexts \cup {None}
    BY <1>2, QueueHead DEF TakeCall, Looping, LinkType
  <2>2. CASE Outstanding
    <3>1. link' = [link EXCEPT !.busy = Done(Head(queue), FALSE)] /\ asked' = asked
      BY <1>2, <2>2 DEF TakeCall
    <3>2. link' \in LinkType
      BY <2>1, <3>1, BusyTypes DEF LinkType
    <3> QED BY <1>2, <3>1, <3>2 DEF TakeCall
  <2>3. CASE ~Outstanding
    <3>1. link' = [link EXCEPT !.ctx = Head(queue), !.busy = Done(Head(queue), TRUE)]
      BY <1>2, <2>3 DEF TakeCall
    <3>2. link' \in LinkType
      BY <2>1, <3>1, BusyTypes DEF LinkType
    <3>3. Head(queue).epoch \in Epoch
      BY <2>1, ContextType
    <3>4. asked' = asked \/ asked' = Append(asked, Head(queue).epoch)
      BY <1>2, <2>3 DEF TakeCall
    <3>5. Append(asked, Head(queue).epoch) \in Seq(Epoch)
      BY <3>3, Appended
    <3>6. asked' \in Seq(Epoch)
      BY <3>4, <3>5
    <3> QED BY <1>2, <3>2, <3>6 DEF TakeCall
  <2> QED BY <2>2, <2>3
<1>3. CASE CannotWrite
  <2>0. /\ UNCHANGED <<epoch, published, inbox, asked, calls, round>>
        /\ queue' \in Seq(Contexts)
    <3>1. queue' = queue \/ queue' = <<>>
      BY <1>3 DEF CannotWrite
    <3>a. <<>> \in Seq(Contexts)
      OBVIOUS
    <3>2. queue' \in Seq(Contexts)
      BY <3>1, <3>a
    <3> QED BY <1>3, <3>2 DEF CannotWrite
  <2>1. CASE queue # <<>> /\ link' = [link EXCEPT !.at = "leave", !.ctx = Head(queue),
                                                 !.busy = Done(Head(queue), FALSE)]
    <3>1. link' \in LinkType
      BY <1>1, <2>1, QueueHead, BusyTypes
    <3> QED BY <2>0, <3>1
  <2>2. CASE link' = [link EXCEPT !.at = "leave"]
    <3>1. link' \in LinkType
      BY <2>2 DEF LinkType
    <3> QED BY <2>0, <3>1
  <2> QED BY <1>3, <2>1, <2>2 DEF CannotWrite
<1>4. CASE TakePacket
  BY <1>4 DEF TakePacket
<1>5. CASE TakeCommand
  <2> DEFINE cmd == inbox[1]
  <2>1. inbox' \in Seq(Commands)
    BY <1>5 DEF TakeCommand
  <2>2. cmd \in Pieces => cmd.chunk \in 0..Chunks
    BY Constants DEF Pieces
  <2>3. link.ctx # None => Reply(link.ctx, cmd) \in Busy \/ cmd \notin Pieces
    BY BusyTypes DEF LinkType
  <2>4. 0 \in 0..Chunks
    BY Constants
  <2> HIDE DEF cmd
  <2>5. \/ link' = link
        \/ link' = [link EXCEPT !.at = "leave"]
        \/ link' = [link EXCEPT !.chunk = cmd.chunk] /\ cmd \in Pieces
        \/ /\ link' = [link EXCEPT !.ctx = None, !.chunk = 0, !.busy = Reply(link.ctx, cmd)]
           /\ cmd \in Pieces /\ link.ctx # None
    BY <1>5, TakesCommand DEF cmd
  <2>6. link' \in LinkType
    BY <2>2, <2>3, <2>4, <2>5 DEF LinkType
  <2> QED BY <1>5, <2>1, <2>6 DEF TakeCommand
<1>6. CASE LoopEnds
  <2>1. link' \in LinkType
    BY <1>6 DEF LoopEnds, LinkType
  <2> QED BY <1>6, <2>1 DEF LoopEnds
<1> QED BY <1>2, <1>3, <1>4, <1>5, <1>6 DEF Loop

LEMMA TypedStep == Typed /\ Published /\ [Next]_vars => Typed'
<1> SUFFICES ASSUME Typed, Published, [Next]_vars PROVE Typed'
  OBVIOUS
<1>1. CASE Next
  BY <1>1, TypedCalls, TypedWorker, TypedSends, TypedLinks, TypedLoop, TypedOutside DEF Next
<1>2. CASE UNCHANGED vars
  BY <1>2 DEF vars, Typed
<1> QED BY <1>1, <1>2

-------------------------------------------------------------------------------
(* What is on its way belongs to the outstanding fetch.                    *)

Flow == NoLeftovers /\ OneFetch

LEMMA FlowEnds ==
    ASSUME inbox' = <<>>, asked' = <<>>, Len(queue') <= 1
    PROVE  Flow'
BY DEF Flow, NoLeftovers, OneFetch, Consensus

LEMMA FlowStays ==
    ASSUME Flow, UNCHANGED <<inbox, asked>>, Len(queue') <= 1,
           link'.at = link.at, link'.dead = link.dead, link'.ctx = link.ctx
    PROVE  Flow'
BY DEF Flow, NoLeftovers, OneFetch, Consensus

LEMMA FlowCalls ==
    ASSUME Typed, Flow, (\E c \in Callers : Push(c) \/ Timeout(c)) \/ Worker \/ Sends
    PROVE  Flow'
<1>1. UNCHANGED <<link, inbox, asked>>
  BY DEF Push, Timeout, Worker, Wake, WorkerFetches, WorkerFetched, WorkerSleeps,
         Sends, StartsSending, WaitForCurrentDocument, Compose
<1>2. queue' = queue \/ \E x : queue' = <<x>>
  BY DEF Push, Timeout, Worker, Wake, WorkerFetches, WorkerFetched, WorkerSleeps,
         Sends, StartsSending, WaitForCurrentDocument, Compose
<1>3. Len(queue') <= 1
  <2>1. CASE queue' = queue
    BY <2>1 DEF Flow, OneFetch
  <2>2. CASE \E x : queue' = <<x>>
    <3>1. PICK x : queue' = <<x>>
      BY <2>2
    <3> QED BY <3>1
  <2> QED BY <1>2, <2>1, <2>2
<1> QED BY <1>1, <1>3, FlowStays

LEMMA FlowLinks ==
    ASSUME Typed, Flow, Links
    PROVE  Flow'
<1>1. Len(queue) <= 1
  BY DEF Flow, OneFetch
<1>2. CASE Connect
  <2>1. UNCHANGED <<inbox, asked, queue>> /\ link.at = "connect"
    BY <1>2 DEF Connect
  <2> QED BY <1>1, <2>1, FlowEnds DEF Flow, NoLeftovers
<1>3. CASE Established
  BY <1>1, <1>3, FlowEnds DEF Established
<1>4. CASE HandDone \/ HandReply
  <2>1. UNCHANGED <<inbox, asked, queue>> /\ link' = [link EXCEPT !.busy = Free]
    BY <1>4 DEF HandDone, HandReply
  <2>2. link'.at = link.at /\ link'.dead = link.dead /\ link'.ctx = link.ctx
    BY <2>1 DEF Typed, LinkType
  <2> QED BY <1>1, <2>1, <2>2, FlowStays
<1>5. CASE Leave
  <2>1. UNCHANGED <<inbox, asked, queue>> /\ link.at = "leave"
    BY <1>5 DEF Leave
  <2> QED BY <1>1, <2>1, FlowEnds DEF Flow, NoLeftovers
<1>6. CASE Drain
  <2>1. UNCHANGED <<inbox, asked>> /\ queue' = <<>> /\ link.at = "drain"
    BY <1>6 DEF Drain
  <2>2. Len(queue') <= 1
    BY <2>1
  <2> QED BY <2>1, <2>2, FlowEnds DEF Flow, NoLeftovers
<1> QED BY <1>2, <1>3, <1>4, <1>5, <1>6 DEF Links

(* A piece of a document that the loop takes is for the outstanding fetch, and after the
   last piece nothing is left of that fetch. *)
LEMMA FirstPiece ==
    ASSUME Typed, Flow, inbox # <<>>, inbox[1] \in Pieces
    PROVE  /\ link.ctx # None /\ inbox[1].epoch = link.ctx.epoch /\ asked = <<>>
           /\ \A j \in 2..Len(inbox) : Consensus(j) => inbox[1].chunk < Chunks
<1>1. 1 \in DOMAIN inbox /\ inbox[1].kind = "consensus"
  BY PieceTypes DEF Typed
<1>2. Consensus(1)
  BY <1>1 DEF Consensus
<1> QED BY <1>1, <1>2 DEF Flow, OneFetch, Typed

LEMMA FlowCommand ==
    ASSUME Typed, Flow, TakeCommand
    PROVE  Flow'
<1> DEFINE cmd == inbox[1]
<1>1. /\ cmd \in Commands /\ inbox' = Tail(inbox) /\ inbox # <<>> /\ UNCHANGED <<asked, queue>>
      /\ link.at = "loop" /\ inbox \in Seq(Commands)
  BY TakesCommand DEF Typed, Looping
<1>2. /\ Len(inbox') = Len(inbox) - 1 /\ Len(inbox) \in Nat \ {0}
      /\ DOMAIN inbox = 1..Len(inbox) /\ DOMAIN inbox' = 1..Len(inbox')
      /\ \A i \in 1..Len(inbox') : inbox'[i] = inbox[i + 1]
  BY <1>1
<1>3. \A i \in 1..Len(inbox') : Consensus(i)' => Consensus(i + 1) /\ inbox'[i] = inbox[i + 1]
  BY <1>2 DEF Consensus
<1>4. CASE cmd \in Pieces /\ ~(cmd.chunk < Chunks)
  <2>1. asked = <<>> /\ \A i \in 1..Len(inbox') : ~Consensus(i)'
    BY <1>1, <1>2, <1>3, <1>4, FirstPiece
  <2>2. link'.at = link.at /\ link'.dead = link.dead
    BY <1>1, <1>4, TakesCommand, FirstPiece, PieceTypes DEF Typed, LinkType
  <2>3. NoLeftovers'
    BY <1>1, <2>1, <2>2 DEF Flow, NoLeftovers
  <2>4. OneFetch'
    BY <1>1, <1>2, <2>1 DEF Flow, OneFetch
  <2> QED BY <2>3, <2>4 DEF Flow
<1>5. CASE cmd \notin Pieces \/ cmd.chunk < Chunks
  <2>1. link'.at = link.at /\ link'.dead = link.dead /\ link'.ctx = link.ctx
    BY <1>1, <1>5, TakesCommand, FirstPiece, PieceTypes DEF Typed, LinkType
  <2>2. NoLeftovers'
    BY <1>1, <2>1 DEF Flow, NoLeftovers
  <2>3. ASSUME asked # <<>>, NEW i \in DOMAIN inbox'
        PROVE  ~Consensus(i)'
    <3>1. i + 1 \in DOMAIN inbox
      BY <1>2
    <3>2. ~Consensus(i + 1)
      BY <2>3, <3>1 DEF Flow, OneFetch
    <3> QED BY <1>2, <1>3, <3>2
  <2>4. ASSUME NEW i \in DOMAIN inbox', Consensus(i)'
        PROVE  /\ link.ctx # None /\ inbox'[i].epoch = link.ctx.epoch
               /\ \A j \in i + 1..Len(inbox') : Consensus(j)' => inbox'[i].chunk < Chunks
    <3>1. i \in 1..Len(inbox') /\ i + 1 \in DOMAIN inbox /\ Consensus(i + 1) /\ inbox'[i] = inbox[i + 1]
      BY <1>2, <1>3, <2>4
    <3>2. \A j \in i + 1..Len(inbox') : Consensus(j)' => j + 1 \in (i + 1) + 1..Len(inbox) /\ Consensus(j + 1)
      BY <1>2, <1>3, <3>1
    <3> QED BY <3>1, <3>2 DEF Flow, OneFetch
  <2>5. OneFetch'
    BY <1>1, <2>1, <2>3, <2>4 DEF Flow, OneFetch
  <2> QED BY <2>2, <2>5 DEF Flow
<1> QED BY <1>4, <1>5

LEMMA FlowLoop ==
    ASSUME Typed, Flow, Loop
    PROVE  Flow'
<1>1. Len(queue) <= 1 /\ Len(<<>>) <= 1
  BY DEF Flow, OneFetch
<1>2. CASE TakeCall
  <2>1. queue' = <<>> /\ inbox' = inbox /\ link.at = "loop"
    BY <1>2 DEF TakeCall, Looping
  <2>2. CASE Outstanding
    <3>1. link' = [link EXCEPT !.busy = Done(Head(queue), FALSE)] /\ asked' = asked
      BY <1>2, <2>2 DEF TakeCall
    <3>2. link'.at = link.at /\ link'.dead = link.dead /\ link'.ctx = link.ctx
      BY <3>1 DEF Typed, LinkType
    <3> QED BY <1>1, <2>1, <3>1, <3>2, FlowStays
  <2>3. CASE ~Outstanding
    <3>1. link.ctx = None /\ asked = <<>> /\ \A i \in DOMAIN inbox : ~Consensus(i)
      BY <2>3 DEF Flow, OneFetch, Outstanding
    <3>2. /\ link' = [link EXCEPT !.ctx = Head(queue), !.busy = Done(Head(queue), TRUE)]
          /\ asked' = IF link.dead THEN asked ELSE Append(asked, Head(queue).epoch)
      BY <1>2, <2>3 DEF TakeCall
    <3>3. Head(queue) \in Contexts /\ Head(queue) # None /\ Head(queue).epoch \in Epoch
      BY <1>2, QueueHead, ContextType, Constants DEF TakeCall
    <3>4. link'.at = link.at /\ link'.dead = link.dead /\ link'.ctx = Head(queue)
      BY <3>2 DEF Typed, LinkType
    <3>5. asked' = IF link.dead THEN <<>> ELSE <<Head(queue).epoch>>
      BY <3>1, <3>2, <3>3
    <3>6. NoLeftovers'
      BY <2>1, <3>4, <3>5 DEF Flow, NoLeftovers
    <3>7. /\ Len(asked') <= 1 /\ Len(queue') <= 1
          /\ asked' # <<>> => asked'[1] = Head(queue).epoch
      BY <2>1, <3>5
    <3>8. \A i \in DOMAIN inbox' : ~Consensus(i)'
      BY <2>1, <3>1 DEF Consensus
    <3>9. OneFetch'
      BY <3>3, <3>4, <3>7, <3>8 DEF OneFetch
    <3> QED BY <3>6, <3>9 DEF Flow
  <2> QED BY <2>2, <2>3
<1>3. CASE CannotWrite
  <2>1. UNCHANGED <<inbox, asked>> /\ link.dead /\ (queue' = queue \/ queue' = <<>>)
    BY <1>3 DEF CannotWrite
  <2> QED BY <1>1, <2>1, FlowEnds DEF Flow, NoLeftovers
<1>4. CASE TakePacket
  <2>1. UNCHANGED <<link, inbox, asked, queue>>
    BY <1>4 DEF TakePacket
  <2> QED BY <1>1, <2>1, FlowStays
<1>5. CASE TakeCommand
  BY <1>5, FlowCommand
<1>6. CASE LoopEnds
  <2>1. UNCHANGED <<inbox, asked, queue>> /\ link.dead
    BY <1>6 DEF LoopEnds
  <2> QED BY <1>1, <2>1, FlowEnds DEF Flow, NoLeftovers
<1> QED BY <1>2, <1>3, <1>4, <1>5, <1>6 DEF Loop

LEMMA FlowOutside ==
    ASSUME Typed, Flow, Outside
    PROVE  Flow'
<1>0. Len(queue) <= 1
  BY DEF Flow, OneFetch
<1>1. CASE Refused
  <2>1. UNCHANGED <<inbox, asked, queue>> /\ link.at = "dial"
    BY <1>1 DEF Refused
  <2> QED BY <1>0, <2>1, FlowEnds DEF Flow, NoLeftovers
<1>2. CASE Break
  BY <1>0, <1>2, FlowEnds DEF Break
<1>3. CASE Answer
  <2>1. PICK ps : AnswerToFirst(ps) /\ inbox' = inbox \o ps
    BY <1>3, Answers
  <2>2. /\ UNCHANGED <<link, queue>> /\ asked # <<>> /\ asked' = Tail(asked) /\ ~link.dead
        /\ asked \in Seq(Epoch) /\ inbox \in Seq(Commands) /\ ps \in Seq(Pieces)
    BY <1>3, <2>1 DEF Answer, Typed, AnswerToFirst
  <2>3. Len(asked) = 1 /\ asked' = <<>> /\ link.at = "loop"
    <3>1. Len(asked) <= 1 /\ link.at = "loop"
      BY <2>2 DEF Flow, OneFetch, NoLeftovers
    <3>2. Len(asked) \in Nat /\ Len(asked) # 0
      BY <2>2
    <3>3. Len(asked) = 1
      <4>1. \A n \in Nat : n # 0 /\ n <= 1 => n = 1
        OBVIOUS
      <4> QED BY <3>1, <3>2, <4>1
    <3> QED BY <2>2, <3>1, <3>3
  <2>4. /\ link.ctx # None /\ asked[1] = link.ctx.epoch
        /\ \A i \in 1..Len(inbox) : inbox[i].kind # "consensus"
    BY <2>2 DEF Flow, OneFetch, Consensus
  <2>5. /\ DOMAIN inbox' = 1..Len(inbox) + Len(ps) /\ Len(inbox') = Len(inbox) + Len(ps)
        /\ \A i \in 1..Len(inbox) : inbox'[i] = inbox[i]
        /\ \A i \in Len(inbox) + 1..Len(inbox) + Len(ps) : inbox'[i] = ps[i - Len(inbox)]
        /\ Len(inbox) \in Nat /\ Len(ps) \in Nat
    BY <2>1, <2>2, ConcatProperties
  <2>6. ASSUME NEW i \in DOMAIN inbox', Consensus(i)'
        PROVE  i \in Len(inbox) + 1..Len(inbox) + Len(ps) /\ inbox'[i] = ps[i - Len(inbox)]
    BY <2>4, <2>5, <2>6 DEF Consensus
  <2>7. ASSUME NEW i \in DOMAIN inbox', Consensus(i)'
        PROVE  /\ inbox'[i].epoch = link.ctx.epoch
               /\ \A j \in i + 1..Len(inbox') : Consensus(j)' => inbox'[i].chunk < Chunks
    <3> DEFINE k == i - Len(inbox)
    <3>1. k \in 1..Len(ps) /\ inbox'[i] = ps[k]
      BY <2>5, <2>6, <2>7
    <3>2. ps[k].epoch = asked[1] /\ (k < Len(ps) => ps[k].chunk < Chunks)
      BY <2>1, <3>1 DEF AnswerToFirst
    <3>3. \A j \in i + 1..Len(inbox') : k < Len(ps)
      BY <2>5, <2>6, <2>7
    <3> HIDE DEF k
    <3> QED BY <2>4, <3>1, <3>2, <3>3
  <2>8. NoLeftovers'
    BY <2>2, <2>3 DEF NoLeftovers
  <2>9. OneFetch'
    <3>0. asked' = <<>> /\ Len(asked') = 0 /\ queue' = queue /\ link' = link
      BY <2>2, <2>3
    <3>1. Len(asked') <= 1 /\ Len(queue') <= 1 /\ asked' = <<>> /\ link' = link
      BY <1>0, <3>0
    <3>2. \A i \in DOMAIN inbox' : Consensus(i)' =>
             /\ link'.ctx # None /\ inbox'[i].epoch = link'.ctx.epoch
             /\ \A j \in i + 1..Len(inbox') : Consensus(j)' => inbox'[i].chunk < Chunks
      BY <2>4, <2>7, <3>1
    <3> QED BY <3>1, <3>2 DEF OneFetch
  <2> QED BY <2>8, <2>9 DEF Flow
<1>4. CASE PushMessage
  <2> DEFINE m == [kind |-> "push"]
  <2>1. /\ UNCHANGED <<link, asked, queue>> /\ inbox' = Append(inbox, m) /\ ~link.dead
        /\ link.at = "loop" /\ inbox \in Seq(Commands) /\ m.kind # "consensus" /\ m \in Commands
    BY <1>4, PieceTypes DEF PushMessage, Typed
  <2> HIDE DEF m
  <2>2. /\ DOMAIN inbox' = 1..Len(inbox) + 1 /\ Len(inbox') = Len(inbox) + 1
        /\ \A i \in 1..Len(inbox) : inbox'[i] = inbox[i]
        /\ inbox'[Len(inbox) + 1] = m /\ Len(inbox) \in Nat /\ DOMAIN inbox = 1..Len(inbox)
    BY <2>1
  <2>3. \A i : Consensus(i)' => Consensus(i) /\ i \in 1..Len(inbox) /\ inbox'[i] = inbox[i]
    BY <2>1, <2>2 DEF Consensus
  <2>4. NoLeftovers'
    BY <2>1 DEF NoLeftovers
  <2>5. ASSUME NEW i \in DOMAIN inbox', Consensus(i)'
        PROVE  /\ link.ctx # None /\ inbox'[i].epoch = link.ctx.epoch
               /\ \A j \in i + 1..Len(inbox') : Consensus(j)' => inbox'[i].chunk < Chunks
    <3>1. \A j \in i + 1..Len(inbox') : Consensus(j)' => j \in i + 1..Len(inbox) /\ Consensus(j)
      BY <2>2, <2>3, <2>5
    <3> QED BY <2>2, <2>3, <2>5, <3>1 DEF Flow, OneFetch
  <2>6. asked # <<>> => \A i \in DOMAIN inbox' : ~Consensus(i)'
    BY <2>2, <2>3 DEF Flow, OneFetch
  <2>7. OneFetch'
    BY <2>1, <2>5, <2>6 DEF Flow, OneFetch
  <2> QED BY <2>4, <2>7 DEF Flow
<1>5. CASE Publish \/ Tick
  <2>1. UNCHANGED <<link, inbox, asked, queue>>
    BY <1>5 DEF Publish, Tick
  <2> QED BY <1>0, <2>1, FlowStays
<1> QED BY <1>1, <1>2, <1>3, <1>4, <1>5 DEF Outside

LEMMA FlowStep == Typed /\ Flow /\ [Next]_vars => Flow'
<1> SUFFICES ASSUME Typed, Flow, [Next]_vars PROVE Flow'
  OBVIOUS
<1>1. CASE Next
  BY <1>1, FlowCalls, FlowLinks, FlowLoop, FlowOutside DEF Next
<1>2. CASE UNCHANGED vars
  <2>1. UNCHANGED <<link, inbox, asked, queue>>
    BY <1>2 DEF vars
  <2>2. Len(queue) <= 1
    BY DEF Flow, OneFetch
  <2> QED BY <2>1, <2>2, FlowStays
<1> QED BY <1>1, <1>2

-------------------------------------------------------------------------------
(* To whom the contexts belong.                                            *)

(* A call moves that the loop has nothing for, or it has given up. *)
Moves(c) ==
    /\ \A d \in Callers \ {c} : calls'[d] = calls[d]
    /\ \/ calls'[c].n > calls[c].n
       \/ calls'[c].n = calls[c].n /\ calls[c].at \notin {"dispatch", "wait"}

LEMMA AsksStays ==
    ASSUME Typed, Typed', NEW c \in Callers, Moves(c), NEW x \in Contexts, Young(x)
    PROVE  /\ Young(x)'
           /\ Asks(x, "dispatch") => Asks(x, "dispatch")'
           /\ Asks(x, "wait") => Asks(x, "wait")'
<1>1. x.by \in Callers /\ x.n \in Nat /\ calls[c].n \in Nat /\ calls'[c].n \in Nat
  BY ContextType DEF Typed, Calls
<1>2. CASE x.by # c
  BY <1>1, <1>2 DEF Moves, Young, Asks, Live
<1>3. CASE x.by = c
  BY <1>1, <1>3 DEF Moves, Young, Asks, Live
<1> QED BY <1>2, <1>3

(* The contexts there are. *)
LEMMA TheContexts ==
    ASSUME Typed
    PROVE  /\ queue # <<>> => queue[1] \in Contexts
           /\ link.busy \in Busy /\ link.busy.kind \in {"free", "done", "reply"}
           /\ link.busy.kind # "free" => link.busy.ctx \in Contexts
           /\ link.busy.kind = "done" => link.busy.ok \in BOOLEAN
           /\ link.ctx # None => link.ctx \in Contexts
BY QueueHead DEF Typed, LinkType, Busy

LEMMA BelongMoves ==
    ASSUME Typed, Typed', ContextsBelong, NEW c \in Callers, Moves(c), UNCHANGED <<link, queue>>
    PROVE  ContextsBelong'
<1>1. queue # <<>> => Young(queue[1])' /\ Asks(queue[1], "dispatch")'
  BY TheContexts, AsksStays DEF ContextsBelong, Young, Asks, Live
<1>2. link.busy.kind # "free" =>
          /\ Young(link.busy.ctx)'
          /\ Asks(link.busy.ctx, "dispatch") => Asks(link.busy.ctx, "dispatch")'
          /\ Asks(link.busy.ctx, "wait") => Asks(link.busy.ctx, "wait")'
  BY TheContexts, AsksStays DEF ContextsBelong, Young, Asks, Live
<1>3. link.ctx # None => Young(link.ctx)' /\ (Asks(link.ctx, "wait") => Asks(link.ctx, "wait")')
  BY TheContexts, AsksStays DEF ContextsBelong, Young, Asks, Live
<1> QED BY <1>1, <1>2, <1>3 DEF ContextsBelong

LEMMA BelongPush ==
    ASSUME Typed, Typed', ContextsBelong, NEW c \in Callers, Push(c)
    PROVE  ContextsBelong'
<1> DEFINE x == [by |-> c, n |-> calls[c].n, epoch |-> calls[c].epoch]
<1>1. /\ queue' = <<x>> /\ link' = link /\ calls[c].at = "push"
      /\ calls' = [calls EXCEPT ![c] = [calls[c] EXCEPT !.at = "dispatch"]]
  BY DEF Push
<1>2. /\ calls'[c].at = "dispatch" /\ calls'[c].n = calls[c].n /\ calls'[c].epoch = calls[c].epoch
      /\ \A d \in Callers \ {c} : calls'[d] = calls[d]
      /\ calls[c].n \in Nat
  BY <1>1 DEF Typed, Calls
<1>3. Moves(c)
  BY <1>1, <1>2 DEF Moves
<1>4. x.by = c /\ x.n = calls[c].n /\ x.epoch = calls[c].epoch
  OBVIOUS
<1> HIDE DEF x
<1>5. queue'[1] = x
  BY <1>1
<1>6. Young(queue[1])' /\ Asks(queue[1], "dispatch")'
  BY <1>2, <1>4, <1>5 DEF Young, Asks, Live
<1>7. link.busy.kind # "free" =>
          /\ Young(link.busy.ctx)'
          /\ Asks(link.busy.ctx, "dispatch") => Asks(link.busy.ctx, "dispatch")'
          /\ Asks(link.busy.ctx, "wait") => Asks(link.busy.ctx, "wait")'
  BY <1>1, <1>3, TheContexts, AsksStays DEF ContextsBelong, Young, Asks, Live
<1>8. link.ctx # None => Young(link.ctx)' /\ (Asks(link.ctx, "wait") => Asks(link.ctx, "wait")')
  BY <1>1, <1>3, TheContexts, AsksStays DEF ContextsBelong, Young, Asks, Live
<1>9. link.busy.kind = "done" => link.busy.ctx.by # c \/ link.busy.ctx.n # calls[c].n
  BY <1>1 DEF ContextsBelong, Asks, Live
<1> QED BY <1>1, <1>4, <1>5, <1>6, <1>7, <1>8, <1>9 DEF ContextsBelong

LEMMA BelongCalls ==
    ASSUME Typed, Typed', ContextsBelong,
           (\E c \in Callers : Push(c) \/ Timeout(c)) \/ Worker \/ Sends
    PROVE  ContextsBelong'
<1>1. ASSUME UNCHANGED <<link, queue, calls>> PROVE ContextsBelong'
  BY <1>1 DEF ContextsBelong, Young, Asks, Live
<1>2. ASSUME NEW c \in Callers, Timeout(c) PROVE ContextsBelong'
  <2>1. /\ calls' = [calls EXCEPT ![c] = [calls[c] EXCEPT !.at = "failed", !.n = calls[c].n + 1]]
        /\ UNCHANGED <<link, queue>>
    BY <1>2 DEF Timeout
  <2>2. calls'[c].n > calls[c].n /\ \A d \in Callers \ {c} : calls'[d] = calls[d]
    BY <2>1 DEF Typed, Calls
  <2>3. Moves(c)
    BY <2>2 DEF Moves
  <2> QED BY <2>1, <2>3, BelongMoves
<1>3. CASE WorkerFetches \/ WorkerFetched
  <2>1. UNCHANGED <<link, queue>> /\ calls["worker"].at \notin {"dispatch", "wait"}
    BY <1>3 DEF WorkerFetches, WorkerFetched
  <2>2. /\ calls'["worker"].n = calls["worker"].n
        /\ \A d \in Callers \ {"worker"} : calls'[d] = calls[d]
    <3>1. CASE calls' = calls
      BY <3>1
    <3>2. CASE \E e : Fetch("worker", e)
      <4>1. PICK e : Fetch("worker", e)
        BY <3>2
      <4> QED BY <4>1, OnlyCallers DEF Fetch, Typed, Calls
    <3>3. CASE WorkerFetched
      BY <3>3, OnlyCallers DEF WorkerFetched, Typed, Calls
    <3> QED BY <1>3, <3>1, <3>2, <3>3 DEF WorkerFetches
  <2>3. Moves("worker")
    BY <2>1, <2>2 DEF Moves
  <2> QED BY <2>1, <2>3, OnlyCallers, BelongMoves
<1>4. CASE WaitForCurrentDocument \/ Compose
  <2>1. UNCHANGED <<link, queue>> /\ calls["user"].at \notin {"dispatch", "wait"}
    BY <1>4 DEF WaitForCurrentDocument, Compose
  <2>2. /\ calls'["user"].n = calls["user"].n
        /\ \A d \in Callers \ {"user"} : calls'[d] = calls[d]
    <3>1. CASE WaitForCurrentDocument /\ calls["user"].tries < Attempts
      <4> DEFINE a == IF link.up THEN "push" ELSE "failed"
                 k == calls["user"].tries + 1
      <4>1. calls' = [calls EXCEPT !["user"] = [calls["user"] EXCEPT
                                 !.at = a, !.epoch = epoch, !.tries = k]]
        BY <3>1 DEF WaitForCurrentDocument
      <4> HIDE DEF a, k
      <4> QED BY <4>1, OnlyCallers DEF Typed, Calls
    <3>2. CASE WaitForCurrentDocument /\ ~(calls["user"].tries < Attempts)
      <4>1. calls' = [calls EXCEPT !["user"] = [calls["user"] EXCEPT !.at = "idle", !.tries = 0]]
        BY <3>2 DEF WaitForCurrentDocument
      <4> QED BY <4>1, OnlyCallers DEF Typed, Calls
    <3>3. CASE Compose
      BY <3>3, OnlyCallers DEF Compose, Typed, Calls
    <3> QED BY <1>4, <3>1, <3>2, <3>3
  <2>3. Moves("user")
    BY <2>1, <2>2 DEF Moves
  <2> QED BY <2>1, <2>3, OnlyCallers, BelongMoves
<1>5. CASE Wake \/ WorkerSleeps \/ StartsSending
  BY <1>1, <1>5 DEF Wake, WorkerSleeps, StartsSending
<1> QED BY <1>2, <1>3, <1>4, <1>5, BelongPush DEF Worker, Sends

(* The loop has nothing new for anybody: the connection is the same, or it is another or
   none, and then nobody is about to be told that a request has been sent. *)
LEMMA BelongSame ==
    ASSUME ContextsBelong, UNCHANGED <<calls, queue>>, link'.busy = link.busy,
           \/ link'.at = link.at /\ link'.ctx = link.ctx
           \/ /\ link.busy.kind = "done" => ~link.busy.ok
              /\ link'.ctx = None \/ (link'.ctx = link.ctx /\ link'.at # "loop")
    PROVE  ContextsBelong'
<1>1. /\ queue' # <<>> => Young(queue[1])' /\ Asks(queue[1], "dispatch")'
      /\ link'.busy.kind # "free" => Young(link.busy.ctx)'
      /\ link'.ctx # None => Young(link.ctx)'
      /\ link'.busy.kind = "done" =>
            /\ Asks(link.busy.ctx, "dispatch")'
            /\ queue' # <<>> => queue'[1].by # link'.busy.ctx.by \/ queue'[1].n # link'.busy.ctx.n
      /\ link'.busy.kind = "reply" => link'.ctx = None
      /\ link'.busy.kind = "reply" /\ link'.busy.reply.code # "lost" => Asks(link.busy.ctx, "wait")'
  BY DEF ContextsBelong, Young, Asks, Live
<1>2. link'.busy.kind = "done" /\ link'.busy.ok => link'.at = "loop" /\ link'.ctx = link'.busy.ctx
  BY DEF ContextsBelong
<1>3. link'.at = "loop" /\ link'.ctx # None /\ link'.busy # Done(link'.ctx, TRUE) => Asks(link.ctx, "wait")'
  BY DEF ContextsBelong, Asks, Live
<1> QED BY <1>1, <1>2, <1>3 DEF ContextsBelong

(* The call that is told that its request is sent, or not. *)
LEMMA BelongDone ==
    ASSUME Typed, Typed', ContextsBelong, HandDone
    PROVE  ContextsBelong'
<1> DEFINE x == link.busy.ctx
           c == x.by
<1>1. /\ link.busy.kind = "done" /\ calls[c].at = "dispatch" /\ calls[c].n = x.n
      /\ calls' = [calls EXCEPT ![c] = [calls[c] EXCEPT !.at = IF link.busy.ok THEN "wait" ELSE "failed"]]
      /\ link' = [link EXCEPT !.busy = Free] /\ queue' = queue
      /\ link.busy \in Busy
  BY DEF HandDone, Typed, LinkType
<1>2. x \in Contexts /\ c \in Callers /\ link.busy.ok \in BOOLEAN
  BY <1>1, TheContexts, ContextType
<1>3. /\ calls'[c].at = IF link.busy.ok THEN "wait" ELSE "failed"
      /\ calls'[c].n = calls[c].n /\ calls'[c].epoch = calls[c].epoch
      /\ \A d \in Callers \ {c} : calls'[d] = calls[d]
  BY <1>1, <1>2 DEF Typed, Calls
<1>4. link'.at = link.at /\ link'.ctx = link.ctx /\ link'.busy.kind = "free"
  BY <1>1, BusyTypes DEF Typed, LinkType
<1>5. Asks(x, "dispatch") /\ (link.busy.ok => link.at = "loop" /\ link.ctx = x)
  BY <1>1 DEF ContextsBelong
<1> HIDE DEF x, c
<1>6. queue # <<>> => Young(queue[1])' /\ Asks(queue[1], "dispatch")'
  <2>1. queue # <<>> => queue[1].by \in Callers /\ (queue[1].by # c \/ queue[1].n # calls[c].n)
    BY <1>1, TheContexts, ContextType DEF ContextsBelong, x, c
  <2> QED BY <1>1, <1>3, <2>1 DEF ContextsBelong, Young, Asks, Live
<1>7. link.ctx # None => Young(link.ctx)'
  <2>1. link.ctx # None => link.ctx.by \in Callers
    BY TheContexts, ContextType
  <2> QED BY <1>1, <1>3, <2>1 DEF ContextsBelong, Young
<1>8. ASSUME link.at = "loop", link.ctx # None PROVE Asks(link.ctx, "wait")'
  <2>1. CASE link.busy.ok
    BY <1>1, <1>3, <1>5, <2>1 DEF Asks, Live, c
  <2>2. CASE ~link.busy.ok
    <3>1. link.busy # Done(link.ctx, TRUE)
      BY <1>8, <2>2, TheContexts, DoneFacts
    <3>2. Asks(link.ctx, "wait") /\ link.ctx.by \in Callers
      BY <1>8, <3>1, TheContexts, ContextType DEF ContextsBelong
    <3>3. link.ctx.by # c \/ ~Live(link.ctx)
      BY <1>1, <3>2 DEF Asks, c
    <3> QED BY <1>3, <1>4, <3>2, <3>3 DEF Asks, Live
  <2> QED BY <1>2, <2>1, <2>2
<1> QED BY <1>1, <1>4, <1>6, <1>7, <1>8 DEF ContextsBelong

(* The call that takes a reply. *)
LEMMA BelongReply ==
    ASSUME Typed, Typed', ContextsBelong, HandReply
    PROVE  ContextsBelong'
<1> DEFINE c == link.busy.ctx.by
<1>1. /\ link.busy.kind = "reply" /\ calls[c].at = "wait" /\ queue' = queue
      /\ link' = [link EXCEPT !.busy = Free]
  BY DEF HandReply
<1>a. PICK a : calls' = [calls EXCEPT ![c] = [calls[c] EXCEPT !.at = a]]
  BY DEF HandReply
<1>2. c \in Callers
  BY <1>1, TheContexts, ContextType
<1>3. calls'[c].n = calls[c].n /\ \A d \in Callers \ {c} : calls'[d] = calls[d]
  BY <1>a, <1>2 DEF Typed, Calls
<1>4. link'.ctx = None /\ link'.busy.kind = "free"
  BY <1>1, BusyTypes DEF Typed, LinkType, ContextsBelong
<1> HIDE DEF c
<1>5. queue # <<>> => Young(queue[1])' /\ Asks(queue[1], "dispatch")'
  <2>1. queue # <<>> => queue[1].by \in Callers
    BY TheContexts, ContextType
  <2> QED BY <1>1, <1>3, <2>1 DEF ContextsBelong, Young, Asks, Live
<1> QED BY <1>1, <1>4, <1>5 DEF ContextsBelong

LEMMA BelongLinks ==
    ASSUME Typed, Typed', ContextsBelong, Links
    PROVE  ContextsBelong'
<1>1. CASE Connect
  <2>1. /\ UNCHANGED <<calls, queue>> /\ link.at = "connect"
        /\ \E g : link' = [link EXCEPT !.at = "dial", !.gateway = g]
    BY <1>1 DEF Connect
  <2>2. link'.busy = link.busy /\ link'.ctx = link.ctx /\ link'.at = "dial"
    BY <2>1 DEF Typed, LinkType
  <2>3. link.busy.kind = "done" => ~link.busy.ok
    BY <2>1 DEF ContextsBelong
  <2> QED BY <2>1, <2>2, <2>3, BelongSame
<1>2. CASE Established
  <2>1. /\ UNCHANGED <<calls, queue>> /\ link.at = "dial"
        /\ link' = [link EXCEPT !.at = "loop", !.up = TRUE, !.dead = FALSE, !.ctx = None, !.chunk = 0]
    BY <1>2 DEF Established
  <2>2. link'.busy = link.busy /\ link'.ctx = None
    BY <2>1 DEF Typed, LinkType
  <2>3. link.busy.kind = "done" => ~link.busy.ok
    BY <2>1 DEF ContextsBelong
  <2> QED BY <2>1, <2>2, <2>3, BelongSame
<1>3. CASE Leave
  <2>1. UNCHANGED <<calls, queue>> /\ link.at = "leave" /\ link.busy = Free /\ link.busy.kind = "free"
    BY <1>3, BusyTypes DEF Leave
  <2>2. CASE link.ctx # None
    <3> DEFINE lost == [kind |-> "consensus", code |-> "lost"]
    <3>1. link' = [link EXCEPT !.ctx = None, !.busy = Reply(link.ctx, lost)]
      BY <1>3, <2>2 DEF Leave
    <3>2. lost \in Lost /\ lost.code = "lost" /\ link.ctx \in Contexts
      BY <2>2, PieceTypes, TheContexts
    <3> HIDE DEF lost
    <3>3. link'.ctx = None /\ link'.busy = Reply(link.ctx, lost)
      BY <3>1 DEF Typed, LinkType
    <3>4. link'.busy.kind = "reply" /\ link'.busy.ctx = link.ctx /\ link'.busy.reply.code = "lost"
      BY <3>2, <3>3, BusyTypes
    <3> QED BY <2>1, <2>2, <3>3, <3>4 DEF ContextsBelong, Young, Asks, Live
  <2>3. CASE link.ctx = None
    <3>1. link' = [link EXCEPT !.at = "drain", !.up = FALSE]
      BY <1>3, <2>3 DEF Leave
    <3>2. link'.busy = link.busy /\ link'.ctx = None
      BY <2>3, <3>1 DEF Typed, LinkType
    <3> QED BY <2>1, <3>2, BelongSame
  <2> QED BY <2>2, <2>3
<1>4. CASE Drain
  <2>1. /\ UNCHANGED calls /\ queue' = <<>> /\ link.busy.kind = "free" /\ link.at = "drain"
        /\ link' = [link EXCEPT !.at = "connect",
                                !.busy = IF queue # <<>> THEN Done(Head(queue), FALSE) ELSE Free]
    BY <1>4, BusyTypes DEF Drain
  <2>2. link'.at = "connect" /\ link'.ctx = link.ctx
    BY <2>1 DEF Typed, LinkType
  <2>3. CASE queue = <<>>
    <3>1. link'.busy = Free
      BY <2>1, <2>3 DEF Typed, LinkType
    <3> QED BY <2>1, <2>2, <3>1, BusyTypes DEF ContextsBelong, Young
  <2>4. CASE queue # <<>>
    <3>1. link'.busy = Done(queue[1], FALSE) /\ queue[1] \in Contexts
      BY <2>1, <2>4, QueueHead DEF Typed, LinkType
    <3>2. link'.busy.kind = "done" /\ link'.busy.ctx = queue[1] /\ ~link'.busy.ok
      BY <3>1, DoneFacts
    <3> QED BY <2>1, <2>2, <2>4, <3>2 DEF ContextsBelong, Young, Asks, Live
  <2> QED BY <2>3, <2>4
<1> QED BY <1>1, <1>2, <1>3, <1>4, BelongDone, BelongReply DEF Links

LEMMA BelongLoop ==
    ASSUME Typed, Typed', ContextsBelong, Loop
    PROVE  ContextsBelong'
<1>1. CASE TakeCall
  <2> DEFINE x == queue[1]
  <2>1. /\ calls' = calls /\ queue' = <<>> /\ queue # <<>> /\ Head(queue) = x /\ x \in Contexts
        /\ link.at = "loop" /\ link.busy = Free /\ link.busy.kind = "free"
    BY <1>1, QueueHead, BusyTypes DEF TakeCall, Looping
  <2>2. Young(x) /\ Asks(x, "dispatch")
    BY <2>1 DEF ContextsBelong
  <2>3. Done(x, TRUE).kind = "done" /\ Done(x, FALSE).kind = "done"
    BY <2>1, DoneFacts
  <2>4. CASE Outstanding
    <3>1. link' = [link EXCEPT !.busy = Done(x, FALSE)]
      BY <1>1, <2>1, <2>4 DEF TakeCall
    <3>2. link'.at = link.at /\ link'.ctx = link.ctx /\ link'.busy = Done(x, FALSE) /\ link.ctx # None
      BY <2>4, <3>1 DEF Typed, LinkType, Outstanding
    <3>3. Young(link.ctx) /\ Asks(link.ctx, "wait")
      BY <2>1, <2>3, <2>4 DEF ContextsBelong, Outstanding, Done
    <3>4. link'.busy.kind = "done" /\ link'.busy.ctx = x /\ ~link'.busy.ok
      BY <2>1, <3>2, DoneFacts
    <3> HIDE DEF x
    <3> QED BY <2>1, <2>2, <3>2, <3>3, <3>4 DEF ContextsBelong, Young, Asks, Live
  <2>5. CASE ~Outstanding
    <3>1. link' = [link EXCEPT !.ctx = x, !.busy = Done(x, TRUE)]
      BY <1>1, <2>1, <2>5 DEF TakeCall
    <3>2. link'.at = link.at /\ link'.ctx = x /\ link'.busy = Done(x, TRUE)
      BY <3>1 DEF Typed, LinkType
    <3>4. link'.busy.kind = "done" /\ link'.busy.ctx = x
      BY <2>1, <3>2, DoneFacts
    <3> HIDE DEF x
    <3> QED BY <2>1, <2>2, <3>2, <3>4 DEF ContextsBelong, Young, Asks, Live
  <2> QED BY <2>4, <2>5
<1>2. CASE CannotWrite
  <2>1. UNCHANGED calls /\ link.busy.kind = "free"
    BY <1>2, BusyTypes DEF CannotWrite, Looping
  <2>2. CASE queue # <<>> /\ queue' = <<>> /\ link' = [link EXCEPT !.at = "leave", !.ctx = Head(queue),
                                                 !.busy = Done(Head(queue), FALSE)]
    <3> DEFINE x == queue[1]
    <3>1. Head(queue) = x /\ x \in Contexts
      BY <2>2, QueueHead
    <3>2. Young(x) /\ Asks(x, "dispatch")
      BY <2>2 DEF ContextsBelong
    <3>3. link'.at = "leave" /\ link'.ctx = x /\ link'.busy = Done(x, FALSE)
      BY <2>2, <3>1 DEF Typed, LinkType
    <3>4. link'.busy.kind = "done" /\ link'.busy.ctx = x /\ ~link'.busy.ok
      BY <3>1, <3>3, DoneFacts
    <3> HIDE DEF x
    <3> QED BY <2>1, <2>2, <3>2, <3>3, <3>4 DEF ContextsBelong, Young, Asks, Live
  <2>3. CASE link' = [link EXCEPT !.at = "leave"] /\ UNCHANGED queue
    <3>1. link'.busy = link.busy /\ link'.ctx = link.ctx /\ link'.at = "leave"
      BY <2>3 DEF Typed, LinkType
    <3> QED BY <2>1, <2>3, <3>1, BelongSame
  <2> QED BY <1>2, <2>2, <2>3 DEF CannotWrite
<1>3. CASE TakePacket
  <2>1. UNCHANGED <<calls, queue, link>>
    BY <1>3 DEF TakePacket
  <2> QED BY <2>1, BelongSame
<1>4. CASE TakeCommand
  <2> DEFINE cmd == inbox[1]
  <2>1. UNCHANGED <<calls, queue>> /\ link.at = "loop" /\ link.busy = Free /\ link.busy.kind = "free"
    BY <1>4, TakesCommand, BusyTypes DEF Looping
  <2>2. CASE link' = [link EXCEPT !.ctx = None, !.chunk = 0, !.busy = Reply(link.ctx, cmd)]
             /\ cmd \in Pieces /\ link.ctx # None
    <3>1. link'.ctx = None /\ link'.busy = Reply(link.ctx, cmd) /\ link.ctx \in Contexts
      BY <2>2, TheContexts DEF Typed, LinkType
    <3>2. link'.busy.kind = "reply" /\ link'.busy.ctx = link.ctx
      BY <2>2, <3>1, BusyTypes
    <3>3. link.busy # Done(link.ctx, TRUE)
      BY <2>1, <3>1, DoneFacts
    <3>4. Young(link.ctx) /\ Asks(link.ctx, "wait")
      BY <2>1, <2>2, <3>3 DEF ContextsBelong
    <3>5. queue # <<>> => Young(queue[1]) /\ Asks(queue[1], "dispatch")
      BY DEF ContextsBelong
    <3> QED BY <2>1, <3>1, <3>2, <3>4, <3>5 DEF ContextsBelong, Young, Asks, Live
  <2>3. CASE \/ link' = link \/ link' = [link EXCEPT !.chunk = cmd.chunk]
             \/ link' = [link EXCEPT !.at = "leave"]
    <3>1. link'.busy = link.busy /\ link'.ctx = link.ctx /\ (link'.at = link.at \/ link'.at = "leave")
      BY <2>3 DEF Typed, LinkType
    <3> QED BY <2>1, <3>1, BelongSame
  <2> QED BY <1>4, <2>2, <2>3, TakesCommand
<1>5. CASE LoopEnds
  <2>1. UNCHANGED <<calls, queue>> /\ link.busy.kind = "free" /\ link' = [link EXCEPT !.at = "leave"]
    BY <1>5, BusyTypes DEF LoopEnds, Looping
  <2>2. link'.busy = link.busy /\ link'.ctx = link.ctx /\ link'.at = "leave"
    BY <2>1 DEF Typed, LinkType
  <2> QED BY <2>1, <2>2, BelongSame
<1> QED BY <1>1, <1>2, <1>3, <1>4, <1>5 DEF Loop

LEMMA BelongOutside ==
    ASSUME Typed, Typed', ContextsBelong, Outside
    PROVE  ContextsBelong'
<1>0. UNCHANGED <<calls, queue>>
  BY DEF Outside, Refused, Break, Answer, PushMessage, Publish, Tick
<1>1. CASE Refused
  <2>1. link' = [link EXCEPT !.at = "connect"] /\ link.at = "dial"
    BY <1>1 DEF Refused
  <2>2. link'.busy = link.busy /\ link'.ctx = link.ctx /\ link'.at = "connect"
    BY <2>1 DEF Typed, LinkType
  <2>3. link.busy.kind = "done" => ~link.busy.ok
    BY <2>1 DEF ContextsBelong
  <2> QED BY <1>0, <2>2, <2>3, BelongSame
<1>2. CASE Break
  <2>1. link' = [link EXCEPT !.dead = TRUE]
    BY <1>2 DEF Break
  <2>2. link'.busy = link.busy /\ link'.ctx = link.ctx /\ link'.at = link.at
    BY <2>1 DEF Typed, LinkType
  <2> QED BY <1>0, <2>2, BelongSame
<1>3. CASE UNCHANGED link
  BY <1>0, <1>3, BelongSame
<1> QED BY <1>1, <1>2, <1>3 DEF Outside, Answer, PushMessage, Publish, Tick

LEMMA BelongStep == Typed /\ Typed' /\ ContextsBelong /\ [Next]_vars => ContextsBelong'
<1> SUFFICES ASSUME Typed, Typed', ContextsBelong, [Next]_vars PROVE ContextsBelong'
  OBVIOUS
<1>1. CASE Next
  BY <1>1, BelongCalls, BelongLinks, BelongLoop, BelongOutside DEF Next
<1>2. CASE UNCHANGED vars
  BY <1>2, BelongSame DEF vars
<1> QED BY <1>1, <1>2

-------------------------------------------------------------------------------
(* What the loop has for a call.                                           *)

(* Each step leaves the loop with what it had, with nothing, with news about a request, with
   a lost fetch, or with the piece it has just taken. *)
LEMMA BusyStep ==
    ASSUME Typed, [Next]_vars
    PROVE  \/ link'.busy = link.busy
           \/ link'.busy.kind \in {"free", "done"}
           \/ link'.busy.kind = "reply" /\ link'.busy.reply.code = "lost"
           \/ /\ inbox # <<>> /\ inbox[1] \in Pieces /\ link.ctx # None
              /\ link'.busy.kind = "reply" /\ link'.busy.ctx = link.ctx /\ link'.busy.reply = inbox[1]
<1>0. link \in LinkType
  BY DEF Typed
<1>1. CASE (\E c \in Callers : Push(c) \/ Timeout(c)) \/ Worker \/ Sends \/ UNCHANGED vars
  BY <1>1 DEF Push, Timeout, Worker, Wake, WorkerFetches, WorkerFetched, WorkerSleeps,
              Sends, StartsSending, WaitForCurrentDocument, Compose, vars
<1>2. CASE Links
  <2>1. CASE Connect
    <3>1. \E g : link' = [link EXCEPT !.at = "dial", !.gateway = g]
      BY <2>1 DEF Connect
    <3> QED BY <1>0, <3>1 DEF LinkType
  <2>2. CASE Established
    <3>1. link' = [link EXCEPT !.at = "loop", !.up = TRUE, !.dead = FALSE, !.ctx = None, !.chunk = 0]
      BY <2>2 DEF Established
    <3> QED BY <1>0, <3>1 DEF LinkType
  <2>3. CASE HandDone \/ HandReply
    <3>1. link' = [link EXCEPT !.busy = Free]
      BY <2>3 DEF HandDone, HandReply
    <3> QED BY <1>0, <3>1, BusyTypes DEF LinkType
  <2>4. CASE Leave
    <3>1. CASE link.ctx # None
      <4> DEFINE lost == [kind |-> "consensus", code |-> "lost"]
      <4>1. link' = [link EXCEPT !.ctx = None, !.busy = Reply(link.ctx, lost)]
        BY <2>4, <3>1 DEF Leave
      <4>2. lost \in Lost /\ lost.code = "lost" /\ link.ctx \in Contexts
        BY <3>1, PieceTypes, TheContexts
      <4> HIDE DEF lost
      <4>3. link'.busy = Reply(link.ctx, lost)
        BY <1>0, <4>1 DEF LinkType
      <4> QED BY <4>2, <4>3, BusyTypes
    <3>2. CASE link.ctx = None
      <4>1. link' = [link EXCEPT !.at = "drain", !.up = FALSE]
        BY <2>4, <3>2 DEF Leave
      <4> QED BY <1>0, <4>1 DEF LinkType
    <3> QED BY <3>1, <3>2
  <2>5. CASE Drain
    <3>1. PICK b : link' = [link EXCEPT !.at = "connect", !.busy = b]
                   /\ (b = Free \/ \E x \in Contexts : b = Done(x, FALSE))
      BY <2>5, QueueHead DEF Drain
    <3>2. link'.busy = b
      BY <1>0, <3>1 DEF LinkType
    <3>3. b.kind \in {"free", "done"}
      <4>1. Free.kind = "free" /\ \A x \in Contexts : Done(x, FALSE).kind = "done"
        BY BusyTypes, DoneFacts
      <4> HIDE DEF Free, Done
      <4> QED BY <3>1, <4>1
    <3> QED BY <3>2, <3>3
  <2> QED BY <1>2, <2>1, <2>2, <2>3, <2>4, <2>5 DEF Links
<1>3. CASE Loop
  <2>1. CASE TakeCall
    <3>1. PICK x, ok, y :
             /\ x \in Contexts
             /\ ok \in BOOLEAN
             /\ link' = [link EXCEPT !.ctx = y, !.busy = Done(x, ok)]
      <4>1. Head(queue) \in Contexts
        BY <2>1, QueueHead DEF TakeCall
      <4>2. CASE Outstanding
        <5>1. link' = [link EXCEPT !.busy = Done(Head(queue), FALSE)]
          BY <2>1, <4>2 DEF TakeCall
        <5>2. link' = [link EXCEPT !.ctx = link.ctx, !.busy = Done(Head(queue), FALSE)]
          BY <1>0, <5>1 DEF LinkType
        <5> QED BY <4>1, <5>2
      <4>3. CASE ~Outstanding
        BY <2>1, <4>1, <4>3 DEF TakeCall
      <4> QED BY <4>2, <4>3
    <3>2. link'.busy = Done(x, ok)
      BY <1>0, <3>1 DEF LinkType
    <3> QED BY <3>1, <3>2, BusyTypes
  <2>2. CASE CannotWrite
    <3>1. CASE queue # <<>> /\ link' = [link EXCEPT !.at = "leave", !.ctx = Head(queue),
                                                   !.busy = Done(Head(queue), FALSE)]
      <4>1. link'.busy = Done(Head(queue), FALSE) /\ Head(queue) \in Contexts
        BY <1>0, <3>1, QueueHead DEF LinkType
      <4> QED BY <4>1, DoneFacts
    <3>2. CASE link' = [link EXCEPT !.at = "leave"]
      BY <1>0, <3>2 DEF LinkType
    <3> QED BY <2>2, <3>1, <3>2 DEF CannotWrite
  <2>3. CASE TakePacket
    BY <2>3 DEF TakePacket
  <2>4. CASE TakeCommand
    <3> DEFINE cmd == inbox[1]
    <3>1. CASE link' = [link EXCEPT !.ctx = None, !.chunk = 0, !.busy = Reply(link.ctx, cmd)]
               /\ cmd \in Pieces /\ link.ctx # None
      <4>1. link'.busy = Reply(link.ctx, cmd) /\ link.ctx \in Contexts
        BY <1>0, <3>1, TheContexts DEF LinkType
      <4>2. inbox # <<>>
        BY <2>4 DEF TakeCommand
      <4> QED BY <3>1, <4>1, <4>2, BusyTypes
    <3>2. CASE \/ link' = link \/ link' = [link EXCEPT !.chunk = cmd.chunk]
               \/ link' = [link EXCEPT !.at = "leave"]
      BY <1>0, <3>2 DEF LinkType
    <3> QED BY <2>4, <3>1, <3>2, TakesCommand
  <2>5. CASE LoopEnds
    <3>1. link' = [link EXCEPT !.at = "leave"]
      BY <2>5 DEF LoopEnds
    <3> QED BY <1>0, <3>1 DEF LinkType
  <2> QED BY <1>3, <2>1, <2>2, <2>3, <2>4, <2>5 DEF Loop
<1>4. CASE Outside
  <2>1. \/ link' = link \/ link' = [link EXCEPT !.at = "connect"] \/ link' = [link EXCEPT !.dead = TRUE]
    BY <1>4 DEF Outside, Refused, Break, Answer, PushMessage, Publish, Tick
  <2> QED BY <1>0, <2>1 DEF LinkType
<1> QED BY <1>1, <1>2, <1>3, <1>4 DEF Next

LEMMA RepliesStep == Typed /\ Flow /\ RepliesMatch /\ [Next]_vars => RepliesMatch'
BY BusyStep, FirstPiece DEF RepliesMatch

(* The epoch of the document is the one the call has asked for. *)
LEMMA CallersDocument ==
    Typed /\ ContextsBelong /\ RepliesMatch => DocumentIsTheCallers
BY DEF ContextsBelong, Asks, Live, RepliesMatch, DocumentIsTheCallers

-------------------------------------------------------------------------------
(* The documents have been published.                                      *)

LEMMA PublishedGrows ==
    ASSUME Typed, Published, [Next]_vars
    PROVE  /\ 1..published' \subseteq Epochs /\ epoch' <= published'
           /\ published \in Nat /\ published' \in Nat /\ published <= published'
<1>0. epoch \in Nat /\ published \in Nat /\ 1..published \subseteq Epochs /\ epoch <= published
  BY EpochFacts DEF Typed, Published
<1>1. CASE UNCHANGED <<epoch, published>>
  BY <1>0, <1>1
<1>2. CASE Publish
  <2>1. published' = published + 1 /\ published + 1 \in Epochs /\ epoch' = epoch
    BY <1>2 DEF Publish
  <2>2. \A k \in 1..published + 1 : k \in 1..published \/ k = published + 1
    BY <1>0
  <2> QED BY <1>0, <2>1, <2>2
<1>3. CASE Tick
  BY <1>0, <1>3 DEF Tick
<1> QED BY <1>1, <1>2, <1>3
        DEF Next, Push, Timeout, Worker, Wake, WorkerFetches, WorkerFetched, WorkerSleeps,
            Sends, StartsSending, WaitForCurrentDocument, Compose,
            Links, Connect, Established, HandDone, HandReply, Leave, Drain,
            Loop, TakeCall, CannotWrite, TakePacket, TakeCommand, LoopEnds,
            Outside, Refused, Break, Answer, PushMessage, vars, world

LEMMA DocsStep ==
    ASSUME Typed, Published, ContextsBelong, RepliesMatch, [Next]_vars
    PROVE  docs' \subseteq 1..published'
<1>0. published \in Nat /\ published' \in Nat /\ published <= published' /\ docs \subseteq 1..published
  BY PublishedGrows DEF Published
<1>1. CASE docs' \subseteq docs
  BY <1>0, <1>1
<1>2. CASE HandReply
  <2> DEFINE c == link.busy.ctx.by
             reply == link.busy.reply
  <2>1. /\ link.busy.kind = "reply" /\ calls[c].n = link.busy.ctx.n
        /\ docs' = IF reply.code = "ok" THEN docs \cup {calls[c].epoch} ELSE docs
    BY <1>2 DEF HandReply, Store
  <2>2. CASE reply.code = "ok"
    <3>1. calls[c].epoch = reply.epoch
      BY <2>1, <2>2, CallersDocument DEF DocumentIsTheCallers
    <3>2. reply \in Pieces /\ reply.epoch \in Epoch
      BY <2>1, <2>2, TheContexts, BusyTypes, PieceTypes
    <3>3. reply.epoch <= published
      BY <2>1, <2>2 DEF Published
    <3>4. calls[c].epoch \in 1..published
      BY <1>0, <3>1, <3>2, <3>3, EpochFacts
    <3>5. docs' = docs \cup {calls[c].epoch}
      BY <2>1, <2>2
    <3> HIDE DEF c
    <3>6. 1..published \subseteq 1..published'
      BY <1>0
    <3> QED BY <1>0, <3>4, <3>5, <3>6
  <2>3. CASE reply.code # "ok"
    BY <1>1, <2>1, <2>3
  <2> QED BY <2>2, <2>3
<1>3. CASE WorkerSleeps
  <2>1. docs' \subseteq docs
    BY <1>3 DEF WorkerSleeps
  <2> QED BY <1>1, <2>1
<1>4. CASE UNCHANGED docs
  BY <1>1, <1>4
<1> QED BY <1>2, <1>3, <1>4
        DEF Next, Push, Timeout, Worker, Wake, WorkerFetches, WorkerFetched,
            Sends, StartsSending, WaitForCurrentDocument, Compose,
            Links, Connect, Established, HandDone, Leave, Drain,
            Loop, TakeCall, CannotWrite, TakePacket, TakeCommand, LoopEnds,
            Outside, Refused, Break, Answer, PushMessage, Publish, Tick, vars, world

InboxPublished ==
    \A i \in DOMAIN inbox :
        inbox[i].kind = "consensus" /\ inbox[i].code = "ok" => inbox[i].epoch <= published

LEMMA InboxStep ==
    ASSUME Typed, Published, [Next]_vars
    PROVE  InboxPublished'
<1>0. /\ published \in Nat /\ published' \in Nat /\ published <= published' /\ InboxPublished
      /\ inbox \in Seq(Commands)
  BY PublishedGrows DEF Published, InboxPublished, Typed
<1>a. ASSUME NEW i \in DOMAIN inbox, inbox[i].kind = "consensus", inbox[i].code = "ok"
      PROVE  inbox[i].epoch <= published'
  <2>1. inbox[i] \in Pieces /\ inbox[i].epoch \in Nat
    BY <1>0, <1>a, PieceTypes, EpochFacts DEF Commands
  <2>2. inbox[i].epoch <= published
    BY <1>0, <1>a DEF InboxPublished
  <2> QED BY <1>0, <2>1, <2>2
<1>1. CASE inbox' = inbox
  BY <1>1, <1>a DEF InboxPublished
<1>2. CASE inbox' = <<>>
  BY <1>2 DEF InboxPublished
<1>3. CASE TakeCommand
  <2>1. inbox # <<>> /\ inbox' = Tail(inbox)
    BY <1>3 DEF TakeCommand
  <2>2. \A i \in DOMAIN inbox' : i + 1 \in DOMAIN inbox /\ inbox'[i] = inbox[i + 1]
    BY <1>0, <2>1
  <2> QED BY <1>a, <2>2 DEF InboxPublished
<1>4. CASE PushMessage
  <2> DEFINE m == [kind |-> "push"]
  <2>1. inbox' = Append(inbox, m) /\ m.kind # "consensus"
    BY <1>4 DEF PushMessage
  <2> HIDE DEF m
  <2>2. \A i \in DOMAIN inbox' : (i \in DOMAIN inbox /\ inbox'[i] = inbox[i]) \/ inbox'[i] = m
    BY <1>0, <2>1
  <2> QED BY <1>a, <2>1, <2>2 DEF InboxPublished
<1>5. CASE Answer
  <2>1. PICK ps : AnswerToFirst(ps) /\ inbox' = inbox \o ps
    BY <1>5, Answers
  <2>2. ps \in Seq(Pieces) /\ published' = published
    BY <1>5, <2>1 DEF AnswerToFirst, Answer, world
  <2>3. /\ DOMAIN inbox' = 1..Len(inbox) + Len(ps)
        /\ \A i \in 1..Len(inbox) : inbox'[i] = inbox[i]
        /\ \A i \in Len(inbox) + 1..Len(inbox) + Len(ps) : inbox'[i] = ps[i - Len(inbox)]
        /\ Len(inbox) \in Nat /\ Len(ps) \in Nat /\ DOMAIN inbox = 1..Len(inbox)
    BY <1>0, <2>1, <2>2, ConcatProperties
  <2>4. ASSUME NEW i \in DOMAIN inbox'
        PROVE  \/ i \in DOMAIN inbox /\ inbox'[i] = inbox[i]
               \/ \E k \in 1..Len(ps) : inbox'[i] = ps[k]
    <3>1. CASE i \in 1..Len(inbox)
      BY <2>3, <3>1
    <3>2. CASE i \notin 1..Len(inbox)
      <4>1. i \in Len(inbox) + 1..Len(inbox) + Len(ps) /\ i - Len(inbox) \in 1..Len(ps)
        BY <2>3, <3>2
      <4> QED BY <2>3, <4>1
    <3> QED BY <3>1, <3>2
  <2>5. \A k \in 1..Len(ps) : ps[k].code = "ok" => ps[k].epoch <= published'
    BY <2>1, <2>2 DEF AnswerToFirst
  <2> QED BY <1>a, <2>4, <2>5 DEF InboxPublished
<1> QED BY <1>1, <1>2, <1>3, <1>4, <1>5
        DEF Next, Push, Timeout, Worker, Wake, WorkerFetches, WorkerFetched, WorkerSleeps,
            Sends, StartsSending, WaitForCurrentDocument, Compose,
            Links, Connect, Established, HandDone, HandReply, Leave, Drain,
            Loop, TakeCall, CannotWrite, TakePacket, LoopEnds,
            Outside, Refused, Break, Publish, Tick, vars, world

LEMMA PublishedStep ==
    ASSUME Typed, Published, ContextsBelong, RepliesMatch, [Next]_vars
    PROVE  Published'
<1>0. published \in Nat /\ published' \in Nat /\ published <= published'
  BY PublishedGrows
<1>1. link'.busy.kind = "reply" /\ link'.busy.reply.code = "ok" => link'.busy.reply.epoch <= published'
  <2>1. CASE link'.busy = link.busy /\ link.busy.kind = "reply" /\ link.busy.reply.code = "ok"
    <3>1. link.busy.reply \in Pieces /\ link.busy.reply.epoch \in Nat
      BY <2>1, TheContexts, BusyTypes, PieceTypes, EpochFacts
    <3>2. link.busy.reply.epoch <= published
      BY <2>1 DEF Published
    <3> QED BY <1>0, <2>1, <3>1, <3>2
  <2>2. CASE inbox # <<>> /\ inbox[1] \in Pieces /\ link'.busy.reply = inbox[1]
    <3>1. 1 \in DOMAIN inbox /\ inbox[1].kind = "consensus" /\ inbox[1].epoch \in Nat
      BY <2>2, PieceTypes, EpochFacts DEF Typed
    <3>2. inbox[1].code = "ok" => inbox[1].epoch <= published
      BY <3>1 DEF Published
    <3> QED BY <1>0, <2>2, <3>1, <3>2
  <2> QED BY <2>1, <2>2, BusyStep
<1> QED BY <1>1, PublishedGrows, DocsStep, InboxStep DEF Published, InboxPublished

-------------------------------------------------------------------------------
LEMMA LinkStep == LinkInv /\ [Next]_vars => LinkInv'
<1> SUFFICES ASSUME LinkInv, [Next]_vars PROVE LinkInv'
  OBVIOUS
<1>1. Typed /\ Published /\ Flow /\ ContextsBelong /\ RepliesMatch
  BY DEF LinkInv, Flow
<1>2. Typed'
  BY <1>1, TypedStep
<1>3. Published'
  BY <1>1, PublishedStep
<1>4. Flow'
  BY <1>1, FlowStep
<1>5. ContextsBelong'
  BY <1>1, <1>2, BelongStep
<1>6. RepliesMatch'
  BY <1>1, RepliesStep
<1> QED BY <1>2, <1>3, <1>4, <1>5, <1>6 DEF LinkInv, Flow

(* The inductive invariant of the connection to a gateway. *)
THEOREM LinkIsTyped == Spec => []LinkInv
BY LinkInit, LinkStep, PTL DEF Spec

(* What the loop hands to a call is for the epoch of the call's context, whichever calls
   have timed out and whatever the connections before have left behind. *)
THEOREM RepliesAlwaysMatch == Spec => []RepliesMatch
<1>1. LinkInv => RepliesMatch
  BY DEF LinkInv
<1> QED BY <1>1, LinkIsTyped, PTL

(* A call of GetConsensus gets the document of the epoch it has asked for: getDocument's
   "BUG: Provider returned document for incorrect epoch" (pki.go:459) cannot happen with a
   gateway that answers in order. *)
THEOREM CallsGetTheirDocument == Spec => []DocumentIsTheCallers
<1>1. LinkInv => DocumentIsTheCallers
  BY CallersDocument DEF LinkInv
<1> QED BY <1>1, LinkIsTyped, PTL

(* The loop never sees a document that nobody waits for ("Received spurious
   Consensus2.", connection.go:710), so it never leaves a connection because of one. *)
NothingUnasked == inbox # <<>> /\ inbox[1].kind = "consensus" => link.ctx # None

THEOREM NoUnaskedDocument == Spec => []NothingUnasked
<1>1. LinkInv => NothingUnasked
  <2> SUFFICES ASSUME LinkInv, inbox # <<>>, inbox[1].kind = "consensus" PROVE link.ctx # None
    BY DEF NothingUnasked
  <2>1. 1 \in DOMAIN inbox
    BY DEF LinkInv, Typed
  <2> QED BY <2>1 DEF LinkInv, OneFetch, Consensus
<1> QED BY <1>1, LinkIsTyped, PTL

(* The daemon has only documents that the authorities have published. *)
DocsArePublished == docs \subseteq 1..published

THEOREM OnlyPublishedDocuments == Spec => []DocsArePublished
<1>1. LinkInv => DocsArePublished
  BY DEF LinkInv, Published, DocsArePublished
<1> QED BY <1>1, LinkIsTyped, PTL
================================================================================
