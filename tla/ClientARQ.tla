------------------------------- MODULE ClientARQ -------------------------------
(***************************************************************************)
(* How the client daemon gets an answer to what a thin client asks it to   *)
(* send (client/daemon.go, arq.go, pigeonhole.go, sender.go): the egress   *)
(* worker sends, a timer sends again what is not answered in time, the     *)
(* ingress worker handles the replies, and the thin client's reader        *)
(* cancels.  They share two maps under replyLock, the timer queue and the  *)
(* client's resend channel.                                                *)
(*                                                                         *)
(* Every packet carries a SURB of its own, by whose ID its reply is found. *)
(* An ID is <<m, k>>: the k-th of message m.  The source draws them at     *)
(* random; a number that nothing refers to any more is used again.         *)
(***************************************************************************)
EXTENDS Integers, Sequences, FiniteSets

CONSTANTS Messages,   \* what the thin client asks for: one ARQMessage or SendMessage each
          Kind,       \* of each: "read", "write", "strict" (a write that must not find the
                      \* box written), "copy" or "plain" (SendMessage)
          Hash,       \* of each: its EnvelopeHash
          None,
          ResendRoom, \* perClientResendBuf
          IDs,        \* bound: how many IDs of a message are in use at a time
          Scenarios   \* what the client wants; what it and the network may do, how often

(* What may happen in an instance, and how often. *)
Budgets == [wants : SUBSET Messages, losses : Nat, fails : Nat, cancels : Nat, waits : Nat,
            refusals : Nat, drops : Nat, resumes : Nat, late : Nat, slow : BOOLEAN]

ASSUME ARQAssumption ==
    /\ Kind \in [Messages -> {"read", "write", "strict", "copy", "plain"}]
    /\ DOMAIN Hash = Messages
    /\ ResendRoom \in Nat /\ IDs \in Nat
    /\ None \notin Messages \X (1..IDs)
    /\ Scenarios \subseteq Budgets

Hashes == {Hash[m] : m \in Messages}
Surbs  == Messages \X (1..IDs)
Owner(s) == s[1]

VARIABLES left,      \* what may still happen of the scenario
          conn,      \* the thin client: connected ("up"), in its grace period ("down"), "gone"
          asked,     \* what it has asked for
          requests,  \* requestCh
          resendCh,  \* resendCh
          egress,    \* where the egress worker is
          arqSurbIDMap,       \* the IDs in the map; the message of an ID is its owner
          arqEnvelopeHashMap, \* hash -> ID
          message,   \* of each ARQMessage: SURBID, the ID its keys are for, State
          replies,   \* the plain messages in d.replies
          timers,    \* arqTimerQueue
          fired,     \* the IDs whose callback is about to run
          net,       \* queries and replies in the mix network
          courier,   \* external: what the courier has done for each message
          ingress,   \* where the ingress worker is
          answers,   \* what the thin client has been told of each message
          cancelled  \* the messages whose cancellation it has been told

vars == <<left, conn, asked, requests, resendCh, egress, arqSurbIDMap, arqEnvelopeHashMap,
          message, replies, timers, fired, net, courier, ingress, answers, cancelled>>
maps   == <<arqSurbIDMap, arqEnvelopeHashMap, message>>
client == <<conn, asked, requests, cancelled>>

Idle == [pc |-> "idle", m |-> None, surb |-> None]
NoReply == [m |-> None, surb |-> None, what |-> "none"]

Init ==
    /\ left \in Scenarios
    /\ conn = "up" /\ asked = {} /\ requests = <<>> /\ resendCh = <<>>
    /\ egress = Idle /\ ingress = NoReply
    /\ arqSurbIDMap = {} /\ arqEnvelopeHashMap = [h \in Hashes |-> None]
    /\ message = [m \in Messages |-> [surb |-> None, key |-> None, state |-> "WaitingForACK"]]
    /\ replies = {} /\ timers = {} /\ fired = {} /\ net = {}
    /\ courier = [m \in Messages |-> "new"]
    /\ answers = [m \in Messages |-> {}] /\ cancelled = {}

-------------------------------------------------------------------------------
(* A random ID of m: the first that nothing refers to. *)
Used == arqSurbIDMap \cup timers \cup fired \cup {n.surb : n \in net} \cup {egress.surb, ingress.surb}
        \cup {resendCh[i] : i \in DOMAIN resendCh} \cup {message[m].surb : m \in Messages}
        \cup {message[m].key : m \in Messages} \cup {arqEnvelopeHashMap[h] : h \in Hashes}
Fresh(m, s) ==
    /\ s \in Surbs \ Used /\ Owner(s) = m
    /\ \A k \in 1..(s[2] - 1) : <<m, k>> \in Used

Tracked(m) == message[m].surb \in arqSurbIDMap

(* Register m, or register it anew, under s.  A placeholder comes without keys. *)
Rewire(m, s, key) ==
    /\ arqSurbIDMap' = (arqSurbIDMap \ {message[m].surb}) \cup {s}
    /\ arqEnvelopeHashMap' = [arqEnvelopeHashMap EXCEPT ![Hash[m]] = s]
    /\ message' = [message EXCEPT ![m].surb = s, ![m].key = IF key THEN s ELSE @]

(* The bug of an outcome that leaves the hash behind. *)
FaultyForget(m) ==
    /\ arqSurbIDMap' = arqSurbIDMap \ {message[m].surb}
    /\ UNCHANGED arqEnvelopeHashMap

(* dropARQMessage, and the outcomes that are final. *)
Forget(m) ==
    /\ arqSurbIDMap' = arqSurbIDMap \ {message[m].surb}
    /\ arqEnvelopeHashMap' = [arqEnvelopeHashMap EXCEPT ![Hash[m]] = None]

Tell(m, outcome) ==
    answers' = [answers EXCEPT ![m] = IF conn = "up" THEN @ \cup {outcome} ELSE @]

(* enqueueResend: a channel that is full gives the ID back to the timer queue, in which
   otherwise the IDs in armed are left. *)
Enqueue(s, armed) ==
    /\ resendCh' = IF s \in arqSurbIDMap /\ conn = "up" /\ Len(resendCh) < ResendRoom
                   THEN Append(resendCh, s) ELSE resendCh
    /\ timers' = IF s \in arqSurbIDMap /\ conn = "up" /\ Len(resendCh) >= ResendRoom
                 THEN armed \cup {s} ELSE armed

-------------------------------------------------------------------------------
(* The reader of the thin client's connection puts a request into requestCh. *)
Request(m) ==
    /\ conn = "up" /\ m \in left.wants \ asked
    /\ asked' = asked \cup {m}
    /\ requests' = Append(requests, m)
    /\ UNCHANGED <<left, conn, resendCh, egress, maps, replies, timers, fired, net, courier,
                   ingress, answers, cancelled>>

(* A Poisson tick: PickNextRequest takes a resend before a request, the egress worker gets
   it.  Without either the tick sends a decoy. *)
Pick ==
    /\ egress = Idle /\ conn = "up"
    /\ \/ /\ resendCh # <<>>
          /\ egress' = [pc |-> "resend", m |-> Owner(Head(resendCh)), surb |-> Head(resendCh)]
          /\ resendCh' = Tail(resendCh)
          /\ UNCHANGED requests
       \/ /\ resendCh = <<>> /\ requests # <<>>
          /\ egress' = [pc |-> "start", m |-> Head(requests), surb |-> None]
          /\ requests' = Tail(requests)
          /\ UNCHANGED resendCh
    /\ UNCHANGED <<left, conn, asked, maps, replies, timers, fired, net, courier, ingress,
                   answers, cancelled>>

(* The document is missing, or no path is found. *)
ComposeFails == left.fails > 0 /\ left' = [left EXCEPT !.fails = @ - 1]

(* startResendingEncryptedMessage, startResendingCopyCommand, arqSend: compose, register. *)
Start ==
    LET m == egress.m
    IN  /\ egress.pc = "start" /\ Kind[m] # "plain"
        /\ \/ /\ \E s \in Surbs : Fresh(m, s) /\ Rewire(m, s, TRUE) /\ egress' = [pc |-> "push", m |-> m, surb |-> s]
              /\ UNCHANGED <<left, answers>>
           \/ /\ ComposeFails /\ Tell(m, "error") /\ egress' = Idle
              /\ UNCHANGED maps
        /\ UNCHANGED <<client, resendCh, replies, timers, fired, net, courier, ingress>>

(* arqDoResend, all of it under replyLock until the packet is composed. *)
Resend ==
    LET m == egress.m
    IN  /\ egress.pc = "resend"
        /\ \/ /\ egress.surb \notin arqSurbIDMap
              /\ egress' = Idle /\ UNCHANGED <<left, maps>>
           \/ /\ egress.surb \in arqSurbIDMap /\ conn # "up"
              /\ Forget(m)
              /\ egress' = Idle /\ UNCHANGED <<left, message>>
           \/ /\ egress.surb \in arqSurbIDMap /\ conn = "up"
              /\ \E s \in Surbs : Fresh(m, s) /\ Rewire(m, s, TRUE) /\ egress' = [pc |-> "push", m |-> m, surb |-> s]
              /\ UNCHANGED left
           \/ /\ egress.surb \in arqSurbIDMap /\ conn = "up"
              /\ ComposeFails
              /\ egress' = [pc |-> "reschedule", m |-> m, surb |-> egress.surb]
              /\ UNCHANGED maps
        /\ UNCHANGED <<client, resendCh, replies, timers, fired, net, courier, ingress, answers>>

(* The bug of a packet that could not be composed and is not tried again. *)
FaultyReschedule ==
    /\ egress.pc = "reschedule"
    /\ egress' = Idle
    /\ UNCHANGED <<left, client, resendCh, maps, replies, timers, fired, net, courier, ingress, answers>>

(* rescheduleARQAfterComposeFailure takes replyLock again, and registers the message
   whatever has happened to it meanwhile. *)
Reschedule ==
    /\ egress.pc = "reschedule"
    /\ \E s \in Surbs : Fresh(egress.m, s) /\ Rewire(egress.m, s, FALSE) /\ timers' = timers \cup {s}
    /\ egress' = Idle
    /\ UNCHANGED <<left, client, resendCh, replies, fired, net, courier, ingress, answers>>

(* Arm the timer and send; without a gateway the packet is lost. *)
Push ==
    /\ egress.pc = "push"
    /\ timers' = timers \cup {egress.surb}
    /\ net' = net \cup {[m |-> egress.m, surb |-> egress.surb, what |-> "query"]}
    /\ egress' = Idle
    /\ UNCHANGED <<left, client, resendCh, maps, replies, fired, courier, ingress, answers>>

(* send: SendCiphertext has returned before the reply is expected. *)
SendPlain ==
    /\ egress.pc = "start" /\ Kind[egress.m] = "plain"
    /\ \/ net' = net \cup {[m |-> egress.m, surb |-> <<egress.m, 1>>, what |-> "query"]} /\ UNCHANGED left
       \/ ComposeFails /\ UNCHANGED net
    /\ egress' = [pc |-> "record", m |-> egress.m, surb |-> None]
    /\ UNCHANGED <<client, resendCh, maps, replies, timers, fired, courier, ingress, answers>>

Record ==
    /\ egress.pc = "record"
    /\ replies' = replies \cup {egress.m}
    /\ Tell(egress.m, "sent")
    /\ egress' = Idle
    /\ UNCHANGED <<left, client, resendCh, maps, timers, fired, net, courier, ingress>>

(* timerQueue: a reply that has not come in time is not expected any more. *)
Collect(m) ==
    /\ m \in replies /\ \A n \in net : n.m # m
    /\ replies' = replies \ {m}
    /\ UNCHANGED <<left, client, resendCh, egress, maps, timers, fired, net, courier, ingress, answers>>

-------------------------------------------------------------------------------
(* The time of an ID has come.  Unless the network is slower than estimated (as often as
   left.late says), neither its packet nor its reply is still on its way. *)
TimerFires(s) ==
    /\ s \in timers
    /\ \/ ingress.surb # s /\ (\A n \in net : n.surb # s) /\ UNCHANGED left
       \/ left.late > 0 /\ left' = [left EXCEPT !.late = @ - 1]
    /\ timers' = timers \ {s}
    /\ fired' = fired \cup {s}
    /\ UNCHANGED <<client, resendCh, egress, maps, replies, net, courier, ingress, answers>>

EnqueueResend(s) ==
    /\ s \in fired
    /\ fired' = fired \ {s}
    /\ Enqueue(s, timers)
    /\ UNCHANGED <<left, client, egress, maps, replies, net, courier, ingress, answers>>

-------------------------------------------------------------------------------
(* External: the courier, and the service that answers a plain message.  A courier that has
   accepted an envelope may need its time (left.waits) before it can do more than confirm. *)
Outcomes(m) ==
    CASE Kind[m] = "write"  -> {"ack", "stored", "exists"}
      [] Kind[m] = "read"   -> {"data"}
      [] Kind[m] = "strict" -> {"stored", "exists"}
      [] Kind[m] = "copy"   -> {"succeeded", "failed"}
      [] Kind[m] = "plain"  -> {"reply"}
Waits(m) ==
    CASE Kind[m] = "read" -> {"ack", "missing"} [] Kind[m] = "copy" -> {"progress"} [] OTHER -> {"ack"}
First(m) ==
    CASE Kind[m] = "copy" -> {"progress"} [] Kind[m] = "plain" -> {"reply"} [] OTHER -> {"ack"}

Courier(q) ==
    /\ q \in net /\ q.what = "query"
    /\ \E what \in {"ack", "missing", "progress", "stored", "exists", "data", "succeeded", "failed",
                    "reply", "refused"} :
          /\ net' = (net \ {q}) \cup {[q EXCEPT !.what = what]}
          /\ \/ /\ courier[q.m] = "new" /\ what \in First(q.m)
                /\ courier' = [courier EXCEPT ![q.m] = IF what = "reply" THEN "done" ELSE "accepted"]
                /\ UNCHANGED left
             \/ /\ courier[q.m] = "new" /\ what = "refused" /\ Kind[q.m] # "plain" /\ left.refusals > 0
                /\ left' = [left EXCEPT !.refusals = @ - 1]
                /\ UNCHANGED courier
             \/ /\ courier[q.m] = "accepted" /\ what \in Waits(q.m) /\ left.waits > 0
                /\ left' = [left EXCEPT !.waits = @ - 1]
                /\ UNCHANGED courier
             \/ /\ courier[q.m] # "new" /\ what \in Outcomes(q.m)
                /\ courier' = [courier EXCEPT ![q.m] = "done"]
                /\ UNCHANGED left
    /\ UNCHANGED <<client, resendCh, egress, maps, replies, timers, fired, ingress, answers>>

Lose(n) ==
    /\ n \in net /\ left.losses > 0
    /\ left' = [left EXCEPT !.losses = @ - 1]
    /\ net' = net \ {n}
    /\ UNCHANGED <<client, resendCh, egress, maps, replies, timers, fired, courier, ingress, answers>>

-------------------------------------------------------------------------------
(* handleReply: under replyLock it only looks the message up. *)
HandleReply(r) ==
    /\ ingress = NoReply /\ r \in net /\ r.what # "query"
    /\ net' = net \ {r}
    /\ ingress' = IF r.surb \in arqSurbIDMap THEN r ELSE NoReply
    /\ replies' = replies \ {r.m}
    /\ answers' = IF r.m \in replies /\ conn # "gone"
                  THEN [answers EXCEPT ![r.m] = @ \cup {"success"}] ELSE answers
    /\ UNCHANGED <<left, client, resendCh, egress, maps, timers, fired, courier>>

(* The bug of a courier's ACK that is success for every write. *)
FaultyTransition(m, what) ==
    IF message[m].state = "WaitingForACK" /\ what = "ack"
    THEN IF Kind[m] # "read" THEN "complete" ELSE "again"
    ELSE IF what = "ack" THEN "again" ELSE "payload"

(* computeARQStateTransition: the action it asks for. *)
Transition(m, what) ==
    IF message[m].state = "WaitingForACK" /\ what = "ack"
    THEN IF Kind[m] = "write" THEN "complete" ELSE "again"
    ELSE IF what = "ack" THEN "again" ELSE "payload"

(* determinePayloadErrorAction and what handlePayloadReply makes of a payload. *)
Outcome(m, what) ==
    CASE what \in {"refused", "failed"}           -> "error"
      [] what = "exists" /\ Kind[m] = "strict"    -> "error"
      [] OTHER                                    -> "success"

(* Final, and told to the thin client. *)
Finish(m, outcome, armed) ==
    /\ Forget(m) /\ Tell(m, outcome)
    /\ timers' = armed
    /\ UNCHANGED <<message, resendCh>>

(* scheduleARQFollowUp. *)
Again(m, state, armed) ==
    /\ message' = [message EXCEPT ![m].state = state]
    /\ Enqueue(message[m].surb, armed)
    /\ UNCHANGED <<arqSurbIDMap, arqEnvelopeHashMap, answers>>

(* The bug of a poll that does not ask whether the message has been cancelled. *)
FaultyPoll(m, armed) ==
    /\ \E s \in Surbs : Fresh(m, s) /\ Rewire(m, s, FALSE) /\ timers' = armed \cup {s}
    /\ UNCHANGED <<resendCh, answers>>

(* scheduleCopyCommandPoll, which leaves a message alone that is not tracked any more. *)
Poll(m, armed) ==
    /\ IF Tracked(m)
       THEN \E s \in Surbs : Fresh(m, s) /\ Rewire(m, s, FALSE) /\ timers' = armed \cup {s}
       ELSE timers' = armed /\ UNCHANGED maps
    /\ UNCHANGED <<resendCh, answers>>

(* handleReply goes on: cancel the timer of the ID the message has by now, then
   handlePigeonholeARQReply, which decrypts with the keys the message has by now. *)
HandleARQReply ==
    LET m == ingress.m
        what == ingress.what
        armed == timers \ {message[m].surb}
        action == Transition(m, what)
    IN  /\ ingress # NoReply
        /\ ingress' = NoReply
        /\ \/ /\ conn # "up"
              /\ timers' = armed /\ UNCHANGED <<maps, resendCh, answers>>
           \/ /\ conn = "up" /\ ingress.surb # message[m].key
              /\ Forget(m)
              /\ timers' = armed /\ UNCHANGED <<message, resendCh, answers>>
           \/ /\ conn = "up" /\ ingress.surb = message[m].key
              /\ \/ what = "progress" /\ Poll(m, armed)
                 \/ what \in {"succeeded", "failed", "refused"} /\ Finish(m, Outcome(m, what), armed)
                 \/ /\ what \in {"ack", "missing", "stored", "exists", "data"}
                    /\ \/ action = "complete" /\ Finish(m, "success", armed)
                       \/ action = "again" /\ Again(m, "ACKReceived", armed)
                       \/ action = "payload" /\ what = "missing" /\ Again(m, "WaitingForACK", armed)
                       \/ action = "payload" /\ what # "missing" /\ Finish(m, Outcome(m, what), armed)
        /\ UNCHANGED <<left, client, egress, replies, fired, net, courier>>

-------------------------------------------------------------------------------
(* cancelResendingEncryptedMessage and cancelResendingCopyCommand, on the goroutine of the
   reader, beside whatever the workers are doing. *)
Cancel(m) ==
    LET s == arqEnvelopeHashMap[Hash[m]]
    IN  /\ conn = "up" /\ m \in asked /\ Kind[m] # "plain" /\ left.cancels > 0 /\ m \notin cancelled
        /\ left' = [left EXCEPT !.cancels = @ - 1]
        /\ cancelled' = cancelled \cup {m}
        /\ arqSurbIDMap' = arqSurbIDMap \ {s}
        /\ arqEnvelopeHashMap' = [arqEnvelopeHashMap EXCEPT ![Hash[m]] = None]
        /\ timers' = timers \ {s}
        /\ answers' = IF s \in arqSurbIDMap
                      THEN [answers EXCEPT ![Owner(s)] = @ \cup {"cancelled"}] ELSE answers
        /\ UNCHANGED <<conn, asked, requests, resendCh, egress, message, replies, fired, net,
                       courier, ingress>>

(* The connection breaks; its channels go with it. *)
Disconnect ==
    /\ conn = "up" /\ left.drops > 0
    /\ left' = [left EXCEPT !.drops = @ - 1]
    /\ conn' = "down" /\ resendCh' = <<>> /\ requests' = <<>>
    /\ UNCHANGED <<asked, egress, maps, replies, timers, fired, net, courier, ingress, answers,
                   cancelled>>

(* The client comes back in time ... *)
Resume ==
    /\ conn = "down" /\ left.resumes > 0
    /\ left' = [left EXCEPT !.resumes = @ - 1]
    /\ conn' = "up"
    /\ UNCHANGED <<asked, requests, resendCh, egress, maps, replies, timers, fired, net, courier,
                   ingress, answers, cancelled>>

(* ... or cleanupForAppID removes what is left of it. *)
Cleanup ==
    /\ conn = "down"
    /\ conn' = "gone"
    /\ arqSurbIDMap' = {}
    /\ arqEnvelopeHashMap' =
           [h \in Hashes |-> IF \E s \in arqSurbIDMap : Hash[Owner(s)] = h
                             THEN None ELSE arqEnvelopeHashMap[h]]
    /\ timers' = timers \ {message[Owner(s)].surb : s \in arqSurbIDMap}
    /\ replies' = {}
    /\ UNCHANGED <<left, asked, requests, resendCh, egress, message, fired, net, courier, ingress,
                   answers, cancelled>>

-------------------------------------------------------------------------------
Egress  == Pick \/ Start \/ Resend \/ Reschedule \/ Push \/ SendPlain \/ Record
Ingress == HandleARQReply \/ \E r \in net : HandleReply(r)
Timer   == \E s \in timers \cup fired : TimerFires(s) \/ EnqueueResend(s)
World   == \E n \in net : Courier(n)

Next ==
    \/ \E m \in Messages : Request(m) \/ Cancel(m) \/ Collect(m)
    \/ Egress \/ Ingress \/ Timer \/ World
    \/ \E n \in net : Lose(n)
    \/ Disconnect \/ Resume \/ Cleanup

Spec == Init /\ [][Next]_vars

(* The workers run, timers fire, the courier answers what reaches it. *)
FairSpec ==
    /\ Spec
    /\ WF_vars(Egress) /\ WF_vars(Ingress) /\ WF_vars(World)
    /\ \A m \in Messages :
          WF_vars(\E s \in timers \cup fired : Owner(s) = m /\ (TimerFires(s) \/ EnqueueResend(s)))

-------------------------------------------------------------------------------
TypeOK ==
    /\ conn \in {"up", "down", "gone"} /\ asked \subseteq Messages /\ cancelled \subseteq Messages
    /\ requests \in Seq(Messages) /\ resendCh \in Seq(Surbs) /\ Len(resendCh) <= ResendRoom
    /\ egress.pc \in {"idle", "start", "resend", "reschedule", "push", "record"}
    /\ (arqSurbIDMap \cup timers \cup fired) \subseteq Surbs
    /\ arqEnvelopeHashMap \in [Hashes -> Surbs \cup {None}]
    /\ replies \subseteq Messages
    /\ courier \in [Messages -> {"new", "accepted", "done"}]

(* The invariant of rotateARQSurbIDLocked, "so CancelResendingEncryptedMessage can always
   find the current ARQMessage by EnvelopeHash" (daemon.go:937): between any two critical
   sections the two maps and the message agree, whatever the workers, the reader and the
   timers have interleaved. *)
MapsAgree ==
    /\ \A s \in arqSurbIDMap :
          message[Owner(s)].surb = s /\ arqEnvelopeHashMap[Hash[Owner(s)]] = s
    /\ \A h \in Hashes :
          arqEnvelopeHashMap[h] # None =>
              arqEnvelopeHashMap[h] \in arqSurbIDMap /\ Hash[Owner(arqEnvelopeHashMap[h])] = h

(* "never dropped silently, because arqDoResend is what re-Pushes the timer" (daemon.go:858):
   while its client is connected, every message in the map is in somebody's hands who will
   send it again or answer it: a timer, a callback, a resend channel or a worker. *)
TrackedIsArmed ==
    conn = "up" =>
        \A s \in arqSurbIDMap :
            \/ s \in timers \cup fired \cup {egress.surb}
            \/ \E i \in DOMAIN resendCh : resendCh[i] = s
            \/ ingress.m = Owner(s)

(* The thin client is told of a success only when the courier has taken the write, and of
   every other kind only when the outcome itself has been reached: a write that must not
   find the box written is not done when the courier confirms it. *)
SuccessIsTrue ==
    \A m \in Messages :
        "success" \in answers[m] =>
            courier[m] = "done" \/ (Kind[m] = "write" /\ courier[m] = "accepted")

(* "It retries forever until cancelled or successful" (arq.go:152): over a network that loses
   packets but is not slower than estimated, every message that a connected client has asked
   for is answered. *)
AnswerComes ==
    \A m \in Messages :
        (m \in asked /\ Kind[m] # "plain" /\ ~left.slow) ~> (answers[m] # {} \/ conn # "up")

(* The same over a network that may be slower. *)
AnswerComesLate ==
    \A m \in Messages :
        (m \in asked /\ Kind[m] # "plain") ~> (answers[m] # {} \/ conn # "up")

(* A client that is back within its grace period ("Same daemon instance, skipping replay",
   thin.go:1237) is still answered. *)
ResumedIsAnswered ==
    \A m \in Messages : (m \in asked /\ Kind[m] # "plain") ~> (answers[m] # {} \/ conn = "gone")

(* "Re-registering here would silently un-cancel the operation" (pigeonhole.go:1641): a
   message whose caller has been told that it is cancelled is not in the map again. *)
StaysCancelled == \A s \in arqSurbIDMap : "cancelled" \notin answers[Owner(s)]

(* "It retries forever until cancelled" (arq.go:152): the same of every cancellation that
   has succeeded. *)
CancelIsHeard == \A s \in arqSurbIDMap : Owner(s) \notin cancelled

(* "cleanupForAppID removes the stale map entry" (daemon.go:861) of a client that is gone. *)
NothingLeaks == conn = "gone" ~> arqSurbIDMap = {}

(* The entry for the reply of a plain message "is retained only until this timer fires"
   (daemon.go:678): a reply that arrives before is delivered. *)
PlainIsDelivered ==
    \A m \in Messages :
        (m \in replies /\ ~left.slow /\ courier[m] = "done" /\ conn = "up") ~> ("success" \in answers[m] \/ conn # "up")
=============================================================================
