---------------------------- MODULE ClientARQProofs ----------------------------
(***************************************************************************)
(* The two maps of the client daemon's ARQ agree for any number of         *)
(* messages, IDs and resends: whatever the workers, the timers and the     *)
(* reader interleave, every tracked message is found by its hash.          *)
(***************************************************************************)
EXTENDS ClientARQ, TLAPS

(* No two messages have the same hash.  The daemon does not see to it: a client that starts
   the same envelope twice breaks the invariant. *)
HashesDistinct == \A m, n \in Messages : Hash[m] = Hash[n] => m = n

(* What is needed of the types: everybody who holds an ID or a message holds one. *)
SurbOrNone == Surbs \cup {None}
MapsTyped ==
    /\ arqSurbIDMap \subseteq Surbs
    /\ arqEnvelopeHashMap \in [Hashes -> SurbOrNone]
    /\ message \in [Messages -> [surb : SurbOrNone, key : SurbOrNone,
                                 state : {"WaitingForACK", "ACKReceived"}]]
Holders ==
    /\ requests \in Seq(Messages) /\ resendCh \in Seq(Surbs)
    /\ egress.pc # "idle" => egress.m \in Messages
    /\ egress.pc = "push" => egress.surb \in Surbs
    /\ ingress # NoReply => ingress.m \in Messages
    /\ fired \subseteq Surbs /\ timers \subseteq Surbs
    /\ \A n \in net : n.m \in Messages

(* An ID belongs to its message for good. *)
OwnSurb == \A m \in Messages : message[m].surb # None => Owner(message[m].surb) = m

MapsInv == MapsTyped /\ OwnSurb /\ MapsAgree
ARQInv  == Holders /\ MapsInv

LEMMA NoneIsNoSurb == None \notin Surbs
BY ARQAssumption DEF Surbs

LEMMA OwnerIsMessage == \A s \in Surbs : Owner(s) \in Messages
BY DEF Surbs, Owner

(* Registering a message under an ID of its own keeps the maps in agreement. *)
LEMMA RewireAgrees ==
    ASSUME HashesDistinct, MapsInv, NEW m \in Messages, NEW s \in Surbs, Owner(s) = m,
           NEW key \in BOOLEAN, Rewire(m, s, key)
    PROVE  MapsInv'
<1>1. /\ arqSurbIDMap' = (arqSurbIDMap \ {message[m].surb}) \cup {s}
      /\ arqEnvelopeHashMap' = [arqEnvelopeHashMap EXCEPT ![Hash[m]] = s]
      /\ message' = [message EXCEPT ![m].surb = s, ![m].key = IF key THEN s ELSE @]
  BY DEF Rewire
<1>2. MapsTyped'
  <2>1. arqSurbIDMap' \subseteq Surbs
    BY <1>1 DEF MapsInv, MapsTyped
  <2>2. s \in SurbOrNone /\ arqEnvelopeHashMap' \in [Hashes -> SurbOrNone]
    BY <1>1 DEF MapsInv, MapsTyped, SurbOrNone
  <2>3. PICK k \in SurbOrNone : k = IF key THEN s ELSE message[m].key
    BY <2>2 DEF MapsInv, MapsTyped
  <2>4. message' = [message EXCEPT ![m] = [message[m] EXCEPT !.surb = s, !.key = k]]
    BY <1>1, <2>3 DEF MapsInv, MapsTyped
  <2>5. [message[m] EXCEPT !.surb = s, !.key = k]
            \in [surb : SurbOrNone, key : SurbOrNone, state : {"WaitingForACK", "ACKReceived"}]
    BY <2>2 DEF MapsInv, MapsTyped
  <2>6. message' \in [Messages -> [surb : SurbOrNone, key : SurbOrNone,
                                   state : {"WaitingForACK", "ACKReceived"}]]
    BY <2>4, <2>5 DEF MapsInv, MapsTyped
  <2> QED BY <2>1, <2>2, <2>6 DEF MapsTyped
<1>3. /\ message'[m].surb = s
      /\ \A n \in Messages \ {m} : message'[n] = message[n]
  BY <1>1 DEF MapsInv, MapsTyped
<1>4. OwnSurb'
  BY <1>3 DEF MapsInv, OwnSurb
<1>5. Hash[m] \in Hashes
  BY DEF Hashes
<1>6. /\ arqEnvelopeHashMap'[Hash[m]] = s
      /\ \A h \in Hashes \ {Hash[m]} : arqEnvelopeHashMap'[h] = arqEnvelopeHashMap[h]
  BY <1>1, <1>5 DEF MapsInv, MapsTyped
<1>7. ASSUME NEW t \in arqSurbIDMap'
      PROVE  message'[Owner(t)].surb = t /\ arqEnvelopeHashMap'[Hash[Owner(t)]] = t
  <2>1. CASE t = s
    BY <2>1, <1>3, <1>6
  <2>2. CASE t # s
    <3>1. t \in arqSurbIDMap /\ t # message[m].surb /\ t \in Surbs
      BY <2>2, <1>1 DEF MapsInv, MapsTyped
    <3>2. message[Owner(t)].surb = t /\ arqEnvelopeHashMap[Hash[Owner(t)]] = t
      BY <3>1 DEF MapsInv, MapsAgree
    <3>3. Owner(t) \in Messages /\ Owner(t) # m
      BY <3>1, <3>2, OwnerIsMessage
    <3>4. Hash[Owner(t)] \in Hashes \ {Hash[m]}
      BY <3>3 DEF HashesDistinct, Hashes
    <3> QED BY <3>2, <3>3, <3>4, <1>3, <1>6
  <2> QED BY <2>1, <2>2
<1>8. ASSUME NEW h \in Hashes, arqEnvelopeHashMap'[h] # None
      PROVE  arqEnvelopeHashMap'[h] \in arqSurbIDMap' /\ Hash[Owner(arqEnvelopeHashMap'[h])] = h
  <2>1. CASE h = Hash[m]
    BY <2>1, <1>1, <1>6
  <2>2. CASE h # Hash[m]
    <3>1. arqEnvelopeHashMap'[h] = arqEnvelopeHashMap[h]
      BY <2>2, <1>6
    <3>2. arqEnvelopeHashMap[h] \in arqSurbIDMap /\ Hash[Owner(arqEnvelopeHashMap[h])] = h
      BY <3>1, <1>8 DEF MapsInv, MapsAgree
    <3>3. arqEnvelopeHashMap[h] # message[m].surb
      BY <3>2, <2>2, NoneIsNoSurb DEF MapsInv, MapsTyped, OwnSurb
    <3> QED BY <3>1, <3>2, <3>3, <1>1
  <2> QED BY <2>1, <2>2
<1> QED BY <1>2, <1>4, <1>7, <1>8 DEF MapsInv, MapsAgree

(* Taking a message out of both maps does. *)
LEMMA ForgetAgrees ==
    ASSUME HashesDistinct, MapsInv, NEW m \in Messages, Forget(m), UNCHANGED message
    PROVE  MapsInv'
<1>1. /\ arqSurbIDMap' = arqSurbIDMap \ {message[m].surb}
      /\ arqEnvelopeHashMap' = [arqEnvelopeHashMap EXCEPT ![Hash[m]] = None]
  BY DEF Forget
<1>2. MapsTyped' /\ OwnSurb'
  BY <1>1 DEF MapsInv, MapsTyped, OwnSurb, SurbOrNone
<1>3. Hash[m] \in Hashes
  BY DEF Hashes
<1>4. /\ arqEnvelopeHashMap'[Hash[m]] = None
      /\ \A h \in Hashes \ {Hash[m]} : arqEnvelopeHashMap'[h] = arqEnvelopeHashMap[h]
  BY <1>1, <1>3 DEF MapsInv, MapsTyped
<1>5. ASSUME NEW t \in arqSurbIDMap'
      PROVE  message'[Owner(t)].surb = t /\ arqEnvelopeHashMap'[Hash[Owner(t)]] = t
  <2>1. t \in arqSurbIDMap /\ t # message[m].surb /\ t \in Surbs
    BY <1>1 DEF MapsInv, MapsTyped
  <2>2. message[Owner(t)].surb = t /\ arqEnvelopeHashMap[Hash[Owner(t)]] = t
    BY <2>1 DEF MapsInv, MapsAgree
  <2>3. Owner(t) \in Messages /\ Owner(t) # m
    BY <2>1, <2>2, OwnerIsMessage
  <2>4. Hash[Owner(t)] \in Hashes \ {Hash[m]}
    BY <2>3 DEF HashesDistinct, Hashes
  <2> QED BY <2>2, <2>4, <1>4
<1>6. ASSUME NEW h \in Hashes, arqEnvelopeHashMap'[h] # None
      PROVE  arqEnvelopeHashMap'[h] \in arqSurbIDMap' /\ Hash[Owner(arqEnvelopeHashMap'[h])] = h
  <2>1. h # Hash[m] /\ arqEnvelopeHashMap'[h] = arqEnvelopeHashMap[h]
    BY <1>4, <1>6
  <2>2. arqEnvelopeHashMap[h] \in arqSurbIDMap /\ Hash[Owner(arqEnvelopeHashMap[h])] = h
    BY <2>1, <1>6 DEF MapsInv, MapsAgree
  <2>3. arqEnvelopeHashMap[h] # message[m].surb
    BY <2>1, <2>2, NoneIsNoSurb DEF MapsInv, MapsTyped, OwnSurb
  <2> QED BY <2>1, <2>2, <2>3, <1>1
<1> QED BY <1>2, <1>5, <1>6 DEF MapsInv, MapsAgree

(* The reader's cancellation does. *)
LEMMA CancelAgrees ==
    ASSUME MapsInv, NEW m \in Messages, Cancel(m)
    PROVE  MapsInv'
<1> DEFINE s == arqEnvelopeHashMap[Hash[m]]
<1>1. /\ arqSurbIDMap' = arqSurbIDMap \ {s}
      /\ arqEnvelopeHashMap' = [arqEnvelopeHashMap EXCEPT ![Hash[m]] = None]
      /\ message' = message
  BY DEF Cancel
<1>2. MapsTyped' /\ OwnSurb'
  BY <1>1 DEF MapsInv, MapsTyped, OwnSurb, SurbOrNone
<1>3. Hash[m] \in Hashes
  BY DEF Hashes
<1>4. /\ arqEnvelopeHashMap'[Hash[m]] = None
      /\ \A h \in Hashes \ {Hash[m]} : arqEnvelopeHashMap'[h] = arqEnvelopeHashMap[h]
  BY <1>1, <1>3 DEF MapsInv, MapsTyped
<1>5. ASSUME NEW t \in arqSurbIDMap'
      PROVE  message'[Owner(t)].surb = t /\ arqEnvelopeHashMap'[Hash[Owner(t)]] = t
  <2>1. t \in arqSurbIDMap /\ t # s /\ t \in Surbs
    BY <1>1 DEF MapsInv, MapsTyped
  <2>2. message[Owner(t)].surb = t /\ arqEnvelopeHashMap[Hash[Owner(t)]] = t
    BY <2>1 DEF MapsInv, MapsAgree
  <2>3. Hash[Owner(t)] \in Hashes \ {Hash[m]}
    BY <2>1, <2>2, OwnerIsMessage DEF Hashes
  <2> QED BY <2>2, <2>3, <1>1, <1>4
<1>6. ASSUME NEW h \in Hashes, arqEnvelopeHashMap'[h] # None
      PROVE  arqEnvelopeHashMap'[h] \in arqSurbIDMap' /\ Hash[Owner(arqEnvelopeHashMap'[h])] = h
  <2>1. h # Hash[m] /\ arqEnvelopeHashMap'[h] = arqEnvelopeHashMap[h]
    BY <1>4, <1>6
  <2>2. arqEnvelopeHashMap[h] \in arqSurbIDMap /\ Hash[Owner(arqEnvelopeHashMap[h])] = h
    BY <2>1, <1>6 DEF MapsInv, MapsAgree
  <2>3. arqEnvelopeHashMap[h] # s
    <3>1. CASE s = None
      BY <3>1, <2>1, <1>6
    <3>2. CASE s # None
      BY <3>2, <2>1, <2>2, <1>3 DEF MapsInv, MapsAgree
    <3> QED BY <3>1, <3>2
  <2> QED BY <2>1, <2>2, <2>3, <1>1
<1> QED BY <1>2, <1>5, <1>6 DEF MapsInv, MapsAgree

(* Removing everything of a client that is gone does. *)
LEMMA CleanupAgrees ==
    ASSUME MapsInv, Cleanup
    PROVE  MapsInv'
<1>1. /\ arqSurbIDMap' = {}
      /\ arqEnvelopeHashMap' =
             [h \in Hashes |-> IF \E s \in arqSurbIDMap : Hash[Owner(s)] = h
                               THEN None ELSE arqEnvelopeHashMap[h]]
      /\ message' = message
  BY DEF Cleanup
<1>2. MapsTyped' /\ OwnSurb'
  BY <1>1 DEF MapsInv, MapsTyped, OwnSurb, SurbOrNone
<1>3. \A h \in Hashes : arqEnvelopeHashMap'[h] = None
  BY <1>1 DEF MapsInv, MapsAgree
<1> QED BY <1>1, <1>2, <1>3 DEF MapsInv, MapsAgree

LEMMA MapsStutter == MapsInv /\ UNCHANGED maps => MapsInv'
BY DEF MapsInv, MapsTyped, OwnSurb, MapsAgree, maps

(* A message that changes its State only, and is asked for again. *)
LEMMA AgainAgrees ==
    ASSUME MapsInv, NEW m \in Messages, NEW state \in {"WaitingForACK", "ACKReceived"},
           NEW armed, Again(m, state, armed)
    PROVE  MapsInv'
<1>1. /\ message' = [message EXCEPT ![m].state = state]
      /\ arqSurbIDMap' = arqSurbIDMap /\ arqEnvelopeHashMap' = arqEnvelopeHashMap
  BY DEF Again
<1>2. \A n \in Messages : message'[n].surb = message[n].surb
  BY <1>1 DEF MapsInv, MapsTyped
<1>3. MapsTyped' /\ OwnSurb'
  BY <1>1, <1>2 DEF MapsInv, MapsTyped, OwnSurb
<1>4. \A t \in arqSurbIDMap : Owner(t) \in Messages
  BY OwnerIsMessage DEF MapsInv, MapsTyped
<1> QED BY <1>1, <1>2, <1>3, <1>4 DEF MapsInv, MapsAgree

(***************************************************************************)
(* The invariant of every step.                                            *)
(***************************************************************************)
LEMMA ARQInit == Init => ARQInv
<1> SUFFICES ASSUME Init PROVE ARQInv
  OBVIOUS
<1>1. Holders
  BY DEF Init, Holders, Idle
<1>2. MapsTyped
  BY DEF Init, MapsTyped, SurbOrNone
<1>3. OwnSurb /\ MapsAgree
  BY DEF Init, OwnSurb, MapsAgree
<1> QED BY <1>1, <1>2, <1>3 DEF ARQInv, MapsInv

(* enqueueResend puts an ID it is given into the channel or back into the timer queue. *)
LEMMA EnqueueHolds ==
    ASSUME resendCh \in Seq(Surbs), NEW s \in Surbs, NEW armed \in SUBSET Surbs, Enqueue(s, armed)
    PROVE  resendCh' \in Seq(Surbs) /\ timers' \subseteq Surbs
BY DEF Enqueue

(* The thin client: what it asks for, and its connection. *)
LEMMA ClientStep ==
    ASSUME ARQInv,
           \/ \E m \in Messages : Request(m) \/ Cancel(m) \/ Collect(m)
           \/ Disconnect \/ Resume \/ Cleanup
    PROVE  ARQInv'
<1>1. ASSUME NEW m \in Messages, Request(m) PROVE ARQInv'
  <2>1. Holders'
    BY <1>1 DEF Request, ARQInv, Holders
  <2> QED BY <1>1, <2>1, MapsStutter DEF Request, ARQInv
<1>2. ASSUME NEW m \in Messages, Cancel(m) PROVE ARQInv'
  <2>1. Holders'
    BY <1>2 DEF Cancel, ARQInv, Holders
  <2> QED BY <1>2, <2>1, CancelAgrees DEF ARQInv
<1>3. ASSUME NEW m \in Messages, Collect(m) PROVE ARQInv'
  <2>1. Holders'
    BY <1>3 DEF Collect, client, ARQInv, Holders
  <2> QED BY <1>3, <2>1, MapsStutter DEF Collect, ARQInv
<1>4. ASSUME Disconnect PROVE ARQInv'
  <2>1. Holders'
    BY <1>4 DEF Disconnect, ARQInv, Holders
  <2> QED BY <1>4, <2>1, MapsStutter DEF Disconnect, ARQInv
<1>5. ASSUME Resume PROVE ARQInv'
  <2>1. Holders'
    BY <1>5 DEF Resume, ARQInv, Holders
  <2> QED BY <1>5, <2>1, MapsStutter DEF Resume, ARQInv
<1>6. ASSUME Cleanup PROVE ARQInv'
  <2>1. Holders'
    BY <1>6 DEF Cleanup, ARQInv, Holders
  <2> QED BY <1>6, <2>1, CleanupAgrees DEF ARQInv
<1> QED BY <1>1, <1>2, <1>3, <1>4, <1>5, <1>6

(* The egress worker, the only one to register a message for the first time. *)
LEMMA EgressStep ==
    ASSUME HashesDistinct, ARQInv, Egress
    PROVE  ARQInv'
<1>1. ASSUME Pick PROVE ARQInv'
  <2>1. Holders'
    <3>1. CASE resendCh # <<>>
      <4>1. Head(resendCh) \in Surbs /\ Tail(resendCh) \in Seq(Surbs)
        BY <3>1 DEF ARQInv, Holders
      <4>2. egress'.m \in Messages /\ resendCh' \in Seq(Surbs) /\ requests' = requests
        BY <1>1, <3>1, <4>1, OwnerIsMessage DEF Pick
      <4> QED BY <1>1, <4>2 DEF Pick, ARQInv, Holders
    <3>2. CASE resendCh = <<>>
      <4>1. requests # <<>> /\ Head(requests) \in Messages /\ Tail(requests) \in Seq(Messages)
        BY <1>1, <3>2 DEF Pick, ARQInv, Holders
      <4>2. egress'.m \in Messages /\ requests' \in Seq(Messages) /\ resendCh' = resendCh
        BY <1>1, <3>2, <4>1 DEF Pick
      <4> QED BY <1>1, <4>2 DEF Pick, ARQInv, Holders
    <3> QED BY <3>1, <3>2
  <2> QED BY <1>1, <2>1, MapsStutter DEF Pick, ARQInv
<1>2. ASSUME Start PROVE ARQInv'
  <2>1. egress.m \in Messages
    BY <1>2 DEF Start, ARQInv, Holders
  <2>2. CASE \E s \in Surbs : /\ Fresh(egress.m, s) /\ Rewire(egress.m, s, TRUE)
                              /\ egress' = [pc |-> "push", m |-> egress.m, surb |-> s]
    <3>1. PICK s \in Surbs : /\ Owner(s) = egress.m /\ Rewire(egress.m, s, TRUE)
                             /\ egress' = [pc |-> "push", m |-> egress.m, surb |-> s]
      BY <2>2 DEF Fresh
    <3>2. MapsInv'
      BY <2>1, <3>1, RewireAgrees DEF ARQInv
    <3>3. Holders'
      BY <1>2, <2>1, <3>1 DEF Start, client, ARQInv, Holders
    <3> QED BY <3>2, <3>3 DEF ARQInv
  <2>3. CASE egress' = Idle /\ UNCHANGED maps
    <3>1. Holders'
      BY <1>2, <2>3 DEF Start, client, Idle, ARQInv, Holders
    <3> QED BY <2>3, <3>1, MapsStutter DEF ARQInv
  <2> QED BY <1>2, <2>2, <2>3 DEF Start
<1>3. ASSUME Resend PROVE ARQInv'
  <2>1. egress.m \in Messages
    BY <1>3 DEF Resend, ARQInv, Holders
  <2>2. CASE \E s \in Surbs : /\ Fresh(egress.m, s) /\ Rewire(egress.m, s, TRUE)
                              /\ egress' = [pc |-> "push", m |-> egress.m, surb |-> s]
    <3>1. PICK s \in Surbs : /\ Owner(s) = egress.m /\ Rewire(egress.m, s, TRUE)
                             /\ egress' = [pc |-> "push", m |-> egress.m, surb |-> s]
      BY <2>2 DEF Fresh
    <3>2. MapsInv'
      BY <2>1, <3>1, RewireAgrees DEF ARQInv
    <3>3. Holders'
      BY <1>3, <2>1, <3>1 DEF Resend, client, ARQInv, Holders
    <3> QED BY <3>2, <3>3 DEF ARQInv
  <2>3. CASE egress' = Idle /\ UNCHANGED maps
    <3>1. Holders'
      BY <1>3, <2>3 DEF Resend, client, Idle, ARQInv, Holders
    <3> QED BY <2>3, <3>1, MapsStutter DEF ARQInv
  <2>4. CASE Forget(egress.m) /\ egress' = Idle /\ UNCHANGED message
    <3>1. Holders'
      BY <1>3, <2>4 DEF Resend, client, Idle, ARQInv, Holders
    <3> QED BY <2>1, <2>4, <3>1, ForgetAgrees DEF ARQInv
  <2>5. CASE /\ egress' = [pc |-> "reschedule", m |-> egress.m, surb |-> egress.surb]
             /\ UNCHANGED maps
    <3>1. Holders'
      BY <1>3, <2>1, <2>5 DEF Resend, client, ARQInv, Holders
    <3> QED BY <2>5, <3>1, MapsStutter DEF ARQInv
  <2> QED BY <1>3, <2>2, <2>3, <2>4, <2>5 DEF Resend
<1>4. ASSUME Reschedule PROVE ARQInv'
  <2>1. egress.m \in Messages
    BY <1>4 DEF Reschedule, ARQInv, Holders
  <2>2. PICK s \in Surbs : /\ Owner(s) = egress.m /\ Rewire(egress.m, s, FALSE)
                           /\ timers' = timers \cup {s}
    BY <1>4 DEF Reschedule, Fresh
  <2>3. MapsInv'
    BY <2>1, <2>2, RewireAgrees DEF ARQInv
  <2>4. Holders'
    BY <1>4, <2>2 DEF Reschedule, client, Idle, ARQInv, Holders
  <2> QED BY <2>3, <2>4 DEF ARQInv
<1>5. ASSUME Push PROVE ARQInv'
  <2>1. Holders'
    BY <1>5 DEF Push, client, Idle, ARQInv, Holders
  <2> QED BY <1>5, <2>1, MapsStutter DEF Push, ARQInv
<1>6. ASSUME SendPlain PROVE ARQInv'
  <2>1. egress.m \in Messages /\ egress'.m = egress.m
    BY <1>6 DEF SendPlain, ARQInv, Holders
  <2>2. \A n \in net' : n.m \in Messages
    BY <1>6, <2>1 DEF SendPlain, ARQInv, Holders
  <2>3. Holders'
    BY <1>6, <2>1, <2>2 DEF SendPlain, client, ARQInv, Holders
  <2> QED BY <1>6, <2>3, MapsStutter DEF SendPlain, ARQInv
<1>7. ASSUME Record PROVE ARQInv'
  <2>1. Holders'
    BY <1>7 DEF Record, client, Idle, ARQInv, Holders
  <2> QED BY <1>7, <2>1, MapsStutter DEF Record, ARQInv
<1> QED BY <1>1, <1>2, <1>3, <1>4, <1>5, <1>6, <1>7 DEF Egress

(* The timers, the courier and the network, which leave the maps alone. *)
LEMMA WorldStep ==
    ASSUME ARQInv, Timer \/ World \/ \E n \in net : Lose(n)
    PROVE  ARQInv'
<1>1. ASSUME NEW s \in timers \cup fired, TimerFires(s) PROVE ARQInv'
  <2>1. Holders'
    BY <1>1 DEF TimerFires, client, ARQInv, Holders
  <2> QED BY <1>1, <2>1, MapsStutter DEF TimerFires, ARQInv
<1>2. ASSUME NEW s \in timers \cup fired, EnqueueResend(s) PROVE ARQInv'
  <2>1. resendCh' \in Seq(Surbs) /\ timers' \subseteq Surbs
    BY <1>2, EnqueueHolds DEF EnqueueResend, ARQInv, Holders
  <2>2. Holders'
    BY <1>2, <2>1 DEF EnqueueResend, client, ARQInv, Holders
  <2> QED BY <1>2, <2>2, MapsStutter DEF EnqueueResend, ARQInv
<1>3. ASSUME NEW q \in net, Courier(q) PROVE ARQInv'
  <2>1. PICK what : net' = (net \ {q}) \cup {[q EXCEPT !.what = what]}
    BY <1>3 DEF Courier
  <2>2. [q EXCEPT !.what = what].m \in Messages
    BY DEF ARQInv, Holders
  <2>3. Holders'
    BY <1>3, <2>1, <2>2 DEF Courier, client, ARQInv, Holders
  <2> QED BY <1>3, <2>3, MapsStutter DEF Courier, ARQInv
<1>4. ASSUME NEW n \in net, Lose(n) PROVE ARQInv'
  <2>1. Holders'
    BY <1>4 DEF Lose, client, ARQInv, Holders
  <2> QED BY <1>4, <2>1, MapsStutter DEF Lose, ARQInv
<1> QED BY <1>1, <1>2, <1>3, <1>4 DEF Timer, World

(* The ingress worker: a reply is handled with what its message has become meanwhile. *)
LEMMA HandleARQReplyStep ==
    ASSUME HashesDistinct, ARQInv, HandleARQReply
    PROVE  ARQInv'
<1> DEFINE m     == ingress.m
           armed == timers \ {message[m].surb}
<1>1. m \in Messages /\ armed \subseteq Surbs
  BY DEF HandleARQReply, ARQInv, Holders
<1>2. ingress' = NoReply /\ UNCHANGED <<left, client, egress, replies, fired, net, courier>>
  BY DEF HandleARQReply
<1>3. ASSUME resendCh' \in Seq(Surbs), timers' \subseteq Surbs PROVE Holders'
  BY <1>2, <1>3 DEF client, ARQInv, Holders
<1>4. CASE timers' = armed /\ UNCHANGED <<maps, resendCh, answers>>
  <2>1. Holders'
    BY <1>1, <1>3, <1>4 DEF ARQInv, Holders
  <2> QED BY <1>4, <2>1, MapsStutter DEF ARQInv
<1>5. CASE Forget(m) /\ timers' = armed /\ UNCHANGED <<message, resendCh>>
  <2>1. Holders'
    BY <1>1, <1>3, <1>5 DEF ARQInv, Holders
  <2> QED BY <1>1, <1>5, <2>1, ForgetAgrees DEF ARQInv
<1>6. ASSUME NEW outcome, Finish(m, outcome, armed) PROVE ARQInv'
  BY <1>5, <1>6 DEF Finish
<1>7. ASSUME NEW state \in {"WaitingForACK", "ACKReceived"}, Again(m, state, armed) PROVE ARQInv'
  <2>1. message[m].surb \in SurbOrNone
    BY <1>1 DEF ARQInv, MapsInv, MapsTyped
  <2>2. resendCh' \in Seq(Surbs) /\ timers' \subseteq Surbs
    <3>1. CASE message[m].surb \in Surbs
      BY <1>1, <1>7, <3>1, EnqueueHolds DEF Again, ARQInv, Holders
    <3>2. CASE message[m].surb \notin Surbs
      BY <1>1, <1>7, <3>2 DEF Again, Enqueue, ARQInv, Holders, MapsInv, MapsTyped
    <3> QED BY <3>1, <3>2
  <2>3. MapsInv'
    BY <1>1, <1>7, AgainAgrees DEF ARQInv
  <2> QED BY <1>3, <2>2, <2>3 DEF ARQInv
<1>8. ASSUME Poll(m, armed) PROVE ARQInv'
  <2>1. CASE Tracked(m)
    <3>1. PICK s \in Surbs : Owner(s) = m /\ Rewire(m, s, FALSE) /\ timers' = armed \cup {s}
      BY <1>8, <2>1 DEF Poll, Fresh
    <3>2. MapsInv'
      BY <1>1, <3>1, RewireAgrees DEF ARQInv
    <3>3. Holders'
      BY <1>1, <1>3, <1>8, <3>1 DEF Poll, ARQInv, Holders
    <3> QED BY <3>2, <3>3 DEF ARQInv
  <2>2. CASE ~Tracked(m)
    BY <1>4, <1>8, <2>2 DEF Poll
  <2> QED BY <2>1, <2>2
<1> QED BY <1>4, <1>5, <1>6, <1>7, <1>8 DEF HandleARQReply

LEMMA HandleReplyStep ==
    ASSUME ARQInv, NEW r \in net, HandleReply(r)
    PROVE  ARQInv'
<1>1. r.m \in Messages
  BY DEF ARQInv, Holders
<1>2. ingress' \in {r, NoReply} /\ net' = net \ {r}
  BY DEF HandleReply
<1>3. Holders'
  BY <1>1, <1>2 DEF HandleReply, client, ARQInv, Holders
<1> QED BY <1>3, MapsStutter DEF HandleReply, ARQInv

LEMMA ARQStep == HashesDistinct /\ ARQInv /\ [Next]_vars => ARQInv'
<1> SUFFICES ASSUME HashesDistinct, ARQInv, [Next]_vars PROVE ARQInv'
  OBVIOUS
<1>1. CASE UNCHANGED vars
  <2>1. Holders'
    BY <1>1 DEF vars, ARQInv, Holders
  <2> QED BY <1>1, <2>1, MapsStutter DEF vars, maps, ARQInv
<1>2. CASE Next
  BY <1>2, ClientStep, EgressStep, WorldStep, HandleARQReplyStep, HandleReplyStep DEF Next, Ingress
<1> QED BY <1>1, <1>2

(* Between any two critical sections of the daemon the two maps and the messages agree, for
   every number of messages and IDs, under any loss and lateness of the network, if no two
   messages have the same EnvelopeHash (rotateARQSurbIDLocked, daemon.go:928). *)
THEOREM MapsAlwaysAgree ==
    ASSUME HashesDistinct
    PROVE  Spec => []MapsAgree
<1>1. ARQInv => MapsAgree
  BY DEF ARQInv, MapsInv
<1>2. HashesDistinct
  OBVIOUS
<1>3. ARQInv /\ [Next]_vars => ARQInv'
  BY <1>2, ARQStep
<1> QED BY <1>1, <1>3, ARQInit, PTL DEF Spec

(***************************************************************************)
(* What a reply says is true of the courier when it is sent and for good.  *)
(***************************************************************************)
Told  == {"error", "sent", "success", "cancelled"}
Final == {"stored", "exists", "data", "succeeded", "failed", "reply"}

ReplyIsTrue(n) ==
    /\ n.what \in Final => courier[n.m] = "done"
    /\ n.what = "ack" => courier[n.m] # "new"

IsPacket(n) == n = [m |-> n.m, surb |-> n.surb, what |-> n.what]

(* Everybody who holds a message holds one; for this no two hashes need differ. *)
Names ==
    /\ requests \in Seq(Messages) /\ resendCh \in Seq(Surbs) /\ arqSurbIDMap \subseteq Surbs
    /\ egress.pc # "idle" => egress.m \in Messages
    /\ \A n \in net : n.m \in Messages /\ IsPacket(n)
    /\ ingress # NoReply => ingress.m \in Messages

Truth ==
    /\ courier \in [Messages -> {"new", "accepted", "done"}]
    /\ \A m \in Messages : Kind[m] = "plain" => courier[m] # "accepted"
    /\ \A n \in net : ReplyIsTrue(n) /\ (Kind[n.m] = "plain" => n.what \in {"query", "reply"})
    /\ ingress # NoReply => ReplyIsTrue(ingress)
    /\ \A m \in replies : m \in Messages /\ Kind[m] = "plain"
    /\ egress.pc = "record" => Kind[egress.m] = "plain"
    /\ answers \in [Messages -> SUBSET Told]
    /\ SuccessIsTrue

SuccessInv == Names /\ Truth

(* The courier has done what a success means. *)
Reached(m) == courier[m] = "done" \/ (Kind[m] = "write" /\ courier[m] = "accepted")

LEMMA TellsTrue ==
    ASSUME answers \in [Messages -> SUBSET Told], SuccessIsTrue, courier' = courier,
           NEW m \in Messages, NEW outcome \in Told, outcome = "success" => Reached(m),
           Tell(m, outcome)
    PROVE  answers' \in [Messages -> SUBSET Told] /\ SuccessIsTrue'
<1>1. answers' = [answers EXCEPT ![m] = IF conn = "up" THEN @ \cup {outcome} ELSE @]
  BY DEF Tell
<1>2. answers' \in [Messages -> SUBSET Told]
  BY <1>1
<1>3. ASSUME NEW n \in Messages, "success" \in answers'[n] PROVE Reached(n)
  <2>1. CASE "success" \in answers[n]
    BY <2>1 DEF SuccessIsTrue, Reached
  <2>2. CASE "success" \notin answers[n]
    <3>1. n = m /\ outcome = "success"
      BY <1>1, <1>3, <2>2
    <3> QED BY <3>1
  <2> QED BY <2>1, <2>2
<1> QED BY <1>2, <1>3 DEF SuccessIsTrue, Reached

(* Most steps tell nobody anything and move no reply. *)
LEMMA TruthStays ==
    ASSUME Truth, UNCHANGED <<net, courier, ingress, replies, answers>>,
           egress'.pc = "record" => egress' = egress
    PROVE  Truth'
<1>1. /\ courier' = courier /\ net' = net /\ ingress' = ingress /\ replies' = replies
      /\ answers' = answers
  OBVIOUS
<1>2. \A n : ReplyIsTrue(n) => ReplyIsTrue(n)'
  BY <1>1 DEF ReplyIsTrue
<1>3. SuccessIsTrue'
  BY <1>1 DEF Truth, SuccessIsTrue
<1>4. egress'.pc = "record" => Kind[egress'.m] = "plain"
  BY DEF Truth
<1>5. ingress' # NoReply => ReplyIsTrue(ingress)'
  BY <1>1, <1>2 DEF Truth
<1>6. \A n \in net' : ReplyIsTrue(n)' /\ (Kind[n.m] = "plain" => n.what \in {"query", "reply"})
  BY <1>1, <1>2 DEF Truth
<1> QED BY <1>1, <1>3, <1>4, <1>5, <1>6 DEF Truth

LEMMA EnqueueNames ==
    ASSUME resendCh \in Seq(Surbs), arqSurbIDMap \subseteq Surbs, NEW s, NEW armed,
           Enqueue(s, armed)
    PROVE  resendCh' \in Seq(Surbs)
BY DEF Enqueue

(* The egress worker: Pick gives it a message, whose packet it registers and sends. *)
LEMMA EgressNames ==
    ASSUME Names, Egress
    PROVE  Names'
<1>1. ASSUME Pick PROVE Names'
  <2>1. CASE resendCh # <<>> /\ egress' = [pc |-> "resend", m |-> Owner(Head(resendCh)),
                                           surb |-> Head(resendCh)]
               /\ resendCh' = Tail(resendCh) /\ UNCHANGED requests
    <3>1. Head(resendCh) \in Surbs /\ Tail(resendCh) \in Seq(Surbs)
      BY <2>1 DEF Names
    <3>2. egress'.m \in Messages /\ resendCh' \in Seq(Surbs) /\ requests' = requests
      BY <2>1, <3>1, OwnerIsMessage
    <3> QED BY <1>1, <3>2 DEF Pick, maps, Names
  <2>2. CASE requests # <<>> /\ egress' = [pc |-> "start", m |-> Head(requests), surb |-> None]
               /\ requests' = Tail(requests) /\ UNCHANGED resendCh
    <3>1. Head(requests) \in Messages /\ Tail(requests) \in Seq(Messages)
      BY <2>2 DEF Names
    <3>2. egress'.m \in Messages /\ requests' \in Seq(Messages) /\ resendCh' = resendCh
      BY <2>2, <3>1
    <3> QED BY <1>1, <3>2 DEF Pick, maps, Names
  <2> QED BY <1>1, <2>1, <2>2 DEF Pick
<1>2. ASSUME NEW m, NEW s \in Surbs, NEW key, Rewire(m, s, key) PROVE arqSurbIDMap' \subseteq Surbs
  BY <1>2 DEF Rewire, Names
<1>3. ASSUME Start PROVE Names'
  <2>1. egress.m \in Messages /\ (egress'.pc # "idle" => egress'.m \in Messages)
    <3>1. egress.m \in Messages
      BY <1>3 DEF Start, Names
    <3>2. \/ egress' = Idle
          \/ \E s \in Surbs : egress' = [pc |-> "push", m |-> egress.m, surb |-> s]
      BY <1>3 DEF Start
    <3> QED BY <3>1, <3>2 DEF Idle
  <2>2. arqSurbIDMap' \subseteq Surbs
    BY <1>2, <1>3 DEF Start, maps, Names
  <2> QED BY <1>3, <2>1, <2>2 DEF Start, client, Names
<1>4. ASSUME Resend PROVE Names'
  <2>1. egress.m \in Messages /\ (egress'.pc # "idle" => egress'.m \in Messages)
    <3>1. egress.m \in Messages
      BY <1>4 DEF Resend, Names
    <3>2. \/ egress' = Idle
          \/ \E s \in Surbs : egress' = [pc |-> "push", m |-> egress.m, surb |-> s]
          \/ egress' = [pc |-> "reschedule", m |-> egress.m, surb |-> egress.surb]
      BY <1>4 DEF Resend
    <3> QED BY <3>1, <3>2 DEF Idle
  <2>2. arqSurbIDMap' \subseteq Surbs
    BY <1>2, <1>4 DEF Resend, Forget, maps, Names
  <2> QED BY <1>4, <2>1, <2>2 DEF Resend, client, Names
<1>5. ASSUME Reschedule PROVE Names'
  <2>1. arqSurbIDMap' \subseteq Surbs
    BY <1>2, <1>5 DEF Reschedule
  <2> QED BY <1>5, <2>1 DEF Reschedule, client, Idle, Names
<1>6. ASSUME Push PROVE Names'
  <2>1. egress.m \in Messages
    BY <1>6 DEF Push, Names
  <2>2. \A n \in net' : n.m \in Messages /\ IsPacket(n)
    BY <1>6, <2>1 DEF Push, Names, IsPacket
  <2> QED BY <1>6, <2>2 DEF Push, client, maps, Idle, Names
<1>7. ASSUME SendPlain PROVE Names'
  <2>1. egress.m \in Messages /\ egress'.m = egress.m
    BY <1>7 DEF SendPlain, Names
  <2>2. \A n \in net' : n.m \in Messages /\ IsPacket(n)
    BY <1>7, <2>1 DEF SendPlain, Names, IsPacket
  <2> QED BY <1>7, <2>1, <2>2 DEF SendPlain, client, maps, Names
<1>8. ASSUME Record PROVE Names'
  BY <1>8 DEF Record, client, maps, Idle, Names
<1> QED BY <1>1, <1>3, <1>4, <1>5, <1>6, <1>7, <1>8 DEF Egress

(* Nobody else can hold anything but a message. *)
LEMMA OtherNames ==
    ASSUME Names, Next, ~Egress
    PROVE  Names'
<1>1. ASSUME NEW m \in Messages, Request(m) PROVE Names'
  BY <1>1 DEF Request, maps, Names
<1>2. ASSUME NEW m \in Messages, Cancel(m) PROVE Names'
  BY <1>2 DEF Cancel, Names
<1>3. ASSUME NEW m \in Messages, Collect(m) PROVE Names'
  BY <1>3 DEF Collect, client, maps, Names
<1>4. ASSUME Disconnect \/ Resume \/ Cleanup PROVE Names'
  <2>1. CASE Disconnect
    BY <2>1 DEF Disconnect, maps, Names
  <2>2. CASE Resume
    BY <2>2 DEF Resume, maps, Names
  <2>3. CASE Cleanup
    BY <2>3 DEF Cleanup, Names
  <2> QED BY <1>4, <2>1, <2>2, <2>3
<1>5. ASSUME NEW s, TimerFires(s) PROVE Names'
  BY <1>5 DEF TimerFires, client, maps, Names
<1>6. ASSUME NEW s, EnqueueResend(s) PROVE Names'
  <2>1. resendCh' \in Seq(Surbs)
    BY <1>6, EnqueueNames DEF EnqueueResend, Names
  <2> QED BY <1>6, <2>1 DEF EnqueueResend, client, maps, Names
<1>7. ASSUME NEW q \in net, Courier(q) PROVE Names'
  <2>1. PICK what : net' = (net \ {q}) \cup {[q EXCEPT !.what = what]}
    BY <1>7 DEF Courier
  <2>2. [q EXCEPT !.what = what] = [m |-> q.m, surb |-> q.surb, what |-> what]
    BY DEF Names, IsPacket
  <2>3. \A n \in net' : n.m \in Messages /\ IsPacket(n)
    BY <2>1, <2>2 DEF Names, IsPacket
  <2> QED BY <1>7, <2>3 DEF Courier, client, maps, Names
<1>8. ASSUME NEW n \in net, Lose(n) PROVE Names'
  BY <1>8 DEF Lose, client, maps, Names
<1>9. ASSUME NEW r \in net, HandleReply(r) PROVE Names'
  BY <1>9 DEF HandleReply, client, maps, Names
<1>10. ASSUME HandleARQReply PROVE Names'
  <2> DEFINE m     == ingress.m
             armed == timers \ {message[m].surb}
  <2>1. /\ ingress' = NoReply /\ UNCHANGED <<requests, egress, net>>
    BY <1>10 DEF HandleARQReply, client
  <2>2. resendCh' \in Seq(Surbs) /\ arqSurbIDMap' \subseteq Surbs
    <3>1. CASE UNCHANGED <<maps, resendCh>>
      BY <3>1 DEF maps, Names
    <3>2. CASE Forget(m) /\ UNCHANGED resendCh
      BY <3>2 DEF Forget, Names
    <3>3. ASSUME NEW outcome, Finish(m, outcome, armed)
          PROVE  resendCh' \in Seq(Surbs) /\ arqSurbIDMap' \subseteq Surbs
      BY <3>3 DEF Finish, Forget, Names
    <3>4. ASSUME NEW state, Again(m, state, armed)
          PROVE  resendCh' \in Seq(Surbs) /\ arqSurbIDMap' \subseteq Surbs
      BY <3>4, EnqueueNames DEF Again, Names
    <3>5. CASE Poll(m, armed)
      BY <3>5 DEF Poll, Rewire, maps, Names
    <3> HIDE DEF m, armed
    <3> QED BY <1>10, <3>1, <3>2, <3>3, <3>4, <3>5 DEF HandleARQReply, m, armed
  <2> QED BY <2>1, <2>2 DEF Names
<1> QED BY <1>1, <1>2, <1>3, <1>4, <1>5, <1>6, <1>7, <1>8, <1>9, <1>10
        DEF Next, Ingress, Timer, World

LEMMA SuccessInit == Init => SuccessInv
<1> SUFFICES ASSUME Init PROVE SuccessInv
  OBVIOUS
<1>1. Names
  BY DEF Init, Names, Idle
<1>2. Truth
  <2>1. SuccessIsTrue
    BY DEF Init, SuccessIsTrue
  <2>2. answers \in [Messages -> SUBSET Told]
    BY DEF Init
  <2>3. courier \in [Messages -> {"new", "accepted", "done"}]
        /\ \A m \in Messages : courier[m] = "new"
    BY DEF Init
  <2> QED BY <2>1, <2>2, <2>3 DEF Init, Truth, Idle
<1> QED BY <1>1, <1>2 DEF SuccessInv

(* A step that only tells the thin client something. *)
LEMMA TruthIsTold ==
    ASSUME Truth, UNCHANGED <<net, courier, ingress>>,
           \A m \in replies' : m \in Messages /\ Kind[m] = "plain",
           egress'.pc = "record" => egress' = egress,
           NEW m \in Messages, NEW outcome \in Told, outcome = "success" => Reached(m),
           Tell(m, outcome)
    PROVE  Truth'
<1>1. courier' = courier /\ net' = net /\ ingress' = ingress
  OBVIOUS
<1>2. \A n : ReplyIsTrue(n) => ReplyIsTrue(n)'
  BY <1>1 DEF ReplyIsTrue
<1>3. answers' \in [Messages -> SUBSET Told] /\ SuccessIsTrue'
  BY <1>1, TellsTrue DEF Truth
<1>4. egress'.pc = "record" => Kind[egress'.m] = "plain"
  BY DEF Truth
<1>5. ingress' # NoReply => ReplyIsTrue(ingress)'
  BY <1>1, <1>2 DEF Truth
<1>6. \A n \in net' : ReplyIsTrue(n)' /\ (Kind[n.m] = "plain" => n.what \in {"query", "reply"})
  BY <1>1, <1>2 DEF Truth
<1> QED BY <1>1, <1>3, <1>4, <1>5, <1>6 DEF Truth

LEMMA EgressIsTrue ==
    ASSUME SuccessInv, Egress
    PROVE  Truth'
<1> USE DEF SuccessInv
<1>1. ASSUME Pick PROVE Truth'
  BY <1>1, TruthStays DEF Pick
<1>2. ASSUME Start PROVE Truth'
  <2>1. egress.m \in Messages
    BY <1>2 DEF Start, Names
  <2>2. egress'.pc # "record"
    <3>1. \/ egress' = Idle
          \/ \E s \in Surbs : egress' = [pc |-> "push", m |-> egress.m, surb |-> s]
      BY <1>2 DEF Start
    <3> QED BY <3>1 DEF Idle
  <2>3. CASE UNCHANGED answers
    BY <1>2, <2>2, <2>3, TruthStays DEF Start
  <2>4. CASE Tell(egress.m, "error")
    <3>1. UNCHANGED <<net, courier, ingress>> /\ replies' = replies
      BY <1>2 DEF Start
    <3>2. "error" \in Told
      BY DEF Told
    <3>3. \A n \in replies' : n \in Messages /\ Kind[n] = "plain"
      BY <3>1 DEF Truth
    <3> QED BY <2>1, <2>2, <2>4, <3>1, <3>2, <3>3, TruthIsTold
  <2> QED BY <1>2, <2>3, <2>4 DEF Start
<1>3. ASSUME Resend PROVE Truth'
  <2>1. egress'.pc # "record"
    <3>1. \/ egress' = Idle
          \/ \E s \in Surbs : egress' = [pc |-> "push", m |-> egress.m, surb |-> s]
          \/ egress' = [pc |-> "reschedule", m |-> egress.m, surb |-> egress.surb]
      BY <1>3 DEF Resend
    <3> QED BY <3>1 DEF Idle
  <2> QED BY <1>3, <2>1, TruthStays DEF Resend
<1>4. ASSUME Reschedule PROVE Truth'
  BY <1>4, TruthStays DEF Reschedule, Idle
<1>5. ASSUME Push PROVE Truth'
  <2>1. /\ net' = net \cup {[m |-> egress.m, surb |-> egress.surb, what |-> "query"]}
        /\ egress' = Idle
        /\ UNCHANGED <<courier, ingress, replies, answers>>
    BY <1>5 DEF Push
  <2>2. \A n : ReplyIsTrue(n) => ReplyIsTrue(n)'
    BY <2>1 DEF ReplyIsTrue
  <2>3. \A n \in net' : ReplyIsTrue(n)' /\ (Kind[n.m] = "plain" => n.what \in {"query", "reply"})
    BY <2>1, <2>2 DEF Truth, ReplyIsTrue, Final
  <2>4. SuccessIsTrue'
    BY <2>1 DEF Truth, SuccessIsTrue
  <2>5. ingress' # NoReply => ReplyIsTrue(ingress)'
    BY <2>1, <2>2 DEF Truth
  <2> QED BY <2>1, <2>3, <2>4, <2>5 DEF Truth, Idle
<1>6. ASSUME SendPlain PROVE Truth'
  <2>1. /\ \/ net' = net \cup {[m |-> egress.m, surb |-> <<egress.m, 1>>, what |-> "query"]}
           \/ net' = net
        /\ egress'.m = egress.m /\ Kind[egress.m] = "plain"
        /\ UNCHANGED <<courier, ingress, replies, answers>>
    BY <1>6 DEF SendPlain
  <2>2. \A n : ReplyIsTrue(n) => ReplyIsTrue(n)'
    BY <2>1 DEF ReplyIsTrue
  <2>3. \A n \in net' : ReplyIsTrue(n)' /\ (Kind[n.m] = "plain" => n.what \in {"query", "reply"})
    BY <2>1, <2>2 DEF Truth, ReplyIsTrue, Final
  <2>4. SuccessIsTrue'
    BY <2>1 DEF Truth, SuccessIsTrue
  <2>5. ingress' # NoReply => ReplyIsTrue(ingress)'
    BY <2>1, <2>2 DEF Truth
  <2> QED BY <2>1, <2>3, <2>4, <2>5 DEF Truth
<1>7. ASSUME Record PROVE Truth'
  <2>1. egress.m \in Messages /\ Kind[egress.m] = "plain"
    BY <1>7 DEF Record, Names, Truth
  <2>2. /\ UNCHANGED <<net, courier, ingress>> /\ replies' = replies \cup {egress.m}
        /\ egress'.pc # "record" /\ Tell(egress.m, "sent")
    BY <1>7 DEF Record, Idle
  <2>3. \A n \in replies' : n \in Messages /\ Kind[n] = "plain"
    BY <2>1, <2>2 DEF Truth
  <2>4. "sent" \in Told
    BY DEF Told
  <2> QED BY <2>1, <2>2, <2>3, <2>4, TruthIsTold
<1> QED BY <1>1, <1>2, <1>3, <1>4, <1>5, <1>6, <1>7 DEF Egress

(* The courier answers a query and has then done what its reply says; what it has done it
   has done for good. *)
LEMMA CourierIsTrue ==
    ASSUME SuccessInv, NEW q \in net, Courier(q)
    PROVE  Truth'
<1> USE DEF SuccessInv
<1>1. q.m \in Messages
  BY DEF Names
<1>2. PICK what :
          /\ net' = (net \ {q}) \cup {[q EXCEPT !.what = what]}
          /\ \/ /\ courier[q.m] = "new" /\ what \in First(q.m)
                /\ courier' = [courier EXCEPT ![q.m] = IF what = "reply" THEN "done" ELSE "accepted"]
             \/ /\ courier[q.m] = "new" /\ what = "refused" /\ Kind[q.m] # "plain"
                /\ courier' = courier
             \/ /\ courier[q.m] = "accepted" /\ what \in Waits(q.m)
                /\ courier' = courier
             \/ /\ courier[q.m] # "new" /\ what \in Outcomes(q.m)
                /\ courier' = [courier EXCEPT ![q.m] = "done"]
  BY DEF Courier
<1>3. UNCHANGED <<ingress, replies, answers, egress>>
  BY DEF Courier
<1>4. Kind[q.m] \in {"read", "write", "strict", "copy", "plain"}
  BY <1>1, ARQAssumption
<1>5. Kind[q.m] = "plain" => courier[q.m] # "accepted"
  BY <1>1 DEF Truth
<1>6. /\ courier'[q.m] \in {"new", "accepted", "done"}
      /\ Kind[q.m] = "plain" => courier'[q.m] # "accepted" /\ what \in {"query", "reply"}
      /\ what \in Final => courier'[q.m] = "done"
      /\ what = "ack" => courier'[q.m] # "new"
      /\ courier[q.m] # "new" => courier'[q.m] # "new"
      /\ courier[q.m] = "done" => courier'[q.m] = "done"
      /\ \A n \in Messages \ {q.m} : courier'[n] = courier[n]
      /\ courier' \in [Messages -> {"new", "accepted", "done"}]
  <2>1. CASE /\ courier[q.m] = "new" /\ what \in First(q.m)
             /\ courier' = [courier EXCEPT ![q.m] = IF what = "reply" THEN "done" ELSE "accepted"]
    BY <1>1, <1>4, <2>1 DEF First, Final, Truth
  <2>2. CASE /\ courier[q.m] = "new" /\ what = "refused" /\ Kind[q.m] # "plain"
             /\ courier' = courier
    BY <1>1, <2>2 DEF Final, Truth
  <2>3. CASE /\ courier[q.m] = "accepted" /\ what \in Waits(q.m) /\ courier' = courier
    BY <1>1, <1>4, <1>5, <2>3 DEF Waits, Final, Truth
  <2>4. CASE /\ courier[q.m] # "new" /\ what \in Outcomes(q.m)
             /\ courier' = [courier EXCEPT ![q.m] = "done"]
    BY <1>1, <1>4, <2>4 DEF Outcomes, Final, Truth
  <2> QED BY <1>2, <2>1, <2>2, <2>3, <2>4
<1>7. \A n : n.m \in Messages /\ ReplyIsTrue(n) => ReplyIsTrue(n)'
  BY <1>6 DEF ReplyIsTrue
<1>8. ASSUME NEW n \in net'
      PROVE  ReplyIsTrue(n)' /\ (Kind[n.m] = "plain" => n.what \in {"query", "reply"})
  <2>1. CASE n \in net
    BY <2>1, <1>7 DEF Names, Truth
  <2>2. CASE n = [q EXCEPT !.what = what]
    <3>1. n.m = q.m /\ n.what = what
      BY <2>2 DEF Names, IsPacket
    <3> QED BY <3>1, <1>6 DEF ReplyIsTrue
  <2> QED BY <1>2, <2>1, <2>2
<1>9. SuccessIsTrue'
  BY <1>3, <1>6 DEF Truth, SuccessIsTrue
<1>10. ingress' # NoReply => ReplyIsTrue(ingress)'
  BY <1>3, <1>7 DEF Names, Truth
<1>11. \A m \in Messages : Kind[m] = "plain" => courier'[m] # "accepted"
  BY <1>6 DEF Truth
<1> QED BY <1>3, <1>6, <1>8, <1>9, <1>10, <1>11 DEF Truth

(* A plain message is answered by its service, and this is success. *)
LEMMA HandleReplyIsTrue ==
    ASSUME SuccessInv, NEW r \in net, HandleReply(r)
    PROVE  Truth'
<1> USE DEF SuccessInv
<1>1. /\ courier' = courier /\ egress' = egress /\ net' = net \ {r}
      /\ ingress' \in {r, NoReply} /\ replies' = replies \ {r.m} /\ r.what # "query"
      /\ answers' = IF r.m \in replies /\ conn # "gone"
                    THEN [answers EXCEPT ![r.m] = @ \cup {"success"}] ELSE answers
  BY DEF HandleReply
<1>2. r.m \in Messages /\ ReplyIsTrue(r)
  BY DEF Names, Truth
<1>3. \A n : ReplyIsTrue(n) => ReplyIsTrue(n)'
  BY <1>1 DEF ReplyIsTrue
<1>4. r.m \in replies => Reached(r.m)
  BY <1>1, <1>2 DEF Truth, ReplyIsTrue, Final, Reached
<1>5. answers' \in [Messages -> SUBSET Told]
  BY <1>1, <1>2 DEF Truth, Told
<1>6. ASSUME NEW n \in Messages, "success" \in answers'[n] PROVE Reached(n)
  <2>1. CASE "success" \in answers[n]
    BY <2>1 DEF Truth, SuccessIsTrue, Reached
  <2>2. CASE "success" \notin answers[n]
    <3>1. n = r.m /\ r.m \in replies
      BY <1>1, <1>2, <1>6, <2>2 DEF Truth
    <3> QED BY <3>1, <1>4
  <2> QED BY <2>1, <2>2
<1>7. SuccessIsTrue'
  BY <1>1, <1>6 DEF SuccessIsTrue, Reached
<1>8. ingress' # NoReply => ReplyIsTrue(ingress)'
  BY <1>1, <1>2, <1>3
<1>9. \A n \in net' : ReplyIsTrue(n)' /\ (Kind[n.m] = "plain" => n.what \in {"query", "reply"})
  BY <1>1, <1>3 DEF Truth
<1> QED BY <1>1, <1>5, <1>7, <1>8, <1>9 DEF Truth

(* A reply finishes its message with success when it is the outcome itself, or the courier's
   confirmation of a write that may find the box written. *)
LEMMA HandleARQReplyIsTrue ==
    ASSUME SuccessInv, HandleARQReply
    PROVE  Truth'
<1> USE DEF SuccessInv
<1> DEFINE m     == ingress.m
           what  == ingress.what
           armed == timers \ {message[m].surb}
<1>1. /\ ingress # NoReply /\ ingress' = NoReply
      /\ UNCHANGED <<egress, replies, net, courier>>
  BY DEF HandleARQReply
<1>2. m \in Messages /\ ReplyIsTrue(ingress)
  BY <1>1 DEF Names, Truth
<1>3. ASSUME answers' \in [Messages -> SUBSET Told] /\ SuccessIsTrue' PROVE Truth'
  <2>1. \A n : ReplyIsTrue(n) => ReplyIsTrue(n)'
    BY <1>1 DEF ReplyIsTrue
  <2>2. \A n \in net' : ReplyIsTrue(n)' /\ (Kind[n.m] = "plain" => n.what \in {"query", "reply"})
    BY <1>1, <2>1 DEF Truth
  <2> QED BY <1>1, <1>3, <2>2 DEF Truth
<1>4. CASE UNCHANGED answers
  <2>1. SuccessIsTrue'
    BY <1>1, <1>4 DEF Truth, SuccessIsTrue
  <2> QED BY <1>3, <1>4, <2>1 DEF Truth
<1>5. ASSUME NEW outcome \in Told, outcome = "success" => Reached(m), Finish(m, outcome, armed)
      PROVE  Truth'
  <2>1. Tell(m, outcome)
    BY <1>5 DEF Finish
  <2> QED BY <1>1, <1>2, <1>3, <1>5, <2>1, TellsTrue DEF Truth
<1>6. CASE what \in {"succeeded", "failed", "refused"} /\ Finish(m, Outcome(m, what), armed)
  <2>1. Outcome(m, what) \in Told /\ (Outcome(m, what) = "success" => what = "succeeded")
    BY <1>6 DEF Outcome, Told
  <2>2. what = "succeeded" => Reached(m)
    BY <1>2 DEF ReplyIsTrue, Final, Reached
  <2> QED BY <1>5, <1>6, <2>1, <2>2
<1>7. CASE Transition(m, what) = "complete" /\ Finish(m, "success", armed)
  <2>1. what = "ack" /\ Kind[m] = "write"
    BY <1>7 DEF Transition
  <2>2. courier[m] \in {"new", "accepted", "done"} /\ courier[m] # "new"
    BY <1>2, <2>1 DEF ReplyIsTrue, Truth
  <2>3. Reached(m) /\ "success" \in Told
    BY <2>1, <2>2 DEF Reached, Told
  <2> QED BY <1>5, <1>7, <2>3
<1>8. CASE /\ what \in {"ack", "missing", "stored", "exists", "data"} /\ what # "missing"
           /\ Transition(m, what) = "payload" /\ Finish(m, Outcome(m, what), armed)
  <2>1. what \in {"stored", "exists", "data"}
    BY <1>8 DEF Transition
  <2>2. Outcome(m, what) \in Told
    BY DEF Outcome, Told
  <2>3. Reached(m)
    BY <1>2, <2>1 DEF ReplyIsTrue, Final, Reached
  <2> QED BY <1>5, <1>8, <2>2, <2>3
<1>9. \/ UNCHANGED answers
      \/ what \in {"succeeded", "failed", "refused"} /\ Finish(m, Outcome(m, what), armed)
      \/ Transition(m, what) = "complete" /\ Finish(m, "success", armed)
      \/ /\ what \in {"ack", "missing", "stored", "exists", "data"} /\ what # "missing"
         /\ Transition(m, what) = "payload" /\ Finish(m, Outcome(m, what), armed)
  BY DEF HandleARQReply, Poll, Again
<1> QED BY <1>4, <1>6, <1>7, <1>8, <1>9

LEMMA SuccessStep == SuccessInv /\ [Next]_vars => SuccessInv'
<1> SUFFICES ASSUME SuccessInv, [Next]_vars PROVE SuccessInv'
  OBVIOUS
<1> USE DEF SuccessInv
<1>1. CASE UNCHANGED vars
  <2>1. Truth'
    BY <1>1, TruthStays DEF vars
  <2>2. Names'
    BY <1>1 DEF vars, Names
  <2> QED BY <2>1, <2>2
<1>2. CASE Next
  <2>1. Names'
    BY <1>2, EgressNames, OtherNames
  <2>2. CASE Egress
    BY <2>1, <2>2, EgressIsTrue
  <2>3. ASSUME NEW m \in Messages, Request(m) PROVE Truth'
    BY <2>3, TruthStays DEF Request
  <2>4. ASSUME NEW m \in Messages, Cancel(m) PROVE Truth'
    <3> DEFINE s == arqEnvelopeHashMap[Hash[m]]
    <3>1. /\ answers' = IF s \in arqSurbIDMap
                        THEN [answers EXCEPT ![Owner(s)] = @ \cup {"cancelled"}] ELSE answers
          /\ UNCHANGED <<egress, net, courier, ingress, replies>>
      BY <2>4 DEF Cancel
    <3>2. s \in arqSurbIDMap => Owner(s) \in Messages
      BY OwnerIsMessage DEF Names
    <3>3. answers' \in [Messages -> SUBSET Told]
      BY <3>1, <3>2 DEF Truth, Told
    <3>4. SuccessIsTrue'
      BY <3>1, <3>2 DEF Truth, SuccessIsTrue
    <3>5. \A n : ReplyIsTrue(n) => ReplyIsTrue(n)'
      BY <3>1 DEF ReplyIsTrue
    <3>6. \A n \in net' : ReplyIsTrue(n)' /\ (Kind[n.m] = "plain" => n.what \in {"query", "reply"})
      BY <3>1, <3>5 DEF Truth
    <3>7. ingress' # NoReply => ReplyIsTrue(ingress)'
      BY <3>1, <3>5 DEF Truth
    <3> QED BY <3>1, <3>3, <3>4, <3>6, <3>7 DEF Truth
  <2>5. ASSUME NEW m \in Messages, Collect(m) PROVE Truth'
    <3>1. replies' \subseteq replies /\ UNCHANGED <<egress, net, courier, ingress, answers>>
      BY <2>5 DEF Collect
    <3>2. \A n : ReplyIsTrue(n) => ReplyIsTrue(n)'
      BY <3>1 DEF ReplyIsTrue
    <3>3. SuccessIsTrue'
      BY <3>1 DEF Truth, SuccessIsTrue
    <3> QED BY <3>1, <3>2, <3>3 DEF Truth
  <2>6. CASE Disconnect \/ Resume
    <3>1. UNCHANGED <<net, courier, ingress, replies, answers>> /\ egress' = egress
      BY <2>6 DEF Disconnect, Resume
    <3> QED BY <2>1, <3>1, TruthStays
  <2>7. CASE Cleanup
    <3>1. replies' \subseteq replies /\ UNCHANGED <<egress, net, courier, ingress, answers>>
      BY <2>7 DEF Cleanup
    <3>2. \A n : ReplyIsTrue(n) => ReplyIsTrue(n)'
      BY <3>1 DEF ReplyIsTrue
    <3>3. SuccessIsTrue'
      BY <3>1 DEF Truth, SuccessIsTrue
    <3>4. \A n \in net' : ReplyIsTrue(n)' /\ (Kind[n.m] = "plain" => n.what \in {"query", "reply"})
      BY <3>1, <3>2 DEF Truth
    <3>5. ingress' # NoReply => ReplyIsTrue(ingress)'
      BY <3>1, <3>2 DEF Truth
    <3> QED BY <2>1, <3>1, <3>3, <3>4, <3>5 DEF Truth
  <2>8. ASSUME NEW s, TimerFires(s) \/ EnqueueResend(s) PROVE Truth'
    BY <2>8, TruthStays DEF TimerFires, EnqueueResend
  <2>9. ASSUME NEW n \in net, Lose(n) PROVE Truth'
    <3>1. net' \subseteq net /\ UNCHANGED <<egress, courier, ingress, replies, answers>>
      BY <2>9 DEF Lose
    <3>2. \A k : ReplyIsTrue(k) => ReplyIsTrue(k)'
      BY <3>1 DEF ReplyIsTrue
    <3>3. SuccessIsTrue'
      BY <3>1 DEF Truth, SuccessIsTrue
    <3>4. \A k \in net' : ReplyIsTrue(k)' /\ (Kind[k.m] = "plain" => k.what \in {"query", "reply"})
      BY <3>1, <3>2 DEF Truth
    <3>5. ingress' # NoReply => ReplyIsTrue(ingress)'
      BY <3>1, <3>2 DEF Truth
    <3> QED BY <3>1, <3>3, <3>4, <3>5 DEF Truth
  <2> QED BY <1>2, <2>1, <2>2, <2>3, <2>4, <2>5, <2>6, <2>7, <2>8, <2>9, CourierIsTrue,
             HandleReplyIsTrue, HandleARQReplyIsTrue DEF Next, Ingress, Timer, World
<1> QED BY <1>1, <1>2

(* Whatever is lost, late, sent again or answered twice, the thin client is told of a success
   only when the courier has reached what the kind of its message calls a success
   (computeARQStateTransition, arq.go:66). *)
THEOREM SuccessesAreTrue == Spec => []SuccessIsTrue
<1>1. SuccessInv => SuccessIsTrue
  BY DEF SuccessInv, Truth
<1> QED BY <1>1, SuccessInit, SuccessStep, PTL DEF Spec

(***************************************************************************)
(* What keeps a cancelled message out of the map.  A message is put there  *)
(* by its request, once, and afterwards only by those who find it there;   *)
(* except for one that puts it back whatever has happened meanwhile, after *)
(* a packet that could not be composed (daemon.go:822).                   *)
(***************************************************************************)
NoFailureMeetsCancel == \A sc \in Scenarios : sc.fails = 0 \/ sc.cancels = 0

NotStarted(m) ==
    \/ m \notin asked
    \/ \E i \in DOMAIN requests : requests[i] = m
    \/ egress.pc = "start" /\ egress.m = m

(* A message is requested once. *)
AskedOnce ==
    /\ \A i \in DOMAIN requests : requests[i] \in asked
    /\ \A i, j \in DOMAIN requests : requests[i] = requests[j] => i = j
    /\ egress.pc = "start" =>
          egress.m \in asked /\ \A i \in DOMAIN requests : requests[i] # egress.m

(* Until its request is started nobody has heard of it. *)
Unheard ==
    \A m \in Messages : NotStarted(m) => message[m].surb = None /\ "cancelled" \notin answers[m]

Resent ==
    /\ egress.pc = "resend" => egress.surb \in Surbs /\ Owner(egress.surb) = egress.m
    /\ egress.pc = "reschedule" => message[egress.m].surb # None

Shielded ==
    \/ left.fails = 0 /\ egress.pc # "reschedule"
    \/ left.cancels = 0 /\ \A m \in Messages : "cancelled" \notin answers[m]

CancelInv ==
    /\ left \in Budgets /\ answers \in [Messages -> SUBSET Told]
    /\ AskedOnce /\ Unheard /\ Resent /\ Shielded /\ StaysCancelled

CancelARQInv == ARQInv /\ CancelInv

LEMMA CancelInit ==
    ASSUME NoFailureMeetsCancel, Init
    PROVE  CancelInv
<1>1. left \in Budgets /\ (left.fails = 0 \/ left.cancels = 0)
  BY ARQAssumption DEF Init, NoFailureMeetsCancel
<1>2. answers \in [Messages -> SUBSET Told] /\ \A m \in Messages : answers[m] = {}
  BY DEF Init
<1>3. egress.pc = "idle" /\ requests = <<>> /\ arqSurbIDMap = {}
  BY DEF Init, Idle
<1>4. \A m \in Messages : message[m].surb = None
  BY DEF Init
<1>5. AskedOnce /\ Unheard
  BY <1>2, <1>3, <1>4 DEF AskedOnce, Unheard
<1>6. Resent /\ Shielded /\ StaysCancelled
  BY <1>1, <1>2, <1>3 DEF Resent, Shielded, StaysCancelled
<1> QED BY <1>1, <1>2, <1>5, <1>6 DEF CancelInv

(* What a step may do to the invariant that cancels nothing. *)
LEMMA CancelKept ==
    ASSUME CancelARQInv, left' \in Budgets, left'.cancels = left.cancels,
           left.fails = 0 => left'.fails = 0,
           egress'.pc = "reschedule" => egress.pc = "reschedule" \/ left.fails # 0,
           AskedOnce', Resent',
           \A m \in Messages : NotStarted(m)' => NotStarted(m) /\ message'[m].surb = message[m].surb,
           answers' \in [Messages -> SUBSET Told],
           \A m \in Messages : "cancelled" \in answers'[m] => "cancelled" \in answers[m],
           arqSurbIDMap' \subseteq Surbs,
           \A s \in arqSurbIDMap' : s \in arqSurbIDMap \/ "cancelled" \notin answers[Owner(s)]
    PROVE  CancelInv'
<1>1. Unheard'
  BY DEF CancelARQInv, CancelInv, Unheard
<1>2. Shielded'
  BY DEF CancelARQInv, CancelInv, Shielded
<1>3. StaysCancelled'
  BY OwnerIsMessage DEF CancelARQInv, CancelInv, StaysCancelled
<1> QED BY <1>1, <1>2, <1>3 DEF CancelInv

(* A budget that is spent touches no other. *)
LEMMA Spent ==
    ASSUME left \in Budgets,
           \/ left' = left
           \/ left.losses > 0 /\ left' = [left EXCEPT !.losses = @ - 1]
           \/ left.waits > 0 /\ left' = [left EXCEPT !.waits = @ - 1]
           \/ left.refusals > 0 /\ left' = [left EXCEPT !.refusals = @ - 1]
           \/ left.drops > 0 /\ left' = [left EXCEPT !.drops = @ - 1]
           \/ left.resumes > 0 /\ left' = [left EXCEPT !.resumes = @ - 1]
           \/ left.late > 0 /\ left' = [left EXCEPT !.late = @ - 1]
    PROVE  left' \in Budgets /\ left'.cancels = left.cancels /\ left'.fails = left.fails
BY DEF Budgets

LEMMA FailSpent ==
    ASSUME left \in Budgets, ComposeFails
    PROVE  left' \in Budgets /\ left'.cancels = left.cancels /\ left.fails # 0
BY DEF Budgets, ComposeFails

(* A step of somebody else than the reader, the egress and the ingress worker. *)
LEMMA OthersKeep ==
    ASSUME CancelARQInv, UNCHANGED <<asked, requests, egress, message, arqSurbIDMap>>,
           left' \in Budgets, left'.cancels = left.cancels, left'.fails = left.fails,
           answers' \in [Messages -> SUBSET Told],
           \A m \in Messages : "cancelled" \in answers'[m] => "cancelled" \in answers[m]
    PROVE  CancelInv'
<1>1. AskedOnce' /\ Resent'
  BY DEF CancelARQInv, CancelInv, AskedOnce, Resent
<1>2. \A m \in Messages : NotStarted(m)' => NotStarted(m) /\ message'[m].surb = message[m].surb
  BY DEF NotStarted
<1>3. arqSurbIDMap' \subseteq Surbs
  BY DEF CancelARQInv, ARQInv, MapsInv, MapsTyped
<1> QED BY <1>1, <1>2, <1>3, CancelKept

(* A message that is tracked has been heard of, and is not cancelled. *)
LEMMA TrackedIsHeard ==
    ASSUME CancelARQInv, NEW s \in arqSurbIDMap
    PROVE  /\ Owner(s) \in Messages /\ message[Owner(s)].surb = s /\ s # None
           /\ ~NotStarted(Owner(s)) /\ "cancelled" \notin answers[Owner(s)]
<1>1. s \in Surbs /\ s # None /\ Owner(s) \in Messages
  BY NoneIsNoSurb, OwnerIsMessage DEF CancelARQInv, ARQInv, MapsInv, MapsTyped
<1>2. message[Owner(s)].surb = s
  BY DEF CancelARQInv, ARQInv, MapsInv, MapsAgree
<1>3. ~NotStarted(Owner(s))
  BY <1>1, <1>2 DEF CancelARQInv, CancelInv, Unheard
<1>4. "cancelled" \notin answers[Owner(s)]
  BY DEF CancelARQInv, CancelInv, StaysCancelled
<1> QED BY <1>1, <1>2, <1>3, <1>4

(* A message that has been heard of and is not cancelled is registered anew. *)
LEMMA RewireKeeps ==
    ASSUME CancelARQInv, NEW m \in Messages, NEW s \in Surbs, Owner(s) = m, NEW key \in BOOLEAN,
           Rewire(m, s, key), "cancelled" \notin answers[m]
    PROVE  /\ arqSurbIDMap' \subseteq Surbs
           /\ \A t \in arqSurbIDMap' : t \in arqSurbIDMap \/ "cancelled" \notin answers[Owner(t)]
           /\ message'[m].surb = s /\ s # None
           /\ \A n \in Messages \ {m} : message'[n].surb = message[n].surb
<1>1. /\ arqSurbIDMap' = (arqSurbIDMap \ {message[m].surb}) \cup {s}
      /\ message' = [message EXCEPT ![m].surb = s, ![m].key = IF key THEN s ELSE @]
  BY DEF Rewire
<1>2. arqSurbIDMap \subseteq Surbs
  BY DEF CancelARQInv, ARQInv, MapsInv, MapsTyped
<1>3. message'[m].surb = s /\ \A n \in Messages \ {m} : message'[n] = message[n]
  BY <1>1 DEF CancelARQInv, ARQInv, MapsInv, MapsTyped
<1> QED BY <1>1, <1>2, <1>3, NoneIsNoSurb

LEMMA ReaderKeeps ==
    ASSUME CancelARQInv, NEW m \in Messages, Request(m) \/ Cancel(m)
    PROVE  CancelInv'
<1>1. ASSUME Request(m) PROVE CancelInv'
  <2>1. /\ m \notin asked /\ asked' = asked \cup {m} /\ requests' = Append(requests, m)
        /\ UNCHANGED <<left, egress, arqSurbIDMap, message, answers>>
    BY <1>1 DEF Request, maps
  <2>2. requests \in Seq(Messages)
    BY DEF CancelARQInv, ARQInv, Holders
  <2>3. /\ DOMAIN requests' = DOMAIN requests \cup {Len(requests) + 1}
        /\ requests'[Len(requests) + 1] = m /\ Len(requests) + 1 \notin DOMAIN requests
        /\ \A i \in DOMAIN requests : requests'[i] = requests[i]
    BY <2>1, <2>2
  <2>4. AskedOnce'
    <3>1. AskedOnce
      BY DEF CancelARQInv, CancelInv
    <3>2. \A i \in DOMAIN requests' : requests'[i] \in asked'
      BY <2>1, <2>3, <3>1 DEF AskedOnce
    <3>3. \A i, j \in DOMAIN requests' : requests'[i] = requests'[j] => i = j
      BY <2>1, <2>3, <3>1 DEF AskedOnce
    <3>4. egress.pc = "start" =>
             egress.m \in asked' /\ \A i \in DOMAIN requests' : requests'[i] # egress.m
      BY <2>1, <2>3, <3>1 DEF AskedOnce
    <3> QED BY <2>1, <3>2, <3>3, <3>4 DEF AskedOnce
  <2>5. \A n \in Messages : NotStarted(n)' => NotStarted(n) /\ message'[n].surb = message[n].surb
    BY <2>1, <2>3 DEF NotStarted
  <2>6. Resent'
    BY <2>1 DEF CancelARQInv, CancelInv, Resent
  <2>7. arqSurbIDMap' \subseteq Surbs
    BY <2>1 DEF CancelARQInv, ARQInv, MapsInv, MapsTyped
  <2>8. left \in Budgets /\ answers \in [Messages -> SUBSET Told]
    BY DEF CancelARQInv, CancelInv
  <2> QED BY <2>1, <2>4, <2>5, <2>6, <2>7, <2>8, CancelKept
<1>2. ASSUME Cancel(m) PROVE CancelInv'
  <2> DEFINE s == arqEnvelopeHashMap[Hash[m]]
  <2>1. /\ left.cancels > 0 /\ left' = [left EXCEPT !.cancels = @ - 1]
        /\ arqSurbIDMap' = arqSurbIDMap \ {s}
        /\ answers' = IF s \in arqSurbIDMap
                      THEN [answers EXCEPT ![Owner(s)] = @ \cup {"cancelled"}] ELSE answers
        /\ UNCHANGED <<asked, requests, egress, message>>
    BY <1>2 DEF Cancel
  <2>2. left \in Budgets /\ answers \in [Messages -> SUBSET Told]
    BY DEF CancelARQInv, CancelInv
  <2>3. left' \in Budgets /\ left'.fails = left.fails
    BY <2>1, <2>2 DEF Budgets
  <2>4. s \in arqSurbIDMap => Owner(s) \in Messages /\ ~NotStarted(Owner(s))
    BY TrackedIsHeard
  <2>5. answers' \in [Messages -> SUBSET Told]
    BY <2>1, <2>2, <2>4 DEF Told
  <2>6. AskedOnce' /\ Resent'
    BY <2>1 DEF CancelARQInv, CancelInv, AskedOnce, Resent
  <2>7. \A n \in Messages : NotStarted(n)' => NotStarted(n)
    BY <2>1 DEF NotStarted
  <2>8. \A n \in Messages : NotStarted(n) => answers'[n] = answers[n]
    BY <2>1, <2>2, <2>4
  <2>9. Unheard'
    BY <2>1, <2>7, <2>8 DEF CancelARQInv, CancelInv, Unheard
  <2>10. Shielded'
    <3>1. left.cancels # 0
      BY <2>1, <2>2 DEF Budgets
    <3>2. left.fails = 0 /\ egress.pc # "reschedule"
      BY <3>1 DEF CancelARQInv, CancelInv, Shielded
    <3> QED BY <2>1, <2>3, <3>2 DEF Shielded
  <2>11. ASSUME NEW t \in arqSurbIDMap' PROVE "cancelled" \notin answers'[Owner(t)]
    <3>1. t \in arqSurbIDMap /\ t # s
      BY <2>1, <2>11
    <3>2. Owner(t) \in Messages /\ message[Owner(t)].surb = t /\ "cancelled" \notin answers[Owner(t)]
      BY <3>1, TrackedIsHeard
    <3>3. s \in arqSurbIDMap => message[Owner(s)].surb = s
      BY TrackedIsHeard
    <3> QED BY <2>1, <2>2, <3>1, <3>2, <3>3
  <2>12. StaysCancelled'
    BY <2>11 DEF StaysCancelled
  <2> QED BY <2>3, <2>5, <2>6, <2>9, <2>10, <2>12 DEF CancelInv
<1> QED BY <1>1, <1>2

(* The connection breaks, comes back or is cleaned up after. *)
LEMMA ConnectionKeeps ==
    ASSUME CancelARQInv, Disconnect \/ Resume \/ Cleanup
    PROVE  CancelInv'
<1>1. left \in Budgets /\ answers \in [Messages -> SUBSET Told] /\ AskedOnce /\ Resent
  BY DEF CancelARQInv, CancelInv
<1>2. arqSurbIDMap \subseteq Surbs
  BY DEF CancelARQInv, ARQInv, MapsInv, MapsTyped
<1>3. ASSUME Disconnect PROVE CancelInv'
  <2>1. /\ left.drops > 0 /\ left' = [left EXCEPT !.drops = @ - 1] /\ requests' = <<>>
        /\ UNCHANGED <<asked, egress, message, arqSurbIDMap, answers>>
    BY <1>3 DEF Disconnect, maps
  <2>2. AskedOnce' /\ Resent'
    BY <1>1, <2>1 DEF AskedOnce, Resent
  <2>3. \A n \in Messages : NotStarted(n)' => NotStarted(n) /\ message'[n].surb = message[n].surb
    BY <2>1 DEF NotStarted
  <2>4. left' \in Budgets /\ left'.cancels = left.cancels /\ left'.fails = left.fails
    BY <1>1, <2>1, Spent
  <2> QED BY <1>1, <1>2, <2>1, <2>2, <2>3, <2>4, CancelKept
<1>4. ASSUME Resume PROVE CancelInv'
  <2>1. /\ left.resumes > 0 /\ left' = [left EXCEPT !.resumes = @ - 1]
        /\ UNCHANGED <<asked, requests, egress, message, arqSurbIDMap, answers>>
    BY <1>4 DEF Resume, maps
  <2>2. left' \in Budgets /\ left'.cancels = left.cancels /\ left'.fails = left.fails
    BY <1>1, <2>1, Spent
  <2> QED BY <1>1, <2>1, <2>2, OthersKeep
<1>5. ASSUME Cleanup PROVE CancelInv'
  <2>1. /\ arqSurbIDMap' = {}
        /\ UNCHANGED <<left, asked, requests, egress, message, answers>>
    BY <1>5 DEF Cleanup
  <2>2. AskedOnce' /\ Resent'
    BY <1>1, <2>1 DEF AskedOnce, Resent
  <2>3. \A n \in Messages : NotStarted(n)' => NotStarted(n) /\ message'[n].surb = message[n].surb
    BY <2>1 DEF NotStarted
  <2> QED BY <1>1, <2>1, <2>2, <2>3, CancelKept
<1> QED BY <1>3, <1>4, <1>5

(* Timers, the network and the courier. *)
LEMMA WorldKeeps ==
    ASSUME CancelARQInv,
           \/ \E m \in Messages : Collect(m)
           \/ Timer \/ World \/ \E n \in net : Lose(n)
    PROVE  CancelInv'
<1>1. left \in Budgets /\ answers \in [Messages -> SUBSET Told]
  BY DEF CancelARQInv, CancelInv
<1>2. UNCHANGED <<asked, requests, egress, message, arqSurbIDMap>> /\ answers' = answers
  BY DEF Collect, Timer, TimerFires, EnqueueResend, World, Courier, Lose, client, maps
<1>3. \/ left' = left
      \/ left.losses > 0 /\ left' = [left EXCEPT !.losses = @ - 1]
      \/ left.waits > 0 /\ left' = [left EXCEPT !.waits = @ - 1]
      \/ left.refusals > 0 /\ left' = [left EXCEPT !.refusals = @ - 1]
      \/ left.late > 0 /\ left' = [left EXCEPT !.late = @ - 1]
  BY DEF Collect, Timer, TimerFires, EnqueueResend, World, Courier, Lose
<1>4. left' \in Budgets /\ left'.cancels = left.cancels /\ left'.fails = left.fails
  BY <1>1, <1>3, Spent
<1> QED BY <1>1, <1>2, <1>4, OthersKeep

(* A request is taken once, in the order of the channel. *)
LEMMA PickKeeps ==
    ASSUME CancelARQInv, Pick
    PROVE  CancelInv'
<1>1. /\ left \in Budgets /\ answers \in [Messages -> SUBSET Told] /\ AskedOnce
      /\ arqSurbIDMap \subseteq Surbs /\ requests \in Seq(Messages) /\ resendCh \in Seq(Surbs)
  BY DEF CancelARQInv, CancelInv, ARQInv, MapsInv, MapsTyped, Holders
<1>2. egress = Idle /\ UNCHANGED <<left, asked, message, arqSurbIDMap, answers>>
  BY DEF Pick, maps
<1>3. CASE /\ resendCh # <<>> /\ requests' = requests
           /\ egress' = [pc |-> "resend", m |-> Owner(Head(resendCh)), surb |-> Head(resendCh)]
  <2>1. Head(resendCh) \in Surbs
    BY <1>1, <1>3
  <2>2. AskedOnce' /\ Resent'
    BY <1>1, <1>2, <1>3, <2>1 DEF AskedOnce, Resent
  <2>3. \A n \in Messages : NotStarted(n)' => NotStarted(n) /\ message'[n].surb = message[n].surb
    BY <1>2, <1>3 DEF NotStarted
  <2>4. egress'.pc # "reschedule"
    BY <1>3
  <2> QED BY <1>1, <1>2, <2>2, <2>3, <2>4, CancelKept
<1>4. CASE /\ requests # <<>> /\ requests' = Tail(requests)
           /\ egress' = [pc |-> "start", m |-> Head(requests), surb |-> None]
  <2>1. /\ Len(requests) > 0 /\ 1 \in DOMAIN requests /\ Head(requests) = requests[1]
        /\ \A i \in DOMAIN Tail(requests) :
              i + 1 \in DOMAIN requests /\ Tail(requests)[i] = requests[i + 1] /\ i \in Nat \ {0}
    BY <1>1, <1>4
  <2>2. \A i \in DOMAIN requests' : requests'[i] \in asked
    BY <1>1, <1>4, <2>1 DEF AskedOnce
  <2>3. \A i, j \in DOMAIN requests' : requests'[i] = requests'[j] => i = j
    BY <1>1, <1>4, <2>1 DEF AskedOnce
  <2>4. ASSUME NEW i \in DOMAIN requests' PROVE requests'[i] # requests[1]
    <3>1. i + 1 \in DOMAIN requests /\ requests'[i] = requests[i + 1] /\ i + 1 # 1
      BY <1>4, <2>1
    <3> QED BY <1>1, <2>1, <3>1 DEF AskedOnce
  <2>5. requests[1] \in asked
    BY <1>1, <2>1 DEF AskedOnce
  <2>6. egress'.m = requests[1] /\ egress'.pc = "start"
    BY <1>4, <2>1
  <2>7. AskedOnce'
    BY <1>2, <2>2, <2>3, <2>4, <2>5, <2>6 DEF AskedOnce
  <2>8. \A n \in Messages : NotStarted(n)' => NotStarted(n) /\ message'[n].surb = message[n].surb
    BY <1>2, <1>4, <2>1 DEF NotStarted
  <2>9. Resent'
    BY <2>6 DEF Resent
  <2> QED BY <1>1, <1>2, <2>6, <2>7, <2>8, <2>9, CancelKept
<1> QED BY <1>3, <1>4 DEF Pick

(* The egress worker registers a message that is started, or that it finds in the map; it
   puts one back without looking only after a failure, and then nothing is cancelled. *)
LEMMA EgressKeeps ==
    ASSUME CancelARQInv, Egress
    PROVE  CancelInv'
<1> DEFINE m == egress.m
<1>1. /\ left \in Budgets /\ answers \in [Messages -> SUBSET Told] /\ AskedOnce /\ Resent
      /\ arqSurbIDMap \subseteq Surbs /\ (egress.pc # "idle" => m \in Messages)
  BY DEF CancelARQInv, CancelInv, ARQInv, MapsInv, MapsTyped, Holders
<1>2. ASSUME egress'.pc # "start", UNCHANGED <<asked, requests>>
      PROVE  AskedOnce' /\ \A n \in Messages : NotStarted(n)' => NotStarted(n)
  BY <1>1, <1>2 DEF AskedOnce, NotStarted
<1>3. ASSUME NEW s \in Surbs, Owner(s) = m, NEW key \in BOOLEAN, Rewire(m, s, key),
             egress.pc # "idle", "cancelled" \notin answers[m],
             \A n \in Messages : n = m => ~NotStarted(n)',
             egress'.pc \in {"push", "idle"}, UNCHANGED <<left, asked, requests, answers>>
      PROVE  CancelInv'
  <2>1. AskedOnce' /\ \A n \in Messages : NotStarted(n)' => NotStarted(n)
    BY <1>2, <1>3
  <2>2. /\ arqSurbIDMap' \subseteq Surbs
        /\ \A t \in arqSurbIDMap' : t \in arqSurbIDMap \/ "cancelled" \notin answers[Owner(t)]
        /\ \A n \in Messages \ {m} : message'[n].surb = message[n].surb
    BY <1>1, <1>3, RewireKeeps
  <2>3. \A n \in Messages : NotStarted(n)' => NotStarted(n) /\ message'[n].surb = message[n].surb
    BY <1>3, <2>1, <2>2
  <2>4. Resent' /\ egress'.pc # "reschedule"
    BY <1>3 DEF Resent
  <2> HIDE DEF m
  <2> QED BY <1>1, <1>3, <2>1, <2>2, <2>3, <2>4, CancelKept
<1>4. ASSUME UNCHANGED <<asked, requests, message>>, arqSurbIDMap' \subseteq arqSurbIDMap,
             left' \in Budgets, left'.cancels = left.cancels, left.fails = 0 => left'.fails = 0,
             answers' \in [Messages -> SUBSET Told],
             \A n \in Messages : "cancelled" \in answers'[n] => "cancelled" \in answers[n],
             egress'.pc \in {"idle", "record"}
      PROVE  CancelInv'
  <2>1. AskedOnce' /\ \A n \in Messages : NotStarted(n)' => NotStarted(n)
    BY <1>2, <1>4
  <2>2. Resent' /\ egress'.pc # "reschedule"
    BY <1>4 DEF Resent
  <2>3. \A n \in Messages : NotStarted(n)' => NotStarted(n) /\ message'[n].surb = message[n].surb
    BY <1>4, <2>1
  <2> QED BY <1>1, <1>4, <2>1, <2>2, <2>3, CancelKept
<1>5. ASSUME NEW outcome \in Told \ {"cancelled"}, Tell(m, outcome), m \in Messages
      PROVE  /\ answers' \in [Messages -> SUBSET Told]
             /\ \A n \in Messages : "cancelled" \in answers'[n] => "cancelled" \in answers[n]
  BY <1>1, <1>5 DEF Tell
<1>6. ASSUME Start PROVE CancelInv'
  <2>1. /\ egress.pc = "start" /\ UNCHANGED <<asked, requests>>
    BY <1>6 DEF Start, client
  <2>2. m \in Messages /\ NotStarted(m)
    BY <1>1, <2>1 DEF NotStarted
  <2>3. CASE /\ \E s \in Surbs : /\ Fresh(m, s) /\ Rewire(m, s, TRUE)
                                 /\ egress' = [pc |-> "push", m |-> m, surb |-> s]
             /\ UNCHANGED <<left, answers>>
    <3>1. PICK s \in Surbs : /\ Owner(s) = m /\ Rewire(m, s, TRUE)
                             /\ egress' = [pc |-> "push", m |-> m, surb |-> s]
      BY <2>3 DEF Fresh
    <3>2. "cancelled" \notin answers[m]
      BY <2>2 DEF CancelARQInv, CancelInv, Unheard
    <3>3. \A n \in Messages : n = m => ~NotStarted(n)'
      BY <1>1, <2>1, <3>1 DEF AskedOnce, NotStarted
    <3>4. egress'.pc = "push" /\ egress.pc # "idle"
      BY <2>1, <3>1
    <3> HIDE DEF m
    <3> QED BY <1>3, <2>1, <2>3, <3>1, <3>2, <3>3, <3>4
  <2>4. CASE ComposeFails /\ Tell(m, "error") /\ egress' = Idle /\ UNCHANGED maps
    <3>1. left' \in Budgets /\ left'.cancels = left.cancels /\ left.fails # 0
      BY <1>1, <2>4, FailSpent
    <3>2. "error" \in Told \ {"cancelled"}
      BY DEF Told
    <3>3. egress'.pc = "idle" /\ UNCHANGED message /\ arqSurbIDMap' = arqSurbIDMap
      BY <2>4 DEF Idle, maps
    <3> HIDE DEF m
    <3> QED BY <1>4, <1>5, <2>1, <2>2, <2>4, <3>1, <3>2, <3>3
  <2> QED BY <1>6, <2>3, <2>4 DEF Start
<1>7. ASSUME Resend PROVE CancelInv'
  <2>1. /\ egress.pc = "resend" /\ UNCHANGED <<asked, requests, answers>>
    BY <1>7 DEF Resend, client
  <2>2. m \in Messages /\ egress.surb \in Surbs /\ Owner(egress.surb) = m
    BY <1>1, <2>1 DEF Resent
  <2>3. CASE egress' = Idle /\ UNCHANGED message /\ arqSurbIDMap' \subseteq arqSurbIDMap /\ left' = left
    <3>1. egress'.pc = "idle"
      BY <2>3 DEF Idle
    <3> QED BY <1>1, <1>4, <2>1, <2>3, <3>1
  <2>4. CASE /\ egress.surb \in arqSurbIDMap /\ UNCHANGED left
             /\ \E s \in Surbs : /\ Fresh(m, s) /\ Rewire(m, s, TRUE)
                                 /\ egress' = [pc |-> "push", m |-> m, surb |-> s]
    <3>1. PICK s \in Surbs : /\ Owner(s) = m /\ Rewire(m, s, TRUE)
                             /\ egress' = [pc |-> "push", m |-> m, surb |-> s]
      BY <2>4 DEF Fresh
    <3>2. ~NotStarted(m) /\ "cancelled" \notin answers[m]
      BY <2>2, <2>4, TrackedIsHeard
    <3>3. egress'.pc = "push" /\ egress.pc # "idle"
      BY <2>1, <3>1
    <3>4. \A n \in Messages : n = m => ~NotStarted(n)'
      BY <1>2, <2>1, <2>2, <3>2, <3>3
    <3> HIDE DEF m
    <3> QED BY <1>3, <2>1, <2>4, <3>1, <3>2, <3>3, <3>4
  <2>5. CASE /\ egress.surb \in arqSurbIDMap /\ ComposeFails /\ UNCHANGED maps
             /\ egress' = [pc |-> "reschedule", m |-> m, surb |-> egress.surb]
    <3>1. left' \in Budgets /\ left'.cancels = left.cancels /\ left.fails # 0
      BY <1>1, <2>5, FailSpent
    <3>2. egress'.pc = "reschedule" /\ egress'.m = m
      BY <2>5
    <3>3. message' = message /\ arqSurbIDMap' = arqSurbIDMap
      BY <2>5 DEF maps
    <3>4. message[m].surb # None
      BY <2>2, <2>5, TrackedIsHeard
    <3>5. Resent'
      BY <3>2, <3>3, <3>4 DEF Resent
    <3>6. AskedOnce' /\ \A n \in Messages : NotStarted(n)' => NotStarted(n)
      BY <1>2, <2>1, <3>2
    <3>7. \A n \in Messages : NotStarted(n)' => NotStarted(n) /\ message'[n].surb = message[n].surb
      BY <3>3, <3>6
    <3> QED BY <1>1, <2>1, <3>1, <3>3, <3>5, <3>6, <3>7, CancelKept
  <2>6. Forget(m) => arqSurbIDMap' \subseteq arqSurbIDMap
    BY DEF Forget
  <2>7. UNCHANGED maps => UNCHANGED message /\ arqSurbIDMap' \subseteq arqSurbIDMap
    BY DEF maps
  <2> HIDE DEF m
  <2> QED BY <1>7, <2>3, <2>4, <2>5, <2>6, <2>7 DEF Resend, m
<1>8. ASSUME Reschedule PROVE CancelInv'
  <2>1. /\ egress.pc = "reschedule" /\ egress' = Idle /\ UNCHANGED <<left, asked, requests, answers>>
    BY <1>8 DEF Reschedule, client
  <2>2. PICK s \in Surbs : Owner(s) = m /\ Rewire(m, s, FALSE)
    BY <1>8 DEF Reschedule, Fresh
  <2>3. m \in Messages /\ message[m].surb # None
    BY <1>1, <2>1 DEF Resent
  <2>4. "cancelled" \notin answers[m]
    BY <2>1, <2>3 DEF CancelARQInv, CancelInv, Shielded
  <2>5. egress'.pc = "idle" /\ egress.pc # "idle"
    BY <2>1 DEF Idle
  <2>6. ~NotStarted(m)
    BY <2>3 DEF CancelARQInv, CancelInv, Unheard
  <2>7. \A n \in Messages : n = m => ~NotStarted(n)'
    BY <1>2, <2>1, <2>3, <2>5, <2>6
  <2> HIDE DEF m
  <2> QED BY <1>3, <2>1, <2>2, <2>4, <2>5, <2>7
<1>9. ASSUME Push PROVE CancelInv'
  <2>1. /\ egress'.pc = "idle"
        /\ UNCHANGED <<left, asked, requests, message, arqSurbIDMap, answers>>
    BY <1>9 DEF Push, client, maps, Idle
  <2> QED BY <1>1, <1>4, <2>1
<1>10. ASSUME SendPlain PROVE CancelInv'
  <2>1. /\ egress'.pc = "record"
        /\ UNCHANGED <<asked, requests, message, arqSurbIDMap, answers>>
        /\ left' = left \/ ComposeFails
    BY <1>10 DEF SendPlain, client, maps
  <2>2. left' \in Budgets /\ left'.cancels = left.cancels /\ (left.fails = 0 => left'.fails = 0)
    BY <1>1, <2>1, FailSpent
  <2> QED BY <1>1, <1>4, <2>1, <2>2
<1>11. ASSUME Record PROVE CancelInv'
  <2>1. /\ egress.pc = "record" /\ egress'.pc = "idle" /\ Tell(m, "sent")
        /\ UNCHANGED <<left, asked, requests, message, arqSurbIDMap>>
    BY <1>11 DEF Record, client, maps, Idle
  <2>2. "sent" \in Told \ {"cancelled"} /\ m \in Messages
    BY <1>1, <2>1 DEF Told
  <2> HIDE DEF m
  <2> QED BY <1>1, <1>4, <1>5, <2>1, <2>2
<1> QED BY <1>6, <1>7, <1>8, <1>9, <1>10, <1>11, PickKeeps DEF Egress

(* The ingress worker registers a message anew only when it is still tracked. *)
LEMMA IngressKeeps ==
    ASSUME CancelARQInv, Ingress
    PROVE  CancelInv'
<1>1. /\ left \in Budgets /\ answers \in [Messages -> SUBSET Told] /\ AskedOnce /\ Resent
      /\ arqSurbIDMap \subseteq Surbs
  BY DEF CancelARQInv, CancelInv, ARQInv, MapsInv, MapsTyped, Holders
<1>2. ASSUME NEW r \in net, HandleReply(r) PROVE CancelInv'
  <2>1. /\ UNCHANGED <<left, asked, requests, egress, message, arqSurbIDMap>>
        /\ answers' = IF r.m \in replies /\ conn # "gone"
                      THEN [answers EXCEPT ![r.m] = @ \cup {"success"}] ELSE answers
    BY <1>2 DEF HandleReply, client, maps
  <2>2. r.m \in Messages
    BY DEF CancelARQInv, ARQInv, Holders
  <2>3. answers' \in [Messages -> SUBSET Told]
    BY <1>1, <2>1, <2>2 DEF Told
  <2>4. \A n \in Messages : "cancelled" \in answers'[n] => "cancelled" \in answers[n]
    BY <1>1, <2>1, <2>2
  <2> QED BY <1>1, <2>1, <2>3, <2>4, OthersKeep
<1>3. ASSUME HandleARQReply PROVE CancelInv'
  <2> DEFINE m     == ingress.m
             what  == ingress.what
             armed == timers \ {message[m].surb}
  <2>1. /\ ingress # NoReply /\ UNCHANGED <<left, asked, requests, egress>>
    BY <1>3 DEF HandleARQReply, client
  <2>2. m \in Messages
    BY <2>1 DEF CancelARQInv, ARQInv, Holders
  <2>3. AskedOnce' /\ \A n \in Messages : NotStarted(n)' => NotStarted(n)
    BY <1>1, <2>1 DEF AskedOnce, NotStarted
  <2>4. ASSUME \A n \in Messages : message'[n].surb = message[n].surb,
               arqSurbIDMap' \subseteq arqSurbIDMap, answers' \in [Messages -> SUBSET Told],
               \A n \in Messages : "cancelled" \in answers'[n] => "cancelled" \in answers[n]
        PROVE  CancelInv'
    <3>1. Resent'
      <4>1. egress.pc = "reschedule" => egress.m \in Messages
        BY DEF CancelARQInv, ARQInv, Holders
      <4> QED BY <1>1, <2>1, <2>4, <4>1 DEF Resent
    <3>2. \A n \in Messages : NotStarted(n)' => NotStarted(n) /\ message'[n].surb = message[n].surb
      BY <2>3, <2>4
    <3>3. left.fails = 0 => left'.fails = 0
      BY <2>1
    <3> HIDE DEF m, armed, what
    <3> QED BY <1>1, <2>1, <2>3, <2>4, <3>1, <3>2, <3>3, CancelKept
  <2>5. CASE UNCHANGED <<message, answers>> /\ arqSurbIDMap' \subseteq arqSurbIDMap
    BY <1>1, <2>4, <2>5
  <2>6. ASSUME NEW outcome \in Told \ {"cancelled"}, Finish(m, outcome, armed) PROVE CancelInv'
    <3>1. Tell(m, outcome) /\ message' = message /\ arqSurbIDMap' \subseteq arqSurbIDMap
      BY <2>6 DEF Finish, Forget
    <3>2. answers' \in [Messages -> SUBSET Told]
      BY <1>1, <2>2, <3>1 DEF Tell
    <3>3. \A n \in Messages : "cancelled" \in answers'[n] => "cancelled" \in answers[n]
      BY <1>1, <2>2, <3>1 DEF Tell
    <3> QED BY <2>4, <3>1, <3>2, <3>3
  <2>7. ASSUME NEW state, Again(m, state, armed) PROVE CancelInv'
    <3>1. /\ message' = [message EXCEPT ![m].state = state]
          /\ arqSurbIDMap' = arqSurbIDMap /\ answers' = answers
      BY <2>7 DEF Again
    <3>2. \A n \in Messages : message'[n].surb = message[n].surb
      BY <3>1 DEF CancelARQInv, ARQInv, MapsInv, MapsTyped
    <3> QED BY <1>1, <2>4, <3>1, <3>2
  <2>8. CASE Poll(m, armed) /\ Tracked(m)
    <3>1. PICK s \in Surbs : Owner(s) = m /\ Rewire(m, s, FALSE)
      BY <2>8 DEF Poll, Fresh
    <3>2. message[m].surb \in arqSurbIDMap /\ message[m].surb # None
      BY <2>8, TrackedIsHeard DEF Tracked
    <3>3. Owner(message[m].surb) = m
      BY <2>2, <3>2 DEF CancelARQInv, ARQInv, MapsInv, OwnSurb
    <3>4. ~NotStarted(m) /\ "cancelled" \notin answers[m]
      BY <3>2, <3>3, TrackedIsHeard
    <3>5. answers' = answers
      BY <2>8 DEF Poll
    <3>6. /\ arqSurbIDMap' \subseteq Surbs
          /\ \A t \in arqSurbIDMap' : t \in arqSurbIDMap \/ "cancelled" \notin answers[Owner(t)]
          /\ message'[m].surb = s /\ s # None
          /\ \A n \in Messages \ {m} : message'[n].surb = message[n].surb
      BY <2>2, <3>1, <3>4, RewireKeeps
    <3>7. Resent'
      <4>1. egress.pc = "reschedule" => egress.m \in Messages
        BY DEF CancelARQInv, ARQInv, Holders
      <4> HIDE DEF m
      <4> QED BY <1>1, <2>1, <3>6, <4>1 DEF Resent
    <3>8. \A n \in Messages : NotStarted(n)' => NotStarted(n) /\ message'[n].surb = message[n].surb
      BY <2>3, <3>4, <3>6
    <3> HIDE DEF m, armed, what
    <3> QED BY <1>1, <2>1, <2>3, <3>5, <3>6, <3>7, <3>8, CancelKept
  <2>9. CASE Poll(m, armed) /\ ~Tracked(m)
    BY <2>5, <2>9 DEF Poll, maps
  <2>10. Forget(m) => arqSurbIDMap' \subseteq arqSurbIDMap
    BY DEF Forget
  <2>11. UNCHANGED maps => UNCHANGED message /\ arqSurbIDMap' \subseteq arqSurbIDMap
    BY DEF maps
  <2>12. "success" \in Told \ {"cancelled"} /\ Outcome(m, what) \in Told \ {"cancelled"}
    BY DEF Told, Outcome
  <2> HIDE DEF m, armed, what
  <2> QED BY <1>3, <2>5, <2>6, <2>7, <2>8, <2>9, <2>10, <2>11, <2>12 DEF HandleARQReply, m, armed, what
<1> QED BY <1>2, <1>3 DEF Ingress

LEMMA CancelStep == HashesDistinct /\ CancelARQInv /\ [Next]_vars => CancelARQInv'
<1> SUFFICES ASSUME HashesDistinct, CancelARQInv, [Next]_vars PROVE CancelARQInv'
  OBVIOUS
<1>1. ARQInv'
  BY ARQStep DEF CancelARQInv
<1>2. CASE UNCHANGED vars
  <2>1. /\ UNCHANGED <<asked, requests, egress, message, arqSurbIDMap>>
        /\ left' = left /\ answers' = answers
    BY <1>2 DEF vars
  <2>2. left \in Budgets /\ answers \in [Messages -> SUBSET Told]
    BY DEF CancelARQInv, CancelInv
  <2> QED BY <1>1, <2>1, <2>2, OthersKeep DEF CancelARQInv
<1>3. CASE Next
  BY <1>1, <1>3, ReaderKeeps, ConnectionKeeps, WorldKeeps, EgressKeeps, IngressKeeps
     DEF Next, CancelARQInv
<1> QED BY <1>2, <1>3

(* A message whose caller has been told that it is cancelled is not sent again, whatever
   poll, reply or resend of it the reader's cancellation meets (pigeonhole.go:1641): if no
   two messages have the same hash, and no packet fails to be composed while there are
   cancellations.  The failure is the case the code leaves open: it registers the message
   again without looking whether it has been cancelled (daemon.go:822). *)
THEOREM CancelledStays ==
    ASSUME HashesDistinct, NoFailureMeetsCancel
    PROVE  Spec => []StaysCancelled
<1>1. CancelARQInv => StaysCancelled
  BY DEF CancelARQInv, CancelInv
<1>2. HashesDistinct /\ NoFailureMeetsCancel
  OBVIOUS
<1>3. Init => CancelARQInv
  BY <1>2, ARQInit, CancelInit DEF CancelARQInv
<1>4. CancelARQInv /\ [Next]_vars => CancelARQInv'
  BY <1>2, CancelStep
<1> QED BY <1>1, <1>3, <1>4, PTL DEF Spec
====
