---------------------------- MODULE MixServerProofs ----------------------------
(* The gateway and the service node of a mix server, which share no state.

   The two goroutines of a connection and the order in which they do their work keep the
   spool of a client safe: what is removed has been delivered, and no wake is lost, for any
   number of messages and connections, whatever breaks, is late or comes twice.

   The channels, the clients and the descriptor of a service node agree, for any number of
   plugins and of launches.                                                                *)
EXTENDS GatewaySpool, ServiceNode, FiniteSetTheorems, TLAPS

(* What is needed of the types. *)
IsConn(r) == {"worker", "up", "sender", "notify", "msg", "ack", "peer", "down", "acked"}
             \subseteq DOMAIN r

Typed ==
    /\ DOMAIN conns = Conns /\ \A c \in Conns : IsConn(conns[c])
    /\ stage \in [Messages -> [at : {"coming", "taken", "stored", "found", "done"},
                               conn : Conns \cup {0}]]
    /\ spool \in Seq(Messages)
    /\ connsByID \in Conns \cup {0} /\ crossed \in Nat

(***************************************************************************)
(* The life of an entry.  Between the look at the first entry of the spool *)
(* and the removal of the first entry, that entry is the same one: the     *)
(* message, then the acknowledgement on its way back, are about it.  A     *)
(* sender that is not in between has nothing under way, so that an         *)
(* acknowledgement is never taken for a later message's.                   *)
(***************************************************************************)
Sends(r)  == r.sender \notin {"none", "gone"}
Quiet(r)  == r.down = None /\ ~r.acked /\ ~r.ack

UnderWay(r, s, g) ==
    /\ r.worker \in {"none", "handshake"} => r.sender = "none" /\ Quiet(r)
    /\ r.sender \in {"idle", "look"} => Quiet(r)
    /\ r.sender = "send" => Quiet(r) /\ s # <<>> /\ r.msg = Head(s)
    /\ r.sender = "wait" =>
          /\ s # <<>>
          /\ r.down # None => r.down = Head(s) /\ ~r.acked /\ ~r.ack
          /\ r.acked \/ r.ack => Head(s) \in g
          /\ ~(r.acked /\ r.ack)
    /\ r.sender = "advance" => Quiet(r) /\ s # <<>> /\ Head(s) \in g

OneSender == \A c, d \in Conns : Sends(conns[c]) /\ Sends(conns[d]) => c = d

InOrder ==
    /\ OneSender
    /\ \A c \in Conns : UnderWay(conns[c], spool, got)
    /\ removed \subseteq got

(* A sender that starts meets those that are there. *)
LEMMA Meeting ==
    ASSUME NEW S \in SUBSET Conns
    PROVE  Cardinality(S) \in Nat /\ (Cardinality(S) = 0 => S = {})
<1>1. IsFiniteSet(Conns)
  BY SpoolAssumption, FS_Interval DEF Conns, SpoolAssumption
<1>2. IsFiniteSet(S)
  BY <1>1, FS_Subset
<1> QED BY <1>2, FS_CardinalityType, FS_EmptySet

SpoolInv == Typed /\ (crossed = 0 => InOrder) /\ WakeIsPending

LEMMA SpoolInit == Init => SpoolInv
<1> SUFFICES ASSUME Init PROVE SpoolInv
  OBVIOUS
<1>1. \A c \in Conns : conns[c] = NewConn
  BY DEF Init
<1>2. Typed
  <2>1. DOMAIN conns = Conns /\ \A c \in Conns : IsConn(conns[c])
    BY <1>1 DEF Init, IsConn, NewConn
  <2>2. stage \in [Messages -> [at : {"coming", "taken", "stored", "found", "done"},
                               conn : Conns \cup {0}]]
    BY DEF Init, At
  <2>3. connsByID \in Conns \cup {0} /\ crossed \in Nat
    BY DEF Init
  <2>4. spool \in Seq(Messages)
    BY SpoolAssumption DEF Init, SpoolAssumption
  <2> QED BY <2>1, <2>2, <2>3, <2>4 DEF Typed
<1>3. InOrder
  BY <1>1 DEF Init, InOrder, OneSender, UnderWay, Sends, Quiet, NewConn
<1>4. WakeIsPending
  BY DEF Init, WakeIsPending, Conns
<1> QED BY <1>2, <1>3, <1>4 DEF SpoolInv

(* A step of one connection that leaves the spool and the messages on their way to it: the
   invariant holds again if the new record does not begin to send, and is well typed, in
   order and not at rest without a wake, when the old one was. *)
Goes(old, new) ==
    /\ IsConn(new)
    /\ Sends(new) => Sends(old)
    /\ new.sender = "idle" /\ new.up =>
          \/ old.sender = "idle" /\ old.up /\ (old.notify => new.notify)
          \/ spool = <<>>

LEMMA ConnStep ==
    ASSUME SpoolInv, NEW c \in Conns, NEW r, Put(c, r), Goes(conns[c], r),
           spool' = spool, stage' = stage, connsByID' \in {connsByID, 0}, removed' = removed,
           crossed' = crossed, got \subseteq got',
           crossed = 0 => UnderWay(r, spool, got')
    PROVE  SpoolInv'
<1>1. /\ DOMAIN conns' = Conns /\ conns'[c] = r
      /\ \A d \in Conns : d # c => conns'[d] = conns[d]
  BY DEF SpoolInv, Typed, Put
<1>2. Typed'
  BY <1>1 DEF SpoolInv, Typed, Goes
<1>3. ASSUME crossed = 0 PROVE InOrder'
  <2>1. OneSender'
    BY <1>1, <1>3 DEF SpoolInv, InOrder, OneSender, Goes
  <2>2. ASSUME NEW d \in Conns PROVE UnderWay(conns'[d], spool, got')
    BY <1>1, <1>3 DEF SpoolInv, InOrder, UnderWay
  <2> QED BY <1>3, <2>1, <2>2 DEF SpoolInv, InOrder
<1>4. WakeIsPending'
  <2> SUFFICES ASSUME NEW d \in Conns,
                      connsByID' = d, conns'[d].sender = "idle", conns'[d].up, spool # <<>>
               PROVE  conns'[d].notify
                      \/ \E m \in Messages : stage[m].at = "stored"
                                             \/ stage[m] = [at |-> "found", conn |-> d]
    BY DEF WakeIsPending
  <2>1. connsByID = d
    BY DEF Conns
  <2>2. CASE d = c
    BY <1>1, <2>1, <2>2 DEF SpoolInv, WakeIsPending, Goes
  <2>3. CASE d # c
    BY <1>1, <2>1, <2>3 DEF SpoolInv, WakeIsPending
  <2> QED BY <2>2, <2>3
<1> QED BY <1>2, <1>3, <1>4 DEF SpoolInv

LEMMA ClientKeeps ==
    ASSUME SpoolInv, NEW c \in Conns, onNewConn(c) \/ Receive(c) \/ HangUp(c)
    PROVE  SpoolInv'
<1> DEFINE o == conns[c]
<1>1. IsConn(o) /\ (crossed = 0 => UnderWay(o, spool, got))
  BY DEF SpoolInv, Typed, InOrder
<1>2. CASE onNewConn(c)
  <2> DEFINE r == [NewConn EXCEPT !.worker = "handshake", !.peer = TRUE]
  <2>1. IsConn(r) /\ r.worker = "handshake" /\ r.sender = "none" /\ Quiet(r)
    BY DEF IsConn, NewConn, Quiet
  <2>2. Goes(o, r) /\ UnderWay(r, spool, got)
    BY <2>1 DEF Goes, Sends, UnderWay
  <2> HIDE DEF r
  <2>3. Put(c, r)
    BY <1>2 DEF onNewConn, r
  <2> QED BY <1>2, <2>2, <2>3, ConnStep DEF onNewConn, history
<1>3. CASE Receive(c)
  <2> DEFINE r == [conns[c] EXCEPT !.down = None, !.acked = TRUE]
  <2>1. Goes(o, r)
    BY <1>1 DEF Goes, IsConn, Sends
  <2>2. crossed = 0 => UnderWay(r, spool, got')
    BY <1>1, <1>3 DEF Receive, UnderWay, IsConn, Quiet
  <2> HIDE DEF r
  <2>3. Put(c, r)
    BY <1>3 DEF Receive, r
  <2> QED BY <1>3, <2>1, <2>2, <2>3, ConnStep DEF Receive
<1>4. CASE HangUp(c)
  <2> DEFINE r == [conns[c] EXCEPT !.peer = FALSE, !.down = None]
  <2>1. Goes(o, r)
    BY <1>1 DEF Goes, IsConn, Sends
  <2>2. crossed = 0 => UnderWay(r, spool, got)
    BY <1>1 DEF UnderWay, IsConn, Quiet
  <2> HIDE DEF r
  <2>3. Put(c, r)
    BY <1>4 DEF HangUp, r
  <2> QED BY <1>4, <2>1, <2>2, <2>3, ConnStep DEF HangUp, history
<1> QED BY <1>2, <1>3, <1>4

(* What a worker does, but for the start of a sender and the orders to close. *)
WorkerKeepsSender(c) ==
    \/ HandshakeFails(c) \/ LogSource(c) \/ CloseOldConns(c) \/ StartReading(c) \/ ReadAck(c)
    \/ ReadFails(c) \/ LeaveLoop(c) \/ CloseSession(c) \/ onClosedConn(c)

LEMMA WorkerKeeps ==
    ASSUME SpoolInv, NEW c \in Conns, WorkerKeepsSender(c)
    PROVE  SpoolInv'
<1> DEFINE o == conns[c]
           n == conns'[c]
<1>1. IsConn(o) /\ (crossed = 0 => UnderWay(o, spool, got)) /\ DOMAIN conns = Conns
  BY DEF SpoolInv, Typed, InOrder
<1>2. /\ UNCHANGED <<stage, spool, got, removed, crossed>>
      /\ connsByID' \in {connsByID, 0}
  BY DEF WorkerKeepsSender, HandshakeFails, LogSource, CloseOldConns, StartReading, ReadAck,
         ReadFails, LeaveLoop, CloseSession, onClosedConn, history
<1>3. Put(c, n)
  BY <1>1 DEF WorkerKeepsSender, HandshakeFails, LogSource, CloseOldConns, StartReading, ReadAck,
         ReadFails, LeaveLoop, CloseSession, onClosedConn, Put
<1>4. /\ IsConn(n) /\ n.sender = o.sender /\ n.notify = o.notify /\ (n.up => o.up)
      /\ n.msg = o.msg /\ n.worker \notin {"none", "handshake"}
      /\ \/ n.down = o.down /\ n.ack = o.ack /\ n.acked \in {o.acked, FALSE}
         \/ n.down = None /\ n.ack = o.ack /\ n.acked = o.acked
         \/ n.down = o.down /\ o.acked /\ ~n.acked /\ n.ack = Sends(o)
  <2>1. CASE HandshakeFails(c)
    BY <1>1, <2>1 DEF HandshakeFails, Put, IsConn
  <2>2. CASE LogSource(c)
    BY <1>1, <2>2 DEF LogSource, Put, IsConn
  <2>3. CASE CloseOldConns(c)
    BY <1>1, <2>3 DEF CloseOldConns, Put, IsConn
  <2>4. CASE StartReading(c)
    BY <1>1, <2>4 DEF StartReading, Put, IsConn
  <2>5. CASE ReadAck(c)
    BY <1>1, <2>5 DEF ReadAck, Acked, Put, IsConn, Sends
  <2>6. CASE ReadFails(c)
    BY <1>1, <2>6 DEF ReadFails, Put, IsConn
  <2>7. CASE LeaveLoop(c)
    BY <1>1, <2>7 DEF LeaveLoop, Put, IsConn
  <2>8. CASE CloseSession(c)
    BY <1>1, <2>8 DEF CloseSession, Put, IsConn
  <2>9. CASE onClosedConn(c)
    BY <1>1, <2>9 DEF onClosedConn, Put, IsConn
  <2> QED BY <2>1, <2>2, <2>3, <2>4, <2>5, <2>6, <2>7, <2>8, <2>9 DEF WorkerKeepsSender
<1> HIDE DEF n
<1>5. Goes(o, n)
  BY <1>4 DEF Goes, Sends
<1>6. crossed = 0 => UnderWay(n, spool, got)
  BY <1>1, <1>4 DEF UnderWay, Quiet, Sends
<1> QED BY <1>2, <1>3, <1>5, <1>6, ConnStep

(* A sender starts with a wake pending, and spoils the order only where it is not alone. *)
LEMMA SenderStarts ==
    ASSUME SpoolInv, NEW c \in Conns, onInitializedConn(c)
    PROVE  SpoolInv'
<1> DEFINE r == Started(conns[c])
<1>1. /\ IsConn(conns[c]) /\ DOMAIN conns = Conns /\ conns[c].worker = "handshake"
      /\ crossed' = crossed + Cardinality({d \in {e \in Conns \ {c} : HasSender(e) \/
                                               (InList(e) /\ IsInitialized(e))} : HasSender(d)})
      /\ connsByID' = c /\ UNCHANGED <<stage, spool, got, removed>>
      /\ Put(c, r)
  BY DEF SpoolInv, Typed, onInitializedConn, Woken
<1>2. /\ IsConn(r) /\ r.sender = "idle" /\ r.notify /\ r.worker = "begin"
      /\ r.down = conns[c].down /\ r.acked = conns[c].acked /\ r.ack = conns[c].ack
  BY <1>1 DEF Started, IsConn
<1> HIDE DEF r
<1>3. /\ DOMAIN conns' = Conns /\ conns'[c] = r
      /\ \A d \in Conns : d # c => conns'[d] = conns[d]
  BY <1>1 DEF Put
<1>4. crossed' \in Nat /\ (crossed' = 0 => crossed = 0 /\ \A d \in Conns \ {c} : ~Sends(conns[d]))
  <2> DEFINE met == {d \in Conns \ {c} : Sends(conns[d])}
  <2>1. crossed' = crossed + Cardinality(met)
    <3>1. met = {d \in {e \in Conns \ {c} : HasSender(e) \/ (InList(e) /\ IsInitialized(e))} : HasSender(d)}
      BY DEF HasSender, Sends
    <3> QED BY <1>1, <3>1
  <2>2. Cardinality(met) \in Nat /\ (Cardinality(met) = 0 => met = {})
    BY Meeting
  <2> HIDE DEF met
  <2>3. crossed' \in Nat /\ (crossed' = 0 => crossed = 0 /\ met = {})
    BY <2>1, <2>2 DEF SpoolInv, Typed
  <2> QED BY <2>3 DEF met
<1>5. Typed'
  BY <1>1, <1>2, <1>3, <1>4 DEF SpoolInv, Typed
<1>6. ASSUME crossed' = 0 PROVE InOrder'
  <2>1. crossed = 0 /\ \A d \in Conns \ {c} : ~Sends(conns[d])
    BY <1>4, <1>6
  <2>2. OneSender'
    BY <1>3, <2>1 DEF OneSender
  <2>3. UnderWay(r, spool, got)
    BY <1>1, <1>2, <2>1 DEF SpoolInv, InOrder, UnderWay, Quiet
  <2>4. ASSUME NEW d \in Conns PROVE UnderWay(conns'[d], spool, got)
    BY <1>3, <2>1, <2>3 DEF SpoolInv, InOrder
  <2> QED BY <1>1, <2>1, <2>2, <2>4 DEF SpoolInv, InOrder
<1>7. WakeIsPending'
  BY <1>1, <1>2, <1>3 DEF WakeIsPending
<1> QED BY <1>5, <1>6, <1>7 DEF SpoolInv

(* A step of the sender that leaves the spool. *)
SenderKeepsSpool(c) ==
    Wakes(c) \/ HeartbeatFails(c) \/ Peek(c) \/ SendMessage(c) \/ GotAck(c) \/ AckTimeout(c)

LEMMA SenderKeeps ==
    ASSUME SpoolInv, NEW c \in Conns, SenderKeepsSpool(c)
    PROVE  SpoolInv'
<1> DEFINE o == conns[c]
           n == conns'[c]
<1>1. IsConn(o) /\ (crossed = 0 => UnderWay(o, spool, got)) /\ DOMAIN conns = Conns
  BY DEF SpoolInv, Typed, InOrder
<1>2. UNCHANGED <<stage, spool, connsByID, got, removed, crossed>>
  BY DEF SenderKeepsSpool, Wakes, HeartbeatFails, Peek, SendMessage, GotAck, AckTimeout, history
<1>3. Put(c, n)
  BY <1>1 DEF SenderKeepsSpool, Wakes, HeartbeatFails, Peek, SendMessage, GotAck, AckTimeout, Put
<1>4. /\ Goes(o, n) /\ n.worker = o.worker
      /\ \/ n.sender = "gone" /\ Sends(o)
         \/ o.sender = "idle" /\ n.sender = "look" /\ (Quiet(o) => Quiet(n))
         \/ o.sender = "look" /\ n.sender = "idle" /\ (Quiet(o) => Quiet(n))
         \/ o.sender = "look" /\ n.sender = "send" /\ (Quiet(o) => Quiet(n))
            /\ spool # <<>> /\ n.msg = Head(spool)
         \/ o.sender = "send" /\ n.sender = "wait" /\ n.down \in {o.down, o.msg}
            /\ n.acked = o.acked /\ n.ack = o.ack
         \/ o.sender = "wait" /\ n.sender = "advance" /\ o.ack /\ ~n.ack
            /\ n.acked = o.acked /\ n.down = o.down
  <2>1. CASE Wakes(c)
    BY <1>1, <2>1 DEF Wakes, Put, IsConn, Goes, Sends, Quiet
  <2>2. CASE HeartbeatFails(c)
    BY <1>1, <2>2 DEF HeartbeatFails, Put, IsConn, Goes, Sends
  <2>3. CASE Peek(c)
    <3>1. CASE spool = <<>>
      BY <1>1, <2>3, <3>1 DEF Peek, Put, IsConn, Goes, Sends, Quiet
    <3>2. CASE spool # <<>> /\ Head(spool) \in Plain
      BY <1>1, <2>3, <3>2 DEF Peek, Put, IsConn, Goes, Sends
    <3>3. CASE spool # <<>> /\ Head(spool) \notin Plain
      BY <1>1, <2>3, <3>3 DEF Peek, Put, IsConn, Goes, Sends, Quiet
    <3> QED BY <3>1, <3>2, <3>3
  <2>4. CASE SendMessage(c)
    <3>1. /\ o.sender = "send"
          /\ \/ n = [o EXCEPT !.sender = "wait", !.msg = None, !.down = o.msg]
             \/ n = [o EXCEPT !.sender = "wait", !.msg = None]
             \/ n = [o EXCEPT !.sender = "gone", !.msg = None, !.up = FALSE]
      BY <1>1, <2>4 DEF SendMessage, Put, IsConn
    <3> HIDE DEF n
    <3> QED BY <1>1, <3>1 DEF IsConn, Goes, Sends
  <2>5. CASE GotAck(c)
    BY <1>1, <2>5 DEF GotAck, Put, IsConn, Goes, Sends
  <2>6. CASE AckTimeout(c)
    BY <1>1, <2>6 DEF AckTimeout, Unacked, Put, IsConn, Goes, Sends
  <2> QED BY <2>1, <2>2, <2>3, <2>4, <2>5, <2>6 DEF SenderKeepsSpool
<1> HIDE DEF n
<1>5. crossed = 0 => UnderWay(n, spool, got)
  BY <1>1, <1>4 DEF UnderWay, Quiet, Sends
<1> QED BY <1>2, <1>3, <1>4, <1>5, ConnStep

(* An order to close makes a worker leave its loop, or ends a sender. *)
LEMMA CloseKeeps ==
    ASSUME SpoolInv, NEW c \in Conns, Close(c)
    PROVE  SpoolInv'
<1>1. DOMAIN conns = Conns /\ \A d \in Conns : IsConn(conns[d])
  BY DEF SpoolInv, Typed
<1>2. UNCHANGED <<stage, spool, connsByID, got, removed, crossed>>
  BY DEF Close, history
<1>3. /\ DOMAIN conns' = Conns
      /\ \A d \in Conns :
            /\ IsConn(conns'[d])
            /\ conns'[d].sender \in {conns[d].sender, "gone"}
            /\ conns'[d].worker \in {conns[d].worker, "exit"}
            /\ conns'[d].up = conns[d].up /\ conns'[d].notify = conns[d].notify
            /\ conns'[d].msg = conns[d].msg /\ conns'[d].down = conns[d].down
            /\ conns'[d].ack = conns[d].ack /\ conns'[d].acked = conns[d].acked
            /\ conns[d].sender = "none" => conns'[d].sender = "none"
  <2> DEFINE d == Head(conns[c].toClose)
             rest == [conns EXCEPT ![c].toClose = Tail(@)]
  <2>1. /\ DOMAIN rest = Conns
        /\ \A e \in Conns :
              /\ IsConn(rest[e]) /\ rest[e].sender = conns[e].sender /\ rest[e].up = conns[e].up
              /\ rest[e].worker = conns[e].worker /\ rest[e].notify = conns[e].notify
              /\ rest[e].msg = conns[e].msg /\ rest[e].down = conns[e].down
              /\ rest[e].ack = conns[e].ack /\ rest[e].acked = conns[e].acked
    BY <1>1 DEF IsConn
  <2>2. \/ conns' = [rest EXCEPT ![d].worker = "exit"]
        \/ SenderTakes(d) /\ conns' = [rest EXCEPT ![d].sender = "gone"]
    BY DEF Close
  <2> HIDE DEF rest, d
  <2>3. CASE conns' = [rest EXCEPT ![d].worker = "exit"]
    BY <2>1, <2>3 DEF IsConn
  <2>4. CASE SenderTakes(d) /\ conns' = [rest EXCEPT ![d].sender = "gone"]
    BY <2>1, <2>4 DEF IsConn, SenderTakes
  <2> QED BY <2>2, <2>3, <2>4
<1>4. Typed'
  BY <1>2, <1>3 DEF SpoolInv, Typed
<1>5. ASSUME crossed = 0 PROVE InOrder'
  <2>1. OneSender'
    BY <1>3, <1>5 DEF SpoolInv, InOrder, OneSender, Sends
  <2>2. ASSUME NEW d \in Conns PROVE UnderWay(conns'[d], spool, got)
    BY <1>3, <1>5 DEF SpoolInv, InOrder, UnderWay, Quiet
  <2> QED BY <1>2, <1>5, <2>1, <2>2 DEF SpoolInv, InOrder
<1>6. WakeIsPending'
  BY <1>2, <1>3 DEF SpoolInv, WakeIsPending
<1> QED BY <1>2, <1>4, <1>5, <1>6 DEF SpoolInv

LEMMA AdvanceKeeps ==
    ASSUME SpoolInv, NEW c \in Conns, Advance(c)
    PROVE  SpoolInv'
<1> DEFINE n == [conns[c] EXCEPT !.sender = "look"]
<1>1. /\ IsConn(conns[c]) /\ DOMAIN conns = Conns /\ conns[c].sender = "advance"
      /\ spool \in Seq(Messages) /\ UNCHANGED <<stage, connsByID, got, crossed>>
      /\ conns' = [conns EXCEPT ![c] = n]
      /\ spool' = IF spool = <<>> THEN spool ELSE Tail(spool)
      /\ removed' = IF spool = <<>> THEN removed ELSE removed \cup {Head(spool)}
  BY DEF SpoolInv, Typed, Advance, Put
<1>2. /\ IsConn(n) /\ n.sender = "look" /\ n.worker = conns[c].worker
      /\ Quiet(conns[c]) => Quiet(n)
  BY <1>1 DEF IsConn, Quiet
<1> HIDE DEF n
<1>3. /\ DOMAIN conns' = Conns /\ conns'[c] = n
      /\ \A d \in Conns : d # c => conns'[d] = conns[d]
  BY <1>1
<1>4. spool' \in Seq(Messages) /\ (spool' # <<>> => spool # <<>>)
  BY <1>1
<1>5. Typed'
  BY <1>1, <1>2, <1>3, <1>4 DEF SpoolInv, Typed
<1>6. ASSUME crossed = 0 PROVE InOrder'
  <2>1. UnderWay(conns[c], spool, got) /\ Sends(conns[c])
    BY <1>1, <1>6 DEF SpoolInv, InOrder, Sends
  <2>2. spool # <<>> /\ Head(spool) \in got /\ Quiet(n)
    BY <1>1, <1>2, <2>1 DEF UnderWay
  <2>3. UnderWay(n, spool', got)
    BY <1>1, <1>2, <2>1, <2>2 DEF UnderWay
  <2>4. ASSUME NEW d \in Conns, d # c PROVE UnderWay(conns[d], spool', got)
    <3>1. ~Sends(conns[d]) /\ UnderWay(conns[d], spool, got)
      BY <1>6, <2>1, <2>4 DEF SpoolInv, InOrder, OneSender
    <3> QED BY <3>1 DEF UnderWay, Sends
  <2>5. OneSender'
    BY <1>3, <1>6, <2>1 DEF SpoolInv, InOrder, OneSender, Sends
  <2>6. removed' \subseteq got'
    BY <1>1, <1>6, <2>2 DEF SpoolInv, InOrder
  <2> QED BY <1>1, <1>3, <2>3, <2>4, <2>5, <2>6 DEF InOrder
<1>7. WakeIsPending'
  BY <1>1, <1>2, <1>3, <1>4 DEF SpoolInv, WakeIsPending
<1> QED BY <1>1, <1>5, <1>6, <1>7 DEF SpoolInv

(* The gateway's workers append to the spool and wake the connection. *)
LEMMA GatewayKeeps ==
    ASSUME SpoolInv, NEW m \in Messages, GatewayStep(m)
    PROVE  SpoolInv'
<1>1. /\ DOMAIN conns = Conns /\ \A c \in Conns : IsConn(conns[c])
      /\ stage \in [Messages -> [at : {"coming", "taken", "stored", "found", "done"},
                                 conn : Conns \cup {0}]]
      /\ spool \in Seq(Messages) /\ connsByID \in Conns \cup {0}
  BY DEF SpoolInv, Typed
<1>2. UNCHANGED <<connsByID, got, removed, crossed>>
  BY DEF GatewayStep, Take, StoreReply, FindConn, Notify, history
<1>3. CASE Take(m)
  <2>1. UNCHANGED <<spool, conns>>
    BY <1>3 DEF Take
  <2>2. /\ stage' \in [Messages -> [at : {"coming", "taken", "stored", "found", "done"},
                                    conn : Conns \cup {0}]]
        /\ \A k \in Messages : stage[k].at \in {"stored", "found"} => stage'[k] = stage[k]
    <3>1. /\ stage[m].at = "coming"
          /\ \E at \in {"taken", "done"} : stage' = [stage EXCEPT ![m] = [at |-> at, conn |-> 0]]
      BY <1>3 DEF Take, At
    <3> QED BY <1>1, <3>1
  <2>3. Typed'
    BY <1>2, <2>1, <2>2 DEF SpoolInv, Typed
  <2>4. crossed = 0 => InOrder'
    BY <1>2, <2>1 DEF SpoolInv, InOrder, OneSender
  <2>5. WakeIsPending'
    BY <1>2, <2>1, <2>2 DEF SpoolInv, WakeIsPending
  <2> QED BY <1>2, <2>3, <2>4, <2>5 DEF SpoolInv
<1>4. CASE StoreReply(m)
  <2>1. UNCHANGED conns /\ spool' = Append(spool, m) /\ stage'[m].at = "stored"
    BY <1>1, <1>4 DEF StoreReply, At
  <2>2. /\ spool' \in Seq(Messages)
        /\ spool # <<>> => spool' # <<>> /\ Head(spool') = Head(spool)
    BY <1>1, <2>1
  <2>3. stage' \in [Messages -> [at : {"coming", "taken", "stored", "found", "done"},
                                 conn : Conns \cup {0}]]
    BY <1>1, <1>4 DEF StoreReply, At
  <2>4. Typed'
    BY <1>2, <2>1, <2>2, <2>3 DEF SpoolInv, Typed
  <2>5. ASSUME crossed = 0 PROVE InOrder'
    <3>1. ASSUME NEW c \in Conns PROVE UnderWay(conns[c], spool', got)
      BY <1>1, <2>2, <2>5 DEF SpoolInv, InOrder, UnderWay
    <3> QED BY <1>2, <2>1, <2>5, <3>1 DEF SpoolInv, InOrder, OneSender
  <2>6. WakeIsPending'
    BY <2>1 DEF WakeIsPending
  <2> QED BY <1>2, <2>4, <2>5, <2>6 DEF SpoolInv
<1>5. CASE FindConn(m)
  <2>1. UNCHANGED <<spool, conns>>
    BY <1>5 DEF FindConn
  <2>2. /\ stage' \in [Messages -> [at : {"coming", "taken", "stored", "found", "done"},
                                    conn : Conns \cup {0}]]
        /\ \A k \in Messages \ {m} : stage'[k] = stage[k]
        /\ \A c \in Conns : connsByID = c => stage'[m] = [at |-> "found", conn |-> c]
        /\ stage[m].at = "stored"
    BY <1>1, <1>5, SpoolAssumption DEF FindConn, At, Conns
  <2>3. Typed'
    BY <1>2, <2>1, <2>2 DEF SpoolInv, Typed
  <2>4. crossed = 0 => InOrder'
    BY <1>2, <2>1 DEF SpoolInv, InOrder, OneSender
  <2>5. WakeIsPending'
    BY <1>2, <2>1, <2>2 DEF SpoolInv, WakeIsPending
  <2> QED BY <1>2, <2>3, <2>4, <2>5 DEF SpoolInv
<1>6. CASE Notify(m)
  <2> DEFINE w == stage[m].conn
  <2>1. /\ DOMAIN conns' = Conns
        /\ \A c \in Conns :
              /\ IsConn(conns'[c])
              /\ conns'[c].sender = conns[c].sender /\ conns'[c].worker = conns[c].worker
              /\ conns'[c].up = conns[c].up /\ conns'[c].msg = conns[c].msg
              /\ conns'[c].down = conns[c].down /\ conns'[c].ack = conns[c].ack
              /\ conns'[c].acked = conns[c].acked
              /\ conns[c].notify => conns'[c].notify
              /\ c = w /\ conns[c].sender = "idle" => conns'[c].notify
    <3>1. conns' = [conns EXCEPT ![w].notify = @ \/ Pending(conns[w])]
      BY <1>6 DEF Notify
    <3>2. ASSUME NEW c \in Conns, c # w PROVE conns'[c] = conns[c]
      BY <1>1, <3>1, <3>2
    <3>3. ASSUME NEW c \in Conns, c = w
          PROVE  /\ IsConn(conns'[c])
                 /\ conns'[c].sender = conns[c].sender /\ conns'[c].worker = conns[c].worker
                 /\ conns'[c].up = conns[c].up /\ conns'[c].msg = conns[c].msg
                 /\ conns'[c].down = conns[c].down /\ conns'[c].ack = conns[c].ack
                 /\ conns'[c].acked = conns[c].acked
                 /\ conns[c].notify => conns'[c].notify
                 /\ conns[c].sender = "idle" => conns'[c].notify
      BY <1>1, <3>1, <3>3 DEF IsConn, Pending
    <3>4. DOMAIN conns' = Conns
      BY <1>1, <3>1
    <3> QED BY <1>1, <3>2, <3>3, <3>4
  <2>2. /\ stage' \in [Messages -> [at : {"coming", "taken", "stored", "found", "done"},
                                    conn : Conns \cup {0}]]
        /\ \A k \in Messages \ {m} : stage'[k] = stage[k]
        /\ stage[m].at = "found" /\ UNCHANGED spool
    BY <1>1, <1>6 DEF Notify, At
  <2>3. Typed'
    BY <1>2, <2>1, <2>2 DEF SpoolInv, Typed
  <2>4. ASSUME crossed = 0 PROVE InOrder'
    <3>1. ASSUME NEW c \in Conns PROVE UnderWay(conns'[c], spool, got)
      BY <2>1, <2>4 DEF SpoolInv, InOrder, UnderWay, Quiet
    <3>2. OneSender'
      BY <2>1, <2>4 DEF SpoolInv, InOrder, OneSender, Sends
    <3> QED BY <1>2, <2>2, <2>4, <3>1, <3>2 DEF SpoolInv, InOrder
  <2>5. WakeIsPending'
    BY <1>2, <2>1, <2>2 DEF SpoolInv, WakeIsPending
  <2> QED BY <1>2, <2>3, <2>4, <2>5 DEF SpoolInv
<1> QED BY <1>3, <1>4, <1>5, <1>6 DEF GatewayStep

(* The garbage collection spoils the order only where it empties the spool of a sender. *)
LEMMA VacuumKeeps ==
    ASSUME SpoolInv, VacuumExpired
    PROVE  SpoolInv'
<1>1. /\ UNCHANGED <<stage, conns, connsByID, got, removed>>
      /\ crossed' = IF gc THEN crossed ELSE crossed + Cardinality({c \in Conns : HasSender(c)})
      /\ spool' = IF gc THEN spool ELSE <<>>
  BY DEF VacuumExpired
<1>2. <<>> \in Seq(Messages)
  OBVIOUS
<1> DEFINE met == {c \in Conns : HasSender(c)}
<1>6. Cardinality(met) \in Nat /\ (Cardinality(met) = 0 => met = {})
  BY Meeting
<1>7. crossed' = IF gc THEN crossed ELSE crossed + Cardinality(met)
  BY <1>1
<1> HIDE DEF met
<1>3. Typed'
  BY <1>1, <1>2, <1>6, <1>7 DEF SpoolInv, Typed
<1>4. ASSUME crossed' = 0 PROVE InOrder'
  <2>1. CASE gc
    BY <1>1, <1>4, <2>1 DEF SpoolInv, InOrder, OneSender
  <2>2. CASE ~gc
    <3>1. crossed = 0 /\ met = {}
      BY <1>6, <1>7, <1>4, <2>2 DEF SpoolInv, Typed
    <3>3. \A c \in Conns : conns[c].sender \in {"none", "gone"}
      BY <3>1 DEF met, HasSender
    <3>2. ASSUME NEW c \in Conns PROVE UnderWay(conns[c], spool', got)
      BY <3>1, <3>3 DEF SpoolInv, InOrder, UnderWay
    <3> QED BY <1>1, <3>1, <3>3, <3>2 DEF SpoolInv, InOrder, OneSender
  <2> QED BY <2>1, <2>2
<1>5. WakeIsPending'
  BY <1>1 DEF SpoolInv, WakeIsPending
<1> QED BY <1>3, <1>4, <1>5 DEF SpoolInv

LEMMA SpoolUnchanged ==
    ASSUME SpoolInv, UNCHANGED <<stage, spool, conns, connsByID, got, removed, crossed>>
    PROVE  SpoolInv'
BY DEF SpoolInv, Typed, InOrder, OneSender, WakeIsPending

LEMMA SpoolNext == SpoolInv /\ [Next]_vars => SpoolInv'
<1> SUFFICES ASSUME SpoolInv, [Next]_vars PROVE SpoolInv'
  OBVIOUS
<1>1. ASSUME NEW c \in Conns,
             WorkerStep(c) \/ SenderStep(c) \/ AckTimeout(c) \/ ClientStep(c) \/ Drop(c)
      PROVE  SpoolInv'
  <2>1. CASE WorkerStep(c)
    BY <2>1, WorkerKeeps, SenderStarts, CloseKeeps DEF WorkerStep, WorkerKeepsSender
  <2>2. CASE SenderStep(c) \/ AckTimeout(c)
    BY <2>2, SenderKeeps, AdvanceKeeps DEF SenderStep, SenderKeepsSpool
  <2>3. CASE ClientStep(c) \/ Drop(c)
    BY <2>3, ClientKeeps DEF ClientStep, ReadIdleTimeout, Drop
  <2> QED BY <1>1, <2>1, <2>2, <2>3
<1>2. CASE ConnectedClients
  BY <1>2, SpoolUnchanged DEF ConnectedClients, history
<1>3. CASE UNCHANGED vars
  BY <1>3, SpoolUnchanged DEF vars
<1> QED BY <1>1, <1>2, <1>3, GatewayKeeps, VacuumKeeps DEF Next

LEMMA SpoolAlways == Spec => []SpoolInv
BY SpoolInit, SpoolNext, PTL DEF Spec

-------------------------------------------------------------------------------
(* What a sender removes from the spool its client has, for any number of messages and
   connections, over lost connections, lost or late acknowledgements and timeouts, unless
   the spool has had two senders or was emptied under one. *)
THEOREM RemovedIsDelivered == Spec => []GoneIsDelivered
<1>1. SpoolInv => GoneIsDelivered
  BY DEF SpoolInv, InOrder, GoneIsDelivered
<1> QED BY <1>1, SpoolAlways, PTL

(* No wake is lost between the store, the look-up of the connection and its channel, also
   while connections come and go and the spool has several senders. *)
THEOREM NoWakeIsLost == Spec => []WakeIsPending
<1>1. SpoolInv => WakeIsPending
  BY DEF SpoolInv
<1> QED BY <1>1, SpoolAlways, PTL

-------------------------------------------------------------------------------
(* The service node *)


(* Launches are numbered, and one that has not been has no worker. *)
Registered ==
    /\ launched \in Seq(Endpoints) /\ Len(launched) <= MaxLaunches
    /\ pluginChans \in [Endpoints -> Nat] /\ DOMAIN worker = Launches
    /\ clients \subseteq 1..Len(launched)
    /\ \A g \in Launches : g > Len(launched) => worker[g] = Absent

(* A channel is that of the last launch of its endpoint, which is a client, or failed. *)
ChannelsHaveClients ==
    \A e \in Endpoints : IsKaetzchen(e) =>
        /\ pluginChans[e] \in 1..Len(launched) /\ launched[pluginChans[e]] = e
        /\ pluginChans[e] \in clients \/ worker[pluginChans[e]] = Absent

(* A client has the channel of its endpoint. *)
ClientsHaveChannels == \A g \in clients : pluginChans[launched[g]] = g

(* The lock is held by the last launch, which is no client yet and has its channel. *)
LastIsLaunching ==
    lock # 0 => /\ lock = Len(launched) /\ lock \in Launches /\ lock \notin clients
                /\ pluginChans[launched[lock]] = lock

ServiceInv == Registered /\ ChannelsHaveClients /\ ClientsHaveChannels /\ LastIsLaunching

LEMMA ServiceStarts == ASSUME ServiceAssumption, ServiceInit PROVE ServiceInv
<1> DEFINE N == Len(Plugins)
<1>1. /\ Plugins \in Seq(Endpoints) /\ N \in Nat /\ DOMAIN Plugins = 1..N /\ N <= MaxLaunches /\ MaxLaunches \in Nat
      /\ \A i, j \in 1..N : Plugins[i] = Plugins[j] => i = j
      /\ \A i \in 1..N : Plugins[i] \in Endpoints
  BY DEF ServiceAssumption, Endpoints
<1>2. /\ launched = Plugins /\ clients = 1..N /\ lock = 0
      /\ pluginChans = [e \in Endpoints |-> CHOOSE i \in 1..N : Plugins[i] = e]
      /\ worker = [g \in Launches |-> IF g \in 1..N THEN FreshWorker ELSE Absent]
  BY <1>1 DEF ServiceInit
<1> HIDE DEF N
<1>3. \A e \in Endpoints : pluginChans[e] \in 1..N /\ Plugins[pluginChans[e]] = e
  <2> SUFFICES ASSUME NEW e \in Endpoints PROVE pluginChans[e] \in 1..N /\ Plugins[pluginChans[e]] = e
    OBVIOUS
  <2>1. \E i \in 1..N : Plugins[i] = e
    BY <1>1 DEF Endpoints
  <2>2. pluginChans[e] = CHOOSE i \in 1..N : Plugins[i] = e
    BY <1>2
  <2> QED BY <2>1, <2>2
<1>4. Registered
  <2>1. pluginChans \in [Endpoints -> Nat]
    BY <1>1, <1>2, <1>3
  <2>2. \A g \in Launches : g > N => worker[g] = Absent
    BY <1>1, <1>2 DEF Launches
  <2> QED BY <1>1, <1>2, <2>1, <2>2 DEF Registered, N
<1>5. ChannelsHaveClients
  BY <1>2, <1>3 DEF ChannelsHaveClients, N
<1>6. ClientsHaveChannels
  BY <1>1, <1>2, <1>3 DEF ClientsHaveChannels
<1> QED BY <1>2, <1>4, <1>5, <1>6 DEF ServiceInv, LastIsLaunching

(* What everything keeps that neither registers nor unregisters. *)
LEMMA SameClients ==
    ASSUME ServiceAssumption, ServiceInv, UNCHANGED <<pluginChans, launched, clients, lock>>, DOMAIN worker' = Launches,
           \A g \in Launches : worker[g] = Absent => worker'[g] = Absent
    PROVE  ServiceInv'
<1>1. Registered'
  BY DEF ServiceInv, Registered, Absent
<1>2. ChannelsHaveClients'
  <2> SUFFICES ASSUME NEW e \in Endpoints, IsKaetzchen(e), pluginChans[e] \notin clients
               PROVE  /\ pluginChans[e] \in 1..Len(launched) /\ launched[pluginChans[e]] = e
                      /\ worker'[pluginChans[e]] = Absent
    BY DEF ServiceInv, ChannelsHaveClients, IsKaetzchen, Absent
  <2>1. /\ pluginChans[e] \in 1..Len(launched) /\ launched[pluginChans[e]] = e
        /\ worker[pluginChans[e]] = Absent
    BY DEF ServiceInv, ChannelsHaveClients
  <2>2. pluginChans[e] \in Launches
    BY <2>1 DEF ServiceInv, Registered, Launches, ServiceAssumption
  <2> QED BY <2>1, <2>2
<1> QED BY <1>1, <1>2 DEF ServiceInv, ClientsHaveChannels, LastIsLaunching

LEMMA PluginWorkerStep ==
    ASSUME ServiceAssumption, ServiceInv, NEW g \in Launches, StartWorker(g) \/ TakeRequest(g) \/ WriteChan(g)
    PROVE  ServiceInv'
<1>1. UNCHANGED <<pluginChans, launched, clients, lock>> /\ worker[g] # Absent
  BY DEF StartWorker, TakeRequest, WriteChan, pluginVars, Absent
<1>2. DOMAIN worker' = Launches /\ \A h \in Launches : h # g => worker'[h] = worker[h]
  BY DEF StartWorker, TakeRequest, WriteChan, ServiceInv, Registered
<1> QED BY <1>1, <1>2, SameClients

LEMMA UnregisterStep ==
    ASSUME ServiceAssumption, ServiceInv, NEW g \in Launches, unregister(g) PROVE ServiceInv'
<1>1. /\ g \in clients /\ lock = 0 /\ clients' = clients \ {g}
      /\ pluginChans' = [pluginChans EXCEPT ![launched[g]] = 0]
      /\ UNCHANGED <<launched, lock, worker>>
  BY DEF unregister, Forgotten, launchVars
<1>2. g \in 1..Len(launched) /\ launched[g] \in Endpoints /\ pluginChans[launched[g]] = g
  BY <1>1 DEF ServiceInv, Registered, ClientsHaveChannels
<1>3. /\ pluginChans' \in [Endpoints -> Nat] /\ pluginChans'[launched[g]] = 0
      /\ \A e \in Endpoints : e # launched[g] => pluginChans'[e] = pluginChans[e]
  BY <1>1, <1>2 DEF ServiceInv, Registered
<1>4. Registered'
  BY <1>1, <1>3 DEF ServiceInv, Registered, Absent
<1>5. ChannelsHaveClients'
  <2> SUFFICES ASSUME NEW e \in Endpoints, pluginChans'[e] # 0
               PROVE  /\ pluginChans'[e] \in 1..Len(launched) /\ launched[pluginChans'[e]] = e
                      /\ pluginChans'[e] \in clients' \/ worker[pluginChans'[e]] = Absent
    BY <1>1 DEF ChannelsHaveClients, IsKaetzchen, Absent
  <2>1. pluginChans'[e] = pluginChans[e] /\ e # launched[g]
    BY <1>3
  <2>2. /\ pluginChans[e] \in 1..Len(launched) /\ launched[pluginChans[e]] = e
        /\ pluginChans[e] \in clients \/ worker[pluginChans[e]] = Absent
    BY <2>1 DEF ServiceInv, ChannelsHaveClients, IsKaetzchen
  <2> QED BY <1>1, <2>1, <2>2
<1>6. ClientsHaveChannels'
  <2> SUFFICES ASSUME NEW h \in clients, h # g PROVE pluginChans'[launched[h]] = h
    BY <1>1 DEF ClientsHaveChannels
  <2>1. pluginChans[launched[h]] = h /\ launched[h] \in Endpoints
    BY DEF ServiceInv, ClientsHaveChannels, Registered
  <2> QED BY <1>2, <1>3, <2>1
<1> QED BY <1>1, <1>4, <1>5, <1>6 DEF ServiceInv, LastIsLaunching

LEMMA RegisterStep ==
    ASSUME ServiceAssumption, ServiceInv, NEW e \in Endpoints, register(e) PROVE ServiceInv'
<1> DEFINE g == Len(launched) + 1
<1>1. /\ g \in Launches /\ lock = 0 /\ pluginChans[e] = 0 /\ lock' = g
      /\ launched' = Append(launched, e) /\ pluginChans' = [pluginChans EXCEPT ![e] = g]
      /\ UNCHANGED <<clients, worker>>
  BY DEF register, IsKaetzchen
<1>2. /\ launched' \in Seq(Endpoints) /\ Len(launched') = g /\ launched'[g] = e /\ Len(launched) \in Nat
      /\ \A h \in 1..Len(launched) : launched'[h] = launched[h]
  BY <1>1 DEF ServiceInv, Registered
<1>3. /\ pluginChans' \in [Endpoints -> Nat] /\ pluginChans'[e] = g
      /\ \A f \in Endpoints : f # e => pluginChans'[f] = pluginChans[f]
  BY <1>1, <1>2 DEF ServiceInv, Registered
<1>4. g \notin clients /\ worker[g] = Absent /\ g <= MaxLaunches /\ clients \subseteq 1..g
      /\ 1..Len(launched) \subseteq 1..g /\ g \in 1..g /\ g # 0 /\ \A h \in Launches : h > g => h > Len(launched)
  BY <1>1, <1>2 DEF ServiceInv, Registered, Launches, ServiceAssumption
<1> HIDE DEF g
<1>5. Registered'
  BY <1>1, <1>2, <1>3, <1>4 DEF ServiceInv, Registered, Absent
<1>6. ChannelsHaveClients'
  <2> SUFFICES ASSUME NEW f \in Endpoints, pluginChans'[f] # 0
               PROVE  /\ pluginChans'[f] \in 1..g /\ launched'[pluginChans'[f]] = f
                      /\ pluginChans'[f] \in clients \/ worker[pluginChans'[f]] = Absent
    BY <1>1, <1>2 DEF ChannelsHaveClients, IsKaetzchen, Absent
  <2>1. CASE f = e
    BY <1>2, <1>3, <1>4, <2>1
  <2>2. CASE f # e
    <3>1. pluginChans'[f] = pluginChans[f]
      BY <1>3, <2>2
    <3>2. /\ pluginChans[f] \in 1..Len(launched) /\ launched[pluginChans[f]] = f
          /\ pluginChans[f] \in clients \/ worker[pluginChans[f]] = Absent
      BY <3>1 DEF ServiceInv, ChannelsHaveClients, IsKaetzchen
    <3> QED BY <1>2, <1>4, <3>1, <3>2
  <2> QED BY <2>1, <2>2
<1>7. ClientsHaveChannels'
  <2> SUFFICES ASSUME NEW h \in clients PROVE pluginChans'[launched'[h]] = h
    BY <1>1 DEF ClientsHaveChannels
  <2>1. h \in 1..Len(launched) /\ pluginChans[launched[h]] = h /\ launched[h] \in Endpoints /\ h # 0
    BY DEF ServiceInv, ClientsHaveChannels, Registered
  <2>2. launched'[h] = launched[h] /\ launched[h] # e
    BY <1>1, <1>2, <2>1
  <2> QED BY <1>3, <2>1, <2>2
<1>8. LastIsLaunching'
  BY <1>1, <1>2, <1>3, <1>4 DEF LastIsLaunching
<1> QED BY <1>5, <1>6, <1>7, <1>8 DEF ServiceInv

LEMMA LaunchStep ==
    ASSUME ServiceAssumption, ServiceInv, NEW g \in Launches, Launch(g) PROVE ServiceInv'
<1>1. /\ lock = g /\ lock' = 0 /\ clients' = clients \cup {g}
      /\ worker' = [worker EXCEPT ![g] = FreshWorker] /\ UNCHANGED <<pluginChans, launched>>
  BY DEF Launch
<1>2. g # 0 /\ g = Len(launched) /\ pluginChans[launched[g]] = g /\ g \in 1..Len(launched)
  BY <1>1 DEF ServiceInv, LastIsLaunching, Launches, Registered
<1>3. DOMAIN worker' = Launches /\ \A h \in Launches : h # g => worker'[h] = worker[h]
  BY <1>1 DEF ServiceInv, Registered
<1>4. Registered'
  <2>1. \A h \in Launches : h > Len(launched) => h # g
    BY <1>2 DEF Launches
  <2> QED BY <1>1, <1>2, <1>3, <2>1 DEF ServiceInv, Registered, Absent
<1>5. ChannelsHaveClients'
  <2> SUFFICES ASSUME NEW e \in Endpoints, pluginChans[e] # 0
               PROVE  /\ pluginChans[e] \in 1..Len(launched) /\ launched[pluginChans[e]] = e
                      /\ pluginChans[e] \in clients' \/ worker'[pluginChans[e]] = Absent
    BY <1>1 DEF ChannelsHaveClients, IsKaetzchen, Absent
  <2>1. /\ pluginChans[e] \in 1..Len(launched) /\ launched[pluginChans[e]] = e
        /\ pluginChans[e] \in clients \/ worker[pluginChans[e]] = Absent
    BY DEF ServiceInv, ChannelsHaveClients, IsKaetzchen
  <2>2. pluginChans[e] \in Launches
    BY <2>1 DEF ServiceInv, Registered, Launches, ServiceAssumption
  <2> QED BY <1>1, <1>3, <2>1, <2>2
<1> QED BY <1>1, <1>2, <1>4, <1>5 DEF ServiceInv, ClientsHaveChannels, LastIsLaunching

LEMMA ServiceSteps == ASSUME ServiceAssumption, ServiceInv, [ServiceNext]_serviceVars PROVE ServiceInv'
<1>1. DOMAIN worker = Launches
  BY DEF ServiceInv, Registered
<1>2. CASE UNCHANGED serviceVars
  BY <1>1, <1>2, SameClients DEF serviceVars
<1>3. ASSUME NEW m \in Packets, OnPacket(m) PROVE ServiceInv'
  BY <1>1, <1>3, SameClients DEF OnPacket, pluginVars, launchVars
<1>4. ASSUME NEW w \in Workers, ServiceStep(w) PROVE ServiceInv'
  <2>1. UNCHANGED <<pluginChans, launched, clients, lock, worker>>
    BY <1>4 DEF ServiceStep, TakePacket, AskBuiltin, AskPlugins, FindChan, OnKaetzchen, OnBuiltin, pluginVars, launchVars
  <2> QED BY <1>1, <2>1, SameClients
<1>5. ASSUME ProcessBuiltin \/ SwitchBuiltin PROVE ServiceInv'
  BY <1>1, <1>5, SameClients DEF ProcessBuiltin, SwitchBuiltin, pluginVars, launchVars
<1>6. ASSUME NEW g \in Launches, PluginStep(g) PROVE ServiceInv'
  BY <1>6, PluginWorkerStep DEF PluginStep
<1>7. ASSUME NEW g \in Launches, SocketStep(g) \/ Respond(g) \/ StderrCloses(g) \/ Reap(g) PROVE ServiceInv'
  <2>1. UNCHANGED <<pluginChans, launched, clients, lock, worker>>
    BY <1>7 DEF SocketStep, Encode, ReaderFails, Respond, StderrCloses, Reap, Ends, pluginVars, launchVars
  <2> QED BY <1>1, <2>1, SameClients
<1>8. ASSUME NEW g \in Launches, Crash(g) \/ Hang(g) \/ UnregisterKaetzchen(g) \/ LaunchIsSilent(g) \/ LaunchPanics(g)
      PROVE ServiceInv'
  <2>1. UNCHANGED <<pluginChans, launched, clients, lock, worker>>
    BY <1>8 DEF Crash, Hang, UnregisterKaetzchen, LaunchIsSilent, LaunchPanics, Ends, pluginVars, launchVars
  <2> QED BY <1>1, <2>1, SameClients
<1>9. ASSUME NEW g \in Launches, LaunchFails(g) PROVE ServiceInv'
  <2>1. lock' = 0 /\ UNCHANGED <<pluginChans, launched, clients, worker>>
    BY <1>9 DEF LaunchFails
  <2> QED BY <2>1 DEF ServiceInv, Registered, ChannelsHaveClients, ClientsHaveChannels, LastIsLaunching, IsKaetzchen, Absent
<1> QED BY <1>2, <1>3, <1>4, <1>5, <1>6, <1>7, <1>8, <1>9, UnregisterStep, RegisterStep, LaunchStep
    DEF ServiceNext, ReaperStep, Beyond

LEMMA InvImpliesAdvertised == ASSUME ServiceInv PROVE AdvertisedIsServed
<1> SUFFICES ASSUME NEW e \in Endpoints,
                    ~(IsKaetzchen(e) /\ worker[pluginChans[e]] = Absent)
             PROVE  {g \in clients : launched[g] = e} = IF IsKaetzchen(e) THEN {pluginChans[e]} ELSE {}
  BY DEF AdvertisedIsServed
<1>1. \A g \in clients : launched[g] = e => pluginChans[e] = g /\ g # 0
  BY DEF ServiceInv, ClientsHaveChannels, Registered
<1>2. IsKaetzchen(e) => pluginChans[e] \in clients /\ launched[pluginChans[e]] = e
  BY DEF ServiceInv, ChannelsHaveClients
<1> QED BY <1>1, <1>2 DEF IsKaetzchen

(* register, unregister and the launch between them keep the channels and the clients of a
   node the same: for any number of plugins, launches and packets, with plugins that crash,
   hang, are stopped and are started again, what the node advertises is what it hands
   packets to, but for the endpoint of a plugin that could not be launched. *)
THEOREM AdvertisedServicesAreServed == ServiceSpec => []AdvertisedIsServed
<1>1. ServiceInit => ServiceInv
  BY ServiceStarts, ServiceAssumption
<1>2. ServiceInv /\ [ServiceNext]_serviceVars => ServiceInv'
  BY ServiceSteps, ServiceAssumption
<1>3. ServiceInv => AdvertisedIsServed
  BY InvImpliesAdvertised, ServiceAssumption
<1> QED BY <1>1, <1>2, <1>3, PTL DEF ServiceSpec
===============================================================================
