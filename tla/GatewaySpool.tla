------------------------------ MODULE GatewaySpool ------------------------------
(***************************************************************************)
(* A gateway keeps the replies for one client in its spool and pushes them *)
(* over the client's connection (server/internal/gateway/gateway.go,       *)
(* incoming/listener.go, incoming/incoming_conn.go, spool/boltspool).      *)
(*                                                                         *)
(* A connection has two goroutines: the worker, which reads commands, and  *)
(* the sender, which pushes one entry of the spool at a time and advances  *)
(* the spool when the client has acknowledged it.  A newer connection of   *)
(* the client closes the older ones through an unbuffered channel that     *)
(* both of their goroutines receive from.                                  *)
(***************************************************************************)
EXTENDS Integers, Sequences, FiniteSets

CONSTANTS Messages,    \* what comes out of the mix network for the client
          Plain,       \* those of them that are no SURB replies
          MaxConns,    \* how often the client connects
          None,
          Scenarios    \* what comes, and how often what is beyond the gateway's control
                       \* may happen

ASSUME SpoolAssumption ==
    /\ Plain \subseteq Messages /\ None \notin Messages /\ MaxConns \in Nat \ {0}
    /\ \A s \in Scenarios :
          s \in [spooled : Seq(Messages), coming : SUBSET Messages, drops : Nat, slow : Nat,
                overlaps : Nat, stale : Nat, vacuums : Nat]

Conns == 1..MaxConns

VARIABLES left,        \* what may still happen of the scenario
          stage,       \* of every message: on which way to the spool it is
          spool,       \* the client's bucket of the spool
          conns,       \* the connections of the client, in the order of their arrival
          connsByID,   \* listener.connsByID of the client: a connection, or 0
          gc,          \* what VacuumExpired was told: is the client connected
          got,         \* what the client has received
          removed,     \* what a sender has removed from the spool
          vacuumed,    \* what the garbage collection has removed from it
          crossed,     \* how often a sender has met another one at the spool, or the
                       \* garbage collection
          crashed      \* has the process panicked

vars == <<left, stage, spool, conns, connsByID, gc, got, removed, vacuumed, crossed, crashed>>
history == <<got, removed, vacuumed, crossed, crashed>>

NewConn == [worker |-> "none", toClose |-> <<>>, up |-> FALSE,
            sender |-> "none", notify |-> FALSE, msg |-> None, ack |-> FALSE,
            peer |-> FALSE, down |-> None, acked |-> FALSE]

At(where) == [at |-> where, conn |-> 0]

Init ==
    /\ left \in Scenarios
    /\ stage = [m \in Messages |-> At(IF m \in left.coming THEN "coming" ELSE "done")]
    /\ spool = left.spooled /\ gc = None /\ connsByID = 0
    /\ conns = [c \in Conns |-> NewConn]
    /\ got = {} /\ removed = {} /\ vacuumed = {} /\ crossed = 0 /\ crashed = FALSE

Put(c, r) == conns' = [conns EXCEPT ![c] = r]
Use(what) == left[what] > 0 /\ left' = [left EXCEPT ![what] = @ - 1]

InList(c)        == conns[c].worker \notin {"none", "gone"}
IsInitialized(c) == conns[c].sender # "none"
HasSender(c)     == conns[c].sender \notin {"none", "gone"}

-------------------------------------------------------------------------------
(* The client *)

(* It has one connection at a time, and connects again when it has lost it.  The
   connection is in the listener's list before its handshake. *)
onNewConn(c) ==
    /\ conns[c].worker = "none" /\ \A d \in Conns : ~conns[d].peer
    /\ \A d \in 1..(c - 1) : conns[d].worker # "none"
    /\ Put(c, [NewConn EXCEPT !.worker = "handshake", !.peer = TRUE])
    /\ UNCHANGED <<left, stage, spool, connsByID, gc, history>>

(* It takes a Message and acknowledges it with MessageDelivered. *)
Receive(c) ==
    /\ conns[c].peer /\ conns[c].down # None
    /\ got' = got \cup {conns[c].down}
    /\ Put(c, [conns[c] EXCEPT !.down = None, !.acked = TRUE])
    /\ UNCHANGED <<left, stage, spool, connsByID, gc, removed, vacuumed, crossed, crashed>>

(* The connection breaks, or the client restarts. *)
HangUp(c) ==
    /\ conns[c].peer
    /\ Put(c, [conns[c] EXCEPT !.peer = FALSE, !.down = None])
    /\ UNCHANGED <<stage, spool, connsByID, gc, history>>
Drop(c) == Use("drops") /\ HangUp(c)

(* The client hears nothing for its readIdleTimeout: nobody sends it heartbeats. *)
IsSilent(c) ==
    \/ conns[c].sender = "gone"
    \/ conns[c].sender = "wait" /\ conns[c].down = None
       /\ conns[c].worker = "closing" /\ conns[c].toClose # <<>>
ReadIdleTimeout(c) == IsSilent(c) /\ UNCHANGED left /\ HangUp(c)

-------------------------------------------------------------------------------
(* The worker of a connection *)

(* The handshake ends.  onInitializedConn makes this the connection that is woken, and the
   sender starts with a wake pending. *)
FaultyStarted(r) == [r EXCEPT !.worker = "begin", !.up = TRUE, !.sender = "idle"]    \* no wake
Started(r) == [r EXCEPT !.worker = "begin", !.up = TRUE, !.sender = "idle", !.notify = TRUE]

FaultyWoken(c) == IF connsByID = 0 THEN c ELSE connsByID    \* the eldest stays
Woken(c) == c

onInitializedConn(c) ==
    LET old == {d \in Conns \ {c} : HasSender(d) \/ (InList(d) /\ IsInitialized(d))}
    IN  /\ conns[c].worker = "handshake" /\ conns[c].peer
        /\ IF old = {} THEN UNCHANGED left ELSE Use("overlaps")
        /\ crossed' = crossed + Cardinality({d \in old : HasSender(d)})
        /\ connsByID' = Woken(c)
        /\ Put(c, Started(conns[c]))
        /\ UNCHANGED <<stage, spool, gc, got, removed, vacuumed, crashed>>

HandshakeFails(c) ==
    /\ conns[c].worker = "handshake" /\ ~conns[c].peer
    /\ Put(c, [conns[c] EXCEPT !.worker = "out"])
    /\ UNCHANGED <<left, stage, spool, connsByID, gc, history>>

(* The credentials are logged, and read without a look at the error. *)
LogSource(c) ==
    /\ conns[c].worker = "begin"
    /\ Put(c, [conns[c] EXCEPT !.worker = "listing"])
    /\ crashed' = (crashed \/ ~conns[c].up)
    /\ UNCHANGED <<left, stage, spool, connsByID, gc, got, removed, vacuumed, crossed>>

(* CloseOldConns collects the client's other connections, newest first, ... *)
NewestFirst(S) == SelectSeq([i \in Conns |-> MaxConns + 1 - i], LAMBDA d : d \in S)
Older(c) == NewestFirst({d \in Conns \ {c} : InList(d) /\ IsInitialized(d) /\ conns[d].up})

CloseOldConns(c) ==
    /\ conns[c].worker = "listing"
    /\ Put(c, IF ~conns[c].up THEN [conns[c] EXCEPT !.worker = "exit"]
              ELSE [conns[c] EXCEPT !.worker = "closing", !.toClose = Older(c)])
    /\ UNCHANGED <<left, stage, spool, connsByID, gc, history>>

(* ... and hands each of them the order to close, which its worker may take or its sender. *)
WorkerTakes(d) == conns[d].worker = "loop"
SenderTakes(d) == conns[d].sender \in {"idle", "look", "wait"}

Close(c) ==
    LET d == Head(conns[c].toClose)
        rest == [conns EXCEPT ![c].toClose = Tail(@)]
    IN  /\ conns[c].worker = "closing" /\ conns[c].toClose # <<>>
        /\ \/ WorkerTakes(d) /\ conns' = [rest EXCEPT ![d].worker = "exit"]
           \/ SenderTakes(d) /\ conns' = [rest EXCEPT ![d].sender = "gone"]
        /\ UNCHANGED <<left, stage, spool, connsByID, gc, history>>

StartReading(c) ==
    /\ conns[c].worker = "closing" /\ conns[c].toClose = <<>>
    /\ Put(c, [conns[c] EXCEPT !.worker = "loop"])
    /\ UNCHANGED <<left, stage, spool, connsByID, gc, history>>

(* The reader takes an acknowledgement, which goes into the channel of the sender, ... *)
FaultyAcked(r) == [r EXCEPT !.ack = r.sender \notin {"none", "gone"}]    \* handed on twice
Acked(r) == [r EXCEPT !.ack = r.sender \notin {"none", "gone"}, !.acked = FALSE]

ReadAck(c) ==
    /\ conns[c].worker = "loop" /\ conns[c].up /\ conns[c].acked
    /\ Put(c, Acked(conns[c]))
    /\ UNCHANGED <<left, stage, spool, connsByID, gc, history>>

(* ... or the end of the stream, which makes the session invalid. *)
ReadFails(c) ==
    /\ conns[c].worker = "loop" /\ conns[c].up /\ ~conns[c].peer
    /\ Put(c, [conns[c] EXCEPT !.up = FALSE, !.acked = FALSE])
    /\ UNCHANGED <<left, stage, spool, connsByID, gc, history>>

LeaveLoop(c) ==
    /\ conns[c].worker = "loop" /\ ~conns[c].up
    /\ Put(c, [conns[c] EXCEPT !.worker = "exit", !.acked = FALSE])
    /\ UNCHANGED <<left, stage, spool, connsByID, gc, history>>

(* The deferred calls: the session is closed before onClosedConn asks for its credentials. *)
CloseSession(c) ==
    /\ conns[c].worker = "exit"
    /\ Put(c, [conns[c] EXCEPT !.worker = "out", !.up = FALSE, !.peer = FALSE, !.down = None])
    /\ UNCHANGED <<left, stage, spool, connsByID, gc, history>>

onClosedConn(c) ==
    /\ conns[c].worker = "out"
    /\ connsByID' = IF conns[c].up /\ connsByID = c THEN 0 ELSE connsByID
    /\ Put(c, [conns[c] EXCEPT !.worker = "gone"])
    /\ UNCHANGED <<left, stage, spool, gc, history>>

-------------------------------------------------------------------------------
(* The sender of a connection (senderWorker) *)

Wakes(c) ==
    /\ conns[c].sender = "idle" /\ conns[c].notify
    /\ Put(c, [conns[c] EXCEPT !.notify = FALSE, !.sender = IF conns[c].up THEN "look" ELSE "gone"])
    /\ UNCHANGED <<left, stage, spool, connsByID, gc, history>>

(* The heartbeat changes something only when it cannot be sent. *)
HeartbeatFails(c) ==
    /\ conns[c].sender = "idle" /\ ~(conns[c].up /\ conns[c].peer)
    /\ Put(c, [conns[c] EXCEPT !.sender = "gone", !.up = FALSE])
    /\ UNCHANGED <<left, stage, spool, connsByID, gc, history>>

(* Spool.Get shows the first entry.  One without a SURB ID cannot be sent. *)
Peek(c) ==
    /\ conns[c].sender = "look"
    /\ Put(c, CASE spool = <<>>          -> [conns[c] EXCEPT !.sender = "idle"]
                [] spool # <<>> /\ Head(spool) \in Plain -> [conns[c] EXCEPT !.sender = "gone"]
                [] OTHER -> [conns[c] EXCEPT !.sender = "send", !.msg = Head(spool), !.ack = FALSE])
    /\ UNCHANGED <<left, stage, spool, connsByID, gc, history>>

(* A write to a connection the client has left is lost, or fails. *)
SendMessage(c) ==
    LET sent == [conns[c] EXCEPT !.sender = "wait", !.msg = None]
        fails == [conns[c] EXCEPT !.sender = "gone", !.msg = None, !.up = FALSE]
    IN  /\ conns[c].sender = "send"
        /\ \/ conns[c].up /\ conns[c].peer /\ Put(c, [sent EXCEPT !.down = conns[c].msg])
           \/ conns[c].up /\ ~conns[c].peer /\ Put(c, sent)
           \/ ~(conns[c].up /\ conns[c].peer) /\ Put(c, fails)
        /\ UNCHANGED <<left, stage, spool, connsByID, gc, history>>

(* ackTimeout, of a minute: the acknowledgement does not come, or it is slow. *)
FaultyUnacked == "advance"    \* an entry is given up instead of the connection
Unacked == "gone"
CannotCome(c) ==
    \/ ~conns[c].peer \/ conns[c].worker \in {"exit", "out", "gone"}
    \/ conns[c].worker = "closing" /\ conns[c].toClose # <<>>
AckTimeout(c) ==
    /\ conns[c].sender = "wait" /\ ~conns[c].ack
    /\ IF CannotCome(c) THEN UNCHANGED left ELSE Use("slow")
    /\ Put(c, [conns[c] EXCEPT !.sender = Unacked])
    /\ UNCHANGED <<stage, spool, connsByID, gc, history>>

GotAck(c) ==
    /\ conns[c].sender = "wait" /\ conns[c].ack
    /\ Put(c, [conns[c] EXCEPT !.sender = "advance", !.ack = FALSE])
    /\ UNCHANGED <<left, stage, spool, connsByID, gc, history>>

(* Spool.Get removes the first entry, whichever that is by now. *)
Advance(c) ==
    /\ conns[c].sender = "advance"
    /\ Put(c, [conns[c] EXCEPT !.sender = "look"])
    /\ spool' = IF spool = <<>> THEN spool ELSE Tail(spool)
    /\ removed' = IF spool = <<>> THEN removed ELSE removed \cup {Head(spool)}
    /\ UNCHANGED <<left, stage, connsByID, gc, got, vacuumed, crossed, crashed>>

-------------------------------------------------------------------------------
(* The workers of the gateway *)

(* A worker takes the packet from the channel, and drops it when it was there too long. *)
Take(m) ==
    /\ stage[m].at = "coming"
    /\ \/ stage' = [stage EXCEPT ![m] = At("taken")] /\ UNCHANGED left
       \/ stage' = [stage EXCEPT ![m] = At("done")] /\ Use("stale")
    /\ UNCHANGED <<spool, conns, connsByID, gc, history>>

(* onSURBReply, onToUser *)
StoreReply(m) ==
    /\ stage[m].at = "taken"
    /\ spool' = Append(spool, m)
    /\ stage' = [stage EXCEPT ![m] = At("stored")]
    /\ UNCHANGED <<left, conns, connsByID, gc, history>>

(* notifyListeners: the connection is looked up under the lock and woken without it. *)
FindConn(m) ==
    /\ stage[m].at = "stored"
    /\ stage' = [stage EXCEPT ![m] = IF connsByID = 0 THEN At("done")
                                      ELSE [at |-> "found", conn |-> connsByID]]
    /\ UNCHANGED <<left, spool, conns, connsByID, gc, history>>

Pending(r) == r.sender # "gone"    \* nobody looks at the channel of one that has left
Notify(m) ==
    /\ stage[m].at = "found"
    /\ conns' = [conns EXCEPT ![stage[m].conn].notify = @ \/ Pending(conns[stage[m].conn])]
    /\ stage' = [stage EXCEPT ![m] = At("done")]
    /\ UNCHANGED <<left, spool, connsByID, gc, history>>

(* gcEphemeralClients asks who is connected, which fails when a session is invalid, ... *)
ConnectedClients ==
    /\ gc = None /\ Use("vacuums")
    /\ LET known == {c \in Conns : InList(c) /\ IsInitialized(c)}
       IN  gc' = IF \E c \in known : ~conns[c].up THEN None ELSE (known # {})
    /\ UNCHANGED <<stage, spool, conns, connsByID, history>>

(* ... and removes the entries of the others. *)
VacuumExpired ==
    /\ gc # None
    /\ gc' = None
    /\ spool' = IF gc THEN spool ELSE <<>>
    /\ vacuumed' = IF gc THEN vacuumed ELSE vacuumed \cup {spool[i] : i \in DOMAIN spool}
    /\ crossed' = IF gc THEN crossed ELSE crossed + Cardinality({c \in Conns : HasSender(c)})
    /\ UNCHANGED <<left, stage, conns, connsByID, got, removed, crashed>>

-------------------------------------------------------------------------------
WorkerStep(c) ==
    \/ onInitializedConn(c) \/ HandshakeFails(c) \/ LogSource(c) \/ CloseOldConns(c) \/ Close(c)
    \/ StartReading(c) \/ ReadAck(c) \/ ReadFails(c) \/ LeaveLoop(c) \/ CloseSession(c) \/ onClosedConn(c)
SenderStep(c) ==
    \/ Wakes(c) \/ HeartbeatFails(c) \/ Peek(c) \/ SendMessage(c) \/ GotAck(c) \/ Advance(c)
ClientStep(c)  == onNewConn(c) \/ Receive(c) \/ ReadIdleTimeout(c)
GatewayStep(m) == Take(m) \/ StoreReply(m) \/ FindConn(m) \/ Notify(m)

Next ==
    /\ ~crashed
    /\ \/ \E c \in Conns : WorkerStep(c) \/ SenderStep(c) \/ AckTimeout(c) \/ ClientStep(c) \/ Drop(c)
       \/ \E m \in Messages : GatewayStep(m)
       \/ ConnectedClients \/ VacuumExpired

Spec == Init /\ [][Next]_vars

(* Every goroutine goes on, the client comes back, and what it has sent is read.  A sender
   that waits for an acknowledgement that does not come gives up. *)
Fairness ==
    /\ \A c \in Conns :
        /\ WF_vars(~crashed /\ WorkerStep(c)) /\ WF_vars(~crashed /\ SenderStep(c))
        /\ WF_vars(~crashed /\ ClientStep(c))
        /\ WF_vars(~crashed /\ CannotCome(c) /\ AckTimeout(c))
    /\ \A m \in Messages : WF_vars(~crashed /\ GatewayStep(m))
    /\ WF_vars(~crashed /\ VacuumExpired)
FairSpec == Spec /\ Fairness
-------------------------------------------------------------------------------
(* A wake is not lost: while the spool has something, the sender of the connection that is
   woken does not rest without a wake pending, although notify drops wakes, the look-up
   and the wake are two steps, and connections come and go between them. *)
WakeIsPending ==
    \A c \in Conns :
        connsByID = c /\ conns[c].sender = "idle" /\ conns[c].up /\ spool # <<>> =>
            conns[c].notify \/ \E m \in Messages : stage[m].at = "stored" \/ stage[m] = [at |-> "found", conn |-> c]

(* What a sender removes from the spool its client has: an entry is removed by position,
   some time after it was shown and acknowledged. *)
GoneIsDelivered == crossed = 0 => removed \subseteq got

(* Where two senders of the client meet at its spool, or a sender and the garbage
   collection, one entry at most is skipped for it: the old sender has one acknowledgement
   at most to go, and one of the two advances past an entry it has not shown. *)
OneSkipPerMeeting == Cardinality(removed \ got) <= crossed

(* The same without meetings: it fails when the sender of an old connection and that of a
   new one both advance the spool for one entry, or the garbage collection removes the
   entry a sender is about to advance past. *)
NothingIsSkipped == removed \subseteq got

(* A worker that hands the order to close to a connection whose sender has left and whose
   worker has left too, or is handing out orders itself. *)
Stranded(c) ==
    /\ conns[c].worker = "closing" /\ conns[c].toClose # <<>>
    /\ LET d == Head(conns[c].toClose)
       IN  conns[d].sender = "gone" /\ conns[d].worker \in {"closing", "exit", "out", "gone"}

(* The spool is emptied again and again, over lost connections and acknowledgements and
   connections that meet and close each other, unless a worker is stranded. *)
SpoolDrains == []<>(spool = <<>> \/ crashed \/ \E c \in Conns : Stranded(c))

(* "Newest connection wins." (incoming_conn.go:317): a connection comes to read commands,
   or ends.  It fails: CloseOldConns lists connections under the lock and closes them
   without it, and nobody may be left to receive the order. *)
CommandsAreRead ==
    \A c \in Conns : conns[c].worker = "closing" ~> (conns[c].worker # "closing" \/ crashed)

(* The garbage collection removes nothing of a client that is connected when it does. *)
VacuumSparesConnected ==
    [][vacuumed' # vacuumed => \A c \in Conns : ~(conns[c].worker = "loop" /\ conns[c].peer)]_vars

(* The process does not panic. *)
NoPanic == ~crashed
===============================================================================
