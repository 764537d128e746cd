------------------------------- MODULE ThinClient -------------------------------
(* The Go thin client of the daemon (katzenpost/client/thin/thin.go) as walletshield
   uses it: callers in BlockingSendMessage, the reader goroutine `worker`, the
   fan-out goroutine `eventSinkWorker`, and Close.

   The daemon writes events on the connection; the reader puts each on `eventSink`
   (a channel of two); the fan-out copies it to the drain of every subscriber (a
   channel of one) and waits for each to have room. A caller subscribes, sends,
   waits on its drain, its deadline or the halt, and unsubscribes in a defer. The
   two subscription channels are unbuffered: a rendezvous with the fan-out.

   Abstracted: payloads, geometry, PKI documents (an `other` event), the ARQ and
   Pigeonhole calls (which subscribe and wait in the same way). External: the
   daemon, which may restart.                                                     *)
EXTENDS Naturals, Sequences

CONSTANTS Calls,        \* goroutines in BlockingSendMessage, one request each
          MaxEvents,    \* bound: events the daemon writes besides the replies, and its
                        \* restarts, together
          MayCloseClient   \* the application closes the client in this instance

ASSUME ClientAssumption == MaxEvents \in Nat /\ MayCloseClient \in BOOLEAN

VARIABLES wire,         \* what the daemon wrote on the connection and nobody read
          open,         \* the daemon keeps the connection open
          served,       \* requests the daemon has accepted and not yet answered
          isConnected,  \* ThinClient.isConnected
          reader,       \* the worker goroutine: where it is, the event it offers
          eventSink,    \* ThinClient.eventSink
          fanout,       \* the eventSinkWorker goroutine
          drains,       \* its local map of subscribers
          buf,          \* the drain of each caller
          pc, result,   \* each caller: where it is, what it returned
          closer,       \* the goroutine in Close
          halted,       \* HaltCh is closed
          events, restarts

daemonVars == <<wire, open, served, events, restarts>>
callVars   == <<buf, pc, result>>
thinVars == <<daemonVars, isConnected, reader, eventSink, fanout, drains, callVars,
          closer, halted>>

Reply(c) == [kind |-> "reply", call |-> c]
Notice   == [kind : {"up", "down", "other", "disconnected"}]
Event    == Notice \cup [kind : {"reply"}, call : Calls]
Eof      == [kind |-> "eof"]
Idle     == [kind |-> "none"]

EventSinkCap == 2
DrainCap == 1

Results == {"none", "reply", "timeout", "lost", "offline", "halting"}

ThinTypeOK ==
    /\ wire \in Seq(Event \cup {Eof}) /\ open \in BOOLEAN /\ served \in SUBSET Calls
    /\ isConnected \in BOOLEAN
    /\ reader \in [at : {"top", "reading", "offer", "redial", "dial", "done"}, event : Event \cup {Idle}]
    /\ eventSink \in Seq(Event) /\ Len(eventSink) <= 2
    /\ fanout \in [at : {"select", "deliver", "done"}, event : Event \cup {Idle}, to : SUBSET Calls, left : SUBSET Calls]
    /\ drains \in SUBSET Calls
    /\ \A c \in Calls : buf[c] \in Seq(Event) /\ Len(buf[c]) <= 1
    /\ pc \in [Calls -> {"idle", "adding", "sending", "waiting", "removing", "returned"}]
    /\ result \in [Calls -> Results]
    /\ closer \in {"open", "halt", "wait", "closed"} /\ halted \in BOOLEAN
    /\ events \in 0..MaxEvents /\ restarts \in 0..MaxEvents

\* Dial has succeeded against a daemon that is connected to the mixnet.
ThinInit ==
    /\ wire = <<>> /\ open = TRUE /\ served = {} /\ isConnected = TRUE
    /\ reader = [at |-> "top", event |-> Idle]
    /\ eventSink = <<>> /\ drains = {}
    /\ fanout = [at |-> "select", event |-> Idle, to |-> {}, left |-> {}]
    /\ buf = [c \in Calls |-> <<>>]
    /\ pc = [c \in Calls |-> "idle"] /\ result = [c \in Calls |-> "none"]
    /\ closer = "open" /\ halted = FALSE /\ events = 0 /\ restarts = 0

(* ---------------------------------- the daemon --------------------------------- *)

\* A status, a document, a "message sent" or a collected message ID.
DaemonEvent ==
    /\ open /\ events + restarts < MaxEvents
    /\ \E k \in {"up", "down", "other"} : wire' = Append(wire, [kind |-> k])
    /\ events' = events + 1
    /\ UNCHANGED <<open, served, restarts, isConnected, reader, eventSink, fanout, drains,
                   callVars, closer, halted>>

DaemonReply(c) ==
    /\ open /\ c \in served
    /\ wire' = Append(wire, Reply(c)) /\ served' = served \ {c}
    /\ UNCHANGED <<open, events, restarts, isConnected, reader, eventSink, fanout, drains,
                   callVars, closer, halted>>

\* The daemon dies: what it wrote can still be read; what it was asked is forgotten.
DaemonExits ==
    /\ open /\ events + restarts < MaxEvents
    /\ open' = FALSE /\ wire' = Append(wire, Eof) /\ served' = {}
    /\ restarts' = restarts + 1
    /\ UNCHANGED <<events, isConnected, reader, eventSink, fanout, drains, callVars, closer,
                   halted>>

(* ---------------------------------- the reader --------------------------------- *)

\* readUntilDisconnect looks at HaltCh between messages, not while it reads.
ReaderTop ==
    /\ reader.at = "top"
    /\ reader' = [reader EXCEPT !.at = IF halted THEN "done" ELSE "reading"]
    /\ UNCHANGED <<daemonVars, isConnected, eventSink, fanout, drains, callVars, closer, halted>>

\* A message: the connection flag changes before the event is offered.
ReadEvent ==
    /\ reader.at = "reading" /\ wire # <<>> /\ Head(wire) # Eof
    /\ wire' = Tail(wire)
    /\ isConnected' = CASE Head(wire).kind = "up"   -> TRUE
                        [] Head(wire).kind = "down" -> FALSE
                        [] OTHER                    -> isConnected
    /\ reader' = [at |-> "offer", event |-> Head(wire)]
    /\ UNCHANGED <<open, served, events, restarts, eventSink, fanout, drains, callVars, closer,
                   halted>>

\* An error: it ends a halted reader, and is announced by any other one.
ReadEof ==
    /\ reader.at = "reading" /\ wire # <<>> /\ Head(wire) = Eof
    /\ wire' = Tail(wire)
    /\ IF halted
       THEN /\ reader' = [reader EXCEPT !.at = "done"]
            /\ UNCHANGED isConnected
       ELSE /\ reader' = [at |-> "offer", event |-> [kind |-> "disconnected"]]
            /\ isConnected' = FALSE
    /\ UNCHANGED <<open, served, events, restarts, eventSink, fanout, drains, callVars, closer,
                   halted>>

\* select { eventSink <- event ; <-HaltCh }
Offer ==
    /\ reader.at = "offer"
    /\ \/ /\ Len(eventSink) < EventSinkCap
          /\ eventSink' = Append(eventSink, reader.event)
          /\ reader' = [at |-> IF reader.event.kind = "disconnected" THEN "redial" ELSE "top",
                        event |-> Idle]
       \/ /\ halted
          /\ reader' = [at |-> "done", event |-> Idle]
          /\ UNCHANGED eventSink
    /\ UNCHANGED <<daemonVars, isConnected, fanout, drains, callVars, closer, halted>>

\* The backoff is at least a second: it outlasts the two statements of a Close that has
\* written ThinClose and has yet to close HaltCh.
Backoff ==
    /\ reader.at = "redial"
    /\ reader' = [reader EXCEPT !.at = IF halted THEN "done" ELSE "dial"]
    /\ halted \/ closer # "halt"
    /\ UNCHANGED <<daemonVars, isConnected, eventSink, fanout, drains, callVars, closer, halted>>

\* A new connection and its handshake, which look at no halt.
Redial ==
    /\ reader.at = "dial"
    /\ \E up \in BOOLEAN : isConnected' = up
    /\ open' = TRUE /\ wire' = <<>>
    /\ reader' = [reader EXCEPT !.at = "top"]
    /\ UNCHANGED <<served, events, restarts, eventSink, fanout, drains, callVars, closer, halted>>

Reader == ReaderTop \/ ReadEvent \/ ReadEof \/ Offer \/ Backoff \/ Redial

(* ---------------------------------- the fan-out -------------------------------- *)

\* Copying event e to the drains in s. A map is ranged over in any order, but the send
\* to the drain that comes next (`to`) is waited for before another one is looked at.
Serving(e, s) ==
    IF s = {} THEN {[at |-> "select", event |-> Idle, to |-> {}, left |-> {}]}
    ELSE {[at |-> "deliver", event |-> e, to |-> {d}, left |-> s \ {d}] : d \in s}

\* The cases of the select of eventSinkWorker that need no caller.
TakeEvent ==
    /\ fanout.at = "select" /\ eventSink # <<>>
    /\ fanout' \in Serving(Head(eventSink), drains)
    /\ eventSink' = Tail(eventSink)
    /\ UNCHANGED <<daemonVars, isConnected, reader, drains, callVars, closer, halted>>

\* Faulty: a subscriber that does not accept the event misses it.
FaultyDeliver ==
    /\ fanout.at = "deliver"
    /\ \E d \in fanout.to :
           buf' = [buf EXCEPT ![d] = IF Len(@) < DrainCap THEN Append(@, fanout.event) ELSE @]
    /\ fanout' \in Serving(fanout.event, fanout.left)
    /\ UNCHANGED <<daemonVars, isConnected, reader, eventSink, drains, pc, result, closer, halted>>

Deliver ==
    /\ fanout.at = "deliver"
    /\ \E d \in fanout.to :
           /\ Len(buf[d]) < DrainCap
           /\ buf' = [buf EXCEPT ![d] = Append(@, fanout.event)]
    /\ fanout' \in Serving(fanout.event, fanout.left)
    /\ UNCHANGED <<daemonVars, isConnected, reader, eventSink, drains, pc, result, closer, halted>>

\* Faulty: the delivery has no case for the halt.
FaultyEscapesAt == {"select"}
\* HaltCh is a case of both selects, the one of the loop and the one of the delivery.
EscapesAt == {"select", "deliver"}
FanoutHalts ==
    /\ fanout.at \in EscapesAt /\ halted
    /\ fanout' = [at |-> "done", event |-> Idle, to |-> {}, left |-> {}]
    /\ UNCHANGED <<daemonVars, isConnected, reader, eventSink, drains, callVars, closer, halted>>

Fanout == TakeEvent \/ Deliver \/ FanoutHalts

(* ------------------------ the callers, BlockingSendMessage --------------------- *)

Returns(c, r) == pc' = [pc EXCEPT ![c] = "returned"] /\ result' = [result EXCEPT ![c] = r]
Leaves(c, r)  == pc' = [pc EXCEPT ![c] = "removing"] /\ result' = [result EXCEPT ![c] = r]

Call(c) ==
    /\ pc[c] = "idle"
    /\ IF isConnected THEN pc' = [pc EXCEPT ![c] = "adding"] /\ UNCHANGED result
                      ELSE Returns(c, "offline")
    /\ UNCHANGED <<daemonVars, isConnected, reader, eventSink, fanout, drains, buf, closer, halted>>

\* EventSink and, in the defer, StopEventSink: no case for the halt.
Subscribe(c) ==
    /\ pc[c] = "adding" /\ fanout.at = "select"
    /\ drains' = drains \cup {c}
    /\ pc' = [pc EXCEPT ![c] = "sending"]
    /\ UNCHANGED <<daemonVars, isConnected, reader, eventSink, fanout, buf, result, closer, halted>>

Unsubscribe(c) ==
    /\ pc[c] = "removing" /\ fanout.at = "select"
    /\ drains' = drains \ {c}
    /\ buf' = [buf EXCEPT ![c] = <<>>]      \* the drain is garbage
    /\ pc' = [pc EXCEPT ![c] = "returned"]
    /\ UNCHANGED <<daemonVars, isConnected, reader, eventSink, fanout, result, closer, halted>>

\* SendMessage looks at the flag again. A write to a dead daemon fails, or is buffered
\* by the kernel and lost.
Send(c) ==
    /\ pc[c] = "sending"
    /\ \/ /\ isConnected /\ open
          /\ served' = served \cup {c}
          /\ pc' = [pc EXCEPT ![c] = "waiting"] /\ UNCHANGED result
       \/ /\ isConnected /\ ~open
          /\ pc' = [pc EXCEPT ![c] = "waiting"] /\ UNCHANGED <<served, result>>
       \/ /\ ~isConnected \/ ~open
          /\ Leaves(c, "offline") /\ UNCHANGED served
    /\ UNCHANGED <<wire, open, events, restarts, isConnected, reader, eventSink, fanout, drains,
                   buf, closer, halted>>

Receive(c) ==
    /\ pc[c] = "waiting" /\ buf[c] # <<>>
    /\ LET e == Head(buf[c])
       IN  CASE e = Reply(c)      -> Leaves(c, "reply")
             [] e.kind = "down"   -> Leaves(c, "lost")
             [] OTHER             -> UNCHANGED <<pc, result>>
    /\ buf' = [buf EXCEPT ![c] = Tail(@)]
    /\ UNCHANGED <<daemonVars, isConnected, reader, eventSink, fanout, drains, closer, halted>>

\* <-ctx.Done() and <-HaltCh
GiveUp(c) ==
    /\ pc[c] = "waiting"
    /\ Leaves(c, "timeout") \/ (halted /\ Leaves(c, "halting"))
    /\ UNCHANGED <<daemonVars, isConnected, reader, eventSink, fanout, drains, buf, closer, halted>>

Caller(c) == Call(c) \/ Subscribe(c) \/ Unsubscribe(c) \/ Send(c) \/ Receive(c) \/ GiveUp(c)

(* ------------------------------------- Close ----------------------------------- *)

\* ThinClose makes the daemon close its end; a dead daemon does not hear it.
WriteThinClose ==
    /\ MayCloseClient /\ closer = "open"
    /\ closer' = "halt"
    /\ open' = FALSE
    /\ wire' = IF open THEN Append(wire, Eof) ELSE wire
    /\ served' = {}
    /\ UNCHANGED <<events, restarts, isConnected, reader, eventSink, fanout, drains, callVars, halted>>

CloseHaltCh ==
    /\ closer = "halt"
    /\ closer' = "wait" /\ halted' = TRUE
    /\ UNCHANGED <<daemonVars, isConnected, reader, eventSink, fanout, drains, callVars>>

\* WaitGroup.Wait
CloseReturn ==
    /\ closer = "wait" /\ reader.at = "done" /\ fanout.at = "done"
    /\ closer' = "closed"
    /\ UNCHANGED <<daemonVars, isConnected, reader, eventSink, fanout, drains, callVars, halted>>

Closer == WriteThinClose \/ CloseHaltCh \/ CloseReturn

ThinNext ==
    \/ DaemonEvent \/ DaemonExits \/ Reader \/ Fanout \/ Closer
    \/ \E c \in Calls : DaemonReply(c) \/ Caller(c)

ThinSpec == ThinInit /\ [][ThinNext]_thinVars

\* Every goroutine that can take a step takes one; a deadline passes; a Close that has
\* begun goes on; a dead daemon is restarted. Nobody has to call, and the daemon has to
\* answer nobody.
ThinFairSpec ==
    /\ ThinSpec /\ WF_thinVars(Reader) /\ WF_thinVars(Fanout) /\ WF_thinVars(CloseHaltCh \/ CloseReturn)
    /\ \A c \in Calls : WF_thinVars(Subscribe(c) \/ Unsubscribe(c) \/ Send(c)
                                    \/ Receive(c) \/ GiveUp(c))

(* ---------------------------------- properties --------------------------------- *)

InFlight(c) ==
    \/ c \in served
    \/ \E i \in DOMAIN wire : wire[i] = Reply(c)
    \/ reader.event = Reply(c)
    \/ \E i \in DOMAIN eventSink : eventSink[i] = Reply(c)
    \/ fanout.event = Reply(c) /\ c \in fanout.to \cup fanout.left
    \/ buf[c] = <<Reply(c)>>

(* A caller that waits on a client that stays open, to a daemon that stays up, has its
   answer still to come or on its way to it: BlockingSendMessage subscribes before it
   sends, and the fan-out drops nothing ("no silent loss"). *)
ReplyReachesCaller ==
    \A c \in Calls : pc[c] = "waiting" /\ restarts = 0 /\ closer = "open" => InFlight(c)

(* The fan-out serves exactly the callers between EventSink and StopEventSink: a full
   drain nobody will ever read again is not waited for, whatever way its caller left. *)
OnlyCallersAreServed ==
    drains = {c \in Calls : pc[c] \in {"sending", "waiting", "removing"}}

(* Close returns, whatever the callers wait for, once the connection it found is the one
   the reader has or would leave: HaltCh frees the reader, the fan-out and the backoff. *)
CloseReturns == closer = "halt" /\ ~open /\ reader.at # "dial" ~> closer = "closed"

(* "HaltCh remains the escape hatch so Close() still works" (thin.go:1342): Close returns
   also when it runs while the reader dials. *)
CloseAlwaysReturns == closer = "halt" ~> closer = "closed"

(* "It blocks until either a reply is received or the context times out": every call
   comes back once its context has timed out. *)
CallReturns == \A c \in Calls : pc[c] = "waiting" ~> pc[c] = "returned"

(* "Any ongoing operations will be interrupted and may return errors": a call that is
   in progress when Close halts the client comes back. *)
CloseInterrupts == \A c \in Calls : pc[c] = "waiting" /\ halted ~> pc[c] = "returned"
=============================================================================
