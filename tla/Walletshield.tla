------------------------------ MODULE Walletshield ------------------------------
(* walletshield (walletshield/main.go): goroutines that serve HTTP requests and KPS
   streams over one thin client of the daemon, which any of them, and the loop that
   reads its events, may replace by a new one (Server.reconnect).

   A client is known by its number; s.thin is the one in use. A handler holds the
   client it took before it sent, whatever happens to s.thin meanwhile. What a client
   does inside is the subject of ThinClient; kept here is what a caller sees of it:
   its fan-out serves subscriptions until it is closed and not after, a caller that
   waits gets its reply, a deadline, a lost mixnet or the halt, and Close returns when
   the goroutines of the client have ended.

   Abstracted: the request and the reply; the ways sendRequest refuses one without
   sending it (too long, no document, no service) are one. External: the daemon.     *)
EXTENDS Naturals, Sequences

CONSTANTS Requests,     \* goroutines of Handler, one HTTP request each
          Streams,      \* goroutines of handleKPSConn, one stream each
          MaxClients,   \* bound: thin clients made in a behaviour
          MaxNotices,   \* bound: changes of the mixnet connection the daemon announces
          MaxOutages    \* bound: how many times the daemon goes down

ShieldAssumption == MaxClients \in Nat \ {0} /\ MaxNotices \in Nat /\ MaxOutages \in Nat

VARIABLES thin,         \* Server.thin
          mu,           \* who holds Server.mu
          client,       \* each client: "none", "open", "closing", "closed"
          link,         \* its connection: "up", "broken" (unnoticed), "redial"
          isConnected,  \* its flag
          pc, using,    \* each goroutine: where it is, the client it holds
          made,         \* the client each goroutine has just dialled
          tries,        \* how often each has called sendRequest
          served,       \* requests the daemon has accepted and not answered
          notified,     \* waiting callers whose drain has a "not connected" event
          result,       \* what BlockingSendMessage is about to return
          sink,         \* the drain of the event loop, with the event its fan-out offers
          everConnected,\* the variable of the event loop
          daemon,       \* the daemon is up
          notices, outages

Loop    == "loop"
Free    == "free"
Users   == Requests \cup Streams
Clients == 1..MaxClients

serverVars == <<thin, mu, made>>
clientVars == <<client, link, isConnected>>
userVars   == <<pc, using, tries, result>>
loopVars   == <<sink, everConnected>>
daemonVars == <<daemon, notices, outages>>
vars == <<serverVars, clientVars, userVars, served, notified, loopVars, daemonVars>>

Waiting == {u \in Users : pc[u] = "waiting"}

TypeOK ==
    /\ thin \in Clients /\ mu \in {Free, Loop} \cup Requests
    /\ client \in [Clients -> {"none", "open", "closing", "closed"}]
    /\ link \in [Clients -> {"up", "broken", "redial"}]
    /\ isConnected \in [Clients -> BOOLEAN]
    /\ pc \in [Users \cup {Loop} -> {"idle", "check", "adding", "sending", "waiting", "removing",
                                     "lock", "dial", "close", "listen", "replied", "failed"}]
    /\ using \in [Users -> Clients] /\ made \in [Requests \cup {Loop} -> Clients]
    /\ tries \in [Users -> 0..2] /\ \A s \in Streams : tries[s] <= 1
    /\ result \in [Users -> {"none", "reply", "error"}]
    /\ served \in SUBSET Users /\ notified \in SUBSET Waiting
    /\ sink \in Seq(BOOLEAN) /\ Len(sink) <= 2 /\ everConnected \in BOOLEAN
    /\ daemon \in BOOLEAN /\ notices \in 0..MaxNotices /\ outages \in 0..MaxOutages

\* main: Dial has succeeded and the event loop has its drain.
Init ==
    /\ thin = 1 /\ mu = Free /\ made = [x \in Requests \cup {Loop} |-> 1]
    /\ client = [g \in Clients |-> IF g = 1 THEN "open" ELSE "none"]
    /\ link = [g \in Clients |-> "up"]
    /\ isConnected = [g \in Clients |-> g = 1]
    /\ pc = [u \in Users \cup {Loop} |-> IF u = Loop THEN "listen" ELSE "idle"]
    /\ using = [u \in Users |-> 1] /\ tries = [u \in Users |-> 0]
    /\ result = [u \in Users |-> "none"]
    /\ served = {} /\ notified = {}
    /\ sink = <<>> /\ everConnected = FALSE
    /\ daemon = TRUE /\ notices = 0 /\ outages = 0

(* ------------------------------ daemon and clients ------------------------------- *)

\* A ConnectionStatusEvent on the connection of client g, copied to everyone who is
\* subscribed. One event fits in a drain and the fan-out holds the next.
Notice(g) ==
    /\ client[g] = "open" /\ link[g] = "up" /\ notices < MaxNotices
    /\ g = 1 => Len(sink) < 2
    /\ \E b \in BOOLEAN :
          /\ isConnected' = [isConnected EXCEPT ![g] = b]
          /\ sink' = IF g = 1 THEN Append(sink, b) ELSE sink
          /\ notified' = IF b THEN notified
                         ELSE notified \cup {u \in Waiting : using[u] = g}
    /\ notices' = notices + 1
    /\ UNCHANGED <<serverVars, client, link, userVars, served, everConnected, daemon, outages>>

\* The daemon dies and forgets what it was asked; its clients find out one by one.
DaemonExits ==
    /\ daemon /\ outages < MaxOutages
    /\ daemon' = FALSE /\ outages' = outages + 1 /\ served' = {}
    /\ link' = [g \in Clients |-> IF client[g] = "open" /\ link[g] = "up" THEN "broken"
                                  ELSE link[g]]
    /\ UNCHANGED <<serverVars, client, isConnected, userVars, notified, loopVars, notices>>

DaemonStarts ==
    /\ ~daemon /\ daemon' = TRUE
    /\ UNCHANGED <<serverVars, clientVars, userVars, served, notified, loopVars, notices, outages>>

\* The worker of the client reads the error, then dials until the daemon answers.
LinkLost(g) ==
    /\ client[g] = "open" /\ link[g] = "broken"
    /\ link' = [link EXCEPT ![g] = "redial"]
    /\ isConnected' = [isConnected EXCEPT ![g] = FALSE]
    /\ UNCHANGED <<serverVars, client, userVars, served, notified, loopVars, daemonVars>>

Redial(g) ==
    /\ client[g] = "open" /\ link[g] = "redial" /\ daemon
    /\ link' = [link EXCEPT ![g] = "up"]
    /\ \E b \in BOOLEAN : isConnected' = [isConnected EXCEPT ![g] = b]
    /\ UNCHANGED <<serverVars, client, userVars, served, notified, loopVars, daemonVars>>

\* The fan-out of g is at its select: not gone, and not waiting for the event loop.
FanoutServes(g) == client[g] # "closed" /\ (g = 1 => Len(sink) < 2)

(* -------------------------- sendRequest, by one goroutine ------------------------ *)

\* The error path of Handler: one reconnect and one more try. A stream has none.
Failing(u) == pc' = [pc EXCEPT ![u] = IF u \in Requests /\ tries[u] = 1 THEN "lock" ELSE "failed"]

\* getThin
GetThin(u) ==
    /\ pc[u] = "idle" /\ mu = Free
    /\ using' = [using EXCEPT ![u] = thin]
    /\ tries' = [tries EXCEPT ![u] = 1]
    /\ pc' = [pc EXCEPT ![u] = "check"]
    /\ UNCHANGED <<serverVars, clientVars, result, served, notified, loopVars, daemonVars>>

\* sendRequest refuses, or BlockingSendMessage does in offline mode; or it subscribes.
Refused(u) ==
    /\ pc[u] = "check" /\ Failing(u)
    /\ UNCHANGED <<serverVars, clientVars, using, tries, result, served, notified, loopVars, daemonVars>>

Connected(u) ==
    /\ pc[u] = "check" /\ isConnected[using[u]]
    /\ pc' = [pc EXCEPT ![u] = "adding"]
    /\ UNCHANGED <<serverVars, clientVars, using, tries, result, served, notified, loopVars, daemonVars>>

Subscribe(u) ==
    /\ pc[u] = "adding" /\ FanoutServes(using[u])
    /\ pc' = [pc EXCEPT ![u] = "sending"]
    /\ UNCHANGED <<serverVars, clientVars, using, tries, result, served, notified, loopVars, daemonVars>>

Ends(u, r) ==
    /\ pc' = [pc EXCEPT ![u] = "removing"] /\ result' = [result EXCEPT ![u] = r]
    /\ notified' = notified \ {u}

Send(u) ==
    LET g == using[u] IN
    /\ pc[u] = "sending"
    /\ \/ /\ client[g] = "open" /\ isConnected[g] /\ link[g] # "redial"
          /\ pc' = [pc EXCEPT ![u] = "waiting"]
          /\ served' = IF link[g] = "up" THEN served \cup {u} ELSE served
          /\ UNCHANGED <<result, notified>>
       \/ /\ client[g] # "open" \/ ~isConnected[g] \/ link[g] # "up"
          /\ Ends(u, "error") /\ UNCHANGED served
    /\ UNCHANGED <<serverVars, clientVars, using, tries, loopVars, daemonVars>>

ReplyComes(u) ==
    /\ pc[u] = "waiting" /\ u \in served /\ FanoutServes(using[u])
    /\ served' = served \ {u} /\ Ends(u, "reply")
    /\ UNCHANGED <<serverVars, clientVars, using, tries, loopVars, daemonVars>>

\* The deadline of sendRequest, a "not connected" event, the halt of the client.
GiveUp(u) ==
    /\ pc[u] = "waiting" /\ Ends(u, "error")
    /\ UNCHANGED <<serverVars, clientVars, using, tries, served, loopVars, daemonVars>>

\* The deferred StopEventSink, then the reply or the error path of the handler.
Unsubscribe(u) ==
    /\ pc[u] = "removing" /\ FanoutServes(using[u])
    /\ IF result[u] = "reply" THEN pc' = [pc EXCEPT ![u] = "replied"] ELSE Failing(u)
    /\ UNCHANGED <<serverVars, clientVars, using, tries, result, served, notified, loopVars, daemonVars>>

(* ---------------------- reconnect, by a handler or the loop ---------------------- *)

Lock(x) ==
    /\ pc[x] = "lock" /\ mu = Free
    /\ mu' = x /\ pc' = [pc EXCEPT ![x] = "dial"]
    /\ UNCHANGED <<thin, made, clientVars, using, tries, result, served, notified, loopVars, daemonVars>>

\* The handler tries once more on the client it was given; the loop listens again.
GoesOn(x, g) ==
    /\ pc' = [pc EXCEPT ![x] = IF x = Loop THEN "listen" ELSE "check"]
    /\ IF x = Loop
       THEN everConnected' = FALSE /\ UNCHANGED <<using, tries>>
       ELSE /\ using' = [using EXCEPT ![x] = g] /\ tries' = [tries EXCEPT ![x] = 2]
            /\ UNCHANGED everConnected

\* Fault: a failed dial leaves the mutex locked.
FaultyDialFails(x) ==
    /\ pc[x] = "dial" /\ GoesOn(x, thin)
    /\ UNCHANGED <<serverVars, clientVars, result, served, notified, sink, daemonVars>>

DialFails(x) ==
    /\ pc[x] = "dial" /\ mu' = Free /\ GoesOn(x, thin)
    /\ UNCHANGED <<thin, made, clientVars, result, served, notified, sink, daemonVars>>

\* The new client is connected, and Close of the old one begins: the daemon hears it
\* and forgets what it was asked.
DialOk(x) ==
    /\ pc[x] = "dial" /\ daemon
    /\ \E g \in Clients :
          /\ client[g] = "none" /\ \A h \in 1..g - 1 : client[h] # "none"
          /\ made' = [made EXCEPT ![x] = g]
          /\ client' = [client EXCEPT ![g] = "open", ![thin] = "closing"]
          /\ \E b \in BOOLEAN : isConnected' = [isConnected EXCEPT ![g] = b]
    /\ served' = {u \in served : using[u] # thin}
    /\ pc' = [pc EXCEPT ![x] = "close"]
    /\ UNCHANGED <<thin, mu, link, using, tries, result, notified, loopVars, daemonVars>>

CloseReturns(x) ==
    /\ pc[x] = "close"
    /\ client' = [client EXCEPT ![thin] = "closed"]
    /\ sink' = IF thin = 1 /\ Len(sink) = 2 THEN <<Head(sink)>> ELSE sink
    /\ thin' = made[x] /\ mu' = Free /\ GoesOn(x, made[x])
    /\ UNCHANGED <<made, link, isConnected, result, served, notified, daemonVars>>

\* The event loop of main, subscribed to the first client for good.
TakeEvent ==
    /\ pc[Loop] = "listen" /\ sink # <<>>
    /\ sink' = Tail(sink)
    /\ everConnected' = (everConnected \/ Head(sink))
    /\ pc' = [pc EXCEPT ![Loop] = IF everConnected /\ ~Head(sink) THEN "lock" ELSE "listen"]
    /\ UNCHANGED <<serverVars, clientVars, using, tries, result, served, notified, daemonVars>>

User(u) == Refused(u) \/ Connected(u) \/ Subscribe(u) \/ Send(u) \/ ReplyComes(u) \/ GiveUp(u)
               \/ Unsubscribe(u)
Next ==
    \/ DaemonExits \/ DaemonStarts \/ TakeEvent
    \/ \E g \in Clients : Notice(g) \/ LinkLost(g) \/ Redial(g)
    \/ \E u \in Users : GetThin(u) \/ User(u)
    \/ \E x \in Requests \cup {Loop} : Lock(x) \/ DialFails(x) \/ DialOk(x) \/ CloseReturns(x)

Spec == Init /\ [][Next]_vars

\* The goroutines run, Dial ends and a Go mutex starves nobody. Close returns, except on
\* a client whose worker is dialling (see ThinClient): nothing is assumed of that one.
Ending(x) == CloseReturns(x) /\ link[thin] # "redial"

FairSpec ==
    /\ Spec /\ WF_vars(TakeEvent) /\ \A u \in Users : WF_vars(User(u))
    /\ \A x \in Requests \cup {Loop} :
          SF_vars(Lock(x)) /\ WF_vars(DialFails(x) \/ DialOk(x)) /\ WF_vars(Ending(x))

(* ----------------------------------- properties ---------------------------------- *)

(* Between two reconnects the client in use is open and every other one is closed: no
   handler starts on a closed client and no connection to the daemon is left behind,
   however many goroutines replace the client at once (Server.reconnect). *)
CurrentIsOpen ==
    mu = Free => \A g \in Clients : (client[g] = "open") = (g = thin) /\ client[g] # "closing"

(* reconnect gives Server.mu back, whatever the other handlers wait for, but when it
   closes a client that redials (see CloseAlwaysReturns of ThinClient). *)
ReconnectEnds ==
    \A x \in Requests \cup {Loop} :
        mu = x ~> mu = Free \/ (client[thin] = "closing" /\ link[thin] = "redial")

(* "seconds to wait for a request" (walletshield/main.go:106): a request that was taken
   up is answered, with the reply or with an error. *)
RequestEnds == \A u \in Users : pc[u] = "check" ~> pc[u] \in {"replied", "failed"}
=================================================================================
