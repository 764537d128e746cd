------------------------------ MODULE DaemonSession ------------------------------
(* The session of one thin client with the daemon (katzenpost/client/listener.go,
   incoming_conn.go, daemon.go) and the handshake of the client (client/thin/thin.go).

   A connection gets an app ID of its own when it is accepted, is sent a status and a
   document, and is asked for a session token. A token the daemon knows resumes the app
   ID it was first given to: the connection takes over that ID, and the replies queued
   for it while nobody was connected. A connection that ends without ThinClose leaves a
   disconnected session behind, and a grace timer that reaps it.

   Connections are numbered in the order they are dialled; connection k is assigned the
   app ID k. There is one client, with one token.

   Abstracted: the scheduler between a request and the mix network, the payloads, the
   cap on queued replies (a thousand). External: the sockets, the mix network.        *)
EXTENDS Naturals, Sequences

CONSTANTS Requests,     \* requests the client may send, each answered at most once
          MaxConns,     \* bound: connections
          MaxDrops,     \* bound: connections that break
          MaxNotices,   \* bound: status changes the daemon broadcasts
          MaxStalls,    \* bound: socket writes that meet their deadline
          MayClose      \* the client may send ThinClose in this instance

ASSUME SessionAssumption ==
    /\ MaxConns \in Nat \ {0} /\ {MaxDrops, MaxNotices, MaxStalls} \subseteq Nat
    /\ MayClose \in BOOLEAN

VARIABLES client,       \* where the client is in its handshake, on which connection;
                        \* history: whether it ever dialled while the daemon still had
                        \* to deal with the end of an earlier connection
          link,         \* the daemon's side of each connection
          q,            \* what the daemon has sent on it and the client has not read
          cut,          \* connections whose other end is gone
          done,         \* connections whose writer has given up (doneCh)
          asked,        \* connections with a SessionToken to be handled
          app,          \* incomingConn.appID
          tokened,      \* connections with a clientToken
          conns,        \* listener.conns
          clientToken,  \* listener.clientTokens: the app ID of the client's token
          session,      \* listener.disconnectedSessions
          timer,        \* the grace timer armed when each connection was closed
          at, owner,    \* each request: where it or its reply is, its app ID
          drops, notices, stalls

clientVars == <<client, asked>>
linkVars   == <<link, cut, done>>
sessionVars == <<app, tokened, conns, clientToken, session, timer>>
requestVars == <<at, owner>>
bounds == <<drops, notices, stalls>>
vars == <<clientVars, linkVars, q, sessionVars, requestVars, bounds>>

Conns == 1..MaxConns
NoOne == 0
Message == {"status", "doc", "token"} \cup Requests
NoSession == [by |-> NoOne, queue |-> <<>>]
Where == {"unsent", "pending", "hand", "queued", "wire", "got", "dropped", "reaped", "lost",
          "discarded"}

\* The replies in a queue or a socket buffer.
On(s) == {s[i] : i \in DOMAIN s} \cap Requests

TypeOK ==
    /\ client \in [at : {"down", "status", "doc", "token", "up", "panicked", "gone"},
                   conn : 0..MaxConns, dialed : BOOLEAN, overlapped : BOOLEAN]
    /\ link \in [Conns -> {"none", "accepted", "live", "closing", "closed"}]
    /\ \A k \in Conns : q[k] \in Seq(Message)
    /\ {cut, done, asked, tokened} \subseteq SUBSET Conns
    /\ app \in [Conns -> Conns] /\ conns \in [Conns -> 0..MaxConns]
    /\ clientToken \in 0..MaxConns
    /\ \A a \in Conns : session[a].by \in 0..MaxConns /\ session[a].queue \in Seq(Requests)
    /\ timer \in [Conns -> {"none", "armed", "firing"}]
    /\ at \in [Requests -> Where] /\ owner \in [Requests -> 0..MaxConns]
    /\ \A r \in Requests :
           /\ at[r] = "unsent" <=> owner[r] = NoOne
           /\ at[r] = "queued" <=> \E a \in Conns : r \in On(session[a].queue)

Init ==
    /\ client = [at |-> "down", conn |-> NoOne, dialed |-> FALSE, overlapped |-> FALSE]
    /\ link = [k \in Conns |-> "none"] /\ q = [k \in Conns |-> <<>>]
    /\ cut = {} /\ done = {} /\ asked = {} /\ tokened = {}
    /\ app = [k \in Conns |-> k] /\ conns = [a \in Conns |-> NoOne] /\ clientToken = NoOne
    /\ session = [a \in Conns |-> NoSession] /\ timer = [k \in Conns |-> "none"]
    /\ at = [r \in Requests |-> "unsent"] /\ owner = [r \in Requests |-> NoOne]
    /\ drops = 0 /\ notices = 0 /\ stalls = 0

\* The replies are now at w.
Moved(rs, w) == at' = [r \in Requests |-> IF r \in rs THEN w ELSE at[r]]
HasSession(a) == session[a].by # NoOne

(* ---------------------------------- the client --------------------------------- *)

\* A connection whose end the daemon has not dealt with yet.
Overlaps == \E k \in Conns : link[k] \notin {"none", "closed"}

\* Dial, and the dial of redial: accepted and registered by onNewConn under its own ID.
Dial ==
    /\ client.at = "down" /\ client.conn < MaxConns
    /\ LET k == client.conn + 1
       IN  /\ client' = [client EXCEPT !.at = "status", !.conn = k, !.overlapped = @ \/ Overlaps]
           /\ link' = [link EXCEPT ![k] = "accepted"]
           /\ conns' = [conns EXCEPT ![k] = k]
    /\ UNCHANGED <<asked, cut, done, q, app, tokened, clientToken, session, timer,
                   requestVars, bounds>>

\* The handshake: a status, a document, which is answered by the token, its reply.
Expected == CASE client.at = "status" -> "status" [] client.at = "doc" -> "doc"
              [] client.at = "token" -> "token"
AfterIt  == CASE client.at = "status" -> "doc" [] client.at = "doc" -> "token"
              [] client.at = "token" -> "up"
InHandshake == client.at \in {"status", "doc", "token"} /\ q[client.conn] # <<>>

Handshake ==
    /\ InHandshake /\ Head(q[client.conn]) = Expected
    /\ client' = [client EXCEPT !.at = AfterIt, !.dialed = @ \/ AfterIt = "up"]
    /\ asked' = IF client.at = "doc" THEN asked \cup {client.conn} ELSE asked
    /\ q' = [q EXCEPT ![client.conn] = Tail(@)]
    /\ UNCHANGED <<linkVars, sessionVars, requestVars, bounds>>

\* Another message: Dial panics, redial closes the connection and dials again.
HandshakeFails ==
    /\ InHandshake /\ Head(q[client.conn]) # Expected
    /\ client' = [client EXCEPT !.at = IF client.dialed THEN "down" ELSE "panicked"]
    /\ cut' = cut \cup {client.conn}
    /\ Moved(On(q[client.conn]), "discarded")
    /\ q' = [q EXCEPT ![client.conn] = <<>>]
    /\ UNCHANGED <<asked, link, done, sessionVars, owner, bounds>>

Read ==
    /\ client.at = "up" /\ q[client.conn] # <<>>
    /\ Moved({Head(q[client.conn])} \cap Requests, "got")
    /\ q' = [q EXCEPT ![client.conn] = Tail(@)]
    /\ UNCHANGED <<clientVars, linkVars, sessionVars, owner, bounds>>

\* A request: the daemon records whose app ID it came with, and sends it off.
Ask(r) ==
    /\ client.at = "up" /\ at[r] = "unsent"
    /\ at' = [at EXCEPT ![r] = "pending"]
    /\ owner' = [owner EXCEPT ![r] = app[client.conn]]
    /\ UNCHANGED <<clientVars, linkVars, q, sessionVars, bounds>>

\* The connection breaks: what was on it is gone, the client notices and will redial.
Drop ==
    /\ client.at \in {"status", "doc", "token", "up"} /\ client.dialed /\ drops < MaxDrops
    /\ drops' = drops + 1
    /\ cut' = cut \cup {client.conn}
    /\ Moved(On(q[client.conn]), "dropped")
    /\ q' = [q EXCEPT ![client.conn] = <<>>]
    /\ client' = [client EXCEPT !.at = "down"]
    /\ UNCHANGED <<asked, link, done, sessionVars, owner, notices, stalls>>

\* Close: ThinClose, then the connection.
Close ==
    /\ MayClose /\ client.at = "up"
    /\ client' = [client EXCEPT !.at = "gone"]
    /\ cut' = cut \cup {client.conn}
    /\ UNCHANGED <<asked, link, done, q, sessionVars, requestVars, bounds>>

(* ---------------------------------- the daemon --------------------------------- *)

\* sendResponse refuses a connection that is done; the messages are in program order.
Sent(k, ms) == [q EXCEPT ![k] = IF k \in done \cup cut THEN @ ELSE @ \o ms]
Reached(k)  == IF k \in done THEN "lost" ELSE IF k \in cut THEN "dropped" ELSE "wire"

\* The rest of onNewConn: the initial pair, after which broadcasts reach the connection.
InitialSequence(k) ==
    /\ link[k] = "accepted"
    /\ link' = [link EXCEPT ![k] = "live"]
    /\ q' = Sent(k, <<"status", "doc">>)
    /\ UNCHANGED <<clientVars, cut, done, sessionVars, requestVars, bounds>>

\* doUpdateConnectionStatus: a status for every registered connection past its pair.
Broadcast ==
    /\ notices < MaxNotices
    /\ notices' = notices + 1
    /\ q' = [k \in Conns |-> IF link[k] = "live" /\ (\E a \in Conns : conns[a] = k)
                             THEN Sent(k, <<"status">>)[k] ELSE q[k]]
    /\ UNCHANGED <<clientVars, linkVars, sessionVars, requestVars, drops, stalls>>

\* Faulty: a client that resumes is sent its replies, and none to its token.
FaultyResumed(queue) == queue
\* What handleSessionToken sends on a resumed connection, in its order.
Resumed(queue) == queue \o <<"token">>
\* It forgets the session whose replies it has sent.
Emptied(s) == NoSession

\* Faulty: the connection leaves its own app ID registered.
FaultyTakeOver(old, a, k) == [conns EXCEPT ![a] = k]
\* The entry of the connection moves from its own app ID to the one it resumes.
TakeOver(old, a, k) == [conns EXCEPT ![old] = NoOne, ![a] = k]

\* handleSessionToken with a token it knows: the connection takes over the app ID.
Resume(k) ==
    /\ link[k] = "live" /\ k \in asked /\ clientToken # NoOne
    /\ LET a == clientToken
       IN  /\ app' = [app EXCEPT ![k] = a]
           /\ conns' = TakeOver(app[k], a, k)
           /\ timer' = IF HasSession(a) THEN [timer EXCEPT ![session[a].by] =
                                                 IF @ = "armed" THEN "none" ELSE @]
                                        ELSE timer
           /\ session' = [session EXCEPT ![a] = Emptied(@)]
           /\ q' = Sent(k, Resumed(session[a].queue))
           /\ Moved(On(session[a].queue), Reached(k))
    /\ asked' = asked \ {k} /\ tokened' = tokened \cup {k}
    /\ UNCHANGED <<client, linkVars, clientToken, owner, bounds>>

\* handleSessionToken with a new token.
Register(k) ==
    /\ link[k] = "live" /\ k \in asked /\ clientToken = NoOne
    /\ clientToken' = app[k]
    /\ q' = Sent(k, <<"token">>)
    /\ asked' = asked \ {k} /\ tokened' = tokened \cup {k}
    /\ UNCHANGED <<client, linkVars, app, conns, session, timer, requestVars, bounds>>

\* A write meets its deadline, as the client, whose fan-out waits for a caller, has not
\* read for a while: the writer closes doneCh and returns. The worker, which does not
\* look at doneCh, goes on reading requests.
WriterFails(k) ==
    /\ link[k] = "live" /\ k \notin done \cup cut /\ stalls < MaxStalls
    /\ client.at = "up" /\ client.conn = k
    /\ done' = done \cup {k} /\ stalls' = stalls + 1
    /\ UNCHANGED <<clientVars, link, cut, q, sessionVars, requestVars, drops, notices>>

\* The worker reads the end of the connection, and onClosedConn begins: unregisterConn
\* deletes by app ID.
Unregister(k) ==
    /\ link[k] = "live" /\ k \in cut
    /\ link' = [link EXCEPT ![k] = "closing"]
    /\ conns' = [conns EXCEPT ![app[k]] = NoOne]
    /\ done' = done \cup {k} /\ asked' = asked \ {k}
    /\ UNCHANGED <<client, cut, q, app, tokened, clientToken, session, timer, requestVars, bounds>>

\* cleanupForAppID drops what the daemon remembers of the requests of app ID a.
Forgotten(a) == {r \in Requests : owner[r] = a /\ at[r] = "pending"}

\* The rest of onClosedConn: everything goes after a ThinClose ...
Forget(k) ==
    /\ link[k] = "closing"
    /\ (client.at = "gone" /\ client.conn = k) \/ k \notin tokened
    /\ clientToken' = IF k \in tokened THEN NoOne ELSE clientToken
    /\ Moved(Forgotten(app[k]), "reaped")
    /\ link' = [link EXCEPT ![k] = "closed"]
    /\ UNCHANGED <<clientVars, cut, done, q, app, tokened, conns, session, timer, owner, bounds>>

\* ... and is kept after any other end, in place of an earlier session, with a timer.
Preserve(k) ==
    /\ link[k] = "closing"
    /\ ~(client.at = "gone" /\ client.conn = k) /\ k \in tokened
    /\ session' = [session EXCEPT ![app[k]] = [by |-> k, queue |-> <<>>]]
    /\ Moved(On(session[app[k]].queue), "lost")
    /\ timer' = [timer EXCEPT ![k] = "armed"]
    /\ link' = [link EXCEPT ![k] = "closed"]
    /\ UNCHANGED <<clientVars, cut, done, q, app, tokened, conns, clientToken, owner, bounds>>

\* The callback of the timer: the session under its lock ...
GraceOver(k) ==
    /\ timer[k] = "armed"
    /\ timer' = [timer EXCEPT ![k] = IF HasSession(app[k]) THEN "firing" ELSE "none"]
    /\ session' = [session EXCEPT ![app[k]] = NoSession]
    /\ Moved(On(session[app[k]].queue), "reaped")
    /\ UNCHANGED <<clientVars, linkVars, q, app, tokened, conns, clientToken, owner, bounds>>

\* ... and then the token under another, and the state of the app.
Reap(k) ==
    /\ timer[k] = "firing"
    /\ timer' = [timer EXCEPT ![k] = "none"]
    /\ clientToken' = NoOne
    /\ Moved(Forgotten(app[k]), "reaped")
    /\ UNCHANGED <<clientVars, linkVars, q, app, tokened, conns, session, owner, bounds>>

\* handleReply looks for a connection ...
Arrive(r) ==
    /\ at[r] = "pending"
    /\ LET k == conns[owner[r]]
       IN  IF k = NoOne
           THEN at' = [at EXCEPT ![r] = "hand"] /\ UNCHANGED q
           ELSE at' = [at EXCEPT ![r] = Reached(k)] /\ q' = Sent(k, <<r>>)
    /\ UNCHANGED <<clientVars, linkVars, sessionVars, owner, bounds>>

\* ... and then for a session to queue the reply for.
Queue(r) ==
    /\ at[r] = "hand"
    /\ IF HasSession(owner[r])
       THEN /\ session' = [session EXCEPT ![owner[r]].queue = Append(@, r)]
            /\ at' = [at EXCEPT ![r] = "queued"]
       ELSE /\ at' = [at EXCEPT ![r] = IF clientToken = owner[r] THEN "lost" ELSE "reaped"]
            /\ UNCHANGED session
    /\ UNCHANGED <<clientVars, linkVars, q, app, tokened, conns, clientToken, timer, owner, bounds>>

Client == Dial \/ Handshake \/ HandshakeFails \/ Read
Serve(k) == InitialSequence(k) \/ Resume(k) \/ Register(k) \/ Unregister(k) \/ Forget(k)
                \/ Preserve(k)
Next ==
    \/ Client \/ Drop \/ Close \/ Broadcast
    \/ \E k \in Conns : Serve(k) \/ WriterFails(k) \/ GraceOver(k) \/ Reap(k)
    \/ \E r \in Requests : Ask(r) \/ Arrive(r) \/ Queue(r)

Spec == Init /\ [][Next]_vars

\* The client keeps dialling and reading; the goroutines of the daemon run.
FairSpec == Spec /\ WF_vars(Client) /\ \A k \in Conns : WF_vars(Serve(k))

(* ---------------------------------- properties --------------------------------- *)

(* The listener knows a client that is up by its current connection, to which the replies
   for its app ID go, as long as the daemon has dealt with the end of each connection
   before it accepted the next: over drops, resumes, wedged writers and grace timers. *)
LiveUnlessOverlapped ==
    client.at = "up" /\ ~client.overlapped => conns[app[client.conn]] = client.conn

(* "The connection resumes the old app ID" (listener.go:520): a client that is up is
   registered under it, however the end of its last connection is delayed. *)
LiveIsRegistered == client.at = "up" => conns[app[client.conn]] = client.conn

(* Every entry of the connection map leads to a connection that has its app ID: no reply
   is sent to a connection that has moved on to another one. *)
RoutedToOwner == \A a \in Conns : conns[a] # NoOne => app[conns[a]] = a

(* Every disconnected session has a grace timer running: none outlives its client for
   good, whichever of two overlapping connections ended last. *)
SessionIsTimed == \A a \in Conns : HasSession(a) => timer[session[a].by] = "armed"

(* A client that lost its connection gets a new one through the handshake, whatever was
   queued for it and whatever is broadcast meanwhile. *)
Reconnects == client.at = "down" ~> client.at \notin {"down", "status", "doc", "token"}

(* "verifies that queued replies from a disconnected session are flushed to the
   reconnecting client": the client keeps what it is sent when it resumes. *)
FlushIsKept == \A r \in Requests : at[r] # "discarded"

(* "A reconnect within the window restores the prior session": no reply is lost while
   the daemon knows the token, but with a connection that breaks. *)
NothingIsLost == \A r \in Requests : at[r] # "lost"

(* "bug: thin client protocol sequence violation": the daemon sends Dial nothing but
   the three messages of the handshake, in their order. *)
NoProtocolViolation == client.at # "panicked"

(* "A reconnect within the window restores the prior session; an absence beyond it reaps
   the state": the grace timer takes nothing from a client that is connected. *)
ReapsTheAbsent ==
    [][\A k \in Conns : timer[k] = "firing" /\ timer'[k] = "none" =>
           ~(client.at = "up" /\ app[client.conn] = app[k])]_vars

(* "a wedged client triggers conn teardown": a connection whose writer has met its
   deadline ends. *)
WedgedIsTornDown == \A k \in Conns : k \in done ~> link[k] = "closed"
=============================================================================
