--------------------------- MODULE DaemonClientProofs ---------------------------
(***************************************************************************)
(* The two ends of the connection between the client daemon and its apps.  *)
(* The listener's tables for any number of connections and requests: a     *)
(* reply goes to a connection that has the app ID it is for, no            *)
(* disconnected session is without its grace timer, and a client that is   *)
(* up is found, unless the daemon was late with the end of a connection.   *)
(* The thin client for any number of calls and events: the answer to a     *)
(* caller that waits is on its way.                                        *)
(***************************************************************************)
EXTENDS DaemonSession, ThinClient, TLAPS

Clients == [at : {"down", "status", "doc", "token", "up", "panicked", "gone"},
            conn : 0..MaxConns, dialed : BOOLEAN, overlapped : BOOLEAN]

Typed ==
    /\ client \in Clients
    /\ app \in [Conns -> Conns] /\ conns \in [Conns -> 0..MaxConns]
    /\ clientToken \in 0..MaxConns
    /\ session \in [Conns -> [by : 0..MaxConns, queue : Seq(Requests)]]
    /\ link \in [Conns -> {"none", "accepted", "live", "closing", "closed"}]
    /\ timer \in [Conns -> {"none", "armed", "firing"}]

(* A connection that has not been dialled has never had an app ID but its own. *)
Fresh == \A k \in Conns :
    /\ link[k] = "none" => app[k] = k
    /\ k > client.conn => link[k] = "none" /\ k \notin cut

(* A session is under the app ID of the connection that left it. *)
LeftBy == \A a \in Conns : HasSession(a) => app[session[a].by] = a /\ link[session[a].by] = "closed"

(* The client's connection has not been cut as long as the client uses it. *)
Using == client.at \in {"status", "doc", "token", "up"}
Uncut == Using => client.conn \in Conns /\ client.conn \notin cut
                    /\ link[client.conn] \in {"accepted", "live"}

(* Unless an end was late, the client's connection is the only one that lasts, and it is
   registered under its app ID until its end is read. *)
Alone == ~client.overlapped =>
    \A k \in Conns : /\ link[k] \notin {"none", "closed"} => k = client.conn
                     /\ link[k] \in {"accepted", "live"} => conns[app[k]] = k

SessionInv == Typed /\ Fresh /\ RoutedToOwner /\ LeftBy /\ SessionIsTimed /\ Uncut /\ Alone

Links == {"none", "accepted", "live", "closing", "closed"}
Timers == {"none", "armed", "firing"}
Sessions == [by : 0..MaxConns, queue : Seq(Requests)]

LEMMA SessionInit == Init => SessionInv
<1> SUFFICES ASSUME Init PROVE SessionInv
  OBVIOUS
<1>1. NoSession \in Sessions /\ NoSession.by = NoOne
  BY SessionAssumption DEF NoSession, Sessions, NoOne
<1>2. Typed
  <2>1. client \in Clients
    BY SessionAssumption DEF Init, Clients, NoOne
  <2>2. session \in [Conns -> Sessions] /\ timer \in [Conns -> Timers] /\ link \in [Conns -> Links]
    BY <1>1 DEF Init, Timers, Links
  <2>3. app \in [Conns -> Conns] /\ conns \in [Conns -> 0..MaxConns] /\ clientToken \in 0..MaxConns
    BY SessionAssumption DEF Init, Conns, NoOne
  <2> QED BY <2>1, <2>2, <2>3 DEF Typed, Sessions, Timers, Links
<1>3. \A a \in Conns : ~HasSession(a)
  BY <1>1 DEF Init, HasSession
<1>4. Fresh /\ RoutedToOwner /\ Alone /\ Uncut
  BY SessionAssumption DEF Init, Fresh, RoutedToOwner, Alone, Uncut, Using, Conns, NoOne
<1> QED BY <1>2, <1>3, <1>4 DEF SessionInv, LeftBy, SessionIsTimed

(* The types. *)
LEMMA TypedStep == Typed /\ [Next]_vars => Typed'
<1> SUFFICES ASSUME Typed, [Next]_vars PROVE Typed'
  OBVIOUS
<1> USE DEF Typed, Clients, linkVars, sessionVars, clientVars, requestVars, bounds, Conns
<1>0. NoSession \in Sessions
  BY SessionAssumption DEF NoSession, Sessions, NoOne
<1>a. NoOne \in 0..MaxConns /\ Conns \subseteq 0..MaxConns
  BY SessionAssumption DEF NoOne
<1>1. CASE Dial
  <2>1. client.conn + 1 \in Conns /\ client.conn + 1 \in 0..MaxConns
    BY <1>1, SessionAssumption DEF Dial
  <2>2. PICK b \in BOOLEAN : client' = [client EXCEPT !.at = "status", !.conn = client.conn + 1,
                                                     !.overlapped = b]
    <3>1. (client.overlapped \/ Overlaps) \in BOOLEAN
      OBVIOUS
    <3> QED BY <1>1, <3>1 DEF Dial
  <2>3. client' \in Clients
    BY <2>1, <2>2
  <2> QED BY <1>1, <2>1, <2>3, SessionAssumption DEF Dial
<1>2. CASE Handshake
  <2>1. client.at \in {"status", "doc", "token"} /\ AfterIt \in {"doc", "token", "up"}
    BY <1>2 DEF Handshake, InHandshake, AfterIt
  <2>2. client' = [client EXCEPT !.at = AfterIt, !.dialed = client.dialed \/ AfterIt = "up"]
    BY <1>2 DEF Handshake
  <2>3. client' \in Clients
    BY <2>1, <2>2
  <2> QED BY <1>2, <2>3 DEF Handshake
<1>3. CASE HandshakeFails \/ Drop \/ Close
  <2>1. PICK c \in {"down", "panicked", "gone"} : client' = [client EXCEPT !.at = c]
    BY <1>3 DEF HandshakeFails, Drop, Close
  <2>2. client' \in Clients
    BY <2>1
  <2> QED BY <1>3, <2>2 DEF HandshakeFails, Drop, Close
<1>4. ASSUME NEW k \in Conns, Resume(k) PROVE Typed'
  <2>1. clientToken \in Conns
    BY <1>4 DEF Resume, NoOne
  <2>2. app' \in [Conns -> Conns]
    BY <1>4, <2>1 DEF Resume
  <2>3. conns' \in [Conns -> 0..MaxConns]
    BY <1>4, <1>a, <2>1 DEF Resume, TakeOver
  <2>4. timer' \in [Conns -> Timers]
    <3>1. CASE timer' = timer
      BY <3>1 DEF Timers
    <3>2. CASE timer' = [timer EXCEPT ![session[clientToken].by] = IF @ = "armed" THEN "none" ELSE @]
      BY <3>2 DEF Timers
    <3> QED BY <1>4, <3>1, <3>2 DEF Resume
  <2>5. session' \in [Conns -> Sessions]
    BY <1>0, <1>4, <2>1 DEF Resume, Emptied, Sessions
  <2> QED BY <1>4, <2>2, <2>3, <2>4, <2>5 DEF Resume, Sessions, Timers
<1>5. ASSUME NEW k \in Conns, InitialSequence(k) \/ WriterFails(k) PROVE Typed'
  BY <1>5 DEF InitialSequence, WriterFails
<1>b. ASSUME NEW k \in Conns, Register(k) \/ Forget(k) PROVE Typed'
  <2>1. clientToken' \in 0..MaxConns
    BY <1>a, <1>b DEF Register, Forget
  <2> QED BY <1>b, <2>1 DEF Register, Forget
<1>6. ASSUME NEW k \in Conns, Unregister(k) PROVE Typed'
  BY <1>6, <1>a DEF Unregister
<1>7. ASSUME NEW k \in Conns, Preserve(k) PROVE Typed'
  <2>1. [by |-> k, queue |-> <<>>] \in Sessions
    BY SessionAssumption DEF Sessions
  <2>2. session' \in [Conns -> Sessions]
    BY <1>7, <2>1 DEF Preserve, Sessions
  <2> QED BY <1>7, <2>2 DEF Preserve, Sessions
<1>8. ASSUME NEW k \in Conns, GraceOver(k) PROVE Typed'
  <2>1. session' \in [Conns -> Sessions]
    BY <1>0, <1>8 DEF GraceOver, Sessions
  <2> QED BY <1>8, <2>1 DEF GraceOver, Sessions
<1>9. ASSUME NEW k \in Conns, Reap(k) PROVE Typed'
  BY <1>9, <1>a DEF Reap
<1>10. ASSUME NEW r \in Requests, Queue(r) PROVE Typed'
  <2>1. CASE session' = [session EXCEPT ![owner[r]].queue = Append(@, r)]
    <3>1. CASE owner[r] \in Conns
      <4>1. [session[owner[r]] EXCEPT !.queue = Append(session[owner[r]].queue, r)] \in Sessions
        <5>1. session[owner[r]] \in Sessions
          BY <3>1 DEF Sessions
        <5>2. Append(session[owner[r]].queue, r) \in Seq(Requests)
          BY <5>1 DEF Sessions
        <5> QED BY <5>1, <5>2 DEF Sessions
      <4>2. session' \in [Conns -> Sessions]
        BY <2>1, <3>1, <4>1 DEF Sessions
      <4> QED BY <1>10, <4>2 DEF Queue, Sessions
    <3>2. CASE owner[r] \notin Conns
      <4>1. session' = session
        BY <2>1, <3>2
      <4> QED BY <1>10, <4>1 DEF Queue
    <3> QED BY <3>1, <3>2
  <2>2. CASE UNCHANGED session
    BY <1>10, <2>2 DEF Queue
  <2> QED BY <1>10, <2>1, <2>2 DEF Queue
<1>11. CASE Read \/ Broadcast \/ \E r \in Requests : Ask(r) \/ Arrive(r)
  BY <1>11 DEF Read, Broadcast, Ask, Arrive
<1>12. CASE UNCHANGED vars
  BY <1>12 DEF vars
<1> QED BY <1>1, <1>2, <1>3, <1>4, <1>5, <1>b, <1>6, <1>7, <1>8, <1>9, <1>10, <1>11, <1>12
        DEF Next, Client, Serve

-------------------------------------------------------------------------------
(* The connection map.                                                     *)

LEMMA FreshStep == Typed /\ Fresh /\ [Next]_vars => Fresh'
<1> SUFFICES ASSUME Typed, Fresh, [Next]_vars PROVE Fresh'
  OBVIOUS
<1> USE DEF Typed, Clients, Fresh, linkVars, sessionVars, clientVars, requestVars, bounds
<1>1. CASE Dial
  <2>1. client.conn \in Nat /\ client'.conn = client.conn + 1
    BY <1>1 DEF Dial
  <2> QED BY <1>1, <2>1 DEF Dial, Conns
<1>2. CASE Handshake \/ HandshakeFails \/ Drop \/ Close
  <2>1. client'.conn = client.conn /\ UNCHANGED <<link, app>>
    BY <1>2 DEF Handshake, HandshakeFails, Drop, Close
  <2>2. cut' \subseteq cut \cup {client.conn}
    BY <1>2 DEF Handshake, HandshakeFails, Drop, Close
  <2> QED BY <2>1, <2>2 DEF Conns
<1>3. ASSUME NEW k \in Conns, Resume(k) PROVE Fresh'
  BY <1>3 DEF Resume
<1>4. ASSUME NEW k \in Conns,
             InitialSequence(k) \/ Register(k) \/ WriterFails(k) \/ Unregister(k) \/ Forget(k)
             \/ Preserve(k) \/ GraceOver(k) \/ Reap(k)
      PROVE  Fresh'
  BY <1>4 DEF InitialSequence, Register, WriterFails, Unregister, Forget, Preserve, GraceOver, Reap
<1>5. CASE Read \/ Broadcast \/ \E r \in Requests : Ask(r) \/ Arrive(r) \/ Queue(r)
  BY <1>5 DEF Read, Broadcast, Ask, Arrive, Queue
<1>6. CASE UNCHANGED vars
  BY <1>6 DEF vars
<1> QED BY <1>1, <1>2, <1>3, <1>4, <1>5, <1>6 DEF Next, Client, Serve

(* Both tables change in one critical section each. *)
LEMMA RoutedStep == Typed /\ Fresh /\ RoutedToOwner /\ [Next]_vars => RoutedToOwner'
<1> SUFFICES ASSUME Typed, Fresh, RoutedToOwner, [Next]_vars PROVE RoutedToOwner'
  OBVIOUS
<1> USE DEF Typed, Clients, RoutedToOwner, Conns, NoOne
<1>1. CASE Dial
  <2>1. app[client.conn + 1] = client.conn + 1 /\ client.conn + 1 \in Conns
    BY <1>1, SessionAssumption DEF Dial, Fresh
  <2> QED BY <1>1, <2>1 DEF Dial
<1>2. ASSUME NEW k \in Conns, Resume(k) PROVE RoutedToOwner'
  <2>1. clientToken \in Conns /\ app' = [app EXCEPT ![k] = clientToken]
        /\ conns' = [conns EXCEPT ![app[k]] = 0, ![clientToken] = k]
    BY <1>2 DEF Resume, TakeOver
  <2>2. \A b \in Conns \ {clientToken} : conns'[b] # k /\ (conns'[b] = conns[b] \/ conns'[b] = 0)
    BY <2>1
  <2> QED BY <2>1, <2>2
<1>3. ASSUME NEW k \in Conns, Unregister(k) PROVE RoutedToOwner'
  BY <1>3 DEF Unregister
<1>4. CASE UNCHANGED <<app, conns>>
  BY <1>4
<1> QED BY <1>1, <1>2, <1>3, <1>4
        DEF Next, Client, Serve, Handshake, HandshakeFails, Read, Drop, Close, Broadcast,
            InitialSequence, Register, WriterFails, Forget, Preserve, GraceOver, Reap, Ask,
            Arrive, Queue, vars, clientVars, linkVars, sessionVars, requestVars, bounds

LEMMA RoutesHold == Spec => [](Typed /\ Fresh /\ RoutedToOwner)
<1>1. Init => Typed /\ Fresh /\ RoutedToOwner
  BY SessionInit DEF SessionInv
<1> QED BY <1>1, TypedStep, FreshStep, RoutedStep, PTL DEF Spec

(* A connection that the map has for an app ID has that app ID: however connections break,
   resume the app ID of others and end late, handleReply never sends a reply to a
   connection that has moved on to another app ID (onNewConn, handleSessionToken,
   unregisterConn). *)
THEOREM RepliesGoToTheirApp == Spec => []RoutedToOwner
BY RoutesHold, PTL

-------------------------------------------------------------------------------
(* The sessions and their timers.                                          *)

Timed == LeftBy /\ SessionIsTimed

(* A step under which no session is new, and what its timer and its connection are for
   stays as it is for those that remain, keeps them timed. *)
LEMMA TimedKept ==
    ASSUME Timed,
           \A a \in Conns : HasSession(a)' =>
               /\ HasSession(a) /\ session'[a].by = session[a].by
               /\ app'[session[a].by] = app[session[a].by]
               /\ link'[session[a].by] = link[session[a].by]
               /\ timer'[session[a].by] = timer[session[a].by]
    PROVE  Timed'
BY DEF Timed, LeftBy, SessionIsTimed

LEMMA TimedStep == Typed /\ Fresh /\ Timed /\ [Next]_vars => Timed'
<1> SUFFICES ASSUME Typed, Fresh, Timed, [Next]_vars PROVE Timed'
  OBVIOUS
<1> USE DEF linkVars, sessionVars, clientVars, requestVars, bounds
<1>a. \A a \in Conns : HasSession(a) =>
          /\ session[a].by \in Conns /\ app[session[a].by] = a
          /\ link[session[a].by] = "closed" /\ timer[session[a].by] = "armed"
  BY DEF Typed, Timed, LeftBy, SessionIsTimed, HasSession, Conns, NoOne
<1>b. NoSession.by = NoOne
  BY DEF NoSession
<1>1. CASE UNCHANGED <<link, app, session, timer>>
  BY <1>1, TimedKept DEF HasSession
<1>2. ASSUME UNCHANGED <<app, session, timer>>, NEW k \in Conns, NEW s \in Links,
             link[k] # "closed", link' = [link EXCEPT ![k] = s]
      PROVE  Timed'
  BY <1>a, <1>2, TimedKept DEF HasSession, Typed
<1>3. CASE Dial
  <2>1. client.conn + 1 \in Conns /\ link[client.conn + 1] = "none"
    BY <1>3, SessionAssumption DEF Dial, Typed, Clients, Fresh, Conns
  <2> QED BY <1>2, <1>3, <2>1 DEF Dial, Links
<1>4. ASSUME NEW k \in Conns, InitialSequence(k) \/ Unregister(k) \/ Forget(k) PROVE Timed'
  BY <1>2, <1>4 DEF InitialSequence, Unregister, Forget, Links
<1>5. ASSUME NEW k \in Conns, Resume(k) PROVE Timed'
  <2>1. clientToken \in Conns /\ app' = [app EXCEPT ![k] = clientToken] /\ link' = link
        /\ session' = [session EXCEPT ![clientToken] = NoSession] /\ link[k] = "live"
    BY <1>5 DEF Resume, Emptied, Typed, Conns, NoOne
  <2>2. \A j \in Conns : timer'[j] = timer[j]
                         \/ (HasSession(clientToken) /\ j = session[clientToken].by)
    <3>1. timer' = IF HasSession(clientToken)
                   THEN [timer EXCEPT ![session[clientToken].by] = IF @ = "armed" THEN "none" ELSE @]
                   ELSE timer
      BY <1>5 DEF Resume
    <3>2. CASE HasSession(clientToken)
      <4>1. PICK x : timer' = [timer EXCEPT ![session[clientToken].by] = x]
        BY <3>1, <3>2
      <4> QED BY <3>2, <4>1 DEF Typed
    <3> QED BY <3>1, <3>2
  <2>3. \A a \in Conns : HasSession(a)' => a # clientToken /\ HasSession(a) /\ session'[a] = session[a]
    BY <1>b, <2>1 DEF HasSession, Typed
  <2> QED BY <1>a, <2>1, <2>2, <2>3, TimedKept DEF Typed
<1>6. ASSUME NEW k \in Conns, Preserve(k) PROVE Timed'
  <2>1. /\ app' = app /\ app[k] \in Conns
        /\ link' = [link EXCEPT ![k] = "closed"] /\ timer' = [timer EXCEPT ![k] = "armed"]
        /\ session' = [session EXCEPT ![app[k]] = [by |-> k, queue |-> <<>>]]
    BY <1>6 DEF Preserve, Typed
  <2>2. ASSUME NEW a \in Conns, HasSession(a)'
        PROVE  app'[session'[a].by] = a /\ link'[session'[a].by] = "closed"
               /\ timer'[session'[a].by] = "armed"
    <3>1. CASE a = app[k]
      BY <2>1, <3>1 DEF Typed
    <3>2. CASE a # app[k]
      BY <1>a, <2>1, <2>2, <3>2 DEF Typed, HasSession
    <3> QED BY <3>1, <3>2
  <2> QED BY <2>2 DEF Timed, LeftBy, SessionIsTimed
<1>7. ASSUME NEW k \in Conns, GraceOver(k) PROVE Timed'
  <2>1. /\ UNCHANGED <<app, link>> /\ app[k] \in Conns
        /\ session' = [session EXCEPT ![app[k]] = NoSession]
        /\ \A j \in Conns \ {k} : timer'[j] = timer[j]
    BY <1>7 DEF GraceOver, Typed
  <2>2. \A a \in Conns : HasSession(a)' => a # app[k] /\ HasSession(a) /\ session'[a] = session[a]
    BY <1>b, <2>1 DEF HasSession, Typed
  <2> QED BY <1>a, <2>1, <2>2, TimedKept
<1>8. ASSUME NEW k \in Conns, Reap(k) PROVE Timed'
  <2>1. UNCHANGED <<app, link, session>> /\ timer[k] = "firing"
        /\ \A j \in Conns \ {k} : timer'[j] = timer[j]
    BY <1>8 DEF Reap, Typed
  <2> QED BY <1>a, <2>1, TimedKept DEF HasSession
<1>9. ASSUME NEW r \in Requests, Queue(r) PROVE Timed'
  <2>1. UNCHANGED <<app, link, timer>>
    BY <1>9 DEF Queue
  <2>2. CASE session' = [session EXCEPT ![owner[r]].queue = Append(@, r)]
    <3>1. \A a \in Conns : session'[a].by = session[a].by
      <4> SUFFICES ASSUME NEW a \in Conns PROVE session'[a].by = session[a].by
        OBVIOUS
      <4>1. session[a] \in Sessions
        BY DEF Typed, Sessions
      <4>2. session'[a] = session[a]
            \/ session'[a] = [session[a] EXCEPT !.queue = Append(session[a].queue, r)]
        BY <2>2 DEF Typed
      <4> QED BY <4>1, <4>2 DEF Sessions
    <3> QED BY <2>1, <3>1, TimedKept DEF HasSession
  <2>3. CASE session' = session
    BY <2>1, <2>3, TimedKept DEF HasSession
  <2> QED BY <1>9, <2>2, <2>3 DEF Queue
<1> QED BY <1>1, <1>3, <1>4, <1>5, <1>6, <1>7, <1>8, <1>9
        DEF Next, Client, Serve, Handshake, HandshakeFails, Read, Drop, Close, Broadcast,
            Register, WriterFails, Ask, Arrive, vars

(* A disconnected session never outlives its grace timer, whichever of two connections of
   the client ends last: the daemon keeps nothing for a client for good (onClosedConn,
   handleSessionToken, the callback of the timer). *)
THEOREM SessionsAreTimed == Spec => []SessionIsTimed
<1>1. Init => Typed /\ Fresh /\ Timed
  BY SessionInit DEF SessionInv, Timed
<1>2. Timed => SessionIsTimed
  BY DEF Timed
<1> QED BY <1>1, <1>2, TypedStep, FreshStep, TimedStep, PTL DEF Spec

-------------------------------------------------------------------------------
(* The client that is up.                                                  *)

LEMMA UncutStep == Typed /\ Fresh /\ Uncut /\ [Next]_vars => Uncut'
<1> SUFFICES ASSUME Typed, Fresh, Uncut, [Next]_vars, Using'
             PROVE  /\ client'.conn \in Conns /\ client'.conn \notin cut'
                    /\ link'[client'.conn] \in {"accepted", "live"}
  BY DEF Uncut
<1> USE DEF Typed, Clients, Uncut, Using, linkVars, sessionVars, clientVars, requestVars, bounds
<1>1. CASE Dial
  <2>1. client'.conn = client.conn + 1 /\ client.conn + 1 \in Conns
    BY <1>1, SessionAssumption DEF Dial, Conns
  <2>2. client.conn + 1 \notin cut
    BY <2>1 DEF Fresh, Conns
  <2> QED BY <1>1, <2>1, <2>2 DEF Dial
<1>2. CASE Handshake
  BY <1>2 DEF Handshake, InHandshake
<1>3. CASE HandshakeFails \/ Drop \/ Close
  BY <1>3 DEF HandshakeFails, Drop, Close
<1>4. ASSUME NEW k \in Conns, Serve(k) \/ WriterFails(k)
      PROVE  /\ client'.conn \in Conns /\ client'.conn \notin cut'
             /\ link'[client'.conn] \in {"accepted", "live"}
  <2>1. client' = client /\ cut' = cut
    BY <1>4 DEF Serve, WriterFails, InitialSequence, Resume, Register, Unregister, Forget, Preserve
  <2>2. \A j \in Conns \ cut : link[j] \in {"accepted", "live"} => link'[j] \in {"accepted", "live"}
    BY <1>4 DEF Serve, WriterFails, InitialSequence, Resume, Register, Unregister, Forget, Preserve
  <2> QED BY <2>1, <2>2
<1>5. CASE UNCHANGED <<client, cut, link>>
  BY <1>5
<1> QED BY <1>1, <1>2, <1>3, <1>4, <1>5
        DEF Next, Client, Read, Broadcast, GraceOver, Reap, Ask, Arrive, Queue, vars

(* A step that leaves the client, the links and the map alone. *)
LEMMA AloneKept ==
    ASSUME Alone, UNCHANGED <<link, app, conns>>, client'.conn = client.conn,
           client'.overlapped = client.overlapped
    PROVE  Alone'
BY DEF Alone

\* A connection that starts or ends leaves the others as they were.
LEMMA AloneMoves ==
    ASSUME Alone, link \in [Conns -> Links], NEW k \in Conns,
           client' = client, conns' = conns, app' = app,
           \/ link' = [link EXCEPT ![k] = "live"] /\ link[k] = "accepted"
           \/ link' = [link EXCEPT ![k] = "closed"] /\ link[k] = "closing"
    PROVE  Alone'
<1>1. \A j \in Conns : \/ link'[j] = link[j]
                       \/ link'[j] = "live" /\ link[j] = "accepted"
                       \/ link'[j] = "closed"
  OBVIOUS
<1> QED BY <1>1 DEF Alone

LEMMA AloneStep == Typed /\ Fresh /\ RoutedToOwner /\ Alone /\ [Next]_vars => Alone'
<1> SUFFICES ASSUME Typed, Fresh, RoutedToOwner, Alone, [Next]_vars PROVE Alone'
  OBVIOUS
<1> USE DEF Typed, Clients, linkVars, sessionVars, clientVars, requestVars, bounds
<1>1. CASE Dial
  <2>1. client.conn + 1 \in Conns /\ app[client.conn + 1] = client.conn + 1
    BY <1>1, SessionAssumption DEF Dial, Conns, Fresh
  <2>2. /\ client'.conn = client.conn + 1 /\ client'.overlapped = (client.overlapped \/ Overlaps)
        /\ link' = [link EXCEPT ![client.conn + 1] = "accepted"]
        /\ conns' = [conns EXCEPT ![client.conn + 1] = client.conn + 1] /\ app' = app
    BY <1>1 DEF Dial
  <2>3. ~Overlaps => \A k \in Conns : link[k] \in {"none", "closed"}
    BY DEF Overlaps
  <2> QED BY <2>1, <2>2, <2>3 DEF Alone
<1>2. CASE Handshake \/ HandshakeFails \/ Drop \/ Close
  <2>1. client'.conn = client.conn /\ client'.overlapped = client.overlapped
    BY <1>2 DEF Handshake, HandshakeFails, Drop, Close
  <2> QED BY <1>2, <2>1, AloneKept DEF Handshake, HandshakeFails, Drop, Close
<1>3. ASSUME NEW k \in Conns, InitialSequence(k) \/ Forget(k) \/ Preserve(k) PROVE Alone'
  <2>1. client' = client /\ conns' = conns /\ app' = app
    BY <1>3 DEF InitialSequence, Forget, Preserve
  <2>2. \/ link' = [link EXCEPT ![k] = "live"] /\ link[k] = "accepted"
        \/ link' = [link EXCEPT ![k] = "closed"] /\ link[k] = "closing"
    BY <1>3 DEF InitialSequence, Forget, Preserve
  <2>3. link \in [Conns -> Links]
    BY DEF Links
  <2> QED BY <1>3, <2>1, <2>2, <2>3, AloneMoves
<1>4. ASSUME NEW k \in Conns, Resume(k) PROVE Alone'
  <2>1. clientToken \in Conns
    BY <1>4 DEF Resume, Conns, NoOne
  <2>2. /\ app' = [app EXCEPT ![k] = clientToken] /\ link' = link /\ client' = client
        /\ conns' = [conns EXCEPT ![app[k]] = NoOne, ![clientToken] = k] /\ link[k] = "live"
    BY <1>4 DEF Resume, TakeOver
  <2>3. app'[k] = clientToken /\ conns'[clientToken] = k
    BY <2>1, <2>2
  <2> QED BY <2>2, <2>3 DEF Alone
<1>5. ASSUME NEW k \in Conns, Unregister(k) PROVE Alone'
  BY <1>5 DEF Unregister, Alone
<1>6. CASE UNCHANGED <<client, link, app, conns>>
  BY <1>6, AloneKept
<1> QED BY <1>1, <1>2, <1>3, <1>4, <1>5, <1>6
        DEF Next, Client, Serve, Read, Broadcast, Register, WriterFails, GraceOver, Reap,
            Ask, Arrive, Queue, vars

LEMMA SessionStep == SessionInv /\ [Next]_vars => SessionInv'
BY TypedStep, FreshStep, RoutedStep, TimedStep, UncutStep, AloneStep DEF SessionInv, Timed

(* The listener knows a client that is up by its current connection, if it dealt with the
   end of each of its connections before it accepted the next: drops, resumed sessions,
   wedged writers and grace timers never take the entry away (onNewConn,
   handleSessionToken, onClosedConn). *)
THEOREM LiveClientIsFound == Spec => []LiveUnlessOverlapped
<1>1. SessionInv => LiveUnlessOverlapped
  BY DEF SessionInv, Uncut, Using, Alone, LiveUnlessOverlapped
<1> QED BY <1>1, SessionInit, SessionStep, PTL DEF Spec

(* -------------------------------- the thin client ------------------------------ *)


ThinTyped == ThinTypeOK /\ buf \in [Calls -> Seq(Event)]

(* What the reader holds it is about to offer, and the fan-out waits for one drain. *)
Holding ==
    /\ reader.at # "offer" <=> reader.event = Idle
    /\ fanout.at = "deliver" => fanout.event # Idle /\ \E d \in Calls : fanout.to = {d}
    /\ fanout.at # "deliver" => fanout.to = {} /\ fanout.left = {}

(* As long as the client stays open and the daemon up, nothing ends. *)
Calm ==
    restarts = 0 /\ closer = "open" =>
        /\ open /\ ~halted /\ fanout.at # "done"
        /\ reader.at \in {"top", "reading", "offer"} /\ reader.event.kind # "disconnected"
        /\ \A i \in 1..Len(wire) : wire[i] # Eof /\ wire[i].kind # "disconnected"

InWire(c)   == \E i \in 1..Len(wire) : wire[i] = Reply(c)
AtReader(c) == reader.event = Reply(c)
InSink(c)   == \E i \in 1..Len(eventSink) : eventSink[i] = Reply(c)
AtFanout(c) == fanout.event = Reply(c) /\ c \in fanout.to \cup fanout.left
InDrain(c)  == buf[c] = <<Reply(c)>>

OnItsWay(c) == c \in served \/ InWire(c) \/ AtReader(c) \/ InSink(c) \/ AtFanout(c) \/ InDrain(c)
Flight == \A c \in Calls : pc[c] = "waiting" /\ restarts = 0 /\ closer = "open" => OnItsWay(c)

ThinInv == ThinTyped /\ OnlyCallersAreServed /\ Holding /\ Calm /\ Flight

LEMMA ThinTails ==
    ASSUME NEW S, NEW sq \in Seq(S), sq # <<>>
    PROVE  /\ Len(sq) \in Nat \ {0} /\ Len(Tail(sq)) = Len(sq) - 1 /\ Tail(sq) \in Seq(S)
           /\ Head(sq) = sq[1] /\ Head(sq) \in S
           /\ \A j \in 1..Len(Tail(sq)) : j + 1 \in 1..Len(sq) /\ Tail(sq)[j] = sq[j + 1]
           /\ \A j \in 1..Len(sq) : j = 1 \/ (j - 1 \in 1..Len(Tail(sq)) /\ Tail(sq)[j - 1] = sq[j])
<1>1. Len(sq) \in Nat /\ Len(sq) # 0
  OBVIOUS
<1> QED BY <1>1

LEMMA ThinAppends ==
    ASSUME NEW S, NEW sq \in Seq(S), NEW e \in S
    PROVE  /\ Len(sq) \in Nat /\ Len(Append(sq, e)) = Len(sq) + 1 /\ Append(sq, e) \in Seq(S)
           /\ Append(sq, e)[Len(sq) + 1] = e /\ Len(sq) + 1 \in 1..Len(Append(sq, e))
           /\ \A j \in 1..Len(sq) : j \in 1..Len(Append(sq, e)) /\ Append(sq, e)[j] = sq[j]
           /\ \A j \in 1..Len(Append(sq, e)) : j \in 1..Len(sq) \/ j = Len(sq) + 1
OBVIOUS

LEMMA Events ==
    /\ \A c \in Calls : Reply(c) \in Event /\ Reply(c).kind = "reply" /\ Reply(c) # Eof /\ Reply(c) # Idle
    /\ \A k \in {"up", "down", "other", "disconnected"} :
          [kind |-> k] \in Event /\ [kind |-> k].kind = k /\ [kind |-> k] # Eof
    /\ Idle.kind = "none" /\ \A e \in Event : e # Idle
<1>1. ASSUME NEW c \in Calls PROVE Reply(c) \in Event /\ Reply(c).kind = "reply"
  BY DEF Reply, Event
<1>2. Idle.kind = "none" /\ Eof.kind = "eof"
  BY DEF Idle, Eof
<1>3. ASSUME NEW k \in {"up", "down", "other", "disconnected"} PROVE [kind |-> k] \in Event /\ [kind |-> k].kind = k
  BY DEF Event, Notice
<1>4. ASSUME NEW e \in Event PROVE e # Idle
  BY <1>2 DEF Event, Notice
<1> QED BY <1>1, <1>2, <1>3, <1>4

LEMMA FlightIsReach == ASSUME ThinTyped PROVE ReplyReachesCaller <=> Flight
<1>1. DOMAIN wire = 1..Len(wire) /\ DOMAIN eventSink = 1..Len(eventSink)
  BY DEF ThinTyped, ThinTypeOK
<1> QED BY <1>1 DEF ReplyReachesCaller, Flight, InFlight, OnItsWay, InWire, AtReader, InSink, AtFanout, InDrain

LEMMA ThinInvInit == ASSUME ClientAssumption, ThinInit PROVE ThinInv
<1>1. ThinTyped
  <2>1. /\ open \in BOOLEAN /\ isConnected \in BOOLEAN /\ halted \in BOOLEAN
        /\ served \in SUBSET Calls /\ drains \in SUBSET Calls /\ closer \in {"open", "halt", "wait", "closed"}
    BY DEF ThinInit
  <2>5. events \in 0..MaxEvents /\ restarts \in 0..MaxEvents
    <3>1. events = 0 /\ restarts = 0
      BY DEF ThinInit
    <3> QED BY <3>1 DEF ClientAssumption
  <2>2. /\ reader \in [at : {"top", "reading", "offer", "redial", "dial", "done"}, event : Event \cup {Idle}]
        /\ fanout \in [at : {"select", "deliver", "done"}, event : Event \cup {Idle}, to : SUBSET Calls, left : SUBSET Calls]
    BY DEF ThinInit
  <2>3. /\ pc \in [Calls -> {"idle", "adding", "sending", "waiting", "removing", "returned"}]
        /\ result \in [Calls -> Results] /\ buf \in [Calls -> Seq(Event)]
    BY DEF ThinInit, Results
  <2>4. /\ wire \in Seq(Event \cup {Eof}) /\ eventSink \in Seq(Event) /\ Len(eventSink) <= 2
        /\ \A c \in Calls : buf[c] \in Seq(Event) /\ Len(buf[c]) <= 1
    BY DEF ThinInit
  <2> QED BY <2>1, <2>2, <2>3, <2>4, <2>5 DEF ThinTyped, ThinTypeOK
<1>2. OnlyCallersAreServed /\ Holding /\ Flight
  BY DEF ThinInit, OnlyCallersAreServed, Holding, Flight
<1>3. Calm
  BY Events DEF ThinInit, Calm
<1> QED BY <1>1, <1>2, <1>3 DEF ThinInv

-----------------------------------------------------------------------------
(* The daemon *)

LEMMA DaemonStep ==
    ASSUME ClientAssumption, ThinInv, DaemonEvent \/ \E c \in Calls : DaemonReply(c)
    PROVE  ThinInv'
<1>1. PICK e \in Event : /\ wire' = Append(wire, e) /\ e.kind # "disconnected" /\ e # Eof
                         /\ \A c \in Calls : c \in served => c \in served' \/ e = Reply(c)
  <2>1. CASE DaemonEvent
    BY <2>1, Events DEF DaemonEvent
  <2>2. CASE \E c \in Calls : DaemonReply(c)
    BY <2>2, Events DEF DaemonReply
  <2> QED BY <2>1, <2>2
<1>2. /\ UNCHANGED <<open, restarts, isConnected, reader, eventSink, fanout, drains, buf, pc, result, closer, halted>>
      /\ served' \in SUBSET Calls /\ events' \in 0..MaxEvents
  BY DEF DaemonEvent, DaemonReply, callVars, ThinInv, ThinTyped, ThinTypeOK, ClientAssumption
<1>3. wire \in Seq(Event \cup {Eof}) /\ e \in Event \cup {Eof}
  BY DEF ThinInv, ThinTyped, ThinTypeOK
<1>4. /\ Len(wire) \in Nat /\ Len(wire') = Len(wire) + 1 /\ wire' \in Seq(Event \cup {Eof})
      /\ wire'[Len(wire) + 1] = e /\ Len(wire) + 1 \in 1..Len(wire')
      /\ \A j \in 1..Len(wire) : j \in 1..Len(wire') /\ wire'[j] = wire[j]
      /\ \A j \in 1..Len(wire') : j \in 1..Len(wire) \/ j = Len(wire) + 1
  BY <1>1, <1>3, ThinAppends
<1>5. ThinTyped'
  BY <1>2, <1>4 DEF ThinInv, ThinTyped, ThinTypeOK, Event, Notice
<1>6. OnlyCallersAreServed' /\ Holding'
  BY <1>2 DEF ThinInv, OnlyCallersAreServed, Holding, Idle
<1>7. Calm'
  BY <1>1, <1>2, <1>4 DEF ThinInv, Calm, Eof
<1>8. Flight'
  <2> SUFFICES ASSUME NEW c \in Calls, OnItsWay(c) PROVE OnItsWay(c)'
    BY <1>2 DEF ThinInv, Flight
  <2>1. InWire(c) => InWire(c)'
    BY <1>4 DEF InWire, Reply
  <2>2. e = Reply(c) => InWire(c)'
    BY <1>4 DEF InWire, Reply
  <2> QED BY <1>1, <1>2, <2>1, <2>2 DEF OnItsWay, AtReader, InSink, AtFanout, InDrain, Reply
<1> QED BY <1>5, <1>6, <1>7, <1>8 DEF ThinInv

(* Once the daemon has ended or Close has begun, nothing is claimed of the replies. *)
Over == restarts' # 0 \/ closer' # "open"

LEMMA OverStep ==
    ASSUME ThinTyped', OnlyCallersAreServed', Holding', Over
    PROVE  ThinInv'
BY DEF ThinInv, Over, Calm, Flight

LEMMA DaemonExitsStep == ASSUME ClientAssumption, ThinInv, DaemonExits PROVE ThinInv'
<1>1. /\ open' = FALSE /\ wire' = Append(wire, Eof) /\ served' = {} /\ restarts' = restarts + 1
      /\ events + restarts < MaxEvents
      /\ UNCHANGED <<events, isConnected, reader, eventSink, fanout, drains, buf, pc, result, closer, halted>>
  BY DEF DaemonExits, callVars
<1>2. restarts \in Nat /\ events \in Nat /\ restarts' \in 0..MaxEvents /\ restarts' # 0
  BY <1>1 DEF ThinInv, ThinTyped, ThinTypeOK, ClientAssumption
<1>3. wire' \in Seq(Event \cup {Eof})
  BY <1>1 DEF ThinInv, ThinTyped, ThinTypeOK
<1>4. ThinTyped'
  <2>1. open' \in BOOLEAN /\ served' \in SUBSET Calls
    BY <1>1
  <2> QED BY <1>1, <1>2, <1>3, <2>1 DEF ThinInv, ThinTyped, ThinTypeOK, Event, Notice, Idle, Eof
<1>5. OnlyCallersAreServed' /\ Holding'
  BY <1>1 DEF ThinInv, OnlyCallersAreServed, Holding, Idle
<1> QED BY <1>2, <1>4, <1>5, OverStep DEF Over

-----------------------------------------------------------------------------
(* The reader *)

Records == [at : {"top", "reading", "offer", "redial", "dial", "done"}, event : Event \cup {Idle}]

LEMMA ReaderTopStep == ASSUME ClientAssumption, ThinInv, ReaderTop PROVE ThinInv'
<1>1. /\ reader.at = "top" /\ reader \in Records
      /\ reader' = [reader EXCEPT !.at = IF halted THEN "done" ELSE "reading"]
      /\ UNCHANGED <<wire, open, served, events, restarts, isConnected, eventSink, fanout, drains,
                     buf, pc, result, closer, halted>>
  BY DEF ReaderTop, daemonVars, callVars, ThinInv, ThinTyped, ThinTypeOK, Records
<1>2. reader' \in Records /\ reader'.event = reader.event /\ reader'.at \in {"done", "reading"}
      /\ (~halted => reader'.at = "reading")
  BY <1>1 DEF Records
<1>3. ThinTyped'
  BY <1>1, <1>2 DEF ThinInv, ThinTyped, ThinTypeOK, Event, Notice, Records, Idle
<1>4. OnlyCallersAreServed' /\ Holding' /\ Calm'
  BY <1>1, <1>2 DEF ThinInv, OnlyCallersAreServed, Holding, Calm, Idle, Eof
<1>5. Flight'
  BY <1>1, <1>2 DEF ThinInv, Flight, OnItsWay, InWire, AtReader, InSink, AtFanout, InDrain, Reply
<1> QED BY <1>3, <1>4, <1>5 DEF ThinInv

LEMMA ReadEventStep == ASSUME ClientAssumption, ThinInv, ReadEvent PROVE ThinInv'
<1> DEFINE e == Head(wire)
<1>1. /\ reader.at = "reading" /\ wire # <<>> /\ e # Eof /\ wire' = Tail(wire)
      /\ reader' = [at |-> "offer", event |-> e]
      /\ UNCHANGED <<open, served, events, restarts, eventSink, fanout, drains, buf, pc, result, closer, halted>>
  BY DEF ReadEvent, callVars
<1>2. isConnected' \in BOOLEAN
  <2>1. isConnected' = CASE e.kind = "up" -> TRUE [] e.kind = "down" -> FALSE [] OTHER -> isConnected
    BY DEF ReadEvent
  <2>2. isConnected \in BOOLEAN
    BY DEF ThinInv, ThinTyped, ThinTypeOK
  <2> QED BY <2>1, <2>2
<1>3. wire \in Seq(Event \cup {Eof})
  BY DEF ThinInv, ThinTyped, ThinTypeOK
<1>4. /\ Len(wire) \in Nat \ {0} /\ Tail(wire) \in Seq(Event \cup {Eof}) /\ e = wire[1] /\ e \in Event \cup {Eof}
      /\ \A j \in 1..Len(Tail(wire)) : j + 1 \in 1..Len(wire) /\ Tail(wire)[j] = wire[j + 1]
      /\ \A j \in 1..Len(wire) : j = 1 \/ (j - 1 \in 1..Len(Tail(wire)) /\ Tail(wire)[j - 1] = wire[j])
  BY <1>1, <1>3, ThinTails
<1> HIDE DEF e
<1>5. e \in Event /\ reader' \in Records /\ reader'.event = e /\ reader'.at = "offer" /\ 1 \in 1..Len(wire)
  BY <1>1, <1>4 DEF Records
<1>6. ThinTyped'
  BY <1>1, <1>2, <1>4, <1>5 DEF ThinInv, ThinTyped, ThinTypeOK, Event, Notice, Records, Idle
<1>7. OnlyCallersAreServed' /\ Holding'
  BY <1>1, <1>5, Events DEF ThinInv, OnlyCallersAreServed, Holding
<1>8. Calm'
  BY <1>1, <1>4, <1>5 DEF ThinInv, Calm, Eof
<1>9. Flight'
  <2> SUFFICES ASSUME NEW c \in Calls, OnItsWay(c) PROVE OnItsWay(c)'
    BY <1>1 DEF ThinInv, Flight
  <2>1. InWire(c) => InWire(c)' \/ AtReader(c)'
    <3> SUFFICES ASSUME NEW i \in 1..Len(wire), wire[i] = Reply(c), e # Reply(c) PROVE InWire(c)'
      BY <1>5 DEF InWire, AtReader, Reply
    <3>1. i - 1 \in 1..Len(wire') /\ wire'[i - 1] = Reply(c)
      BY <1>1, <1>4
    <3> QED BY <3>1 DEF InWire, Reply
  <2>2. ~AtReader(c)
    BY <1>1, Events DEF ThinInv, Holding, AtReader
  <2> QED BY <1>1, <2>1, <2>2 DEF OnItsWay, InSink, AtFanout, InDrain, Reply
<1> QED BY <1>6, <1>7, <1>8, <1>9 DEF ThinInv

LEMMA ReadEofStep == ASSUME ClientAssumption, ThinInv, ReadEof PROVE ThinInv'
<1>1. /\ reader.at = "reading" /\ wire # <<>> /\ Head(wire) = Eof /\ wire' = Tail(wire)
      /\ UNCHANGED <<open, served, events, restarts, eventSink, fanout, drains, buf, pc, result, closer, halted>>
  BY DEF ReadEof, callVars
<1>2. wire \in Seq(Event \cup {Eof}) /\ reader \in Records /\ isConnected \in BOOLEAN
  BY DEF ThinInv, ThinTyped, ThinTypeOK, Records
<1>3. reader' \in Records /\ isConnected' \in BOOLEAN /\ (reader'.at # "offer" <=> reader'.event = Idle)
  <2>0. reader.event = Idle
    BY <1>1 DEF ThinInv, Holding
  <2>1. CASE halted
    <3>1. reader' = [reader EXCEPT !.at = "done"] /\ isConnected' = isConnected
      BY <2>1 DEF ReadEof
    <3> QED BY <1>2, <2>0, <3>1 DEF Records
  <2>2. CASE ~halted
    <3> DEFINE d == [kind |-> "disconnected"]
    <3>1. reader' = [at |-> "offer", event |-> d] /\ isConnected' = FALSE
      BY <2>2 DEF ReadEof
    <3>2. d \in Event /\ d # Idle
      BY Events
    <3> HIDE DEF d
    <3>3. isConnected' \in BOOLEAN
      BY <3>1
    <3> QED BY <3>1, <3>2, <3>3 DEF Records
  <2> QED BY <2>1, <2>2
<1>4. Len(wire) \in Nat \ {0} /\ wire[1] = Eof /\ Tail(wire) \in Seq(Event \cup {Eof}) /\ 1 \in 1..Len(wire)
  BY <1>1, <1>2, ThinTails
<1>5. ThinTyped'
  BY <1>1, <1>3, <1>4 DEF ThinInv, ThinTyped, ThinTypeOK, Event, Notice, Records, Idle
<1>6. OnlyCallersAreServed' /\ Holding'
  BY <1>1, <1>3 DEF ThinInv, OnlyCallersAreServed, Holding, Idle
<1>7. Over
  BY <1>1, <1>4 DEF ThinInv, Calm, Over
<1> QED BY <1>5, <1>6, <1>7, OverStep

LEMMA OfferStep == ASSUME ClientAssumption, ThinInv, Offer PROVE ThinInv'
<1>1. /\ reader.at = "offer" /\ reader \in Records /\ eventSink \in Seq(Event) /\ Len(eventSink) <= 2
      /\ UNCHANGED <<wire, open, served, events, restarts, isConnected, fanout, drains, buf, pc, result, closer, halted>>
  BY DEF Offer, daemonVars, callVars, ThinInv, ThinTyped, ThinTypeOK, Records
<1>2. CASE halted /\ reader' = [at |-> "done", event |-> Idle] /\ UNCHANGED eventSink
  <2>1. reader' \in Records /\ reader'.at = "done" /\ reader'.event = Idle
    BY <1>2 DEF Records
  <2>2. ThinTyped'
    BY <1>1, <1>2, <2>1 DEF ThinInv, ThinTyped, ThinTypeOK, Event, Notice, Records, Idle
  <2>3. OnlyCallersAreServed' /\ Holding'
    BY <1>1, <2>1 DEF ThinInv, OnlyCallersAreServed, Holding, Idle
  <2>4. Over
    BY <1>1, <1>2 DEF ThinInv, Calm, Over
  <2> QED BY <2>2, <2>3, <2>4, OverStep
<1>3. CASE /\ Len(eventSink) < EventSinkCap /\ eventSink' = Append(eventSink, reader.event)
           /\ reader' = [at |-> IF reader.event.kind = "disconnected" THEN "redial" ELSE "top", event |-> Idle]
  <2>1. reader.event \in Event
    BY <1>1 DEF ThinInv, Holding, Records
  <2>2. /\ Len(eventSink) \in Nat /\ Len(eventSink') = Len(eventSink) + 1 /\ eventSink' \in Seq(Event)
        /\ eventSink'[Len(eventSink) + 1] = reader.event /\ Len(eventSink) + 1 \in 1..Len(eventSink')
        /\ \A j \in 1..Len(eventSink) : j \in 1..Len(eventSink') /\ eventSink'[j] = eventSink[j]
    BY <1>1, <1>3, <2>1, ThinAppends
  <2>3. /\ reader' \in Records /\ reader'.event = Idle /\ reader'.at \in {"redial", "top"}
        /\ reader.event.kind # "disconnected" => reader'.at = "top"
    BY <1>3 DEF Records
  <2>4. ThinTyped'
    <3>1. Len(eventSink') <= 2
      BY <1>3, <2>2 DEF EventSinkCap
    <3> QED BY <1>1, <2>2, <2>3, <3>1 DEF ThinInv, ThinTyped, ThinTypeOK, Event, Notice, Records, Idle
  <2>5. OnlyCallersAreServed' /\ Holding'
    BY <1>1, <2>3 DEF ThinInv, OnlyCallersAreServed, Holding, Idle
  <2>6. Calm'
    BY <1>1, <2>3, Events DEF ThinInv, Calm, Eof
  <2>7. Flight'
    <3> SUFFICES ASSUME NEW c \in Calls, OnItsWay(c) PROVE OnItsWay(c)'
      BY <1>1 DEF ThinInv, Flight
    <3>1. InSink(c) => InSink(c)'
      BY <2>2 DEF InSink, Reply
    <3>2. AtReader(c) => InSink(c)'
      BY <2>2 DEF InSink, AtReader, Reply
    <3> QED BY <1>1, <3>1, <3>2 DEF OnItsWay, InWire, AtFanout, InDrain, Reply
  <2> QED BY <2>4, <2>5, <2>6, <2>7 DEF ThinInv
<1> QED BY <1>2, <1>3 DEF Offer

LEMMA RedialStep == ASSUME ClientAssumption, ThinInv, Backoff \/ Redial PROVE ThinInv'
<1>1. /\ reader.at \in {"redial", "dial"} /\ reader \in Records /\ isConnected \in BOOLEAN
      /\ UNCHANGED <<served, events, restarts, eventSink, fanout, drains, buf, pc, result, closer, halted>>
  BY DEF Backoff, Redial, daemonVars, callVars, ThinInv, ThinTyped, ThinTypeOK, Records
<1>2. reader' \in Records /\ reader'.event = reader.event /\ reader'.at # "offer"
  BY <1>1 DEF Backoff, Redial, Records
<1>3. isConnected' \in BOOLEAN /\ open' \in BOOLEAN /\ wire' \in Seq(Event \cup {Eof})
  <2>1. isConnected \in BOOLEAN /\ open \in BOOLEAN /\ wire \in Seq(Event \cup {Eof})
    BY DEF ThinInv, ThinTyped, ThinTypeOK
  <2>2. CASE Backoff
    BY <2>1, <2>2 DEF Backoff, daemonVars
  <2>3. CASE Redial
    <3>1. isConnected' \in BOOLEAN /\ open' = TRUE /\ wire' = <<>>
      BY <2>3 DEF Redial
    <3> QED BY <3>1
  <2> QED BY <2>2, <2>3
<1>4. ThinTyped'
  BY <1>1, <1>2, <1>3 DEF ThinInv, ThinTyped, ThinTypeOK, Event, Notice, Records, Idle
<1>5. OnlyCallersAreServed' /\ Holding'
  BY <1>1, <1>2 DEF ThinInv, OnlyCallersAreServed, Holding, Idle
<1>6. Over
  BY <1>1 DEF ThinInv, Calm, Over
<1> QED BY <1>4, <1>5, <1>6, OverStep

-----------------------------------------------------------------------------
(* The fan-out *)

Rounds == [at : {"select", "deliver", "done"}, event : Event \cup {Idle}, to : SUBSET Calls, left : SUBSET Calls]

(* Whoever was to be served is served next or later. *)
LEMMA ServingIsFair ==
    ASSUME NEW e \in Event, NEW s \in SUBSET Calls, NEW f \in Serving(e, s)
    PROVE  /\ f \in Rounds /\ f.at \in {"select", "deliver"} /\ f.to \cup f.left = s
           /\ f.at = "deliver" => f.event # Idle /\ \E d \in Calls : f.to = {d}
           /\ f.at # "deliver" => f.to = {} /\ f.left = {}
           /\ \A c \in s : f.event = e
<1>1. CASE s = {}
  BY <1>1 DEF Serving, Rounds
<1>2. CASE s # {}
  <2>1. PICK d \in s : f = [at |-> "deliver", event |-> e, to |-> {d}, left |-> s \ {d}]
    BY <1>2 DEF Serving
  <2> QED BY <2>1, Events DEF Rounds
<1> QED BY <1>1, <1>2

LEMMA TakeEventStep == ASSUME ClientAssumption, ThinInv, TakeEvent PROVE ThinInv'
<1> DEFINE e == Head(eventSink)
<1>1. /\ fanout.at = "select" /\ eventSink # <<>> /\ eventSink' = Tail(eventSink)
      /\ fanout' \in Serving(e, drains) /\ eventSink \in Seq(Event) /\ Len(eventSink) <= 2 /\ drains \in SUBSET Calls
      /\ UNCHANGED <<wire, open, served, events, restarts, isConnected, reader, drains, buf, pc, result, closer, halted>>
  BY DEF TakeEvent, daemonVars, callVars, ThinInv, ThinTyped, ThinTypeOK
<1>2. /\ Len(eventSink) \in Nat \ {0} /\ Len(eventSink') = Len(eventSink) - 1 /\ eventSink' \in Seq(Event)
      /\ e = eventSink[1] /\ e \in Event
      /\ \A j \in 1..Len(eventSink) : j = 1 \/ (j - 1 \in 1..Len(eventSink') /\ eventSink'[j - 1] = eventSink[j])
  BY <1>1, ThinTails
<1> HIDE DEF e
<1>3. /\ fanout' \in Rounds /\ fanout'.at \in {"select", "deliver"} /\ fanout'.to \cup fanout'.left = drains
      /\ fanout'.at = "deliver" => fanout'.event # Idle /\ \E d \in Calls : fanout'.to = {d}
      /\ fanout'.at # "deliver" => fanout'.to = {} /\ fanout'.left = {}
      /\ \A c \in drains : fanout'.event = e
  BY <1>1, <1>2, ServingIsFair
<1>4. ThinTyped'
  <2>1. Len(eventSink') <= 2
    BY <1>1, <1>2
  <2> QED BY <1>1, <1>2, <1>3, <2>1 DEF ThinInv, ThinTyped, ThinTypeOK, Event, Notice, Rounds, Idle
<1>5. OnlyCallersAreServed' /\ Holding' /\ Calm'
  BY <1>1, <1>3 DEF ThinInv, OnlyCallersAreServed, Holding, Calm, Idle, Eof
<1>6. Flight'
  <2> SUFFICES ASSUME NEW c \in Calls, pc[c] = "waiting", OnItsWay(c) PROVE OnItsWay(c)'
    BY <1>1 DEF ThinInv, Flight
  <2>1. c \in drains
    BY DEF ThinInv, OnlyCallersAreServed
  <2>2. InSink(c) => InSink(c)' \/ AtFanout(c)'
    <3> SUFFICES ASSUME NEW i \in 1..Len(eventSink), eventSink[i] = Reply(c), e # Reply(c) PROVE InSink(c)'
      BY <1>3, <2>1 DEF InSink, AtFanout, Reply
    <3>1. i - 1 \in 1..Len(eventSink') /\ eventSink'[i - 1] = Reply(c)
      BY <1>2
    <3> QED BY <3>1 DEF InSink, Reply
  <2>3. ~AtFanout(c)
    BY <1>1 DEF ThinInv, Holding, AtFanout
  <2> QED BY <1>1, <2>2, <2>3 DEF OnItsWay, InWire, AtReader, InDrain, Reply
<1> QED BY <1>4, <1>5, <1>6 DEF ThinInv

LEMMA DeliverStep == ASSUME ClientAssumption, ThinInv, Deliver PROVE ThinInv'
<1>1. /\ fanout.at = "deliver" /\ fanout \in Rounds /\ buf \in [Calls -> Seq(Event)]
      /\ fanout' \in Serving(fanout.event, fanout.left)
      /\ UNCHANGED <<wire, open, served, events, restarts, isConnected, reader, eventSink, drains, pc, result, closer, halted>>
  BY DEF Deliver, daemonVars, ThinInv, ThinTyped, ThinTypeOK, Rounds
<1>2. PICK d \in fanout.to : Len(buf[d]) < 1 /\ buf' = [buf EXCEPT ![d] = Append(@, fanout.event)]
  BY DEF Deliver, DrainCap
<1>3. fanout.event \in Event /\ fanout.left \in SUBSET Calls /\ fanout.to = {d} /\ d \in Calls
  BY <1>1, <1>2 DEF Rounds, ThinInv, Holding
<1>4. /\ fanout' \in Rounds /\ fanout'.at \in {"select", "deliver"} /\ fanout'.to \cup fanout'.left = fanout.left
      /\ fanout'.at = "deliver" => fanout'.event # Idle /\ \E x \in Calls : fanout'.to = {x}
      /\ fanout'.at # "deliver" => fanout'.to = {} /\ fanout'.left = {}
      /\ \A c \in fanout.left : fanout'.event = fanout.event
  BY <1>1, <1>3, ServingIsFair
<1>5. /\ buf'[d] = <<fanout.event>> /\ \A c \in Calls : c # d => buf'[c] = buf[c]
      /\ buf' \in [Calls -> Seq(Event)] /\ Len(buf'[d]) <= 1 /\ Len(buf[d]) = 0
  <2> DEFINE e == fanout.event
             sq == buf[d]
  <2>1. sq \in Seq(Event) /\ Len(sq) < 1 /\ e \in Event /\ buf' = [buf EXCEPT ![d] = Append(sq, e)]
    BY <1>1, <1>2, <1>3
  <2> HIDE DEF e, sq
  <2>2. Len(sq) = 0 /\ sq = <<>>
    BY <2>1
  <2>3. Append(sq, e) = <<e>> /\ Append(sq, e) \in Seq(Event) /\ Len(Append(sq, e)) = 1
    BY <2>1, <2>2
  <2>4. /\ buf'[d] = <<e>> /\ \A c \in Calls : c # d => buf'[c] = buf[c]
        /\ buf' \in [Calls -> Seq(Event)] /\ Len(buf'[d]) = 1
    BY <1>1, <1>3, <2>1, <2>3
  <2> QED BY <2>2, <2>4 DEF e, sq
<1>6. ThinTyped'
  <2>1. \A c \in Calls : buf'[c] \in Seq(Event) /\ Len(buf'[c]) <= 1
    BY <1>5 DEF ThinInv, ThinTyped, ThinTypeOK
  <2> QED BY <1>1, <1>4, <1>5, <2>1 DEF ThinInv, ThinTyped, ThinTypeOK, Event, Notice, Rounds, Idle
<1>7. OnlyCallersAreServed' /\ Holding' /\ Calm'
  BY <1>1, <1>4 DEF ThinInv, OnlyCallersAreServed, Holding, Calm, Idle, Eof
<1>8. Flight'
  <2> SUFFICES ASSUME NEW c \in Calls, OnItsWay(c) PROVE OnItsWay(c)'
    BY <1>1 DEF ThinInv, Flight
  <2>1. AtFanout(c) => AtFanout(c)' \/ InDrain(c)'
    <3>1. CASE c = d
      BY <1>5, <3>1 DEF AtFanout, InDrain, Reply
    <3>2. CASE c # d
      BY <1>3, <1>4, <3>2 DEF AtFanout, Reply
    <3> QED BY <3>1, <3>2
  <2>2. InDrain(c) => InDrain(c)'
    <3>1. CASE c = d
      <4>1. Len(<<Reply(c)>>) = 1
        OBVIOUS
      <4> QED BY <1>5, <3>1, <4>1 DEF InDrain
    <3>2. CASE c # d
      BY <1>5, <3>2 DEF InDrain, Reply
    <3> QED BY <3>1, <3>2
  <2> QED BY <1>1, <2>1, <2>2 DEF OnItsWay, InWire, AtReader, InSink, Reply
<1> QED BY <1>6, <1>7, <1>8 DEF ThinInv

LEMMA FanoutHaltsStep == ASSUME ClientAssumption, ThinInv, FanoutHalts PROVE ThinInv'
<1>1. /\ halted /\ fanout' = [at |-> "done", event |-> Idle, to |-> {}, left |-> {}]
      /\ UNCHANGED <<wire, open, served, events, restarts, isConnected, reader, eventSink, drains, buf, pc, result, closer, halted>>
  BY DEF FanoutHalts, daemonVars, callVars
<1>2. fanout' \in Rounds /\ fanout'.at = "done" /\ fanout'.to = {} /\ fanout'.left = {}
  BY <1>1 DEF Rounds
<1>3. ThinTyped'
  BY <1>1, <1>2 DEF ThinInv, ThinTyped, ThinTypeOK, Event, Notice, Rounds, Idle
<1>4. OnlyCallersAreServed' /\ Holding'
  BY <1>1, <1>2 DEF ThinInv, OnlyCallersAreServed, Holding, Idle
<1>5. Over
  BY <1>1 DEF ThinInv, Calm, Over
<1> QED BY <1>3, <1>4, <1>5, OverStep

-----------------------------------------------------------------------------
(* The callers *)

Sites == {"idle", "adding", "sending", "waiting", "removing", "returned"}

(* A step of one caller, which moves to `site`. *)
LEMMA CallerStep ==
    ASSUME ClientAssumption, ThinInv, NEW c \in Calls, NEW site \in Sites, NEW r \in Results,
           pc' = [pc EXCEPT ![c] = site], result' = [result EXCEPT ![c] = r],
           UNCHANGED <<wire, open, events, restarts, isConnected, reader, eventSink, fanout, closer, halted>>,
           buf' \in [Calls -> Seq(Event)], Len(buf'[c]) <= 1,
           \A d \in Calls : d # c => buf'[d] = buf[d],
           served' \in SUBSET Calls, served \subseteq served',
           drains' = IF site \in {"sending", "waiting", "removing"} THEN drains \cup {c} ELSE drains \ {c},
           site = "waiting" /\ restarts = 0 /\ closer = "open" => OnItsWay(c)'
    PROVE  ThinInv'
<1>1. /\ pc' \in [Calls -> Sites] /\ result' \in [Calls -> Results] /\ pc'[c] = site
      /\ \A d \in Calls : d # c => pc'[d] = pc[d]
  BY DEF ThinInv, ThinTyped, ThinTypeOK, Sites
<1>2. ThinTyped'
  <2>1. \A d \in Calls : buf'[d] \in Seq(Event) /\ Len(buf'[d]) <= 1
    BY DEF ThinInv, ThinTyped, ThinTypeOK
  <2>2. drains' \in SUBSET Calls
    BY DEF ThinInv, ThinTyped, ThinTypeOK
  <2> QED BY <1>1, <2>1, <2>2 DEF ThinInv, ThinTyped, ThinTypeOK, Event, Notice, Sites, Idle, Eof, Results
<1>3. OnlyCallersAreServed'
  BY <1>1 DEF ThinInv, OnlyCallersAreServed
<1>4. Holding' /\ Calm'
  BY DEF ThinInv, Holding, Calm, Idle, Eof
<1>5. Flight'
  <2> SUFFICES ASSUME NEW d \in Calls, d # c, OnItsWay(d) PROVE OnItsWay(d)'
    BY <1>1 DEF ThinInv, Flight
  <2> QED BY DEF OnItsWay, InWire, AtReader, InSink, AtFanout, InDrain, Reply
<1> QED BY <1>2, <1>3, <1>4, <1>5 DEF ThinInv

LEMMA CallerTypes ==
    ASSUME ThinInv, NEW c \in Calls
    PROVE  /\ pc \in [Calls -> Sites] /\ result \in [Calls -> Results] /\ result[c] \in Results
           /\ buf \in [Calls -> Seq(Event)] /\ buf[c] \in Seq(Event) /\ Len(buf[c]) <= 1
           /\ served \in SUBSET Calls /\ result = [result EXCEPT ![c] = result[c]]
           /\ pc = [pc EXCEPT ![c] = pc[c]]
           /\ c \in drains <=> pc[c] \in {"sending", "waiting", "removing"}
BY DEF ThinInv, ThinTyped, ThinTypeOK, Sites, OnlyCallersAreServed

LEMMA CallStep == ASSUME ClientAssumption, ThinInv, NEW c \in Calls, Call(c) PROVE ThinInv'
<1>1. pc[c] = "idle" /\ UNCHANGED <<wire, open, served, events, restarts, isConnected, reader, eventSink, fanout, drains, buf, closer, halted>>
  BY DEF Call, daemonVars
<1>2. PICK site \in Sites, r \in Results : /\ pc' = [pc EXCEPT ![c] = site] /\ result' = [result EXCEPT ![c] = r]
                                          /\ site \in {"adding", "returned"}
  <2>1. CASE isConnected
    <3>1. pc' = [pc EXCEPT ![c] = "adding"] /\ result' = [result EXCEPT ![c] = result[c]]
      BY <2>1, CallerTypes DEF Call
    <3> QED BY <3>1, CallerTypes DEF Sites
  <2>2. CASE ~isConnected
    <3>1. pc' = [pc EXCEPT ![c] = "returned"] /\ result' = [result EXCEPT ![c] = "offline"]
      BY <2>2 DEF Call, Returns
    <3> QED BY <3>1 DEF Sites, Results
  <2> QED BY <2>1, <2>2
<1>3. drains' = drains \ {c} /\ buf' \in [Calls -> Seq(Event)] /\ Len(buf'[c]) <= 1 /\ served' \in SUBSET Calls
  BY <1>1, CallerTypes
<1> QED BY <1>1, <1>2, <1>3, CallerStep

LEMMA SubscribeStep ==
    ASSUME ClientAssumption, ThinInv, NEW c \in Calls, Subscribe(c) \/ Unsubscribe(c) PROVE ThinInv'
<1>1. UNCHANGED <<wire, open, served, events, restarts, isConnected, reader, eventSink, fanout, result, closer, halted>>
  BY DEF Subscribe, Unsubscribe, daemonVars
<1>2. result' = [result EXCEPT ![c] = result[c]] /\ result[c] \in Results /\ served' \in SUBSET Calls
  BY <1>1, CallerTypes
<1>3. CASE Subscribe(c)
  <2>1. pc' = [pc EXCEPT ![c] = "sending"] /\ drains' = drains \cup {c} /\ buf' = buf /\ "sending" \in Sites
    BY <1>3 DEF Subscribe, Sites
  <2>2. buf' \in [Calls -> Seq(Event)] /\ Len(buf'[c]) <= 1
    BY <2>1, CallerTypes
  <2> QED BY <1>1, <1>2, <2>1, <2>2, CallerStep
<1>4. CASE Unsubscribe(c)
  <2>1. pc' = [pc EXCEPT ![c] = "returned"] /\ drains' = drains \ {c} /\ buf' = [buf EXCEPT ![c] = <<>>] /\ "returned" \in Sites
    BY <1>4 DEF Unsubscribe, Sites
  <2>2. /\ buf' \in [Calls -> Seq(Event)] /\ Len(buf'[c]) <= 1
        /\ \A d \in Calls : d # c => buf'[d] = buf[d]
    BY <2>1, CallerTypes
  <2> QED BY <1>1, <1>2, <2>1, <2>2, CallerStep
<1> QED BY <1>3, <1>4

LEMMA SendStep == ASSUME ClientAssumption, ThinInv, NEW c \in Calls, Send(c) PROVE ThinInv'
<1>1. /\ pc[c] = "sending"
      /\ UNCHANGED <<wire, open, events, restarts, isConnected, reader, eventSink, fanout, drains, buf, closer, halted>>
  BY DEF Send
<1>2. drains' = drains \cup {c} /\ buf' \in [Calls -> Seq(Event)] /\ Len(buf'[c]) <= 1
  BY <1>1, CallerTypes
<1>3. PICK site \in Sites, r \in Results :
         /\ pc' = [pc EXCEPT ![c] = site] /\ result' = [result EXCEPT ![c] = r] /\ site \in {"waiting", "removing"}
         /\ served' \in SUBSET Calls /\ served \subseteq served'
         /\ site = "waiting" => c \in served' \/ ~open
  <2>1. CASE isConnected /\ open /\ served' = served \cup {c} /\ pc' = [pc EXCEPT ![c] = "waiting"] /\ result' = result
    BY <2>1, CallerTypes DEF Sites
  <2>2. CASE isConnected /\ ~open /\ pc' = [pc EXCEPT ![c] = "waiting"] /\ served' = served /\ result' = result
    BY <2>2, CallerTypes DEF Sites
  <2>3. CASE Leaves(c, "offline") /\ served' = served
    BY <2>3, CallerTypes DEF Sites, Results, Leaves
  <2> QED BY <2>1, <2>2, <2>3 DEF Send
<1>4. site = "waiting" /\ restarts = 0 /\ closer = "open" => OnItsWay(c)'
  BY <1>3 DEF ThinInv, Calm, OnItsWay
<1>5. site \in {"sending", "waiting", "removing"}
  BY <1>3
<1> QED BY <1>1, <1>2, <1>3, <1>4, <1>5, CallerStep

LEMMA ReceiveStep == ASSUME ClientAssumption, ThinInv, NEW c \in Calls, Receive(c) PROVE ThinInv'
<1> DEFINE sq == buf[c]
           e == Head(sq)
<1>1. /\ pc[c] = "waiting" /\ sq # <<>> /\ buf' = [buf EXCEPT ![c] = Tail(sq)]
      /\ UNCHANGED <<wire, open, served, events, restarts, isConnected, reader, eventSink, fanout, drains, closer, halted>>
      /\ CASE e = Reply(c)      -> Leaves(c, "reply")
           [] e.kind = "down"   -> Leaves(c, "lost")
           [] OTHER             -> UNCHANGED <<pc, result>>
  BY DEF Receive, daemonVars
<1>2. sq \in Seq(Event) /\ Len(sq) <= 1
  BY CallerTypes
<1>3. Len(sq) \in Nat \ {0} /\ Len(Tail(sq)) = Len(sq) - 1 /\ Tail(sq) \in Seq(Event)
  BY <1>1, <1>2, ThinTails
<1>4. /\ buf' \in [Calls -> Seq(Event)] /\ Len(buf'[c]) <= 1 /\ \A d \in Calls : d # c => buf'[d] = buf[d]
  <2>1. buf \in [Calls -> Seq(Event)]
    BY CallerTypes
  <2>2. buf'[c] = Tail(sq) /\ Len(Tail(sq)) <= 1
    BY <1>1, <1>2, <1>3, <2>1
  <2> HIDE DEF sq
  <2> QED BY <1>1, <1>3, <2>1, <2>2
<1>5. drains' = drains \cup {c} /\ served' \in SUBSET Calls
  BY <1>1, CallerTypes
<1>6. sq = <<Reply(c)>> => e = Reply(c)
  OBVIOUS
<1> HIDE DEF e
<1>7. CASE e = Reply(c)
  <2>1. e.kind # "down"
    BY <1>7 DEF Reply
  <2>2. Leaves(c, "reply")
    BY <1>1, <1>7, <2>1, Zenon
  <2> QED BY <1>1, <1>4, <1>5, <2>2, CallerStep DEF Leaves, Sites, Results
<1>8. CASE e # Reply(c) /\ e.kind = "down"
  <2>1. Leaves(c, "lost")
    BY <1>1, <1>8
  <2> QED BY <1>1, <1>4, <1>5, <2>1, CallerStep DEF Leaves, Sites, Results
<1>9. CASE e # Reply(c) /\ e.kind # "down"
  <2>1. UNCHANGED <<pc, result>>
    BY <1>1, <1>9
  <2>2. pc' = [pc EXCEPT ![c] = "waiting"] /\ result' = [result EXCEPT ![c] = result[c]] /\ result[c] \in Results
    BY <1>1, <2>1, CallerTypes
  <2>3. restarts = 0 /\ closer = "open" => OnItsWay(c)'
    <3>1. ~InDrain(c)
      BY <1>6, <1>9 DEF InDrain
    <3>2. restarts = 0 /\ closer = "open" => OnItsWay(c)
      BY <1>1 DEF ThinInv, Flight
    <3> QED BY <1>1, <3>1, <3>2 DEF OnItsWay, InWire, AtReader, InSink, AtFanout, Reply
  <2> QED BY <1>1, <1>4, <1>5, <2>2, <2>3, CallerStep DEF Sites
<1> QED BY <1>7, <1>8, <1>9

LEMMA GiveUpStep == ASSUME ClientAssumption, ThinInv, NEW c \in Calls, GiveUp(c) PROVE ThinInv'
<1>1. /\ pc[c] = "waiting"
      /\ UNCHANGED <<wire, open, served, events, restarts, isConnected, reader, eventSink, fanout, drains, buf, closer, halted>>
      /\ Leaves(c, "timeout") \/ Leaves(c, "halting")
  BY DEF GiveUp, daemonVars
<1>2. drains' = drains \cup {c} /\ buf' \in [Calls -> Seq(Event)] /\ Len(buf'[c]) <= 1 /\ served' \in SUBSET Calls
  BY <1>1, CallerTypes
<1>3. PICK r \in Results : Leaves(c, r)
  BY <1>1 DEF Results
<1> QED BY <1>1, <1>2, <1>3, CallerStep DEF Leaves, Sites

-----------------------------------------------------------------------------
(* Close *)

LEMMA CloserStep == ASSUME ClientAssumption, ThinInv, Closer PROVE ThinInv'
<1>1. /\ UNCHANGED <<events, restarts, isConnected, reader, eventSink, fanout, drains, buf, pc, result>>
      /\ closer' \in {"halt", "wait", "closed"}
  BY DEF Closer, WriteThinClose, CloseHaltCh, CloseReturn, daemonVars, callVars
<1>2. /\ open' \in BOOLEAN /\ halted' \in BOOLEAN /\ served' \in SUBSET Calls
      /\ wire' \in Seq(Event \cup {Eof})
  <2>1. open \in BOOLEAN /\ halted \in BOOLEAN /\ served \in SUBSET Calls /\ wire \in Seq(Event \cup {Eof})
    BY DEF ThinInv, ThinTyped, ThinTypeOK
  <2>2. CASE WriteThinClose
    <3>1. open' = FALSE /\ halted' = halted /\ served' = {} /\ wire' \in {wire, Append(wire, Eof)}
      BY <2>2 DEF WriteThinClose
    <3>2. Append(wire, Eof) \in Seq(Event \cup {Eof})
      BY <2>1
    <3>3. wire' \in Seq(Event \cup {Eof}) /\ served' \in SUBSET Calls
      BY <2>1, <3>1, <3>2
    <3> QED BY <2>1, <3>1, <3>3
  <2>3. CASE CloseHaltCh
    <3>1. halted' = TRUE /\ UNCHANGED <<open, served, wire>>
      BY <2>3 DEF CloseHaltCh, daemonVars
    <3> QED BY <2>1, <3>1
  <2>4. CASE CloseReturn
    BY <2>1, <2>4 DEF CloseReturn, daemonVars
  <2> QED BY <2>2, <2>3, <2>4 DEF Closer
<1>3. ThinTyped'
  BY <1>1, <1>2 DEF ThinInv, ThinTyped, ThinTypeOK, Event, Notice, Idle, Eof
<1>4. OnlyCallersAreServed' /\ Holding'
  BY <1>1 DEF ThinInv, OnlyCallersAreServed, Holding, Idle
<1> QED BY <1>1, <1>3, <1>4, OverStep DEF Over

LEMMA ThinStep == ASSUME ClientAssumption, ThinInv, [ThinNext]_thinVars PROVE ThinInv'
<1>1. CASE UNCHANGED thinVars
  <2>1. UNCHANGED <<wire, open, served, events, restarts, isConnected, reader, eventSink, fanout, drains, buf, pc, result, closer, halted>>
    BY <1>1 DEF thinVars, daemonVars, callVars
  <2>2. ThinTyped' /\ OnlyCallersAreServed' /\ Holding' /\ Calm'
    BY <2>1 DEF ThinInv, ThinTyped, ThinTypeOK, OnlyCallersAreServed, Holding, Calm, Event, Notice, Idle, Eof, Results
  <2>3. Flight'
    BY <2>1 DEF ThinInv, Flight, OnItsWay, InWire, AtReader, InSink, AtFanout, InDrain, Reply
  <2> QED BY <2>2, <2>3 DEF ThinInv
<1>2. CASE DaemonEvent \/ DaemonExits \/ Reader \/ Fanout \/ Closer
  BY <1>2, DaemonStep, DaemonExitsStep, ReaderTopStep, ReadEventStep, ReadEofStep, OfferStep, RedialStep,
     TakeEventStep, DeliverStep, FanoutHaltsStep, CloserStep DEF Reader, Fanout
<1>3. ASSUME NEW c \in Calls, DaemonReply(c) \/ Caller(c) PROVE ThinInv'
  BY <1>3, DaemonStep, CallStep, SubscribeStep, SendStep, ReceiveStep, GiveUpStep DEF Caller
<1> QED BY <1>1, <1>2, <1>3 DEF ThinNext

(* BlockingSendMessage subscribes before it sends, and the fan-out drops nothing: for any
   number of calls and of events, a caller that waits on a client nobody has closed, to a
   daemon that has not restarted, has its answer at the daemon or on its way to it. *)
THEOREM RepliesReachCallers == ThinSpec => []ReplyReachesCaller
<1>1. ThinInit => ThinInv
  BY ThinInvInit, ClientAssumption
<1>2. ThinInv /\ [ThinNext]_thinVars => ThinInv'
  BY ThinStep, ClientAssumption
<1>3. ThinInv => ReplyReachesCaller
  BY FlightIsReach DEF ThinInv
<1> QED BY <1>1, <1>2, <1>3, PTL DEF ThinSpec

(* The subscribers of eventSinkWorker are the callers between EventSink and the deferred
   StopEventSink, whatever way a call ends: nobody waits for a drain that is never read. *)
THEOREM SubscribersAreCallers == ThinSpec => []OnlyCallersAreServed
<1>1. ThinInit => ThinInv
  BY ThinInvInit, ClientAssumption
<1>2. ThinInv /\ [ThinNext]_thinVars => ThinInv'
  BY ThinStep, ClientAssumption
<1>3. ThinInv => OnlyCallersAreServed
  BY DEF ThinInv
<1> QED BY <1>1, <1>2, <1>3, PTL DEF ThinSpec
=============================================================================
