------------------------------ MODULE ServiceNode ------------------------------
(***************************************************************************)
(* A service node hands the packets that leave the mix network to its      *)
(* services (server/internal/service/service.go), of which some are built  *)
(* in (kaetzchen/kaetzchen.go) and some are plugins, processes of their    *)
(* own behind a socket (kaetzchen/cbor_plugins.go, server/cborplugin).     *)
(*                                                                         *)
(* A packet goes from the channel of the node through a service worker to  *)
(* the channel of its service.  Each launch of a plugin has a channel, a   *)
(* client and a worker of its own, known by the number of the launch.      *)
(***************************************************************************)
EXTENDS Integers, Sequences, FiniteSets

CONSTANTS Packets,     \* what the crypto workers send to the services
          Plugins,     \* the endpoints of the plugins, in the order of the configuration
          Echo,        \* the endpoint of a built-in service
          To,          \* packet -> the endpoint it is for
          Workers,     \* the service workers
          NoPacket,    \* in the place of one
          Size,        \* bound: the capacity of a channel (1000) and of a plugin's socket
          MaxLaunches, \* bound: how often plugins are launched
          MayLag,      \* a plugin may end before the goroutine of its worker has begun
          ServiceScenarios  \* how often what is beyond the node's control may happen

ASSUME ServiceAssumption ==
    /\ To \in [Packets -> {Plugins[i] : i \in DOMAIN Plugins} \cup {Echo}]
    /\ Plugins \in Seq({Plugins[i] : i \in DOMAIN Plugins})
    /\ \A i, j \in DOMAIN Plugins : Plugins[i] = Plugins[j] => i = j   \* or New fails
    /\ NoPacket \notin Packets /\ Size \in Nat \ {0} /\ MayLag \in BOOLEAN
    /\ MaxLaunches \in Nat /\ MaxLaunches >= Len(Plugins)
    /\ \A s \in ServiceScenarios : s \in [crash : Nat, hang : Nat, stop : Nat, fail : Nat, silent : Nat, stale : Nat]

Launches  == 1..MaxLaunches
Endpoints == {Plugins[i] : i \in DOMAIN Plugins}

VARIABLES remaining,   \* what may still happen of the scenario
          fate,        \* of each packet
          queue,       \* serviceNode.ch
          svc,         \* each service worker: what it does with which packet
          builtin,     \* is the built-in service registered
          kch,         \* KaetzchenWorker.ch
          pluginChans, \* endpoint -> the launch its channel belongs to, or 0
          launched,    \* the endpoint of every launch there has been
          clients,     \* CBORPluginWorker.clients
          lock,        \* CBORPluginWorker.Mutex: the launch that holds it, or 0
          buf,         \* the channel of each launch
          worker,      \* its worker: where it is, the packet it holds and the channel it reads
          io,          \* the launches whose goroutines of the socket run
          writing,     \* what their writer has taken from writeCh
          process,     \* each plugin's process
          asked,       \* the requests it has not answered
          haltCh,      \* the launches whose client is told to halt
          haltedAll,   \* haltOnce
          panicked     \* the process of the node is gone

serviceVars == <<remaining, fate, queue, svc, builtin, kch, pluginChans, launched, clients, lock,
                 buf, worker, io, writing, process, asked, haltCh, haltedAll, panicked>>
pluginVars == <<pluginChans, launched, clients, lock, haltedAll, panicked>>
launchVars == <<buf, worker, io, writing, process, asked, haltCh>>

Idle   == [at |-> "idle", pkt |-> NoPacket, chan |-> 0]
Absent == [at |-> "none", pkt |-> NoPacket, chan |-> 0]
Spend(what) == remaining[what] > 0 /\ remaining' = [remaining EXCEPT ![what] = @ - 1]
End(m, how) == fate' = [fate EXCEPT ![m] = how]
IsKaetzchen(e) == pluginChans[e] # 0
FaultyFresh   == Absent        \* nobody reads the channel
FreshWorker   == [Absent EXCEPT !.at = "starting"]

(* New has registered all services; none of their workers has begun. *)
ServiceInit ==
    LET first == DOMAIN Plugins IN
    /\ remaining \in ServiceScenarios
    /\ fate = [m \in Packets |-> "out"] /\ queue = <<>> /\ kch = <<>>
    /\ svc = [w \in Workers |-> Idle] /\ builtin = TRUE
    /\ launched = Plugins
    /\ pluginChans = [e \in Endpoints |-> CHOOSE i \in first : Plugins[i] = e]
    /\ clients = first /\ lock = 0 /\ haltedAll = FALSE /\ panicked = FALSE
    /\ buf = [g \in Launches |-> <<>>] /\ asked = [g \in Launches |-> {}]
    /\ worker = [g \in Launches |-> IF g \in first THEN FreshWorker ELSE Absent]
    /\ io = first /\ writing = [g \in Launches |-> NoPacket]
    /\ process = [g \in Launches |-> IF g \in first THEN "up" ELSE "none"] /\ haltCh = {}

-------------------------------------------------------------------------------
(* The node *)

(* A crypto worker, which waits when the channel is full. *)
OnPacket(m) ==
    /\ fate[m] = "out" /\ Len(queue) < Size
    /\ queue' = Append(queue, m) /\ End(m, "in")
    /\ UNCHANGED <<remaining, svc, builtin, kch, pluginVars, launchVars>>

(* A worker of the node takes a packet, and drops it when it was there too long. *)
TakePacket(w) ==
    LET m == Head(queue) IN
    /\ svc[w] = Idle /\ queue # <<>>
    /\ queue' = Tail(queue)
    /\ \/ svc' = [svc EXCEPT ![w] = [Idle EXCEPT !.at = "ask", !.pkt = m]] /\ UNCHANGED <<remaining, fate>>
       \/ Spend("stale") /\ End(m, "dropped") /\ UNCHANGED svc
    /\ UNCHANGED <<builtin, kch, pluginVars, launchVars>>

(* The built-in services are asked first, and then the plugins, under their lock. *)
AskBuiltin(w) ==
    LET here == builtin /\ To[svc[w].pkt] = Echo IN
    /\ svc[w].at = "ask"
    /\ svc' = [svc EXCEPT ![w].at = IF here THEN "builtin" ELSE "plugins"]
    /\ UNCHANGED <<remaining, fate, queue, builtin, kch, pluginVars, launchVars>>

AskPlugins(w) ==
    LET e == To[svc[w].pkt] IN
    /\ svc[w].at = "plugins" /\ lock = 0
    /\ IF e \in Endpoints /\ IsKaetzchen(e)
       THEN svc' = [svc EXCEPT ![w].at = "find"] /\ UNCHANGED fate
       ELSE svc' = [svc EXCEPT ![w] = Idle] /\ End(svc[w].pkt, "dropped")
    /\ UNCHANGED <<remaining, queue, builtin, kch, pluginVars, launchVars>>

(* OnKaetzchen looks the channel up, and sends without the lock. *)
FindChan(w) ==
    LET g == pluginChans[To[svc[w].pkt]] IN
    /\ svc[w].at = "find" /\ lock = 0
    /\ IF g # 0
       THEN svc' = [svc EXCEPT ![w].at = "send", ![w].chan = g] /\ UNCHANGED fate
       ELSE svc' = [svc EXCEPT ![w] = Idle] /\ End(svc[w].pkt, "dropped")
    /\ UNCHANGED <<remaining, queue, builtin, kch, pluginVars, launchVars>>

OnKaetzchen(w) ==
    /\ svc[w].at = "send" /\ Len(buf[svc[w].chan]) < Size
    /\ buf' = [buf EXCEPT ![svc[w].chan] = Append(@, svc[w].pkt)]
    /\ svc' = [svc EXCEPT ![w] = Idle]
    /\ UNCHANGED <<remaining, fate, queue, builtin, kch, pluginVars, worker, io, writing, process, asked, haltCh>>

OnBuiltin(w) ==
    /\ svc[w].at = "builtin" /\ Len(kch) < Size
    /\ kch' = Append(kch, svc[w].pkt) /\ svc' = [svc EXCEPT ![w] = Idle]
    /\ UNCHANGED <<remaining, fate, queue, builtin, pluginVars, launchVars>>

(* processKaetzchen of a built-in service, which may have been stopped meanwhile. *)
ProcessBuiltin ==
    /\ kch # <<>> /\ kch' = Tail(kch)
    /\ \/ End(Head(kch), IF builtin THEN "answered" ELSE "dropped") /\ UNCHANGED remaining
       \/ Spend("stale") /\ End(Head(kch), "dropped")
    /\ UNCHANGED <<queue, svc, builtin, pluginVars, launchVars>>

(* STOP_KAETZCHEN and START_KAETZCHEN of the built-in service *)
SwitchBuiltin ==
    /\ Spend("stop") /\ builtin' = ~builtin
    /\ UNCHANGED <<fate, queue, svc, kch, pluginVars, launchVars>>

-------------------------------------------------------------------------------
(* The goroutines of a plugin *)

(* worker looks its channel up by the endpoint.  One that finds none ends, and with it all
   plugins. *)
StartWorker(g) ==
    LET c == pluginChans[launched[g]] IN
    /\ worker[g].at = "starting" /\ lock = 0
    /\ IF c # 0
       THEN /\ worker' = [worker EXCEPT ![g] = [Idle EXCEPT !.chan = c]]
            /\ UNCHANGED <<haltCh, haltedAll>>
       ELSE /\ worker' = [worker EXCEPT ![g].at = "gone"]
            /\ haltedAll' = TRUE
            /\ haltCh' = IF haltedAll THEN haltCh ELSE haltCh \cup clients
    /\ UNCHANGED <<remaining, fate, queue, svc, builtin, kch, pluginChans, launched, clients, lock,
                   panicked, buf, io, writing, process, asked>>

TakeRequest(g) ==
    LET c == worker[g].chan IN
    /\ worker[g].at = "idle" /\ buf[c] # <<>>
    /\ buf' = [buf EXCEPT ![c] = Tail(@)]
    /\ \/ /\ worker' = [worker EXCEPT ![g].at = "write", ![g].pkt = Head(buf[c])]
          /\ UNCHANGED <<remaining, fate>>
       \/ Spend("stale") /\ End(Head(buf[c]), "dropped") /\ UNCHANGED worker
    /\ UNCHANGED <<queue, svc, builtin, kch, pluginVars, io, writing, process, asked, haltCh>>

(* processKaetzchen waits for the writer of the socket, which may have gone. *)
WriteChan(g) ==
    /\ worker[g].at = "write" /\ g \in io /\ writing[g] = NoPacket
    /\ writing' = [writing EXCEPT ![g] = worker[g].pkt]
    /\ worker' = [worker EXCEPT ![g].at = "idle", ![g].pkt = NoPacket]
    /\ UNCHANGED <<remaining, fate, queue, svc, builtin, kch, pluginVars, buf, io, process, asked, haltCh>>

Encode(g) ==
    /\ g \in io /\ writing[g] # NoPacket
    /\ \/ /\ process[g] \in {"up", "hung"} /\ Cardinality(asked[g]) < Size
          /\ asked' = [asked EXCEPT ![g] = @ \cup {writing[g]}] /\ UNCHANGED <<fate, io>>
       \/ process[g] = "down" /\ End(writing[g], "lost") /\ io' = io \ {g} /\ UNCHANGED asked
    /\ writing' = [writing EXCEPT ![g] = NoPacket]
    /\ UNCHANGED <<remaining, queue, svc, builtin, kch, pluginVars, buf, worker, process, haltCh>>

(* The plugin answers; sendworker makes a reply of it, or drops what is no reply. *)
Respond(g) ==
    /\ process[g] = "up" /\ g \in io
    /\ \E m \in asked[g] :
          /\ asked' = [asked EXCEPT ![g] = @ \ {m}]
          /\ \/ End(m, "answered") /\ UNCHANGED remaining
             \/ Spend("stale") /\ End(m, "dropped")
    /\ UNCHANGED <<queue, svc, builtin, kch, pluginVars, buf, worker, io, writing, process, haltCh>>

(* The reader gets the end of the stream, and halts the socket. *)
ReaderFails(g) ==
    /\ g \in io /\ process[g] = "down"
    /\ io' = io \ {g} /\ writing' = [writing EXCEPT ![g] = NoPacket]
    /\ fate' = IF writing[g] = NoPacket THEN fate ELSE [fate EXCEPT ![writing[g]] = "lost"]
    /\ UNCHANGED <<remaining, queue, svc, builtin, kch, pluginVars, buf, worker, process, asked, haltCh>>

(* logPluginStderr: the process has ended. *)
StderrCloses(g) ==
    /\ process[g] = "down" /\ g \in clients \ haltCh
    /\ haltCh' = haltCh \cup {g}
    /\ UNCHANGED <<remaining, fate, queue, svc, builtin, kch, pluginVars, buf, worker, io, writing, process, asked>>

Ends(g) ==
    /\ process' = [process EXCEPT ![g] = "down"]
    /\ asked' = [asked EXCEPT ![g] = {}]
    /\ fate' = [m \in Packets |-> IF m \in asked[g] THEN "lost" ELSE fate[m]]
    /\ UNCHANGED <<queue, svc, builtin, kch, pluginVars, buf, worker, io, writing, haltCh>>

(* reaper sends the SIGTERM. *)
Reap(g) == g \in haltCh /\ process[g] \in {"up", "hung"} /\ Ends(g) /\ UNCHANGED remaining

MayEnd(g) == process[g] \in {"up", "hung"} /\ (MayLag \/ worker[g].at # "starting")
Crash(g) == Spend("crash") /\ MayEnd(g) /\ Ends(g)
Hang(g) ==
    /\ Spend("hang") /\ process[g] = "up"
    /\ process' = [process EXCEPT ![g] = "hung"]
    /\ UNCHANGED <<fate, queue, svc, builtin, kch, pluginVars, buf, worker, io, writing, asked, haltCh>>

(* STOP_KAETZCHEN *)
UnregisterKaetzchen(g) ==
    /\ Spend("stop") /\ lock = 0 /\ g \in clients \ haltCh /\ IsKaetzchen(launched[g]) /\ MayEnd(g)
    /\ haltCh' = haltCh \cup {g}
    /\ UNCHANGED <<fate, queue, svc, builtin, kch, pluginVars, buf, worker, io, writing, process, asked>>

FaultyForgotten(e) == pluginChans                     \* the client goes, the channel stays
Forgotten(e)       == [pluginChans EXCEPT ![e] = 0]

unregister(g) ==
    /\ g \in haltCh \cap clients /\ lock = 0
    /\ pluginChans' = Forgotten(launched[g])
    /\ clients' = clients \ {g}
    /\ UNCHANGED <<remaining, fate, queue, svc, builtin, kch, launched, lock, haltedAll, panicked, launchVars>>

(* START_KAETZCHEN, or the configuration: the lock is held until the plugin is connected. *)
register(e) ==
    LET g == Len(launched) + 1 IN
    /\ g \in Launches /\ lock = 0 /\ ~IsKaetzchen(e)
    /\ lock' = g
    /\ launched' = Append(launched, e)
    /\ pluginChans' = [pluginChans EXCEPT ![e] = g]
    /\ process' = [process EXCEPT ![g] = "launching"]
    /\ UNCHANGED <<remaining, fate, queue, svc, builtin, kch, clients, haltedAll, panicked, buf, worker,
                   io, writing, asked, haltCh>>

Launch(g) ==
    /\ lock = g /\ process[g] = "launching" /\ lock' = 0
    /\ process' = [process EXCEPT ![g] = "up"]
    /\ clients' = clients \cup {g} /\ io' = io \cup {g}
    /\ worker' = [worker EXCEPT ![g] = FreshWorker]
    /\ UNCHANGED <<remaining, fate, queue, svc, builtin, kch, pluginChans, launched, haltedAll, panicked,
                   buf, writing, asked, haltCh>>

(* The program cannot be executed: register returns and leaves the channel. *)
LaunchFails(g) ==
    /\ Spend("fail") /\ lock = g /\ process[g] = "launching" /\ lock' = 0
    /\ process' = [process EXCEPT ![g] = "down"]
    /\ UNCHANGED <<fate, queue, svc, builtin, kch, pluginChans, launched, clients, haltedAll, panicked,
                   buf, worker, io, writing, asked, haltCh>>

(* It starts and does not name its socket: register waits for it with the lock. *)
LaunchIsSilent(g) ==
    /\ Spend("silent") /\ lock = g /\ process[g] = "launching"
    /\ process' = [process EXCEPT ![g] = "hung"]
    /\ UNCHANGED <<fate, queue, svc, builtin, kch, pluginVars, buf, worker, io, writing, asked, haltCh>>

(* It ends before it listens: forty attempts to connect, and a panic. *)
LaunchPanics(g) ==
    /\ Spend("crash") /\ lock = g /\ process[g] = "launching"
    /\ panicked' = TRUE
    /\ UNCHANGED <<fate, queue, svc, builtin, kch, pluginChans, launched, clients, lock, haltedAll, launchVars>>

-------------------------------------------------------------------------------
ServiceStep(w) ==
    TakePacket(w) \/ AskBuiltin(w) \/ AskPlugins(w) \/ FindChan(w) \/ OnKaetzchen(w) \/ OnBuiltin(w)
SocketStep(g)  == Encode(g) \/ ReaderFails(g)
ReaperStep(g)  == StderrCloses(g) \/ Reap(g) \/ unregister(g) \/ Launch(g)
PluginStep(g)  == StartWorker(g) \/ TakeRequest(g) \/ WriteChan(g)
Beyond(g)      == Crash(g) \/ Hang(g) \/ UnregisterKaetzchen(g) \/ LaunchFails(g) \/ LaunchIsSilent(g)
                  \/ LaunchPanics(g)

ServiceNext ==
    /\ ~panicked
    /\ \/ \E m \in Packets : OnPacket(m)
       \/ \E w \in Workers : ServiceStep(w)
       \/ ProcessBuiltin \/ SwitchBuiltin
       \/ \E g \in Launches : PluginStep(g) \/ SocketStep(g) \/ Respond(g) \/ ReaperStep(g) \/ Beyond(g)
       \/ \E e \in Endpoints : register(e)

ServiceSpec == ServiceInit /\ [][ServiceNext]_serviceVars

(* Every goroutine goes on, and a plugin that is up answers. *)
ServiceFairness ==
    /\ \A w \in Workers : WF_serviceVars(ServiceStep(w))
    /\ WF_serviceVars(ProcessBuiltin)
    /\ \A g \in Launches :
          /\ WF_serviceVars(PluginStep(g)) /\ WF_serviceVars(SocketStep(g))
          /\ WF_serviceVars(Respond(g)) /\ WF_serviceVars(ReaperStep(g))
ServiceFairSpec == ServiceSpec /\ ServiceFairness

-------------------------------------------------------------------------------
Held(g) == {buf[g][i] : i \in DOMAIN buf[g]} \cup {worker[g].pkt, writing[g]} \cup asked[g]

(* A plugin that crashes, hangs, is stopped, cannot be launched or is launched again takes
   down only what is on its way to it: every other packet the node has taken is answered or
   dropped, while there is room in the channels and no launch hangs with the lock. *)
OthersAreServed ==
    \A m \in Packets :
        fate[m] = "in" ~> \/ fate[m] # "in" \/ panicked
                          \/ lock # 0 /\ process[lock] = "hung"
                          \/ \E g \in Launches : m \in Held(g) /\ process[g] # "up"

(* When nobody is registering, the endpoints that get packets are those of the clients,
   which the node lists in its descriptor, and their channel is the one of that client,
   however stops, crashes, starts and the late goroutines of earlier launches meet: all but
   the endpoint of a plugin that could not be launched. *)
AdvertisedIsServed ==
    lock = 0 => \A e \in Endpoints :
        LET now == {g \in clients : launched[g] = e}
        IN  \/ now = IF IsKaetzchen(e) THEN {pluginChans[e]} ELSE {}
            \/ IsKaetzchen(e) /\ worker[pluginChans[e]] = Absent

(* A plugin is told to halt when it has ended or an operator says so: a plugin fails alone.
   It fails when one ends before the goroutine of its worker has begun. *)
FailsAlone == ~haltedAll

(* The worker of a launch reads the channel of that launch.  It fails when the plugin has
   been started again before the goroutine of the earlier worker has begun. *)
OwnChannel == \A g \in Launches : worker[g].at \in {"idle", "write"} => worker[g].chan = g

(* The node survives the end of its plugins. *)
NodeSurvives == ~panicked

(* The built-in services do not depend on the plugins. *)
EchoIsAnswered == \A m \in Packets : fate[m] = "in" /\ To[m] = Echo ~> fate[m] # "in"
===============================================================================
