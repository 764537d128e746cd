------------------------------- MODULE MCClients -------------------------------
(* Small instances of ThinClient and of Walletshield for TLC.  They have no state in
   common: a behaviour is one of the component that part names, and the variables of the
   other keep their initial values.  ThinClient has two parts, one caller with MaxEvents
   events of the daemon and two callers with none. *)
EXTENDS ThinClient

CONSTANTS
    c1, c2,                            \* model values
    h1, h2, k1,
    Handlers, Connections,             \* the Requests and the Streams of Walletshield
    MaxClients, MaxNotices, MaxOutages \* its bounds

OneCall     == {c1}
TwoCalls    == {c1, c2}
NoStream    == {}
OneStream   == {k1}
OneRequest  == {h1}
TwoRequests == {h1, h2}

VARIABLES
    part,
    thin, mu, client, link, sConnected, spc, using, made, tries, sServed, notified, sResult,
    sink, everConnected, daemon, notices, outages

shieldVars == <<thin, mu, client, link, sConnected, spc, using, made, tries, sServed,
                notified, sResult, sink, everConnected, daemon, notices, outages>>

Shield == INSTANCE Walletshield WITH
              Requests <- Handlers, Streams <- Connections, isConnected <- sConnected,
              pc <- spc, served <- sServed, result <- sResult

ASSUME ShieldAssumption == Shield!ShieldAssumption

OfThin(A) ==
    /\ A
    /\ \/ part = "events" /\ pc'[c2] = "idle"
       \/ part = "callers" /\ events' = 0 /\ restarts' = 0
    /\ UNCHANGED <<part, shieldVars>>
OfShield(A) == part = "shield" /\ A /\ UNCHANGED <<part, thinVars>>
allVars     == <<part, thinVars, shieldVars>>

InitAll == part \in {"events", "callers", "shield"} /\ ThinInit /\ Shield!Init
NextAll == OfThin(ThinNext) \/ OfShield(Shield!Next)

(* The fairness of either component. *)
FairAll ==
    /\ InitAll /\ [][NextAll]_allVars
    /\ WF_allVars(OfThin(Reader)) /\ WF_allVars(OfThin(Fanout))
    /\ WF_allVars(OfThin(CloseHaltCh \/ CloseReturn))
    /\ \A c \in Calls :
          WF_allVars(OfThin(Subscribe(c) \/ Unsubscribe(c) \/ Send(c) \/ Receive(c) \/ GiveUp(c)))
    /\ WF_allVars(OfShield(Shield!TakeEvent))
    /\ \A u \in Shield!Users : WF_allVars(OfShield(Shield!User(u)))
    /\ \A x \in Handlers \cup {Shield!Loop} :
          /\ SF_allVars(OfShield(Shield!Lock(x)))
          /\ WF_allVars(OfShield(Shield!DialFails(x) \/ Shield!DialOk(x)))
          /\ WF_allVars(OfShield(Shield!Ending(x)))

(* The property of Walletshield, which says there what it is about. *)
ReconnectEnds == Shield!ReconnectEnds
================================================================================
