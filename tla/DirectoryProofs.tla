---------------------------- MODULE DirectoryProofs ----------------------------
(***************************************************************************)
(* The directory apart from the voting: the uploads of descriptors, the    *)
(* envelope keys of the replicas in the documents, and the sessions of the *)
(* wire protocol over which descriptors, votes and documents travel.       *)
(*                                                                         *)
(* What the uploads of a descriptor come to, for any number of authorities *)
(* and whatever descriptors, attempts and restarts there are: an           *)
(* authority that has answered DescriptorOk has a descriptor of the node,  *)
(* and a node that has stopped posting is in the votes of a majority.      *)
(*                                                                         *)
(* The keys of replicas that are offline stay in the documents, and the    *)
(* documents of a round agree again once no stray key is in the window,    *)
(* for any number of epochs, of authorities and of restarts.               *)
(*                                                                         *)
(* The cipher states of the two ends of a session stay in step for any     *)
(* number of commands, until one end closes beside goroutines that send    *)
(* and receive, and a session is one between peers that have authenticated *)
(* each other.                                                             *)
(***************************************************************************)
EXTENDS DescriptorUpload, EnvelopeKeys, WireSession, FiniteSetTheorems, SequenceTheorems, TLAPS

(* An attempt is counted before its handler starts. *)
Tried == \A h \in handlers : h.try <= tries[h.auth]

Typed == TypeOK /\ Tried

(* What is in memory is on disk, a handler that is about to store has persisted, and
   nobody is down as long as nobody has crashed. *)
Persisted ==
    /\ \A a \in Authority : mem[a] # {} => disk[a] # {}
    /\ \A h \in handlers : h.phase = "store" => disk[h.auth] # {}
NobodyDown == crashes = 0 => up = Authority

KeptInv == Persisted /\ NobodyDown /\ AckedIsKept

(* The authorities that have given their answer to the node. *)
Settled == Peers("accepted") \cup Peers("conflict")

(* The node waits for answers only while it posts, and never after the window; what comes
   after the window comes in its order. *)
InTurn ==
    /\ posting \/ Peers("waiting") = {}
    /\ closed => Peers("waiting") = {}
    /\ verdict # "none" => ~posting
    /\ votes # {} => closed
    /\ document # {} => votes # {}

(* As long as nobody has crashed, who has answered has a descriptor and votes for it. *)
SettledIsVotedFor ==
    /\ \A v, w \in votes : v.from = w.from => v = w
    /\ crashes = 0 =>
          /\ \A a \in Settled : mem[a] # {}
          /\ \A v \in votes : v.descs = {} => v.from \notin Settled

(* A node stops when a majority has answered, one way or the other. *)
StoppedByMajority == verdict # "none" => Cardinality(Settled) >= Threshold

UploadInv == Typed /\ KeptInv /\ InTurn /\ SettledIsVotedFor /\ StoppedByMajority

-------------------------------------------------------------------------------
(* The types.                                                              *)

Codes == {"accepted", "conflict"}
States == {"incomplete", "waiting", "accepted", "conflict"}

LEMMA UploadInit == Init => UploadInv
<1> SUFFICES ASSUME Init PROVE UploadInv
  OBVIOUS
<1>1. Typed
  BY DEF Init, Typed, TypeOK, Tried, AtMostOne, Verdicts
<1>2. KeptInv
  BY DEF Init, KeptInv, Persisted, NobodyDown, AckedIsKept
<1>3. Settled = {} /\ Peers("waiting") = {}
  BY DEF Init, Settled, Peers
<1> QED BY <1>1, <1>2, <1>3 DEF Init, UploadInv, InTurn, SettledIsVotedFor, StoppedByMajority

(* A handler that answers goes, and one that goes on stays the one of its attempt. *)
LEMMA AnswerTyped ==
    ASSUME TypeOK, NEW h \in handlers, NEW code \in Codes, Answer(h, code)
    PROVE  /\ peer' \in [Authority -> States]
           /\ handlers' \subseteq handlers
           /\ acked' \in SUBSET [auth : Authority, desc : Descriptor]
<1>1. h.auth \in Authority /\ h.desc \in Descriptor
  BY DEF TypeOK
<1> QED BY <1>1 DEF Answer, TypeOK, Codes, States

LEMMA GotoTyped ==
    ASSUME Typed, NEW h \in handlers, NEW p \in Phases, Goto(h, p),
           UNCHANGED <<up, tries>>
    PROVE  /\ handlers' \in SUBSET [auth : up', try : Nat, desc : Descriptor, phase : Phases]
           /\ \A f, g \in handlers' : f.auth = g.auth /\ f.try = g.try => f = g
           /\ Tried'
<1> DEFINE n == [h EXCEPT !.phase = p]
<1>1. n \in [auth : up, try : Nat, desc : Descriptor, phase : Phases]
      /\ n.auth = h.auth /\ n.try = h.try
  BY DEF Typed, TypeOK
<1>2. handlers' = (handlers \ {h}) \cup {n}
  BY DEF Goto
<1> HIDE DEF n
<1>3. \A f \in handlers' : f = n \/ (f \in handlers /\ f # h)
  BY <1>2
<1>4. \A f, g \in handlers' : f.auth = g.auth /\ f.try = g.try => f = g
  BY <1>1, <1>3 DEF Typed, TypeOK
<1> QED BY <1>1, <1>2, <1>3, <1>4 DEF Typed, TypeOK, Tried

LEMMA TypedStep == Typed /\ [Next]_vars => Typed'
<1> SUFFICES ASSUME Typed, [Next]_vars PROVE Typed'
  OBVIOUS
<1> USE DEF Typed, TypeOK, Tried, authVars, nodeVars
<1>1. CASE StartPost
  BY <1>1 DEF StartPost
<1>2. CASE PostRound
  <2>1. PICK R \in SUBSET {a \in Peers("incomplete") : tries[a] < MaxTries} :
          /\ peer' = [a \in Authority |-> IF a \in R THEN "waiting" ELSE peer[a]]
          /\ tries' = [a \in Authority |-> IF a \in R THEN tries[a] + 1 ELSE tries[a]]
          /\ handlers' = handlers \cup
                {[auth |-> a, try |-> tries[a] + 1, desc |-> desc, phase |-> "check"] :
                    a \in R \cap up}
    BY <1>2 DEF PostRound
  <2> DEFINE new == {[auth |-> a, try |-> tries[a] + 1, desc |-> desc, phase |-> "check"] :
                        a \in R \cap up}
  <2>2. tries' \in [Authority -> Nat] /\ peer' \in [Authority -> States]
    BY <2>1 DEF Peers, States
  <2>3. \A h \in new : /\ h \in [auth : up, try : Nat, desc : Descriptor, phase : Phases]
                       /\ h.try = tries[h.auth] + 1 /\ h.auth \in R
                       /\ \A g \in new : g.auth = h.auth => g = h
    BY DEF Phases
  <2>4. handlers' = handlers \cup new
    BY <2>1
  <2> HIDE DEF new
  <2>5. \A h \in handlers : h.auth \in Authority /\ h.try \in Nat /\ tries[h.auth] \in Nat
    OBVIOUS
  <2>6. \A h \in handlers' : h.try <= tries'[h.auth]
    <3> SUFFICES ASSUME NEW h \in handlers' PROVE h.try <= tries'[h.auth]
      OBVIOUS
    <3>1. CASE h \in handlers
      <4>1. tries'[h.auth] = tries[h.auth] + 1 \/ tries'[h.auth] = tries[h.auth]
        BY <2>1, <2>5, <3>1
      <4> QED BY <4>1, <2>5, <3>1
    <3>2. CASE h \in new
      BY <2>1, <2>3, <3>2 DEF Peers
    <3> QED BY <2>4, <3>1, <3>2
  <2>7. \A g, h \in handlers' : g.auth = h.auth /\ g.try = h.try => g = h
    <3> SUFFICES ASSUME NEW g \in handlers', NEW h \in handlers', g.auth = h.auth, g.try = h.try
                 PROVE  g = h
      OBVIOUS
    <3>1. CASE g \in handlers /\ h \in handlers
      BY <3>1
    <3>2. CASE g \in new /\ h \in new
      BY <2>3, <3>2
    <3>3. ~(g \in handlers /\ h \in new) /\ ~(g \in new /\ h \in handlers)
      BY <2>3, <2>5
    <3> QED BY <2>4, <3>1, <3>2, <3>3
  <2>8. handlers' \in SUBSET [auth : up', try : Nat, desc : Descriptor, phase : Phases]
    BY <1>2, <2>3, <2>4 DEF PostRound
  <2> QED BY <1>2, <2>2, <2>6, <2>7, <2>8 DEF PostRound, States
<1>3. CASE FinishPost
  BY <1>3 DEF FinishPost, Verdicts
<1>4. CASE Reconfigure
  <2>1. restarts' \in Nat /\ verdict' \in Verdicts
    BY <1>4 DEF Reconfigure, Verdicts
  <2>2. peer' \in [Authority -> States]
    BY <1>4 DEF Reconfigure, States
  <2> QED BY <1>4, <2>1, <2>2 DEF Reconfigure, States
<1>5. CASE CloseWindow
  BY <1>5 DEF CloseWindow
<1>6. ASSUME NEW h \in handlers, Check(h) PROVE Typed'
  <2>1. UNCHANGED <<closed, desc, posting, tries, verdict, restarts, authVars>>
    BY <1>6 DEF Check
  <2>2. CASE Goto(h, "persist")
    BY <2>1, <2>2, GotoTyped DEF Phases, Goto
  <2>3. CASE \E code \in Codes : Answer(h, code)
    BY <2>1, <2>3, AnswerTyped DEF States
  <2> QED BY <1>6, <2>2, <2>3 DEF Check, Codes
<1>7. ASSUME NEW h \in handlers, Persist(h) PROVE Typed'
  <2>1. h.auth \in Authority /\ h.desc \in Descriptor
    OBVIOUS
  <2>2. UNCHANGED <<closed, desc, posting, tries, verdict, restarts,
                    up, crashes, mem, document, votes>>
        /\ disk' = [disk EXCEPT ![h.auth] = {SignedUpload(h.desc)}] /\ Goto(h, "store")
    BY <1>7 DEF Persist
  <2>3. /\ disk' \in [Authority -> SUBSET {SignedUpload(d) : d \in Descriptor}]
        /\ \A a \in Authority : AtMostOne(disk'[a])
    BY <2>1, <2>2 DEF AtMostOne
  <2> QED BY <2>2, <2>3, GotoTyped DEF Phases, Goto
<1>8. ASSUME NEW h \in handlers, StoreDescriptor(h) PROVE Typed'
  <2>1. h.auth \in Authority /\ h.desc \in Descriptor
    OBVIOUS
  <2>2. UNCHANGED <<closed, desc, posting, tries, verdict, restarts,
                    up, crashes, disk, document, votes>>
        /\ mem' = [mem EXCEPT ![h.auth] = Added(h.auth, h.desc)] /\ Answer(h, "accepted")
    BY <1>8 DEF StoreDescriptor
  <2>3. Added(h.auth, h.desc) \in SUBSET Descriptor /\ AtMostOne(Added(h.auth, h.desc))
    BY <2>1 DEF Added, AtMostOne
  <2>4. /\ mem' \in [Authority -> SUBSET Descriptor]
        /\ \A a \in Authority : AtMostOne(mem'[a])
    BY <2>2, <2>3
  <2> QED BY <2>2, <2>4, AnswerTyped DEF Codes, States
<1>9. ASSUME NEW a \in Authority, TransportError(a) PROVE Typed'
  BY <1>9 DEF TransportError
<1>10. ASSUME NEW a \in Authority, Vote(a) PROVE Typed'
  BY <1>10 DEF Vote
<1>11. ASSUME NEW a \in Authority, Publish(a) PROVE Typed'
  BY <1>11 DEF Publish
<1>12. ASSUME NEW a \in Authority, Crash(a) PROVE Typed'
  BY <1>12 DEF Crash, AtMostOne
<1>13. ASSUME NEW a \in Authority, Restart(a) PROVE Typed'
  <2>1. Restored(disk[a]) = {}
    BY DEF Restored, SignedUpload
  <2> QED BY <1>13, <2>1 DEF Restart, AtMostOne
<1>14. CASE UNCHANGED vars
  BY <1>14 DEF vars
<1> QED BY <1>1, <1>2, <1>3, <1>4, <1>5, <1>6, <1>7, <1>8, <1>9, <1>10, <1>11, <1>12, <1>13, <1>14
        DEF Next, Handle

(* The state keeps its types, with one descriptor and one upload at most per authority and
   one handler per attempt: no two goroutines of an authority serve the same post. *)
THEOREM UploadIsTyped == Spec => []TypeOK
<1>1. Init => Typed
  BY UploadInit DEF UploadInv
<1>2. Typed => TypeOK
  BY DEF Typed
<1> QED BY <1>1, <1>2, TypedStep, PTL DEF Spec

-------------------------------------------------------------------------------
(* What an authority has acknowledged.                                     *)

LEMMA KeptStep == Typed /\ KeptInv /\ [Next]_vars => KeptInv'
<1> SUFFICES ASSUME Typed, KeptInv, [Next]_vars PROVE KeptInv'
  OBVIOUS
<1> USE DEF KeptInv, Persisted, NobodyDown, AckedIsKept, authVars, nodeVars
<1>a. /\ \A h \in handlers : h.auth \in Authority
      /\ \A r \in acked : r.auth \in Authority
      /\ mem \in [Authority -> SUBSET Descriptor] /\ up \subseteq Authority /\ crashes \in Nat
      /\ disk \in [Authority -> SUBSET {SignedUpload(d) : d \in Descriptor}]
  BY DEF Typed, TypeOK
<1>1. ASSUME NEW h \in handlers, Check(h) PROVE KeptInv'
  <2>1. UNCHANGED <<up, crashes, mem, disk>>
    BY <1>1 DEF Check
  <2>3. CASE Goto(h, "persist")
    <3>1. \A g \in handlers' : g \in handlers \/ g.phase = "persist"
      BY <2>3 DEF Goto, Typed, TypeOK
    <3> QED BY <2>1, <2>3, <3>1 DEF Goto
  <2>4. ASSUME NEW code \in Codes, Answer(h, code), code = "accepted" => mem[h.auth] # {}
        PROVE  KeptInv'
    BY <1>a, <2>1, <2>4 DEF Answer
  <2> QED BY <1>1, <2>3, <2>4 DEF Check, Codes
<1>2. ASSUME NEW h \in handlers, Persist(h) PROVE KeptInv'
  <2>1. /\ UNCHANGED <<up, crashes, mem, acked>>
        /\ disk' = [disk EXCEPT ![h.auth] = {SignedUpload(h.desc)}]
        /\ handlers' = (handlers \ {h}) \cup {[h EXCEPT !.phase = "store"]}
    BY <1>2 DEF Persist, Goto
  <2>2. \A a \in Authority : disk[a] # {} => disk'[a] # {}
    BY <1>a, <2>1
  <2>3. \A g \in handlers' : g \in handlers \/ g.auth = h.auth
    BY <2>1 DEF Typed, TypeOK
  <2>4. disk'[h.auth] # {}
    BY <1>a, <2>1
  <2>5. Persisted'
    BY <1>a, <2>1, <2>2, <2>3, <2>4
  <2> QED BY <1>a, <2>1, <2>2, <2>5
<1>3. ASSUME NEW h \in handlers, StoreDescriptor(h) PROVE KeptInv'
  <2>1. /\ UNCHANGED <<up, crashes, disk>> /\ h.phase = "store" /\ handlers' \subseteq handlers
        /\ mem' = [mem EXCEPT ![h.auth] = Added(h.auth, h.desc)]
        /\ acked' = acked \cup {[auth |-> h.auth, desc |-> h.desc]}
    BY <1>3 DEF StoreDescriptor, Answer
  <2>2. mem'[h.auth] # {} /\ \A a \in Authority : mem[a] # {} => mem'[a] # {}
    BY <1>a, <2>1 DEF Added
  <2>3. \A a \in Authority : mem'[a] # {} => mem[a] # {} \/ a = h.auth
    BY <1>a, <2>1
  <2> QED BY <1>a, <2>1, <2>2, <2>3
<1>4. CASE PostRound
  <2>1. \A h \in handlers' : h \in handlers \/ h.phase = "check"
    BY <1>4 DEF PostRound
  <2> QED BY <1>4, <2>1 DEF PostRound
<1>5. ASSUME NEW a \in Authority, Crash(a) PROVE KeptInv'
  <2>1. crashes' # 0 /\ \A b \in Authority : mem'[b] # {} => mem[b] # {}
    BY <1>a, <1>5 DEF Crash
  <2> QED BY <2>1, <1>5 DEF Crash
<1>6. ASSUME NEW a \in Authority, Restart(a) PROVE KeptInv'
  <2>1. crashes # 0
    BY <1>6 DEF Restart
  <2>2. \A b \in Authority : mem'[b] # {} => mem[b] # {} \/ disk[b] # {}
    BY <1>a, <1>6 DEF Restart, Restored
  <2> QED BY <2>1, <2>2, <1>6 DEF Restart
<1>7. CASE StartPost \/ FinishPost \/ Reconfigure \/ CloseWindow
  BY <1>7 DEF StartPost, FinishPost, Reconfigure, CloseWindow
<1>8. ASSUME NEW a \in Authority, TransportError(a) \/ Vote(a) \/ Publish(a) PROVE KeptInv'
  BY <1>8 DEF TransportError, Vote, Publish
<1>9. CASE UNCHANGED vars
  BY <1>9 DEF vars
<1> QED BY <1>1, <1>2, <1>3, <1>4, <1>5, <1>6, <1>7, <1>8, <1>9 DEF Next, Handle

LEMMA KeptHolds == Spec => [](Typed /\ KeptInv)
<1>1. Init => Typed /\ KeptInv
  BY UploadInit DEF UploadInv
<1> QED BY <1>1, TypedStep, KeptStep, PTL DEF Spec

(* An authority that has answered DescriptorOk to a post has a descriptor of the node on
   disk for good, and in memory unless it has crashed (onDescriptorUpload answers after the
   write to persistence.db and the addition to the map). *)
THEOREM AcknowledgedIsKept == Spec => []AckedIsKept
<1>1. KeptInv => AckedIsKept
  BY DEF KeptInv
<1> QED BY <1>1, KeptHolds, PTL

(* While an authority runs, an upload that overlaps another and ends later neither removes
   nor replaces the descriptor that is there (phase 3 of onDescriptorUpload). *)
THEOREM DescriptorStays == Spec => NeverReplaced
<1>1. Typed /\ [Next]_vars => [Keeps]_vars
  <2> SUFFICES ASSUME Typed, [Next]_vars, NEW a \in up \cap up', mem[a] # {}
               PROVE  mem'[a] = mem[a]
    BY DEF Keeps
  <2>1. a \in Authority /\ mem \in [Authority -> SUBSET Descriptor]
    BY DEF Typed, TypeOK
  <2>2. ASSUME NEW h \in handlers, Handle(h) PROVE mem'[a] = mem[a]
    <3>1. CASE Check(h) \/ Persist(h)
      BY <3>1 DEF Check, Persist, authVars
    <3>2. CASE StoreDescriptor(h)
      BY <2>1, <3>2 DEF StoreDescriptor, Added
    <3> QED BY <2>2, <3>1, <3>2 DEF Handle
  <2>3. ASSUME NEW b \in Authority, Crash(b) \/ Restart(b) PROVE mem'[a] = mem[a]
    BY <2>1, <2>3 DEF Crash, Restart
  <2>4. CASE UNCHANGED mem
    BY <2>4
  <2> QED BY <2>2, <2>3, <2>4
          DEF Next, StartPost, PostRound, FinishPost, Reconfigure, CloseWindow,
              TransportError, Vote, Publish, authVars, nodeVars, vars
<1>2. Spec => [][Keeps]_vars
  BY <1>1, KeptHolds, PTL DEF Spec
<1> QED BY <1>2 DEF NeverReplaced

-------------------------------------------------------------------------------
(* Who has stopped posting is voted for.                                   *)

(* Once the node waits for nobody, an answer that comes is not heard. *)
LEMMA NotHeard ==
    ASSUME NEW h, NEW code, Answer(h, code), h.auth \in Authority, Peers("waiting") = {}
    PROVE  UNCHANGED peer
BY DEF Answer, Peers

(* An answer that is heard settles one authority and leaves the others as they are. *)
LEMMA AnswerSettles ==
    ASSUME Typed, NEW h \in handlers, NEW code \in Codes, Answer(h, code)
    PROVE  /\ Settled' \subseteq Settled \cup {h.auth}
           /\ Peers("waiting")' \subseteq Peers("waiting")
BY DEF Answer, Settled, Peers, Typed, TypeOK

LEMMA InTurnStep == Typed /\ InTurn /\ [Next]_vars => InTurn'
<1> SUFFICES ASSUME Typed, InTurn, [Next]_vars PROVE InTurn'
  OBVIOUS
<1> USE DEF InTurn, authVars, nodeVars
<1>1. CASE StartPost
  BY <1>1 DEF StartPost, Peers
<1>2. CASE PostRound
  BY <1>2 DEF PostRound, Finished
<1>3. CASE FinishPost
  BY <1>3 DEF FinishPost, Peers
<1>4. CASE Reconfigure
  BY <1>4 DEF Reconfigure, Peers
<1>5. CASE CloseWindow
  <2>1. Peers("waiting")' = {}
    BY <1>5 DEF CloseWindow, Peers
  <2> QED BY <1>5, <2>1 DEF CloseWindow
<1>6. ASSUME NEW h \in handlers, Handle(h) PROVE InTurn'
  <2>1. UNCHANGED <<closed, posting, verdict, votes, document>>
    BY <1>6 DEF Handle, Check, Persist, StoreDescriptor
  <2>2. Peers("waiting")' \subseteq Peers("waiting")
    <3>1. CASE \E code \in Codes : Answer(h, code)
      BY <3>1, AnswerSettles
    <3>2. CASE UNCHANGED peer
      BY <3>2 DEF Peers
    <3> QED BY <1>6, <3>1, <3>2 DEF Handle, Check, Persist, StoreDescriptor, Goto, Codes
  <2> QED BY <2>1, <2>2
<1>7. ASSUME NEW a \in Authority, TransportError(a) PROVE InTurn'
  <2>1. Peers("waiting")' \subseteq Peers("waiting")
    BY <1>7 DEF TransportError, Peers, Typed, TypeOK
  <2> QED BY <1>7, <2>1 DEF TransportError
<1>8. ASSUME NEW a \in Authority, Vote(a) \/ Publish(a) \/ Crash(a) \/ Restart(a) PROVE InTurn'
  BY <1>8 DEF Vote, Publish, Crash, Restart, Peers
<1>9. CASE UNCHANGED vars
  BY <1>9 DEF vars, Peers
<1> QED BY <1>1, <1>2, <1>3, <1>4, <1>5, <1>6, <1>7, <1>8, <1>9 DEF Next

(* Peers answer, and keep their answers until the node starts over. *)
LEMMA SettledStep ==
    ASSUME Typed, InTurn, [Next]_vars
    PROVE  \/ Settled' = Settled
           \/ Settled' = {} /\ verdict' = "none"
           \/ \E h \in handlers : /\ Settled' \subseteq Settled \cup {h.auth}
                                  /\ Handle(h) /\ ~closed /\ posting
<1> USE DEF authVars, nodeVars, Settled
<1>0. Settled \subseteq Authority
  BY DEF Peers
<1>1. CASE StartPost \/ Reconfigure
  BY <1>1 DEF StartPost, Reconfigure, Peers
<1>2. CASE PostRound
  BY <1>2 DEF PostRound, Peers
<1>3. CASE CloseWindow
  BY <1>3 DEF CloseWindow, Peers
<1>4. ASSUME NEW h \in handlers, Handle(h)
      PROVE  \/ Settled' = Settled
             \/ Settled' \subseteq Settled \cup {h.auth} /\ ~closed /\ posting
  <2>1. CASE \E code \in Codes : Answer(h, code)
    <3>1. CASE Peers("waiting") = {}
      <4>1. UNCHANGED peer
        BY <2>1, <3>1, NotHeard DEF Typed, TypeOK
      <4> QED BY <4>1 DEF Peers
    <3>2. CASE Peers("waiting") # {}
      BY <2>1, <3>2, AnswerSettles DEF InTurn
    <3> QED BY <3>1, <3>2
  <2>2. CASE UNCHANGED peer
    BY <2>2 DEF Peers
  <2> QED BY <1>4, <2>1, <2>2 DEF Handle, Check, Persist, StoreDescriptor, Goto, Codes
<1>5. ASSUME NEW a \in Authority, TransportError(a) PROVE Settled' = Settled
  BY <1>5 DEF TransportError, Peers, Typed, TypeOK
<1>6. CASE UNCHANGED peer
  BY <1>6 DEF Peers
<1> QED BY <1>1, <1>2, <1>3, <1>4, <1>5, <1>6
        DEF Next, FinishPost, Vote, Publish, Crash, Restart, vars

LEMMA SettledIsFinite ==
    Settled \subseteq Authority /\ IsFiniteSet(Settled) /\ Cardinality(Settled) \in Nat
<1>1. Settled \subseteq Authority
  BY DEF Settled, Peers
<1> QED BY <1>1, AuthorityAssumption, FS_Subset, FS_CardinalityType

LEMMA MajorityStep == Typed /\ InTurn /\ StoppedByMajority /\ [Next]_vars => StoppedByMajority'
<1> SUFFICES ASSUME Typed, InTurn, StoppedByMajority, [Next]_vars, verdict' # "none"
             PROVE  Cardinality(Settled') >= Threshold
  BY DEF StoppedByMajority, Threshold
<1>1. CASE FinishPost
  <2>1. Accepted >= Threshold \/ Conflicts >= Threshold
    BY <1>1 DEF FinishPost
  <2>2. Settled' = Settled
    BY <1>1 DEF FinishPost, Settled, Peers
  <2>3. /\ Peers("accepted") \in SUBSET Settled
        /\ Peers("conflict") \in SUBSET Settled
    BY DEF Settled
  <2>4. Accepted <= Cardinality(Settled) /\ Conflicts <= Cardinality(Settled)
    BY <2>3, SettledIsFinite, FS_Subset DEF Accepted, Conflicts
  <2>5. Threshold \in Int /\ Accepted \in Nat /\ Conflicts \in Nat
    BY <2>3, SettledIsFinite, AuthorityAssumption, FS_Subset, FS_CardinalityType
       DEF Accepted, Conflicts, Threshold
  <2> QED BY <2>1, <2>2, <2>4, <2>5, SettledIsFinite
<1>2. CASE ~FinishPost
  <2>1. verdict' = verdict
    BY <1>2 DEF Next, vars, nodeVars, authVars, StartPost, PostRound, Reconfigure, CloseWindow,
                Handle, Check, Persist, StoreDescriptor, TransportError, Vote, Publish, Crash, Restart
  <2>2. ~posting /\ Cardinality(Settled) >= Threshold
    BY <2>1 DEF InTurn, StoppedByMajority
  <2>3. Settled' = Settled
    BY <2>1, <2>2, SettledStep
  <2> QED BY <2>2, <2>3
<1> QED BY <1>1, <1>2

(* As long as nobody crashes, no authority loses what it has. *)
LEMMA MemoryStays ==
    ASSUME Typed, KeptInv, [Next]_vars, crashes' = 0
    PROVE  /\ crashes = 0
           /\ \A a \in Authority : mem[a] # {} => mem'[a] # {}
<1> USE DEF nodeVars, authVars
<1>1. crashes \in Nat /\ mem \in [Authority -> SUBSET Descriptor]
  BY DEF Typed, TypeOK
<1>2. ~\E a \in Authority : Crash(a)
  BY <1>1 DEF Crash
<1>3. crashes = 0
  BY <1>2 DEF Next, vars, StartPost, PostRound, FinishPost, Reconfigure, CloseWindow,
              Handle, Check, Persist, StoreDescriptor, TransportError, Vote, Publish, Restart
<1>4. ~\E a \in Authority : Restart(a)
  BY <1>3 DEF Restart, KeptInv, NobodyDown
<1>5. ASSUME NEW h \in handlers, StoreDescriptor(h), NEW a \in Authority, mem[a] # {}
      PROVE  mem'[a] # {}
  BY <1>1, <1>5 DEF StoreDescriptor, Added
<1> QED BY <1>2, <1>3, <1>4, <1>5
        DEF Next, vars, StartPost, PostRound, FinishPost, Reconfigure, CloseWindow,
            Handle, Check, Persist, TransportError, Vote, Publish

(* Who answers a post has a descriptor of the node from then on. *)
LEMMA AnswererHasOne ==
    ASSUME Typed, KeptInv, InTurn, SettledIsVotedFor, [Next]_vars, crashes' = 0,
           NEW h \in handlers, Handle(h), ~closed, h.auth \in Settled'
    PROVE  mem'[h.auth] # {}
<1>1. crashes = 0 /\ h.auth \in Authority
  BY MemoryStays DEF Typed, TypeOK
<1>2. CASE mem[h.auth] # {}
  BY <1>1, <1>2, MemoryStays
<1>3. CASE Goto(h, "persist") \/ Goto(h, "store")
  <2>1. h.auth \in Settled
    BY <1>3 DEF Goto, Settled, Peers
  <2> QED BY <1>1, <1>2, <2>1 DEF SettledIsVotedFor
<1>4. CASE StoreDescriptor(h)
  <2>1. mem \in [Authority -> SUBSET Descriptor]
    BY DEF Typed, TypeOK
  <2> QED BY <1>1, <1>4, <2>1 DEF StoreDescriptor, Added
<1>5. h.auth \notin document
  BY DEF InTurn
<1> QED BY <1>2, <1>3, <1>4, <1>5 DEF Handle, Check, Persist

LEMMA VotedStep ==
    Typed /\ KeptInv /\ InTurn /\ SettledIsVotedFor /\ [Next]_vars => SettledIsVotedFor'
<1> SUFFICES ASSUME Typed, KeptInv, InTurn, SettledIsVotedFor, [Next]_vars
             PROVE  SettledIsVotedFor'
  OBVIOUS
<1>1. ASSUME NEW v \in votes'
      PROVE  \/ v \in votes
             \/ /\ \E a \in Authority : Vote(a)
                /\ v.descs = mem[v.from] /\ v.from \in Authority /\ ~\E w \in votes : w.from = v.from
                /\ votes' = votes \cup {v} /\ closed /\ UNCHANGED peer
  <2>1. ASSUME NEW a \in Authority, Vote(a), v \notin votes
        PROVE  v = [from |-> a, descs |-> mem[a]] /\ votes' = votes \cup {v}
               /\ ~\E w \in votes : w.from = a
    BY <2>1 DEF Vote
  <2>2. CASE \E a \in Authority : Vote(a)
    BY <2>1, <2>2 DEF Vote, nodeVars
  <2>3. CASE votes' = votes
    BY <2>3
  <2> QED BY <2>2, <2>3
      DEF Next, vars, nodeVars, authVars, StartPost, PostRound, FinishPost, Reconfigure, CloseWindow,
          Handle, Check, Persist, StoreDescriptor, TransportError, Publish, Crash, Restart
<1>2. \A v, w \in votes' : v.from = w.from => v = w
  BY <1>1 DEF SettledIsVotedFor
<1>3. Settled' \subseteq Authority
  BY DEF Settled, Peers
<1>4. ASSUME crashes' = 0, NEW a \in Settled' PROVE mem'[a] # {}
  <2>1. CASE a \in Settled
    BY <1>3, <1>4, <2>1, MemoryStays DEF SettledIsVotedFor
  <2>2. CASE a \notin Settled
    <3>1. PICK h \in handlers : a = h.auth /\ Handle(h) /\ ~closed
      BY <2>2, SettledStep
    <3> QED BY <1>4, <3>1, AnswererHasOne
  <2> QED BY <2>1, <2>2
<1>5. ASSUME crashes' = 0, NEW v \in votes', v.descs = {} PROVE v.from \notin Settled'
  <2>1. crashes = 0
    BY <1>5, MemoryStays
  <2>2. CASE v \in votes
    <3>1. v.from \notin Settled /\ closed
      BY <1>5, <2>1, <2>2 DEF SettledIsVotedFor, InTurn
    <3> QED BY <3>1, SettledStep
  <2>3. CASE v \notin votes
    <3>1. v.descs = mem[v.from] /\ UNCHANGED peer
      BY <1>1, <2>3
    <3>2. v.from \notin Settled
      BY <1>5, <2>1, <3>1 DEF SettledIsVotedFor
    <3> QED BY <3>1, <3>2 DEF Settled, Peers
  <2> QED BY <2>2, <2>3
<1> QED BY <1>2, <1>4, <1>5 DEF SettledIsVotedFor

LEMMA UploadStep == UploadInv /\ [Next]_vars => UploadInv'
BY TypedStep, KeptStep, InTurnStep, VotedStep, MajorityStep DEF UploadInv

(* The authorities that vote without the node are among those that have not answered, and
   these are at most a minority. *)
LEMMA MajorityVotesFor == UploadInv => StoppedIsVotedFor
<1> SUFFICES ASSUME UploadInv, verdict # "none", crashes = 0
             PROVE  Cardinality({v \in votes : v.descs = {}}) + Threshold <= Cardinality(Authority)
  BY DEF StoppedIsVotedFor
<1> DEFINE E == {v \in votes : v.descs = {}}
           S == Authority \ Settled
           f == [v \in E |-> v.from]
<1>1. f \in Injection(E, S)
  <2>1. \A v \in E : v.from \in S
    BY DEF UploadInv, Typed, TypeOK, SettledIsVotedFor
  <2>2. \A v, w \in E : v.from = w.from => v = w
    BY DEF UploadInv, SettledIsVotedFor
  <2> QED BY <2>1, <2>2 DEF Injection, IsInjective
<1>2. IsFiniteSet(S) /\ Cardinality(S) = Cardinality(Authority) - Cardinality(Settled)
  <2>1. Authority \cap Settled = Settled
    BY SettledIsFinite
  <2> QED BY <2>1, AuthorityAssumption, FS_Difference
<1>3. IsFiniteSet(E) /\ Cardinality(E) <= Cardinality(S)
  BY <1>1, <1>2, FS_Injection
<1>4. Cardinality(Settled) >= Threshold
  BY DEF UploadInv, StoppedByMajority
<1>5. /\ Cardinality(E) \in Nat /\ Cardinality(S) \in Nat /\ Cardinality(Settled) \in Nat
      /\ Cardinality(Authority) \in Nat /\ Threshold \in Int
  BY <1>2, <1>3, SettledIsFinite, AuthorityAssumption, FS_CardinalityType DEF Threshold
<1> HIDE DEF E, S
<1>6. Cardinality(E) + Threshold <= Cardinality(Authority)
  BY <1>2, <1>3, <1>4, <1>5
<1> QED BY <1>6 DEF E

(* A node that has stopped posting, for whatever reason, is in the votes of a majority of
   the authorities with a descriptor of its own, unless an authority has crashed: lost and
   late replies, overlapping uploads and restarts of the node do not matter
   (publishDescriptorIfNeeded, postDescriptorWithCompletionRounds, onDescriptorUpload). *)
THEOREM StoppedNodeIsVotedFor == Spec => []StoppedIsVotedFor
BY UploadInit, UploadStep, MajorityVotesFor, PTL DEF Spec

-------------------------------------------------------------------------------
(* The envelope keys *)


(* Where the round is.  A vote is made with the descriptors an authority has, and a
   document once all votes are there. *)
HasDocument(a) == \E d \in documents : d.from = a

RoundInTurn ==
    /\ phase # "consensus" => documents = {}
    /\ phase = "descriptors" => ballots = {}
    /\ phase = "consensus" => \A a \in Authorities : \E v \in ballots : v.from = a

(* No key is of a replica epoch later than the next one. *)
NoneAhead ==
    /\ \A k \in tallied : k.epoch <= ReplicaNow + 1
    /\ \A a \in Authorities : \A k \in cache[a] : k.epoch <= ReplicaNow + 1

(* The document of this round, which a has still to make, will put the key in its cache. *)
Underway(a, k) == phase = "consensus" /\ k \in KeysOf(Tally) /\ ~HasDocument(a)

(* A document has what is in the cache after it was made. *)
Listed ==
    \A d \in documents :
        /\ d.keys = {k \in cache[d.from] : InWindow(k)}
        /\ KeysOf(Tally) \subseteq cache[d.from]

(* As long as nobody was restarted, a key that was in a consensus is in every cache, or
   comes into it this round. *)
Kept ==
    restarted = 0 => \A a \in Authorities, k \in tallied :
        InWindow(k) => k \in cache[a] \/ Underway(a, k)

(* A key in the window that is in one cache is in the others, or comes into them this
   round, unless it is stray: it may have come from the vote of a, which the tally then
   confirms, or leaves out when a makes its document. *)
Agreed ==
    \A a, b \in Authorities : \A k \in cache[a] :
        InWindow(k) /\ k \notin stray =>
            \/ k \in cache[b]
            \/ phase # "descriptors" /\ k \in KeysOf(held[a]) /\ ~HasDocument(a)
            \/ Underway(b, k)

EnvelopeInv == KeysTypeOK /\ RoundInTurn /\ NoneAhead /\ Listed /\ Kept /\ Agreed

LEMMA Windows ==
    ASSUME EpochAssumption, KeysTypeOK
    PROVE  /\ ReplicaNow \in Nat
           /\ \A k \in Keys : InWindow(k) <=> k.epoch \in MinEpoch .. MaxReplicaEpoch
           /\ \A k \in Keys : k.epoch >= MinEpoch /\ k.epoch <= ReplicaNow + 1 => InWindow(k)
           /\ \A k \in Keys : InWindow(k) => k.epoch >= MinEpoch /\ k.epoch <= ReplicaNow + 1
<1>1. ReplicaNow \in Nat
  BY DEF EpochAssumption, KeysTypeOK, ReplicaNow
<1>2. \A k \in Keys : k.epoch \in Nat
  BY DEF Keys
<1> QED BY <1>1, <1>2 DEF InWindow, MinEpoch, MaxReplicaEpoch

LEMMA KeysAreInWindow ==
    ASSUME EpochAssumption, KeysTypeOK, NEW R \in SUBSET Replica, NEW k \in KeysOf(R)
    PROVE  k \in Keys /\ InWindow(k) /\ k.epoch >= MinEpoch /\ k.epoch <= ReplicaNow + 1 /\ k.replica \in R
<1>1. ReplicaNow \in Nat
  BY Windows
<1>2. k \in [replica : Replica, epoch : Nat] /\ k.epoch \in {ReplicaNow, ReplicaNow + 1} /\ k.replica \in R
  BY <1>1 DEF KeysOf
<1> QED BY <1>1, <1>2 DEF Keys, InWindow, MinEpoch

LEMMA TallyIsOfReplicas == Tally \in SUBSET Replica
BY DEF Tally

LEMMA EnvelopeInit == ASSUME EpochAssumption, KeysInit PROVE EnvelopeInv
<1>1. KeysTypeOK
  BY DEF KeysInit, KeysTypeOK, EpochAssumption
<1>2. RoundInTurn /\ NoneAhead /\ Listed /\ Kept /\ Agreed
  BY DEF KeysInit, RoundInTurn, NoneAhead, Listed, Kept, Agreed
<1> QED BY <1>1, <1>2 DEF EnvelopeInv

LEMMA KeysUploadStep == ASSUME EpochAssumption, EnvelopeInv, NEW r \in Replica, Upload(r) PROVE EnvelopeInv'
<1>1. /\ phase = "descriptors" /\ documents = {} /\ ballots = {}
      /\ UNCHANGED <<epoch, phase, ballots, cache, documents, restarted, tallied, stray>>
  BY DEF Upload, EnvelopeInv, RoundInTurn
<1>2. held' \in [Authorities -> SUBSET Replica] /\ posted' \in SUBSET Replica
  <2>1. PICK A \in SUBSET Authorities : held' = [a \in Authorities |-> IF a \in A THEN held[a] \cup {r} ELSE held[a]]
    BY DEF Upload
  <2>2. held' \in [Authorities -> SUBSET Replica]
    BY <2>1 DEF EnvelopeInv, KeysTypeOK
  <2> QED BY <2>2 DEF Upload, EnvelopeInv, KeysTypeOK
<1>3. KeysTypeOK'
  BY <1>1, <1>2 DEF EnvelopeInv, KeysTypeOK, Keys
<1>4. RoundInTurn' /\ NoneAhead' /\ Listed'
  BY <1>1 DEF EnvelopeInv, RoundInTurn, NoneAhead, Listed, ReplicaNow
<1>5. Kept' /\ Agreed'
  BY <1>1 DEF EnvelopeInv, Kept, Agreed, Underway, InWindow, ReplicaNow
<1> QED BY <1>3, <1>4, <1>5 DEF EnvelopeInv

LEMMA VoteStep == ASSUME EpochAssumption, EnvelopeInv, NEW a \in Authorities, getVote(a) PROVE EnvelopeInv'
<1>1. /\ phase = "votes" /\ documents = {}
      /\ ballots' = ballots \cup {[from |-> a, replicas |-> held[a]]}
      /\ cache' = [cache EXCEPT ![a] = Cached(a, held[a])]
      /\ UNCHANGED <<epoch, phase, held, posted, documents, restarted, tallied, stray>>
  BY DEF getVote, EnvelopeInv, RoundInTurn
<1>2. /\ KeysTypeOK /\ held[a] \in SUBSET Replica /\ cache \in [Authorities -> SUBSET Keys]
      /\ cache'[a] = Cached(a, held[a]) /\ \A b \in Authorities : b # a => cache'[b] = cache[b]
  BY <1>1 DEF EnvelopeInv, KeysTypeOK
<1>3. \A k \in cache'[a] : k \in Keys /\ (k \in cache[a] \/ k \in KeysOf(held[a]))
  BY <1>2, KeysAreInWindow DEF Cached
<1>4. \A k \in cache[a] : InWindow(k) => k \in cache'[a]
  BY <1>2, Windows DEF Cached
<1>5. KeysTypeOK'
  <2>1. cache' \in [Authorities -> SUBSET Keys]
    BY <1>1, <1>2, <1>3
  <2>2. ballots' \in SUBSET [from : Authorities, replicas : SUBSET Replica]
    BY <1>1, <1>2 DEF KeysTypeOK
  <2> QED BY <1>1, <1>2, <2>1, <2>2 DEF KeysTypeOK, Keys
<1>6. RoundInTurn' /\ Listed'
  BY <1>1 DEF RoundInTurn, Listed
<1>7. NoneAhead'
  <2>1. \A k \in cache'[a] : k.epoch <= ReplicaNow + 1
    BY <1>2, <1>3, KeysAreInWindow DEF EnvelopeInv, NoneAhead
  <2> QED BY <1>1, <1>2, <2>1 DEF EnvelopeInv, NoneAhead, ReplicaNow
<1>8. Kept'
  <2> SUFFICES ASSUME restarted = 0, NEW b \in Authorities, NEW k \in tallied, InWindow(k) PROVE k \in cache'[b]
    BY <1>1 DEF Kept, InWindow, ReplicaNow
  <2>1. k \in cache[b]
    BY <1>1 DEF EnvelopeInv, Kept, Underway
  <2> QED BY <1>2, <1>4, <2>1
<1>9. Agreed'
  <2> SUFFICES ASSUME NEW b \in Authorities, NEW c \in Authorities, NEW k \in cache'[b], InWindow(k), k \notin stray
               PROVE  k \in cache'[c] \/ k \in KeysOf(held[b])
    BY <1>1 DEF Agreed, InWindow, ReplicaNow, Underway, HasDocument, KeysOf
  <2>1. k \in cache[b] \/ k \in KeysOf(held[b])
    BY <1>2, <1>3
  <2>2. k \in cache[b] => k \in cache[c] \/ k \in KeysOf(held[b])
    BY <1>1 DEF EnvelopeInv, Agreed, Underway
  <2>3. k \in cache[c] => k \in cache'[c]
    BY <1>2, <1>4
  <2> QED BY <2>1, <2>2, <2>3
<1> QED BY <1>5, <1>6, <1>7, <1>8, <1>9 DEF EnvelopeInv

LEMMA MakeDocumentStep ==
    ASSUME EpochAssumption, EnvelopeInv, NEW a \in Authorities, MakeDocument(a) PROVE EnvelopeInv'
<1> DEFINE T == KeysOf(Tally)
           new == [from |-> a, keys |-> buildReplicaEnvelopeKeys(a, Tally)]
<1>1. /\ phase = "consensus" /\ ~HasDocument(a)
      /\ documents' = documents \cup {new}
      /\ cache' = [cache EXCEPT ![a] = Cached(a, Tally)]
      /\ tallied' = tallied \cup T
      /\ stray' = (stray \cup KeysOf(held[a] \ Tally)) \ T
      /\ UNCHANGED <<epoch, phase, held, posted, ballots, restarted>>
  BY DEF MakeDocument, HasDocument
<1>2. /\ KeysTypeOK /\ cache \in [Authorities -> SUBSET Keys] /\ cache[a] \subseteq Keys
      /\ cache'[a] = Cached(a, Tally) /\ \A b \in Authorities : b # a => cache'[b] = cache[b]
  BY <1>1 DEF EnvelopeInv, KeysTypeOK
<1>3. \A k \in T : k \in Keys /\ InWindow(k) /\ k.epoch <= ReplicaNow + 1 /\ k \in cache'[a]
  BY <1>2, KeysAreInWindow, TallyIsOfReplicas DEF Cached
<1>4. \A k \in cache'[a] : k \in Keys /\ (k \in cache[a] \/ k \in T)
  BY <1>2, <1>3 DEF Cached
<1>5. \A k \in cache[a] : InWindow(k) => k \in cache'[a]
  BY <1>2, Windows DEF Cached
<1>6. new.from = a /\ new.keys = {k \in cache'[a] : InWindow(k)}
  <2>1. \A k \in cache[a] \cup T : k \in Keys
    BY <1>2, <1>3
  <2>2. \A k \in cache[a] \cup T : k.epoch \in MinEpoch .. MaxReplicaEpoch <=> InWindow(k)
    BY <1>2, <2>1, Windows
  <2>3. \A k \in cache[a] \cup T : InWindow(k) => k \in cache'[a]
    BY <1>3, <1>5
  <2> QED BY <1>4, <2>2, <2>3 DEF buildReplicaEnvelopeKeys
<1> HIDE DEF T, new
<1>7. Tally' = Tally /\ T' = T /\ \A k : InWindow(k)' = InWindow(k)
  <2>1. UNCHANGED <<epoch, ballots>>
    BY <1>1
  <2>2. Tally' = Tally
    BY <2>1 DEF Tally, TallyThreshold
  <2>3. ReplicaNow' = ReplicaNow
    BY <2>1 DEF ReplicaNow
  <2> QED BY <2>2, <2>3 DEF T, KeysOf, InWindow
<1>8. KeysTypeOK'
  <2>1. cache' \in [Authorities -> SUBSET Keys]
    BY <1>1, <1>2, <1>4
  <2>2. documents' \in SUBSET [from : Authorities, keys : SUBSET Keys]
    <3>1. {k \in cache'[a] : InWindow(k)} \in SUBSET Keys
      BY <1>4
    <3>2. new \in [from : Authorities, keys : SUBSET Keys]
      BY <1>6, <3>1 DEF new
    <3> QED BY <1>1, <1>2, <3>2 DEF KeysTypeOK
  <2>3. tallied' \in SUBSET Keys /\ stray' \in SUBSET Keys
    <3>1. held[a] \ Tally \in SUBSET Replica
      BY <1>2 DEF KeysTypeOK
    <3>2. KeysOf(held[a] \ Tally) \subseteq Keys
      BY <1>2, <3>1, KeysAreInWindow
    <3> QED BY <1>1, <1>2, <1>3, <3>2 DEF KeysTypeOK
  <2> QED BY <1>1, <1>2, <2>1, <2>2, <2>3 DEF KeysTypeOK, Keys
<1>9. RoundInTurn'
  BY <1>1 DEF EnvelopeInv, RoundInTurn
<1>10. NoneAhead'
  <2>1. NoneAhead /\ ReplicaNow' = ReplicaNow
    BY <1>1 DEF EnvelopeInv, ReplicaNow
  <2>2. \A k \in cache'[a] : k.epoch <= ReplicaNow + 1
    BY <1>3, <1>4, <2>1 DEF NoneAhead
  <2>3. \A k \in tallied' : k.epoch <= ReplicaNow + 1
    BY <1>1, <1>3, <2>1 DEF NoneAhead
  <2> QED BY <1>2, <2>1, <2>2, <2>3 DEF NoneAhead
<1>11. Listed'
  <2> SUFFICES ASSUME NEW d \in documents'
               PROVE  d.keys = {k \in cache'[d.from] : InWindow(k)} /\ T \subseteq cache'[d.from]
    BY <1>7 DEF Listed, T
  <2>1. CASE d = new
    BY <1>3, <1>6, <2>1
  <2>2. CASE d # new
    <3>1. d \in documents
      BY <1>1, <2>2
    <3>2. d.from \in Authorities /\ d.from # a
      BY <1>1, <1>2, <3>1 DEF KeysTypeOK, HasDocument
    <3> QED BY <1>2, <3>1, <3>2 DEF EnvelopeInv, Listed, T
  <2> QED BY <2>1, <2>2
<1>12. \A b \in Authorities : b # a => HasDocument(b)' = HasDocument(b)
  BY <1>1, <1>6 DEF HasDocument
<1>13. HasDocument(a)'
  BY <1>1, <1>6 DEF HasDocument
<1>14. ASSUME NEW b \in Authorities, NEW k \in T PROVE k \in cache'[b] \/ Underway(b, k)'
  <2>1. CASE b = a
    BY <1>3, <2>1
  <2>2. CASE HasDocument(b) /\ b # a
    <3>1. PICK d \in documents : d.from = b
      BY <2>2 DEF HasDocument
    <3>2. k \in cache[b]
      BY <1>14, <3>1 DEF EnvelopeInv, Listed, T
    <3> QED BY <1>2, <2>2, <3>2
  <2>3. CASE ~HasDocument(b) /\ b # a
    <3>1. ~HasDocument(b)' /\ k \in T'
      BY <1>7, <1>12, <1>14, <2>3
    <3> QED BY <1>1, <3>1 DEF Underway, T
  <2> QED BY <2>1, <2>2, <2>3
<1>15. ASSUME NEW b \in Authorities, NEW k, k \in cache[b] \/ Underway(b, k), InWindow(k)
       PROVE  k \in cache'[b] \/ Underway(b, k)'
  <2>1. CASE Underway(b, k)
    BY <1>14, <2>1 DEF Underway, T
  <2>2. CASE k \in cache[b]
    BY <1>2, <1>5, <1>15, <2>2
  <2> QED BY <1>15, <2>1, <2>2
<1>16. Kept'
  <2> SUFFICES ASSUME restarted = 0, NEW b \in Authorities, NEW k \in tallied', InWindow(k)
               PROVE  k \in cache'[b] \/ Underway(b, k)'
    BY <1>1, <1>7 DEF Kept
  <2>1. CASE k \in T
    BY <1>14, <2>1
  <2>2. CASE k \in tallied
    BY <1>15, <2>2 DEF EnvelopeInv, Kept
  <2> QED BY <1>1, <2>1, <2>2
<1>17. Agreed'
  <2> SUFFICES ASSUME NEW b \in Authorities, NEW c \in Authorities, NEW k \in cache'[b], InWindow(k), k \notin stray'
               PROVE  \/ k \in cache'[c] \/ Underway(c, k)'
                      \/ k \in KeysOf(held[b]) /\ ~HasDocument(b)'
    <3>1. /\ \A b \in Authorities : KeysOf(held[b])' = KeysOf(held[b])
          /\ phase' # "descriptors"
      BY <1>1 DEF KeysOf, ReplicaNow
    <3> QED BY <1>7, <3>1 DEF Agreed
  <2>1. CASE k \in T
    BY <1>14, <2>1
  <2>2. CASE k \notin T
    <3>1. k \in cache[b] /\ k \notin stray
      BY <1>1, <1>2, <1>4, <2>2
    <3>2. \/ k \in cache[c] \/ Underway(c, k)
          \/ k \in KeysOf(held[b]) /\ ~HasDocument(b)
      BY <3>1 DEF EnvelopeInv, Agreed
    <3>3. CASE k \in cache[c] \/ Underway(c, k)
      BY <1>15, <3>3
    <3>4. CASE k \in KeysOf(held[b]) /\ ~HasDocument(b) /\ b # a
      BY <1>12, <3>4
    <3>5. CASE k \in KeysOf(held[b]) /\ b = a
      <4>1. k \in KeysOf(held[a] \ Tally)
        BY <2>2, <3>5 DEF KeysOf, T
      <4> QED BY <1>1, <2>2, <4>1
    <3> QED BY <3>2, <3>3, <3>4, <3>5
  <2> QED BY <2>1, <2>2
<1> QED BY <1>8, <1>9, <1>10, <1>11, <1>16, <1>17 DEF EnvelopeInv

LEMMA ScheduleStep == ASSUME EpochAssumption, EnvelopeInv, EndOfUploads \/ EndOfVotes PROVE EnvelopeInv'
<1>1. /\ phase # "consensus" /\ documents = {} /\ phase' # "descriptors"
      /\ phase' = "consensus" => \A a \in Authorities : \E v \in ballots : v.from = a
      /\ phase' \in {"votes", "consensus"}
      /\ UNCHANGED <<epoch, held, posted, ballots, cache, documents, restarted, tallied, stray>>
  BY DEF EndOfUploads, EndOfVotes, EnvelopeInv, RoundInTurn
<1>2. KeysTypeOK'
  BY <1>1 DEF EnvelopeInv, KeysTypeOK, Keys
<1>3. RoundInTurn' /\ NoneAhead' /\ Listed'
  BY <1>1 DEF EnvelopeInv, RoundInTurn, NoneAhead, Listed, ReplicaNow
<1>4. Kept'
  BY <1>1 DEF EnvelopeInv, Kept, Underway, InWindow, ReplicaNow
<1>5. Agreed'
  <2> SUFFICES ASSUME NEW b \in Authorities, NEW c \in Authorities, NEW k \in cache[b], InWindow(k), k \notin stray
               PROVE  k \in cache[c] \/ (k \in KeysOf(held[b]) /\ ~HasDocument(b))
    BY <1>1 DEF Agreed, InWindow, ReplicaNow, KeysOf, HasDocument
  <2> QED BY <1>1 DEF EnvelopeInv, Agreed, Underway
<1> QED BY <1>2, <1>3, <1>4, <1>5 DEF EnvelopeInv

LEMMA ReplicaEpochs ==
    ASSUME EpochAssumption, epoch \in Nat, epoch' = epoch + 1
    PROVE  /\ ReplicaNow \in Nat /\ ReplicaNow' \in Nat
           /\ ReplicaNow <= ReplicaNow' /\ ReplicaNow' <= ReplicaNow + 1
<1> DEFINE m == epoch
           p == ReplicaEpochPeriod
<1>1. m \in Nat /\ p \in Nat \ {0} /\ ReplicaNow = m \div p /\ ReplicaNow' = (m + 1) \div p
  BY DEF EpochAssumption, ReplicaNow
<1> HIDE DEF m, p
<1>2. /\ m \div p \in Nat /\ (m + 1) \div p \in Nat
      /\ m \div p <= (m + 1) \div p /\ (m + 1) \div p <= m \div p + 1
  BY <1>1
<1> QED BY <1>1, <1>2

LEMMA NextEpochStep == ASSUME EpochAssumption, EnvelopeInv, NextEpoch PROVE EnvelopeInv'
<1>1. /\ phase = "consensus" /\ (\A a \in Authorities : HasDocument(a))
      /\ epoch' = epoch + 1 /\ phase' = "descriptors" /\ documents' = {} /\ ballots' = {}
      /\ held' = [a \in Authorities |-> {}] /\ posted' = {}
      /\ UNCHANGED <<cache, restarted, tallied, stray>>
  BY DEF NextEpoch, HasDocument
<1>2. KeysTypeOK
  BY DEF EnvelopeInv
<1>3. KeysTypeOK'
  <2>1. epoch' \in Nat /\ held' \in [Authorities -> SUBSET Replica]
    BY <1>1, <1>2 DEF KeysTypeOK
  <2> QED BY <1>1, <1>2, <2>1 DEF KeysTypeOK, Keys
<1>4. /\ ReplicaNow \in Nat /\ ReplicaNow' \in Nat
      /\ ReplicaNow <= ReplicaNow' /\ ReplicaNow' <= ReplicaNow + 1
  BY <1>1, <1>2, ReplicaEpochs DEF KeysTypeOK
<1>5. \A k \in Keys : k.epoch \in Nat
  BY DEF Keys
<1>6. \A k \in Keys : k.epoch <= ReplicaNow + 1 => k.epoch <= ReplicaNow' + 1
  BY <1>4, <1>5
<1>7. \A k \in Keys : k.epoch <= ReplicaNow + 1 /\ InWindow(k)' => InWindow(k)
  BY <1>4, <1>5 DEF InWindow
<1>8. tallied \subseteq Keys /\ \A a \in Authorities : cache[a] \subseteq Keys
  BY <1>2 DEF KeysTypeOK
<1>9. NoneAhead'
  BY <1>1, <1>6, <1>8 DEF EnvelopeInv, NoneAhead
<1>10. Kept'
  <2> SUFFICES ASSUME restarted = 0, NEW b \in Authorities, NEW k \in tallied, InWindow(k)' PROVE k \in cache[b]
    BY <1>1 DEF Kept
  <2>1. InWindow(k)
    BY <1>7, <1>8 DEF EnvelopeInv, NoneAhead
  <2> QED BY <1>1, <2>1 DEF EnvelopeInv, Kept, Underway
<1>11. Agreed'
  <2> SUFFICES ASSUME NEW b \in Authorities, NEW c \in Authorities, NEW k \in cache[b], InWindow(k)', k \notin stray
               PROVE  k \in cache[c]
    BY <1>1 DEF Agreed
  <2>1. InWindow(k)
    BY <1>7, <1>8 DEF EnvelopeInv, NoneAhead
  <2> QED BY <1>1, <2>1 DEF EnvelopeInv, Agreed, Underway
<1> QED BY <1>1, <1>3, <1>9, <1>10, <1>11 DEF EnvelopeInv, RoundInTurn, Listed

LEMMA RestartStep ==
    ASSUME EpochAssumption, EnvelopeInv, NEW a \in Authorities, RestartAuthority(a) PROVE EnvelopeInv'
<1>1. /\ phase = "descriptors" /\ documents = {} /\ restarted' = restarted + 1
      /\ cache' = [cache EXCEPT ![a] = {}] /\ held' = [held EXCEPT ![a] = {}]
      /\ stray' = stray \cup cache[a]
      /\ UNCHANGED <<epoch, phase, posted, ballots, documents, tallied>>
  BY DEF RestartAuthority, EnvelopeInv, RoundInTurn
<1>2. KeysTypeOK /\ cache'[a] = {} /\ \A b \in Authorities : b # a => cache'[b] = cache[b]
  BY <1>1 DEF EnvelopeInv, KeysTypeOK
<1>3. KeysTypeOK'
  <2>1. cache' \in [Authorities -> SUBSET Keys] /\ held' \in [Authorities -> SUBSET Replica] /\ stray' \in SUBSET Keys
    BY <1>1, <1>2 DEF KeysTypeOK
  <2>2. restarted' \in Nat
    BY <1>1, <1>2 DEF KeysTypeOK
  <2> QED BY <1>1, <1>2, <2>1, <2>2 DEF KeysTypeOK, Keys
<1>4. RoundInTurn' /\ NoneAhead' /\ Listed'
  BY <1>1, <1>2 DEF EnvelopeInv, RoundInTurn, NoneAhead, Listed, ReplicaNow
<1>5. Kept'
  <2>1. restarted' # 0
    BY <1>1, <1>2 DEF KeysTypeOK
  <2> QED BY <2>1 DEF Kept
<1>6. Agreed'
  <2> SUFFICES ASSUME NEW b \in Authorities, NEW c \in Authorities, NEW k \in cache'[b], InWindow(k), k \notin stray'
               PROVE  k \in cache'[c]
    BY <1>1 DEF Agreed, InWindow, ReplicaNow
  <2>1. b # a /\ k \in cache[b] /\ k \notin stray /\ k \notin cache[a]
    BY <1>1, <1>2
  <2>2. k \in cache[c]
    BY <1>1, <2>1 DEF EnvelopeInv, Agreed, Underway
  <2> QED BY <1>2, <2>1, <2>2
<1> QED BY <1>3, <1>4, <1>5, <1>6 DEF EnvelopeInv

LEMMA EnvelopeStep == ASSUME EpochAssumption, EnvelopeInv, [KeysNext]_keysVars PROVE EnvelopeInv'
<1>1. CASE UNCHANGED keysVars
  <2>1. UNCHANGED <<epoch, phase, held, posted, ballots, cache, documents, restarted, tallied, stray>>
    BY <1>1 DEF keysVars
  <2>2. KeysTypeOK' /\ RoundInTurn' /\ NoneAhead'
    BY <2>1 DEF EnvelopeInv, KeysTypeOK, RoundInTurn, NoneAhead, ReplicaNow
  <2>3. Listed'
    BY <2>1 DEF EnvelopeInv, Listed, InWindow, ReplicaNow, KeysOf, Tally, TallyThreshold
  <2>4. Kept'
    BY <2>1 DEF EnvelopeInv, Kept, Underway, HasDocument, InWindow, ReplicaNow, KeysOf, Tally, TallyThreshold
  <2>5. Agreed'
    BY <2>1 DEF EnvelopeInv, Agreed, Underway, HasDocument, InWindow, ReplicaNow, KeysOf, Tally, TallyThreshold
  <2> QED BY <2>2, <2>3, <2>4, <2>5 DEF EnvelopeInv
<1> QED BY <1>1, KeysUploadStep, VoteStep, MakeDocumentStep, ScheduleStep, NextEpochStep, RestartStep DEF KeysNext

LEMMA KeptAndAgreed == ASSUME EnvelopeInv PROVE OfflineKeysAreKept /\ SplitsEnd
<1>1. OfflineKeysAreKept
  <2> SUFFICES ASSUME restarted = 0, NEW d \in documents, NEW k \in tallied, InWindow(k) PROVE k \in d.keys
    BY DEF OfflineKeysAreKept
  <2>1. d.from \in Authorities /\ HasDocument(d.from)
    BY DEF EnvelopeInv, KeysTypeOK, HasDocument
  <2>2. k \in cache[d.from]
    BY <2>1 DEF EnvelopeInv, Kept, Underway
  <2> QED BY <2>2 DEF EnvelopeInv, Listed
<1>2. SplitsEnd
  <2> SUFFICES ASSUME \A k \in stray : ~InWindow(k), NEW d1 \in documents, NEW d2 \in documents PROVE d1.keys = d2.keys
    BY DEF SplitsEnd
  <2>1. ASSUME NEW d \in documents, NEW e \in documents, NEW k \in d.keys PROVE k \in e.keys
    <3>1. d.from \in Authorities /\ HasDocument(d.from) /\ e.from \in Authorities /\ HasDocument(e.from)
      BY DEF EnvelopeInv, KeysTypeOK, HasDocument
    <3>2. k \in cache[d.from] /\ InWindow(k)
      BY <2>1 DEF EnvelopeInv, Listed
    <3>3. k \notin stray
      BY <3>2
    <3>4. k \in cache[e.from]
      BY <3>1, <3>2, <3>3 DEF EnvelopeInv, Agreed, Underway
    <3> QED BY <3>2, <3>4 DEF EnvelopeInv, Listed
  <2> QED BY <2>1
<1> QED BY <1>1, <1>2

(* The cache of buildReplicaEnvelopeKeys keeps the keys of replicas that are offline: for
   any number of authorities, replicas and epochs, as long as no authority is restarted,
   every document has each key of an earlier consensus whose epoch is in the window. *)
THEOREM KeysAreKeptWhileOffline == KeysSpec => []OfflineKeysAreKept
<1>1. KeysInit => EnvelopeInv
  BY EnvelopeInit, EpochAssumption
<1>2. EnvelopeInv /\ [KeysNext]_keysVars => EnvelopeInv'
  BY EnvelopeStep, EpochAssumption
<1>3. EnvelopeInv => OfflineKeysAreKept
  BY KeptAndAgreed, EpochAssumption
<1> QED BY <1>1, <1>2, <1>3, PTL DEF KeysSpec

(* Documents of a round differ only by keys that an authority cached from its own vote and
   the tally left out, or lost in a restart: once none of them is in the window, the
   documents that getMyConsensus makes are the same, whatever the caches have gone through. *)
THEOREM SplitsOfTheKeysEnd == KeysSpec => []SplitsEnd
<1>1. KeysInit => EnvelopeInv
  BY EnvelopeInit, EpochAssumption
<1>2. EnvelopeInv /\ [KeysNext]_keysVars => EnvelopeInv'
  BY EnvelopeStep, EpochAssumption
<1>3. EnvelopeInv => SplitsEnd
  BY KeptAndAgreed, EpochAssumption
<1> QED BY <1>1, <1>2, <1>3, PTL DEF KeysSpec

-------------------------------------------------------------------------------
(* The sessions of the wire protocol *)

(* The nonce of a cipher state and the parts of a command: each takes two nonces, for its
   header and its body, and the key is changed after it. *)
Keyed(k, n) == [key |-> k, nonce |-> n]
Command(n, c)  == <<Keyed(n - 1, 2 * n - 2), Keyed(n - 1, 2 * n - 1), c>>

Key   == [key : Nat, nonce : Nat]
Place == {"idle", "header", "body", "rekey", "write", "ok", "error"}
Item  == {<<n>> : n \in Messages} \cup (Key \X Key \X Callers)

(* The shape of the state. *)
SessionTyped ==
    /\ step \in [Sides -> 0..7]
    /\ tx \in [Sides -> Key] /\ rx \in [Sides -> Key]
    /\ stream \in [Sides -> Seq(Item)] /\ open \in BOOLEAN
    /\ calls \in [Callers -> [at : Place, toSend : Seq(Key)]]
    /\ written \in [Sides -> Seq(Callers)] /\ read \in [Sides -> Seq(Callers)]
    /\ recv \in [Sides -> {"idle", "header", "body", "rekey", "stopped"}]
    /\ closing \in [Sides -> [at : {"no", "rx", "conn", "state", "done"}, sent : Nat]]

(* The sides send the NoOp of the finalisation, and the senders after it. *)
Quiet(c) == calls[c].at \in {"idle", "ok", "error"}

OneCall ==
    /\ \A c \in Senders : calls[c].at # "idle" => step[Home[c]] \in {Ready, Closed}
    /\ calls["initiator"].at = "idle"
    /\ calls["responder"].at # "idle" => step["responder"] = Finalize

(* The handshake is in step: whose message it is, and whether it is on its way. *)
InStep ==
    LET i  == step["initiator"]
        r  == step["responder"]
        li == Len(stream["initiator"])
        lr == Len(stream["responder"])
    IN
    \/ r = 1 /\ i = 1 /\ li = 0 /\ lr = 0
    \/ r = 1 /\ i = 2 /\ li = 1 /\ lr = 0
    \/ r = 2 /\ i = 2 /\ li = 0 /\ lr = 0
    \/ r = 3 /\ i = 2 /\ li = 0 /\ lr = 1
    \/ r = 3 /\ i \in {0, 3} /\ li = 0 /\ lr = 0
    \/ r = 3 /\ i = 4 /\ li = 1 /\ lr = 0
    \/ r = 4 /\ i = 4 /\ li = 0 /\ lr = 0
    \/ r = 0 /\ i = 4 /\ lr = 0
    \/ r \in {0, 5, 6, 7} /\ i = 4 /\ lr > 0 /\ (r # 0 => li = 0)
    \/ r \in {0, 5, 6, 7} /\ i \in {0, 5, 6, 7}

(* Nothing is sent or read before the handshake has come so far. *)
Before ==
    /\ step["initiator"] < 6 => written["initiator"] = <<>>
    /\ step["initiator"] \in Messages => read["initiator"] = <<>>
    /\ step["responder"] \in Messages => written["responder"] = <<>> /\ read["responder"] = <<>>
    /\ step["initiator"] = 4 /\ Len(stream["responder"]) = 0 => written["responder"] = <<>>

(* A session is closed once Initialize has returned it, and in use until Close has ended. *)
Closings ==
    \A s \in Sides :
        /\ closing[s].at \in {"rx", "conn", "state"} => step[s] = Ready
        /\ closing[s].at = "done" => step[s] = Closed
        /\ closing[s].at # "no" => closing[s].sent <= Len(written[s])

(* A connection is closed by a side that has failed, or that closes the session. *)
Ended == open \/ \E s \in Sides : step[s] = Failed \/ closing[s].at # "no"

(* A call of RecvCommand begins in a session, or while the initiator waits for the NoOp, and
   has a command before it when it changes the key. *)
Receiving(s) ==
    /\ recv[s] \in {"header", "body", "rekey"} =>
          step[s] \in {Finalize, Ready, Closed} /\ (step[s] = Finalize => s = "initiator")
    /\ recv[s] = "rekey" => stream[Peer(s)] # <<>>

(* What a side has written and its peer not read is on its stream, as it encrypted it,
   after the message of the handshake that is still there. *)
Pending(s) == IF step[Peer(s)] \in Messages /\ Len(stream[s]) > 0 THEN 1 ELSE 0

(* What Close cannot have spoilt: all of it until Close begins, and then what was written by
   that time. *)
Clean(s, n) == closing[s].at = "no" \/ n <= closing[s].sent

Sent(item, n, c, clean) == item[3] = c /\ (clean => item = Command(n, c))

OnTheWay(s) ==
    step[Peer(s)] # Failed =>
        /\ Len(written[s]) + Pending(s) = Len(read[Peer(s)]) + Len(stream[s])
        /\ \A j \in 1..Len(stream[s]), n \in 1..Len(written[s]) :
              n + Pending(s) = Len(read[Peer(s)]) + j =>
                  Sent(stream[s][j], n, written[s][n], Clean(s, n))

(* What a side has read is what its peer wrote first, and until it closes, its cipher state is
   that of the part it reads next. *)
Decrypting(s) ==
    LET l == Len(read[s]) IN
    /\ recv[s] \in {"idle", "header"} => rx[s] = Keyed(l, 2 * l)
    /\ recv[s] = "body"  => rx[s] = Keyed(l, 2 * l + 1)
    /\ recv[s] = "rekey" => rx[s] = Keyed(l, 2 * l + 2)

Received(s) ==
    /\ closing[s].at \in {"no", "rx"} => Decrypting(s)
    /\ Len(read[s]) <= Len(written[Peer(s)])
    /\ \A j \in 1..Len(read[s]) : read[s][j] = written[Peer(s)][j]

(* Why a side could not decrypt. *)
Excused(s) ==
    s \in garbled =>
        \/ closing[s].at \notin {"no", "rx"}
        \/ closing[Peer(s)].at # "no" /\ Len(read[s]) >= closing[Peer(s)].sent

(* How far a call of SendCommand has come, and the cipher state of its side with it. *)
Encrypting(c) ==
    LET s == HomeOf(c)
        n == Len(written[s])
        k1 == Keyed(n, 2 * n)
        k2 == Keyed(n, 2 * n + 1)
    IN
    /\ calls[c].at = "header" => tx[s] = k1 /\ calls[c].toSend = <<>>
    /\ calls[c].at = "body"   => tx[s] = k2 /\ calls[c].toSend = <<k1>>
    /\ calls[c].at = "rekey"  => tx[s] = Keyed(n, 2 * n + 2) /\ calls[c].toSend = <<k1, k2>>
    /\ calls[c].at = "write"  => tx[s] = Keyed(n + 1, 2 * n + 2) /\ calls[c].toSend = <<k1, k2>>

(* A side on which nobody is sending has a cipher state for the next command. *)
Rested(s) == (\A c \in Callers : HomeOf(c) = s => Quiet(c)) => tx[s] = Keyed(Len(written[s]), 2 * Len(written[s]))

(* After the end of the connection what a side encrypts comes to nobody, and Close changes the
   key under whoever encrypts. *)
Intact(s) == open /\ closing[s].at = "no"

Ciphers ==
    /\ \A c \in Callers : Intact(HomeOf(c)) => Encrypting(c)
    /\ \A s \in Sides : Intact(s) => Rested(s)

(* How many parts a call of SendCommand holds, whatever has become of the keys. *)
Sized(c) ==
    /\ calls[c].at = "header" => Len(calls[c].toSend) = 0
    /\ calls[c].at = "body" => Len(calls[c].toSend) = 1
    /\ calls[c].at \in {"rekey", "write"} => Len(calls[c].toSend) = 2

WireInv ==
    /\ SessionTyped /\ OneCall /\ InStep /\ Before /\ Closings /\ Ended /\ Ciphers
    /\ \A s \in Sides : OnTheWay(s) /\ Received(s) /\ Receiving(s) /\ Excused(s)
    /\ \A c \in Callers : Sized(c)

(* Nothing in SendCommand keeps the calls of a side apart.  Authorities, mixes, couriers and
   replicas have one goroutine for each session that sends, such as egressSender; a client
   and its gateway have two, and the assumption does not hold for them. *)
OneSenderEach == \A c, d \in Senders : Home[c] = Home[d] => c = d

LEMMA PeersOf ==
    /\ Peer("initiator") = "responder" /\ Peer("responder") = "initiator"
    /\ Sides = {"initiator", "responder"}
BY DEF Peer, Sides

LEMMA Tails ==
    ASSUME NEW S, NEW q \in Seq(S), q # <<>>
    PROVE  /\ Len(q) \in Nat \ {0} /\ Len(Tail(q)) = Len(q) - 1 /\ Tail(q) \in Seq(S)
           /\ Head(q) = q[1] /\ Head(q) \in S
           /\ \A j \in 1..Len(Tail(q)) : Tail(q)[j] = q[j + 1]
<1>1. Len(q) \in Nat /\ Len(q) # 0
  OBVIOUS
<1> QED BY <1>1

LEMMA Appends ==
    ASSUME NEW S, NEW q \in Seq(S), NEW e \in S
    PROVE  /\ Len(q) \in Nat /\ Len(Append(q, e)) = Len(q) + 1 /\ Append(q, e) \in Seq(S)
           /\ Append(q, e)[Len(q) + 1] = e
           /\ \A j \in 1..Len(q) : Append(q, e)[j] = q[j]
OBVIOUS

LEMMA Pairs ==
    ASSUME NEW S, NEW a \in S, NEW b \in S, NEW c \in S
    PROVE  Append(<<a>>, b) = <<a, b>> /\ <<a, b>> \o <<c>> = <<a, b, c>>
<1>1. Append(<<a>>, b) = <<a, b>>
  <2> DEFINE q == Append(<<a>>, b)
             r == <<a, b>>
  <2>1. <<a>> \in Seq(S) /\ Len(<<a>>) = 1 /\ <<a>>[1] = a
    OBVIOUS
  <2>2. q \in Seq(S) /\ Len(q) = 2 /\ q[1] = a /\ q[2] = b
    BY <2>1
  <2>3. r \in Seq(S) /\ Len(r) = 2 /\ r[1] = a /\ r[2] = b
    OBVIOUS
  <2> HIDE DEF q, r
  <2>4. \A i \in 1..Len(q) : q[i] = r[i]
    BY <2>2, <2>3
  <2>5. q = r
    BY <2>2, <2>3, <2>4, SeqEqual
  <2> QED BY <2>5 DEF q, r
<1>2. <<a, b>> \o <<c>> = <<a, b, c>>
  <2> DEFINE q == <<a, b>> \o <<c>>
             r == <<a, b, c>>
  <2>1. /\ <<a, b>> \in Seq(S) /\ Len(<<a, b>>) = 2 /\ <<a, b>>[1] = a /\ <<a, b>>[2] = b
        /\ <<c>> \in Seq(S) /\ Len(<<c>>) = 1 /\ <<c>>[1] = c
    OBVIOUS
  <2>2. q \in Seq(S) /\ Len(q) = 3 /\ q[1] = a /\ q[2] = b /\ q[3] = c
    BY <2>1
  <2>3. r \in Seq(S) /\ Len(r) = 3 /\ r[1] = a /\ r[2] = b /\ r[3] = c
    OBVIOUS
  <2> HIDE DEF q, r
  <2>4. \A i \in 1..Len(q) : q[i] = r[i]
    BY <2>2, <2>3
  <2>5. q = r
    BY <2>2, <2>3, <2>4, SeqEqual
  <2> QED BY <2>5 DEF q, r
<1> QED BY <1>1, <1>2

(* The same without a set that holds the items: two keyed pieces and the command a writer appends
   are the three items of the stream. *)
LEMMA Items ==
    ASSUME NEW a, NEW b, NEW c
    PROVE  Append(<<a>>, b) = <<a, b>> /\ <<a, b>> \o <<c>> = <<a, b, c>>
<1> DEFINE S == {a, b, c}
<1>1. a \in S /\ b \in S /\ c \in S
  OBVIOUS
<1> HIDE DEF S
<1> QED BY <1>1, Pairs

LEMMA FirstTwo ==
    ASSUME NEW S, NEW a \in S, NEW b \in S, NEW c \in S
    PROVE  SubSeq(<<a, b, c>>, 1, 2) = <<a, b>>
<1> DEFINE q == SubSeq(<<a, b, c>>, 1, 2)
           r == <<a, b>>
           f == <<a, b, c>>
<1>1. f[1] = a /\ f[2] = b
  OBVIOUS
<1>2. r \in Seq(S) /\ Len(r) = 2 /\ r[1] = a /\ r[2] = b
  OBVIOUS
<1>3. q = SubSeq(f, 1, 2)
  OBVIOUS
<1> HIDE DEF q, r, f
<1>4. \A i \in 1..2 : f[i] \in S
  BY <1>1
<1>5. q \in Seq(S) /\ Len(q) = 2 /\ \A i \in 1..2 : q[i] = f[i]
  <2>1. /\ SubSeq(f, 1, 2) \in Seq(S)
        /\ Len(SubSeq(f, 1, 2)) = IF 1 <= 2 THEN 2 - 1 + 1 ELSE 0
        /\ \A i \in 1..(2 - 1 + 1) : SubSeq(f, 1, 2)[i] = f[1 + i - 1]
    BY <1>4, SubSeqProperties
  <2> QED BY <1>3, <2>1
<1>6. \A i \in 1..Len(q) : q[i] = r[i]
  BY <1>1, <1>2, <1>5
<1>7. q = r
  BY <1>2, <1>5, <1>6, SeqEqual
<1> QED BY <1>7 DEF q, r

LEMMA Homes ==
    ASSUME SessionAssumption
    PROVE  /\ \A c \in Callers : HomeOf(c) \in Sides
           /\ \A c \in Senders : HomeOf(c) = Home[c] /\ c \in Callers /\ c \notin Sides
           /\ \A c \in Sides : HomeOf(c) = c /\ c \in Callers /\ c \notin Senders
BY DEF SessionAssumption, HomeOf, Callers

(* At most one call of a side is between its first and its last section. *)
LEMMA OneAtATime ==
    ASSUME SessionAssumption, OneSenderEach, OneCall, NEW c \in Callers, NEW d \in Callers,
           HomeOf(c) = HomeOf(d), calls[c].at # "idle", calls[d].at # "idle"
    PROVE  c = d
<1>1. c = "initiator" \/ d = "initiator" => FALSE
  BY DEF OneCall
<1>2. CASE c \in Senders /\ d \in Senders
  BY <1>2, Homes DEF OneSenderEach
<1>3. CASE c = "responder" /\ d \in Senders
  BY <1>3, Homes, PeersOf DEF OneCall, Finalize, Ready, Closed
<1>4. CASE d = "responder" /\ c \in Senders
  BY <1>4, Homes, PeersOf DEF OneCall, Finalize, Ready, Closed
<1> QED BY <1>1, <1>2, <1>3, <1>4, PeersOf DEF Callers

(* What a step keeps that leaves the ciphers, or the streams, as they are. *)
LEMMA SameCiphers ==
    ASSUME Ciphers, UNCHANGED <<tx, calls, written>>, open' => open,
           \A s \in Sides : closing'[s].at = "no" => closing[s].at = "no",
           \A c \in Callers : HomeOf(c) \in Sides
    PROVE  Ciphers'
<1>1. \A s \in Sides : Intact(s)' => Intact(s)
  BY DEF Intact
<1>2. ASSUME NEW c \in Callers, Intact(HomeOf(c))' PROVE Encrypting(c)'
  <2>1. Intact(HomeOf(c)) /\ HomeOf(c)' = HomeOf(c)
    BY <1>1, <1>2 DEF HomeOf
  <2>2. Encrypting(c)
    BY <2>1 DEF Ciphers
  <2> QED BY <2>1, <2>2 DEF Encrypting, HomeOf, Keyed
<1>3. ASSUME NEW s \in Sides, Intact(s)' PROVE Rested(s)'
  <2>1. Rested(s)
    BY <1>1, <1>3 DEF Ciphers
  <2> QED BY <2>1 DEF Rested, Quiet, HomeOf, Keyed
<1> QED BY <1>2, <1>3 DEF Ciphers

LEMMA SameWay ==
    ASSUME NEW s, OnTheWay(s), Pending(s)' = Pending(s), stream'[s] = stream[s], written'[s] = written[s],
           read'[Peer(s)] = read[Peer(s)],
           \A n \in 1..Len(written[s]) : Clean(s, n)' => Clean(s, n),
           step'[Peer(s)] # Failed => step[Peer(s)] # Failed
    PROVE  OnTheWay(s)'
<1> DEFINE q == stream[s]
           w == written[s]
           k == Len(read[Peer(s)])
           i == Pending(s)
<1>1. /\ OnTheWay(s) <=> (step[Peer(s)] # Failed =>
             /\ Len(w) + i = k + Len(q)
             /\ \A j \in 1..Len(q), n \in 1..Len(w) : n + i = k + j => Sent(q[j], n, w[n], Clean(s, n)))
      /\ OnTheWay(s)' <=> (step'[Peer(s)] # Failed =>
             /\ Len(w') + i' = k' + Len(q')
             /\ \A j \in 1..Len(q'), n \in 1..Len(w') : n + i' = k' + j => Sent(q'[j], n, w'[n], Clean(s, n)'))
  BY DEF OnTheWay, Sent, Command, Keyed
<1>2. q' = q /\ w' = w /\ i' = i /\ k' = k
  OBVIOUS
<1> HIDE DEF q, w, k, i
<1>3. SUFFICES ASSUME step'[Peer(s)] # Failed
              PROVE  /\ Len(w) + i = k + Len(q)
                     /\ \A j \in 1..Len(q), n \in 1..Len(w) : n + i = k + j => Sent(q[j], n, w[n], Clean(s, n)')
  BY <1>1, <1>2
<1>4. /\ Len(w) + i = k + Len(q)
      /\ \A j \in 1..Len(q), n \in 1..Len(w) : n + i = k + j => Sent(q[j], n, w[n], Clean(s, n))
  BY <1>1, <1>3
<1>5. \A j \in 1..Len(q), n \in 1..Len(w) : n + i = k + j => Sent(q[j], n, w[n], Clean(s, n)')
  BY <1>4 DEF Sent, w
<1> QED BY <1>4, <1>5

LEMMA SameStreams ==
    ASSUME WireInv, UNCHANGED <<step, rx, stream, recv, closing, written, read, garbled>>
    PROVE  /\ InStep' /\ Before' /\ Closings'
           /\ \A s \in Sides : OnTheWay(s)' /\ Received(s)' /\ Receiving(s)' /\ Excused(s)'
<1>1. InStep' /\ Before' /\ Closings'
  BY DEF WireInv, InStep, Before, Closings
<1>2. ASSUME NEW s \in Sides PROVE OnTheWay(s)' /\ Received(s)' /\ Receiving(s)' /\ Excused(s)'
  <2>1. OnTheWay(s)'
    <3>1. Pending(s)' = Pending(s) /\ \A n : Clean(s, n)' = Clean(s, n)
      BY DEF Pending, Clean
    <3> QED BY <3>1, SameWay DEF WireInv
  <2>2. Received(s)' /\ Receiving(s)' /\ Excused(s)'
    BY DEF WireInv, Received, Decrypting, Receiving, Excused, Keyed
  <2> QED BY <2>1, <2>2
<1> QED BY <1>1, <1>2

LEMMA WireInit == ASSUME SessionAssumption, SessionInit PROVE WireInv
<1>1. SessionTyped
  BY DEF SessionInit, SessionTyped, Fresh, Key, Idle, Place, Sides, NotClosing
<1>2. OneCall /\ Closings /\ \A c \in Callers : Sized(c)
  BY Homes, PeersOf DEF SessionInit, OneCall, Idle, Closings, NotClosing, Sized
<1>3. InStep
  BY PeersOf DEF SessionInit, InStep
<1>4. Before
  BY PeersOf DEF SessionInit, Before, Messages
<1>5. Ciphers
  BY Homes, PeersOf DEF SessionInit, Ciphers, Encrypting, Rested, Quiet, Idle, Fresh, Keyed
<1>6. ASSUME NEW s \in Sides PROVE OnTheWay(s) /\ Received(s) /\ Receiving(s) /\ Excused(s)
  <2>1. Received(s) /\ Receiving(s) /\ Excused(s)
    BY PeersOf DEF SessionInit, Received, Decrypting, Receiving, Excused, Keyed, Fresh
  <2>2. OnTheWay(s)
    BY PeersOf DEF SessionInit, OnTheWay, Pending
  <2> QED BY <2>1, <2>2
<1>7. Ended
  BY DEF SessionInit, Ended
<1> QED BY <1>1, <1>2, <1>3, <1>4, <1>5, <1>6, <1>7 DEF WireInv

-----------------------------------------------------------------------------
(* The handshake *)

(* A side in the handshake makes no calls, and its step disturbs no cipher. *)
LEMMA HandshakeStep ==
    ASSUME SessionAssumption, WireInv, NEW s \in Sides, step[s] \in Messages, NEW n \in 0..7,
           step' = [step EXCEPT ![s] = n], open' => open, n \notin {Ready, Closed},
           \A p \in Sides : p # s /\ stream[p] # <<>> => stream'[p] = stream[p] \/ p = Peer(s),
           stream'[s] = stream[s] \/ stream'[s] # <<>>,
           UNCHANGED <<tx, rx, calls, recv, closing, written, read, garbled>>
    PROVE  /\ OneCall' /\ Ciphers' /\ Closings' /\ \A p \in Sides : step'[p] \in 0..7
           /\ \A c \in Callers : Sized(c)'
           /\ \A p \in Sides : Received(p)' /\ Receiving(p)' /\ Excused(p)'
<1>0. /\ step'[s] = n /\ \A p \in Sides : p # s => step'[p] = step[p]
      /\ step[s] \notin {Finalize, Ready, Closed}
  BY DEF WireInv, SessionTyped, Messages, Ready, Closed, Finalize
<1>1. OneCall' /\ Closings'
  BY <1>0, Homes, PeersOf DEF WireInv, OneCall, Closings, Messages, Ready, Closed, Finalize, SessionAssumption
<1>2. Ciphers'
  BY SameCiphers, Homes DEF WireInv
<1>3. ASSUME NEW p \in Sides PROVE Received(p)' /\ Receiving(p)' /\ Excused(p)'
  <2>1. Received(p)' /\ Excused(p)'
    BY DEF WireInv, Received, Decrypting, Excused, Keyed
  <2>2. CASE p = s
    BY <1>0, <2>1, <2>2 DEF WireInv, Receiving
  <2>3. CASE p # s
    <3>1. Peer(p) = s /\ step'[p] = step[p]
      BY <1>0, <2>3, PeersOf
    <3> QED BY <2>1, <3>1 DEF WireInv, Receiving
  <2> QED BY <2>2, <2>3
<1> QED BY <1>0, <1>1, <1>2, <1>3 DEF WireInv, SessionTyped, Sized

LEMMA FailsStep ==
    ASSUME SessionAssumption, WireInv, NEW s \in Sides, Fails(s), step[s] \in Messages,
           \/ step[s] \in Writes(s) /\ UNCHANGED stream /\ ~open
           \/ step[s] \notin Writes(s) /\ UNCHANGED stream /\ stream[Peer(s)] = <<>> /\ ~open
           \/ step[s] = Checks(s) /\ stream[Peer(s)] # <<>>
              /\ stream' = [stream EXCEPT ![Peer(s)] = Tail(@)],
           UNCHANGED <<tx, rx, calls, recv, closing, written, read, garbled>>
    PROVE  WireInv'
<1>0. step' = [step EXCEPT ![s] = 0] /\ open' = FALSE
  BY DEF Fails, Failed
<1>1. /\ OneCall' /\ Ciphers' /\ Closings' /\ \A p \in Sides : step'[p] \in 0..7
      /\ \A c \in Callers : Sized(c)'
      /\ \A p \in Sides : Received(p)' /\ Receiving(p)' /\ Excused(p)'
  <2>1. 0 \in 0..7 /\ 0 \notin {Ready, Closed} /\ (open' => open)
    BY <1>0 DEF Ready, Closed
  <2>2. stream'[s] = stream[s] /\ \A p \in Sides : p # s => p = Peer(s)
    BY PeersOf DEF WireInv, SessionTyped
  <2> QED BY HandshakeStep, <1>0, <2>1, <2>2
<1>2. SessionTyped'
  <2>1. stream' \in [Sides -> Seq(Item)]
    <3>1. CASE UNCHANGED stream
      BY <3>1 DEF SessionTyped, WireInv
    <3>2. CASE stream[Peer(s)] # <<>> /\ stream' = [stream EXCEPT ![Peer(s)] = Tail(@)]
      BY <3>2, PeersOf DEF SessionTyped, WireInv
    <3> QED BY <3>1, <3>2
  <2>2. step' \in [Sides -> 0..7]
    BY <1>0, <1>1 DEF SessionTyped, WireInv
  <2> QED BY <1>0, <2>1, <2>2 DEF SessionTyped, WireInv
<1>3. Ended'
  BY <1>0 DEF Ended, Failed, WireInv, SessionTyped
<1>4. InStep'
  <2>1. CASE UNCHANGED stream /\ ~open
    <3>1. \E p \in Sides : p # s /\ step[p] \in {0, 6, 7}
      <4>1. PICK p \in Sides : step[p] = Failed \/ closing[p].at # "no"
        BY <2>1 DEF WireInv, Ended
      <4>2. step[p] \in {0, 6, 7}
        BY <4>1 DEF WireInv, SessionTyped, Closings, Failed, Ready, Closed
      <4> QED BY <4>2 DEF Messages
    <3>2. step[Peer(s)] \in {0, 6, 7}
      BY <3>1, PeersOf
    <3>3. CASE s = "initiator"
      BY <2>1, <1>0, <3>2, <3>3, PeersOf DEF WireInv, SessionTyped, InStep, Messages
    <3>4. CASE s = "responder"
      BY <2>1, <1>0, <3>2, <3>4, PeersOf DEF WireInv, SessionTyped, InStep, Messages
    <3> QED BY <3>3, <3>4, PeersOf
  <2>2. CASE step[s] = Checks(s) /\ stream[Peer(s)] # <<>> /\ stream' = [stream EXCEPT ![Peer(s)] = Tail(@)]
    <3>1. stream[Peer(s)] \in Seq(Item) /\ stream'[Peer(s)] = Tail(stream[Peer(s)]) /\ stream'[s] = stream[s]
      BY <2>2, PeersOf DEF WireInv, SessionTyped
    <3>2. Len(stream[Peer(s)]) \in Nat \ {0} /\ Len(stream'[Peer(s)]) = Len(stream[Peer(s)]) - 1
      BY <2>2, <3>1, Tails
    <3>3. CASE s = "initiator"
      BY <2>2, <1>0, <3>1, <3>2, <3>3, PeersOf DEF WireInv, SessionTyped, InStep, Checks
    <3>4. CASE s = "responder"
      BY <2>2, <1>0, <3>1, <3>2, <3>4, PeersOf DEF WireInv, SessionTyped, InStep, Checks
    <3> QED BY <3>3, <3>4, PeersOf
  <2> QED BY <2>1, <2>2
<1>5. Before'
  <2>1. step'[s] = 0 /\ \A p \in Sides : p # s => step'[p] = step[p]
    BY <1>0 DEF WireInv, SessionTyped
  <2>2. CASE s = "initiator"
    BY <1>0, <2>1, <2>2, PeersOf DEF WireInv, Before, Messages
  <2>3. CASE s = "responder"
    <3>1. step["initiator"] = 4 => written["responder"] = <<>>
      BY <2>3, PeersOf DEF WireInv, Before
    <3> QED BY <1>0, <2>1, <2>3, <3>1, PeersOf DEF WireInv, Before, Messages
  <2> QED BY <2>2, <2>3, PeersOf
<1>6. ASSUME NEW p \in Sides PROVE OnTheWay(p)'
  <2>1. step'[s] = 0 /\ \A q \in Sides : q # s => step'[q] = step[q]
    BY <1>0 DEF WireInv, SessionTyped
  <2>3. CASE p = s
    <3>1. stream'[s] = stream[s] /\ step'[Peer(s)] = step[Peer(s)]
      BY <2>1, PeersOf DEF WireInv, SessionTyped
    <3>2. OnTheWay(s)'
      <4>1. /\ OnTheWay(s) /\ UNCHANGED <<written, read>> /\ Pending(s)' = Pending(s)
            /\ \A n : Clean(s, n)' = Clean(s, n)
        BY <3>1 DEF WireInv, Pending, Clean
      <4> QED BY <3>1, <4>1, SameWay
    <3> QED BY <2>3, <3>2
  <2>4. CASE p # s
    <3>1. step'[Peer(p)] = 0
      BY <2>1, <2>4, PeersOf
    <3> QED BY <3>1 DEF OnTheWay, Failed
  <2> QED BY <2>3, <2>4
<1> QED BY <1>1, <1>2, <1>3, <1>4, <1>5, <1>6 DEF WireInv

(* A side goes on to the next message. *)
LEMMA WriteMessageStep ==
    ASSUME SessionAssumption, WireInv, NEW s \in Sides, WriteMessage(s)
    PROVE  WireInv'
<1>1. CASE ~open
  BY <1>1, FailsStep DEF WriteMessage
<1>2. CASE open
  <2> DEFINE n == IF step[s] = 4 THEN 5 ELSE step[s] + 1
  <2>1. /\ step[s] \in 1..4 /\ step[s] \in Writes(s) /\ step' = [step EXCEPT ![s] = n]
        /\ stream' = [stream EXCEPT ![s] = Append(@, <<step[s]>>)]
        /\ UNCHANGED <<open, tx, rx, calls, recv, closing, written, read, garbled>>
    BY <1>2 DEF WriteMessage, Advance, Completes, Finalize, Messages
  <2>2. n \in 0..7 /\ step'[s] = n /\ \A p \in Sides : p # s => step'[p] = step[p]
    <3>1. n \in 0..7
      BY <2>1
    <3> QED BY <2>1, <3>1 DEF WireInv, SessionTyped
  <2>3. /\ OneCall' /\ Ciphers' /\ Closings' /\ \A p \in Sides : step'[p] \in 0..7
        /\ \A c \in Callers : Sized(c)'
        /\ \A p \in Sides : Received(p)' /\ Receiving(p)' /\ Excused(p)'
    <3>1. n \notin {Ready, Closed} /\ step[s] \in Messages
      BY <2>1 DEF Ready, Closed, Messages
    <3>2. stream'[s] # <<>> /\ \A p \in Sides : p # s => p = Peer(s)
      <4>1. stream[s] \in Seq(Item) /\ <<step[s]>> \in Item /\ stream'[s] = Append(stream[s], <<step[s]>>)
        BY <2>1 DEF WireInv, SessionTyped, Item, Messages
      <4>2. Len(stream'[s]) = Len(stream[s]) + 1 /\ Len(stream[s]) \in Nat
        BY <4>1, Appends
      <4>3. stream'[s] # <<>>
        BY <4>2
      <4> QED BY <4>3, PeersOf
    <3> HIDE DEF n
    <3> QED BY <2>1, <2>2, <3>1, <3>2, HandshakeStep
  <2>4. stream[s] \in Seq(Item) /\ <<step[s]>> \in Item
    BY <2>1 DEF WireInv, SessionTyped, Item, Messages
  <2>5. /\ stream'[s] = Append(stream[s], <<step[s]>>) /\ Len(stream'[s]) = Len(stream[s]) + 1
        /\ \A p \in Sides : p # s => stream'[p] = stream[p]
    BY <2>1, <2>4 DEF WireInv, SessionTyped
  <2>6. SessionTyped'
    BY <2>1, <2>2, <2>4 DEF WireInv, SessionTyped
  <2>7. Ended'
    BY <2>1, <2>2, <1>2 DEF Ended
  <2>8. InStep' /\ stream[s] = <<>> /\ Len(stream[Peer(s)]) = 0 /\ step[Peer(s)] \in Messages /\ (step[s] = 4 => s = "responder")
    <3>1. Len(stream[s]) \in Nat /\ (Len(stream[s]) = 0 => stream[s] = <<>>)
      BY <2>4
    <3>2. CASE s = "initiator"
      BY <3>1, <3>2, <2>1, <2>2, <2>5, PeersOf DEF WireInv, InStep, Writes, Messages
    <3>3. CASE s = "responder"
      BY <3>1, <3>3, <2>1, <2>2, <2>5, PeersOf DEF WireInv, InStep, Writes, Messages
    <3> QED BY <3>2, <3>3, PeersOf
  <2> HIDE DEF n
  <2>9. Before'
    <3>1. CASE s = "initiator"
      BY <3>1, <2>1, <2>2, <2>5, <2>8, PeersOf DEF WireInv, Before, Messages
    <3>2. CASE s = "responder"
      BY <3>2, <2>1, <2>2, <2>5, <2>8, PeersOf DEF WireInv, Before, Messages
    <3> QED BY <3>1, <3>2, PeersOf
  <2>10. ASSUME NEW p \in Sides PROVE OnTheWay(p)'
    <3>2. CASE p = s
      <4>1. Len(written[s]) = 0 /\ Len(read[Peer(s)]) = 0
        BY <2>1, <2>8, PeersOf DEF WireInv, Before, Messages
      <4>2. Pending(s)' = 1 /\ Len(stream'[s]) = 1
        BY <2>2, <2>5, <2>8, PeersOf DEF Pending
      <4>3. OnTheWay(s)'
        BY <2>1, <4>1, <4>2 DEF OnTheWay
      <4> QED BY <3>2, <4>3
    <3>3. CASE p # s
      <4>1. p = Peer(s) /\ Peer(p) = s /\ Len(stream'[p]) = 0 /\ Len(stream[p]) = 0
        BY <2>5, <2>8, <3>3, PeersOf
      <4>2. Pending(p)' = 0 /\ Pending(p) = 0
        BY <4>1 DEF Pending
      <4>3. step[s] # Failed
        BY <2>1 DEF Failed
      <4>4. Len(written[p]) = Len(read[s])
        BY <4>1, <4>2, <4>3 DEF WireInv, SessionTyped, OnTheWay
      <4>5. UNCHANGED <<written, read>> /\ \A j \in 1..0 : FALSE
        BY <2>1
      <4>6. OnTheWay(p)'
        BY <4>1, <4>2, <4>4, <4>5 DEF OnTheWay
      <4> QED BY <4>6
    <3> QED BY <3>2, <3>3
  <2> QED BY <2>1, <2>3, <2>6, <2>7, <2>8, <2>9, <2>10 DEF WireInv
<1> QED BY <1>1, <1>2

LEMMA ReadMessageStep ==
    ASSUME SessionAssumption, WireInv, NEW s \in Sides, ReadMessage(s)
    PROVE  WireInv'
<1> DEFINE p == Peer(s)
<1>1. p \in Sides /\ p # s /\ Peer(p) = s
  BY PeersOf
<1>2. CASE step[s] = Checks(s) /\ ~valid[s]
  BY <1>2, FailsStep DEF ReadMessage
<1>3. CASE ~(step[s] = Checks(s) /\ ~valid[s])
  <2> DEFINE n == IF step[s] = 4 THEN 5 ELSE step[s] + 1
  <2>1. /\ step[s] \in 1..4 /\ step[s] \notin Writes(s) /\ step' = [step EXCEPT ![s] = n]
        /\ stream[p] # <<>> /\ stream' = [stream EXCEPT ![p] = Tail(@)]
        /\ UNCHANGED <<open, tx, rx, calls, recv, closing, written, read, garbled>>
    BY <1>3 DEF ReadMessage, Advance, Completes, Finalize, Messages
  <2>2. n \in 0..7 /\ step'[s] = n /\ step'[p] = step[p]
    <3>1. n \in 0..7
      BY <2>1
    <3> QED BY <1>1, <2>1, <3>1 DEF WireInv, SessionTyped
  <2>3. /\ OneCall' /\ Ciphers' /\ Closings' /\ \A q \in Sides : step'[q] \in 0..7
        /\ \A c \in Callers : Sized(c)'
        /\ \A q \in Sides : Received(q)' /\ Receiving(q)' /\ Excused(q)'
    <3>1. n \notin {Ready, Closed} /\ step[s] \in Messages
      BY <2>1 DEF Ready, Closed, Messages
    <3>2. stream'[s] = stream[s] /\ \A q \in Sides : q # s => q = Peer(s)
      BY <1>1, <2>1, PeersOf DEF WireInv, SessionTyped
    <3> HIDE DEF n
    <3> QED BY <2>1, <2>2, <3>1, <3>2, HandshakeStep
  <2>4. stream[p] \in Seq(Item) /\ stream[s] \in Seq(Item) /\ stream'[p] = Tail(stream[p])
        /\ stream'[s] = stream[s]
    BY <1>1, <2>1 DEF WireInv, SessionTyped
  <2> HIDE DEF p, n
  <2>5. /\ Len(stream[p]) \in Nat \ {0} /\ Len(stream'[p]) = Len(stream[p]) - 1
        /\ \A j \in 1..Len(stream'[p]) : stream'[p][j] = stream[p][j + 1]
        /\ Tail(stream[p]) \in Seq(Item)
    <3> DEFINE q == stream[p]
    <3>1. q \in Seq(Item) /\ q # <<>> /\ stream'[p] = Tail(q)
      BY <2>1, <2>4
    <3> HIDE DEF q
    <3>2. /\ Len(q) \in Nat \ {0} /\ Len(Tail(q)) = Len(q) - 1 /\ Tail(q) \in Seq(Item)
          /\ \A j \in 1..Len(Tail(q)) : Tail(q)[j] = q[j + 1]
      BY <3>1, Tails
    <3> QED BY <3>1, <3>2 DEF q
  <2>6. SessionTyped'
    BY <1>1, <2>1, <2>2, <2>4, <2>5 DEF WireInv, SessionTyped
  <2>7. Ended'
    BY <1>1, <2>1, <2>2, PeersOf DEF WireInv, Ended, Failed, Closed
  <2>8. InStep' /\ (step[p] \in Messages => Len(stream[s]) = 0) /\ (step[s] < 4 => Len(stream[p]) = 1)
    <3>1. CASE s = "initiator"
      BY <3>1, <1>1, <2>1, <2>2, <2>4, <2>5, PeersOf DEF WireInv, InStep, Writes, Messages, p, n
    <3>2. CASE s = "responder"
      BY <3>2, <1>1, <2>1, <2>2, <2>4, <2>5, PeersOf DEF WireInv, InStep, Writes, Messages, p, n
    <3> QED BY <3>1, <3>2, PeersOf
  <2>9. Before'
    <3>1. CASE s = "initiator"
      <4>1. step'["initiator"] \in {3, 5} /\ step["initiator"] \in Messages /\ step'["responder"] = step["responder"]
        BY <3>1, <2>1, <2>2, PeersOf DEF Writes, p, n, Messages
      <4> QED BY <4>1, <2>1 DEF WireInv, Before, Messages
    <3>2. CASE s = "responder"
      BY <3>2, <2>1, <2>2, <2>4, <2>5, <2>8, PeersOf DEF WireInv, Before, Messages, p, n
    <3> QED BY <3>1, <3>2, PeersOf
  <2>11. OnTheWay(s)'
    <3>1. Pending(s)' = Pending(s) /\ stream'[s] = stream[s] /\ step'[Peer(s)] = step[Peer(s)]
      BY <2>2, <2>4 DEF Pending, p
    <3>2. UNCHANGED <<written, read>>
      BY <2>1
    <3>3. OnTheWay(s) /\ \A i : Clean(s, i)' = Clean(s, i)
      BY <2>1 DEF WireInv, Clean
    <3> QED BY <3>1, <3>2, <3>3, SameWay
  <2>12. OnTheWay(p)'
    <3>1. Len(read[s]) = 0 /\ Pending(p) = 1 /\ Pending(p)' = 0
      BY <1>1, <2>1, <2>2, <2>5, <2>8, PeersOf DEF WireInv, Before, Pending, Messages, p, n
    <3>2. step[s] # Failed /\ Len(stream[p]) \in Nat /\ Len(stream'[p]) = Len(stream[p]) - 1
      BY <2>1, <2>5 DEF Failed
    <3>3. /\ Len(written[p]) + 1 = Len(stream[p])
          /\ \A j \in 1..Len(stream[p]), i \in 1..Len(written[p]) :
                i + 1 = j => Sent(stream[p][j], i, written[p][i], Clean(p, i))
      <4>1. /\ Len(written[p]) + Pending(p) = Len(read[s]) + Len(stream[p])
            /\ \A j \in 1..Len(stream[p]), i \in 1..Len(written[p]) :
                  i + Pending(p) = Len(read[s]) + j => Sent(stream[p][j], i, written[p][i], Clean(p, i))
        BY <1>1, <3>2 DEF WireInv, OnTheWay
      <4> QED BY <4>1, <3>1, <3>2
    <3>4. Len(written[p]) \in Nat
      BY <1>1 DEF WireInv, SessionTyped
    <3>5. ASSUME NEW j \in 1..Len(stream'[p]) PROVE Sent(stream'[p][j], j, written[p][j], Clean(p, j))
      <4>1. j + 1 \in 1..Len(stream[p]) /\ j \in 1..Len(written[p])
        BY <3>2, <3>3, <3>4
      <4> QED BY <2>5, <3>3, <4>1
    <3>6. Len(read'[s]) = 0 /\ UNCHANGED written
      BY <2>1, <3>1
    <3>9. \A i : Clean(p, i)' = Clean(p, i)
      BY <2>1 DEF Clean
    <3>7. Len(written[p]) = Len(stream'[p])
      BY <3>2, <3>3, <3>4
    <3>8. \A j \in 1..Len(stream'[p]), i \in 1..Len(written'[p]) :
             i + 0 = 0 + j => Sent(stream'[p][j], i, written'[p][i], Clean(p, i)')
      BY <3>2, <3>4, <3>5, <3>6, <3>7, <3>9
    <3>10. /\ Len(written'[p]) + Pending(p)' = Len(read'[Peer(p)]) + Len(stream'[p])
           /\ \A j \in 1..Len(stream'[p]), i \in 1..Len(written'[p]) :
                 i + Pending(p)' = Len(read'[Peer(p)]) + j => Sent(stream'[p][j], i, written'[p][i], Clean(p, i)')
      BY <1>1, <3>1, <3>2, <3>4, <3>6, <3>7, <3>8
    <3> QED BY <3>10 DEF OnTheWay, Sent, Command, Keyed
  <2> QED BY <2>1, <2>3, <2>6, <2>7, <2>8, <2>9, <2>11, <2>12, <1>1, PeersOf DEF WireInv, p
<1> QED BY <1>2, <1>3

LEMMA NoMessageStep ==
    ASSUME SessionAssumption, WireInv, NEW s \in Sides, NoMessage(s)
    PROVE  WireInv'
BY FailsStep DEF NoMessage

-----------------------------------------------------------------------------
(* SendCommand *)

(* A section of a call that holds no streams: the ciphers are as the invariant has them again
   if those of the caller's side are. *)
LEMMA CallStep ==
    ASSUME SessionAssumption, OneSenderEach, WireInv, NEW c \in Callers, NEW r \in [at : Place, toSend : Seq(Key)],
           NEW k \in Key, calls' = [calls EXCEPT ![c] = r], tx' = [tx EXCEPT ![HomeOf(c)] = k],
           calls[c].at # "idle" \/ tx' = tx,
           r.at # "idle" => /\ c \in Senders => step[Home[c]] \in {Ready, Closed}
                            /\ c \in Sides => c = "responder" /\ step[c] = Finalize,
           r.at # "idle" => \A d \in Callers : HomeOf(d) = HomeOf(c) /\ calls[d].at # "idle" => d = c,
           Intact(HomeOf(c)) => Encrypting(c)', Sized(c)',
           Intact(HomeOf(c)) /\ r.at \in {"idle", "ok", "error"} =>
               k = Keyed(Len(written[HomeOf(c)]), 2 * Len(written[HomeOf(c)])),
           UNCHANGED <<step, rx, stream, open, recv, closing, written, read, garbled>>
    PROVE  WireInv'
<1>1. /\ InStep' /\ Before' /\ Closings' /\ Ended'
      /\ \A s \in Sides : OnTheWay(s)' /\ Received(s)' /\ Receiving(s)' /\ Excused(s)'
  BY SameStreams DEF WireInv, Ended
<1>2. SessionTyped'
  BY Homes DEF WireInv, SessionTyped
<1>3. calls'[c] = r /\ \A d \in Callers : d # c => calls'[d] = calls[d]
  BY DEF WireInv, SessionTyped
<1>4. OneCall'
  BY <1>3, Homes, PeersOf DEF WireInv, OneCall
<1>5. Ciphers'
  <2>0. /\ HomeOf(c) \in Sides /\ tx'[HomeOf(c)] = k
        /\ \A s \in Sides : s # HomeOf(c) => tx'[s] = tx[s]
    BY Homes DEF WireInv, SessionTyped
  <2>1. ASSUME NEW d \in Callers, Intact(HomeOf(d))' PROVE Encrypting(d)'
    <3>0. Intact(HomeOf(d)) /\ HomeOf(d)' = HomeOf(d)
      BY <2>1 DEF Intact, HomeOf
    <3>1. CASE d = c
      BY <3>0, <3>1
    <3>2. CASE d # c /\ tx'[HomeOf(d)] = tx[HomeOf(d)]
      <4>1. Encrypting(d)
        BY <3>0 DEF WireInv, Ciphers
      <4>2. calls'[d] = calls[d] /\ written' = written /\ HomeOf(d)' = HomeOf(d)
        BY <1>3, <3>2 DEF HomeOf
      <4> QED BY <3>2, <4>1, <4>2 DEF Encrypting, Keyed
    <3>3. CASE d # c /\ HomeOf(d) = HomeOf(c) /\ tx' # tx
      <4>1. calls[d].at = "idle"
        BY <3>3, OneAtATime DEF WireInv
      <4> QED BY <1>3, <3>3, <4>1 DEF Encrypting
    <3> QED BY <3>1, <3>2, <3>3, <2>0, Homes
  <2>2. ASSUME NEW s \in Sides, Intact(s)' PROVE Rested(s)'
    <3>0. Intact(s)
      BY <2>2 DEF Intact
    <3>1. CASE s # HomeOf(c)
      <4>1. \A d \in Callers : HomeOf(d) = s => calls'[d] = calls[d]
        BY <1>3, <3>1
      <4>2. tx'[s] = tx[s] /\ written' = written /\ Rested(s)
        BY <2>0, <3>0, <3>1 DEF WireInv, Ciphers
      <4> QED BY <4>1, <4>2 DEF Rested, Quiet, HomeOf, Keyed
    <3>2. CASE s = HomeOf(c)
      <4>1. (\A d \in Callers : HomeOf(d)' = s => Quiet(d)') => r.at \in {"idle", "ok", "error"}
        BY <1>3, <3>2 DEF Quiet, HomeOf
      <4>2. tx'[s] = k /\ written' = written
        BY <2>0, <3>2
      <4> QED BY <3>0, <3>2, <4>1, <4>2 DEF Rested, Keyed
    <3> QED BY <3>1, <3>2
  <2> QED BY <2>1, <2>2 DEF Ciphers
<1>6. \A d \in Callers : Sized(d)'
  BY <1>3 DEF WireInv, Sized
<1> QED BY <1>1, <1>2, <1>4, <1>5, <1>6 DEF WireInv

LEMMA StartStep ==
    ASSUME SessionAssumption, OneSenderEach, WireInv, NEW c \in Callers, Start(c)
    PROVE  WireInv'
<1> DEFINE r == [at |-> IF state[HomeOf(c)] = "established" THEN "header" ELSE "error", toSend |-> <<>>]
           n == Len(written[HomeOf(c)])
<1>1. calls' = [calls EXCEPT ![c] = r] /\ UNCHANGED <<step, tx, rx, stream, open, recv, closing, written, read, garbled>>
  BY DEF Start
<1>2. r \in [at : Place, toSend : Seq(Key)]
  BY DEF Place
<1>3. HomeOf(c) \in Sides /\ tx[HomeOf(c)] \in Key /\ tx' = [tx EXCEPT ![HomeOf(c)] = tx[HomeOf(c)]]
  BY <1>1, Homes DEF WireInv, SessionTyped
<1>4. /\ c \in Senders => step[Home[c]] \in {Ready, Closed}
      /\ c \in Sides => c = "responder" /\ step[c] = Finalize
  BY Homes DEF Start
<1>5. \A d \in Callers : HomeOf(d) = HomeOf(c) /\ calls[d].at # "idle" => d = c
  <2> SUFFICES ASSUME NEW d \in Callers, HomeOf(d) = HomeOf(c), calls[d].at # "idle" PROVE d = c
    OBVIOUS
  <2>1. CASE d \in Senders
    BY <2>1, <1>4, Homes, PeersOf DEF WireInv, OneCall, OneSenderEach, Callers, Ready, Closed, Finalize
  <2>2. CASE d \in Sides
    BY <2>2, <1>4, Homes, PeersOf DEF WireInv, OneCall, Callers, Ready, Closed, Finalize
  <2> QED BY <2>1, <2>2 DEF Callers
<1>6. Intact(HomeOf(c)) => tx[HomeOf(c)] = Keyed(n, 2 * n)
  <2>1. calls[c].at = "idle"
    BY DEF Start
  <2>2. \A d \in Callers : HomeOf(d) = HomeOf(c) => Quiet(d)
    BY <1>5, <2>1 DEF Quiet
  <2> QED BY <1>3, <2>2 DEF WireInv, Ciphers, Rested
<1>7. (Intact(HomeOf(c)) => Encrypting(c)') /\ Sized(c)'
  <2>1. calls'[c] = r
    BY <1>1 DEF WireInv, SessionTyped
  <2>2. r.at \in {"header", "error"} /\ r.toSend = <<>>
    OBVIOUS
  <2> HIDE DEF r
  <2> QED BY <1>1, <1>6, <2>1, <2>2 DEF Encrypting, HomeOf, Keyed, Sized
<1> HIDE DEF r
<1> QED BY <1>1, <1>2, <1>3, <1>4, <1>5, <1>6, <1>7, CallStep DEF n

(* The sections in which a call changes the cipher state. *)
LEMMA SectionStep ==
    ASSUME SessionAssumption, OneSenderEach, WireInv, NEW c \in Callers,
           \/ Encrypt(c, "header", "body")
           \/ Encrypt(c, "body", "rekey")
           \/ RekeyTx(c)
    PROVE  WireInv'
<1> DEFINE s == HomeOf(c)
           n == Len(written[s])
           r == calls'[c]
           k == tx'[s]
<1>1. s \in Sides /\ n \in Nat /\ tx[s] \in Key /\ calls[c] \in [at : Place, toSend : Seq(Key)]
  BY Homes DEF WireInv, SessionTyped
<1>2. UNCHANGED <<step, rx, stream, open, recv, closing, written, read, garbled>>
  BY DEF Encrypt, RekeyTx
<1>3. calls[c].at \in {"header", "body", "rekey"}
  BY DEF Encrypt, RekeyTx
<1>4. /\ c \in Senders => step[Home[c]] \in {Ready, Closed}
      /\ c \in Sides => c = "responder" /\ step[c] = Finalize
  BY <1>3, Homes, PeersOf DEF WireInv, OneCall
<1>5. \A d \in Callers : HomeOf(d) = HomeOf(c) /\ calls[d].at # "idle" => d = c
  BY <1>3, OneAtATime DEF WireInv
<1>6. /\ calls' = [calls EXCEPT ![c] = r] /\ r \in [at : Place, toSend : Seq(Key)]
      /\ tx' = [tx EXCEPT ![s] = k] /\ k \in Key
      /\ r.at \in {"body", "rekey", "write"}
      /\ (Intact(HomeOf(c)) => Encrypting(c)') /\ Sized(c)'
  <2> HIDE DEF s
  <2>0. (Intact(HomeOf(c)) => Encrypting(c)) /\ Sized(c)
    BY DEF WireInv, Ciphers
  <2>1. ASSUME NEW at \in {"header", "body"}, Encrypt(c, at, IF at = "header" THEN "body" ELSE "rekey")
        PROVE  /\ calls' = [calls EXCEPT ![c] = r] /\ r \in [at : Place, toSend : Seq(Key)]
               /\ tx' = [tx EXCEPT ![s] = k] /\ k \in Key
               /\ r.at \in {"body", "rekey", "write"}
               /\ (Intact(HomeOf(c)) => Encrypting(c)') /\ Sized(c)'
    <3> DEFINE q == calls[c].toSend
               m == IF at = "header" THEN "body" ELSE "rekey"
    <3>1. /\ calls[c].at = at /\ calls' = [calls EXCEPT ![c] = [at |-> m, toSend |-> Append(q, tx[s])]]
          /\ tx' = [tx EXCEPT ![s].nonce = @ + 1]
      BY <2>1 DEF Encrypt, s
    <3>2. q \in Seq(Key) /\ m \in {"body", "rekey"} /\ Append(q, tx[s]) \in Seq(Key)
      BY <1>1
    <3>3. r = [at |-> m, toSend |-> Append(q, tx[s])] /\ k = [tx[s] EXCEPT !.nonce = @ + 1]
      BY <1>1, <3>1 DEF WireInv, SessionTyped
    <3>4. k = Keyed(tx[s].key, tx[s].nonce + 1) /\ tx[s] = Keyed(tx[s].key, tx[s].nonce)
      BY <1>1, <3>3 DEF Key, Keyed
    <3>5. k \in Key /\ r \in [at : Place, toSend : Seq(Key)] /\ r.at = m /\ r.toSend = Append(q, tx[s])
      BY <1>1, <3>2, <3>3, <3>4 DEF Key, Keyed, Place
    <3>6. calls' = [calls EXCEPT ![c] = r] /\ tx' = [tx EXCEPT ![s] = k]
      BY <1>1, <3>1, <3>3 DEF WireInv, SessionTyped
    <3>7. ASSUME Intact(HomeOf(c)) PROVE Encrypting(c)'
      <4>1. CASE at = "header"
        <5>1. tx[s] = Keyed(n, 2 * n) /\ q = <<>>
          BY <2>0, <3>1, <3>7, <4>1 DEF Encrypting, s
        <5>2. k = Keyed(n, 2 * n + 1) /\ r.toSend = <<Keyed(n, 2 * n)>> /\ r.at = "body"
          BY <3>4, <3>5, <4>1, <5>1 DEF Keyed
        <5> QED BY <1>2, <5>2 DEF Encrypting, HomeOf, Keyed, s
      <4>2. CASE at = "body"
        <5>1. tx[s] = Keyed(n, 2 * n + 1) /\ q = <<Keyed(n, 2 * n)>>
          BY <2>0, <3>1, <3>7, <4>2 DEF Encrypting, s
        <5>2. k = Keyed(n, 2 * n + 2) /\ r.toSend = <<Keyed(n, 2 * n), Keyed(n, 2 * n + 1)>> /\ r.at = "rekey"
          <6>1. n \in Nat /\ (2 * n + 1) + 1 = 2 * n + 2
            BY <1>1
          <6>2. k = Keyed(n, 2 * n + 2) /\ tx[s] = Keyed(n, 2 * n + 1)
            BY <3>4, <5>1, <6>1 DEF Keyed
          <6>3. Append(q, tx[s]) = <<Keyed(n, 2 * n), Keyed(n, 2 * n + 1)>>
            <7>1. Append(<<Keyed(n, 2 * n)>>, Keyed(n, 2 * n + 1)) = <<Keyed(n, 2 * n), Keyed(n, 2 * n + 1)>>
              BY Items
            <7> QED BY <5>1, <7>1
          <6> QED BY <3>5, <4>2, <6>2, <6>3
        <5> QED BY <1>2, <5>2 DEF Encrypting, HomeOf, Keyed, s
      <4> QED BY <4>1, <4>2
    <3>8. Sized(c)'
      <4>1. Len(Append(q, tx[s])) = Len(q) + 1 /\ (at = "header" => Len(q) = 0) /\ (at = "body" => Len(q) = 1)
        BY <1>1, <2>0, <3>1, <3>2, Appends DEF Sized
      <4>2. CASE at = "header"
        <5>1. calls'[c].at = "body" /\ Len(calls'[c].toSend) = 1
          BY <3>5, <4>1, <4>2
        <5> QED BY <5>1 DEF Sized
      <4>3. CASE at = "body"
        <5>1. calls'[c].at = "rekey" /\ Len(calls'[c].toSend) = 2
          <6>1. Len(Append(q, tx[s])) = 2 /\ m = "rekey"
            <7>1. m = "rekey"
              BY <4>3
            <7>2. Len(q) = 1 /\ Len(Append(q, tx[s])) = Len(q) + 1
              BY <4>1, <4>3
            <7> HIDE DEF q, m
            <7> QED BY <7>1, <7>2
          <6>2. r.at = m /\ r.toSend = Append(q, tx[s])
            BY <3>5
          <6> HIDE DEF m, q
          <6> QED BY <6>1, <6>2
        <5> QED BY <5>1 DEF Sized
      <4> QED BY <4>2, <4>3
    <3> QED BY <3>2, <3>5, <3>6, <3>7, <3>8
  <2>2. CASE RekeyTx(c)
    <3>1. /\ calls[c].at = "rekey" /\ calls' = [calls EXCEPT ![c].at = "write"]
          /\ tx' = [tx EXCEPT ![s] = Rekeyed(@)]
      BY <2>2 DEF RekeyTx, s
    <3>2. r = [calls[c] EXCEPT !.at = "write"] /\ k = Rekeyed(tx[s])
      BY <1>1, <3>1 DEF WireInv, SessionTyped
    <3>3. k = Keyed(tx[s].key + 1, tx[s].nonce) /\ k \in Key
      <4>1. tx[s] = Keyed(tx[s].key, tx[s].nonce) /\ tx[s].key \in Nat /\ tx[s].nonce \in Nat
        BY <1>1 DEF Key, Keyed
      <4>2. k = [tx[s] EXCEPT !.key = @ + 1]
        BY <3>2 DEF Rekeyed
      <4>3. k = Keyed(tx[s].key + 1, tx[s].nonce)
        BY <4>1, <4>2 DEF Keyed
      <4> QED BY <4>1, <4>3 DEF Key, Keyed
    <3>4. r.at = "write" /\ r.toSend = calls[c].toSend /\ r \in [at : Place, toSend : Seq(Key)]
      BY <1>1, <3>2 DEF Place
    <3>5. calls' = [calls EXCEPT ![c] = r] /\ tx' = [tx EXCEPT ![s] = k]
      BY <1>1, <3>1, <3>2 DEF WireInv, SessionTyped
    <3>6. ASSUME Intact(HomeOf(c)) PROVE Encrypting(c)'
      <4>1. tx[s] = Keyed(n, 2 * n + 2) /\ calls[c].toSend = <<Keyed(n, 2 * n), Keyed(n, 2 * n + 1)>>
        BY <2>0, <3>1, <3>6 DEF Encrypting, s
      <4>2. k = Keyed(n + 1, 2 * n + 2)
        BY <3>3, <4>1 DEF Keyed
      <4> QED BY <1>2, <3>4, <4>1, <4>2 DEF Encrypting, HomeOf, Keyed, s
    <3>7. Sized(c)'
      BY <2>0, <3>1, <3>4 DEF Sized
    <3> QED BY <3>3, <3>4, <3>5, <3>6, <3>7
  <2>3. CASE Encrypt(c, "header", "body")
    BY <2>1, <2>3
  <2>4. CASE Encrypt(c, "body", "rekey")
    BY <2>1, <2>4
  <2> QED BY <2>2, <2>3, <2>4
<1> HIDE DEF r, k
<1>7. calls[c].at # "idle" /\ r.at \notin {"idle", "ok", "error"}
  BY <1>3, <1>6
<1> QED BY <1>1, <1>2, <1>4, <1>5, <1>6, <1>7, CallStep

LEMMA WriteStep ==
    ASSUME SessionAssumption, OneSenderEach, WireInv, NEW c \in Callers, Write(c)
    PROVE  WireInv'
<1> DEFINE s == HomeOf(c)
<1>1. /\ s \in Sides /\ written[s] \in Seq(Callers) /\ stream[s] \in Seq(Item)
      /\ calls[c].at = "write" /\ UNCHANGED <<step, tx, rx, open, recv, closing, read, garbled>>
  BY Homes DEF WireInv, SessionTyped, Write
<1>2. /\ c \in Senders => step[Home[c]] \in {Ready, Closed}
      /\ c \in Sides => c = "responder" /\ step[c] = Finalize
  BY <1>1, Homes, PeersOf DEF WireInv, OneCall
<1>3. \A d \in Callers : HomeOf(d) = HomeOf(c) /\ calls[d].at # "idle" => d = c
  BY <1>1, OneAtATime DEF WireInv
<1>4. step[s] \in {5, 6, 7} /\ (s = "initiator" => step[s] # 5)
  BY <1>2, Homes, PeersOf DEF Callers, Ready, Closed, Finalize
<1>5. ASSUME NEW at \in {"ok", "error"}, ~open, calls' = [calls EXCEPT ![c] = [at |-> at, toSend |-> <<>>]],
             UNCHANGED <<stream, written>>
      PROVE  WireInv'
  <2> DEFINE r == [at |-> at, toSend |-> <<>>]
             k == tx[s]
  <2>1. calls' = [calls EXCEPT ![c] = r] /\ UNCHANGED <<stream, written>>
    BY <1>5
  <2>2. r \in [at : Place, toSend : Seq(Key)] /\ k \in Key /\ tx' = [tx EXCEPT ![HomeOf(c)] = k]
    BY <1>1 DEF Place, WireInv, SessionTyped
  <2>3. calls'[c] = r /\ r.at \in {"ok", "error"}
    BY <2>1 DEF WireInv, SessionTyped
  <2> HIDE DEF r, k
  <2>4. Sized(c)' /\ ~Intact(s)
    BY <1>5, <2>3 DEF Sized, Intact
  <2> QED BY <1>1, <1>2, <1>3, <1>5, <2>1, <2>2, <2>4, CallStep
<1>6. ASSUME open, calls' = [calls EXCEPT ![c] = [at |-> "ok", toSend |-> <<>>]],
             written' = [written EXCEPT ![s] = Append(@, c)],
             stream' = [stream EXCEPT ![s] = Append(@, calls[c].toSend \o <<c>>)]
      PROVE  WireInv'
  <2> DEFINE n == Len(written[s])
             m == Len(stream[s])
             r == [at |-> "ok", toSend |-> <<>>]
             e == <<calls[c].toSend[1], calls[c].toSend[2], c>>
  <2>0. n \in Nat /\ m \in Nat
    BY <1>1
  <2>1. /\ calls' = [calls EXCEPT ![c] = r] /\ written' = [written EXCEPT ![s] = Append(@, c)]
        /\ stream' = [stream EXCEPT ![s] = Append(@, calls[c].toSend \o <<c>>)]
    BY <1>6
  <2>2. Intact(s) => /\ tx[s] = Keyed(n + 1, 2 * n + 2)
                     /\ calls[c].toSend = <<Keyed(n, 2 * n), Keyed(n, 2 * n + 1)>>
    BY <1>1, <1>6 DEF WireInv, Ciphers, Encrypting
  <2>3. e \in Item /\ calls[c].toSend \o <<c>> = e /\ e[3] = c /\ (Intact(s) => e = Command(n + 1, c))
    <3> DEFINE q == calls[c].toSend
               v == <<q[1], q[2]>>
    <3>1. q \in Seq(Key) /\ Len(q) = 2
      BY <1>1 DEF WireInv, SessionTyped, Sized
    <3>2. q[1] \in Key /\ q[2] \in Key
      BY <3>1
    <3> HIDE DEF q
    <3>3. v \in Seq(Key) /\ Len(v) = 2 /\ v[1] = q[1] /\ v[2] = q[2]
      BY <3>2
    <3> HIDE DEF v
    <3>4. q = v
      <4>1. \A i \in 1..Len(q) : q[i] = v[i]
        BY <3>1, <3>3
      <4> QED BY <3>1, <3>3, <4>1, SeqEqual
    <3>5. <<q[1], q[2]>> \o <<c>> = <<q[1], q[2], c>>
      BY Items
    <3>6. q \o <<c>> = <<q[1], q[2], c>>
      BY <3>4, <3>5 DEF v
    <3>7. <<q[1], q[2], c>> \in Item
      BY <3>2 DEF Item
    <3>8. Intact(s) => <<q[1], q[2], c>> = Command(n + 1, c)
      <4>1. SUFFICES ASSUME Intact(s) PROVE <<q[1], q[2], c>> = Command(n + 1, c)
        OBVIOUS
      <4>2. q[1] = Keyed(n, 2 * n) /\ q[2] = Keyed(n, 2 * n + 1)
        BY <2>2, <4>1 DEF q
      <4>3. (n + 1) - 1 = n /\ 2 * (n + 1) - 2 = 2 * n /\ 2 * (n + 1) - 1 = 2 * n + 1
        BY <2>0
      <4> QED BY <4>2, <4>3 DEF Command
    <3> QED BY <3>6, <3>7, <3>8 DEF q
  <2> HIDE DEF e, r
  <2>4. /\ stream'[s] = Append(stream[s], e) /\ written'[s] = Append(written[s], c) /\ calls'[c] = r
        /\ \A p \in Sides : p # s => stream'[p] = stream[p] /\ written'[p] = written[p]
        /\ \A d \in Callers : d # c => calls'[d] = calls[d]
    BY <1>1, <2>1, <2>3 DEF WireInv, SessionTyped
  <2>5. /\ Len(stream'[s]) = m + 1 /\ Len(written'[s]) = n + 1
        /\ stream'[s][m + 1] = e /\ written'[s][n + 1] = c
        /\ \A j \in 1..m : stream'[s][j] = stream[s][j]
        /\ \A j \in 1..n : written'[s][j] = written[s][j]
        /\ stream'[s] \in Seq(Item) /\ written'[s] \in Seq(Callers)
    BY <1>1, <2>3, <2>4, Appends
  <2>6. SessionTyped' /\ r.at = "ok"
    <3>1. r \in [at : Place, toSend : Seq(Key)] /\ r.at = "ok"
      BY DEF r, Place
    <3> QED BY <1>1, <2>1, <2>3, <2>4, <2>5, <3>1 DEF WireInv, SessionTyped
  <2>7. OneCall' /\ Ended' /\ \A d \in Callers : Sized(d)'
    <3>1. OneCall' /\ Ended'
      BY <1>1, <1>2, <2>4, Homes, PeersOf DEF WireInv, OneCall, Ended
    <3>2. \A d \in Callers : Sized(d)'
      BY <2>4, <2>6 DEF WireInv, Sized
    <3> QED BY <3>1, <3>2
  <2>12. Closings'
    <3>1. \A p \in Sides : Len(written'[p]) \in Nat /\ Len(written[p]) \in Nat /\ Len(written[p]) <= Len(written'[p])
      <4>1. \A p \in Sides : Len(written[p]) \in Nat
        BY DEF WireInv, SessionTyped
      <4>2. Len(written'[s]) \in Nat /\ Len(written[s]) <= Len(written'[s])
        BY <2>0, <2>5
      <4> HIDE DEF s, n, m
      <4> QED BY <2>4, <4>1, <4>2
    <3>2. \A p \in Sides : closing[p].sent \in Nat
      BY DEF WireInv, SessionTyped
    <3> QED BY <1>1, <3>1, <3>2 DEF WireInv, Closings
  <2>13. \A p \in Sides : Receiving(p)' /\ Excused(p)'
    <3>1. \A p \in Sides : stream[p] # <<>> => stream'[p] # <<>>
      <4>1. stream'[s] # <<>>
        BY <2>0, <2>5
      <4> QED BY <2>4, <4>1
    <3> QED BY <1>1, <3>1, PeersOf DEF WireInv, Receiving, Excused
  <2> HIDE DEF s, n, m
  <2>8. InStep' /\ Before' /\ Pending(s)' = Pending(s)
    <3>1. CASE s = "initiator"
      <4>1. /\ step["initiator"] \in {6, 7} /\ step["responder"] \in {0, 5, 6, 7}
            /\ step' = step /\ read' = read /\ written'["responder"] = written["responder"]
            /\ stream'["responder"] = stream["responder"]
        BY <1>1, <1>4, <2>4, <3>1, PeersOf DEF WireInv, InStep
      <4>2. InStep'
        BY <4>1 DEF InStep
      <4>3. Before'
        BY <4>1 DEF WireInv, Before, Messages
      <4> QED BY <3>1, <4>1, <4>2, <4>3, PeersOf DEF Pending, Messages
    <3>2. CASE s = "responder"
      <4>1. /\ step["responder"] \in {5, 6, 7} /\ step["initiator"] \in {0, 4, 5, 6, 7}
            /\ step' = step /\ read' = read /\ written'["initiator"] = written["initiator"]
            /\ stream'["initiator"] = stream["initiator"] /\ Len(stream["responder"]) = m
            /\ Len(stream'["responder"]) = m + 1
        BY <1>1, <1>4, <2>4, <2>5, <3>2, PeersOf DEF WireInv, InStep, m
      <4>2. step["initiator"] = 4 => m > 0 /\ Len(stream["initiator"]) = 0
        BY <4>1 DEF WireInv, InStep
      <4>3. InStep'
        BY <2>0, <4>1, <4>2 DEF InStep
      <4>4. Before'
        BY <2>0, <4>1 DEF WireInv, Before, Messages
      <4> QED BY <2>0, <3>2, <4>1, <4>2, <4>3, <4>4, PeersOf DEF Pending, Messages
    <3> QED BY <1>1, <3>1, <3>2, PeersOf
  <2>9. Ciphers'
    <3>1. ASSUME NEW d \in Callers, Intact(HomeOf(d))' PROVE Encrypting(d)'
      <4>1. CASE d = c
        BY <2>4, <2>6, <4>1 DEF Encrypting
      <4>2. CASE d # c /\ HomeOf(d) = s
        <5>1. calls'[d].at = "idle"
          BY <1>3, <2>4, <4>2 DEF s
        <5> QED BY <5>1 DEF Encrypting
      <4>3. CASE HomeOf(d) # s
        <5>0. Intact(HomeOf(d)) /\ HomeOf(d)' = HomeOf(d) /\ d # c
          BY <1>1, <3>1, <4>3 DEF Intact, HomeOf, s
        <5>1. calls'[d] = calls[d] /\ written'[HomeOf(d)] = written[HomeOf(d)] /\ tx' = tx /\ Encrypting(d)
          BY <1>1, <2>4, <4>3, <5>0, Homes DEF WireInv, Ciphers
        <5> QED BY <5>1 DEF Encrypting, HomeOf, Keyed
      <4> QED BY <4>1, <4>2, <4>3
    <3>2. ASSUME NEW p \in Sides, Intact(p)' PROVE Rested(p)'
      <4>0. Intact(p)
        BY <1>1, <3>2 DEF Intact
      <4>1. CASE p = s
        <5>1. tx'[s] = Keyed(n + 1, 2 * (n + 1)) /\ Len(written'[s]) = n + 1
          <6>1. 2 * (n + 1) = 2 * n + 2
            BY <2>0
          <6> QED BY <1>1, <2>2, <2>5, <4>0, <4>1, <6>1
        <5> QED BY <4>1, <5>1 DEF Rested, Keyed
      <4>2. CASE p # s
        <5>1. \A d \in Callers : HomeOf(d) = p => calls'[d] = calls[d]
          BY <2>4, <4>2 DEF s
        <5>2. tx' = tx /\ written'[p] = written[p] /\ Rested(p)
          BY <1>1, <2>4, <4>0, <4>2 DEF WireInv, Ciphers
        <5> QED BY <5>1, <5>2 DEF Rested, Quiet, HomeOf, Keyed
      <4> QED BY <4>1, <4>2
    <3> QED BY <3>1, <3>2 DEF Ciphers
  <2>10. ASSUME NEW p \in Sides PROVE Received(p)'
    <3> DEFINE l == Len(read[p])
    <3>1. /\ closing[p].at \in {"no", "rx"} => Decrypting(p)
          /\ l <= Len(written[Peer(p)])
          /\ \A j \in 1..l : read[p][j] = written[Peer(p)][j]
      BY DEF WireInv, Received
    <3>2. l \in Nat /\ Peer(p) \in Sides /\ rx' = rx /\ read' = read /\ closing' = closing /\ recv' = recv
      BY <1>1, PeersOf DEF WireInv, SessionTyped
    <3> HIDE DEF l
    <3>3. l <= Len(written'[Peer(p)]) /\ \A j \in 1..l : read[p][j] = written'[Peer(p)][j]
      <4>1. CASE Peer(p) = s
        <5>1. l <= n
          BY <3>1, <4>1 DEF n
        <5>2. \A j \in 1..l : j \in 1..n
          BY <2>0, <3>2, <5>1
        <5>3. l <= n + 1
          BY <2>0, <3>2, <5>1
        <5> QED BY <2>5, <3>1, <4>1, <5>2, <5>3
      <4>2. CASE Peer(p) # s
        BY <2>4, <3>1, <3>2, <4>2
      <4> QED BY <4>1, <4>2
    <3> QED BY <3>1, <3>2, <3>3 DEF Received, Decrypting, Keyed, l
  <2>11. ASSUME NEW p \in Sides PROVE OnTheWay(p)'
    <3>1. CASE p # s
      <4>1. written'[p] = written[p] /\ stream'[p] = stream[p] /\ step' = step /\ read' = read
        BY <1>1, <2>4, <3>1
      <4>2. OnTheWay(p) /\ Pending(p)' = Pending(p) /\ \A i : Clean(p, i)' = Clean(p, i)
        BY <1>1, <4>1 DEF WireInv, Pending, Clean
      <4> QED BY <4>1, <4>2, SameWay
    <3>2. CASE p = s /\ step[Peer(s)] # Failed
      <4> DEFINE l == Len(read[Peer(s)])
                 h == Pending(s)
      <4>1. n + h = l + m /\ \A j \in 1..m, i \in 1..n : i + h = l + j => Sent(stream[s][j], i, written[s][i], Clean(s, i))
        BY <1>1, <3>2 DEF WireInv, OnTheWay, n, m
      <4>0. l \in Nat /\ h \in Nat
        BY <1>1, PeersOf DEF WireInv, SessionTyped, Pending
      <4>2. l = Len(read'[Peer(s)]) /\ h = Pending(s)'
        BY <1>1, <2>8, PeersOf DEF WireInv, SessionTyped, Pending
      <4> HIDE DEF l, h
      <4>3. ASSUME NEW j \in 1..(m + 1), NEW i \in 1..(n + 1), i + h = l + j
            PROVE  Sent(stream'[s][j], i, written'[s][i], Clean(s, i))
        <5>1. CASE j \in 1..m
          <6>1. i \in 1..n
            BY <2>0, <4>1, <4>0, <4>3, <5>1
          <6> QED BY <2>5, <4>1, <4>3, <5>1, <6>1
        <5>2. CASE j = m + 1
          <6>1. i = n + 1
            <7>1. n + h = l + m
              BY <4>1
            <7> QED BY <7>1, <2>0, <4>0, <4>3, <5>2
          <6>2. stream'[s][j] = e /\ written'[s][i] = c
            BY <2>5, <5>2, <6>1
          <6>3. Clean(s, i) => Intact(s)
            <7>1. closing[s].at # "no" => closing[s].sent <= n /\ closing[s].sent \in Nat
              BY <1>1 DEF WireInv, SessionTyped, Closings, n
            <7> QED BY <1>6, <2>0, <6>1, <7>1 DEF Clean, Intact
          <6> QED BY <2>3, <6>1, <6>2, <6>3 DEF Sent
        <5> QED BY <2>0, <5>1, <5>2
      <4>4. (n + 1) + h = l + (m + 1)
        <5>1. n + h = l + m
          BY <4>1
        <5> QED BY <5>1, <2>0, <4>0
      <4>6. \A i : Clean(s, i)' = Clean(s, i)
        BY <1>1 DEF Clean
      <4>5. /\ Len(written'[s]) + Pending(s)' = Len(read'[Peer(s)]) + Len(stream'[s])
            /\ \A j \in 1..Len(stream'[s]), i \in 1..Len(written'[s]) :
                  i + Pending(s)' = Len(read'[Peer(s)]) + j => Sent(stream'[s][j], i, written'[s][i], Clean(s, i)')
        BY <2>5, <4>2, <4>3, <4>4, <4>6
      <4> QED BY <3>2, <4>5 DEF OnTheWay, Sent, Command, Keyed
    <3>3. CASE p = s /\ step[Peer(s)] = Failed
      BY <1>1, <3>3 DEF OnTheWay
    <3> QED BY <3>1, <3>2, <3>3
  <2> QED BY <2>6, <2>7, <2>8, <2>9, <2>10, <2>11, <2>12, <2>13 DEF WireInv
<1> QED BY <1>5, <1>6 DEF Write, s

(* The steps that end a session, or one side's part of it, and write and read nothing. *)
Leaves(s, n) ==
    /\ step' = [step EXCEPT ![s] = n]
    /\ \/ n = step[s]
       \/ /\ step[s] \in {5, 6} /\ n \in {0, 6, 7}
          /\ n = 0 => step[s] = 5
          /\ n = 6 => step[s] = 5 /\ s = "responder"
    /\ \A p \in Sides, i \in Nat : Clean(p, i)' /\ i <= Len(written[p]) => Clean(p, i)
    /\ UNCHANGED <<stream, written, read>>

LEMMA StepEnds ==
    ASSUME WireInv, NEW s \in Sides, NEW n, Leaves(s, n)
    PROVE  /\ InStep' /\ Before' /\ step' \in [Sides -> 0..7] /\ step'[s] = n
           /\ \A p \in Sides : p # s => step'[p] = step[p]
           /\ \A p \in Sides : OnTheWay(p)'
<1>0. step \in [Sides -> 0..7] /\ n \in 0..7
  BY DEF WireInv, SessionTyped, Leaves
<1>1. /\ step'[s] = n /\ \A p \in Sides : p # s => step'[p] = step[p]
      /\ step' \in [Sides -> 0..7]
  BY <1>0 DEF Leaves
<1>2. InStep' /\ Before'
  <2>0. CASE n = step[s]
    <3>1. step' = step
      BY <1>0, <1>1, <2>0
    <3> QED BY <3>1 DEF WireInv, InStep, Before, Leaves
  <2>1. CASE n # step[s] /\ s = "initiator"
    BY <1>1, <2>1, PeersOf DEF WireInv, InStep, Before, Messages, Leaves
  <2>2. CASE n # step[s] /\ s = "responder"
    BY <1>1, <2>2, PeersOf DEF WireInv, InStep, Before, Messages, Leaves
  <2> QED BY <2>0, <2>1, <2>2, PeersOf
<1>4. ASSUME NEW p \in Sides PROVE OnTheWay(p)'
  <2>1. OnTheWay(p) /\ UNCHANGED <<stream, written, read>>
    BY DEF WireInv, Leaves
  <2>2. step'[Peer(p)] # Failed => step[Peer(p)] # Failed
    BY <1>0, <1>1, PeersOf DEF Failed, Leaves
  <2>3. Pending(p)' = Pending(p)
    BY <1>1, <2>1, PeersOf DEF Pending, Messages, Leaves
  <2>4. \A i \in 1..Len(written[p]) : Clean(p, i)' => Clean(p, i)
    <3>1. Len(written[p]) \in Nat
      BY DEF WireInv, SessionTyped
    <3> QED BY <3>1 DEF Leaves
  <2> QED BY <2>1, <2>2, <2>3, <2>4, SameWay
<1> QED BY <1>1, <1>2, <1>4

(* A call of RecvCommand that fails: the other goroutines and the streams stay as they are. *)
LEMMA StopsStep ==
    ASSUME SessionAssumption, WireInv, NEW s \in Sides, Stops(s), recv[s] \in {"header", "body"},
           garbled' = garbled \/ (garbled' = garbled \cup {s} /\ Excused(s)'),
           UNCHANGED <<tx, rx, stream, calls, closing, written, read>>
    PROVE  WireInv'
<1> DEFINE n == IF step[s] = Finalize THEN Failed ELSE step[s]
<1>1. /\ step' = [step EXCEPT ![s] = n] /\ recv' = [recv EXCEPT ![s] = "stopped"]
      /\ open' = (open /\ step[s] # Finalize)
      /\ step[s] \in {5, 6, 7} /\ (step[s] = 5 => s = "initiator" /\ n = 0) /\ (step[s] # 5 => n = step[s])
  BY DEF Stops, WireInv, Receiving, Ready, Finalize, Closed, Failed
<1> HIDE DEF n
<1>2. /\ InStep' /\ Before' /\ step' \in [Sides -> 0..7] /\ step'[s] = n
      /\ \A p \in Sides : p # s => step'[p] = step[p]
      /\ \A p \in Sides : OnTheWay(p)'
  <2>1. Leaves(s, n)
    BY <1>1 DEF Leaves, Clean
  <2> QED BY <2>1, StepEnds
<1>3. recv'[s] = "stopped" /\ \A p \in Sides : p # s => recv'[p] = recv[p]
  BY <1>1 DEF WireInv, SessionTyped
<1>4. step[s] = 5 => closing[s].at = "no"
  <2>1. closing[s].at \in {"no", "rx", "conn", "state", "done"}
    BY DEF WireInv, SessionTyped
  <2> QED BY <2>1 DEF WireInv, Closings, Ready, Closed
<1>5. OneCall' /\ Closings'
  <2>1. Closings'
    BY <1>1, <1>2, <1>4 DEF WireInv, Closings
  <2>2. OneCall'
    BY <1>1, <1>2, Homes, PeersOf DEF WireInv, OneCall, Ready, Closed, Finalize
  <2> QED BY <2>1, <2>2
<1>6. Ended'
  <2>1. CASE step[s] = 5
    BY <1>1, <1>2, <2>1 DEF Ended, Failed
  <2>2. CASE step[s] # 5
    <3>1. open' = open /\ step' = step
      BY <1>1, <2>2 DEF WireInv, SessionTyped, Finalize
    <3> QED BY <3>1 DEF WireInv, Ended
  <2> QED BY <2>1, <2>2
<1>7. Ciphers'
  BY <1>1, SameCiphers, Homes DEF WireInv
<1>8. ASSUME NEW p \in Sides PROVE Received(p)' /\ Receiving(p)' /\ Excused(p)'
  <2>1. Received(p)'
    BY <1>3 DEF WireInv, Received, Decrypting, Keyed
  <2>2. Receiving(p)'
    BY <1>2, <1>3 DEF WireInv, Receiving
  <2>3. Excused(p)'
    BY DEF WireInv, Excused
  <2> QED BY <2>1, <2>2, <2>3
<1>9. SessionTyped' /\ \A c \in Callers : Sized(c)'
  BY <1>1, <1>2 DEF WireInv, SessionTyped, Sized
<1> QED BY <1>2, <1>5, <1>6, <1>7, <1>8, <1>9 DEF WireInv

LEMMA EndOfStreamStep ==
    ASSUME SessionAssumption, WireInv, NEW s \in Sides, EndOfStream(s)
    PROVE  WireInv'
BY StopsStep DEF EndOfStream

(* Close: a step of it leaves what others have written and read, and only the first of them
   gives the peer a reason to refuse what comes. *)
LEMMA ClosingStep ==
    ASSUME SessionAssumption, WireInv, NEW s \in Sides, NEW e, NEW n, Leaves(s, n),
           e \in [at : {"rx", "conn", "state", "done"}, sent : Nat], closing' = [closing EXCEPT ![s] = e],
           e.sent <= Len(written[s]), closing[s].at # "no" => e.sent = closing[s].sent,
           step[s] = 6, IF e.at = "done" THEN n = 7 ELSE n = 6,
           rx' = rx \/ (rx' = [rx EXCEPT ![s] = Rekeyed(@)] /\ e.at = "conn"),
           tx' = tx \/ tx' = [tx EXCEPT ![s] = Rekeyed(@)],
           e.at = "rx" => closing[s].at = "no" /\ rx' = rx, e.at # "rx" => closing[s].at # "no",
           closing[s].at \notin {"no", "rx"} => e.at # "conn",
           open' => open, open' \in BOOLEAN,
           UNCHANGED <<calls, recv, garbled>>
    PROVE  WireInv'
<1>1. /\ InStep' /\ Before' /\ step' \in [Sides -> 0..7] /\ step'[s] = n
      /\ \A p \in Sides : p # s => step'[p] = step[p]
      /\ \A p \in Sides : OnTheWay(p)'
  BY StepEnds
<1>2. closing'[s] = e /\ (\A p \in Sides : p # s => closing'[p] = closing[p]) /\ UNCHANGED <<stream, written, read>>
  BY DEF WireInv, SessionTyped, Leaves
<1>3. \A k \in Key : Rekeyed(k) \in Key
  <2> SUFFICES ASSUME NEW k \in Key PROVE Rekeyed(k) \in Key
    OBVIOUS
  <2>1. k.key \in Nat /\ k.nonce \in Nat /\ k = [key |-> k.key, nonce |-> k.nonce]
    BY DEF Key
  <2>2. Rekeyed(k) = [key |-> k.key + 1, nonce |-> k.nonce]
    BY <2>1 DEF Rekeyed
  <2> QED BY <2>1, <2>2 DEF Key
<1>4. SessionTyped'
  <2>1. tx' \in [Sides -> Key] /\ rx' \in [Sides -> Key]
    <3>1. tx \in [Sides -> Key] /\ rx \in [Sides -> Key]
      BY DEF WireInv, SessionTyped
    <3>2. Rekeyed(tx[s]) \in Key /\ Rekeyed(rx[s]) \in Key
      BY <1>3, <3>1
    <3> QED BY <3>1, <3>2
  <2>2. closing' \in [Sides -> [at : {"no", "rx", "conn", "state", "done"}, sent : Nat]]
    BY <1>2 DEF WireInv, SessionTyped
  <2> QED BY <1>1, <1>2, <2>1, <2>2 DEF WireInv, SessionTyped
<1>5. OneCall' /\ Closings' /\ Ended'
  <2>1. OneCall'
    BY <1>1, Homes, PeersOf DEF WireInv, OneCall, Ready, Closed, Finalize
  <2>2. Closings'
    BY <1>1, <1>2 DEF WireInv, Closings, Ready, Closed
  <2>3. Ended'
    BY <1>2 DEF Ended
  <2> QED BY <2>1, <2>2, <2>3
<1>6. Ciphers'
  <2>1. ~Intact(s)' /\ \A p \in Sides : p # s => (Intact(p)' => Intact(p)) /\ tx'[p] = tx[p]
    BY <1>2 DEF Intact, WireInv, SessionTyped
  <2>2. ASSUME NEW c \in Callers, Intact(HomeOf(c))' PROVE Encrypting(c)'
    <3>1. HomeOf(c)' = HomeOf(c) /\ HomeOf(c) \in Sides
      BY Homes DEF HomeOf
    <3>2. HomeOf(c) # s /\ Intact(HomeOf(c)) /\ tx'[HomeOf(c)] = tx[HomeOf(c)]
      BY <2>1, <2>2, <3>1 DEF Intact
    <3>3. Encrypting(c)
      BY <3>2 DEF WireInv, Ciphers
    <3> QED BY <1>2, <3>1, <3>2, <3>3 DEF Encrypting, Keyed
  <2>3. ASSUME NEW p \in Sides, Intact(p)' PROVE Rested(p)'
    <3>1. p # s /\ Intact(p) /\ tx'[p] = tx[p]
      BY <2>1, <2>3
    <3>2. Rested(p)
      BY <3>1 DEF WireInv, Ciphers
    <3> QED BY <1>2, <3>1, <3>2 DEF Rested, Quiet, HomeOf, Keyed
  <2> QED BY <2>2, <2>3 DEF Ciphers
<1>7. ASSUME NEW p \in Sides PROVE Received(p)' /\ Receiving(p)' /\ Excused(p)'
  <2>1. Received(p)'
    <3>1. closing'[p].at \in {"no", "rx"} => closing[p].at \in {"no", "rx"} /\ rx'[p] = rx[p]
      BY <1>2 DEF WireInv, SessionTyped
    <3>2. Decrypting(p) /\ rx'[p] = rx[p] => Decrypting(p)'
      BY <1>2 DEF Decrypting, Keyed
    <3> QED BY <1>2, <3>1, <3>2 DEF WireInv, Received
  <2>2. Receiving(p)'
    BY <1>1, <1>2 DEF WireInv, Receiving, Ready, Closed, Finalize
  <2>3. Excused(p)'
    <3>1. closing[p].at \notin {"no", "rx"} => closing'[p].at \notin {"no", "rx"}
      BY <1>2
    <3>2. closing[Peer(p)].at # "no" => closing'[Peer(p)].at # "no" /\ closing'[Peer(p)].sent = closing[Peer(p)].sent
      BY <1>2, PeersOf
    <3> QED BY <1>2, <3>1, <3>2 DEF WireInv, Excused
  <2> QED BY <2>1, <2>2, <2>3
<1>8. \A c \in Callers : Sized(c)'
  BY DEF WireInv, Sized
<1> QED BY <1>1, <1>4, <1>5, <1>6, <1>7, <1>8 DEF WireInv

LEMMA CloseStep ==
    ASSUME SessionAssumption, WireInv, NEW s \in Sides, Close(s)
    PROVE  WireInv'
<1> DEFINE e == closing'[s]
           n == IF closing'[s].at = "done" THEN 7 ELSE 6
<1>0. /\ closing[s] \in [at : {"no", "rx", "conn", "state", "done"}, sent : Nat] /\ Len(written[s]) \in Nat
      /\ closing[s].at # "no" => closing[s].sent <= Len(written[s])
      /\ open \in BOOLEAN /\ step \in [Sides -> 0..7]
  BY DEF WireInv, SessionTyped, Closings
<1>1. CASE CloseTx(s)
  <2>1. /\ e = [at |-> "rx", sent |-> Len(written[s])] /\ closing[s].at = "no" /\ step[s] = 6
        /\ closing' = [closing EXCEPT ![s] = e] /\ tx' = [tx EXCEPT ![s] = Rekeyed(@)]
        /\ UNCHANGED <<step, rx, stream, open, calls, recv, written, read, garbled>>
    BY <1>1 DEF CloseTx, WireInv, SessionTyped, Ready
  <2>2. Leaves(s, 6)
    <3>1. \A p \in Sides, i \in Nat : Clean(p, i)' /\ i <= Len(written[p]) => Clean(p, i)
      BY <2>1 DEF Clean, WireInv, SessionTyped
    <3> QED BY <1>0, <2>1, <3>1 DEF Leaves
  <2>3. e \in [at : {"rx", "conn", "state", "done"}, sent : Nat] /\ e.at = "rx" /\ e.sent = Len(written[s])
    BY <1>0, <2>1
  <2> HIDE DEF e
  <2>4. /\ e.sent <= Len(written[s]) /\ (closing[s].at # "no" => e.sent = closing[s].sent)
        /\ IF e.at = "done" THEN 6 = 7 ELSE 6 = 6
        /\ e.at = "rx" => closing[s].at = "no" /\ rx' = rx
        /\ e.at # "rx" => closing[s].at # "no"
        /\ closing[s].at \notin {"no", "rx"} => e.at # "conn"
        /\ (open' => open) /\ open' \in BOOLEAN
    BY <1>0, <2>1, <2>3
  <2> QED BY <2>1, <2>2, <2>3, <2>4, ClosingStep
<1>2. CASE CloseRx(s) \/ CloseConn(s) \/ CloseState(s)
  <2>1. /\ closing[s].at \in {"rx", "conn", "state"} /\ step[s] = 6 /\ e = [closing[s] EXCEPT !.at = e.at]
        /\ closing' = [closing EXCEPT ![s] = e] /\ UNCHANGED <<tx, stream, calls, recv, written, read, garbled>>
    <3>1. /\ closing[s].at \in {"rx", "conn", "state"}
          /\ \E next : closing' = [closing EXCEPT ![s].at = next]
          /\ UNCHANGED <<tx, stream, calls, recv, written, read, garbled>>
      BY <1>2 DEF CloseRx, CloseConn, CloseState, Closes
    <3>2. PICK next : closing' = [closing EXCEPT ![s].at = next]
      BY <3>1
    <3>3. closing'[s] = [closing[s] EXCEPT !.at = next]
      BY <3>2 DEF WireInv, SessionTyped
    <3>4. step[s] = 6
      BY <3>1 DEF WireInv, Closings, Ready
    <3>5. closing'[s].at = next /\ closing' = [closing EXCEPT ![s] = closing'[s]]
      BY <1>0, <3>2, <3>3 DEF WireInv, SessionTyped
    <3> QED BY <3>1, <3>3, <3>4, <3>5
  <2>2. /\ e.at \in {"conn", "state", "done"} /\ (e.at = "conn" => closing[s].at = "rx")
        /\ rx' = rx \/ (rx' = [rx EXCEPT ![s] = Rekeyed(@)] /\ e.at = "conn")
        /\ step' = [step EXCEPT ![s] = n] /\ open' \in BOOLEAN /\ (open' => open)
    <3>1. CASE CloseRx(s)
      BY <1>0, <2>1, <3>1 DEF CloseRx, Closes, WireInv, SessionTyped
    <3>2. CASE CloseConn(s)
      <4>1. closing[s].at = "conn" /\ closing' = [closing EXCEPT ![s].at = "state"] /\ open' = FALSE
            /\ UNCHANGED <<step, rx>>
        BY <3>2 DEF CloseConn, Closes
      <4>2. e.at = "state"
        BY <1>0, <4>1 DEF WireInv, SessionTyped
      <4> QED BY <1>0, <2>1, <4>1, <4>2
    <3>3. CASE CloseState(s)
      BY <1>0, <2>1, <3>3 DEF CloseState, Closes, WireInv, SessionTyped, Closed
    <3> QED BY <1>2, <3>1, <3>2, <3>3
  <2>3. e \in [at : {"rx", "conn", "state", "done"}, sent : Nat] /\ e.sent = closing[s].sent
    BY <1>0, <2>1, <2>2
  <2>4. n \in {6, 7} /\ (IF e.at = "done" THEN n = 7 ELSE n = 6)
    OBVIOUS
  <2> HIDE DEF e, n
  <2>5. Leaves(s, n)
    <3>1. \A p \in Sides, i \in Nat : Clean(p, i)' /\ i <= Len(written[p]) => Clean(p, i)
      <4>1. \A p \in Sides : p # s => closing'[p] = closing[p]
        BY <2>1 DEF WireInv, SessionTyped
      <4>2. closing'[s] = e
        BY <2>1 DEF WireInv, SessionTyped
      <4> QED BY <2>1, <2>2, <2>3, <4>1, <4>2 DEF Clean
    <3> QED BY <2>1, <2>2, <2>4, <3>1 DEF Leaves
  <2> QED BY <1>0, <2>1, <2>2, <2>3, <2>4, <2>5, ClosingStep
<1> QED BY <1>1, <1>2 DEF Close

LEMMA ReturnStep ==
    ASSUME SessionAssumption, OneSenderEach, WireInv, NEW c \in Callers, Return(c)
    PROVE  WireInv'
<1> DEFINE r == [at |-> "idle", toSend |-> <<>>]
           k == tx[HomeOf(c)]
<1>1. /\ calls[c].at \in {"ok", "error"} /\ calls' = [calls EXCEPT ![c] = r]
      /\ UNCHANGED <<tx, rx, stream, recv, closing, written, read, garbled>>
  BY DEF Return, Idle
<1>2. r \in [at : Place, toSend : Seq(Key)] /\ r.at = "idle" /\ k \in Key /\ tx' = [tx EXCEPT ![HomeOf(c)] = k]
  BY <1>1, Homes DEF Place, WireInv, SessionTyped
<1>3. Intact(HomeOf(c)) => k = Keyed(Len(written[HomeOf(c)]), 2 * Len(written[HomeOf(c)]))
  <2>1. \A d \in Callers : HomeOf(d) = HomeOf(c) => Quiet(d)
    BY <1>1, OneAtATime DEF WireInv, Quiet
  <2> QED BY <2>1, Homes DEF WireInv, Ciphers, Rested
<1>4. calls'[c] = r /\ \A d \in Callers : d # c => calls'[d] = calls[d]
  BY <1>1 DEF WireInv, SessionTyped
<1> HIDE DEF r, k
<1>5. CASE c \in Senders
  <2>1. UNCHANGED <<step, open>>
    BY <1>5, Homes DEF Return
  <2>2. Encrypting(c)' /\ Sized(c)'
    BY <1>2, <1>4 DEF Encrypting, Sized
  <2> QED BY <1>1, <1>2, <1>3, <2>1, <2>2, CallStep
<1>6. CASE c \in Sides
  <2>1. c = "responder" /\ step[c] = 5 /\ HomeOf(c) = c
    BY <1>1, <1>6, Homes, PeersOf DEF WireInv, OneCall, Finalize
  <2> DEFINE n == IF calls[c].at = "error" THEN 0 ELSE 6
  <2>2. step' = [step EXCEPT ![c] = n] /\ n \in {0, 6} /\ (n = 0 => open' = FALSE) /\ (open' => open)
        /\ (n = 6 => open' = open) /\ open' \in BOOLEAN
    <3>1. /\ step' = [step EXCEPT ![c] = IF calls[c].at = "error" THEN Failed ELSE Ready]
          /\ open' = (open /\ ~(calls[c].at = "error"))
      BY <1>6 DEF Return
    <3>2. open \in BOOLEAN
      BY DEF WireInv, SessionTyped
    <3>3. CASE calls[c].at = "error"
      <4>1. n = 0
        BY <3>3
      <4>2. step' = [step EXCEPT ![c] = n]
        BY <3>1, <3>3, <4>1 DEF Failed
      <4>3. open' = FALSE
        BY <3>1, <3>3
      <4>4. n \in {0, 6} /\ n # 6
        BY <4>1
      <4> HIDE DEF n
      <4>5. (n = 0 => open' = FALSE) /\ (open' => open) /\ (n = 6 => open' = open) /\ open' \in BOOLEAN
        BY <4>3, <4>4
      <4> QED BY <4>2, <4>4, <4>5
    <3>4. CASE calls[c].at # "error"
      <4>1. n = 6
        BY <3>4
      <4>2. step' = [step EXCEPT ![c] = n]
        BY <3>1, <3>4, <4>1 DEF Ready
      <4>3. open' = open
        BY <3>1, <3>2, <3>4
      <4> HIDE DEF n
      <4> QED BY <3>2, <4>1, <4>2, <4>3
    <3> QED BY <3>3, <3>4
  <2> HIDE DEF n
  <2>4. /\ InStep' /\ Before' /\ step' \in [Sides -> 0..7] /\ step'[c] = n
        /\ \A p \in Sides : p # c => step'[p] = step[p]
        /\ \A p \in Sides : OnTheWay(p)'
    <3>1. Leaves(c, n)
      BY <1>1, <2>1, <2>2 DEF Leaves, Clean
    <3> QED BY <1>6, <3>1, StepEnds
  <2>9. closing[c].at = "no"
    <3>1. closing[c].at \in {"no", "rx", "conn", "state", "done"}
      BY <1>6 DEF WireInv, SessionTyped
    <3> QED BY <1>6, <2>1, <3>1 DEF WireInv, Closings, Ready, Closed
  <2>10. Closings' /\ \A p \in Sides : Received(p)' /\ Receiving(p)' /\ Excused(p)'
    <3>1. Closings'
      BY <1>1, <1>6, <2>4, <2>9 DEF WireInv, Closings
    <3>2. \A p \in Sides : Received(p)' /\ Excused(p)'
      BY <1>1 DEF WireInv, Received, Decrypting, Excused, Keyed
    <3>3. ASSUME NEW p \in Sides PROVE Receiving(p)'
      <4>1. CASE p # c
        BY <1>1, <2>4, <3>3, <4>1 DEF WireInv, Receiving
      <4>2. CASE p = c
        <5>1. recv[c] \notin {"header", "body", "rekey"}
          BY <1>6, <2>1, PeersOf DEF WireInv, Receiving, Finalize
        <5> QED BY <1>1, <4>2, <5>1 DEF Receiving
      <4> QED BY <4>1, <4>2
    <3> QED BY <3>1, <3>2, <3>3
  <2>5. OneCall'
    <3>1. ASSUME NEW d \in Senders, calls'[d].at # "idle" PROVE step'[Home[d]] \in {Ready, Closed}
      <4>1. d \in Callers /\ d # c /\ Home[d] \in Sides
        BY <1>6, Homes
      <4>2. step[Home[d]] \in {Ready, Closed}
        BY <1>4, <3>1, <4>1 DEF WireInv, OneCall
      <4>3. Home[d] # c
        BY <2>1, <4>2 DEF Ready, Closed
      <4> QED BY <2>4, <4>1, <4>2, <4>3
    <3>2. calls'["initiator"].at = "idle" /\ calls'["responder"].at = "idle"
      BY <1>2, <1>4, <2>1, Homes, PeersOf DEF WireInv, OneCall
    <3> QED BY <3>1, <3>2 DEF OneCall
  <2>6. Ended'
    <3>1. CASE n = 0
      BY <1>6, <2>4, <3>1 DEF Ended, Failed
    <3>2. CASE n = 6
      BY <1>1, <2>1, <2>2, <2>4, <3>2, PeersOf DEF WireInv, Ended, Failed
    <3> QED BY <2>2, <3>1, <3>2
  <2>7. Ciphers'
    <3>1. ASSUME NEW d \in Callers, Intact(HomeOf(d))' PROVE Encrypting(d)'
      <4>0. Intact(HomeOf(d)) /\ HomeOf(d)' = HomeOf(d) /\ HomeOf(d) \in Sides
        BY <1>1, <2>2, <3>1, Homes DEF Intact, HomeOf
      <4>1. CASE d = c
        BY <1>2, <1>4, <4>1 DEF Encrypting
      <4>2. CASE d # c
        <5>1. Encrypting(d) /\ calls'[d] = calls[d] /\ UNCHANGED <<tx, written>>
          BY <1>1, <1>4, <4>0, <4>2 DEF WireInv, Ciphers
        <5> QED BY <4>0, <5>1 DEF Encrypting, Keyed
      <4> QED BY <4>1, <4>2
    <3>2. ASSUME NEW s \in Sides, Intact(s)' PROVE Rested(s)'
      <4>0. Intact(s)
        BY <1>1, <2>2, <3>2 DEF Intact
      <4>1. CASE s = HomeOf(c)
        BY <1>1, <1>3, <4>0, <4>1 DEF Rested, Keyed, k
      <4>2. CASE s # HomeOf(c)
        <5>1. \A d \in Callers : HomeOf(d) = s => calls'[d] = calls[d]
          BY <1>4, <4>2
        <5>2. Rested(s) /\ UNCHANGED <<tx, written>>
          BY <1>1, <4>0 DEF WireInv, Ciphers
        <5> QED BY <5>1, <5>2 DEF Rested, Quiet, HomeOf, Keyed
      <4> QED BY <4>1, <4>2
    <3> QED BY <3>1, <3>2 DEF Ciphers
  <2>8. SessionTyped' /\ \A d \in Callers : Sized(d)'
    BY <1>1, <1>2, <1>4, <2>2, <2>4 DEF WireInv, SessionTyped, Sized
  <2> QED BY <2>4, <2>5, <2>6, <2>7, <2>8, <2>10 DEF WireInv
<1> QED BY <1>5, <1>6 DEF Callers

(* What lies before a call of RecvCommand: the command that comes after those the side has read,
   unless Close of the peer had begun when it was written. *)
LEMMA NextCommand ==
    ASSUME WireInv, NEW s \in Sides, recv[s] \in {"header", "body", "rekey"}, stream[Peer(s)] # <<>>
    PROVE  LET p == Peer(s)
               l == Len(read[s])
               m == Len(stream[p])
               w == written[p][l + 1]
           IN
           /\ p \in Sides /\ p # s /\ Peer(p) = s /\ l \in Nat /\ m \in Nat \ {0}
           /\ stream[p] \in Seq(Item) /\ Len(Tail(stream[p])) = m - 1 /\ Tail(stream[p]) \in Seq(Item)
           /\ \A j \in 1..Len(Tail(stream[p])) : Tail(stream[p])[j] = stream[p][j + 1]
           /\ step[s] \in {5, 6, 7} /\ (step[s] = 5 => s = "initiator") /\ Pending(p) = 0
           /\ Len(written[p]) = l + m /\ written[p] \in Seq(Callers) /\ read[s] \in Seq(Callers)
           /\ \A j \in 1..m, n \in 1..(l + m) : n = l + j => Sent(stream[p][j], n, written[p][n], Clean(p, n))
           /\ w \in Callers /\ Head(stream[p])[3] = w
           /\ \/ /\ Head(stream[p])[1] = Keyed(l, 2 * l)
                 /\ Head(stream[p])[2] = Keyed(l, 2 * l + 1)
              \/ closing[p].at # "no" /\ l >= closing[p].sent
<1> DEFINE p == Peer(s)
           l == Len(read[s])
           m == Len(stream[p])
           v == Len(written[p])
           w == written[p][l + 1]
<1>1. /\ p \in Sides /\ p # s /\ Peer(p) = s /\ l \in Nat /\ v \in Nat
      /\ stream[p] \in Seq(Item) /\ stream[p] # <<>>
      /\ written[p] \in Seq(Callers) /\ read[s] \in Seq(Callers)
      /\ step[s] \in {5, 6, 7} /\ (step[s] = 5 => s = "initiator")
  BY PeersOf DEF WireInv, SessionTyped, Receiving, Finalize, Ready, Closed
<1>2. /\ m \in Nat \ {0} /\ Len(Tail(stream[p])) = m - 1 /\ Tail(stream[p]) \in Seq(Item)
      /\ Head(stream[p]) = stream[p][1]
      /\ \A j \in 1..Len(Tail(stream[p])) : Tail(stream[p])[j] = stream[p][j + 1]
  BY <1>1, Tails
<1>3. Pending(p) = 0
  BY <1>1 DEF Pending, Messages
<1>4. /\ v + 0 = l + m
      /\ \A j \in 1..m, n \in 1..v : n + 0 = l + j => Sent(stream[p][j], n, written[p][n], Clean(p, n))
  <2>1. OnTheWay(p) /\ step[s] # Failed
    BY <1>1 DEF WireInv, Failed
  <2> QED BY <1>1, <1>3, <2>1 DEF OnTheWay
<1> HIDE DEF p, l, m, v
<1>5. v = l + m
  BY <1>1, <1>2, <1>4
<1>6. \A j \in 1..m, n \in 1..(l + m) : n = l + j => Sent(stream[p][j], n, written[p][n], Clean(p, n))
  <2>1. \A n \in 1..v : n + 0 = n
    BY <1>1
  <2> QED BY <1>4, <1>5, <2>1
<1>7. Sent(stream[p][1], l + 1, w, Clean(p, l + 1)) /\ l + 1 \in 1..v
  <2>1. 1 \in 1..m /\ l + 1 \in 1..(l + m)
    BY <1>1, <1>2
  <2> QED BY <1>5, <1>6, <2>1
<1>8. w \in Callers /\ Head(stream[p])[3] = w
  BY <1>1, <1>2, <1>7 DEF Sent, v
<1>9. \/ /\ Head(stream[p])[1] = Keyed(l, 2 * l)
         /\ Head(stream[p])[2] = Keyed(l, 2 * l + 1)
      \/ closing[p].at # "no" /\ l >= closing[p].sent
  <2>1. CASE Clean(p, l + 1)
    <3>1. stream[p][1] = Command(l + 1, w)
      BY <1>7, <2>1 DEF Sent
    <3>2. (l + 1) - 1 = l /\ 2 * (l + 1) - 2 = 2 * l /\ 2 * (l + 1) - 1 = 2 * l + 1
      BY <1>1
    <3> QED BY <1>2, <3>1, <3>2 DEF Command
  <2>2. CASE ~Clean(p, l + 1)
    <3>1. closing[p].sent \in Nat
      BY <1>1 DEF WireInv, SessionTyped
    <3> QED BY <1>1, <2>2, <3>1 DEF Clean
  <2> QED BY <2>1, <2>2
<1> HIDE DEF w
<1>10. /\ p \in Sides /\ p # s /\ Peer(p) = s /\ l \in Nat /\ m \in Nat \ {0}
       /\ stream[p] \in Seq(Item) /\ Len(Tail(stream[p])) = m - 1 /\ Tail(stream[p]) \in Seq(Item)
       /\ \A j \in 1..Len(Tail(stream[p])) : Tail(stream[p])[j] = stream[p][j + 1]
       /\ step[s] \in {5, 6, 7} /\ (step[s] = 5 => s = "initiator") /\ Pending(p) = 0
       /\ Len(written[p]) = l + m /\ written[p] \in Seq(Callers) /\ read[s] \in Seq(Callers)
  BY <1>1, <1>2, <1>3, <1>5 DEF v
<1> QED BY <1>6, <1>8, <1>9, <1>10 DEF p, l, m, w

(* A call of RecvCommand starts. *)
LEMMA ReceiveStep ==
    ASSUME SessionAssumption, WireInv, NEW s \in Sides, Receive(s)
    PROVE  WireInv'
<1>1. /\ recv' = [recv EXCEPT ![s] = "header"] /\ recv[s] = "idle"
      /\ step[s] \in {Ready, Finalize} /\ (step[s] = Finalize => s = "initiator")
      /\ UNCHANGED <<step, tx, rx, stream, open, calls, closing, written, read, garbled>>
  BY DEF Receive, Reading, Ready, Finalize
<1>2. recv'[s] = "header" /\ \A p \in Sides : p # s => recv'[p] = recv[p]
  BY <1>1 DEF WireInv, SessionTyped
<1>3. InStep' /\ Before' /\ Closings' /\ Ended' /\ OneCall' /\ \A c \in Callers : Sized(c)'
  BY <1>1 DEF WireInv, InStep, Before, Closings, Ended, OneCall, Sized
<1>4. Ciphers'
  BY <1>1, SameCiphers, Homes DEF WireInv
<1>5. ASSUME NEW p \in Sides PROVE OnTheWay(p)' /\ Received(p)' /\ Receiving(p)' /\ Excused(p)'
  <2>1. OnTheWay(p)'
    <3>1. Pending(p)' = Pending(p) /\ \A n : Clean(p, n)' = Clean(p, n)
      BY <1>1 DEF Pending, Clean
    <3> QED BY <1>1, <3>1, SameWay DEF WireInv
  <2>2. Received(p)'
    <3>1. Decrypting(p) => Decrypting(p)'
      BY <1>1, <1>2 DEF Decrypting, Keyed
    <3> QED BY <1>1, <3>1 DEF WireInv, Received
  <2>3. Receiving(p)' /\ Excused(p)'
    BY <1>1, <1>2 DEF WireInv, Receiving, Excused
  <2> QED BY <2>1, <2>2, <2>3
<1>6. SessionTyped'
  BY <1>1 DEF WireInv, SessionTyped
<1> QED BY <1>3, <1>4, <1>5, <1>6 DEF WireInv

(* A part is what it expects, unless Close has changed a key. *)
LEMMA DecryptStep ==
    ASSUME SessionAssumption, WireInv, NEW s \in Sides, RecvHeader(s) \/ RecvBody(s)
    PROVE  WireInv'
<1> DEFINE p == Peer(s)
           l == Len(read[s])
           n == IF recv[s] = "header" THEN 1 ELSE 2
           next == IF recv[s] = "header" THEN "body" ELSE "rekey"
           ok == Head(stream[p])[n] = rx[s]
<1>1. /\ recv[s] \in {"header", "body"} /\ stream[p] # <<>>
      /\ rx' = IF ok THEN [rx EXCEPT ![s] = Advanced(@)] ELSE rx
      /\ garbled' = IF ok THEN garbled ELSE garbled \cup {s}
      /\ IF ok THEN recv' = [recv EXCEPT ![s] = next] /\ UNCHANGED <<step, state, open>> ELSE Stops(s)
      /\ UNCHANGED <<valid, tx, stream, calls, sends, closing, written, read>>
  BY DEF RecvHeader, RecvBody, Decrypt
<1>2. /\ l \in Nat /\ p \in Sides
      /\ \/ /\ Head(stream[p])[1] = Keyed(l, 2 * l)
            /\ Head(stream[p])[2] = Keyed(l, 2 * l + 1)
         \/ closing[p].at # "no" /\ l >= closing[p].sent
  BY <1>1, NextCommand
<1> HIDE DEF n, next, ok
<1>3. CASE ~ok
  <2>1. closing[s].at \in {"no", "rx"} => closing[p].at # "no" /\ l >= closing[p].sent
    <3>1. SUFFICES ASSUME closing[s].at \in {"no", "rx"},
                          Head(stream[p])[1] = Keyed(l, 2 * l), Head(stream[p])[2] = Keyed(l, 2 * l + 1)
                   PROVE  FALSE
      BY <1>2
    <3>2. Decrypting(s)
      BY <3>1 DEF WireInv, Received
    <3>3. CASE recv[s] = "header"
      <4>1. rx[s] = Keyed(l, 2 * l) /\ n = 1
        BY <3>2, <3>3 DEF Decrypting, n
      <4> QED BY <1>3, <3>1, <4>1 DEF ok
    <3>4. CASE recv[s] = "body"
      <4>1. rx[s] = Keyed(l, 2 * l + 1) /\ n = 2
        BY <3>2, <3>4 DEF Decrypting, n
      <4> QED BY <1>3, <3>1, <4>1 DEF ok
    <3> QED BY <1>1, <3>3, <3>4
  <2>2. Excused(s)'
    BY <1>1, <2>1 DEF Excused
  <2> QED BY <1>1, <1>3, <2>2, StopsStep
<1>4. CASE ok
  <2>1. /\ rx' = [rx EXCEPT ![s] = Advanced(@)] /\ recv' = [recv EXCEPT ![s] = next] /\ garbled' = garbled
        /\ UNCHANGED <<step, tx, stream, open, calls, closing, written, read>>
    BY <1>1, <1>4
  <2>2. rx[s] \in Key /\ Advanced(rx[s]) \in Key
    <3>1. rx[s] \in Key
      BY DEF WireInv, SessionTyped
    <3>2. rx[s].key \in Nat /\ rx[s].nonce \in Nat /\ rx[s] = Keyed(rx[s].key, rx[s].nonce)
      BY <3>1 DEF Key, Keyed
    <3>3. Advanced(rx[s]) = Keyed(rx[s].key, rx[s].nonce + 1)
      BY <3>2 DEF Advanced, Keyed
    <3> QED BY <3>1, <3>2, <3>3 DEF Key, Keyed
  <2>3. /\ rx'[s] = Advanced(rx[s]) /\ recv'[s] = next
        /\ \A q \in Sides : q # s => rx'[q] = rx[q] /\ recv'[q] = recv[q]
    BY <2>1 DEF WireInv, SessionTyped
  <2>4. InStep' /\ Before' /\ Closings' /\ Ended' /\ OneCall' /\ \A c \in Callers : Sized(c)'
    BY <2>1 DEF WireInv, InStep, Before, Closings, Ended, OneCall, Sized
  <2>5. Ciphers'
    BY <2>1, SameCiphers, Homes DEF WireInv
  <2>6. SessionTyped'
    BY <2>1, <2>2 DEF WireInv, SessionTyped, next
  <2>7. ASSUME NEW q \in Sides PROVE OnTheWay(q)' /\ Receiving(q)' /\ Excused(q)'
    <3>1. OnTheWay(q)'
      <4>1. Pending(q)' = Pending(q) /\ \A i : Clean(q, i)' = Clean(q, i)
        BY <2>1 DEF Pending, Clean
      <4> QED BY <2>1, <4>1, SameWay DEF WireInv
    <3>2. Receiving(q)'
      <4>1. CASE q = s
        BY <1>1, <2>1, <2>3, <4>1 DEF WireInv, Receiving
      <4>2. CASE q # s
        BY <2>1, <2>3, <4>2 DEF WireInv, Receiving
      <4> QED BY <4>1, <4>2
    <3>3. Excused(q)'
      BY <2>1 DEF WireInv, Excused
    <3> QED BY <3>1, <3>2, <3>3
  <2>8. ASSUME NEW q \in Sides PROVE Received(q)'
    <3>1. CASE q # s
      BY <2>1, <2>3, <3>1 DEF WireInv, Received, Decrypting, Keyed
    <3>2. CASE q = s
      <4>1. Decrypting(s) => Decrypting(s)'
        <5>1. SUFFICES ASSUME Decrypting(s) PROVE Decrypting(s)'
          OBVIOUS
        <5>2. CASE recv[s] = "header"
          <6>1. rx[s] = Keyed(l, 2 * l) /\ recv'[s] = "body"
            BY <2>3, <5>1, <5>2 DEF Decrypting, next
          <6>2. rx'[s] = Keyed(l, 2 * l + 1)
            BY <2>3, <6>1 DEF Advanced, Keyed
          <6> QED BY <2>1, <6>1, <6>2 DEF Decrypting, Keyed
        <5>3. CASE recv[s] = "body"
          <6>1. rx[s] = Keyed(l, 2 * l + 1) /\ recv'[s] = "rekey"
            BY <2>3, <5>1, <5>3 DEF Decrypting, next
          <6>2. (2 * l + 1) + 1 = 2 * l + 2
            BY <1>2
          <6>3. rx'[s] = Keyed(l, 2 * l + 2)
            BY <2>3, <6>1, <6>2 DEF Advanced, Keyed
          <6> QED BY <2>1, <6>1, <6>3 DEF Decrypting, Keyed
        <5> QED BY <1>1, <5>2, <5>3
      <4> QED BY <2>1, <3>2, <4>1 DEF WireInv, Received
    <3> QED BY <3>1, <3>2
  <2> QED BY <2>4, <2>5, <2>6, <2>7, <2>8 DEF WireInv
<1> QED BY <1>3, <1>4

(* The key changes and the command is read. *)
LEMMA RekeyStep ==
    ASSUME SessionAssumption, WireInv, NEW s \in Sides, RekeyRx(s)
    PROVE  WireInv'
<1> DEFINE p == Peer(s)
           l == Len(read[s])
           m == Len(stream[p])
           w == written[p][l + 1]
           n == step'[s]
           r == recv'[s]
<1>1. /\ recv[s] = "rekey" /\ stream[p] # <<>>
      /\ stream' = [stream EXCEPT ![p] = Tail(@)] /\ rx' = [rx EXCEPT ![s] = Taken(@)]
      /\ UNCHANGED <<tx, calls, closing, written, garbled>>
  BY DEF RekeyRx, WireInv, Receiving
<1>2. /\ p \in Sides /\ p # s /\ Peer(p) = s /\ l \in Nat /\ m \in Nat \ {0}
      /\ stream[p] \in Seq(Item) /\ Len(Tail(stream[p])) = m - 1 /\ Tail(stream[p]) \in Seq(Item)
      /\ \A j \in 1..Len(Tail(stream[p])) : Tail(stream[p])[j] = stream[p][j + 1]
      /\ step[s] \in {5, 6, 7} /\ (step[s] = 5 => s = "initiator") /\ Pending(p) = 0
      /\ Len(written[p]) = l + m /\ written[p] \in Seq(Callers) /\ read[s] \in Seq(Callers)
      /\ \A j \in 1..m, i \in 1..(l + m) : i = l + j => Sent(stream[p][j], i, written[p][i], Clean(p, i))
      /\ w \in Callers /\ Head(stream[p])[3] = w
  BY <1>1, NextCommand
<1>3. stream'[p] = Tail(stream[p]) /\ stream'[s] = stream[s]
  BY <1>1, <1>2 DEF WireInv, SessionTyped
<1> HIDE DEF p, l, m
<1>4. /\ step' = [step EXCEPT ![s] = n] /\ n \in {0, 6, 7} /\ (n = 0 => step[s] = 5)
      /\ (n = 7 => step[s] = 7) /\ (n = 6 => step[s] \in {5, 6}) /\ (step[s] = 7 => n = 7)
      /\ recv' = [recv EXCEPT ![s] = r] /\ r \in {"idle", "stopped"}
      /\ read' = [read EXCEPT ![s] = Append(@, w)]
      /\ open' \in BOOLEAN /\ (open' => open) /\ (n # 0 => open' = open)
  <2> DEFINE refused == step[s] = Finalize /\ w # "responder"
  <2>1. /\ read' = [read EXCEPT ![s] = Append(@, w)]
        /\ IF refused THEN Stops(s)
           ELSE /\ recv' = [recv EXCEPT ![s] = "idle"]
                /\ step' = [step EXCEPT ![s] = IF @ = Finalize THEN Ready ELSE @]
                /\ UNCHANGED <<state, open>>
    BY <1>2 DEF RekeyRx, p
  <2>2. step \in [Sides -> 0..7] /\ open \in BOOLEAN /\ recv \in [Sides -> {"idle", "header", "body", "rekey", "stopped"}]
    BY DEF WireInv, SessionTyped
  <2> HIDE DEF w
  <2>3. CASE refused
    <3>1. /\ recv' = [recv EXCEPT ![s] = "stopped"] /\ step' = [step EXCEPT ![s] = 0] /\ step[s] = 5
          /\ open' = (open /\ step[s] # Finalize)
      BY <2>1, <2>3 DEF Stops, Finalize, Failed
    <3>2. open' = FALSE
      BY <3>1 DEF Finalize
    <3> QED BY <2>1, <2>2, <3>1, <3>2
  <2>4. CASE ~refused
    <3>1. /\ recv' = [recv EXCEPT ![s] = "idle"] /\ open' = open
          /\ step' = [step EXCEPT ![s] = IF step[s] = 5 THEN 6 ELSE step[s]]
      BY <2>1, <2>4 DEF Finalize, Ready
    <3> QED BY <1>2, <2>1, <2>2, <3>1
  <2> QED BY <2>3, <2>4
<1> HIDE DEF n, r, w
<1>5. /\ read'[s] = Append(read[s], w) /\ read'[p] = read[p] /\ step'[p] = step[p] /\ rx'[p] = rx[p]
      /\ step'[s] = n /\ step' \in [Sides -> 0..7] /\ recv'[s] = r /\ recv'[p] = recv[p]
  <2>1. /\ step \in [Sides -> 0..7] /\ read \in [Sides -> Seq(Callers)] /\ rx \in [Sides -> Key]
        /\ recv \in [Sides -> {"idle", "header", "body", "rekey", "stopped"}]
    BY DEF WireInv, SessionTyped
  <2> QED BY <1>1, <1>2, <1>4, <2>1
<1>6. /\ Len(read'[s]) = l + 1 /\ read'[s][l + 1] = w /\ \A j \in 1..l : read'[s][j] = read[s][j]
      /\ read'[s] \in Seq(Callers)
  BY <1>2, <1>5, Appends DEF l
<1>7. rx[s] \in Key /\ Taken(rx[s]) = Keyed(rx[s].key + 1, rx[s].nonce) /\ Taken(rx[s]) \in Key
  <2>1. rx[s] \in Key
    BY DEF WireInv, SessionTyped
  <2>2. rx[s].key \in Nat /\ rx[s].nonce \in Nat /\ rx[s] = Keyed(rx[s].key, rx[s].nonce)
    BY <2>1 DEF Key, Keyed
  <2>3. Taken(rx[s]) = Keyed(rx[s].key + 1, rx[s].nonce)
    BY <2>2 DEF Taken, Rekeyed, Keyed
  <2> QED BY <2>1, <2>2, <2>3 DEF Key, Keyed
<1>8. SessionTyped'
  <2>1. stream' \in [Sides -> Seq(Item)] /\ read' \in [Sides -> Seq(Callers)] /\ rx' \in [Sides -> Key]
    BY <1>1, <1>2, <1>3, <1>4, <1>5, <1>6, <1>7 DEF WireInv, SessionTyped
  <2>2. recv' \in [Sides -> {"idle", "header", "body", "rekey", "stopped"}]
    BY <1>4 DEF WireInv, SessionTyped
  <2> QED BY <1>1, <1>4, <1>5, <2>1, <2>2 DEF WireInv, SessionTyped
<1>9. OneCall' /\ Closings' /\ Ended' /\ Ciphers' /\ \A c \in Callers : Sized(c)'
  <2>1. OneCall'
    <3>0. OneCall
      BY DEF WireInv
    <3>1. CASE s = "initiator"
      <4>1. ASSUME NEW d \in Senders, calls'[d].at # "idle" PROVE step'[Home[d]] \in {Ready, Closed}
        <5>1. step[Home[d]] \in {Ready, Closed} /\ Home[d] \in Sides
          BY <1>1, <3>0, <4>1, Homes DEF OneCall, SessionAssumption
        <5>2. CASE Home[d] = s
          BY <1>4, <1>5, <5>1, <5>2 DEF Ready, Closed
        <5>3. CASE Home[d] # s
          BY <1>5, <5>1, <5>3, <3>1, PeersOf DEF p
        <5> QED BY <5>2, <5>3
      <4>2. step'["responder"] = step["responder"]
        BY <1>5, <3>1, PeersOf DEF p
      <4> QED BY <1>1, <3>0, <4>1, <4>2 DEF OneCall
    <3>2. CASE s = "responder"
      <4>1. step[s] \in {6, 7} /\ n = step[s]
        BY <1>2, <1>4, <3>2
      <4>2. step' = step
        BY <1>4, <4>1 DEF WireInv, SessionTyped
      <4> QED BY <1>1, <3>0, <4>2 DEF OneCall
    <3> QED BY <3>1, <3>2, PeersOf
  <2>2. Closings'
    <3>1. step[s] = 5 => closing[s].at = "no"
      <4>1. closing[s].at \in {"no", "rx", "conn", "state", "done"}
        BY DEF WireInv, SessionTyped
      <4> QED BY <4>1 DEF WireInv, Closings, Ready, Closed
    <3>2. step[s] # 5 => step'[s] = step[s]
      BY <1>2, <1>4, <1>5
    <3>3. \A q \in Sides : q = s \/ step'[q] = step[q]
      BY <1>2, <1>5, PeersOf
    <3> QED BY <1>1, <3>1, <3>2, <3>3 DEF WireInv, Closings
  <2>3. Ended'
    <3>1. CASE n = 0
      BY <1>5, <3>1 DEF Ended, Failed
    <3>2. CASE n # 0
      <4>1. open' = open /\ \A q \in Sides : step[q] = Failed => step'[q] = Failed
        BY <1>2, <1>4, <1>5, <3>2, PeersOf DEF Failed
      <4> QED BY <1>1, <4>1 DEF WireInv, Ended
    <3> QED BY <3>1, <3>2
  <2>4. Ciphers'
    BY <1>1, <1>4, SameCiphers, Homes DEF WireInv
  <2>5. \A c \in Callers : Sized(c)'
    BY <1>1 DEF WireInv, Sized
  <2> QED BY <2>1, <2>2, <2>3, <2>4, <2>5
<1>10. InStep' /\ Before'
  <2>1. CASE s = "initiator"
    <3>1. step["responder"] \in {0, 5, 6, 7} /\ p = "responder"
      BY <1>2, <2>1, PeersOf DEF WireInv, InStep, p
    <3>2. step'["initiator"] \in {0, 6, 7} /\ step'["responder"] = step["responder"] /\ (step'["initiator"] < 6 => step["initiator"] < 6)
      BY <1>4, <1>5, <2>1, <3>1
    <3> QED BY <1>1, <1>2, <1>4, <1>5, <2>1, <3>1, <3>2, PeersOf DEF WireInv, InStep, Before, Messages
  <2>2. CASE s = "responder"
    <3>1. p = "initiator" /\ step["responder"] \in {6, 7} /\ n = step["responder"]
      BY <1>2, <1>4, <2>2, PeersOf DEF p
    <3>2. step["initiator"] \in {0, 5, 6, 7} /\ step'["initiator"] = step["initiator"] /\ read'["initiator"] = read["initiator"]
      BY <1>2, <1>5, <2>2, <3>1 DEF WireInv, InStep, m
    <3>3. step'["responder"] = step["responder"]
      BY <1>5, <2>2, <3>1
    <3> QED BY <1>1, <3>1, <3>2, <3>3 DEF WireInv, InStep, Before, Messages
  <2> QED BY <2>1, <2>2, PeersOf
<1>11. Received(s)' /\ Received(p)'
  <2>1. Received(p)'
    <3>1. Received(p) /\ UNCHANGED <<written, closing>> /\ read'[p] = read[p] /\ rx'[p] = rx[p] /\ recv'[p] = recv[p]
      BY <1>1, <1>2, <1>5 DEF WireInv
    <3> QED BY <3>1 DEF Received, Decrypting, Keyed
  <2>2. \A j \in 1..l : read[s][j] = written[p][j]
    BY DEF WireInv, Received, l, p
  <2>3. \A j \in 1..(l + 1) : read'[s][j] = written'[p][j]
    <3>1. \A j \in 1..(l + 1) : j \in 1..l \/ j = l + 1
      BY <1>2
    <3> QED BY <1>1, <1>6, <2>2, <3>1 DEF w
  <2>4. l + 1 <= Len(written'[p])
    BY <1>1, <1>2
  <2>5. closing'[s].at \in {"no", "rx"} => Decrypting(s)'
    <3>1. SUFFICES ASSUME closing[s].at \in {"no", "rx"} PROVE Decrypting(s)'
      BY <1>1
    <3>2. rx[s] = Keyed(l, 2 * l + 2)
      BY <1>1, <3>1 DEF WireInv, Received, Decrypting, l
    <3>3. 2 * l + 2 = 2 * (l + 1)
      BY <1>2
    <3>4. rx'[s] = Taken(rx[s])
      BY <1>1 DEF WireInv, SessionTyped
    <3>5. rx'[s] = Keyed(l + 1, 2 * (l + 1))
      BY <1>7, <3>2, <3>3, <3>4 DEF Keyed
    <3>6. recv'[s] \in {"idle", "stopped"} /\ Len(read'[s]) = l + 1
      BY <1>4, <1>5, <1>6
    <3> QED BY <3>5, <3>6 DEF Decrypting, Keyed
  <2>6. Len(read'[s]) <= Len(written'[p]) /\ \A j \in 1..Len(read'[s]) : read'[s][j] = written'[p][j]
    BY <1>6, <2>3, <2>4
  <2> QED BY <2>1, <2>5, <2>6 DEF Received, p
<1>12. OnTheWay(s)'
  <2>1. OnTheWay(s) /\ UNCHANGED written /\ stream'[s] = stream[s] /\ step'[p] = step[p] /\ read'[p] = read[p]
    BY <1>1, <1>3, <1>5 DEF WireInv
  <2>2. Pending(s)' = Pending(s) /\ \A i : Clean(s, i)' = Clean(s, i)
    BY <1>1, <2>1 DEF Pending, Clean, p
  <2>3. /\ stream'[s] = stream[s] /\ step'[Peer(s)] = step[Peer(s)] /\ read'[Peer(s)] = read[Peer(s)]
        /\ written' = written
    BY <2>1 DEF p
  <2>4. OnTheWay(s)
    BY <2>1
  <2> QED BY <2>2, <2>3, <2>4, SameWay
<1>13. OnTheWay(p)'
  <2>1. Pending(p)' = 0
    BY <1>2, <1>4, <1>5 DEF Pending, Messages
  <2> DEFINE v == Len(written[p])
             x == stream'[p]
  <2>2. /\ x \in Seq(Item) /\ Len(x) = m - 1 /\ \A j \in 1..Len(x) : x[j] = stream[p][j + 1]
        /\ v \in Nat /\ v = l + m
    BY <1>2, <1>3
  <2>3. \A j \in 1..m, i \in 1..v : i = l + j => Sent(stream[p][j], i, written[p][i], Clean(p, i))
    BY <1>2
  <2>7. \A i : Clean(p, i)' = Clean(p, i)
    BY <1>1 DEF Clean
  <2> HIDE DEF v, x
  <2>4. v + 0 = (l + 1) + Len(x)
    BY <1>2, <2>2
  <2>5. ASSUME NEW j \in 1..Len(x), NEW i \in 1..v, i + 0 = (l + 1) + j
        PROVE  Sent(x[j], i, written[p][i], Clean(p, i))
    <3>1. j + 1 \in 1..m /\ i = l + (j + 1)
      BY <1>2, <2>2, <2>5
    <3>2. x[j] = stream[p][j + 1]
      BY <2>2
    <3>3. Sent(stream[p][j + 1], i, written[p][i], Clean(p, i))
      BY <2>3, <3>1
    <3> QED BY <3>2, <3>3
  <2>6. /\ Len(written'[p]) + Pending(p)' = Len(read'[s]) + Len(stream'[p])
        /\ \A j \in 1..Len(stream'[p]), i \in 1..Len(written'[p]) :
              i + Pending(p)' = Len(read'[s]) + j => Sent(stream'[p][j], i, written'[p][i], Clean(p, i)')
    <3>1. v = Len(written'[p])
      BY <1>1 DEF v
    <3>2. Len(read'[s]) = l + 1
      BY <1>6
    <3>3. v + Pending(p)' = Len(read'[s]) + Len(x)
      BY <2>1, <2>4, <3>2
    <3>4. ASSUME NEW j \in 1..Len(x), NEW i \in 1..v, i + Pending(p)' = Len(read'[s]) + j
          PROVE  Sent(x[j], i, written[p][i], Clean(p, i))
      BY <2>1, <2>5, <3>2, <3>4
    <3>5. \A j \in 1..Len(x), i \in 1..v :
              i + Pending(p)' = Len(read'[s]) + j => Sent(x[j], i, written'[p][i], Clean(p, i)')
      BY <1>1, <2>7, <3>4
    <3> QED BY <3>1, <3>3, <3>5 DEF x
  <2>8. /\ Len(written'[p]) + Pending(p)' = Len(read'[Peer(p)]) + Len(stream'[p])
        /\ \A j \in 1..Len(stream'[p]), i \in 1..Len(written'[p]) :
              i + Pending(p)' = Len(read'[Peer(p)]) + j => Sent(stream'[p][j], i, written'[p][i], Clean(p, i)')
    BY <1>2, <2>6
  <2> QED BY <2>8 DEF OnTheWay, Sent, Command, Keyed
<1>14. ASSUME NEW q \in Sides PROVE Receiving(q)' /\ Excused(q)'
  <2>1. Receiving(q)'
    <3>1. CASE q = s
      BY <1>4, <1>5, <3>1 DEF Receiving
    <3>2. CASE q = p
      <4>1. /\ step'[p] = step[p] /\ recv'[p] = recv[p] /\ stream'[Peer(p)] = stream[Peer(p)]
        BY <1>2, <1>3, <1>5
      <4> QED BY <3>2, <4>1 DEF WireInv, Receiving
    <3> QED BY <3>1, <3>2, <1>2, PeersOf
  <2>2. Excused(q)'
    <3>1. Len(read'[q]) >= Len(read[q]) /\ Len(read[q]) \in Nat /\ Len(read'[q]) \in Nat
      <4>1. Len(read[p]) \in Nat
        BY <1>2 DEF WireInv, SessionTyped
      <4>2. CASE q = s
        BY <1>2, <1>6, <4>2 DEF l
      <4>3. CASE q = p
        BY <1>5, <4>1, <4>3
      <4> QED BY <4>2, <4>3, <1>2, PeersOf
    <3>2. closing[Peer(q)].sent \in Nat
      BY PeersOf DEF WireInv, SessionTyped
    <3> QED BY <1>1, <3>1, <3>2 DEF WireInv, Excused
  <2> QED BY <2>1, <2>2
<1> QED BY <1>2, <1>8, <1>9, <1>10, <1>11, <1>12, <1>13, <1>14, PeersOf DEF WireInv

LEMMA RecvStep ==
    ASSUME SessionAssumption, WireInv, NEW s \in Sides, RecvCommand(s)
    PROVE  WireInv'
BY ReceiveStep, DecryptStep, RekeyStep, EndOfStreamStep DEF RecvCommand

LEMMA WireStep ==
    ASSUME SessionAssumption, OneSenderEach, WireInv, [SessionNext]_wireVars
    PROVE  WireInv'
<1>1. CASE UNCHANGED wireVars
  <2>1. UNCHANGED <<step, tx, rx, stream, open, calls, recv, closing, written, read, garbled>>
    BY <1>1 DEF wireVars
  <2>2. Ciphers'
    BY <2>1, SameCiphers, Homes DEF WireInv
  <2>3. SessionTyped' /\ OneCall' /\ Ended' /\ \A c \in Callers : Sized(c)'
    BY <2>1 DEF WireInv, SessionTyped, OneCall, Ended, Sized
  <2> QED BY <2>1, <2>2, <2>3, SameStreams DEF WireInv
<1>2. CASE \E s \in Sides : WriteMessage(s) \/ ReadMessage(s) \/ NoMessage(s) \/ RecvCommand(s) \/ Close(s)
  BY <1>2, WriteMessageStep, ReadMessageStep, NoMessageStep, RecvStep, CloseStep
<1>3. CASE \E c \in Callers : SendCommand(c)
  <2>1. PICK c \in Callers : SendCommand(c)
    BY <1>3
  <2>2. CASE Start(c)
    BY <2>2, StartStep
  <2>3. CASE Header(c) \/ Body(c) \/ RekeyTx(c)
    BY <2>3, SectionStep DEF Header, Body
  <2>4. CASE Write(c)
    BY <2>4, WriteStep
  <2>5. CASE Return(c)
    BY <2>5, ReturnStep
  <2> QED BY <2>1, <2>2, <2>3, <2>4, <2>5 DEF SendCommand
<1> QED BY <1>1, <1>2, <1>3 DEF SessionNext

LEMMA WireInvImpliesPeerDecrypts == ASSUME WireInv PROVE PeerDecrypts
<1> SUFFICES ASSUME NEW s \in Sides PROVE read[s] = SubSeq(written[Peer(s)], 1, Len(read[s]))
  BY DEF PeerDecrypts, WireInv, Excused
<1> DEFINE q == read[s]
           w == written[Peer(s)]
           l == Len(q)
           r == SubSeq(w, 1, l)
<1>1. q \in Seq(Callers) /\ w \in Seq(Callers) /\ l \in Nat /\ Len(w) \in Nat
  BY PeersOf DEF WireInv, SessionTyped
<1>2. l <= Len(w) /\ \A j \in 1..l : q[j] = w[j]
  BY DEF WireInv, Received
<1> HIDE DEF q, w, l
<1>3. \A j \in 1..l : w[j] \in Callers
  BY <1>1, <1>2
<1>4. /\ SubSeq(w, 1, l) \in Seq(Callers)
      /\ Len(SubSeq(w, 1, l)) = IF 1 <= l THEN l - 1 + 1 ELSE 0
      /\ \A i \in 1..(l - 1 + 1) : SubSeq(w, 1, l)[i] = w[1 + i - 1]
  BY <1>1, <1>3, SubSeqProperties
<1>5. r \in Seq(Callers) /\ Len(r) = l /\ \A i \in 1..l : r[i] = w[i]
  BY <1>1, <1>4
<1> HIDE DEF r
<1>6. \A i \in 1..Len(q) : q[i] = r[i]
  BY <1>2, <1>5 DEF l
<1>7. Len(q) = Len(r)
  BY <1>5 DEF l
<1>8. q = r
  BY <1>1, <1>5, <1>6, <1>7, SeqEqual
<1> QED BY <1>8 DEF q, r, l, w

(* RecvCommand decrypts what SendCommand has written, in its order and without a gap, for
   any number of commands and over every change of the keys, when one goroutine sends on
   each side; Close, section by section beside those calls, spoils only commands that had not
   been written when it began, and what the side that closes was reading. *)
THEOREM PeersDecryptUntilClose ==
    ASSUME OneSenderEach PROVE SessionSpec => []PeerDecrypts
<1>1. SessionInit => WireInv
  BY WireInit, SessionAssumption
<1>2. WireInv /\ [SessionNext]_wireVars => WireInv'
  BY WireStep, SessionAssumption
<1>3. WireInv => PeerDecrypts
  BY WireInvImpliesPeerDecrypts, SessionAssumption
<1> QED BY <1>1, <1>2, <1>3, PTL DEF SessionSpec

(* How far a side has come, and whom it and its peer know by then. *)
Authenticated ==
    /\ step["initiator"] \in 3..7 => valid["initiator"]
    /\ step["responder"] \in 4..7 => valid["responder"]
    /\ step["initiator"] \in 5..7 => valid["responder"]
    /\ step["initiator"] = 4 /\ Len(stream["responder"]) > 0 => valid["responder"]

LEMMA HandshakeAuthenticates ==
    ASSUME WireInv, Authenticated, NEW s \in Sides, WriteMessage(s) \/ ReadMessage(s)
    PROVE  Authenticated'
<1> DEFINE n == IF step[s] = 4 THEN 5 ELSE step[s] + 1
<1>1. /\ step \in [Sides -> 0..7] /\ stream \in [Sides -> Seq(Item)] /\ valid' = valid
      /\ s = "initiator" \/ s = "responder"
      /\ step' = [step EXCEPT ![s] = 0] \/ step' = [step EXCEPT ![s] = n]
      /\ step[s] \in 1..4
  BY PeersOf DEF WireInv, SessionTyped, WriteMessage, ReadMessage, Fails, Advance, Failed, Finalize, Completes, Messages
<1>2. CASE step' = [step EXCEPT ![s] = 0] /\ s = "initiator"
  BY <1>1, <1>2, PeersOf DEF Authenticated
<1>3. CASE step' = [step EXCEPT ![s] = 0] /\ s = "responder"
  <2>1. Len(stream'["responder"]) = Len(stream["responder"])
    BY <1>1, <1>3, PeersOf DEF WriteMessage, ReadMessage, Fails, Advance, Failed, Finalize, Completes, Messages
  <2>2. step'["responder"] = 0 /\ step'["initiator"] = step["initiator"]
    BY <1>1, <1>3, PeersOf
  <2> QED BY <1>1, <2>1, <2>2 DEF Authenticated
<1>4. CASE step' = [step EXCEPT ![s] = n] /\ s = "initiator" /\ WriteMessage(s)
  <2>1. step[s] \in {1, 3} /\ n = step[s] + 1 /\ stream'["responder"] = stream["responder"]
    BY <1>1, <1>4, PeersOf DEF WriteMessage, Writes
  <2>2. step["initiator"] = 3 => Len(stream["responder"]) = 0
    BY DEF WireInv, InStep
  <2>3. step'["initiator"] = n /\ step'["responder"] = step["responder"]
    BY <1>1, <1>4, PeersOf
  <2> HIDE DEF n
  <2> QED BY <1>1, <1>4, <2>1, <2>2, <2>3 DEF Authenticated
<1>5. CASE step' = [step EXCEPT ![s] = n] /\ s = "initiator" /\ ReadMessage(s)
  <2>1. /\ step[s] \in {2, 4} /\ stream["responder"] # <<>>
        /\ step[s] = 2 => valid[s] \/ step' = [step EXCEPT ![s] = 0]
    BY <1>1, <1>5, PeersOf DEF ReadMessage, Writes, Messages, Checks, Fails, Failed
  <2>2. step'["initiator"] = n /\ step'["responder"] = step["responder"] /\ n \in {3, 5}
        /\ (n = 3 => valid["initiator"] /\ step["initiator"] = 2) /\ (n = 5 => step["initiator"] = 4)
    BY <1>1, <1>5, <2>1, PeersOf
  <2>3. stream["responder"] \in Seq(Item) /\ stream["responder"] # <<>> => Len(stream["responder"]) > 0
    <3> DEFINE q == stream["responder"]
    <3>1. q \in Seq(Item)
      BY <1>1, PeersOf
    <3> HIDE DEF q
    <3>2. q # <<>> => Len(q) > 0
      BY <3>1
    <3> QED BY <3>2 DEF q
  <2>4. stream["responder"] \in Seq(Item)
    BY <1>1, PeersOf
  <2> HIDE DEF n
  <2> QED BY <1>1, <2>1, <2>2, <2>3, <2>4 DEF Authenticated
<1>6. CASE step' = [step EXCEPT ![s] = n] /\ s = "responder" /\ WriteMessage(s)
  <2>1. step[s] \in {2, 4} /\ step'["responder"] = n /\ step'["initiator"] = step["initiator"]
        /\ n \in {3, 5} /\ (n = 5 => step["responder"] = 4) /\ (n = 3 => step["responder"] = 2)
    BY <1>1, <1>6, PeersOf DEF WriteMessage, Writes
  <2>2. step["responder"] = 2 => step["initiator"] = 2
    BY DEF WireInv, InStep
  <2> HIDE DEF n
  <2> QED BY <1>1, <2>1, <2>2 DEF Authenticated
<1>7. CASE step' = [step EXCEPT ![s] = n] /\ s = "responder" /\ ReadMessage(s)
  <2>1. /\ step[s] \in {1, 3} /\ stream'["responder"] = stream["responder"]
        /\ step[s] = 3 => valid[s] \/ step' = [step EXCEPT ![s] = 0]
    BY <1>1, <1>7, PeersOf DEF ReadMessage, Writes, Messages, Checks, Fails, Failed
  <2>2. step'["responder"] = n /\ step'["initiator"] = step["initiator"] /\ n \in {2, 4}
        /\ (n = 4 => valid["responder"])
    BY <1>1, <1>7, <2>1, PeersOf
  <2> HIDE DEF n
  <2> QED BY <1>1, <2>1, <2>2 DEF Authenticated
<1> QED BY <1>1, <1>2, <1>3, <1>4, <1>5, <1>6, <1>7

(* After the handshake nobody goes back to it. *)
LEMMA AuthenticatedStep ==
    ASSUME SessionAssumption, WireInv, Authenticated, [SessionNext]_wireVars
    PROVE  Authenticated'
<1> DEFINE Onward(s) == step'[s] = step[s] \/ step'[s] = 0 \/ (step[s] \in {5, 6} /\ step'[s] \in {6, 7})
           Heard == Len(stream'["responder"]) > 0 => Len(stream["responder"]) > 0 \/ step["responder"] \in {5, 6, 7}
<1>1. ASSUME valid' = valid, Onward("initiator"), Onward("responder"), Heard PROVE Authenticated'
  <2>1. step["initiator"] \in 0..7 /\ step["responder"] \in 0..7
    BY PeersOf DEF WireInv, SessionTyped
  <2> QED BY <1>1, <2>1 DEF Authenticated
<1>2. /\ step \in [Sides -> 0..7] /\ stream \in [Sides -> Seq(Item)] /\ "initiator" \in Sides /\ "responder" \in Sides
  BY PeersOf DEF WireInv, SessionTyped
<1>3. CASE UNCHANGED wireVars
  <2>1. UNCHANGED <<valid, step, stream>>
    BY <1>3 DEF wireVars
  <2> QED BY <1>1, <2>1
<1>4. ASSUME NEW s \in Sides, NoMessage(s) PROVE Authenticated'
  BY <1>1, <1>2, <1>4 DEF NoMessage, Fails, Failed
<1>5. ASSUME NEW s \in Sides, Close(s) PROVE Authenticated'
  <2>1. UNCHANGED <<valid, stream>>
    BY <1>5 DEF Close, CloseTx, CloseRx, CloseConn, CloseState, Closes
  <2>2. step' = step \/ (closing[s].at = "state" /\ step' = [step EXCEPT ![s] = 7])
    BY <1>5 DEF Close, CloseTx, CloseRx, CloseConn, CloseState, Closes, Closed
  <2>3. closing[s].at = "state" => step[s] = 6
    BY DEF WireInv, Closings, Ready
  <2> QED BY <1>1, <1>2, <2>1, <2>2, <2>3
<1>6. ASSUME NEW s \in Sides, RecvCommand(s) PROVE Authenticated'
  <2>1. valid' = valid
    BY <1>6 DEF RecvCommand, Receive, RecvHeader, RecvBody, Decrypt, RekeyRx, EndOfStream
  <2>2. stream' = stream \/ (stream' = [stream EXCEPT ![Peer(s)] = Tail(@)] /\ stream[Peer(s)] # <<>>)
    BY <1>6 DEF RecvCommand, Receive, RecvHeader, RecvBody, Decrypt, RekeyRx, EndOfStream, WireInv, Receiving
  <2> DEFINE n == step'[s]
  <2>3. step' = [step EXCEPT ![s] = n] /\ (n = step[s] \/ (step[s] = 5 /\ n \in {0, 6}))
    <3>1. step' = step \/ step' = [step EXCEPT ![s] = IF @ = Finalize THEN Failed ELSE @]
          \/ step' = [step EXCEPT ![s] = IF @ = Finalize THEN Ready ELSE @]
      BY <1>6 DEF RecvCommand, Receive, RecvHeader, RecvBody, Decrypt, RekeyRx, EndOfStream, Stops
    <3> QED BY <1>2, <3>1 DEF Finalize, Failed, Ready
  <2>4. stream'["responder"] = stream["responder"] \/ Len(stream["responder"]) > 0
    <3> DEFINE q == stream["responder"]
    <3>1. q \in Seq(Item)
      BY <1>2
    <3> HIDE DEF q
    <3>2. q # <<>> => Len(q) > 0
      BY <3>1
    <3>3. stream' # stream /\ Peer(s) = "responder" => q # <<>>
      BY <2>2 DEF q
    <3>4. stream' = stream \/ Peer(s) # "responder" => stream'["responder"] = q
      BY <1>2, <2>2 DEF q
    <3> QED BY <3>2, <3>3, <3>4 DEF q
  <2>5. Onward("initiator") /\ Onward("responder")
    <3>1. \A p \in Sides : p # s => step'[p] = step[p]
      BY <1>2, <2>3
    <3> QED BY <1>2, <2>3, <3>1
  <2> QED BY <1>1, <2>1, <2>4, <2>5
<1>7. ASSUME NEW c \in Callers, Start(c) \/ Header(c) \/ Body(c) \/ RekeyTx(c) PROVE Authenticated'
  BY <1>1, <1>7 DEF Start, Header, Body, Encrypt, RekeyTx
<1>8. ASSUME NEW c \in Callers, Write(c) PROVE Authenticated'
  <2>1. UNCHANGED <<valid, step>>
    BY <1>8 DEF Write
  <2>2. CASE HomeOf(c) = "responder"
    <3>1. step["responder"] \in {5, 6, 7}
      <4>1. calls[c].at # "idle" /\ OneCall
        BY <1>8 DEF Write, WireInv
      <4>2. CASE c \in Senders
        BY <2>2, <4>1, <4>2, Homes DEF OneCall, Ready, Closed
      <4>3. CASE c \in Sides
        BY <2>2, <4>1, <4>3, Homes DEF OneCall, Finalize
      <4> QED BY <4>2, <4>3 DEF Callers
    <3> QED BY <1>1, <2>1, <3>1
  <2>3. CASE HomeOf(c) # "responder"
    <3>1. stream'["responder"] = stream["responder"]
      BY <1>2, <1>8, <2>3 DEF Write
    <3> QED BY <1>1, <2>1, <3>1
  <2> QED BY <2>2, <2>3
<1>9. ASSUME NEW c \in Callers, Return(c) PROVE Authenticated'
  <2>1. UNCHANGED <<valid, stream>>
    BY <1>9 DEF Return
  <2>2. CASE c \in Sides
    <3>1. c = "responder" /\ step["responder"] = 5
      BY <1>9, <2>2, Homes, PeersOf DEF Return, WireInv, OneCall, Finalize
    <3>2. step'["initiator"] = step["initiator"] /\ step'["responder"] \in {0, 6}
      BY <1>2, <1>9, <3>1, PeersOf DEF Return, Failed, Ready
    <3> QED BY <1>1, <2>1, <3>1, <3>2
  <2>3. CASE c \notin Sides
    BY <1>1, <1>9, <2>1, <2>3 DEF Return
  <2> QED BY <2>2, <2>3
<1> HIDE DEF Onward, Heard
<1> QED BY <1>3, <1>4, <1>5, <1>6, <1>7, <1>8, <1>9, HandshakeAuthenticates DEF SessionNext, SendCommand

(* Initialize returns a session to an initiator only when each side has authenticated the
   other, and to a responder when it has authenticated the initiator: whoever refuses, and
   whenever the connection breaks. *)
THEOREM SessionsAreAuthenticated ==
    ASSUME OneSenderEach PROVE SessionSpec => []BothAreValid
<1>1. SessionInit => WireInv /\ Authenticated
  <2>1. SessionInit => Authenticated
    BY PeersOf DEF SessionInit, Authenticated
  <2> QED BY <2>1, WireInit, SessionAssumption
<1>2. WireInv /\ Authenticated /\ [SessionNext]_wireVars => WireInv' /\ Authenticated'
  BY WireStep, AuthenticatedStep, SessionAssumption
<1>3. WireInv /\ Authenticated => BothAreValid
  BY PeersOf DEF WireInv, SessionTyped, Authenticated, BothAreValid, Ready
<1> QED BY <1>1, <1>2, <1>3, PTL DEF SessionSpec
===============================================================================
