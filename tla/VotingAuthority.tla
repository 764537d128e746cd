--------------------------- MODULE VotingAuthority ---------------------------
(***************************************************************************)
(* The directory authorities of katzenpost/authority/voting/server: every  *)
(* epoch they vote on the next epoch's mix descriptors, reveal the shared  *)
(* random they committed to in their votes, exchange certificates of what  *)
(* they saw, sign the consensus each computes for itself, and publish it   *)
(* once a majority has signed the very same document (state.go).           *)
(*                                                                         *)
(* One action per case of fsm() and one per wire command handler; the      *)
(* clock, the process crashes and the restarts are actions too.  Time is   *)
(* counted in slots of Period/8, the unit of every deadline of state.go:   *)
(* the moment k/8 of an epoch is the start of its slot k, so that elapsed  *)
(* > MixPublishDeadline holds in every slot but the first.                 *)
(*                                                                         *)
(* Abstracted: a mix descriptor is a model value; the topology, the        *)
(* parameters and the replica keys are functions of the fields of a body   *)
(* that are kept here; a document's signatures are the set of its signers; *)
(* every authority has the same configuration and does what the code says. *)
(***************************************************************************)
EXTENDS Integers, FiniteSets, Sequences

CONSTANTS
    Authority,      \* cfg.Authorities, this server included
    Ballots,        \* the sets of mix descriptors an authority may hold when it votes
    WeekOfEpochs,   \* epochtime.WeekOfEpochs
    StartTime,      \* the slot at which the authorities are first started
    MaxTime,        \* bound: the last slot of a behaviour
    MaxLag,         \* bound: by how many slots a timer of fsm() may fire late
    MaxLate,        \* bound: how many messages may be undelivered when a slot ends
    MaxCrash        \* bound: how many crashes a behaviour has

ASSUME AuthorityAssumption == IsFiniteSet(Authority)
ASSUME TimeAssumption == StartTime \in Nat /\ MaxTime \in Nat /\ MaxLag \in Nat
ASSUME WeekAssumption == WeekOfEpochs \in Nat \ {0}

VARIABLES
    now,            \* the slot of the common clock (epochtime.Now)
    up,             \* the authorities whose process runs
    crashes,        \* how many crashes there have been; makes the random numbers fresh
    state,          \* per authority: the FSM state
    votingEpoch,    \* per authority: the epoch voted on
    wake,           \* per authority: the slot at which the timer of fsm() fires
    genesisEpoch,   \* per authority: genesisEpoch
    priorSRV,       \* per authority: priorSRV, a sequence of shared random values
    ledger,         \* per authority: the maps of received protocol data and documents
    disk,           \* per authority: the documents bucket of persistence.db
    fetching,       \* per authority: the running backgroundFetchConsensus goroutines
    msgs,           \* every command sent to the peers so far
    published       \* history: every document a majority was found to have signed

clockVars == <<now, crashes, up>>
fsmVars   == <<state, votingEpoch, wake, genesisEpoch, priorSRV>>
docVars   == <<disk, fetching, published>>
vars      == <<clockVars, fsmVars, ledger, docVars, msgs>>

-----------------------------------------------------------------------------
(* The clock and the voting schedule.                                      *)

SlotsPerEpoch == 8

EpochAt(t)    == t \div SlotsPerEpoch
EpochStart(e) == e * SlotsPerEpoch
Epoch         == EpochAt(now)
Elapsed(k)    == EpochStart(Epoch) + k    \* the moment k/8 of the current epoch
NextEpoch(k)  == EpochStart(Epoch + 1) + k

MixPublishDeadline       == 1
AuthorityVoteDeadline    == 2
AuthorityRevealDeadline  == 3
AuthorityCertDeadline    == 4
PublishConsensusDeadline == 5

PreserveForPastEpochs == 3

(* Faults: a process that starts in the middle of a round joins it, or one that starts at
   the beginning of a round waits for the next. *)
FaultyTooLateToVote == FALSE
FaultyAlwaysTooLate == now >= Elapsed(0)

(* elapsed > MixPublishDeadline: a process started now must wait for the next epoch. *)
TooLateToVote == now >= Elapsed(MixPublishDeadline)

(* Fault: half of the authorities are taken for a majority. *)
FaultyThreshold == Cardinality(Authority) \div 2

Threshold == Cardinality(Authority) \div 2 + 1

-----------------------------------------------------------------------------
(* The maps of the state struct: ledger[a].votes stands for s.votes of     *)
(* authority a, a set of entries that carry their epoch and their sender.  *)

LedgerFields == {"votes", "commits", "reveals", "certificates", "signatures",
                 "myconsensus", "documents"}

EmptyLedger == [f \in LedgerFields |-> {}]

At(a, f, e)     == {r \in ledger[a][f] : r.epoch = e}
Has(a, f, e, p) == \E r \in ledger[a][f] : r.epoch = e /\ r.from = p

(* pruneDocuments, which ends every call of fsm(). *)
Kept(S)  == {r \in S : r.epoch + PreserveForPastEpochs >= Epoch}
Prune(l) == [f \in LedgerFields |-> Kept(l[f])]

(* Put on the documents bucket or an assignment to s.documents[epoch]. *)
Store(S, d) == {r \in S : r.epoch # d.epoch} \cup {d}

-----------------------------------------------------------------------------
(* The tally and the consensus document.                                   *)

(* A commit and its reveal: one random number, drawn by doCommit. *)
Secret(a, e) == [from |-> a, epoch |-> e, nonce |-> crashes]

ZeroSRV == [epoch |-> 0, reveals |-> {}, prev |-> <<>>]

CanTally(a, e) == Cardinality(At(a, "votes", e)) >= Threshold

Voters(a, e, m) == {v \in At(a, "votes", e) : m \in v.mixes}

(* Fault: a mix that any vote lists is in the document. *)
FaultyTallyVotes(a, e) == {m \in UNION Ballots : Voters(a, e, m) # {}}

tallyVotes(a, e) ==
    {m \in UNION Ballots : Cardinality(Voters(a, e, m)) >= Threshold}

(* IsDocumentWellFormed on a certificate: one commit alone makes it a vote, *)
(* which has no reveal; more than one need a reveal each and no other.      *)
WellFormedCertificate(mixes, commits, reveals) ==
    /\ mixes # {}
    /\ Cardinality(commits) = 1 => reveals = {}
    /\ Cardinality(commits) > 1 => reveals = commits

(* The commits and reveals of a certificate.  Our own certificate holds the *)
(* maps s.commits[epoch] and s.reveals[epoch] themselves, not copies.       *)
CertCommits(a, c) == IF c.from = a THEN At(a, "commits", c.epoch) ELSE c.commits
CertReveals(a, c) == IF c.from = a THEN At(a, "reveals", c.epoch) ELSE c.reveals

Complete(a, c) == CertCommits(a, c) \subseteq CertReveals(a, c)

(* What verifyCommits may take from certificate c: Go ranges over a map in  *)
(* any order and stops at the first commit that has no reveal.              *)
Contribution(a, c) ==
    IF Complete(a, c) THEN {CertCommits(a, c)}
                      ELSE SUBSET (CertCommits(a, c) \cap CertReveals(a, c))

(* Fault: a commit counts whether or not it has been revealed. *)
FaultyVerifyCommits(a, e) ==
    {UNION {CertCommits(a, c) : c \in At(a, "certificates", e)}}

Equivocates(k, S) == \E j \in S : j.from = k.from /\ j # k

(* The possible results of verifyCommits: what the certificates contribute, *)
(* without the bad nodes (the issuers of incomplete certificates, and who   *)
(* committed to two values).                                                *)
verifyCommits(a, e) ==
    LET certs == At(a, "certificates", e)
        bad   == {c.from : c \in {c \in certs : ~Complete(a, c)}}
        Pick  == {f \in [certs -> UNION {Contribution(a, c) : c \in certs}] :
                      \A c \in certs : f[c] \in Contribution(a, c)}
        Good(S) == {k \in S : k.from \notin bad /\ ~Equivocates(k, S)}
    IN  {Good(UNION {f[c] : c \in certs}) : f \in Pick}

(* computeSharedRandom: a hash of the epoch, the reveals and the previous value. *)
computeSharedRandom(a, e, commits) ==
    [epoch   |-> e,
     reveals |-> commits,
     prev    |-> IF At(a, "documents", e - 1) = {} THEN <<>>
                 ELSE <<(CHOOSE d \in At(a, "documents", e - 1) : TRUE).body.srv>>]

(* getMyConsensus goes on with certificates and random numbers of a majority. *)
Enough(a, e, commits) ==
    /\ Cardinality(At(a, "certificates", e)) >= Threshold
    /\ Cardinality(commits) >= Threshold

(* The rotation of priorSRV: getCertificate does it with the zero value,    *)
(* getMyConsensus does it again with the new one.                           *)
Rotate(a, e, srv) ==
    IF e % WeekOfEpochs = 0 THEN <<srv, priorSRV[a][1]>> ELSE priorSRV[a]

CertificatePriorSRV(a, e) ==
    IF priorSRV[a] = <<>> THEN <<ZeroSRV, ZeroSRV>> ELSE Rotate(a, e, ZeroSRV)

ConsensusPriorSRV(a, e, srv) ==
    IF e = genesisEpoch[a] THEN <<srv, srv>> ELSE Rotate(a, e, srv)

(* getDocument: the document a would sign for epoch e. *)
Body(a, e, mixes, srv, prior) ==
    [epoch |-> e, genesis |-> genesisEpoch[a], mixes |-> mixes,
     srv |-> srv, prior |-> prior]

-----------------------------------------------------------------------------
Init ==
    /\ now = StartTime
    /\ up = Authority
    /\ crashes = 0
    /\ state = [a \in Authority |-> "bootstrap"]
    /\ votingEpoch = [a \in Authority |-> 0]
    /\ wake = [a \in Authority |-> StartTime]
    /\ genesisEpoch = [a \in Authority |-> 0]
    /\ priorSRV = [a \in Authority |-> <<>>]
    /\ ledger = [a \in Authority |-> EmptyLedger]
    /\ disk = [a \in Authority |-> {}]
    /\ fetching = [a \in Authority |-> {}]
    /\ msgs = {}
    /\ published = {}

(* fsm() of authority a runs in state s: its timer has fired. *)
Due(a, s) == a \in up /\ state[a] = s /\ wake[a] <= now

Goto(a, s, t) ==
    /\ state' = [state EXCEPT ![a] = s]
    /\ wake' = [wake EXCEPT ![a] = t]

(* Faults: the wait ends too late in the next epoch to vote in it, or the    *)
(* epoch voted on is set back to the current one.                            *)
SitOutTooLong(a) ==
    /\ votingEpoch' = [votingEpoch EXCEPT ![a] = Epoch + 2]
    /\ Goto(a, "bootstrap", NextEpoch(MixPublishDeadline))

SitOutBackward(a) ==
    /\ votingEpoch' = [votingEpoch EXCEPT ![a] = Epoch]
    /\ Goto(a, "bootstrap", NextEpoch(0))

(* Wait for the next epoch, to vote in it on the epoch after it. *)
SitOut(a) ==
    /\ votingEpoch' = [votingEpoch EXCEPT ![a] = Epoch + 2]
    /\ Goto(a, "bootstrap", NextEpoch(0))

-----------------------------------------------------------------------------
(* case stateBootstrap: fetch the documents of the previous and the current *)
(* epoch if they are missing, then wait for the next epoch or start voting. *)
Fetches(a) == {[epoch |-> e, until |-> now + 1] :
                  e \in {e \in {Epoch - 1, Epoch} : At(a, "documents", e) = {}}}

FsmBootstrap(a) ==
    /\ Due(a, "bootstrap")
    /\ genesisEpoch' = [genesisEpoch EXCEPT ![a] = 0]
    /\ fetching' = [fetching EXCEPT ![a] = @ \cup Fetches(a)]
    /\ ledger' = [ledger EXCEPT ![a] = Prune(@)]
    /\ disk' = [disk EXCEPT ![a] = Kept(@)]
    /\ \/ /\ TooLateToVote
          /\ SitOut(a)
       \/ /\ ~TooLateToVote
          /\ votingEpoch' = [votingEpoch EXCEPT ![a] = Epoch + 1]
          /\ Goto(a, "accept_desc", Elapsed(MixPublishDeadline))
    /\ UNCHANGED <<clockVars, priorSRV, published, msgs>>

(* case stateAcceptDescriptor: getVote, doCommit and sendVoteToAuthorities. *)
FsmAcceptDescriptor(a) ==
    LET e      == votingEpoch[a]
        secret == Secret(a, e)
        prior  == At(a, "documents", e - 1)
        others(f) == {r \in ledger[a][f] : r.epoch # e \/ r.from # a}
    IN
    /\ Due(a, "accept_desc")
    /\ IF prior = {}
       THEN /\ genesisEpoch' = [genesisEpoch EXCEPT ![a] = e]
            /\ UNCHANGED priorSRV
       ELSE \E d \in prior :
            /\ genesisEpoch' = [genesisEpoch EXCEPT ![a] = d.body.genesis]
            /\ priorSRV' = [priorSRV EXCEPT ![a] = d.body.prior]
    /\ \E mixes \in Ballots :
       LET vote == [type |-> "vote", from |-> a, epoch |-> e,
                    mixes |-> mixes, commit |-> secret]
           new  == IF Has(a, "votes", e, a) THEN {} ELSE {vote}
       IN  /\ ledger' = [ledger EXCEPT ![a] = Prune([ledger[a] EXCEPT
                            !.commits = others("commits") \cup {secret},
                            !.reveals = others("reveals") \cup {secret},
                            !.votes   = ledger[a].votes \cup new])]
           /\ msgs' = msgs \cup new
    /\ disk' = [disk EXCEPT ![a] = Kept(@)]
    /\ Goto(a, "accept_vote", Elapsed(AuthorityVoteDeadline))
    /\ UNCHANGED <<clockVars, votingEpoch, fetching, published>>

(* case stateAcceptVote: reveal and sendRevealToAuthorities. *)
FsmAcceptVote(a) ==
    /\ Due(a, "accept_vote")
    /\ msgs' = msgs \cup
          {[type |-> "reveal", from |-> a, epoch |-> r.epoch, reveal |-> r] :
              r \in {r \in At(a, "reveals", votingEpoch[a]) : r.from = a}}
    /\ ledger' = [ledger EXCEPT ![a] = Prune(@)]
    /\ disk' = [disk EXCEPT ![a] = Kept(@)]
    /\ Goto(a, "accept_reveal", Elapsed(AuthorityRevealDeadline))
    /\ UNCHANGED <<clockVars, votingEpoch, genesisEpoch, priorSRV, fetching, published>>

(* case stateAcceptReveal: getCertificate and sendCertToAuthorities. *)
FsmAcceptReveal(a) ==
    LET e       == votingEpoch[a]
        commits == At(a, "commits", e)
        reveals == At(a, "reveals", e)
        cert    == [type |-> "cert", from |-> a, epoch |-> e,
                    commits |-> commits, reveals |-> reveals]
        new     == IF /\ CanTally(a, e)
                      /\ WellFormedCertificate(tallyVotes(a, e), commits, reveals)
                      /\ ~Has(a, "certificates", e, a)
                   THEN {cert} ELSE {}
    IN
    /\ Due(a, "accept_reveal")
    /\ priorSRV' = IF CanTally(a, e)
                   THEN [priorSRV EXCEPT ![a] = CertificatePriorSRV(a, e)]
                   ELSE priorSRV
    /\ ledger' = [ledger EXCEPT ![a] = Prune([ledger[a] EXCEPT
                     !.certificates = ledger[a].certificates \cup new])]
    /\ msgs' = msgs \cup new
    /\ disk' = [disk EXCEPT ![a] = Kept(@)]
    /\ Goto(a, "accept_cert", Elapsed(AuthorityCertDeadline))
    /\ UNCHANGED <<clockVars, votingEpoch, genesisEpoch, fetching, published>>

(* case stateAcceptCert: getMyConsensus and sendSigToAuthorities. *)
FsmAcceptCert(a) ==
    LET e == votingEpoch[a] IN
    /\ Due(a, "accept_cert")
    /\ \E commits \in verifyCommits(a, e) :
       LET enough == Enough(a, e, commits)
           srv    == computeSharedRandom(a, e, commits)
           prior  == ConsensusPriorSRV(a, e, srv)
           mixes  == tallyVotes(a, e)
           body   == Body(a, e, mixes, srv, prior)
           signed == IF enough /\ CanTally(a, e) /\ mixes # {} THEN {body} ELSE {}
       IN  /\ priorSRV' = IF enough THEN [priorSRV EXCEPT ![a] = prior] ELSE priorSRV
           /\ ledger' = [ledger EXCEPT ![a] = Prune([ledger[a] EXCEPT
                            !.myconsensus = ledger[a].myconsensus \cup signed])]
           /\ msgs' = msgs \cup {[type |-> "sig", from |-> a, epoch |-> e, body |-> b] :
                                    b \in signed}
    /\ disk' = [disk EXCEPT ![a] = Kept(@)]
    /\ Goto(a, "accept_signature", Elapsed(PublishConsensusDeadline))
    /\ UNCHANGED <<clockVars, votingEpoch, genesisEpoch, fetching, published>>

(* Fault: every signature of the epoch is counted, whatever it signs. *)
FaultySigners(a, b) ==
    {a} \cup {m.from : m \in At(a, "signatures", b.epoch)}

(* getThresholdConsensus: who signed the document b that a computed itself. *)
Signers(a, b) ==
    {a} \cup {m.from : m \in {m \in ledger[a].signatures : m.body = b}}

ThresholdConsensus(a, e) ==
    {[epoch |-> e, body |-> b, sigs |-> Signers(a, b)] :
        b \in {b \in At(a, "myconsensus", e) : Cardinality(Signers(a, b)) >= Threshold}}

(* case stateAcceptSignature, a majority signed our document: it is persisted, *)
(* served, and the next epoch is voted on.                                     *)
FsmConsensusReached(a) ==
    /\ Due(a, "accept_signature")
    /\ \E d \in ThresholdConsensus(a, votingEpoch[a]) :
          /\ disk' = [disk EXCEPT ![a] = Kept(Store(@, d))]
          /\ ledger' = [ledger EXCEPT ![a] = Prune([ledger[a] EXCEPT
                           !.documents = Store(ledger[a].documents, d)])]
          /\ published' = published \cup {d}
    /\ votingEpoch' = [votingEpoch EXCEPT ![a] = @ + 1]
    /\ Goto(a, "accept_desc", NextEpoch(MixPublishDeadline))
    /\ UNCHANGED <<clockVars, genesisEpoch, priorSRV, fetching, msgs>>

(* case stateAcceptSignature, no majority: start over in the next epoch. *)
FsmConsensusFailed(a) ==
    /\ Due(a, "accept_signature")
    /\ ThresholdConsensus(a, votingEpoch[a]) = {}
    /\ ledger' = [ledger EXCEPT ![a] = Prune(@)]
    /\ disk' = [disk EXCEPT ![a] = Kept(@)]
    /\ SitOut(a)
    /\ UNCHANGED <<clockVars, genesisEpoch, priorSRV, fetching, published, msgs>>

Fsm(a) ==
    \/ FsmBootstrap(a)
    \/ FsmAcceptDescriptor(a)
    \/ FsmAcceptVote(a)
    \/ FsmAcceptReveal(a)
    \/ FsmAcceptCert(a)
    \/ FsmConsensusReached(a)
    \/ FsmConsensusFailed(a)

-----------------------------------------------------------------------------
(* The handlers of the peers' commands.  None looks at the FSM state: a     *)
(* command is taken in any phase, if it is for the epoch voted on and the   *)
(* first of its sender.  A refused command changes nothing.                 *)

Accepts(a, m, type, field) ==
    /\ a \in up
    /\ m.type = type
    /\ m.from # a
    /\ m.epoch = votingEpoch[a]
    /\ ~Has(a, field, m.epoch, m.from)

OnVoteUpload(a, m) ==
    /\ Accepts(a, m, "vote", "votes")
    /\ ledger' = [ledger EXCEPT ![a].votes = @ \cup {m},
                                ![a].commits = @ \cup {m.commit}]
    /\ UNCHANGED <<clockVars, fsmVars, docVars, msgs>>

OnRevealUpload(a, m) ==
    /\ Accepts(a, m, "reveal", "reveals")
    /\ Has(a, "commits", m.epoch, m.from)
    /\ ledger' = [ledger EXCEPT ![a].reveals = @ \cup {m.reveal}]
    /\ UNCHANGED <<clockVars, fsmVars, docVars, msgs>>

OnCertUpload(a, m) ==
    /\ Accepts(a, m, "cert", "certificates")
    /\ Has(a, "votes", m.epoch, m.from)
    /\ ledger' = [ledger EXCEPT ![a].certificates = @ \cup {m}]
    /\ UNCHANGED <<clockVars, fsmVars, docVars, msgs>>

OnSigUpload(a, m) ==
    /\ Accepts(a, m, "sig", "signatures")
    /\ ledger' = [ledger EXCEPT ![a].signatures = @ \cup {m}]
    /\ UNCHANGED <<clockVars, fsmVars, docVars, msgs>>

Deliver(a, m) ==
    \/ OnVoteUpload(a, m)
    \/ OnRevealUpload(a, m)
    \/ OnCertUpload(a, m)
    \/ OnSigUpload(a, m)

(* The goroutine of backgroundFetchConsensus gets the document of epoch     *)
(* f.epoch from peer b, verified by the client, and keeps it in memory.     *)
FetchConsensus(a, b) ==
    /\ a \in up /\ b \in up
    /\ \E f \in fetching[a] :
       /\ \E d \in At(b, "documents", f.epoch) :
             ledger' = IF At(a, "documents", f.epoch) = {}
                       THEN [ledger EXCEPT ![a].documents = @ \cup {d}]
                       ELSE ledger
       /\ fetching' = [fetching EXCEPT ![a] = @ \ {f}]
    /\ UNCHANGED <<clockVars, fsmVars, disk, published, msgs>>

-----------------------------------------------------------------------------
(* The environment.                                                        *)

(* The process dies: everything but persistence.db is lost. *)
Crash(a) ==
    /\ a \in up
    /\ crashes < MaxCrash
    /\ crashes' = crashes + 1
    /\ up' = up \ {a}
    /\ state' = [state EXCEPT ![a] = "bootstrap"]
    /\ votingEpoch' = [votingEpoch EXCEPT ![a] = 0]
    /\ genesisEpoch' = [genesisEpoch EXCEPT ![a] = 0]
    /\ priorSRV' = [priorSRV EXCEPT ![a] = <<>>]
    /\ ledger' = [ledger EXCEPT ![a] = EmptyLedger]
    /\ fetching' = [fetching EXCEPT ![a] = {}]
    /\ wake' = [wake EXCEPT ![a] = 0]
    /\ UNCHANGED <<now, disk, published, msgs>>

(* newState and restorePersistence: the documents of the previous, the      *)
(* current and the next epoch come back; fsm() runs at once.                *)
Restart(a) ==
    /\ a \notin up
    /\ up' = up \cup {a}
    /\ wake' = [wake EXCEPT ![a] = now]
    /\ ledger' = [ledger EXCEPT ![a].documents =
                     {d \in disk[a] : d.epoch \in Epoch - 1 .. Epoch + 1}]
    /\ UNCHANGED <<now, crashes, state, votingEpoch, genesisEpoch, priorSRV, docVars, msgs>>

(* The commands a peer could still take and has not, whose sender is still *)
(* retrying them: it runs and is in the same round.                        *)
Field(type) == CASE type = "vote"   -> "votes"
                 [] type = "reveal" -> "reveals"
                 [] type = "cert"   -> "certificates"
                 [] type = "sig"    -> "signatures"

Outstanding ==
    {p \in up \X msgs :
        LET m == p[2] IN
        /\ Accepts(p[1], m, m.type, Field(m.type))
        /\ votingEpoch[m.from] = m.epoch}

(* The clock reaches the next slot: no timer is more than MaxLag slots late *)
(* and no more than MaxLate commands are on their way.  A fetch gives up    *)
(* after two minutes, less than a slot.                                     *)
Tick ==
    /\ now < MaxTime
    /\ \A a \in up : now < wake[a] + MaxLag
    /\ Cardinality(Outstanding) <= MaxLate
    /\ now' = now + 1
    /\ fetching' = [a \in Authority |-> {f \in fetching[a] : f.until > now}]
    /\ UNCHANGED <<up, crashes, fsmVars, ledger, disk, published, msgs>>

Next ==
    \/ Tick
    \/ \E a \in Authority :
          \/ Fsm(a)
          \/ \E m \in msgs : Deliver(a, m)
          \/ \E b \in Authority : FetchConsensus(a, b)
          \/ Crash(a)
          \/ Restart(a)

Spec == Init /\ [][Next]_vars

(* The timers fire, the sent commands arrive, and the clock goes on. *)
Fairness ==
    /\ WF_vars(Tick)
    /\ \A a \in Authority :
          /\ WF_vars(Fsm(a))
          /\ WF_vars(\E m \in msgs : Deliver(a, m))

FairSpec == Spec /\ Fairness

-----------------------------------------------------------------------------
(* Properties.                                                             *)

(* The shape of the state: the clock and the schedule are numbers, the FSM  *)
(* is in one of its states, and what is stored comes from the network.      *)
States == {"bootstrap", "accept_desc", "accept_vote", "accept_reveal",
           "accept_cert", "accept_signature"}

Secrets == [from : Authority, epoch : Nat, nonce : Nat]

LedgerType ==
    [votes       : SUBSET {m \in msgs : m.type = "vote"},
     commits     : SUBSET Secrets,
     reveals     : SUBSET Secrets,
     certificates: SUBSET {m \in msgs : m.type = "cert"},
     signatures  : SUBSET {m \in msgs : m.type = "sig"},
     myconsensus : SUBSET {m.body : m \in {m \in msgs : m.type = "sig"}},
     documents   : SUBSET published]

TypeOK ==
    /\ now \in Nat /\ crashes \in Nat
    /\ up \in SUBSET Authority
    /\ state \in [Authority -> States]
    /\ votingEpoch \in [Authority -> Nat]
    /\ wake \in [Authority -> Nat]
    /\ ledger \in [Authority -> LedgerType]
    /\ disk \in [Authority -> SUBSET published]
    /\ \A m \in msgs :
          /\ m.from \in Authority /\ m.epoch \in Nat
          /\ m.type = "vote" => m.commit \in Secrets
          /\ m.type = "reveal" => m.reveal \in Secrets

(* An authority says one thing of each kind per epoch: one vote, one reveal, *)
(* one certificate, one signature.  A process that crashed and came back     *)
(* remembers nothing of what it sent; only the schedule of fsm() keeps it    *)
(* from voting or signing again.                                             *)
NoEquivocation ==
    \A m1, m2 \in msgs :
        m1.type = m2.type /\ m1.from = m2.from /\ m1.epoch = m2.epoch => m1 = m2

(* No two documents are ever signed by a majority for the same epoch, at the *)
(* same authority or at two of them (getThresholdConsensus).                 *)
Agreement ==
    \A d1, d2 \in published : d1.epoch = d2.epoch => d1.body = d2.body

(* Every mix of a published document is in the votes that a majority of the  *)
(* authorities sent for that epoch: tallyVotes counts votes, late or early,  *)
(* once each and for the right epoch.                                        *)
MajorityMixes ==
    \A d \in published : \A x \in d.body.mixes :
        2 * Cardinality({m.from : m \in {m \in msgs : /\ m.type = "vote"
                                                     /\ m.epoch = d.epoch
                                                     /\ x \in m.mixes}})
            > Cardinality(Authority)

(* The shared random of a published document mixes the random numbers of a   *)
(* majority, and each of them was committed to in a vote and then revealed   *)
(* by the authority it is counted for (verifyCommits, computeSharedRandom).  *)
MajorityRandom ==
    \A d \in published :
        /\ 2 * Cardinality({r.from : r \in d.body.srv.reveals}) > Cardinality(Authority)
        /\ \A r \in d.body.srv.reveals : \E v, w \in msgs :
              /\ v.type = "vote" /\ v.from = r.from /\ v.epoch = d.epoch
              /\ v.commit = r
              /\ w.type = "reveal" /\ w.from = r.from /\ w.epoch = d.epoch
              /\ w.reveal = r

(* The strengthening that makes NoEquivocation and Agreement inductive.      *)

Phase(s) == CASE s \in {"bootstrap", "accept_desc"} -> 0
              [] s = "accept_vote"      -> 1
              [] s = "accept_reveal"    -> 2
              [] s = "accept_cert"      -> 3
              [] s = "accept_signature" -> 4

SentIn(type) == CASE type = "vote"   -> 1
                  [] type = "reveal" -> 2
                  [] type = "cert"   -> 3
                  [] type = "sig"    -> 4

(* The earliest slot at which anything is said about epoch e: the upload     *)
(* deadline of the epoch before, after which a restarted process sits out.   *)
VotingStarts(e) == EpochStart(e - 1) + MixPublishDeadline

OnSchedule ==
    /\ \A a \in up :
          /\ state[a] = "bootstrap" => wake[a] >= EpochStart(votingEpoch[a] - 1)
          /\ state[a] = "accept_desc" => wake[a] >= VotingStarts(votingEpoch[a])
          /\ Phase(state[a]) > 0 => now >= VotingStarts(votingEpoch[a])
    /\ \A a \in Authority \ up : state[a] = "bootstrap" /\ votingEpoch[a] = 0

SaidInTurn ==
    \A m \in msgs :
        /\ now >= VotingStarts(m.epoch)
        /\ m.from \in up /\ state[m.from] # "bootstrap" =>
              \/ m.epoch < votingEpoch[m.from]
              \/ /\ m.epoch = votingEpoch[m.from]
                 /\ SentIn(m.type) <= Phase(state[m.from])

WellFormedMessages ==
    \A m \in msgs :
        /\ m.type \in {"vote", "reveal", "cert", "sig"}
        /\ m.type = "vote" => m.commit.from = m.from /\ m.commit.epoch = m.epoch
        /\ m.type = "reveal" => m.reveal.from = m.from /\ m.reveal.epoch = m.epoch
        /\ m.type = "sig" => m.body.epoch = m.epoch

OneRevealEach ==
    \A a \in Authority : \A r1, r2 \in ledger[a].reveals :
        r1.from = r2.from /\ r1.epoch = r2.epoch => r1 = r2

HasSigned(p, e, b) ==
    \E m \in msgs : m.type = "sig" /\ m.from = p /\ m.epoch = e /\ m.body = b

OwnConsensusSigned ==
    \A a \in Authority : \A b \in ledger[a].myconsensus : HasSigned(a, b.epoch, b)

PublishedIsSigned ==
    \A d \in published :
        /\ d.sigs \subseteq Authority
        /\ Cardinality(d.sigs) >= Threshold
        /\ \A p \in d.sigs : HasSigned(p, d.epoch, d.body)

IInv ==
    /\ TypeOK
    /\ OnSchedule
    /\ SaidInTurn
    /\ WellFormedMessages
    /\ OneRevealEach
    /\ NoEquivocation
    /\ OwnConsensusSigned
    /\ PublishedIsSigned

(* Commit, then reveal: once any authority has revealed its random number    *)
(* for an epoch, no authority commits to one for that epoch any more.        *)
CommitBeforeReveal ==
    [][\A v \in msgs' \ msgs : v.type = "vote" =>
          ~\E w \in msgs : w.type = "reveal" /\ w.epoch = v.epoch]_vars

(* The FSM of a running authority never turns back to an epoch it left, with *)
(* however many rounds lost and however late its timers fire.                *)
MovesForward == \A a \in up \cap up' : votingEpoch[a] <= votingEpoch'[a]

NeverBackward == [][MovesForward]_vars

(* With one crash at any moment and commands in time, no two epochs in a row *)
(* are left without a document: when the round of epoch e is over, during    *)
(* which the document of epoch e + 1 is due, one of the two is there.        *)
Decided(e) == \E d \in published : d.epoch = e

OneRoundLost ==
    \A e \in EpochAt(StartTime) + 1 .. Epoch :
        now > EpochStart(e) + PublishConsensusDeadline => Decided(e) \/ Decided(e + 1)

(* When every command arrives in its phase, every epoch voted on gets a      *)
(* document, and every authority gets it.                                    *)
EveryEpochDecided ==
    \A e \in EpochAt(StartTime) + 1 .. EpochAt(MaxTime - PublishConsensusDeadline) + 1 :
        <>(\A a \in Authority : \E d \in ledger[a].documents : d.epoch = e)

(* PriorSharedRandom is for "applications that need a longer lived SRV"      *)
(* (core/pki/document.go:172): its values are the random of some document.   *)
PriorRandomIsPublished ==
    \A d \in published : ZeroSRV \notin {d.body.prior[1], d.body.prior[2]}

(* The authorities together implement a directory that has at most one       *)
(* document per epoch; each holds some of its documents.                     *)
Held(a) == ledger[a].documents \cup disk[a]

Contents(S) == {[epoch |-> d.epoch, body |-> d.body] : d \in S}

decidedContents == Contents(published)
heldContents    == [a \in Authority |-> Contents(Held(a))]

Directory == INSTANCE DirectoryConsensus WITH
    decided <- decidedContents,
    held    <- heldContents

Implements == Directory!Spec
=============================================================================
