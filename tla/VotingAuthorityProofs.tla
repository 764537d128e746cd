------------------------ MODULE VotingAuthorityProofs ------------------------
(***************************************************************************)
(* Theorems about the directory authorities of VotingAuthority, for any    *)
(* number of authorities, any schedule of crashes, restarts and late       *)
(* timers, and any loss, delay or repetition of commands.                  *)
(***************************************************************************)
EXTENDS VotingAuthority, FiniteSetTheorems, TLAPS

-----------------------------------------------------------------------------
(* Type correctness.                                                       *)

(* What is stored stays well typed when more has been sent and published. *)
LEMMA LedgerTypeGrows ==
    ASSUME NEW l \in LedgerType, msgs \subseteq msgs', published \subseteq published'
    PROVE  l \in LedgerType'
BY DEF LedgerType, Secrets

(* pruneDocuments only removes entries. *)
LEMMA PruneType ==
    ASSUME NEW l \in LedgerType
    PROVE  /\ Prune(l) \in LedgerType
           /\ \A f \in LedgerFields : Prune(l)[f] \subseteq l[f]
BY DEF LedgerType, Prune, LedgerFields, Kept, Secrets

LEMMA PruneTypePrime ==
    ASSUME NEW l \in LedgerType'
    PROVE  /\ Prune(l) \in LedgerType'
           /\ \A f \in LedgerFields : Prune(l)[f] \subseteq l[f]
BY DEF LedgerType, Prune, LedgerFields, Kept, Secrets

(* restorePersistence and FetchConsensus only change the documents. *)
LEMMA WithDocuments ==
    ASSUME NEW l \in LedgerType, NEW D \in SUBSET published
    PROVE  [l EXCEPT !.documents = D] \in LedgerType
BY DEF LedgerType

LEMMA InitType == Init => TypeOK
BY TimeAssumption
   DEF Init, TypeOK, LedgerType, EmptyLedger, LedgerFields, States, Secrets

(* The moments the schedule computes are slots. *)
LEMMA Moments ==
    ASSUME TypeOK, NEW k \in Nat
    PROVE  /\ Epoch \in Nat /\ Elapsed(k) \in Nat /\ NextEpoch(k) \in Nat
           /\ 8 * Epoch <= now /\ now < 8 * Epoch + 8
           /\ Elapsed(k) = 8 * Epoch + k
           /\ NextEpoch(k) = 8 * Epoch + 8 + k
BY SMTT(20) DEF TypeOK, Epoch, EpochAt, Elapsed, NextEpoch, EpochStart, SlotsPerEpoch

(* getVote and doCommit: what an authority notes down and sends when it votes. *)
LEMMA Votes ==
    ASSUME NEW a \in Authority, FsmAcceptDescriptor(a)
    PROVE  \E mixes \in Ballots : \E new :
              /\ new \subseteq {[type |-> "vote", from |-> a, epoch |-> votingEpoch[a],
                                 mixes |-> mixes, commit |-> Secret(a, votingEpoch[a])]}
              /\ msgs' = msgs \cup new
              /\ ledger' = [ledger EXCEPT ![a] = Prune([ledger[a] EXCEPT
                    !.commits = {r \in ledger[a].commits : r.epoch # votingEpoch[a] \/ r.from # a}
                                    \cup {Secret(a, votingEpoch[a])},
                    !.reveals = {r \in ledger[a].reveals : r.epoch # votingEpoch[a] \/ r.from # a}
                                    \cup {Secret(a, votingEpoch[a])},
                    !.votes   = ledger[a].votes \cup new])]
BY DEF FsmAcceptDescriptor

LEMMA TypeStep == TypeOK /\ [Next]_vars => TypeOK'
<1> SUFFICES ASSUME TypeOK, [Next]_vars PROVE TypeOK'
    OBVIOUS
<1>a. /\ Epoch \in Nat
      /\ \A k \in Nat : Elapsed(k) \in Nat /\ NextEpoch(k) \in Nat
    BY Moments
<1> USE DEF MixPublishDeadline, AuthorityVoteDeadline, AuthorityRevealDeadline,
            AuthorityCertDeadline, PublishConsensusDeadline
<1>b. \A a \in Authority : ledger[a] \in LedgerType
    BY DEF TypeOK
<1>c. \A a \in Authority : Prune(ledger[a]) \in LedgerType
    BY <1>b, PruneType
<1>1. CASE Tick
    BY <1>1 DEF Tick, TypeOK, fsmVars, LedgerType, Secrets
<1>2. ASSUME NEW a \in Authority, FsmBootstrap(a) PROVE TypeOK'
  <2>1. msgs' = msgs /\ published' = published /\ up' = up /\ now' = now /\ crashes' = crashes
      BY <1>2 DEF FsmBootstrap, clockVars
  <2>2. ledger' \in [Authority -> LedgerType']
      BY <1>2, <1>c, <2>1, LedgerTypeGrows DEF FsmBootstrap, TypeOK
  <2>3. disk' \in [Authority -> SUBSET published']
      BY <1>2, <2>1 DEF FsmBootstrap, TypeOK, Kept
  <2>4. /\ votingEpoch' \in [Authority -> Nat] /\ wake' \in [Authority -> Nat]
        /\ state' \in [Authority -> States]
      BY <1>2, <1>a DEF FsmBootstrap, TypeOK, SitOut, Goto, States
  <2> QED BY <2>1, <2>2, <2>3, <2>4 DEF TypeOK
<1>3. ASSUME NEW a \in Authority, FsmAcceptDescriptor(a) PROVE TypeOK'
  <2>1. /\ published' = published /\ up' = up /\ now' = now /\ crashes' = crashes
        /\ votingEpoch' = votingEpoch
      BY <1>3 DEF FsmAcceptDescriptor, clockVars
  <2> DEFINE e == votingEpoch[a]
             secret == Secret(a, e)
             others(f) == {r \in ledger[a][f] : r.epoch # e \/ r.from # a}
  <2>2. secret \in Secrets /\ secret.from = a /\ secret.epoch = e
      BY DEF TypeOK, Secret, Secrets
  <2>3. PICK mixes, new :
           /\ new \subseteq {[type |-> "vote", from |-> a, epoch |-> e,
                             mixes |-> mixes, commit |-> secret]}
           /\ msgs' = msgs \cup new
           /\ ledger' = [ledger EXCEPT ![a] = Prune([ledger[a] EXCEPT
                            !.commits = others("commits") \cup {secret},
                            !.reveals = others("reveals") \cup {secret},
                            !.votes   = ledger[a].votes \cup new])]
      BY <1>3, Votes
  <2>a. /\ others("commits") \cup {secret} \subseteq Secrets
        /\ others("reveals") \cup {secret} \subseteq Secrets
      BY <2>2, <1>b DEF LedgerType
  <2>b. new \subseteq {m \in msgs' : m.type = "vote"}
      BY <2>3
  <2>c. ledger[a] \in LedgerType'
      BY <2>1, <2>3, <1>b, LedgerTypeGrows
  <2> HIDE DEF others, secret
  <2>4. [ledger[a] EXCEPT !.commits = others("commits") \cup {secret},
                          !.reveals = others("reveals") \cup {secret},
                          !.votes   = ledger[a].votes \cup new] \in LedgerType'
      BY <2>a, <2>b, <2>c DEF LedgerType, Secrets
  <2>5. ledger' \in [Authority -> LedgerType']
      BY <2>1, <2>3, <2>4, <1>b, PruneTypePrime, LedgerTypeGrows DEF TypeOK
  <2>6. disk' \in [Authority -> SUBSET published']
      BY <1>3, <2>1 DEF FsmAcceptDescriptor, TypeOK, Kept
  <2>7. wake' \in [Authority -> Nat] /\ state' \in [Authority -> States]
      BY <1>3, <1>a DEF FsmAcceptDescriptor, TypeOK, Goto, States
  <2>8. \A m \in msgs' :
          /\ m.from \in Authority /\ m.epoch \in Nat
          /\ m.type = "vote" => m.commit \in Secrets'
          /\ m.type = "reveal" => m.reveal \in Secrets'
      BY <2>2, <2>3 DEF TypeOK, Secrets
  <2> QED BY <2>1, <2>5, <2>6, <2>7, <2>8 DEF TypeOK
<1>4. ASSUME NEW a \in Authority, FsmAcceptVote(a) PROVE TypeOK'
  <2>1. /\ published' = published /\ up' = up /\ now' = now /\ crashes' = crashes
        /\ votingEpoch' = votingEpoch /\ msgs \subseteq msgs'
      BY <1>4 DEF FsmAcceptVote, clockVars
  <2>2. ledger' \in [Authority -> LedgerType']
      BY <1>4, <1>b, <1>c, <2>1, LedgerTypeGrows DEF FsmAcceptVote, TypeOK
  <2>3. disk' \in [Authority -> SUBSET published']
      BY <1>4, <2>1 DEF FsmAcceptVote, TypeOK, Kept
  <2>4. wake' \in [Authority -> Nat] /\ state' \in [Authority -> States]
      BY <1>4, <1>a DEF FsmAcceptVote, TypeOK, Goto, States
  <2>5. \A r \in ledger[a].reveals : r \in Secrets
      BY <1>b DEF LedgerType
  <2>6. \A m \in msgs' :
          /\ m.from \in Authority /\ m.epoch \in Nat
          /\ m.type = "vote" => m.commit \in Secrets'
          /\ m.type = "reveal" => m.reveal \in Secrets'
      BY <1>4, <2>5 DEF FsmAcceptVote, TypeOK, Secrets, At
  <2> QED BY <2>1, <2>2, <2>3, <2>4, <2>6 DEF TypeOK
<1>5. ASSUME NEW a \in Authority, FsmAcceptReveal(a) PROVE TypeOK'
  <2>1. /\ published' = published /\ up' = up /\ now' = now /\ crashes' = crashes
        /\ votingEpoch' = votingEpoch
      BY <1>5 DEF FsmAcceptReveal, clockVars
  <2>2. PICK new :
           /\ \A m \in new : m.type = "cert" /\ m.from = a /\ m.epoch = votingEpoch[a]
           /\ msgs' = msgs \cup new
           /\ ledger' = [ledger EXCEPT ![a] =
                            Prune([ledger[a] EXCEPT !.certificates = ledger[a].certificates \cup new])]
    <3> DEFINE e == votingEpoch[a]
               cert == [type |-> "cert", from |-> a, epoch |-> e,
                        commits |-> At(a, "commits", e), reveals |-> At(a, "reveals", e)]
               new == IF /\ CanTally(a, e)
                         /\ WellFormedCertificate(tallyVotes(a, e), At(a, "commits", e),
                                                  At(a, "reveals", e))
                         /\ ~Has(a, "certificates", e, a)
                      THEN {cert} ELSE {}
    <3>1. \A m \in new : m.type = "cert" /\ m.from = a /\ m.epoch = votingEpoch[a]
        OBVIOUS
    <3>2. /\ msgs' = msgs \cup new
          /\ ledger' = [ledger EXCEPT ![a] =
                           Prune([ledger[a] EXCEPT !.certificates = ledger[a].certificates \cup new])]
        BY <1>5 DEF FsmAcceptReveal
    <3> QED BY <3>1, <3>2
  <2>3. [ledger[a] EXCEPT !.certificates = ledger[a].certificates \cup new] \in LedgerType'
      BY <2>1, <2>2, <1>b DEF LedgerType, Secrets
  <2>4. ledger' \in [Authority -> LedgerType']
      BY <2>1, <2>2, <2>3, <1>b, PruneTypePrime, LedgerTypeGrows DEF TypeOK
  <2>5. disk' \in [Authority -> SUBSET published']
      BY <1>5, <2>1 DEF FsmAcceptReveal, TypeOK, Kept
  <2>6. wake' \in [Authority -> Nat] /\ state' \in [Authority -> States]
      BY <1>5, <1>a DEF FsmAcceptReveal, TypeOK, Goto, States
  <2>7. \A m \in msgs' :
          /\ m.from \in Authority /\ m.epoch \in Nat
          /\ m.type = "vote" => m.commit \in Secrets'
          /\ m.type = "reveal" => m.reveal \in Secrets'
      BY <2>2 DEF TypeOK, Secrets
  <2> QED BY <2>1, <2>4, <2>5, <2>6, <2>7 DEF TypeOK
<1>6. ASSUME NEW a \in Authority, FsmAcceptCert(a) PROVE TypeOK'
  <2>1. /\ published' = published /\ up' = up /\ now' = now /\ crashes' = crashes
        /\ votingEpoch' = votingEpoch
      BY <1>6 DEF FsmAcceptCert, clockVars
  <2>2. PICK signed :
           /\ msgs' = msgs \cup {[type |-> "sig", from |-> a, epoch |-> votingEpoch[a],
                                  body |-> b] : b \in signed}
           /\ ledger' = [ledger EXCEPT ![a] =
                            Prune([ledger[a] EXCEPT !.myconsensus = ledger[a].myconsensus \cup signed])]
      BY <1>6 DEF FsmAcceptCert
  <2>3. \A b \in signed : \E m \in msgs' : m.type = "sig" /\ m.body = b
    <3> TAKE b \in signed
    <3> DEFINE m == [type |-> "sig", from |-> a, epoch |-> votingEpoch[a], body |-> b]
    <3>1. m \in msgs'
        BY <2>2
    <3>2. m.type = "sig" /\ m.body = b
        OBVIOUS
    <3> HIDE DEF m
    <3> QED BY <3>1, <3>2
  <2>4. [ledger[a] EXCEPT !.myconsensus = ledger[a].myconsensus \cup signed] \in LedgerType'
      BY <2>1, <2>2, <2>3, <1>b DEF LedgerType, Secrets
  <2>5. ledger' \in [Authority -> LedgerType']
      BY <2>1, <2>2, <2>4, <1>b, PruneTypePrime, LedgerTypeGrows DEF TypeOK
  <2>6. disk' \in [Authority -> SUBSET published']
      BY <1>6, <2>1 DEF FsmAcceptCert, TypeOK, Kept
  <2>7. wake' \in [Authority -> Nat] /\ state' \in [Authority -> States]
      BY <1>6, <1>a DEF FsmAcceptCert, TypeOK, Goto, States
  <2>8. \A m \in msgs' :
          /\ m.from \in Authority /\ m.epoch \in Nat
          /\ m.type = "vote" => m.commit \in Secrets'
          /\ m.type = "reveal" => m.reveal \in Secrets'
      BY <2>2 DEF TypeOK, Secrets
  <2> QED BY <2>1, <2>5, <2>6, <2>7, <2>8 DEF TypeOK
<1>7. ASSUME NEW a \in Authority, FsmConsensusReached(a) PROVE TypeOK'
  <2>1. /\ up' = up /\ now' = now /\ crashes' = crashes /\ msgs' = msgs
      BY <1>7 DEF FsmConsensusReached, clockVars
  <2>2. PICK d : /\ published' = published \cup {d}
                 /\ disk' = [disk EXCEPT ![a] = Kept(Store(@, d))]
                 /\ ledger' = [ledger EXCEPT ![a] = Prune([ledger[a] EXCEPT
                                  !.documents = Store(ledger[a].documents, d)])]
      BY <1>7 DEF FsmConsensusReached
  <2>3. [ledger[a] EXCEPT !.documents = Store(ledger[a].documents, d)] \in LedgerType'
      BY <2>1, <2>2, <1>b DEF LedgerType, Secrets, Store
  <2>4. ledger' \in [Authority -> LedgerType']
      BY <2>1, <2>2, <2>3, <1>b, PruneTypePrime, LedgerTypeGrows DEF TypeOK
  <2>5. disk' \in [Authority -> SUBSET published']
      BY <2>2 DEF TypeOK, Kept, Store
  <2>6. /\ votingEpoch' \in [Authority -> Nat] /\ wake' \in [Authority -> Nat]
        /\ state' \in [Authority -> States]
      BY <1>7, <1>a DEF FsmConsensusReached, TypeOK, Goto, States
  <2> QED BY <2>1, <2>4, <2>5, <2>6 DEF TypeOK, Secrets
<1>8. ASSUME NEW a \in Authority, FsmConsensusFailed(a) PROVE TypeOK'
  <2>1. msgs' = msgs /\ published' = published /\ up' = up /\ now' = now /\ crashes' = crashes
      BY <1>8 DEF FsmConsensusFailed, clockVars
  <2>2. ledger' \in [Authority -> LedgerType']
      BY <1>8, <1>c, <2>1, LedgerTypeGrows DEF FsmConsensusFailed, TypeOK
  <2>3. disk' \in [Authority -> SUBSET published']
      BY <1>8, <2>1 DEF FsmConsensusFailed, TypeOK, Kept
  <2>4. /\ votingEpoch' \in [Authority -> Nat] /\ wake' \in [Authority -> Nat]
        /\ state' \in [Authority -> States]
      BY <1>8, <1>a DEF FsmConsensusFailed, TypeOK, SitOut, Goto, States
  <2> QED BY <2>1, <2>2, <2>3, <2>4 DEF TypeOK
<1>9. ASSUME NEW a \in Authority, NEW m \in msgs, Deliver(a, m) PROVE TypeOK'
  <2>1. UNCHANGED <<clockVars, fsmVars, docVars, msgs>>
      BY <1>9 DEF Deliver, OnVoteUpload, OnRevealUpload, OnCertUpload, OnSigUpload
  <2>2. ledger' \in [Authority -> LedgerType]
    <3>1. CASE OnVoteUpload(a, m)
      <4>. m \in msgs /\ m.type = "vote" /\ m.commit \in Secrets
          BY <3>1 DEF OnVoteUpload, Accepts, TypeOK
      <4>1. [ledger[a] EXCEPT !.votes = @ \cup {m}, !.commits = @ \cup {m.commit}]
               \in LedgerType
          BY <1>b DEF LedgerType
      <4>2. ledger' = [ledger EXCEPT ![a] =
               [ledger[a] EXCEPT !.votes = @ \cup {m}, !.commits = @ \cup {m.commit}]]
          BY <3>1 DEF OnVoteUpload
      <4> QED BY <4>1, <4>2 DEF TypeOK
    <3>2. CASE OnRevealUpload(a, m)
      <4>. m \in msgs /\ m.type = "reveal" /\ m.reveal \in Secrets
          BY <3>2 DEF OnRevealUpload, Accepts, TypeOK
      <4>1. [ledger[a] EXCEPT !.reveals = @ \cup {m.reveal}] \in LedgerType
          BY <1>b DEF LedgerType
      <4> QED BY <3>2, <4>1 DEF OnRevealUpload, TypeOK
    <3>3. CASE OnCertUpload(a, m)
      <4>. m \in msgs /\ m.type = "cert"
          BY <3>3 DEF OnCertUpload, Accepts, TypeOK
      <4>1. [ledger[a] EXCEPT !.certificates = @ \cup {m}] \in LedgerType
          BY <1>b DEF LedgerType
      <4> QED BY <3>3, <4>1 DEF OnCertUpload, TypeOK
    <3>4. CASE OnSigUpload(a, m)
      <4>. m \in msgs /\ m.type = "sig"
          BY <3>4 DEF OnSigUpload, Accepts, TypeOK
      <4>1. [ledger[a] EXCEPT !.signatures = @ \cup {m}] \in LedgerType
          BY <1>b DEF LedgerType
      <4> QED BY <3>4, <4>1 DEF OnSigUpload, TypeOK
    <3> QED BY <1>9, <3>1, <3>2, <3>3, <3>4 DEF Deliver
  <2>3. msgs' = msgs /\ published' = published
      BY <2>1 DEF docVars
  <2>4. ledger' \in [Authority -> LedgerType']
      BY <2>2, <2>3, <1>b, LedgerTypeGrows DEF TypeOK
  <2> QED BY <2>1, <2>4 DEF TypeOK, clockVars, fsmVars, docVars, Secrets
<1>10. ASSUME NEW a \in Authority, NEW b \in Authority, FetchConsensus(a, b) PROVE TypeOK'
  <2>1. UNCHANGED <<clockVars, fsmVars, disk, published, msgs>>
      BY <1>10 DEF FetchConsensus
  <2>2. \/ ledger' = ledger
        \/ \E d \in ledger[b].documents :
              ledger' = [ledger EXCEPT ![a].documents = @ \cup {d}]
      BY <1>10 DEF FetchConsensus, At
  <2>3. \A d \in ledger[b].documents :
           [ledger[a] EXCEPT !.documents = ledger[a].documents \cup {d}] \in LedgerType
    <3> TAKE d \in ledger[b].documents
    <3>1. ledger[a].documents \cup {d} \in SUBSET published
        BY <1>b DEF LedgerType
    <3> QED BY <1>b, <3>1, WithDocuments
  <2>4. ledger' \in [Authority -> LedgerType]
      BY <2>2, <2>3, <1>b DEF TypeOK
  <2>5. ledger' \in [Authority -> LedgerType']
      BY <2>1, <2>4, LedgerTypeGrows DEF TypeOK
  <2> QED BY <2>1, <2>5 DEF TypeOK, clockVars, fsmVars, Secrets
<1>11. ASSUME NEW a \in Authority, Crash(a) PROVE TypeOK'
  <2>1. now' = now /\ disk' = disk /\ published' = published /\ msgs' = msgs
      BY <1>11 DEF Crash
  <2>2. EmptyLedger \in LedgerType
      BY DEF EmptyLedger, LedgerFields, LedgerType
  <2>3. ledger' \in [Authority -> LedgerType']
      BY <1>11, <2>1, <2>2, <1>b, LedgerTypeGrows DEF Crash, TypeOK
  <2> QED BY <1>11, <2>1, <2>3 DEF Crash, TypeOK, States, Secrets
<1>12. ASSUME NEW a \in Authority, Restart(a) PROVE TypeOK'
  <2>1. UNCHANGED <<now, crashes, state, votingEpoch, genesisEpoch, priorSRV, docVars, msgs>>
      BY <1>12 DEF Restart
  <2>2. [ledger[a] EXCEPT !.documents = {d \in disk[a] : d.epoch \in Epoch - 1 .. Epoch + 1}]
           \in LedgerType
    <3>1. {d \in disk[a] : d.epoch \in Epoch - 1 .. Epoch + 1} \in SUBSET published
        BY DEF TypeOK
    <3> QED BY <1>b, <3>1, WithDocuments
  <2>3. ledger' \in [Authority -> LedgerType']
      BY <1>12, <2>1, <2>2, <1>b, LedgerTypeGrows DEF Restart, TypeOK, docVars
  <2> QED BY <1>12, <2>1, <2>3 DEF Restart, TypeOK, docVars, Secrets
<1>13. CASE UNCHANGED vars
    BY <1>13 DEF vars, clockVars, fsmVars, docVars, TypeOK, LedgerType, Secrets
<1> QED
    BY <1>1, <1>2, <1>3, <1>4, <1>5, <1>6, <1>7, <1>8, <1>9, <1>10, <1>11, <1>12, <1>13
    DEF Next, Fsm

(* The authorities' state keeps its shape: every stored command was sent by *)
(* a peer, every document stored or served had a majority's signatures.     *)
THEOREM TypeCorrect == Spec => []TypeOK
BY InitType, TypeStep, PTL DEF Spec
-----------------------------------------------------------------------------
(* How a step moves the FSM of an authority p that runs afterwards.         *)

Stays(p) ==
    /\ p \in up
    /\ state'[p] = state[p] /\ votingEpoch'[p] = votingEpoch[p] /\ wake'[p] = wake[p]
    /\ now' \in Nat /\ now <= now'

StartsVoting(p) ==
    /\ p \in up /\ now' = now /\ ~TooLateToVote
    /\ state[p] = "bootstrap" /\ wake[p] <= now
    /\ state'[p] = "accept_desc"
    /\ votingEpoch'[p] = Epoch + 1 /\ wake'[p] = Elapsed(MixPublishDeadline)

SitsOut(p) ==
    /\ p \in up /\ now' = now /\ wake[p] <= now
    /\ state[p] \in {"bootstrap", "accept_signature"} /\ state'[p] = "bootstrap"
    /\ votingEpoch'[p] = Epoch + 2 /\ wake'[p] = NextEpoch(0)

ComesBack(p) ==
    /\ p \notin up /\ now' = now
    /\ state'[p] = "bootstrap" /\ votingEpoch'[p] = 0 /\ wake'[p] = now

Advances(p) ==
    /\ p \in up /\ now' = now /\ wake[p] <= now
    /\ state[p] # "bootstrap" /\ state'[p] # "bootstrap"
    /\ Phase(state'[p]) = Phase(state[p]) + 1
    /\ votingEpoch'[p] = votingEpoch[p]

Succeeds(p) ==
    /\ p \in up /\ now' = now
    /\ state[p] = "accept_signature" /\ state'[p] = "accept_desc"
    /\ votingEpoch'[p] = votingEpoch[p] + 1 /\ wake'[p] = NextEpoch(MixPublishDeadline)

Moves(p) ==
    \/ Stays(p)
    \/ ComesBack(p)
    \/ SitsOut(p)
    \/ StartsVoting(p)
    \/ Advances(p)
    \/ Succeeds(p)

LEMMA StepMoves ==
    ASSUME TypeOK, OnSchedule, [Next]_vars, NEW p \in up'
    PROVE  Moves(p)
<1> USE DEF Moves
<1>0. p \in Authority /\ now \in Nat
    BY TypeStep DEF TypeOK
<1>1. CASE Tick
    BY <1>1, <1>0 DEF Tick, fsmVars, Stays
<1>2. ASSUME NEW a \in Authority, Fsm(a), p # a PROVE Stays(p)
  <2>1. CASE FsmBootstrap(a)
      BY <2>1, <1>2, <1>0 DEF FsmBootstrap, SitOut, Goto, Stays, clockVars, TypeOK
  <2>2. CASE FsmAcceptDescriptor(a)
      BY <2>2, <1>2, <1>0 DEF FsmAcceptDescriptor, Goto, Stays, clockVars, TypeOK
  <2>3. CASE FsmAcceptVote(a)
      BY <2>3, <1>2, <1>0 DEF FsmAcceptVote, Goto, Stays, clockVars, TypeOK
  <2>4. CASE FsmAcceptReveal(a)
      BY <2>4, <1>2, <1>0 DEF FsmAcceptReveal, Goto, Stays, clockVars, TypeOK
  <2>5. CASE FsmAcceptCert(a)
      BY <2>5, <1>2, <1>0 DEF FsmAcceptCert, Goto, Stays, clockVars, TypeOK
  <2>6. CASE FsmConsensusReached(a)
      BY <2>6, <1>2, <1>0 DEF FsmConsensusReached, Goto, Stays, clockVars, TypeOK
  <2>7. CASE FsmConsensusFailed(a)
      BY <2>7, <1>2, <1>0 DEF FsmConsensusFailed, SitOut, Goto, Stays, clockVars, TypeOK
  <2> QED BY <1>2, <2>1, <2>2, <2>3, <2>4, <2>5, <2>6, <2>7 DEF Fsm
<1>3. CASE FsmBootstrap(p)
    BY <1>3, <1>0 DEF FsmBootstrap, Due, SitOut, Goto, clockVars, StartsVoting, SitsOut, TypeOK
<1>4. CASE FsmAcceptDescriptor(p)
    BY <1>4, <1>0 DEF FsmAcceptDescriptor, Due, Goto, clockVars, Advances, Phase, TypeOK
<1>5. CASE FsmAcceptVote(p)
    BY <1>5, <1>0 DEF FsmAcceptVote, Due, Goto, clockVars, Advances, Phase, TypeOK
<1>6. CASE FsmAcceptReveal(p)
    BY <1>6, <1>0 DEF FsmAcceptReveal, Due, Goto, clockVars, Advances, Phase, TypeOK
<1>7. CASE FsmAcceptCert(p)
    BY <1>7, <1>0 DEF FsmAcceptCert, Due, Goto, clockVars, Advances, Phase, TypeOK
<1>8. CASE FsmConsensusReached(p)
    BY <1>8, <1>0 DEF FsmConsensusReached, Due, Goto, clockVars, Succeeds, TypeOK
<1>9. CASE FsmConsensusFailed(p)
    BY <1>9, <1>0 DEF FsmConsensusFailed, Due, SitOut, Goto, clockVars, SitsOut, TypeOK
<1>10. ASSUME NEW a \in Authority, NEW m \in msgs, Deliver(a, m) PROVE Stays(p)
    BY <1>10, <1>0 DEF Deliver, OnVoteUpload, OnRevealUpload, OnCertUpload, OnSigUpload,
       clockVars, fsmVars, Stays
<1>11. ASSUME NEW a \in Authority, NEW b \in Authority, FetchConsensus(a, b) PROVE Stays(p)
    BY <1>11, <1>0 DEF FetchConsensus, clockVars, fsmVars, Stays
<1>12. ASSUME NEW a \in Authority, Crash(a) PROVE Stays(p)
    BY <1>12, <1>0 DEF Crash, Stays, TypeOK
<1>13. ASSUME NEW a \in Authority, Restart(a), p # a PROVE Stays(p)
    BY <1>13, <1>0 DEF Restart, Stays, TypeOK
<1>14. CASE Restart(p)
    BY <1>14, <1>0 DEF Restart, ComesBack, TypeOK, OnSchedule
<1>15. CASE UNCHANGED vars
    BY <1>15, <1>0 DEF vars, clockVars, fsmVars, Stays
<1> QED
    BY <1>1, <1>2, <1>3, <1>4, <1>5, <1>6, <1>7, <1>8, <1>9, <1>10, <1>11, <1>12, <1>13,
       <1>14, <1>15 DEF Next, Fsm

(* The voting schedule is kept: a vote on an epoch is not due before the    *)
(* upload deadline of the epoch before.                                     *)
LEMMA ScheduleStep ==
    ASSUME TypeOK, OnSchedule, [Next]_vars
    PROVE  OnSchedule'
<1>1. ASSUME NEW p \in Authority \ up'
      PROVE  state'[p] = "bootstrap" /\ votingEpoch'[p] = 0
  <2>1. CASE \E a \in Authority : Crash(a)
      BY <2>1, <1>1 DEF Crash, OnSchedule, TypeOK
  <2>2. CASE \E a \in Authority : Restart(a)
      BY <2>2, <1>1 DEF Restart, OnSchedule
  <2>3. CASE \E a \in Authority : Fsm(a)
    <3> PICK a \in Authority : Fsm(a)
        BY <2>3
    <3>1. up' = up /\ a \in up
        BY DEF Fsm, FsmBootstrap, FsmAcceptDescriptor, FsmAcceptVote, FsmAcceptReveal,
           FsmAcceptCert, FsmConsensusReached, FsmConsensusFailed, Due, clockVars
    <3>2. \E s : state' = [state EXCEPT ![a] = s]
        BY DEF Fsm, FsmBootstrap, FsmAcceptDescriptor, FsmAcceptVote, FsmAcceptReveal,
           FsmAcceptCert, FsmConsensusReached, FsmConsensusFailed, SitOut, Goto
    <3>3. votingEpoch' = votingEpoch \/ \E v : votingEpoch' = [votingEpoch EXCEPT ![a] = v]
        BY DEF Fsm, FsmBootstrap, FsmAcceptDescriptor, FsmAcceptVote, FsmAcceptReveal,
           FsmAcceptCert, FsmConsensusReached, FsmConsensusFailed, SitOut
    <3> QED BY <3>1, <3>2, <3>3, <1>1 DEF OnSchedule, TypeOK
  <2>4. CASE UNCHANGED <<up, state, votingEpoch>>
      BY <2>4, <1>1 DEF OnSchedule
  <2>5. CASE Tick
      BY <2>5, <2>4 DEF Tick, fsmVars
  <2>6. ASSUME NEW a \in Authority, NEW m \in msgs, Deliver(a, m)
        PROVE  UNCHANGED <<up, state, votingEpoch>>
      BY <2>6 DEF Deliver, OnVoteUpload, OnRevealUpload, OnCertUpload, OnSigUpload,
         clockVars, fsmVars
  <2>7. ASSUME NEW a \in Authority, NEW b \in Authority, FetchConsensus(a, b)
        PROVE  UNCHANGED <<up, state, votingEpoch>>
      BY <2>7 DEF FetchConsensus, clockVars, fsmVars
  <2>8. CASE UNCHANGED vars
      BY <2>8, <2>4 DEF vars, clockVars, fsmVars
  <2> QED BY <2>1, <2>2, <2>3, <2>4, <2>5, <2>6, <2>7, <2>8 DEF Next
<1>2. ASSUME NEW p \in up'
      PROVE  /\ state'[p] = "bootstrap" => wake'[p] >= EpochStart(votingEpoch'[p] - 1)
             /\ state'[p] = "accept_desc" => wake'[p] >= VotingStarts(votingEpoch'[p])
             /\ Phase(state'[p]) > 0 => now' >= VotingStarts(votingEpoch'[p])
  <2>0. /\ p \in Authority /\ now \in Nat /\ now' \in Nat
        /\ votingEpoch[p] \in Nat /\ wake[p] \in Nat /\ state[p] \in States
        /\ votingEpoch'[p] \in Nat /\ wake'[p] \in Nat /\ state'[p] \in States
      BY TypeStep DEF TypeOK
  <2>a. \A e \in Nat : VotingStarts(e) = 8 * e - 7
      BY DEF VotingStarts, EpochStart, SlotsPerEpoch, MixPublishDeadline
  <2>1. CASE Stays(p)
      BY <2>1, <2>0, <2>a DEF Stays, OnSchedule
  <2>b. \A e \in Nat : EpochStart(e - 1) = 8 * e - 8
      BY DEF EpochStart, SlotsPerEpoch
  <2>2. CASE ComesBack(p) \/ SitsOut(p)
    <3>1. NextEpoch(0) = 8 * Epoch + 8 /\ Epoch \in Nat
        BY Moments
    <3>2. wake'[p] >= EpochStart(votingEpoch'[p] - 1)
        BY <2>2, <2>0, <2>b, <3>1 DEF ComesBack, SitsOut
    <3> QED BY <2>2, <3>2 DEF ComesBack, SitsOut, Phase
  <2>3. CASE StartsVoting(p)
    <3>1. Elapsed(1) = 8 * Epoch + 1 /\ Epoch \in Nat
        BY Moments
    <3> QED BY <2>3, <2>0, <2>a, <3>1 DEF StartsVoting, Phase, MixPublishDeadline
  <2>4. CASE Advances(p)
    <3>1. now >= VotingStarts(votingEpoch[p])
        BY <2>4, <2>0, <2>a DEF Advances, OnSchedule, Phase, States
    <3>2. state'[p] # "accept_desc"
        BY <2>4, <2>0 DEF Advances, Phase, States
    <3> QED BY <2>4, <3>1, <3>2 DEF Advances
  <2>5. CASE Succeeds(p)
    <3>1. NextEpoch(1) = 8 * Epoch + 9 /\ Epoch \in Nat /\ now < 8 * Epoch + 8
        BY Moments
    <3>2. now >= VotingStarts(votingEpoch[p])
        BY <2>5 DEF Succeeds, OnSchedule, Phase
    <3> QED BY <2>5, <2>0, <2>a, <3>1, <3>2 DEF Succeeds, Phase, MixPublishDeadline
  <2> QED BY <2>1, <2>2, <2>3, <2>4, <2>5, StepMoves DEF Moves
<1> QED BY <1>1, <1>2 DEF OnSchedule, VotingStarts

-----------------------------------------------------------------------------
(* What a step says.  A new command comes from the authority whose timer    *)
(* fired; it is for the epoch it votes on and belongs to its new FSM state. *)

Says(m) ==
    /\ m.from \in up /\ up' = up
    /\ m.epoch = votingEpoch[m.from] /\ votingEpoch'[m.from] = votingEpoch[m.from]
    /\ state[m.from] # "bootstrap" /\ state'[m.from] # "bootstrap"
    /\ SentIn(m.type) = Phase(state'[m.from])
    /\ Phase(state'[m.from]) = Phase(state[m.from]) + 1

WellFormed(m) ==
    /\ m.type \in {"vote", "reveal", "cert", "sig"}
    /\ m.type = "vote" => m.commit.from = m.from /\ m.commit.epoch = m.epoch
    /\ m.type = "reveal" => m.reveal.from = m.from /\ m.reveal.epoch = m.epoch
    /\ m.type = "sig" => m.body.epoch = m.epoch

(* getMyConsensus and sendSigToAuthorities: at most one document is kept    *)
(* as our own, for the epoch voted on, and it is signed and sent.           *)
LEMMA Signs ==
    ASSUME NEW a \in Authority, FsmAcceptCert(a)
    PROVE  \E b, signed :
              /\ signed \subseteq {b} /\ b.epoch = votingEpoch[a]
              /\ msgs' = msgs \cup {[type |-> "sig", from |-> a, epoch |-> votingEpoch[a],
                                     body |-> c] : c \in signed}
              /\ ledger' = [ledger EXCEPT ![a] = Prune([ledger[a] EXCEPT
                               !.myconsensus = ledger[a].myconsensus \cup signed])]
<1> DEFINE e == votingEpoch[a]
           srv(commits) == computeSharedRandom(a, e, commits)
           body(commits) == Body(a, e, tallyVotes(a, e), srv(commits),
                                 ConsensusPriorSRV(a, e, srv(commits)))
           signed(commits) == IF /\ Enough(a, e, commits) /\ CanTally(a, e)
                                 /\ tallyVotes(a, e) # {}
                              THEN {body(commits)} ELSE {}
<1>1. PICK commits \in verifyCommits(a, e) :
         /\ msgs' = msgs \cup {[type |-> "sig", from |-> a, epoch |-> votingEpoch[a],
                                body |-> c] : c \in signed(commits)}
         /\ ledger' = [ledger EXCEPT ![a] = Prune([ledger[a] EXCEPT
                          !.myconsensus = ledger[a].myconsensus \cup signed(commits)])]
    BY DEF FsmAcceptCert
<1>2. signed(commits) \subseteq {body(commits)}
    OBVIOUS
<1>3. body(commits).epoch = votingEpoch[a]
    BY DEF Body
<1> HIDE DEF body, signed
<1> QED BY <1>1, <1>2, <1>3

(* Every new command is of the round and the phase its sender is in, and a  *)
(* step sends one at the most.                                              *)
LEMMA NewMessages ==
    ASSUME TypeOK, OneRevealEach, [Next]_vars
    PROVE  /\ msgs \subseteq msgs'
           /\ \A m \in msgs' \ msgs : Says(m) /\ WellFormed(m)
           /\ \A m1, m2 \in msgs' \ msgs : m1 = m2
<1> DEFINE Goal == /\ msgs \subseteq msgs'
                   /\ \A m \in msgs' \ msgs : Says(m) /\ WellFormed(m)
                   /\ \A m1, m2 \in msgs' \ msgs : m1 = m2
<1>0. CASE msgs' = msgs
    BY <1>0
<1>1. ASSUME NEW a \in Authority, FsmAcceptDescriptor(a) PROVE Goal
  <2>1. /\ a \in up /\ up' = up /\ votingEpoch' = votingEpoch
        /\ state[a] = "accept_desc" /\ state'[a] = "accept_vote"
      BY <1>1 DEF FsmAcceptDescriptor, Due, Goto, clockVars, TypeOK
  <2>2. PICK mixes : msgs' \subseteq msgs \cup
           {[type |-> "vote", from |-> a, epoch |-> votingEpoch[a],
             mixes |-> mixes, commit |-> Secret(a, votingEpoch[a])]} /\ msgs \subseteq msgs'
      BY <1>1 DEF FsmAcceptDescriptor
  <2> QED BY <2>1, <2>2 DEF Says, WellFormed, SentIn, Phase, Secret
<1>2. ASSUME NEW a \in Authority, FsmAcceptVote(a) PROVE Goal
  <2>1. /\ a \in up /\ up' = up /\ votingEpoch' = votingEpoch
        /\ state[a] = "accept_vote" /\ state'[a] = "accept_reveal"
      BY <1>2 DEF FsmAcceptVote, Due, Goto, clockVars, TypeOK
  <2>2. msgs \subseteq msgs'
      BY <1>2 DEF FsmAcceptVote
  <2>3. \A m \in msgs' \ msgs : \E r \in ledger[a].reveals :
           /\ r.epoch = votingEpoch[a] /\ r.from = a
           /\ m = [type |-> "reveal", from |-> a, epoch |-> r.epoch, reveal |-> r]
      BY <1>2 DEF FsmAcceptVote, At
  <2>4. \A m1, m2 \in msgs' \ msgs : m1 = m2
      BY <2>3 DEF OneRevealEach
  <2>5. \A m \in msgs' \ msgs : Says(m) /\ WellFormed(m)
      BY <2>1, <2>3 DEF Says, WellFormed, SentIn, Phase
  <2> QED BY <2>2, <2>4, <2>5
<1>3. ASSUME NEW a \in Authority, FsmAcceptReveal(a) PROVE Goal
  <2>1. /\ a \in up /\ up' = up /\ votingEpoch' = votingEpoch
        /\ state[a] = "accept_reveal" /\ state'[a] = "accept_cert"
      BY <1>3 DEF FsmAcceptReveal, Due, Goto, clockVars, TypeOK
  <2> DEFINE e == votingEpoch[a]
             cert == [type |-> "cert", from |-> a, epoch |-> e,
                      commits |-> At(a, "commits", e), reveals |-> At(a, "reveals", e)]
  <2>2. msgs' \subseteq msgs \cup {cert} /\ msgs \subseteq msgs'
      BY <1>3 DEF FsmAcceptReveal
  <2> QED BY <2>1, <2>2 DEF Says, WellFormed, SentIn, Phase
<1>4. ASSUME NEW a \in Authority, FsmAcceptCert(a) PROVE Goal
  <2>1. /\ a \in up /\ up' = up /\ votingEpoch' = votingEpoch
        /\ state[a] = "accept_cert" /\ state'[a] = "accept_signature"
      BY <1>4 DEF FsmAcceptCert, Due, Goto, clockVars, TypeOK
  <2>2. PICK b, signed :
           /\ signed \subseteq {b} /\ b.epoch = votingEpoch[a]
           /\ msgs' = msgs \cup {[type |-> "sig", from |-> a, epoch |-> votingEpoch[a],
                                  body |-> c] : c \in signed}
      BY <1>4, Signs
  <2> QED BY <2>1, <2>2 DEF Says, WellFormed, SentIn, Phase
<1>5. ASSUME NEW a \in Authority,
             \/ FsmBootstrap(a) \/ FsmConsensusReached(a) \/ FsmConsensusFailed(a)
             \/ Crash(a) \/ Restart(a)
      PROVE  msgs' = msgs
    BY <1>5 DEF FsmBootstrap, FsmConsensusReached, FsmConsensusFailed, Crash, Restart
<1>6. ASSUME NEW a \in Authority, NEW m \in msgs, Deliver(a, m) PROVE msgs' = msgs
    BY <1>6 DEF Deliver, OnVoteUpload, OnRevealUpload, OnCertUpload, OnSigUpload
<1>7. ASSUME NEW a \in Authority, NEW b \in Authority, FetchConsensus(a, b)
      PROVE  msgs' = msgs
    BY <1>7 DEF FetchConsensus
<1>8. Tick \/ UNCHANGED vars => msgs' = msgs
    BY DEF Tick, vars
<1> QED
    BY <1>0, <1>1, <1>2, <1>3, <1>4, <1>5, <1>6, <1>7, <1>8 DEF Next, Fsm

-----------------------------------------------------------------------------
(* Each command is sent once: the schedule keeps an authority from coming   *)
(* back to an epoch on which it has said something.                         *)

LEMMA TimeGoesOn ==
    ASSUME TypeOK, [Next]_vars
    PROVE  now \in Nat /\ now' \in Nat /\ now <= now'
<1>0. now \in Nat
    BY DEF TypeOK
<1>1. CASE Tick
    BY <1>0, <1>1 DEF Tick
<1>2. ASSUME NEW a \in Authority, Fsm(a) PROVE now' = now
    BY <1>2 DEF Fsm, FsmBootstrap, FsmAcceptDescriptor, FsmAcceptVote, FsmAcceptReveal,
       FsmAcceptCert, FsmConsensusReached, FsmConsensusFailed, clockVars
<1>3. ASSUME NEW a \in Authority, NEW m \in msgs, Deliver(a, m) PROVE now' = now
    BY <1>3 DEF Deliver, OnVoteUpload, OnRevealUpload, OnCertUpload, OnSigUpload, clockVars
<1>4. ASSUME NEW a \in Authority, NEW b \in Authority, FetchConsensus(a, b)
      PROVE  now' = now
    BY <1>4 DEF FetchConsensus, clockVars
<1>5. ASSUME NEW a \in Authority, Crash(a) \/ Restart(a) PROVE now' = now
    BY <1>5 DEF Crash, Restart
<1>6. CASE UNCHANGED vars
    BY <1>6, <1>0 DEF vars, clockVars
<1> QED BY <1>0, <1>1, <1>2, <1>3, <1>4, <1>5, <1>6 DEF Next

(* Phases are numbers. *)
LEMMA Phases ==
    /\ \A s \in States : Phase(s) \in Nat
    /\ \A t \in {"vote", "reveal", "cert", "sig"} : SentIn(t) \in Nat
BY DEF Phase, SentIn, States

LEMMA SaidInTurnStep ==
    ASSUME TypeOK, OnSchedule, OneRevealEach, WellFormedMessages, SaidInTurn, [Next]_vars
    PROVE  SaidInTurn'
<1>0. TypeOK' /\ OnSchedule'
    BY TypeStep, ScheduleStep
<1>a. \A e \in Nat : VotingStarts(e) = 8 * e - 7
    BY DEF VotingStarts, EpochStart, SlotsPerEpoch, MixPublishDeadline
<1>1. ASSUME NEW m \in msgs' \ msgs
      PROVE  /\ now' >= VotingStarts(m.epoch)
             /\ m.epoch = votingEpoch'[m.from] /\ SentIn(m.type) <= Phase(state'[m.from])
  <2>1. Says(m)
      BY NewMessages
  <2>2. m.from \in Authority /\ state[m.from] \in States /\ state'[m.from] \in States
      BY <2>1, <1>0 DEF Says, TypeOK
  <2>3. Phase(state'[m.from]) \in Nat /\ Phase(state'[m.from]) > 0
      BY <2>1, <2>2 DEF Says, Phase, States
  <2>4. m.epoch = votingEpoch'[m.from] /\ m.from \in up'
      BY <2>1 DEF Says
  <2>5. now' >= VotingStarts(votingEpoch'[m.from])
      BY <1>0, <2>3, <2>4 DEF OnSchedule, VotingStarts
  <2> QED BY <2>1, <2>3, <2>4, <2>5 DEF Says
<1>2. ASSUME NEW m \in msgs
      PROVE  now' >= VotingStarts(m.epoch)
    BY TimeGoesOn, <1>a DEF SaidInTurn, TypeOK
<1>3. ASSUME NEW m \in msgs, m.from \in up', state'[m.from] # "bootstrap"
      PROVE  \/ m.epoch < votingEpoch'[m.from]
             \/ /\ m.epoch = votingEpoch'[m.from]
                /\ SentIn(m.type) <= Phase(state'[m.from])
  <2> DEFINE p == m.from
  <2>0. /\ p \in Authority /\ m.epoch \in Nat /\ now \in Nat
        /\ votingEpoch[p] \in Nat /\ state[p] \in States /\ state'[p] \in States
      BY <1>0 DEF TypeOK
  <2>1. CASE Stays(p)
      BY <2>1, <1>3 DEF Stays, SaidInTurn
  <2>2. CASE StartsVoting(p)
    <3>1. Elapsed(1) = 8 * Epoch + 1 /\ Epoch \in Nat
        BY Moments
    <3>2. now >= 8 * m.epoch - 7
        BY <1>a, <2>0 DEF SaidInTurn
    <3> QED BY <2>0, <2>2, <3>1, <3>2 DEF StartsVoting, TooLateToVote, MixPublishDeadline
  <2>3. CASE Advances(p)
    <3>1. \/ m.epoch < votingEpoch[p]
          \/ m.epoch = votingEpoch[p] /\ SentIn(m.type) <= Phase(state[p])
        BY <2>3 DEF Advances, SaidInTurn
    <3>2. CASE m.epoch < votingEpoch[p]
        BY <3>2, <2>3 DEF Advances
    <3>3. CASE m.epoch = votingEpoch[p] /\ SentIn(m.type) <= Phase(state[p])
      <4>1. Phase(state[p]) \in Nat /\ Phase(state'[p]) \in Nat
          BY <2>0, Phases
      <4>0. SentIn(m.type) \in Nat
        <5>1. m.type \in {"vote", "reveal", "cert", "sig"}
            BY <1>3 DEF WellFormedMessages
        <5> QED BY <5>1, Phases
      <4>2. Phase(state'[p]) = Phase(state[p]) + 1 /\ votingEpoch'[p] = votingEpoch[p]
          BY <2>3 DEF Advances
      <4> QED BY <3>3, <4>0, <4>1, <4>2
    <3> QED BY <3>1, <3>2, <3>3
  <2>4. CASE Succeeds(p)
      BY <2>4, <2>0 DEF Succeeds, SaidInTurn
  <2> QED BY <2>1, <2>2, <2>3, <2>4, <1>3, StepMoves DEF Moves, ComesBack, SitsOut
<1> QED BY <1>1, <1>2, <1>3 DEF SaidInTurn, VotingStarts, SentIn, Phase

LEMMA WellFormedStep ==
    ASSUME TypeOK, OneRevealEach, WellFormedMessages, [Next]_vars
    PROVE  WellFormedMessages'
BY NewMessages DEF WellFormedMessages, WellFormed

LEMMA NoEquivocationStep ==
    ASSUME TypeOK, OneRevealEach, SaidInTurn, NoEquivocation, [Next]_vars
    PROVE  NoEquivocation'
<1>1. ASSUME NEW m \in msgs' \ msgs, NEW n \in msgs,
             m.type = n.type, m.from = n.from, m.epoch = n.epoch
      PROVE  FALSE
  <2>1. Says(m)
      BY NewMessages
  <2>2. m.from \in Authority /\ state[m.from] \in States /\ votingEpoch[m.from] \in Nat
      BY <1>1 DEF TypeOK
  <2>3. /\ m.epoch = votingEpoch[m.from] /\ SentIn(m.type) = Phase(state[m.from]) + 1
        /\ m.from \in up /\ state[m.from] # "bootstrap"
      BY <2>1 DEF Says
  <2>4. \/ n.epoch < votingEpoch[n.from]
        \/ SentIn(n.type) <= Phase(state[n.from])
      BY <1>1, <2>3 DEF SaidInTurn
  <2>5. Phase(state[m.from]) \in Nat
      BY <2>2, Phases
  <2> QED BY <1>1, <2>2, <2>3, <2>4, <2>5
<1> QED BY <1>1, NewMessages DEF NoEquivocation
-----------------------------------------------------------------------------
(* What a step adds to the reveals and to the documents an authority        *)
(* computed itself.                                                         *)

LEMMA PruneShrinks ==
    ASSUME NEW l, NEW f \in LedgerFields
    PROVE  Prune(l)[f] \subseteq l[f]
BY DEF Prune, Kept

Shrinks(p) ==
    /\ ledger'[p].reveals \subseteq ledger[p].reveals
    /\ ledger'[p].myconsensus \subseteq ledger[p].myconsensus

LEMMA LedgerStep ==
    ASSUME TypeOK, [Next]_vars, NEW p \in Authority
    PROVE  \/ Shrinks(p)
           \/ FsmAcceptDescriptor(p)
           \/ FsmAcceptCert(p)
           \/ \E m \in msgs : OnRevealUpload(p, m)
<1>0. /\ ledger \in [Authority -> LedgerType]
      /\ ledger[p] \in LedgerType
      /\ "reveals" \in LedgerFields /\ "myconsensus" \in LedgerFields
    BY DEF TypeOK, LedgerFields
<1>1. /\ Prune(ledger[p]).reveals \subseteq ledger[p].reveals
      /\ Prune(ledger[p]).myconsensus \subseteq ledger[p].myconsensus
    BY <1>0, PruneShrinks
<1>2. CASE UNCHANGED ledger
    BY <1>2 DEF Shrinks
<1>3. ASSUME NEW a \in Authority, NEW l, a # p, ledger' = [ledger EXCEPT ![a] = l]
      PROVE  Shrinks(p)
    BY <1>3, <1>0 DEF Shrinks
<1>4. ASSUME NEW a \in Authority, ledger' = [ledger EXCEPT ![a] = Prune(ledger[a])]
      PROVE  Shrinks(p)
    BY <1>4, <1>3, <1>1, <1>0 DEF Shrinks
<1>5. ASSUME NEW a \in Authority, FsmBootstrap(a) \/ FsmAcceptVote(a) \/ FsmConsensusFailed(a)
      PROVE  Shrinks(p)
    BY <1>5, <1>4 DEF FsmBootstrap, FsmAcceptVote, FsmConsensusFailed
<1>6. ASSUME NEW a \in Authority, FsmAcceptDescriptor(a), a # p PROVE Shrinks(p)
    BY <1>6, <1>3 DEF FsmAcceptDescriptor
<1>7. ASSUME NEW a \in Authority, FsmAcceptReveal(a) PROVE Shrinks(p)
  <2>1. CASE a # p
      BY <1>7, <1>3, <2>1 DEF FsmAcceptReveal
  <2>2. CASE a = p
    <3>1. PICK S : ledger' = [ledger EXCEPT ![p] = Prune([ledger[p] EXCEPT !.certificates = S])]
        BY <1>7, <2>2 DEF FsmAcceptReveal
    <3>2. LET l == [ledger[p] EXCEPT !.certificates = S]
          IN  l.reveals = ledger[p].reveals /\ l.myconsensus = ledger[p].myconsensus
        BY <1>0 DEF LedgerType
    <3> QED BY <3>1, <3>2, <1>0, PruneShrinks DEF Shrinks
  <2> QED BY <2>1, <2>2
<1>8. ASSUME NEW a \in Authority, FsmAcceptCert(a), a # p PROVE Shrinks(p)
    BY <1>8, <1>3 DEF FsmAcceptCert
<1>9. ASSUME NEW a \in Authority, FsmConsensusReached(a) PROVE Shrinks(p)
  <2>1. CASE a # p
      BY <1>9, <1>3, <2>1 DEF FsmConsensusReached
  <2>2. CASE a = p
    <3>1. PICK S : ledger' = [ledger EXCEPT ![p] = Prune([ledger[p] EXCEPT !.documents = S])]
        BY <1>9, <2>2 DEF FsmConsensusReached
    <3>2. LET l == [ledger[p] EXCEPT !.documents = S]
          IN  l.reveals = ledger[p].reveals /\ l.myconsensus = ledger[p].myconsensus
        BY <1>0 DEF LedgerType
    <3> QED BY <3>1, <3>2, <1>0, PruneShrinks DEF Shrinks
  <2> QED BY <2>1, <2>2
<1>10. ASSUME NEW a \in Authority, NEW m \in msgs,
              OnVoteUpload(a, m) \/ OnCertUpload(a, m) \/ OnSigUpload(a, m)
       PROVE  Shrinks(p)
    BY <1>10, <1>0 DEF OnVoteUpload, OnCertUpload, OnSigUpload, Shrinks, LedgerType
<1>11. ASSUME NEW a \in Authority, NEW m \in msgs, OnRevealUpload(a, m), a # p
       PROVE  Shrinks(p)
    BY <1>11, <1>0 DEF OnRevealUpload, Shrinks
<1>12. ASSUME NEW a \in Authority, NEW b \in Authority, FetchConsensus(a, b)
       PROVE  Shrinks(p)
    BY <1>12, <1>0 DEF FetchConsensus, Shrinks, LedgerType
<1>13. ASSUME NEW a \in Authority, Crash(a) PROVE Shrinks(p)
  <2>1. EmptyLedger.reveals = {} /\ EmptyLedger.myconsensus = {}
      BY DEF EmptyLedger, LedgerFields
  <2> QED BY <1>13, <2>1, <1>0 DEF Crash, Shrinks
<1>14. ASSUME NEW a \in Authority, Restart(a) PROVE Shrinks(p)
    BY <1>14, <1>0 DEF Restart, Shrinks, LedgerType
<1>15. Tick \/ UNCHANGED vars => UNCHANGED ledger
    BY DEF Tick, vars
<1> QED
    BY <1>2, <1>5, <1>6, <1>7, <1>8, <1>9, <1>10, <1>11, <1>12, <1>13, <1>14, <1>15
    DEF Next, Fsm, Deliver

(* A reveal is stored once per sender and epoch: the handler refuses a second *)
(* one, and a vote of our own replaces what we revealed before.               *)
LEMMA OneRevealStep ==
    ASSUME TypeOK, WellFormedMessages, OneRevealEach, [Next]_vars
    PROVE  OneRevealEach'
<1> SUFFICES ASSUME NEW p \in Authority
             PROVE  \A r1, r2 \in ledger'[p].reveals :
                       r1.from = r2.from /\ r1.epoch = r2.epoch => r1 = r2
    BY DEF OneRevealEach
<1>0. ledger \in [Authority -> LedgerType] /\ ledger[p] \in LedgerType
    BY DEF TypeOK
<1>1. CASE Shrinks(p) \/ FsmAcceptCert(p)
  <2>1. ledger'[p].reveals \subseteq ledger[p].reveals
    <3>1. CASE FsmAcceptCert(p)
      <4>1. PICK S : ledger' = [ledger EXCEPT ![p] = Prune([ledger[p] EXCEPT !.myconsensus = S])]
          BY <3>1, Signs
      <4>2. [ledger[p] EXCEPT !.myconsensus = S].reveals = ledger[p].reveals
          BY <1>0 DEF LedgerType
      <4> QED BY <4>1, <4>2, <1>0, PruneShrinks DEF LedgerFields
    <3> QED BY <1>1, <3>1 DEF Shrinks
  <2> QED BY <2>1 DEF OneRevealEach
<1>2. CASE FsmAcceptDescriptor(p)
  <2> DEFINE e == votingEpoch[p]
             others == {r \in ledger[p].reveals : r.epoch # e \/ r.from # p}
             commits == {r \in ledger[p].commits : r.epoch # e \/ r.from # p}
             l(new) == [ledger[p] EXCEPT !.commits = commits \cup {Secret(p, e)},
                                         !.reveals = others \cup {Secret(p, e)},
                                         !.votes   = ledger[p].votes \cup new]
  <2>1. PICK new : ledger' = [ledger EXCEPT ![p] = Prune(l(new))]
      BY <1>2, Votes
  <2>2. l(new).reveals = others \cup {Secret(p, e)}
      BY <1>0 DEF LedgerType
  <2> HIDE DEF l
  <2>3. ledger'[p].reveals \subseteq others \cup {Secret(p, e)}
      BY <2>1, <2>2, <1>0, PruneShrinks DEF LedgerFields
  <2>4. Secret(p, e).from = p /\ Secret(p, e).epoch = e
      BY DEF Secret
  <2> QED BY <2>3, <2>4 DEF OneRevealEach
<1>3. ASSUME NEW m \in msgs, OnRevealUpload(p, m)
      PROVE  \A r1, r2 \in ledger'[p].reveals :
                r1.from = r2.from /\ r1.epoch = r2.epoch => r1 = r2
  <2>1. ledger'[p].reveals = ledger[p].reveals \cup {m.reveal}
      BY <1>3, <1>0 DEF OnRevealUpload, LedgerType
  <2>2. /\ m.reveal.from = m.from /\ m.reveal.epoch = m.epoch
        /\ ~\E r \in ledger[p].reveals : r.epoch = m.epoch /\ r.from = m.from
      BY <1>3 DEF OnRevealUpload, Accepts, Has, WellFormedMessages
  <2> QED BY <2>1, <2>2 DEF OneRevealEach
<1> QED BY <1>1, <1>2, <1>3, LedgerStep

(* Whatever an authority keeps as its own consensus it has signed and sent. *)
LEMMA OwnConsensusStep ==
    ASSUME TypeOK, OneRevealEach, OwnConsensusSigned, [Next]_vars
    PROVE  OwnConsensusSigned'
<1> SUFFICES ASSUME NEW p \in Authority, NEW b \in ledger'[p].myconsensus
             PROVE  HasSigned(p, b.epoch, b)'
    BY DEF OwnConsensusSigned
<1>0. ledger \in [Authority -> LedgerType] /\ ledger[p] \in LedgerType
    BY DEF TypeOK
<1>1. CASE b \in ledger[p].myconsensus
  <2>1. HasSigned(p, b.epoch, b)
      BY <1>1 DEF OwnConsensusSigned
  <2> QED BY <2>1, NewMessages DEF HasSigned
<1>2. CASE FsmAcceptCert(p)
  <2>1. PICK c, S :
           /\ S \subseteq {c} /\ c.epoch = votingEpoch[p]
           /\ msgs' = msgs \cup {[type |-> "sig", from |-> p, epoch |-> votingEpoch[p],
                                  body |-> x] : x \in S}
           /\ ledger' = [ledger EXCEPT ![p] = Prune([ledger[p] EXCEPT
                            !.myconsensus = ledger[p].myconsensus \cup S])]
      BY <1>2, Signs
  <2>2. [ledger[p] EXCEPT !.myconsensus = ledger[p].myconsensus \cup S].myconsensus
            = ledger[p].myconsensus \cup S
      BY <1>0 DEF LedgerType
  <2>3. b \in ledger[p].myconsensus \cup S
    <3> DEFINE l == [ledger[p] EXCEPT !.myconsensus = ledger[p].myconsensus \cup S]
    <3>1. ledger'[p] = Prune(l)
        BY <2>1, <1>0
    <3>2. Prune(l).myconsensus \subseteq l.myconsensus
        BY PruneShrinks DEF LedgerFields
    <3> HIDE DEF l
    <3> QED BY <2>2, <3>1, <3>2 DEF l
  <2>4. CASE b \in S
    <3> DEFINE m == [type |-> "sig", from |-> p, epoch |-> votingEpoch[p], body |-> b]
    <3>1. m \in msgs'
        BY <2>1, <2>4
    <3>2. m.type = "sig" /\ m.from = p /\ m.epoch = b.epoch /\ m.body = b
        BY <2>1, <2>4
    <3> HIDE DEF m
    <3> QED BY <3>1, <3>2 DEF HasSigned
  <2> QED BY <2>3, <2>4, <1>1
<1>3. CASE FsmAcceptDescriptor(p)
  <2> DEFINE e == votingEpoch[p]
             others == {r \in ledger[p].reveals : r.epoch # e \/ r.from # p}
             commits == {r \in ledger[p].commits : r.epoch # e \/ r.from # p}
             l(new) == [ledger[p] EXCEPT !.commits = commits \cup {Secret(p, e)},
                                         !.reveals = others \cup {Secret(p, e)},
                                         !.votes   = ledger[p].votes \cup new]
  <2>1. PICK new : ledger' = [ledger EXCEPT ![p] = Prune(l(new))]
      BY <1>3, Votes
  <2>2. l(new).myconsensus = ledger[p].myconsensus
      BY <1>0 DEF LedgerType
  <2> HIDE DEF l
  <2> QED BY <2>1, <2>2, <1>0, <1>1, PruneShrinks DEF LedgerFields
<1>4. ASSUME NEW m \in msgs, OnRevealUpload(p, m)
      PROVE  ledger'[p].myconsensus = ledger[p].myconsensus
    BY <1>4, <1>0 DEF OnRevealUpload, LedgerType
<1> QED BY <1>1, <1>2, <1>3, <1>4, LedgerStep DEF Shrinks

-----------------------------------------------------------------------------
(* A document is published only with the signatures of a majority, each of  *)
(* them sent by the authority it is counted for.                            *)

LEMMA PublishedStep ==
    ASSUME TypeOK, WellFormedMessages, OneRevealEach, OwnConsensusSigned,
           PublishedIsSigned, [Next]_vars
    PROVE  PublishedIsSigned'
<1>1. ASSUME NEW d \in published PROVE \A p \in d.sigs : HasSigned(p, d.epoch, d.body)'
    BY NewMessages DEF PublishedIsSigned, HasSigned
<1>2. CASE published' = published
    BY <1>1, <1>2 DEF PublishedIsSigned, Threshold
<1>3. ASSUME NEW a \in Authority, FsmConsensusReached(a) PROVE PublishedIsSigned'
  <2>1. PICK d \in ThresholdConsensus(a, votingEpoch[a]) : published' = published \cup {d}
      BY <1>3 DEF FsmConsensusReached
  <2>2. msgs' = msgs
      BY <1>3 DEF FsmConsensusReached
  <2>3. PICK b \in ledger[a].myconsensus :
           /\ b.epoch = votingEpoch[a] /\ Cardinality(Signers(a, b)) >= Threshold
           /\ d = [epoch |-> votingEpoch[a], body |-> b, sigs |-> Signers(a, b)]
      BY <2>1 DEF ThresholdConsensus, At
  <2>4. ASSUME NEW p \in Signers(a, b) PROVE p \in Authority /\ HasSigned(p, b.epoch, b)
    <3>1. CASE p = a
        BY <3>1, <2>3 DEF OwnConsensusSigned
    <3>2. CASE p # a
      <4>1. PICK m \in ledger[a].signatures : m.body = b /\ m.from = p
          BY <2>4, <3>2 DEF Signers
      <4>2. m \in msgs /\ m.type = "sig"
          BY <4>1 DEF TypeOK, LedgerType
      <4>3. m.from \in Authority /\ m.body.epoch = m.epoch
          BY <4>2 DEF TypeOK, WellFormedMessages
      <4> QED BY <4>1, <4>2, <4>3 DEF HasSigned
    <3> QED BY <3>1, <3>2
  <2>5. /\ d.sigs \subseteq Authority /\ Cardinality(d.sigs) >= Threshold
        /\ \A p \in d.sigs : HasSigned(p, d.epoch, d.body)
      BY <2>3, <2>4
  <2>6. \A p \in d.sigs : HasSigned(p, d.epoch, d.body)'
      BY <2>2, <2>5 DEF HasSigned
  <2>7. \A c \in published : c.sigs \subseteq Authority /\ Cardinality(c.sigs) >= Threshold
      BY DEF PublishedIsSigned
  <2> QED BY <1>1, <2>1, <2>5, <2>6, <2>7 DEF PublishedIsSigned, Threshold
<1>4. ASSUME NEW a \in Authority,
             \/ FsmBootstrap(a) \/ FsmAcceptDescriptor(a) \/ FsmAcceptVote(a)
             \/ FsmAcceptReveal(a) \/ FsmAcceptCert(a) \/ FsmConsensusFailed(a)
             \/ Crash(a) \/ Restart(a)
      PROVE  published' = published
    BY <1>4 DEF FsmBootstrap, FsmAcceptDescriptor, FsmAcceptVote, FsmAcceptReveal,
       FsmAcceptCert, FsmConsensusFailed, Crash, Restart, docVars
<1>5. ASSUME NEW a \in Authority, NEW m \in msgs, Deliver(a, m) PROVE published' = published
    BY <1>5 DEF Deliver, OnVoteUpload, OnRevealUpload, OnCertUpload, OnSigUpload, docVars
<1>6. ASSUME NEW a \in Authority, NEW b \in Authority, FetchConsensus(a, b)
      PROVE  published' = published
    BY <1>6 DEF FetchConsensus
<1>7. Tick \/ UNCHANGED vars => published' = published
    BY DEF Tick, vars, docVars
<1> QED BY <1>2, <1>3, <1>4, <1>5, <1>6, <1>7 DEF Next, Fsm

-----------------------------------------------------------------------------
(* The theorems.                                                           *)

LEMMA InitIInv == Init => IInv
<1> SUFFICES ASSUME Init PROVE IInv
    OBVIOUS
<1>1. TypeOK
    BY InitType
<1>2. OnSchedule
  <2>1. EpochStart(0 - 1) = -8
      BY DEF EpochStart, SlotsPerEpoch
  <2> QED BY <2>1, TimeAssumption DEF Init, OnSchedule, Phase
<1>3. SaidInTurn /\ WellFormedMessages /\ NoEquivocation /\ PublishedIsSigned
    BY DEF Init, SaidInTurn, WellFormedMessages, NoEquivocation, PublishedIsSigned
<1>4. \A a \in Authority : ledger[a].reveals = {} /\ ledger[a].myconsensus = {}
    BY DEF Init, EmptyLedger, LedgerFields
<1>5. OneRevealEach /\ OwnConsensusSigned
    BY <1>4 DEF OneRevealEach, OwnConsensusSigned
<1> QED BY <1>1, <1>2, <1>3, <1>5 DEF IInv

LEMMA StepIInv == IInv /\ [Next]_vars => IInv'
BY TypeStep, ScheduleStep, SaidInTurnStep, WellFormedStep, OneRevealStep,
   NoEquivocationStep, OwnConsensusStep, PublishedStep DEF IInv

(* The strengthened invariant is inductive: the voting schedule and the     *)
(* order of the phases are kept by every handler, timer, crash and restart. *)
THEOREM Inductive == Spec => []IInv
BY InitIInv, StepIInv, PTL DEF Spec

(* One vote, one reveal, one certificate and one signature per authority    *)
(* and epoch, through any number of crashes and restarts.                   *)
THEOREM SaidOnce == Spec => []NoEquivocation
<1>1. IInv => NoEquivocation
    BY DEF IInv
<1> QED BY <1>1, Inductive, PTL

(* Two sets of Threshold authorities have an authority in common. *)
LEMMA MajoritiesMeet ==
    ASSUME NEW P \in SUBSET Authority, NEW Q \in SUBSET Authority,
           Cardinality(P) >= Threshold, Cardinality(Q) >= Threshold
    PROVE  P \cap Q # {}
<1>1. IsFiniteSet(Authority) /\ Cardinality(Authority) \in Nat
    BY AuthorityAssumption, FS_CardinalityType
<1>2. IsFiniteSet(P) /\ IsFiniteSet(Q) /\ Cardinality(P) \in Nat /\ Cardinality(Q) \in Nat
    BY <1>1, FS_Subset, FS_CardinalityType
<1>3. Cardinality(P) + Cardinality(Q) > Cardinality(Authority)
    BY <1>1, <1>2 DEF Threshold
<1> QED BY <1>1, <1>3, FS_MajoritiesIntersect

LEMMA Agree == IInv => Agreement
<1> SUFFICES ASSUME IInv, NEW d1 \in published, NEW d2 \in published, d1.epoch = d2.epoch
             PROVE  d1.body = d2.body
    BY DEF Agreement
<1>1. /\ d1.sigs \subseteq Authority /\ Cardinality(d1.sigs) >= Threshold
      /\ d2.sigs \subseteq Authority /\ Cardinality(d2.sigs) >= Threshold
    BY DEF IInv, PublishedIsSigned
<1>2. PICK p : p \in d1.sigs /\ p \in d2.sigs
    BY <1>1, MajoritiesMeet
<1>3. HasSigned(p, d1.epoch, d1.body) /\ HasSigned(p, d2.epoch, d2.body)
    BY <1>2 DEF IInv, PublishedIsSigned
<1> QED BY <1>3 DEF IInv, NoEquivocation, HasSigned

(* Whatever crashes, restarts, lost commands and late timers there are, the *)
(* authorities never publish two different documents for one epoch: two     *)
(* majorities share a signer, and a signer signs one document per epoch.    *)
THEOREM OneDocument == Spec => []Agreement
BY Agree, Inductive, PTL

(* A running authority's voting epoch never decreases. *)
THEOREM Forward == Spec => NeverBackward
<1>1. ASSUME IInv, [Next]_vars, NEW p \in up \cap up'
      PROVE  votingEpoch[p] <= votingEpoch'[p]
  <2>0. /\ TypeOK /\ OnSchedule
        /\ now \in Nat /\ votingEpoch[p] \in Nat /\ wake[p] \in Nat /\ state[p] \in States
      BY <1>1 DEF IInv, TypeOK
  <2>a. /\ EpochStart(votingEpoch[p] - 1) = 8 * votingEpoch[p] - 8
        /\ VotingStarts(votingEpoch[p]) = 8 * votingEpoch[p] - 7
      BY <2>0 DEF VotingStarts, EpochStart, SlotsPerEpoch, MixPublishDeadline
  <2>b. Epoch \in Nat /\ now < 8 * Epoch + 8
      BY <2>0, Moments
  <2>1. CASE Stays(p) \/ Advances(p) \/ Succeeds(p)
      BY <2>1, <2>0 DEF Stays, Advances, Succeeds
  <2>2. CASE StartsVoting(p) \/ SitsOut(p)
    <3>1. votingEpoch[p] <= Epoch + 1
      <4>1. CASE state[p] = "bootstrap"
          BY <4>1, <2>2, <2>0, <2>a, <2>b, <1>1 DEF StartsVoting, SitsOut, OnSchedule
      <4>2. CASE state[p] = "accept_signature"
        <5>1. Phase(state[p]) > 0
            BY <4>2 DEF Phase
        <5> QED BY <5>1, <2>0, <2>a, <2>b, <1>1 DEF OnSchedule
      <4> QED BY <4>1, <4>2, <2>2 DEF StartsVoting, SitsOut
    <3> QED BY <2>2, <3>1, <2>0, <2>b DEF StartsVoting, SitsOut
  <2> QED BY <1>1, <2>0, <2>1, <2>2, StepMoves DEF Moves, ComesBack
<1>2. IInv /\ [Next]_vars => [MovesForward]_vars
    BY <1>1 DEF MovesForward
<1> QED BY <1>2, Inductive, PTL DEF Spec, NeverBackward

-----------------------------------------------------------------------------
(* The refinement: a step gives one authority one document of a majority,   *)
(* or takes some documents from it, or has nothing to do with documents.    *)

OnlyAt(a) == \A p \in Authority \ {a} : Held(p)' = Held(p)

Gains(a, d) ==
    /\ OnlyAt(a)
    /\ Held(a)' \subseteq Held(a) \cup {d}
    /\ published' = published \cup {d}

Loses(a) ==
    /\ OnlyAt(a)
    /\ Held(a)' \subseteq Held(a)
    /\ published' = published

Keeps ==
    /\ \A p \in Authority : Held(p)' = Held(p)
    /\ published' = published

LEMMA HeldStep ==
    ASSUME TypeOK, [Next]_vars
    PROVE  \/ Keeps
           \/ \E a \in Authority : Loses(a) \/ \E d : Gains(a, d)
<1>0. /\ ledger \in [Authority -> LedgerType] /\ disk \in [Authority -> SUBSET published]
      /\ \A a \in Authority : ledger[a] \in LedgerType
    BY DEF TypeOK
<1>1. ASSUME NEW a \in Authority, NEW l, NEW D,
             l.documents \cup D \subseteq Held(a),
             ledger' = [ledger EXCEPT ![a] = l], disk' = [disk EXCEPT ![a] = D],
             published' = published
      PROVE  Loses(a)
    BY <1>0, <1>1 DEF Loses, OnlyAt, Held
<1>2. ASSUME NEW D PROVE Kept(D) \subseteq D
    BY DEF Kept
<1>3. ASSUME NEW l PROVE Prune(l).documents \subseteq l.documents
    BY PruneShrinks DEF LedgerFields
<1>4. ASSUME NEW a \in Authority, NEW l, l.documents = ledger[a].documents,
             ledger' = [ledger EXCEPT ![a] = Prune(l)],
             disk' = [disk EXCEPT ![a] = Kept(disk[a])], published' = published
      PROVE  Loses(a)
    BY <1>1, <1>2, <1>3, <1>4 DEF Held
<1>5. ASSUME NEW a \in Authority, FsmBootstrap(a) \/ FsmAcceptVote(a) \/ FsmConsensusFailed(a)
      PROVE  Loses(a)
    BY <1>4, <1>5 DEF FsmBootstrap, FsmAcceptVote, FsmConsensusFailed
<1>6. ASSUME NEW a \in Authority, FsmAcceptDescriptor(a) PROVE Loses(a)
  <2> DEFINE own == Secret(a, votingEpoch[a])
             others(S) == {r \in S : r.epoch # votingEpoch[a] \/ r.from # a}
             l(new) == [ledger[a] EXCEPT !.commits = others(ledger[a].commits) \cup {own},
                                         !.reveals = others(ledger[a].reveals) \cup {own},
                                         !.votes   = ledger[a].votes \cup new]
  <2>1. PICK new : ledger' = [ledger EXCEPT ![a] = Prune(l(new))]
      BY <1>6, Votes
  <2>2. l(new).documents = ledger[a].documents
      BY <1>0 DEF LedgerType
  <2>3. disk' = [disk EXCEPT ![a] = Kept(disk[a])] /\ published' = published
      BY <1>6 DEF FsmAcceptDescriptor
  <2> HIDE DEF l
  <2> QED BY <2>1, <2>2, <2>3, <1>4
<1>7. ASSUME NEW a \in Authority, FsmAcceptReveal(a) PROVE Loses(a)
  <2>1. PICK S : ledger' = [ledger EXCEPT ![a] = Prune([ledger[a] EXCEPT !.certificates = S])]
      BY <1>7 DEF FsmAcceptReveal
  <2>2. [ledger[a] EXCEPT !.certificates = S].documents = ledger[a].documents
      BY <1>0 DEF LedgerType
  <2>3. disk' = [disk EXCEPT ![a] = Kept(disk[a])] /\ published' = published
      BY <1>7 DEF FsmAcceptReveal
  <2> QED BY <2>1, <2>2, <2>3, <1>4
<1>8. ASSUME NEW a \in Authority, FsmAcceptCert(a) PROVE Loses(a)
  <2>1. PICK S : ledger' = [ledger EXCEPT ![a] = Prune([ledger[a] EXCEPT !.myconsensus = S])]
      BY <1>8, Signs
  <2>2. [ledger[a] EXCEPT !.myconsensus = S].documents = ledger[a].documents
      BY <1>0 DEF LedgerType
  <2>3. disk' = [disk EXCEPT ![a] = Kept(disk[a])] /\ published' = published
      BY <1>8 DEF FsmAcceptCert
  <2> QED BY <2>1, <2>2, <2>3, <1>4
<1>9. ASSUME NEW a \in Authority, FsmConsensusReached(a) PROVE \E d : Gains(a, d)
  <2>1. PICK d :
           /\ disk' = [disk EXCEPT ![a] = Kept(Store(disk[a], d))]
           /\ ledger' = [ledger EXCEPT ![a] = Prune([ledger[a] EXCEPT
                            !.documents = Store(ledger[a].documents, d)])]
           /\ published' = published \cup {d}
      BY <1>9 DEF FsmConsensusReached
  <2>2. ASSUME NEW D PROVE Store(D, d) \subseteq D \cup {d}
      BY DEF Store
  <2>3. [ledger[a] EXCEPT !.documents = Store(ledger[a].documents, d)].documents
            = Store(ledger[a].documents, d)
      BY <1>0 DEF LedgerType
  <2>4. /\ ledger'[a].documents \subseteq ledger[a].documents \cup {d}
        /\ disk'[a] \subseteq disk[a] \cup {d}
    <3> DEFINE l == [ledger[a] EXCEPT !.documents = Store(ledger[a].documents, d)]
    <3>1. ledger'[a] = Prune(l) /\ disk'[a] = Kept(Store(disk[a], d))
        BY <2>1, <1>0
    <3>2. Prune(l).documents \subseteq l.documents
        BY <1>3
    <3>3. l.documents \subseteq ledger[a].documents \cup {d}
        BY <2>2, <2>3
    <3> HIDE DEF l
    <3> QED BY <3>1, <3>2, <3>3, <2>2, <1>2
  <2>5. OnlyAt(a)
      BY <2>1, <1>0 DEF OnlyAt, Held
  <2> QED BY <2>1, <2>4, <2>5 DEF Gains, Held
<1>10. ASSUME NEW a \in Authority, NEW m \in msgs, Deliver(a, m) PROVE Keeps
  <2>1. \A p \in Authority : ledger'[p].documents = ledger[p].documents
      BY <1>10, <1>0 DEF Deliver, OnVoteUpload, OnRevealUpload, OnCertUpload, OnSigUpload,
         LedgerType
  <2>2. disk' = disk /\ published' = published
      BY <1>10 DEF Deliver, OnVoteUpload, OnRevealUpload, OnCertUpload, OnSigUpload, docVars
  <2> QED BY <2>1, <2>2 DEF Keeps, Held
<1>11. ASSUME NEW a \in Authority, NEW b \in Authority, FetchConsensus(a, b)
       PROVE  Keeps \/ \E d : Gains(a, d)
  <2>1. PICK d \in ledger[b].documents :
           \/ ledger' = ledger
           \/ ledger' = [ledger EXCEPT ![a].documents = @ \cup {d}]
      BY <1>11 DEF FetchConsensus, At
  <2>2. disk' = disk /\ published' = published
      BY <1>11 DEF FetchConsensus
  <2>3. d \in published
      BY <1>0 DEF LedgerType
  <2>4. CASE ledger' = ledger
      BY <2>2, <2>4 DEF Keeps, Held
  <2>5. CASE ledger' = [ledger EXCEPT ![a].documents = @ \cup {d}]
    <3>1. OnlyAt(a)
        BY <2>2, <2>5, <1>0 DEF OnlyAt, Held
    <3>2. ledger'[a].documents = ledger[a].documents \cup {d}
        BY <2>5, <1>0 DEF LedgerType
    <3> QED BY <2>2, <2>3, <3>1, <3>2 DEF Gains, Held
  <2> QED BY <2>1, <2>4, <2>5
<1>12. ASSUME NEW a \in Authority, Crash(a) PROVE Loses(a)
  <2>1. EmptyLedger.documents = {}
      BY DEF EmptyLedger, LedgerFields
  <2>2. /\ ledger' = [ledger EXCEPT ![a] = EmptyLedger]
        /\ disk' = [disk EXCEPT ![a] = disk[a]] /\ published' = published
      BY <1>12, <1>0 DEF Crash
  <2> QED BY <2>1, <2>2, <1>1 DEF Held
<1>13. ASSUME NEW a \in Authority, Restart(a) PROVE Loses(a)
  <2> DEFINE kept == {d \in disk[a] : d.epoch \in Epoch - 1 .. Epoch + 1}
             l == [ledger[a] EXCEPT !.documents = kept]
  <2>1. /\ ledger' = [ledger EXCEPT ![a] = l]
        /\ disk' = [disk EXCEPT ![a] = disk[a]] /\ published' = published
      BY <1>13, <1>0 DEF Restart, docVars
  <2>2. l.documents \subseteq disk[a]
      BY <1>0 DEF LedgerType
  <2> HIDE DEF l
  <2> QED BY <2>1, <2>2, <1>1 DEF Held
<1>14. Tick \/ UNCHANGED vars => Keeps
    BY DEF Tick, vars, docVars, Keeps, Held
<1> QED
    BY <1>5, <1>6, <1>7, <1>8, <1>9, <1>10, <1>11, <1>12, <1>13, <1>14 DEF Next, Fsm

(* The authorities implement the directory: at most one document per epoch, *)
(* for ever, and no authority holds a document that was not decided.        *)
THEOREM Refinement == Spec => Implements
<1>1. Init => Directory!Init
  <2> SUFFICES ASSUME Init PROVE decidedContents = {} /\ heldContents = [a \in Authority |-> {}]
      BY DEF Directory!Init
  <2>1. \A a \in Authority : Held(a) = {}
      BY DEF Init, Held, EmptyLedger, LedgerFields
  <2> QED BY <2>1 DEF Init, decidedContents, heldContents, Contents
<1>2. IInv /\ [Next]_vars => [Directory!Next]_<<decidedContents, heldContents>>
  <2> SUFFICES ASSUME IInv, [Next]_vars
               PROVE  Directory!Next \/ UNCHANGED <<decidedContents, heldContents>>
      OBVIOUS
  <2>0. TypeOK /\ IInv'
      BY StepIInv DEF IInv
  <2>1. CASE Keeps
      BY <2>1 DEF Keeps, decidedContents, heldContents
  <2>2. ASSUME NEW a \in Authority, OnlyAt(a)
        PROVE  heldContents' = [heldContents EXCEPT ![a] = heldContents'[a]]
      BY <2>2 DEF OnlyAt, heldContents
  <2>3. ASSUME NEW a \in Authority, Loses(a) PROVE Directory!Next
    <3>1. heldContents'[a] \subseteq heldContents[a]
        BY <2>3 DEF Loses, heldContents, Contents
    <3>2. decidedContents' = decidedContents
        BY <2>3 DEF Loses, decidedContents
    <3>3. Directory!Forget(a)
        BY <2>2, <2>3, <3>1, <3>2 DEF Loses, Directory!Forget
    <3> QED BY <3>3 DEF Directory!Next
  <2>4. ASSUME NEW a \in Authority, NEW d, Gains(a, d) PROVE Directory!Next
    <3> DEFINE c == [epoch |-> d.epoch, body |-> d.body]
    <3>1. decidedContents' = decidedContents \cup {c} /\ c \in decidedContents'
        BY <2>4 DEF Gains, decidedContents, Contents
    <3>2. heldContents'[a] \subseteq heldContents[a] \cup {c}
        BY <2>4 DEF Gains, heldContents, Contents
    <3>3. Directory!OnePerEpoch(decidedContents')
      <4>1. Agreement'
          BY <2>0, Agree, PTL
      <4>2. \A e1, e2 \in published' : e1.epoch = e2.epoch => e1.body = e2.body
          BY <4>1 DEF Agreement
      <4>3. \A x \in decidedContents' : \E e \in published' :
               x = [epoch |-> e.epoch, body |-> e.body]
          BY DEF decidedContents, Contents
      <4> QED BY <4>2, <4>3 DEF Directory!OnePerEpoch
    <3>4. Directory!Learn(a)
        BY <2>2, <2>4, <3>1, <3>2, <3>3 DEF Gains, Directory!Learn
    <3> QED BY <3>4 DEF Directory!Next
  <2> QED BY <2>0, <2>1, <2>3, <2>4, HeldStep
<1> QED BY <1>1, <1>2, Inductive, PTL DEF Spec, Implements, Directory!Spec

-----------------------------------------------------------------------------
(* What the published documents rest on: the votes and the reveals that     *)
(* were sent.  A commit that an authority has stored was sent in the vote   *)
(* of its owner; a reveal was sent too, except our own one until the phase  *)
(* in which it is; a certificate and a signed document rest on both.        *)

VoteSent(r) ==
    \E v \in msgs : /\ v.type = "vote" /\ v.from = r.from /\ v.epoch = r.epoch
                    /\ v.commit = r

RevealSent(r) ==
    \E w \in msgs : /\ w.type = "reveal" /\ w.from = r.from /\ w.epoch = r.epoch
                    /\ w.reveal = r

CommitsSent == \A a \in Authority : \A r \in ledger[a].commits : VoteSent(r)

Told(a, r) == r.from # a \/ (r.epoch = votingEpoch[a] /\ Phase(state[a]) >= 2)

RevealsSent == \A a \in Authority : \A r \in ledger[a].reveals : Told(a, r) => RevealSent(r)

CertificatesBacked ==
    \A m \in msgs : m.type = "cert" =>
        /\ \A r \in m.commits : r.epoch = m.epoch /\ VoteSent(r)
        /\ \A r \in m.reveals : r.epoch = m.epoch /\ RevealSent(r)

Listing(e, x) ==
    {m.from : m \in {m \in msgs : /\ m.type = "vote" /\ m.epoch = e /\ x \in m.mixes}}

SignedMixes ==
    \A m \in msgs : m.type = "sig" =>
        \A x \in m.body.mixes :
            2 * Cardinality(Listing(m.epoch, x)) > Cardinality(Authority)

SignedRandom ==
    \A m \in msgs : m.type = "sig" =>
        /\ 2 * Cardinality({r.from : r \in m.body.srv.reveals}) > Cardinality(Authority)
        /\ \A r \in m.body.srv.reveals : r.epoch = m.epoch /\ VoteSent(r) /\ RevealSent(r)

Backed ==
    /\ CommitsSent
    /\ RevealsSent
    /\ CertificatesBacked
    /\ SignedMixes
    /\ SignedRandom

(* Where the sender tells the members of S apart, there are no more of them than senders. *)
LEMMA OneEach ==
    ASSUME NEW S, NEW T \in SUBSET Authority,
           \A s \in S : s.from \in T,
           \A s, t \in S : s.from = t.from => s = t
    PROVE  /\ Cardinality(S) <= Cardinality(T)
           /\ Cardinality(S) \in Nat /\ Cardinality(T) \in Nat
<1> DEFINE f == [s \in S |-> s.from]
<1>1. f \in [S -> T] /\ \A s, t \in S : f[s] = f[t] => s = t
    OBVIOUS
<1>2. f \in Injection(S, T)
    BY <1>1 DEF Injection, IsInjective
<1>3. IsFiniteSet(T)
    BY AuthorityAssumption, FS_Subset
<1>4. IsFiniteSet(S) /\ Cardinality(S) <= Cardinality(T)
    BY <1>2, <1>3, FS_Injection
<1> QED BY <1>3, <1>4, FS_CardinalityType

(* More than half of the authorities. *)
LEMMA Majority ==
    ASSUME NEW n \in Nat, n >= Threshold
    PROVE  2 * n > Cardinality(Authority)
<1>1. Cardinality(Authority) \in Nat
    BY AuthorityAssumption, FS_CardinalityType
<1> QED BY <1>1 DEF Threshold

LEMMA SentStaysSent ==
    ASSUME msgs \subseteq msgs', NEW r
    PROVE  /\ VoteSent(r) => VoteSent(r)'
           /\ RevealSent(r) => RevealSent(r)'
BY DEF VoteSent, RevealSent

(* doCommit and sendVoteToAuthorities: the commit that is noted down is sent, for nothing  *)
(* of our own has been stored for the epoch yet.                                           *)
LEMMA FirstVote ==
    ASSUME IInv, NEW a \in Authority, FsmAcceptDescriptor(a),
           NEW r, r = Secret(a, votingEpoch[a])
    PROVE  VoteSent(r)'
<1> DEFINE e == votingEpoch[a]
<1>1. a \in up /\ state[a] = "accept_desc"
    BY DEF FsmAcceptDescriptor, Due
<1>2. ~Has(a, "votes", e, a)
  <2> SUFFICES ASSUME NEW v \in ledger[a].votes, v.epoch = e, v.from = a PROVE FALSE
      BY DEF Has
  <2>1. v \in msgs /\ v.type = "vote"
      BY DEF IInv, TypeOK, LedgerType
  <2>2. e \in Nat /\ (e < e \/ SentIn("vote") <= Phase("accept_desc"))
      BY <1>1, <2>1 DEF IInv, TypeOK, SaidInTurn
  <2> QED BY <2>2 DEF SentIn, Phase
<1>3. PICK mixes : msgs' = msgs \cup {[type |-> "vote", from |-> a, epoch |-> e,
                                       mixes |-> mixes, commit |-> r]}
    BY <1>2 DEF FsmAcceptDescriptor
<1>4. r.from = a /\ r.epoch = e
    BY DEF Secret
<1> DEFINE v == [type |-> "vote", from |-> a, epoch |-> e, mixes |-> mixes, commit |-> r]
<1>5. v \in msgs' /\ v.type = "vote" /\ v.from = r.from /\ v.epoch = r.epoch /\ v.commit = r
    BY <1>3, <1>4
<1> HIDE DEF v
<1> QED BY <1>5 DEF VoteSent

(* How the stored commits change. *)
LEMMA CommitStep ==
    ASSUME TypeOK, [Next]_vars, NEW p \in Authority, NEW r \in ledger'[p].commits
    PROVE  \/ r \in ledger[p].commits
           \/ FsmAcceptDescriptor(p) /\ r = Secret(p, votingEpoch[p])
           \/ \E m \in msgs : OnVoteUpload(p, m) /\ r = m.commit
<1>0. ledger \in [Authority -> LedgerType] /\ ledger[p] \in LedgerType
    BY DEF TypeOK
<1>1. ASSUME NEW a \in Authority, NEW l, a # p, ledger' = [ledger EXCEPT ![a] = l]
      PROVE  r \in ledger[p].commits
    BY <1>1, <1>0
<1>2. ASSUME NEW l, l.commits = ledger[p].commits, ledger' = [ledger EXCEPT ![p] = Prune(l)]
      PROVE  r \in ledger[p].commits
    BY <1>2, <1>0, PruneShrinks DEF LedgerFields
<1>3. ASSUME NEW a \in Authority, FsmBootstrap(a) \/ FsmAcceptVote(a) \/ FsmConsensusFailed(a)
      PROVE  r \in ledger[p].commits
    BY <1>1, <1>2, <1>3 DEF FsmBootstrap, FsmAcceptVote, FsmConsensusFailed
<1>4. ASSUME NEW a \in Authority, FsmAcceptDescriptor(a), a # p PROVE r \in ledger[p].commits
    BY <1>1, <1>4 DEF FsmAcceptDescriptor
<1>5. ASSUME FsmAcceptDescriptor(p)
      PROVE  r \in ledger[p].commits \/ r = Secret(p, votingEpoch[p])
  <2> DEFINE e == votingEpoch[p]
             others == {k \in ledger[p].commits : k.epoch # e \/ k.from # p}
             reveals == {k \in ledger[p].reveals : k.epoch # e \/ k.from # p}
             l(new) == [ledger[p] EXCEPT !.commits = others \cup {Secret(p, e)},
                                         !.reveals = reveals \cup {Secret(p, e)},
                                         !.votes   = ledger[p].votes \cup new]
  <2>1. PICK new : ledger' = [ledger EXCEPT ![p] = Prune(l(new))]
      BY <1>5, Votes
  <2>2. l(new).commits = others \cup {Secret(p, e)}
      BY <1>0 DEF LedgerType
  <2> HIDE DEF l
  <2> QED BY <2>1, <2>2, <1>0, PruneShrinks DEF LedgerFields
<1>6. ASSUME NEW a \in Authority, FsmAcceptReveal(a) PROVE r \in ledger[p].commits
  <2>1. PICK S : ledger' = [ledger EXCEPT ![a] = Prune([ledger[a] EXCEPT !.certificates = S])]
      BY <1>6 DEF FsmAcceptReveal
  <2>2. [ledger[p] EXCEPT !.certificates = S].commits = ledger[p].commits
      BY <1>0 DEF LedgerType
  <2> QED BY <2>1, <2>2, <1>1, <1>2
<1>7. ASSUME NEW a \in Authority, FsmAcceptCert(a) PROVE r \in ledger[p].commits
  <2>1. PICK S : ledger' = [ledger EXCEPT ![a] = Prune([ledger[a] EXCEPT !.myconsensus = S])]
      BY <1>7, Signs
  <2>2. [ledger[p] EXCEPT !.myconsensus = S].commits = ledger[p].commits
      BY <1>0 DEF LedgerType
  <2> QED BY <2>1, <2>2, <1>1, <1>2
<1>8. ASSUME NEW a \in Authority, FsmConsensusReached(a) PROVE r \in ledger[p].commits
  <2>1. PICK S : ledger' = [ledger EXCEPT ![a] = Prune([ledger[a] EXCEPT !.documents = S])]
      BY <1>8 DEF FsmConsensusReached
  <2>2. [ledger[p] EXCEPT !.documents = S].commits = ledger[p].commits
      BY <1>0 DEF LedgerType
  <2> QED BY <2>1, <2>2, <1>1, <1>2
<1>9. ASSUME NEW a \in Authority, NEW m \in msgs, OnVoteUpload(a, m)
      PROVE  r \in ledger[p].commits \/ (a = p /\ r = m.commit)
  <2>1. CASE a # p
      BY <1>9, <2>1, <1>0 DEF OnVoteUpload
  <2>2. CASE a = p
    <3>1. ledger'[p].commits = ledger[p].commits \cup {m.commit}
        BY <1>9, <2>2, <1>0 DEF OnVoteUpload, LedgerType
    <3> QED BY <2>2, <3>1
  <2> QED BY <2>1, <2>2
<1>10. ASSUME NEW a \in Authority, NEW m \in msgs,
              OnRevealUpload(a, m) \/ OnCertUpload(a, m) \/ OnSigUpload(a, m)
       PROVE  r \in ledger[p].commits
    BY <1>10, <1>0 DEF OnRevealUpload, OnCertUpload, OnSigUpload, LedgerType
<1>11. ASSUME NEW a \in Authority, NEW b \in Authority, FetchConsensus(a, b)
       PROVE  r \in ledger[p].commits
    BY <1>11, <1>0 DEF FetchConsensus, LedgerType
<1>12. ASSUME NEW a \in Authority, Crash(a) PROVE r \in ledger[p].commits
  <2>1. EmptyLedger.commits = {}
      BY DEF EmptyLedger, LedgerFields
  <2> QED BY <1>12, <2>1, <1>0 DEF Crash
<1>13. ASSUME NEW a \in Authority, Restart(a) PROVE r \in ledger[p].commits
    BY <1>13, <1>0 DEF Restart, LedgerType
<1>14. Tick \/ UNCHANGED vars => r \in ledger[p].commits
    BY DEF Tick, vars
<1> QED
    BY <1>3, <1>4, <1>5, <1>6, <1>7, <1>8, <1>9, <1>10, <1>11, <1>12, <1>13, <1>14
    DEF Next, Fsm, Deliver

LEMMA CommitsSentStep ==
    ASSUME IInv, CommitsSent, [Next]_vars
    PROVE  CommitsSent'
<1> SUFFICES ASSUME NEW p \in Authority, NEW r \in ledger'[p].commits
             PROVE  VoteSent(r)'
    BY DEF CommitsSent
<1>0. TypeOK /\ msgs \subseteq msgs'
    BY NewMessages DEF IInv
<1>1. CASE r \in ledger[p].commits
    BY <1>0, <1>1, SentStaysSent DEF CommitsSent
<1>2. CASE FsmAcceptDescriptor(p) /\ r = Secret(p, votingEpoch[p])
    BY <1>2, FirstVote
<1>3. ASSUME NEW m \in msgs, OnVoteUpload(p, m), r = m.commit PROVE VoteSent(r)'
  <2>1. m.type = "vote" /\ m.from = r.from /\ m.epoch = r.epoch
      BY <1>3 DEF OnVoteUpload, Accepts, IInv, WellFormedMessages
  <2> QED BY <1>0, <1>3, <2>1 DEF VoteSent
<1> QED BY <1>0, <1>1, <1>2, <1>3, CommitStep

(* sendRevealToAuthorities is the only way out of the phase of the votes, but for a crash. *)
LEMMA LeavesVotePhase ==
    ASSUME TypeOK, [Next]_vars, NEW p \in Authority, state[p] = "accept_vote"
    PROVE  \/ state'[p] = "accept_vote"
           \/ state'[p] = "bootstrap"
           \/ FsmAcceptVote(p)
<1>0. state \in [Authority -> States]
    BY DEF TypeOK
<1>1. ASSUME NEW a \in Authority, Fsm(a) PROVE state'[p] = "accept_vote" \/ FsmAcceptVote(p)
  <2>1. CASE a = p
      BY <1>1, <2>1 DEF Fsm, FsmBootstrap, FsmAcceptDescriptor, FsmAcceptReveal,
         FsmAcceptCert, FsmConsensusReached, FsmConsensusFailed, Due
  <2>2. CASE a # p
    <3>1. \E s, t : Goto(a, s, t)
        BY <1>1 DEF Fsm, FsmBootstrap, FsmAcceptDescriptor, FsmAcceptVote, FsmAcceptReveal,
           FsmAcceptCert, FsmConsensusReached, FsmConsensusFailed, SitOut
    <3> QED BY <1>0, <2>2, <3>1 DEF Goto
  <2> QED BY <2>1, <2>2
<1>2. ASSUME NEW a \in Authority, Crash(a) PROVE state'[p] \in {"accept_vote", "bootstrap"}
    BY <1>2, <1>0 DEF Crash
<1>3. ASSUME NEW a \in Authority, NEW m \in msgs, Deliver(a, m) PROVE state' = state
    BY <1>3 DEF Deliver, OnVoteUpload, OnRevealUpload, OnCertUpload, OnSigUpload, fsmVars
<1>4. ASSUME NEW a \in Authority, NEW b \in Authority, FetchConsensus(a, b) \/ Restart(a)
      PROVE  state' = state
    BY <1>4 DEF FetchConsensus, Restart, fsmVars
<1>5. Tick \/ UNCHANGED vars => state' = state
    BY DEF Tick, vars, fsmVars
<1> QED BY <1>1, <1>2, <1>3, <1>4, <1>5 DEF Next

(* Our own reveal has been sent when the phase of the reveals is reached. *)
LEMMA OwnReveal ==
    ASSUME IInv, RevealsSent, [Next]_vars, NEW p \in Authority, NEW r \in ledger[p].reveals,
           r.from = p, r.epoch = votingEpoch'[p], Phase(state'[p]) >= 2
    PROVE  RevealSent(r)'
<1>0. /\ TypeOK /\ TypeOK' /\ OnSchedule /\ OnSchedule' /\ msgs \subseteq msgs'
      /\ state[p] \in States /\ state'[p] \in States
    BY NewMessages, TypeStep, ScheduleStep DEF IInv, TypeOK
<1>a. Phase("bootstrap") = 0 /\ Phase("accept_desc") = 0
    BY DEF Phase
<1>1. p \in up'
    BY <1>0, <1>a DEF OnSchedule
<1>2. Stays(p) \/ Advances(p)
    BY <1>0, <1>1, <1>a, StepMoves DEF Moves, ComesBack, SitsOut, StartsVoting, Succeeds
<1>3. votingEpoch'[p] = votingEpoch[p]
    BY <1>2 DEF Stays, Advances
<1>4. CASE Phase(state[p]) >= 2
    BY <1>0, <1>3, <1>4, SentStaysSent DEF RevealsSent, Told
<1>5. CASE ~(Phase(state[p]) >= 2)
  <2>1. Phase(state[p]) = 1 /\ state[p] # state'[p]
      BY <1>0, <1>2, <1>5, Phases DEF Stays, Advances
  <2>2. state[p] = "accept_vote"
      BY <1>0, <2>1 DEF Phase, States
  <2>3. FsmAcceptVote(p)
      BY <1>0, <1>a, <2>1, <2>2, LeavesVotePhase
  <2>4. [type |-> "reveal", from |-> p, epoch |-> r.epoch, reveal |-> r] \in msgs'
      BY <1>3, <2>3 DEF FsmAcceptVote, At
  <2> QED BY <2>4 DEF RevealSent
<1> QED BY <1>4, <1>5

LEMMA RevealsSentStep ==
    ASSUME IInv, RevealsSent, [Next]_vars
    PROVE  RevealsSent'
<1> SUFFICES ASSUME NEW p \in Authority, NEW r \in ledger'[p].reveals,
                    r.from # p \/ (r.epoch = votingEpoch'[p] /\ Phase(state'[p]) >= 2)
             PROVE  RevealSent(r)'
    BY DEF RevealsSent, Told
<1>0. /\ TypeOK /\ msgs \subseteq msgs'
      /\ ledger \in [Authority -> LedgerType] /\ ledger[p] \in LedgerType
    BY NewMessages DEF IInv, TypeOK
<1>1. CASE r \in ledger[p].reveals
  <2>1. CASE r.from = p
      BY <1>1, <2>1, OwnReveal
  <2>2. CASE r.from # p
      BY <1>0, <1>1, <2>2, SentStaysSent DEF RevealsSent, Told
  <2> QED BY <2>1, <2>2
<1>2. CASE FsmAcceptCert(p)
  <2>1. PICK S : ledger' = [ledger EXCEPT ![p] = Prune([ledger[p] EXCEPT !.myconsensus = S])]
      BY <1>2, Signs
  <2>2. [ledger[p] EXCEPT !.myconsensus = S].reveals = ledger[p].reveals
      BY <1>0 DEF LedgerType
  <2>3. r \in ledger[p].reveals
      BY <2>1, <2>2, <1>0, PruneShrinks DEF LedgerFields
  <2> QED BY <1>1, <2>3
<1>3. CASE FsmAcceptDescriptor(p)
  <2> DEFINE e == votingEpoch[p]
             others == {k \in ledger[p].reveals : k.epoch # e \/ k.from # p}
             commits == {k \in ledger[p].commits : k.epoch # e \/ k.from # p}
             l(new) == [ledger[p] EXCEPT !.commits = commits \cup {Secret(p, e)},
                                         !.reveals = others \cup {Secret(p, e)},
                                         !.votes   = ledger[p].votes \cup new]
  <2>1. PICK new : ledger' = [ledger EXCEPT ![p] = Prune(l(new))]
      BY <1>3, Votes
  <2>2. l(new).reveals = others \cup {Secret(p, e)}
      BY <1>0 DEF LedgerType
  <2> HIDE DEF l
  <2>3. r \in ledger[p].reveals \/ r.from = p
      BY <2>1, <2>2, <1>0, PruneShrinks DEF LedgerFields, Secret
  <2>4. Phase(state'[p]) = 1
      BY <1>0, <1>3 DEF FsmAcceptDescriptor, Goto, TypeOK, Phase
  <2> QED BY <1>1, <2>3, <2>4
<1>4. ASSUME NEW m \in msgs, OnRevealUpload(p, m) PROVE RevealSent(r)'
  <2>1. ledger'[p].reveals = ledger[p].reveals \cup {m.reveal}
      BY <1>4, <1>0 DEF OnRevealUpload, LedgerType
  <2>2. m.type = "reveal" /\ m.reveal.from = m.from /\ m.reveal.epoch = m.epoch
      BY <1>4 DEF OnRevealUpload, Accepts, IInv, WellFormedMessages
  <2>3. CASE r = m.reveal
      BY <1>0, <2>2, <2>3 DEF RevealSent
  <2> QED BY <1>1, <2>1, <2>3
<1> QED BY <1>0, <1>1, <1>2, <1>3, <1>4, LedgerStep DEF Shrinks

(* Who has sent a new command, and what is in it. *)
SendsCert(a, m) ==
    /\ FsmAcceptReveal(a) /\ m.epoch = votingEpoch[a]
    /\ m.commits = At(a, "commits", m.epoch) /\ m.reveals = At(a, "reveals", m.epoch)

SendsSig(a, m) ==
    /\ FsmAcceptCert(a) /\ m.epoch = votingEpoch[a]
    /\ m.body.mixes = tallyVotes(a, m.epoch)
    /\ \E commits \in verifyCommits(a, m.epoch) :
          Enough(a, m.epoch, commits) /\ m.body.srv.reveals = commits

LEMMA Sender ==
    ASSUME TypeOK, OneRevealEach, [Next]_vars, NEW m \in msgs' \ msgs
    PROVE  /\ m.from \in up /\ m.epoch = votingEpoch[m.from]
           /\ m.type = "vote" => FsmAcceptDescriptor(m.from)
           /\ m.type = "reveal" => FsmAcceptVote(m.from)
           /\ m.type = "cert" => SendsCert(m.from, m)
           /\ m.type = "sig" => SendsSig(m.from, m)
<1> DEFINE Goal == /\ m.type = "vote" => FsmAcceptDescriptor(m.from)
                   /\ m.type = "reveal" => FsmAcceptVote(m.from)
                   /\ m.type = "cert" => SendsCert(m.from, m)
                   /\ m.type = "sig" => SendsSig(m.from, m)
<1>0. m.from \in up /\ m.epoch = votingEpoch[m.from]
    BY NewMessages DEF Says
<1>1. ASSUME NEW a \in Authority, FsmAcceptDescriptor(a) PROVE Goal
  <2>1. PICK mixes, new :
           /\ new \subseteq {[type |-> "vote", from |-> a, epoch |-> votingEpoch[a],
                              mixes |-> mixes, commit |-> Secret(a, votingEpoch[a])]}
           /\ msgs' = msgs \cup new
      BY <1>1, Votes
  <2> QED BY <1>1, <2>1
<1>2. ASSUME NEW a \in Authority, FsmAcceptVote(a) PROVE Goal
  <2>1. PICK r : m = [type |-> "reveal", from |-> a, epoch |-> r.epoch, reveal |-> r]
      BY <1>2 DEF FsmAcceptVote
  <2> QED BY <1>2, <2>1
<1>3. ASSUME NEW a \in Authority, FsmAcceptReveal(a) PROVE Goal
  <2>1. m = [type |-> "cert", from |-> a, epoch |-> votingEpoch[a],
             commits |-> At(a, "commits", votingEpoch[a]),
             reveals |-> At(a, "reveals", votingEpoch[a])]
      BY <1>3 DEF FsmAcceptReveal
  <2> QED BY <1>3, <2>1 DEF SendsCert
<1>4. ASSUME NEW a \in Authority, FsmAcceptCert(a) PROVE Goal
  <2> DEFINE e == votingEpoch[a]
             srv(commits) == computeSharedRandom(a, e, commits)
             body(commits) == Body(a, e, tallyVotes(a, e), srv(commits),
                                   ConsensusPriorSRV(a, e, srv(commits)))
  <2>1. PICK commits \in verifyCommits(a, e) :
           /\ Enough(a, e, commits)
           /\ m = [type |-> "sig", from |-> a, epoch |-> e, body |-> body(commits)]
      BY <1>4 DEF FsmAcceptCert
  <2>2. body(commits).mixes = tallyVotes(a, e) /\ body(commits).srv.reveals = commits
      BY DEF Body, computeSharedRandom
  <2> HIDE DEF body
  <2>3. SendsSig(a, m)
      BY <1>4, <2>1, <2>2 DEF SendsSig
  <2> QED BY <2>1, <2>3
<1>5. ASSUME NEW a \in Authority,
             \/ FsmBootstrap(a) \/ FsmConsensusReached(a) \/ FsmConsensusFailed(a)
             \/ Crash(a) \/ Restart(a)
      PROVE  FALSE
    BY <1>5 DEF FsmBootstrap, FsmConsensusReached, FsmConsensusFailed, Crash, Restart
<1>6. ASSUME NEW a \in Authority, NEW n \in msgs, Deliver(a, n) PROVE FALSE
    BY <1>6 DEF Deliver, OnVoteUpload, OnRevealUpload, OnCertUpload, OnSigUpload
<1>7. ASSUME NEW a \in Authority, NEW b \in Authority, FetchConsensus(a, b) PROVE FALSE
    BY <1>7 DEF FetchConsensus
<1>8. ~Tick /\ ~UNCHANGED vars
    BY DEF Tick, vars
<1> QED
    BY <1>0, <1>1, <1>2, <1>3, <1>4, <1>5, <1>6, <1>7, <1>8 DEF Next, Fsm

LEMMA CertificatesStep ==
    ASSUME IInv, CommitsSent, RevealsSent, CertificatesBacked, [Next]_vars
    PROVE  CertificatesBacked'
<1> SUFFICES ASSUME NEW m \in msgs', m.type = "cert"
             PROVE  /\ \A r \in m.commits : r.epoch = m.epoch /\ VoteSent(r)'
                    /\ \A r \in m.reveals : r.epoch = m.epoch /\ RevealSent(r)'
    BY DEF CertificatesBacked
<1>0. TypeOK /\ OneRevealEach /\ msgs \subseteq msgs'
    BY NewMessages DEF IInv
<1>1. CASE m \in msgs
    BY <1>0, <1>1, SentStaysSent DEF CertificatesBacked
<1>2. CASE m \notin msgs
  <2>1. PICK a \in Authority : SendsCert(a, m)
    <3>1. m.from \in Authority /\ SendsCert(m.from, m)
        BY <1>0, <1>2, Sender DEF TypeOK
    <3> QED BY <3>1
  <2>2. m.epoch = votingEpoch[a] /\ Phase(state[a]) = 2
      BY <2>1 DEF SendsCert, FsmAcceptReveal, Due, Phase
  <2>3. ASSUME NEW r \in m.commits PROVE r.epoch = m.epoch /\ VoteSent(r)'
      BY <2>1, <2>3, <1>0, SentStaysSent DEF SendsCert, At, CommitsSent
  <2>4. ASSUME NEW r \in m.reveals PROVE r.epoch = m.epoch /\ RevealSent(r)'
    <3>1. r \in ledger[a].reveals /\ r.epoch = m.epoch
        BY <2>1, <2>4 DEF SendsCert, At
    <3>2. RevealSent(r)
        BY <2>2, <3>1 DEF RevealsSent, Told
    <3> QED BY <3>1, <3>2, <1>0, SentStaysSent
  <2> QED BY <2>3, <2>4
<1> QED BY <1>1, <1>2

(* verifyCommits takes a random number only if a certificate holds its commit and its *)
(* reveal, and no two of one authority.                                               *)
LEMMA Verified ==
    ASSUME NEW a, NEW e, NEW commits \in verifyCommits(a, e)
    PROVE  /\ \A r \in commits : \E c \in At(a, "certificates", e) :
                 r \in CertCommits(a, c) /\ r \in CertReveals(a, c)
           /\ \A r, k \in commits : r.from = k.from => r = k
<1> DEFINE certs == At(a, "certificates", e)
           bad   == {c.from : c \in {c \in certs : ~Complete(a, c)}}
           Good(S) == {k \in S : k.from \notin bad /\ ~Equivocates(k, S)}
<1>1. PICK f \in [certs -> UNION {Contribution(a, c) : c \in certs}] :
         /\ \A c \in certs : f[c] \in Contribution(a, c)
         /\ commits = Good(UNION {f[c] : c \in certs})
    BY DEF verifyCommits
<1> DEFINE all == UNION {f[c] : c \in certs}
<1>2. \A r \in commits : r \in all /\ ~Equivocates(r, all)
    BY <1>1
<1>3. \A r \in commits : \E c \in certs : r \in f[c]
    BY <1>2
<1>4. ASSUME NEW c \in certs, NEW r \in f[c]
      PROVE  r \in CertCommits(a, c) /\ r \in CertReveals(a, c)
    BY <1>1, <1>4 DEF Contribution, Complete
<1> HIDE DEF all, certs
<1>5. \A r, k \in commits : r.from = k.from => r = k
    BY <1>2 DEF Equivocates
<1>6. \A r \in commits : \E c \in certs : r \in CertCommits(a, c) /\ r \in CertReveals(a, c)
    BY <1>3, <1>4
<1> QED BY <1>5, <1>6 DEF certs

(* A random number that is taken was committed to in a vote and then revealed. *)
LEMMA VerifiedIsSent ==
    ASSUME IInv, CommitsSent, RevealsSent, CertificatesBacked,
           NEW a \in Authority, state[a] = "accept_cert",
           NEW commits \in verifyCommits(a, votingEpoch[a]), NEW r \in commits
    PROVE  r.epoch = votingEpoch[a] /\ VoteSent(r) /\ RevealSent(r)
<1> DEFINE e == votingEpoch[a]
<1>1. PICK c \in At(a, "certificates", e) : r \in CertCommits(a, c) /\ r \in CertReveals(a, c)
    BY Verified
<1>2. c.epoch = e /\ c \in msgs /\ c.type = "cert"
    BY <1>1 DEF At, IInv, TypeOK, LedgerType
<1>3. CASE c.from = a
  <2>1. r \in At(a, "commits", e) /\ r \in At(a, "reveals", e)
      BY <1>1, <1>2, <1>3 DEF CertCommits, CertReveals
  <2>2. r.epoch = e /\ r \in ledger[a].commits /\ r \in ledger[a].reveals
      BY <2>1 DEF At
  <2>3. Phase(state[a]) >= 2
      BY DEF Phase
  <2> QED BY <2>2, <2>3 DEF CommitsSent, RevealsSent, Told
<1>4. CASE c.from # a
    BY <1>1, <1>2, <1>4 DEF CertCommits, CertReveals, CertificatesBacked
<1> QED BY <1>3, <1>4

LEMMA SignedRandomStep ==
    ASSUME IInv, CommitsSent, RevealsSent, CertificatesBacked, SignedRandom, [Next]_vars
    PROVE  SignedRandom'
<1> SUFFICES ASSUME NEW m \in msgs', m.type = "sig"
             PROVE  /\ 2 * Cardinality({r.from : r \in m.body.srv.reveals})
                          > Cardinality(Authority)
                    /\ \A r \in m.body.srv.reveals :
                          r.epoch = m.epoch /\ VoteSent(r)' /\ RevealSent(r)'
    BY DEF SignedRandom
<1>0. TypeOK /\ OneRevealEach /\ msgs \subseteq msgs'
    BY NewMessages DEF IInv
<1>1. CASE m \in msgs
    BY <1>0, <1>1, SentStaysSent DEF SignedRandom
<1>2. CASE m \notin msgs
  <2>1. PICK a \in Authority : SendsSig(a, m)
    <3>1. m.from \in Authority /\ SendsSig(m.from, m)
        BY <1>0, <1>2, Sender DEF TypeOK
    <3> QED BY <3>1
  <2>2. state[a] = "accept_cert" /\ m.epoch = votingEpoch[a]
      BY <2>1 DEF SendsSig, FsmAcceptCert, Due
  <2>3. PICK commits \in verifyCommits(a, votingEpoch[a]) :
           Cardinality(commits) >= Threshold /\ m.body.srv.reveals = commits
      BY <2>1, <2>2 DEF SendsSig, Enough
  <2>4. \A r \in commits : r.epoch = m.epoch /\ VoteSent(r) /\ RevealSent(r)
      BY <2>2, VerifiedIsSent
  <2> DEFINE senders == {r.from : r \in commits}
  <2>5. senders \subseteq Authority
      BY <2>4, <1>0 DEF VoteSent, TypeOK
  <2>6. \A r, k \in commits : r.from = k.from => r = k
      BY Verified
  <2>7. /\ Cardinality(commits) <= Cardinality(senders)
        /\ Cardinality(commits) \in Nat /\ Cardinality(senders) \in Nat
      BY <2>5, <2>6, OneEach
  <2>8. Cardinality(senders) >= Threshold
    <3>1. Threshold \in Int
        BY AuthorityAssumption, FS_CardinalityType DEF Threshold
    <3> HIDE DEF senders
    <3> QED BY <2>3, <2>7, <3>1
  <2>9. 2 * Cardinality(senders) > Cardinality(Authority)
      BY <2>7, <2>8, Majority
  <2> QED BY <2>3, <2>4, <2>9, <1>0, SentStaysSent
<1> QED BY <1>1, <1>2

(* More votes list a mix when more has been sent. *)
LEMMA ListingGrows ==
    ASSUME TypeOK', msgs \subseteq msgs', NEW e, NEW x
    PROVE  /\ Cardinality(Listing(e, x)) <= Cardinality(Listing(e, x)')
           /\ Cardinality(Listing(e, x)) \in Nat /\ Cardinality(Listing(e, x)') \in Nat
<1>1. Listing(e, x) \subseteq Listing(e, x)' /\ Listing(e, x)' \subseteq Authority
    BY DEF Listing, TypeOK
<1>2. IsFiniteSet(Listing(e, x)')
    BY <1>1, AuthorityAssumption, FS_Subset
<1>3. IsFiniteSet(Listing(e, x)) /\ Cardinality(Listing(e, x)) <= Cardinality(Listing(e, x)')
    BY <1>1, <1>2, FS_Subset
<1> QED BY <1>2, <1>3, FS_CardinalityType

LEMMA SignedMixesStep ==
    ASSUME IInv, SignedMixes, [Next]_vars
    PROVE  SignedMixes'
<1> SUFFICES ASSUME NEW m \in msgs', m.type = "sig", NEW x \in m.body.mixes
             PROVE  2 * Cardinality(Listing(m.epoch, x)') > Cardinality(Authority)
    BY DEF SignedMixes
<1>0. /\ TypeOK /\ TypeOK' /\ OneRevealEach /\ msgs \subseteq msgs'
      /\ Cardinality(Authority) \in Nat
    BY NewMessages, TypeStep, AuthorityAssumption, FS_CardinalityType DEF IInv
<1>1. SUFFICES 2 * Cardinality(Listing(m.epoch, x)) > Cardinality(Authority)
    BY <1>0, ListingGrows
<1>2. CASE m \in msgs
    BY <1>2 DEF SignedMixes
<1>3. CASE m \notin msgs
  <2>1. PICK a \in Authority : SendsSig(a, m)
    <3>1. m.from \in Authority /\ SendsSig(m.from, m)
        BY <1>0, <1>3, Sender DEF TypeOK
    <3> QED BY <3>1
  <2> DEFINE votes == Voters(a, m.epoch, x)
             T == Listing(m.epoch, x)
  <2>2. Cardinality(votes) >= Threshold
      BY <2>1 DEF SendsSig, tallyVotes
  <2>3. \A v \in votes : v \in msgs /\ v.type = "vote" /\ v.epoch = m.epoch /\ x \in v.mixes
      BY <1>0 DEF Voters, At, TypeOK, LedgerType
  <2>4. \A v \in votes : v.from \in T
      BY <2>3 DEF Listing
  <2>5. \A v, w \in votes : v.from = w.from => v = w
      BY <2>3 DEF IInv, NoEquivocation
  <2>6. T \subseteq Authority
      BY <1>0 DEF Listing, TypeOK
  <2>7. /\ Cardinality(votes) <= Cardinality(T)
        /\ Cardinality(votes) \in Nat /\ Cardinality(T) \in Nat
    <3> HIDE DEF votes, T
    <3> QED BY <2>4, <2>5, <2>6, OneEach
  <2>8. Cardinality(T) >= Threshold
    <3>1. Threshold \in Int
        BY AuthorityAssumption, FS_CardinalityType DEF Threshold
    <3> HIDE DEF votes, T
    <3> QED BY <2>2, <2>7, <3>1
  <2> QED BY <2>7, <2>8, Majority
<1> QED BY <1>2, <1>3

LEMMA InitBacked == Init => Backed
<1> SUFFICES ASSUME Init PROVE Backed
    OBVIOUS
<1>1. \A a \in Authority : ledger[a].commits = {} /\ ledger[a].reveals = {}
    BY DEF Init, EmptyLedger, LedgerFields
<1> QED
    BY <1>1 DEF Init, Backed, CommitsSent, RevealsSent, CertificatesBacked, SignedMixes,
       SignedRandom

LEMMA StepBacked == IInv /\ Backed /\ [Next]_vars => Backed'
BY CommitsSentStep, RevealsSentStep, CertificatesStep, SignedMixesStep, SignedRandomStep
   DEF Backed

LEMMA AlwaysBacked == Spec => [](IInv /\ Backed)
BY InitIInv, StepIInv, InitBacked, StepBacked, PTL DEF Spec

(* A published document has been signed by someone. *)
LEMMA SomeSigner ==
    ASSUME IInv, NEW d \in published
    PROVE  \E m \in msgs : m.type = "sig" /\ m.epoch = d.epoch /\ m.body = d.body
<1>1. d.sigs \subseteq Authority /\ Cardinality(d.sigs) >= Threshold
    BY DEF IInv, PublishedIsSigned
<1>2. d.sigs # {}
  <2>1. Threshold \in Nat /\ Threshold > 0
      BY AuthorityAssumption, FS_CardinalityType DEF Threshold
  <2> QED BY <1>1, <2>1, FS_EmptySet
<1>3. PICK p \in d.sigs : HasSigned(p, d.epoch, d.body)
    BY <1>2 DEF IInv, PublishedIsSigned
<1> QED BY <1>3 DEF HasSigned

(* Every mix of a published document is in the votes of more than half of the authorities: *)
(* a vote that comes late, twice or for another epoch is not counted, and neither is the   *)
(* vote of an authority that crashed and voted again.                                      *)
THEOREM MixesOfAMajority == Spec => []MajorityMixes
<1>1. IInv /\ Backed => MajorityMixes
  <2> SUFFICES ASSUME IInv, Backed, NEW d \in published, NEW x \in d.body.mixes
               PROVE  2 * Cardinality(Listing(d.epoch, x)) > Cardinality(Authority)
      BY DEF MajorityMixes, Listing
  <2> QED BY SomeSigner DEF Backed, SignedMixes
<1> QED BY <1>1, AlwaysBacked, PTL

(* The shared random of a published document is made of the random numbers of more than *)
(* half of the authorities, each committed to in a vote and revealed by its owner.      *)
THEOREM RandomOfAMajority == Spec => []MajorityRandom
<1>1. IInv /\ Backed => MajorityRandom
  <2> SUFFICES ASSUME IInv, Backed, NEW d \in published
               PROVE  /\ 2 * Cardinality({r.from : r \in d.body.srv.reveals})
                            > Cardinality(Authority)
                      /\ \A r \in d.body.srv.reveals :
                            r.epoch = d.epoch /\ VoteSent(r) /\ RevealSent(r)
      BY DEF MajorityRandom, VoteSent, RevealSent
  <2> QED BY SomeSigner DEF Backed, SignedRandom
<1> QED BY <1>1, AlwaysBacked, PTL

-----------------------------------------------------------------------------
(* Commit, then reveal.  When the timers fire in the slot of their deadline *)
(* (MaxLag is 0: a timer that is a slot late lets a vote be sent after the  *)
(* deadline of the votes, when others reveal), the authorities keep step:   *)
(* the votes on an epoch are sent in one slot and the reveals in the next.  *)

Deadline(s) ==
    CASE s = "accept_desc"      -> MixPublishDeadline
      [] s = "accept_vote"      -> AuthorityVoteDeadline
      [] s = "accept_reveal"    -> AuthorityRevealDeadline
      [] s = "accept_cert"      -> AuthorityCertDeadline
      [] s = "accept_signature" -> PublishConsensusDeadline

OnTime ==
    \A a \in up :
        /\ now <= wake[a]
        /\ state[a] # "bootstrap" =>
              wake[a] = EpochStart(votingEpoch[a] - 1) + Deadline(state[a])

RevealedInTime ==
    \A w \in msgs : w.type = "reveal" =>
        now >= EpochStart(w.epoch - 1) + AuthorityVoteDeadline

(* A timer set while the FSM is on time is set for the next deadline of the round. *)
Sets(a) ==
    /\ now' = now /\ up' = up /\ a \in up
    /\ \A p \in up \ {a} : UNCHANGED <<wake[p], state[p], votingEpoch[p]>>
    /\ now <= wake'[a]
    /\ state'[a] # "bootstrap" =>
          wake'[a] = EpochStart(votingEpoch'[a] - 1) + Deadline(state'[a])

LEMMA FsmOnTime ==
    ASSUME TypeOK, OnTime, NEW a \in Authority, Fsm(a)
    PROVE  Sets(a)
<1>0. /\ state \in [Authority -> States] /\ wake \in [Authority -> Nat]
      /\ votingEpoch \in [Authority -> Nat] /\ now \in Nat /\ Epoch \in Nat
      /\ up \subseteq Authority
    BY Moments DEF TypeOK
<1>a. 8 * Epoch <= now /\ now < 8 * Epoch + 8
    BY Moments
<1>1. ASSUME NEW k \in Nat
      PROVE  Elapsed(k) = 8 * Epoch + k /\ NextEpoch(k) = 8 * Epoch + 8 + k
    BY <1>1, Moments
<1>2. \A e \in Nat : EpochStart(e - 1) = 8 * e - 8
    BY DEF EpochStart, SlotsPerEpoch
<1>3. now' = now /\ up' = up /\ a \in up /\ wake[a] <= now
    BY DEF Fsm, FsmBootstrap, FsmAcceptDescriptor, FsmAcceptVote, FsmAcceptReveal,
       FsmAcceptCert, FsmConsensusReached, FsmConsensusFailed, Due, clockVars
<1>4. /\ now = wake[a]
      /\ state[a] # "bootstrap" => now = 8 * votingEpoch[a] - 8 + Deadline(state[a])
    BY <1>0, <1>2, <1>3 DEF OnTime
<1>5. \A p \in up \ {a} : UNCHANGED <<wake[p], state[p], votingEpoch[p]>>
    BY <1>0 DEF Fsm, FsmBootstrap, FsmAcceptDescriptor, FsmAcceptVote, FsmAcceptReveal,
       FsmAcceptCert, FsmConsensusReached, FsmConsensusFailed, SitOut, Goto
<1>6. SUFFICES /\ now <= wake'[a]
               /\ state'[a] # "bootstrap" =>
                     wake'[a] = EpochStart(votingEpoch'[a] - 1) + Deadline(state'[a])
    BY <1>3, <1>5 DEF Sets
<1> USE DEF MixPublishDeadline, AuthorityVoteDeadline, AuthorityRevealDeadline,
            AuthorityCertDeadline, PublishConsensusDeadline
<1>7. CASE SitOut(a)
    BY <1>7, <1>0, <1>1, <1>a DEF SitOut, Goto
<1>9. CASE FsmBootstrap(a) /\ ~SitOut(a)
  <2>1. /\ ~TooLateToVote /\ votingEpoch'[a] = Epoch + 1
        /\ state'[a] = "accept_desc" /\ wake'[a] = Elapsed(1)
      BY <1>9, <1>0 DEF FsmBootstrap, Goto
  <2>2. now <= 8 * Epoch + 1
      BY <2>1, <1>0, <1>1 DEF TooLateToVote
  <2> QED BY <2>1, <2>2, <1>0, <1>1, <1>2 DEF Deadline
<1>10. CASE FsmAcceptDescriptor(a)
  <2>1. /\ state[a] = "accept_desc" /\ state'[a] = "accept_vote"
        /\ wake'[a] = Elapsed(2) /\ votingEpoch'[a] = votingEpoch[a]
      BY <1>10, <1>0 DEF FsmAcceptDescriptor, Due, Goto
  <2>2. now = 8 * votingEpoch[a] - 8 + 1 /\ Deadline("accept_vote") = 2
      BY <2>1, <1>4 DEF Deadline
  <2>3. Epoch = votingEpoch[a] - 1
      BY <2>2, <1>0, <1>a
  <2> QED BY <2>1, <2>2, <2>3, <1>0, <1>1, <1>2
<1>11. CASE FsmAcceptVote(a)
  <2>1. /\ state[a] = "accept_vote" /\ state'[a] = "accept_reveal"
        /\ wake'[a] = Elapsed(3) /\ votingEpoch'[a] = votingEpoch[a]
      BY <1>11, <1>0 DEF FsmAcceptVote, Due, Goto
  <2>2. now = 8 * votingEpoch[a] - 8 + 2 /\ Deadline("accept_reveal") = 3
      BY <2>1, <1>4 DEF Deadline
  <2>3. Epoch = votingEpoch[a] - 1
      BY <2>2, <1>0, <1>a
  <2> QED BY <2>1, <2>2, <2>3, <1>0, <1>1, <1>2
<1>12. CASE FsmAcceptReveal(a)
  <2>1. /\ state[a] = "accept_reveal" /\ state'[a] = "accept_cert"
        /\ wake'[a] = Elapsed(4) /\ votingEpoch'[a] = votingEpoch[a]
      BY <1>12, <1>0 DEF FsmAcceptReveal, Due, Goto
  <2>2. now = 8 * votingEpoch[a] - 8 + 3 /\ Deadline("accept_cert") = 4
      BY <2>1, <1>4 DEF Deadline
  <2>3. Epoch = votingEpoch[a] - 1
      BY <2>2, <1>0, <1>a
  <2> QED BY <2>1, <2>2, <2>3, <1>0, <1>1, <1>2
<1>13. CASE FsmAcceptCert(a)
  <2>1. /\ state[a] = "accept_cert" /\ state'[a] = "accept_signature"
        /\ wake'[a] = Elapsed(5) /\ votingEpoch'[a] = votingEpoch[a]
      BY <1>13, <1>0 DEF FsmAcceptCert, Due, Goto
  <2>2. now = 8 * votingEpoch[a] - 8 + 4 /\ Deadline("accept_signature") = 5
      BY <2>1, <1>4 DEF Deadline
  <2>3. Epoch = votingEpoch[a] - 1
      BY <2>2, <1>0, <1>a
  <2> QED BY <2>1, <2>2, <2>3, <1>0, <1>1, <1>2
<1>14. CASE FsmConsensusReached(a)
  <2>1. /\ state[a] = "accept_signature" /\ state'[a] = "accept_desc"
        /\ votingEpoch'[a] = votingEpoch[a] + 1 /\ wake'[a] = NextEpoch(1)
      BY <1>14, <1>0 DEF FsmConsensusReached, Due, Goto
  <2>2. now = 8 * votingEpoch[a] - 8 + 5
      BY <2>1, <1>4 DEF Deadline
  <2>3. Epoch = votingEpoch[a] - 1
      BY <2>2, <1>0, <1>a
  <2>4. wake'[a] = 8 * votingEpoch[a] + 1
      BY <2>1, <2>3, <1>0, <1>1
  <2>5. EpochStart(votingEpoch'[a] - 1) = 8 * votingEpoch[a] /\ Deadline("accept_desc") = 1
      BY <2>1, <1>0, <1>2 DEF Deadline
  <2> QED BY <2>1, <2>2, <2>4, <2>5, <1>0
<1> QED
    BY <1>7, <1>9, <1>10, <1>11, <1>12, <1>13, <1>14 DEF Fsm, FsmConsensusFailed

LEMMA OnTimeStep ==
    ASSUME MaxLag = 0, TypeOK, OnSchedule, OnTime, [Next]_vars
    PROVE  OnTime'
<1>0. TypeOK' /\ up \subseteq Authority /\ wake \in [Authority -> Nat] /\ now \in Nat
      /\ state \in [Authority -> States]
    BY TypeStep DEF TypeOK
<1>1. CASE Tick
  <2>1. \A a \in up : now < wake[a]
      BY <1>0, <1>1 DEF Tick
  <2> QED BY <1>0, <1>1, <2>1 DEF Tick, fsmVars, OnTime
<1>2. ASSUME NEW a \in Authority, Fsm(a) PROVE OnTime'
    BY <1>2, FsmOnTime DEF Sets, OnTime
<1>3. ASSUME NEW a \in Authority, NEW m \in msgs, Deliver(a, m) PROVE OnTime'
    BY <1>3 DEF Deliver, OnVoteUpload, OnRevealUpload, OnCertUpload, OnSigUpload,
       clockVars, fsmVars, OnTime
<1>4. ASSUME NEW a \in Authority, NEW b \in Authority, FetchConsensus(a, b) PROVE OnTime'
    BY <1>4 DEF FetchConsensus, clockVars, fsmVars, OnTime
<1>5. ASSUME NEW a \in Authority, Crash(a) PROVE OnTime'
  <2>1. up' = up \ {a} /\ now' = now
        /\ \A p \in up' : wake'[p] = wake[p] /\ state'[p] = state[p]
                          /\ votingEpoch'[p] = votingEpoch[p]
      BY <1>5, <1>0 DEF Crash, TypeOK
  <2> QED BY <2>1 DEF OnTime
<1>6. ASSUME NEW a \in Authority, Restart(a) PROVE OnTime'
  <2>1. up' = up \cup {a} /\ now' = now /\ wake' = [wake EXCEPT ![a] = now]
        /\ state' = state /\ votingEpoch' = votingEpoch /\ a \notin up
      BY <1>6 DEF Restart
  <2>2. state[a] = "bootstrap"
      BY <1>6 DEF Restart, OnSchedule
  <2> QED BY <2>1, <2>2, <1>0 DEF OnTime
<1>7. CASE UNCHANGED vars
    BY <1>7 DEF vars, clockVars, fsmVars, OnTime
<1> QED BY <1>1, <1>2, <1>3, <1>4, <1>5, <1>6, <1>7 DEF Next

(* A reveal is sent two slots after the start of the epoch in which its round is. *)
LEMMA RevealedStep ==
    ASSUME IInv, OnTime, RevealedInTime, [Next]_vars
    PROVE  RevealedInTime'
<1>0. /\ TypeOK /\ TypeOK' /\ OneRevealEach /\ msgs \subseteq msgs'
      /\ now \in Nat /\ now' \in Nat /\ now <= now'
    BY NewMessages, TypeStep, TimeGoesOn DEF IInv
<1>1. ASSUME NEW w \in msgs', w.type = "reveal"
      PROVE  now' >= EpochStart(w.epoch - 1) + AuthorityVoteDeadline
  <2>0. EpochStart(w.epoch - 1) \in Int /\ AuthorityVoteDeadline \in Int
      BY <1>0, <1>1 DEF TypeOK, EpochStart, SlotsPerEpoch, AuthorityVoteDeadline
  <2>1. CASE w \in msgs
    <3>1. now >= EpochStart(w.epoch - 1) + AuthorityVoteDeadline
        BY <1>1, <2>1 DEF RevealedInTime
    <3> QED BY <3>1, <2>0, <1>0
  <2>2. CASE w \notin msgs
    <3>1. /\ w.from \in up /\ w.epoch = votingEpoch[w.from]
          /\ FsmAcceptVote(w.from)
        BY <1>0, <1>1, <2>2, Sender
    <3>2. state[w.from] = "accept_vote" /\ wake[w.from] <= now /\ now' = now
        BY <3>1 DEF FsmAcceptVote, Due, clockVars
    <3>3. wake[w.from] = EpochStart(w.epoch - 1) + AuthorityVoteDeadline
        BY <3>1, <3>2 DEF OnTime, Deadline
    <3> QED BY <3>2, <3>3
  <2> QED BY <2>1, <2>2
<1> QED BY <1>1 DEF RevealedInTime

LEMMA StepOnTime ==
    ASSUME MaxLag = 0, IInv, OnTime, RevealedInTime, [Next]_vars
    PROVE  OnTime' /\ RevealedInTime'
BY OnTimeStep, RevealedStep DEF IInv

LEMMA InitOnTime == Init => OnTime /\ RevealedInTime
<1> SUFFICES ASSUME Init PROVE OnTime /\ RevealedInTime
    OBVIOUS
<1> QED BY TimeAssumption DEF Init, OnTime, RevealedInTime

(* When timers fire in time, no authority commits to a random number for an epoch after *)
(* another has revealed one, through crashes, restarts and lost commands.               *)
THEOREM CommitsComeFirst ==
    ASSUME MaxLag = 0
    PROVE  Spec => CommitBeforeReveal
<1> DEFINE TInv == IInv /\ OnTime /\ RevealedInTime
           Early == \A v \in msgs' \ msgs : v.type = "vote" =>
                       ~\E w \in msgs : w.type = "reveal" /\ w.epoch = v.epoch
<1>1. Init => TInv
    BY InitIInv, InitOnTime
<1>2. TInv /\ [Next]_vars => TInv'
    BY StepIInv, StepOnTime
<1>3. ASSUME TInv, [Next]_vars, NEW v \in msgs' \ msgs, v.type = "vote",
             NEW w \in msgs, w.type = "reveal", w.epoch = v.epoch
      PROVE  FALSE
  <2>0. TypeOK /\ OneRevealEach /\ OnTime /\ RevealedInTime /\ now \in Nat
      BY <1>3 DEF IInv, TypeOK
  <2>1. v.from \in up /\ v.epoch = votingEpoch[v.from] /\ FsmAcceptDescriptor(v.from)
      BY <1>3, <2>0, Sender
  <2>2. state[v.from] = "accept_desc" /\ wake[v.from] <= now
      BY <2>1 DEF FsmAcceptDescriptor, Due
  <2>3. now = EpochStart(v.epoch - 1) + MixPublishDeadline
    <3>1. wake[v.from] = EpochStart(v.epoch - 1) + MixPublishDeadline /\ now <= wake[v.from]
        BY <2>0, <2>1, <2>2 DEF OnTime, Deadline
    <3>2. wake[v.from] \in Nat
        BY <2>0, <2>1 DEF TypeOK
    <3> QED BY <2>0, <2>2, <3>1, <3>2
  <2>4. now >= EpochStart(v.epoch - 1) + AuthorityVoteDeadline
      BY <1>3, <2>0 DEF RevealedInTime
  <2>5. v.epoch \in Nat
      BY <2>0, <2>1 DEF TypeOK
  <2> QED BY <2>0, <2>3, <2>4, <2>5
          DEF EpochStart, SlotsPerEpoch, MixPublishDeadline, AuthorityVoteDeadline
<1>4. TInv /\ [Next]_vars => [Early]_vars
    BY <1>3
<1> QED BY <1>1, <1>2, <1>4, PTL DEF Spec, CommitBeforeReveal

-----------------------------------------------------------------------------
(* A crash costs one round. In a round that no crash touches all authorities but one   *)
(* vote, those who vote stay in the round until it ends, and what each phase sends has *)
(* arrived when the next begins: everyone has the same votes, commits, reveals and     *)
(* certificates, makes the same document and finds a majority of signatures on it. So  *)
(* every such round ends with a document. Of two rounds in a row, either no crash      *)
(* touches the second, which then ends with a document, or the second was voted on     *)
(* before the crash, and then the first has its document.                              *)

(* What the run that checks OneRoundLost assumes too, here for any number of           *)
(* authorities: fsm() wakes at its deadlines, commands arrive before the slot they are *)
(* sent in ends, there is at most one crash, all authorities but one are a majority,   *)
(* the authorities start at an epoch boundary, and some mix is in everyone's vote, so  *)
(* that no tally comes out empty.                                                      *)
RecoveryAssumption ==
    /\ MaxLag = 0 /\ MaxLate = 0 /\ MaxCrash \in 0..1
    /\ Cardinality(Authority) >= 3
    /\ StartTime % SlotsPerEpoch = 0
    /\ \E x : \A mixes \in Ballots : x \in mixes

(* The invariants of the sections above. *)
Basis == IInv /\ Backed /\ OnTime /\ RevealedInTime

(* The first epoch that is voted on, and the time at which the round for epoch e *)
(* begins.                                                                       *)
First     == EpochAt(StartTime) + 1
Begins(e) == EpochStart(e - 1)

(* What has been voted on epoch e, and what the votes commit to. *)
VotesFor(e)  == {m \in msgs : m.type = "vote" /\ m.epoch = e}
CommitsTo(e) == {v.commit : v \in VotesFor(e)}

(* An epoch that no crash has touched: no vote on it is of an earlier life of the       *)
(* network, and after a crash it counts only if the one before it got no document, as a *)
(* restarted authority may not have that document. An authority takes part in a round   *)
(* from its vote to the end.                                                            *)
Clean(e)    == \A v \in VotesFor(e) : v.commit.nonce = crashes
Good(e)     == Clean(e) /\ (crashes = 0 \/ ~Decided(e - 1))
Takes(a, e) == a \in up /\ votingEpoch[a] = e /\ Phase(state[a]) >= 1

(* What the sections above need not know: the domains of what fsm() keeps, the bound on *)
(* crashes, and that what has been sent is finite.                                      *)
Bounded ==
    /\ DOMAIN genesisEpoch = Authority /\ DOMAIN priorSRV = Authority
    /\ now >= StartTime /\ crashes <= MaxCrash /\ IsFiniteSet(msgs)
    /\ \A v \in msgs : v.type = "vote" => v.commit.nonce <= crashes /\ v.mixes \in Ballots

(* Commands, phases and documents come at their time of the round, for epochs after the *)
(* start.                                                                               *)
InSlot ==
    /\ \A m \in msgs : now >= Begins(m.epoch) + SentIn(m.type) /\ m.epoch >= First
    /\ \A a \in up : state[a] # "bootstrap" => votingEpoch[a] >= First
    /\ \A a \in up : Phase(state[a]) >= 1 => now >= Begins(votingEpoch[a]) + Phase(state[a])
    /\ \A d \in published : now >= Begins(d.epoch) + 5 /\ d.epoch >= First

(* The round has eight slots, and phase k of it ends at the slot k + 1. *)
LEMMA Slots ==
    /\ \A e \in Int : Begins(e) = 8 * e - 8
    /\ \A s \in States : Phase(s) \in 0..4 /\ (s # "bootstrap" => Deadline(s) = Phase(s) + 1)
    /\ \A t \in {"vote", "reveal", "cert", "sig"} : SentIn(t) \in 1..4
BY DEF Begins, EpochStart, SlotsPerEpoch, States, Phase, Deadline, SentIn, MixPublishDeadline,
       AuthorityVoteDeadline, AuthorityRevealDeadline, AuthorityCertDeadline,
       PublishConsensusDeadline

(* The timer of an authority that runs is set to the end of its phase. *)
LEMMA Timer ==
    ASSUME Basis, NEW a \in up
    PROVE  /\ a \in Authority /\ state[a] \in States /\ votingEpoch[a] \in Nat /\ wake[a] \in Nat
           /\ now \in Nat /\ now <= wake[a] /\ Phase(state[a]) \in 0..4
           /\ state[a] # "bootstrap" =>
                 wake[a] = Begins(votingEpoch[a]) + Phase(state[a]) + 1
<1>1. /\ a \in Authority /\ state[a] \in States /\ votingEpoch[a] \in Nat /\ wake[a] \in Nat
      /\ now \in Nat
  BY DEF Basis, IInv, TypeOK
<1>2. /\ now <= wake[a]
      /\ state[a] # "bootstrap" => wake[a] = Begins(votingEpoch[a]) + Deadline(state[a])
  BY DEF Basis, OnTime, Begins
<1>3. Begins(votingEpoch[a]) \in Int /\ Phase(state[a]) \in 0..4
  BY <1>1, Slots
<1> QED BY <1>1, <1>2, <1>3, Slots

(* The invariants of the sections above are kept when timers fire in time. *)
LEMMA BasisStep ==
    ASSUME MaxLag = 0, Basis, [Next]_vars
    PROVE  Basis'
BY StepIInv, StepBacked, StepOnTime DEF Basis

(* A process crashes, or those that run go on running. *)
LEMMA CrashOrNot ==
    ASSUME TypeOK, [Next]_vars
    PROVE  (crashes' = crashes /\ up \subseteq up') \/ \E a \in Authority : Crash(a)
<1>1. ASSUME NEW a \in Authority, Fsm(a) PROVE crashes' = crashes /\ up' = up
  BY <1>1 DEF Fsm, FsmBootstrap, FsmAcceptDescriptor, FsmAcceptVote, FsmAcceptReveal,
     FsmAcceptCert, FsmConsensusReached, FsmConsensusFailed, clockVars
<1>2. ASSUME NEW a \in Authority, NEW m \in msgs, Deliver(a, m) PROVE crashes' = crashes /\ up' = up
  BY <1>2 DEF Deliver, OnVoteUpload, OnRevealUpload, OnCertUpload, OnSigUpload, clockVars
<1>3. ASSUME NEW a \in Authority, NEW b \in Authority, FetchConsensus(a, b) \/ Restart(a)
      PROVE  crashes' = crashes /\ up \subseteq up'
  BY <1>3 DEF FetchConsensus, Restart, clockVars
<1>4. Tick \/ UNCHANGED vars => crashes' = crashes /\ up' = up
  BY DEF Tick, vars, clockVars
<1> QED BY <1>1, <1>2, <1>3, <1>4 DEF Next

(* Authority a stays where it is in its round. *)
Same(a) == UNCHANGED <<state[a], votingEpoch[a], wake[a], genesisEpoch[a], priorSRV[a]>>

(* What fsm() keeps of its own changes only when it runs. *)
LEMMA FsmOrSame ==
    ASSUME TypeOK, Bounded, [Next]_vars, NEW a \in up, a \in up'
    PROVE  Fsm(a) \/ Same(a)
<1>0. /\ a \in Authority /\ state \in [Authority -> States] /\ votingEpoch \in [Authority -> Nat]
      /\ wake \in [Authority -> Nat] /\ DOMAIN genesisEpoch = Authority /\ DOMAIN priorSRV = Authority
  BY DEF TypeOK, Bounded
<1> USE DEF Same
<1>1. ASSUME NEW b \in Authority, Fsm(b), b # a PROVE Same(a)
  <2>1. CASE FsmBootstrap(b)
    BY <2>1, <1>0, <1>1 DEF FsmBootstrap, SitOut, Goto
  <2>2. CASE FsmAcceptDescriptor(b)
    <3>1. /\ UNCHANGED votingEpoch /\ \E s, t : Goto(b, s, t)
          /\ \E e : genesisEpoch' = [genesisEpoch EXCEPT ![b] = e]
          /\ UNCHANGED priorSRV \/ \E p : priorSRV' = [priorSRV EXCEPT ![b] = p]
      BY <2>2 DEF FsmAcceptDescriptor
    <3> QED BY <3>1, <1>0, <1>1 DEF Goto
  <2>3. CASE FsmAcceptVote(b)
    BY <2>3, <1>0, <1>1 DEF FsmAcceptVote, Goto
  <2>4. CASE FsmAcceptReveal(b)
    <3>1. /\ UNCHANGED <<votingEpoch, genesisEpoch>> /\ \E s, t : Goto(b, s, t)
          /\ UNCHANGED priorSRV \/ \E p : priorSRV' = [priorSRV EXCEPT ![b] = p]
      BY <2>4 DEF FsmAcceptReveal
    <3> QED BY <3>1, <1>0, <1>1 DEF Goto
  <2>5. CASE FsmAcceptCert(b)
    <3>1. /\ UNCHANGED <<votingEpoch, genesisEpoch>> /\ \E s, t : Goto(b, s, t)
          /\ UNCHANGED priorSRV \/ \E p : priorSRV' = [priorSRV EXCEPT ![b] = p]
      BY <2>5 DEF FsmAcceptCert
    <3> QED BY <3>1, <1>0, <1>1 DEF Goto
  <2>6. CASE FsmConsensusReached(b)
    BY <2>6, <1>0, <1>1 DEF FsmConsensusReached, Goto
  <2>7. CASE FsmConsensusFailed(b)
    BY <2>7, <1>0, <1>1 DEF FsmConsensusFailed, SitOut, Goto
  <2> QED BY <1>1, <2>1, <2>2, <2>3, <2>4, <2>5, <2>6, <2>7 DEF Fsm
<1>2. ASSUME NEW b \in Authority, NEW m \in msgs, Deliver(b, m) PROVE Same(a)
  BY <1>2 DEF Deliver, OnVoteUpload, OnRevealUpload, OnCertUpload, OnSigUpload, fsmVars
<1>3. ASSUME NEW b \in Authority, NEW c \in Authority, FetchConsensus(b, c) PROVE Same(a)
  BY <1>3 DEF FetchConsensus, fsmVars
<1>4. ASSUME NEW b \in Authority, Crash(b) PROVE Same(a)
  BY <1>0, <1>4 DEF Crash
<1>5. ASSUME NEW b \in Authority, Restart(b) PROVE Same(a)
  BY <1>0, <1>5 DEF Restart
<1>6. Tick \/ UNCHANGED vars => Same(a)
  BY DEF Tick, vars, fsmVars
<1> QED BY <1>1, <1>2, <1>3, <1>4, <1>5, <1>6 DEF Next

(* fsm() runs at its deadline, which in a round is that of its phase. *)
LEMMA FsmDeadline ==
    ASSUME Basis, NEW a \in Authority, Fsm(a)
    PROVE  /\ a \in up /\ now' = now /\ up' = up /\ crashes' = crashes /\ now = wake[a]
           /\ state[a] # "bootstrap" => now = Begins(votingEpoch[a]) + Phase(state[a]) + 1
<1>1. /\ a \in up /\ now' = now /\ up' = up /\ crashes' = crashes /\ wake[a] <= now
  BY DEF Fsm, FsmBootstrap, FsmAcceptDescriptor, FsmAcceptVote, FsmAcceptReveal,
       FsmAcceptCert, FsmConsensusReached, FsmConsensusFailed, Due, clockVars
<1> QED BY <1>1, Timer

(* How an authority comes to a phase of a round. *)
Enters(a) ==
    /\ now' = now /\ crashes' = crashes /\ up' = up
    /\ now = Begins(votingEpoch[a]) + Phase(state'[a])
    /\ \/ state'[a] = "accept_vote" /\ FsmAcceptDescriptor(a)
       \/ state'[a] = "accept_reveal" /\ FsmAcceptVote(a)
       \/ state'[a] = "accept_cert" /\ FsmAcceptReveal(a)
       \/ state'[a] = "accept_signature" /\ FsmAcceptCert(a)

(* In a round an authority either stays in its phase or enters the next one in time. *)
LEMMA InRound ==
    ASSUME Basis, Bounded, [Next]_vars, NEW a \in up', Phase(state'[a]) >= 1
    PROVE  /\ a \in up /\ a \in Authority /\ votingEpoch'[a] = votingEpoch[a]
           /\ Same(a) \/ Enters(a)
<1>0. /\ TypeOK /\ OnSchedule /\ TypeOK' /\ state \in [Authority -> States]
  BY TypeStep DEF Basis, IInv, TypeOK
<1>a. Phase("bootstrap") = 0 /\ Phase("accept_desc") = 0
  BY DEF Phase
<1>1. a \in up /\ a \in Authority
  BY <1>0, <1>a, StepMoves DEF Moves, ComesBack, Stays, SitsOut, StartsVoting, Advances, Succeeds, TypeOK
<1>2. CASE Same(a)
  BY <1>1, <1>2 DEF Same
<1>3. CASE Fsm(a)
  <2>1. /\ now' = now /\ crashes' = crashes /\ up' = up
        /\ state[a] # "bootstrap" => now = Begins(votingEpoch[a]) + Phase(state[a]) + 1
    BY <1>1, <1>3, FsmDeadline
  <2>2. state'[a] # "bootstrap" /\ state'[a] # "accept_desc"
    BY <1>a
  <2>3. ~FsmBootstrap(a) /\ ~FsmConsensusReached(a) /\ ~FsmConsensusFailed(a)
    BY <1>0, <1>1, <2>2 DEF FsmBootstrap, FsmConsensusReached, FsmConsensusFailed, SitOut, Goto
  <2>4. CASE FsmAcceptDescriptor(a)
    <3>1. state[a] = "accept_desc" /\ state'[a] = "accept_vote" /\ votingEpoch'[a] = votingEpoch[a]
      BY <2>4, <1>0, <1>1 DEF FsmAcceptDescriptor, Due, Goto
    <3>2. now = Begins(votingEpoch[a]) + 1
      BY <2>1, <3>1, <1>0, <1>1, Slots DEF TypeOK, Phase
    <3> QED BY <1>1, <2>1, <2>4, <3>1, <3>2 DEF Enters, Phase
  <2>5. CASE FsmAcceptVote(a)
    <3>1. state[a] = "accept_vote" /\ state'[a] = "accept_reveal" /\ votingEpoch'[a] = votingEpoch[a]
      BY <2>5, <1>0, <1>1 DEF FsmAcceptVote, Due, Goto
    <3>2. now = Begins(votingEpoch[a]) + 2
      BY <2>1, <3>1, <1>0, <1>1, Slots DEF TypeOK, Phase
    <3> QED BY <1>1, <2>1, <2>5, <3>1, <3>2 DEF Enters, Phase
  <2>6. CASE FsmAcceptReveal(a)
    <3>1. state[a] = "accept_reveal" /\ state'[a] = "accept_cert" /\ votingEpoch'[a] = votingEpoch[a]
      BY <2>6, <1>0, <1>1 DEF FsmAcceptReveal, Due, Goto
    <3>2. now = Begins(votingEpoch[a]) + 3
      BY <2>1, <3>1, <1>0, <1>1, Slots DEF TypeOK, Phase
    <3> QED BY <1>1, <2>1, <2>6, <3>1, <3>2 DEF Enters, Phase
  <2>7. CASE FsmAcceptCert(a)
    <3>1. state[a] = "accept_cert" /\ state'[a] = "accept_signature" /\ votingEpoch'[a] = votingEpoch[a]
      BY <2>7, <1>0, <1>1 DEF FsmAcceptCert, Due, Goto
    <3>2. now = Begins(votingEpoch[a]) + 4
      BY <2>1, <3>1, <1>0, <1>1, Slots DEF TypeOK, Phase
    <3> QED BY <1>1, <2>1, <2>7, <3>1, <3>2 DEF Enters, Phase
  <2> QED BY <1>3, <2>3, <2>4, <2>5, <2>6, <2>7 DEF Fsm
<1> QED BY <1>0, <1>1, <1>2, <1>3, FsmOrSame

(* A command is sent in its slot of the round. *)
LEMMA SentInSlot ==
    ASSUME Basis, [Next]_vars, NEW m \in msgs' \ msgs
    PROVE  /\ now' = now /\ now = Begins(m.epoch) + SentIn(m.type)
           /\ m.from \in up /\ m.from \in up' /\ m.epoch = votingEpoch[m.from]
           /\ votingEpoch'[m.from] = votingEpoch[m.from]
           /\ Phase(state'[m.from]) = SentIn(m.type)
           /\ crashes' = crashes
<1>0. TypeOK /\ OnSchedule /\ OneRevealEach /\ TypeOK'
  BY TypeStep DEF Basis, IInv
<1>1. Says(m) /\ WellFormed(m)
  BY <1>0, NewMessages
<1>2. /\ m.from \in up /\ m.from \in up' /\ m.epoch = votingEpoch[m.from]
      /\ votingEpoch'[m.from] = votingEpoch[m.from] /\ state[m.from] # "bootstrap"
      /\ state'[m.from] # "bootstrap" /\ Phase(state'[m.from]) = SentIn(m.type)
      /\ Phase(state'[m.from]) = Phase(state[m.from]) + 1
  BY <1>1 DEF Says
<1>3. Phase(state[m.from]) \in 0..4
  BY <1>2, Timer
<1>4. Advances(m.from)
  <2>1. Phase("accept_desc") = 0 /\ Phase("accept_signature") = 4
    BY DEF Phase
  <2>2. Moves(m.from)
    BY <1>0, <1>2, StepMoves
  <2>3. ~Stays(m.from)
    BY <1>2, <1>3 DEF Stays
  <2> QED BY <1>2, <2>1, <2>2, <2>3 DEF Moves, ComesBack, SitsOut, StartsVoting, Succeeds
<1>5. now' = now /\ wake[m.from] <= now
  BY <1>4 DEF Advances
<1>6. now = Begins(m.epoch) + SentIn(m.type)
  BY <1>2, <1>3, <1>5, Timer, Slots
<1>7. crashes' = crashes
  <2>1. ASSUME NEW a \in Authority, Crash(a) PROVE FALSE
    BY <2>1 DEF Crash
  <2> QED BY <1>0, <2>1, CrashOrNot
<1> QED BY <1>2, <1>5, <1>6, <1>7

(* What doCommit has put in a new vote. *)
LEMMA NewVote ==
    ASSUME Basis, [Next]_vars, NEW v \in msgs' \ msgs, v.type = "vote"
    PROVE  /\ FsmAcceptDescriptor(v.from) /\ v.epoch = votingEpoch[v.from]
           /\ v.commit = Secret(v.from, v.epoch) /\ v.mixes \in Ballots
           /\ v \in ledger'[v.from].votes \/ v.epoch + PreserveForPastEpochs < Epoch
<1>0. TypeOK /\ OneRevealEach
  BY DEF Basis, IInv
<1>1. v.from \in up /\ v.from \in Authority /\ v.epoch = votingEpoch[v.from] /\ FsmAcceptDescriptor(v.from)
  BY <1>0, Sender DEF TypeOK
<1> DEFINE a == v.from
<1> DEFINE e == votingEpoch[a]
           C == {r \in ledger[a].commits : r.epoch # e \/ r.from # a} \cup {Secret(a, e)}
           R == {r \in ledger[a].reveals : r.epoch # e \/ r.from # a} \cup {Secret(a, e)}
<1>2. PICK mixes \in Ballots : \E new :
         /\ new \subseteq {[type |-> "vote", from |-> a, epoch |-> votingEpoch[a],
                            mixes |-> mixes, commit |-> Secret(a, votingEpoch[a])]}
         /\ msgs' = msgs \cup new
         /\ ledger' = [ledger EXCEPT ![a] = Prune([ledger[a] EXCEPT
               !.commits = C, !.reveals = R, !.votes = ledger[a].votes \cup new])]
  BY <1>1, Votes
<1> HIDE DEF C, R
<1>a. PICK new :
         /\ new \subseteq {[type |-> "vote", from |-> a, epoch |-> votingEpoch[a],
                            mixes |-> mixes, commit |-> Secret(a, votingEpoch[a])]}
         /\ msgs' = msgs \cup new
         /\ ledger' = [ledger EXCEPT ![a] = Prune([ledger[a] EXCEPT
               !.commits = C, !.reveals = R, !.votes = ledger[a].votes \cup new])]
  BY <1>2
<1>3. v = [type |-> "vote", from |-> a, epoch |-> votingEpoch[a],
           mixes |-> mixes, commit |-> Secret(a, votingEpoch[a])] /\ new = {v}
  BY <1>a
<1>4. v.commit = Secret(v.from, v.epoch) /\ v.mixes \in Ballots
  BY <1>1, <1>3
<1>5. v \in ledger'[a].votes \/ v.epoch + PreserveForPastEpochs < Epoch
  <2>1. ledger' = [ledger EXCEPT ![a] = Prune([ledger[a] EXCEPT
                   !.commits = C, !.reveals = R, !.votes = ledger[a].votes \cup {v}])]
    BY <1>a, <1>3
  <2> DEFINE l == [ledger[a] EXCEPT !.commits = C, !.reveals = R, !.votes = ledger[a].votes \cup {v}]
  <2>2. v \in l.votes
    BY <1>0, <1>1 DEF TypeOK, LedgerType
  <2> HIDE DEF l
  <2>3. ledger'[a] = Prune(l)
    BY <1>0, <1>1, <2>1 DEF l, TypeOK
  <2>4. v.epoch \in Nat /\ Epoch \in Nat /\ PreserveForPastEpochs \in Nat
    BY <1>0, <1>1, Moments DEF TypeOK, PreserveForPastEpochs
  <2> QED BY <2>2, <2>3, <2>4 DEF Prune, Kept, LedgerFields
<1> QED BY <1>1, <1>4, <1>5

(* What comes in commands, apart from documents. *)
Stored == {"votes", "certificates", "signatures", "myconsensus", "commits", "reveals"}

(* An authority that runs loses nothing of the last epochs, but what doCommit replaces. *)
LEMMA LedgerKeeps ==
    ASSUME TypeOK, [Next]_vars, NEW a \in up, a \in up', NEW f \in Stored, NEW r \in ledger[a][f],
           r.epoch + PreserveForPastEpochs >= Epoch,
           f \in {"commits", "reveals"} => ~FsmAcceptDescriptor(a)
    PROVE  r \in ledger'[a][f]
<1>0. /\ ledger \in [Authority -> LedgerType] /\ a \in Authority /\ ledger[a] \in LedgerType
      /\ f \in LedgerFields
  BY DEF TypeOK, Stored, LedgerFields
<1>a. DOMAIN ledger[a] = LedgerFields
  BY <1>0 DEF LedgerType, LedgerFields
<1>b. ASSUME NEW g \in LedgerFields, NEW S, f = g => ledger[a][f] \subseteq S
      PROVE  r \in [ledger[a] EXCEPT ![g] = S][f]
  BY <1>0, <1>a, <1>b
<1>1. ASSUME NEW l, ledger' = [ledger EXCEPT ![a] = Prune(l)], r \in l[f] PROVE r \in ledger'[a][f]
  BY <1>0, <1>1 DEF Prune, Kept
<1>2. ASSUME NEW b \in Authority, NEW l, ledger' = [ledger EXCEPT ![b] = l], a # b
      PROVE  r \in ledger'[a][f]
  BY <1>0, <1>2
<1>3. ASSUME NEW b \in Authority, FsmBootstrap(b) \/ FsmAcceptVote(b) \/ FsmConsensusFailed(b)
      PROVE  r \in ledger'[a][f]
  <2>1. ledger' = [ledger EXCEPT ![b] = Prune(ledger[b])]
    BY <1>3 DEF FsmBootstrap, FsmAcceptVote, FsmConsensusFailed
  <2> QED BY <2>1, <1>1, <1>2
<1>4. ASSUME NEW b \in Authority, FsmAcceptDescriptor(b) PROVE r \in ledger'[a][f]
  <2>1. CASE b # a
    BY <1>2, <1>4, <2>1 DEF FsmAcceptDescriptor
  <2>2. CASE b = a
    <3> DEFINE e == votingEpoch[a]
               C == {k \in ledger[a].commits : k.epoch # e \/ k.from # a} \cup {Secret(a, e)}
               R == {k \in ledger[a].reveals : k.epoch # e \/ k.from # a} \cup {Secret(a, e)}
    <3>1. PICK new : ledger' = [ledger EXCEPT ![a] = Prune([ledger[a] EXCEPT
               !.commits = C, !.reveals = R, !.votes = ledger[a].votes \cup new])]
      BY <1>0, <1>4, <2>2, Votes
    <3> HIDE DEF C, R
    <3>2. f \in {"votes", "certificates", "signatures", "myconsensus"}
      BY <1>4, <2>2 DEF Stored
    <3>3. r \in [ledger[a] EXCEPT !.commits = C, !.reveals = R, !.votes = ledger[a].votes \cup new][f]
      BY <1>0, <3>2 DEF LedgerType
    <3> QED BY <3>1, <3>3, <1>1
  <2> QED BY <2>1, <2>2
<1>5. ASSUME NEW b \in Authority, FsmAcceptReveal(b) PROVE r \in ledger'[a][f]
  <2>1. CASE b # a
    BY <1>2, <1>5, <2>1 DEF FsmAcceptReveal
  <2>2. CASE b = a
    <3>1. PICK new : ledger' = [ledger EXCEPT ![a] = Prune([ledger[a] EXCEPT
               !.certificates = ledger[a].certificates \cup new])]
      BY <1>5, <2>2 DEF FsmAcceptReveal
    <3>2. r \in [ledger[a] EXCEPT !.certificates = ledger[a].certificates \cup new][f]
      BY <1>b DEF LedgerFields
    <3> QED BY <3>1, <3>2, <1>1
  <2> QED BY <2>1, <2>2
<1>6. ASSUME NEW b \in Authority, FsmAcceptCert(b) PROVE r \in ledger'[a][f]
  <2>1. PICK new : ledger' = [ledger EXCEPT ![b] = Prune([ledger[b] EXCEPT
             !.myconsensus = ledger[b].myconsensus \cup new])]
    BY <1>6, Signs
  <2>2. r \in [ledger[a] EXCEPT !.myconsensus = ledger[a].myconsensus \cup new][f]
    BY <1>b DEF LedgerFields
  <2> QED BY <2>1, <2>2, <1>1, <1>2
<1>7. ASSUME NEW b \in Authority, FsmConsensusReached(b) PROVE r \in ledger'[a][f]
  <2>1. PICK D : ledger' = [ledger EXCEPT ![b] = Prune([ledger[b] EXCEPT !.documents = D])]
    BY <1>7 DEF FsmConsensusReached
  <2>2. r \in [ledger[a] EXCEPT !.documents = D][f]
    BY <1>0 DEF LedgerType, Stored
  <2> QED BY <2>1, <2>2, <1>1, <1>2
<1>8. ASSUME NEW b \in Authority, NEW m \in msgs, Deliver(b, m) PROVE r \in ledger'[a][f]
  <2>1. ASSUME NEW g \in LedgerFields, NEW S, ledger' = [ledger EXCEPT ![b][g] = @ \cup S]
        PROVE  r \in ledger'[a][f]
    BY <1>0, <1>a, <2>1
  <2>2. CASE OnVoteUpload(b, m)
    <3>1. ledger' = [ledger EXCEPT ![b] = [ledger[b] EXCEPT !.votes = @ \cup {m}, !.commits = @ \cup {m.commit}]]
      BY <1>0, <2>2 DEF OnVoteUpload
    <3>2. r \in [ledger[a] EXCEPT !.votes = @ \cup {m}, !.commits = @ \cup {m.commit}][f]
      BY <1>0, <1>a DEF LedgerFields
    <3> QED BY <1>0, <1>2, <3>1, <3>2
  <2>3. CASE OnRevealUpload(b, m)
    BY <2>1, <2>3 DEF OnRevealUpload, LedgerFields
  <2>4. CASE OnCertUpload(b, m)
    BY <2>1, <2>4 DEF OnCertUpload, LedgerFields
  <2>5. CASE OnSigUpload(b, m)
    BY <2>1, <2>5 DEF OnSigUpload, LedgerFields
  <2> QED BY <1>8, <2>2, <2>3, <2>4, <2>5 DEF Deliver
<1>9. ASSUME NEW b \in Authority, NEW c \in Authority, FetchConsensus(b, c) PROVE r \in ledger'[a][f]
  BY <1>0, <1>9 DEF FetchConsensus, LedgerType, Stored
<1>10. ASSUME NEW b \in Authority, Crash(b) PROVE r \in ledger'[a][f]
  BY <1>0, <1>10 DEF Crash
<1>11. ASSUME NEW b \in Authority, Restart(b) PROVE r \in ledger'[a][f]
  BY <1>0, <1>11 DEF Restart
<1>12. Tick \/ UNCHANGED vars => r \in ledger'[a][f]
  BY DEF Tick, vars
<1> QED BY <1>3, <1>4, <1>5, <1>6, <1>7, <1>8, <1>9, <1>10, <1>11, <1>12 DEF Next, Fsm

(* A document of one of the last epochs stays, or gives way to another of its epoch. *)
LEMMA DocumentsKeep ==
    ASSUME TypeOK, [Next]_vars, NEW a \in up, a \in up', NEW d \in ledger[a].documents,
           d.epoch + PreserveForPastEpochs >= Epoch
    PROVE  \E k \in ledger'[a].documents : k.epoch = d.epoch
<1>0. /\ ledger \in [Authority -> LedgerType] /\ a \in Authority /\ ledger[a] \in LedgerType
  BY DEF TypeOK
<1>a. DOMAIN ledger[a] = LedgerFields /\ "documents" \in LedgerFields
  BY <1>0 DEF LedgerType, LedgerFields
<1>1. ASSUME NEW l, ledger' = [ledger EXCEPT ![a] = Prune(l)], NEW k \in l.documents, k.epoch = d.epoch
      PROVE  \E j \in ledger'[a].documents : j.epoch = d.epoch
  <2>1. k \in Prune(l).documents
    BY <1>a, <1>1 DEF Prune, Kept
  <2> QED BY <1>0, <1>1, <2>1
<1>2. ASSUME NEW b \in Authority, NEW l, ledger' = [ledger EXCEPT ![b] = l], a # b
      PROVE  ledger'[a] = ledger[a]
  BY <1>0, <1>2
<1>b. ASSUME NEW b \in Authority, NEW g \in LedgerFields, g # "documents", NEW S,
             ledger' = [ledger EXCEPT ![b] = Prune([ledger[b] EXCEPT ![g] = S])]
      PROVE  \E j \in ledger'[a].documents : j.epoch = d.epoch
  <2>1. [ledger[a] EXCEPT ![g] = S].documents = ledger[a].documents
    BY <1>0, <1>a, <1>b
  <2> QED BY <1>1, <1>2, <1>b, <2>1
<1>3. ASSUME NEW b \in Authority, FsmBootstrap(b) \/ FsmAcceptVote(b) \/ FsmConsensusFailed(b)
      PROVE  \E j \in ledger'[a].documents : j.epoch = d.epoch
  <2>1. ledger' = [ledger EXCEPT ![b] = Prune(ledger[b])]
    BY <1>3 DEF FsmBootstrap, FsmAcceptVote, FsmConsensusFailed
  <2> QED BY <2>1, <1>1, <1>2
<1>4. ASSUME NEW b \in Authority, FsmAcceptDescriptor(b)
      PROVE  \E j \in ledger'[a].documents : j.epoch = d.epoch
  <2>1. CASE b # a
    BY <1>2, <1>4, <2>1 DEF FsmAcceptDescriptor
  <2>2. CASE b = a
    <3> DEFINE e == votingEpoch[a]
               C == {k \in ledger[a].commits : k.epoch # e \/ k.from # a} \cup {Secret(a, e)}
               R == {k \in ledger[a].reveals : k.epoch # e \/ k.from # a} \cup {Secret(a, e)}
    <3>1. PICK new : ledger' = [ledger EXCEPT ![a] = Prune([ledger[a] EXCEPT
               !.commits = C, !.reveals = R, !.votes = ledger[a].votes \cup new])]
      BY <1>0, <1>4, <2>2, Votes
    <3> HIDE DEF C, R
    <3>2. [ledger[a] EXCEPT !.commits = C, !.reveals = R, !.votes = ledger[a].votes \cup new].documents
            = ledger[a].documents
      BY <1>0 DEF LedgerType
    <3> QED BY <3>1, <3>2, <1>1
  <2> QED BY <2>1, <2>2
<1>5. ASSUME NEW b \in Authority, FsmAcceptReveal(b)
      PROVE  \E j \in ledger'[a].documents : j.epoch = d.epoch
  <2>1. PICK new : ledger' = [ledger EXCEPT ![b] = Prune([ledger[b] EXCEPT !.certificates = new])]
    BY <1>5 DEF FsmAcceptReveal
  <2> QED BY <2>1, <1>b DEF LedgerFields
<1>6. ASSUME NEW b \in Authority, FsmAcceptCert(b)
      PROVE  \E j \in ledger'[a].documents : j.epoch = d.epoch
  <2>1. PICK new : ledger' = [ledger EXCEPT ![b] = Prune([ledger[b] EXCEPT !.myconsensus = new])]
    BY <1>6, Signs
  <2> QED BY <2>1, <1>b DEF LedgerFields
<1>7. ASSUME NEW b \in Authority, FsmConsensusReached(b)
      PROVE  \E j \in ledger'[a].documents : j.epoch = d.epoch
  <2>1. PICK k : ledger' = [ledger EXCEPT ![b] = Prune([ledger[b] EXCEPT !.documents = Store(ledger[b].documents, k)])]
    BY <1>7 DEF FsmConsensusReached
  <2>2. CASE b # a
    BY <1>2, <2>1, <2>2
  <2>3. CASE b = a
    <3>1. [ledger[a] EXCEPT !.documents = Store(ledger[a].documents, k)].documents
            = Store(ledger[a].documents, k)
      BY <1>0, <1>a
    <3>2. \E j \in Store(ledger[a].documents, k) : j.epoch = d.epoch
      BY DEF Store
    <3> QED BY <1>1, <2>1, <2>3, <3>1, <3>2
  <2> QED BY <2>2, <2>3
<1>8. ASSUME NEW b \in Authority, NEW m \in msgs, Deliver(b, m) PROVE ledger'[a].documents = ledger[a].documents
  <2>1. ASSUME NEW g \in LedgerFields, g # "documents", NEW S, ledger' = [ledger EXCEPT ![b][g] = @ \cup S]
        PROVE  ledger'[a].documents = ledger[a].documents
    BY <1>0, <1>a, <2>1
  <2>2. CASE OnVoteUpload(b, m)
    BY <1>0, <1>a, <2>2 DEF OnVoteUpload
  <2>3. CASE OnRevealUpload(b, m)
    BY <2>1, <2>3 DEF OnRevealUpload, LedgerFields
  <2>4. CASE OnCertUpload(b, m)
    BY <2>1, <2>4 DEF OnCertUpload, LedgerFields
  <2>5. CASE OnSigUpload(b, m)
    BY <2>1, <2>5 DEF OnSigUpload, LedgerFields
  <2> QED BY <1>8, <2>2, <2>3, <2>4, <2>5 DEF Deliver
<1>9. ASSUME NEW b \in Authority, NEW c \in Authority, FetchConsensus(b, c)
      PROVE  d \in ledger'[a].documents
  <2>1. PICK k : ledger' = ledger \/ ledger' = [ledger EXCEPT ![b].documents = @ \cup {k}]
    BY <1>9 DEF FetchConsensus
  <2> QED BY <2>1, <1>0, <1>a
<1>10. ASSUME NEW b \in Authority, Crash(b) PROVE ledger'[a] = ledger[a]
  BY <1>0, <1>10 DEF Crash
<1>11. ASSUME NEW b \in Authority, Restart(b) PROVE ledger'[a] = ledger[a]
  BY <1>0, <1>11 DEF Restart
<1>12. Tick \/ UNCHANGED vars => ledger'[a] = ledger[a]
  BY DEF Tick, vars
<1> QED BY <1>3, <1>4, <1>5, <1>6, <1>7, <1>8, <1>9, <1>10, <1>11, <1>12 DEF Next, Fsm

(* A document is published at the end of its round. *)
LEMMA NewlyPublished ==
    ASSUME Basis, [Next]_vars, NEW d \in published' \ published
    PROVE  /\ \E a \in Authority : FsmConsensusReached(a) /\ d.epoch = votingEpoch[a]
           /\ now' = now /\ now = Begins(d.epoch) + 5 /\ crashes' = crashes /\ msgs' = msgs
<1>1. ASSUME NEW b \in Authority, NEW m \in msgs, Deliver(b, m) PROVE FALSE
  BY <1>1 DEF Deliver, OnVoteUpload, OnRevealUpload, OnCertUpload, OnSigUpload, docVars
<1>2. ASSUME NEW b \in Authority, Fsm(b) PROVE FsmConsensusReached(b)
  BY <1>2 DEF Fsm, FsmBootstrap, FsmAcceptDescriptor, FsmAcceptVote, FsmAcceptReveal,
     FsmAcceptCert, FsmConsensusFailed
<1>3. \E a \in Authority : FsmConsensusReached(a)
  BY <1>1, <1>2 DEF Next, FetchConsensus, Crash, Restart, docVars, Tick, vars
<1>4. PICK a \in Authority : FsmConsensusReached(a)
  BY <1>3
<1>5. d.epoch = votingEpoch[a] /\ msgs' = msgs
  BY <1>4 DEF FsmConsensusReached, ThresholdConsensus
<1>6. state[a] = "accept_signature" /\ Phase("accept_signature") = 4 /\ "accept_signature" \in States
  BY <1>4 DEF FsmConsensusReached, Due, Phase, States
<1>7. /\ a \in up /\ now' = now /\ crashes' = crashes
      /\ now = Begins(votingEpoch[a]) + Phase(state[a]) + 1
  BY <1>4, <1>6, FsmDeadline DEF Fsm
<1>8. votingEpoch[a] \in Nat
  BY <1>7, Timer
<1> QED BY <1>4, <1>5, <1>6, <1>7, <1>8, Slots

(* A round that reaches consensus publishes a document and stores it. *)
LEMMA Reaches ==
    ASSUME TypeOK, NEW a \in Authority, FsmConsensusReached(a)
    PROVE  \E d \in published' :
              /\ d.epoch = votingEpoch[a]
              /\ d.epoch + PreserveForPastEpochs >= Epoch => d \in ledger'[a].documents
<1>1. PICK d \in ThresholdConsensus(a, votingEpoch[a]) :
         /\ ledger' = [ledger EXCEPT ![a] = Prune([ledger[a] EXCEPT
                           !.documents = Store(ledger[a].documents, d)])]
         /\ published' = published \cup {d}
  BY DEF FsmConsensusReached
<1>2. d.epoch = votingEpoch[a]
  BY DEF ThresholdConsensus
<1> DEFINE l == [ledger[a] EXCEPT !.documents = Store(ledger[a].documents, d)]
<1>3. l.documents = Store(ledger[a].documents, d)
  BY DEF TypeOK, LedgerType
<1>4. ledger'[a] = Prune(l)
  BY <1>1 DEF TypeOK
<1> HIDE DEF l
<1>5. d.epoch + PreserveForPastEpochs >= Epoch => d \in ledger'[a].documents
  BY <1>3, <1>4 DEF Store, Prune, Kept, LedgerFields
<1> QED BY <1>1, <1>2, <1>5

(* The round for an epoch is in the epoch before it. *)
LEMMA InEpoch ==
    ASSUME TypeOK, NEW e \in Int, Begins(e) <= now, now < Begins(e) + 8
    PROVE  Epoch = e - 1
<1>1. Epoch \in Nat /\ 8 * Epoch <= now /\ now < 8 * Epoch + 8 /\ now \in Nat
  BY Moments DEF TypeOK
<1> QED BY <1>1, Slots

(* Commands and documents are about epochs. *)
LEMMA BasisTypes ==
    ASSUME Basis, [Next]_vars
    PROVE  /\ \A m \in msgs \cup msgs' :
                 /\ m.type \in {"vote", "reveal", "cert", "sig"} /\ m.from \in Authority
                 /\ m.epoch \in Nat /\ SentIn(m.type) \in 1..4
           /\ \A d \in published \cup published' : d.epoch \in Nat
<1>1. IInv /\ IInv'
  BY StepIInv DEF Basis
<1>2. \A m \in msgs \cup msgs' :
                 /\ m.type \in {"vote", "reveal", "cert", "sig"} /\ m.from \in Authority
                 /\ m.epoch \in Nat
  BY <1>1 DEF IInv, TypeOK, WellFormedMessages
<1>3. \A d \in published : d.epoch \in Nat
  BY <1>1, <1>2, SomeSigner
<1>4. ASSUME NEW d \in published', d \notin published PROVE d.epoch \in Nat
  <2>1. PICK a \in Authority : d.epoch = votingEpoch[a]
    BY <1>4, NewlyPublished
  <2> QED BY <1>1, <2>1 DEF IInv, TypeOK
<1> QED BY <1>2, <1>3, <1>4, Slots

(* Every step keeps Bounded. *)
LEMMA BoundedStep ==
    ASSUME MaxCrash \in Nat, Basis, Bounded, [Next]_vars
    PROVE  Bounded'
<1>0. /\ TypeOK /\ OneRevealEach /\ now \in Nat /\ now' \in Nat /\ now <= now' /\ crashes \in Nat
      /\ StartTime \in Nat
  BY TimeGoesOn, TimeAssumption DEF Basis, IInv, TypeOK
<1>1. DOMAIN genesisEpoch' = Authority /\ DOMAIN priorSRV' = Authority
  <2>0. DOMAIN genesisEpoch = Authority /\ DOMAIN priorSRV = Authority
    BY DEF Bounded
  <2>1. ASSUME NEW a \in Authority, Fsm(a)
        PROVE  /\ genesisEpoch' = genesisEpoch \/ \E e : genesisEpoch' = [genesisEpoch EXCEPT ![a] = e]
               /\ priorSRV' = priorSRV \/ \E p : priorSRV' = [priorSRV EXCEPT ![a] = p]
    BY <2>1 DEF Fsm, FsmBootstrap, FsmAcceptDescriptor, FsmAcceptVote, FsmAcceptReveal,
       FsmAcceptCert, FsmConsensusReached, FsmConsensusFailed
  <2>2. ASSUME NEW a \in Authority, NEW m \in msgs, Deliver(a, m)
        PROVE  genesisEpoch' = genesisEpoch /\ priorSRV' = priorSRV
    BY <2>2 DEF Deliver, OnVoteUpload, OnRevealUpload, OnCertUpload, OnSigUpload, fsmVars
  <2>3. ASSUME NEW a \in Authority, NEW b \in Authority, FetchConsensus(a, b) \/ Restart(a)
        PROVE  genesisEpoch' = genesisEpoch /\ priorSRV' = priorSRV
    BY <2>3 DEF FetchConsensus, Restart, fsmVars
  <2>4. ASSUME NEW a \in Authority, Crash(a)
        PROVE  /\ genesisEpoch' = [genesisEpoch EXCEPT ![a] = 0]
               /\ priorSRV' = [priorSRV EXCEPT ![a] = <<>>]
    BY <2>4 DEF Crash
  <2>5. Tick \/ UNCHANGED vars => genesisEpoch' = genesisEpoch /\ priorSRV' = priorSRV
    BY DEF Tick, vars, fsmVars
  <2> QED BY <2>0, <2>1, <2>2, <2>3, <2>4, <2>5 DEF Next
<1>2. crashes <= crashes' /\ crashes' <= MaxCrash
  <2>1. ASSUME NEW a \in Authority, Crash(a) PROVE crashes' = crashes + 1 /\ crashes < MaxCrash
    BY <2>1 DEF Crash
  <2>2. crashes <= MaxCrash
    BY DEF Bounded
  <2> QED BY <1>0, <2>1, <2>2, CrashOrNot
<1>3. IsFiniteSet(msgs')
  <2>1. msgs \subseteq msgs' /\ \A m1, m2 \in msgs' \ msgs : m1 = m2
    BY <1>0, NewMessages
  <2>3. IsFiniteSet(msgs)
    BY DEF Bounded
  <2>2. CASE msgs' \ msgs = {}
    <3>1. msgs' = msgs
      BY <2>1, <2>2
    <3> QED BY <2>3, <3>1
  <2>4. CASE msgs' \ msgs # {}
    <3>1. PICK m : m \in msgs' \ msgs
      BY <2>4
    <3>2. msgs' = msgs \cup {m}
      BY <2>1, <3>1
    <3> QED BY <2>3, <3>2, FS_AddElement
  <2> QED BY <2>2, <2>4
<1>4. ASSUME NEW v \in msgs', v.type = "vote"
      PROVE  v.commit.nonce <= crashes' /\ v.mixes \in Ballots
  <2>1. CASE v \in msgs
    <3>1. v.commit.nonce \in Nat /\ v.commit.nonce <= crashes /\ v.mixes \in Ballots
      BY <1>0, <1>4, <2>1 DEF TypeOK, Secrets, Bounded
    <3>2. crashes' \in Nat
      BY TypeStep, <1>0 DEF TypeOK
    <3> QED BY <1>0, <1>2, <3>1, <3>2
  <2>2. CASE v \notin msgs
    <3>1. v.commit = Secret(v.from, v.epoch) /\ v.mixes \in Ballots
      BY <1>4, <2>2, NewVote
    <3>2. v.commit.nonce = crashes
      BY <3>1 DEF Secret
    <3> QED BY <1>2, <3>1, <3>2
  <2> QED BY <2>1, <2>2
<1>5. now' >= StartTime
  BY <1>0 DEF Bounded
<1> QED BY <1>1, <1>2, <1>3, <1>4, <1>5 DEF Bounded

(* Every step keeps InSlot. *)
LEMMA InSlotStep ==
    ASSUME Basis, Bounded, Bounded', InSlot, [Next]_vars
    PROVE  InSlot'
<1>0. /\ TypeOK /\ TypeOK' /\ OneRevealEach /\ OnSchedule
      /\ now \in Nat /\ now' \in Nat /\ now <= now' /\ StartTime \in Nat
  BY TimeGoesOn, TypeStep, TimeAssumption DEF Basis, IInv
<1>1. Epoch \in Nat /\ First \in Nat /\ First <= Epoch + 1
  <2>1. StartTime <= now
    BY DEF Bounded
  <2> QED BY <1>0, <2>1 DEF First, Epoch, EpochAt, SlotsPerEpoch
<1>2. ASSUME NEW a \in up', state'[a] # "bootstrap" PROVE votingEpoch'[a] >= First
  <2>1. Moves(a)
    BY <1>0, StepMoves
  <2>2. a \in up => votingEpoch[a] \in Nat
    BY <1>0 DEF TypeOK
  <2>3. CASE state[a] # "bootstrap" /\ a \in up
    BY <2>1, <2>2, <2>3, <1>0, <1>1, <1>2 DEF InSlot, Moves, Stays, ComesBack, SitsOut, StartsVoting, Advances, Succeeds
  <2>4. CASE state[a] = "bootstrap" \/ a \notin up
    BY <2>1, <2>4, <1>0, <1>1, <1>2 DEF Moves, Stays, ComesBack, SitsOut, StartsVoting, Advances, Succeeds
  <2> QED BY <2>3, <2>4
<1>3. ASSUME NEW a \in up', Phase(state'[a]) >= 1
      PROVE  now' >= Begins(votingEpoch'[a]) + Phase(state'[a])
  <2>1. a \in up /\ votingEpoch'[a] = votingEpoch[a] /\ (Same(a) \/ Enters(a))
    BY <1>3, InRound
  <2>2. Begins(votingEpoch[a]) \in Int /\ Phase(state'[a]) \in Int
    BY <1>0, <2>1, Slots DEF TypeOK
  <2>3. CASE Same(a)
    <3>1. now >= Begins(votingEpoch[a]) + Phase(state'[a])
      BY <1>3, <2>1, <2>3 DEF InSlot, Same
    <3> QED BY <1>0, <2>1, <2>2, <3>1
  <2>4. CASE Enters(a)
    BY <2>1, <2>2, <2>4, <1>0 DEF Enters
  <2> QED BY <2>1, <2>3, <2>4
<1>4. ASSUME NEW m \in msgs'
      PROVE  now' >= Begins(m.epoch) + SentIn(m.type) /\ m.epoch >= First
  <2>1. Begins(m.epoch) \in Int /\ SentIn(m.type) \in Int
    BY <1>0, Slots, BasisTypes DEF TypeOK
  <2>2. CASE m \in msgs
    <3>1. now >= Begins(m.epoch) + SentIn(m.type) /\ m.epoch >= First
      BY <2>2 DEF InSlot
    <3> QED BY <1>0, <2>1, <3>1
  <2>3. CASE m \notin msgs
    <3>1. /\ now' = now /\ now = Begins(m.epoch) + SentIn(m.type) /\ m.from \in up'
          /\ m.epoch = votingEpoch[m.from] /\ votingEpoch'[m.from] = votingEpoch[m.from]
          /\ Phase(state'[m.from]) = SentIn(m.type)
      BY <2>3, SentInSlot
    <3>2. state'[m.from] # "bootstrap"
      BY <3>1, BasisTypes, Slots DEF Phase
    <3> QED BY <1>0, <1>2, <2>1, <3>1, <3>2
  <2> QED BY <2>2, <2>3
<1>5. ASSUME NEW d \in published' PROVE now' >= Begins(d.epoch) + 5 /\ d.epoch >= First
  <2>2. CASE d \in published
    <3>1. now >= Begins(d.epoch) + 5 /\ d.epoch >= First /\ d.epoch \in Nat
      BY <2>2, BasisTypes DEF InSlot
    <3> QED BY <1>0, <3>1, Slots
  <2>3. CASE d \notin published
    <3>1. PICK a \in Authority : FsmConsensusReached(a) /\ d.epoch = votingEpoch[a]
      BY <2>3, NewlyPublished
    <3>2. now' = now /\ now = Begins(d.epoch) + 5
      BY <2>3, NewlyPublished
    <3>3. a \in up /\ state[a] = "accept_signature"
      BY <3>1 DEF FsmConsensusReached, Due
    <3> QED BY <1>0, <3>1, <3>2, <3>3 DEF InSlot
  <2> QED BY <2>2, <2>3
<1> QED BY <1>2, <1>3, <1>4, <1>5 DEF InSlot

-----------------------------------------------------------------------------
(* Votes, and the random numbers they commit to. *)

(* A stored vote is stored with its commit, and one's own with its reveal; what is *)
(* revealed has been committed to in a vote that was sent.                         *)
VotesKept ==
    \A a \in Authority :
        /\ \A v \in ledger[a].votes :
              v.commit \in ledger[a].commits /\ (v.from = a => v.commit \in ledger[a].reveals)
        /\ \A r \in ledger[a].reveals : (r.from = a => r \in ledger[a].commits) /\ VoteSent(r)

(* Only what a sent vote commits to is revealed. *)
SentReveals == \A w \in msgs : w.type = "reveal" => VoteSent(w.reveal)
(* Who takes part in a round has its own vote stored. *)
OwnVote == \A a \in Authority, e \in Nat : Takes(a, e) => Has(a, "votes", e, a)
(* Who sends anything about an epoch has voted on it. *)
Voted == \A m \in msgs : \E v \in msgs : v.type = "vote" /\ v.from = m.from /\ v.epoch = m.epoch

(* The entries of the ledger that hold votes and random numbers. *)
Secretive == {"votes", "commits", "reveals"}

(* They change by a vote, by a command that comes in, by pruning, or are lost in a *)
(* crash.                                                                          *)
LEMMA SecretsMove ==
    ASSUME TypeOK, [Next]_vars, NEW p \in Authority
    PROVE  \/ \A f \in Secretive : ledger'[p][f] = ledger[p][f]
           \/ \A f \in Secretive : ledger'[p][f] = Kept(ledger[p][f])
           \/ \A f \in Secretive : ledger'[p][f] = {}
           \/ FsmAcceptDescriptor(p)
           \/ \E m \in msgs : OnVoteUpload(p, m) \/ OnRevealUpload(p, m)
<1>0. /\ ledger \in [Authority -> LedgerType] /\ ledger[p] \in LedgerType
      /\ Secretive \subseteq LedgerFields
  BY DEF TypeOK, Secretive, LedgerFields
<1>a. DOMAIN ledger[p] = LedgerFields
  BY <1>0 DEF LedgerType, LedgerFields
<1> DEFINE Still == \A f \in Secretive : ledger'[p][f] = ledger[p][f]
           Pruned == \A f \in Secretive : ledger'[p][f] = Kept(ledger[p][f])
           Lost == \A f \in Secretive : ledger'[p][f] = {}
<1>1. ASSUME NEW b \in Authority, NEW g \in LedgerFields \ Secretive, NEW S,
             ledger' = [ledger EXCEPT ![b] = Prune([ledger[b] EXCEPT ![g] = S])]
      PROVE  Still \/ Pruned
  <2>1. CASE b # p
    BY <1>0, <1>1, <2>1
  <2>2. CASE b = p
    <3> DEFINE l == [ledger[p] EXCEPT ![g] = S]
    <3>1. \A f \in Secretive : l[f] = ledger[p][f]
      BY <1>0, <1>a, <1>1
    <3>2. ledger'[p] = Prune(l)
      BY <1>0, <1>1, <2>2
    <3> HIDE DEF l
    <3> QED BY <1>0, <3>1, <3>2 DEF Prune
  <2> QED BY <2>1, <2>2
<1>2. ASSUME NEW b \in Authority, FsmBootstrap(b) \/ FsmAcceptVote(b) \/ FsmConsensusFailed(b)
      PROVE  Still \/ Pruned
  <2>1. ledger' = [ledger EXCEPT ![b] = Prune(ledger[b])]
    BY <1>2 DEF FsmBootstrap, FsmAcceptVote, FsmConsensusFailed
  <2> QED BY <2>1, <1>0 DEF Prune
<1>3. ASSUME NEW b \in Authority, b # p, FsmAcceptDescriptor(b) PROVE Still
  <2>1. \E l : ledger' = [ledger EXCEPT ![b] = l]
    BY <1>3 DEF FsmAcceptDescriptor
  <2> QED BY <2>1, <1>0, <1>3
<1>4. ASSUME NEW b \in Authority, FsmAcceptReveal(b) PROVE Still \/ Pruned
  <2>1. \E S : ledger' = [ledger EXCEPT ![b] = Prune([ledger[b] EXCEPT !.certificates = S])]
    BY <1>4 DEF FsmAcceptReveal
  <2> QED BY <2>1, <1>1 DEF LedgerFields, Secretive
<1>5. ASSUME NEW b \in Authority, FsmAcceptCert(b) PROVE Still \/ Pruned
  <2>1. \E S : ledger' = [ledger EXCEPT ![b] = Prune([ledger[b] EXCEPT !.myconsensus = S])]
    BY <1>5, Signs
  <2> QED BY <2>1, <1>1 DEF LedgerFields, Secretive
<1>6. ASSUME NEW b \in Authority, FsmConsensusReached(b) PROVE Still \/ Pruned
  <2>1. \E S : ledger' = [ledger EXCEPT ![b] = Prune([ledger[b] EXCEPT !.documents = S])]
    BY <1>6 DEF FsmConsensusReached
  <2> QED BY <2>1, <1>1 DEF LedgerFields, Secretive
<1>7. ASSUME NEW b \in Authority, NEW g \in LedgerFields \ Secretive, NEW S,
             ledger' = [ledger EXCEPT ![b][g] = S]
      PROVE  Still
  BY <1>0, <1>a, <1>7
<1>8. ASSUME NEW b \in Authority, NEW m \in msgs, OnCertUpload(b, m) \/ OnSigUpload(b, m) PROVE Still
  <2>1. \E S : \/ ledger' = [ledger EXCEPT ![b].certificates = S]
               \/ ledger' = [ledger EXCEPT ![b].signatures = S]
    BY <1>8 DEF OnCertUpload, OnSigUpload
  <2> QED BY <2>1, <1>7 DEF LedgerFields, Secretive
<1>9. ASSUME NEW b \in Authority, b # p, NEW m \in msgs, OnVoteUpload(b, m) \/ OnRevealUpload(b, m)
      PROVE  Still
  BY <1>0, <1>9 DEF OnVoteUpload, OnRevealUpload
<1>10. ASSUME NEW b \in Authority, NEW c \in Authority, FetchConsensus(b, c) PROVE Still
  <2>1. ledger' = ledger \/ \E S : ledger' = [ledger EXCEPT ![b].documents = S]
    BY <1>10 DEF FetchConsensus
  <2> QED BY <2>1, <1>7 DEF LedgerFields, Secretive
<1>11. ASSUME NEW b \in Authority, Crash(b) PROVE Still \/ Lost
  <2>1. \A f \in Secretive : EmptyLedger[f] = {}
    BY <1>0 DEF EmptyLedger
  <2> QED BY <1>11, <2>1, <1>0 DEF Crash
<1>12. ASSUME NEW b \in Authority, Restart(b) PROVE Still
  <2>1. \E S : ledger' = [ledger EXCEPT ![b].documents = S]
    BY <1>12 DEF Restart
  <2> QED BY <2>1, <1>7 DEF LedgerFields, Secretive
<1>13. Tick \/ UNCHANGED vars => Still
  BY DEF Tick, vars
<1> QED BY <1>2, <1>3, <1>4, <1>5, <1>6, <1>8, <1>9, <1>10, <1>11, <1>12, <1>13 DEF Next, Fsm, Deliver

(* Authority p votes on epoch e, on which it has not voted before, with the secret s. *)
DrawsFor(p, e, s, v, C, R) ==
    /\ e = votingEpoch[p] /\ s = Secret(p, e)
    /\ C = {r \in ledger[p].commits : r.epoch # e \/ r.from # p} \cup {s}
    /\ R = {r \in ledger[p].reveals : r.epoch # e \/ r.from # p} \cup {s}
    /\ v.type = "vote" /\ v.from = p /\ v.epoch = e /\ v.commit = s
    /\ msgs' = msgs \cup {v}
    /\ ledger'[p].votes = Kept(ledger[p].votes \cup {v})
    /\ ledger'[p].commits = Kept(C) /\ ledger'[p].reveals = Kept(R)
    /\ \A k \in msgs : k.type = "vote" => k.epoch # e \/ k.from # p

(* doCommit draws one secret for the epoch and the vote carries it. *)
LEMMA Draws ==
    ASSUME Basis, NEW p \in Authority, FsmAcceptDescriptor(p)
    PROVE  \E e, s, v, C, R : DrawsFor(p, e, s, v, C, R)
<1>0. TypeOK /\ ledger \in [Authority -> LedgerType] /\ ledger[p] \in LedgerType
  BY DEF Basis, IInv, TypeOK
<1>1. p \in up /\ state[p] = "accept_desc"
  BY DEF FsmAcceptDescriptor, Due
<1>e. PICK e : e = votingEpoch[p]
  OBVIOUS
<1>s. PICK s : s = Secret(p, e)
  OBVIOUS
<1>2. \A v \in msgs : v.type = "vote" => v.epoch # e \/ v.from # p
  <2> SUFFICES ASSUME NEW v \in msgs, v.type = "vote", v.epoch = e, v.from = p PROVE FALSE
    OBVIOUS
  <2>1. e \in Nat /\ (e < e \/ SentIn("vote") <= Phase("accept_desc"))
    BY <1>0, <1>1, <1>e DEF Basis, IInv, TypeOK, SaidInTurn
  <2> QED BY <2>1 DEF SentIn, Phase
<1>c. PICK C : C = {r \in ledger[p].commits : r.epoch # e \/ r.from # p} \cup {s}
  OBVIOUS
<1>r. PICK R : R = {r \in ledger[p].reveals : r.epoch # e \/ r.from # p} \cup {s}
  OBVIOUS
<1>d. /\ C = {r \in ledger[p].commits : r.epoch # votingEpoch[p] \/ r.from # p}
                \cup {Secret(p, votingEpoch[p])}
      /\ R = {r \in ledger[p].reveals : r.epoch # votingEpoch[p] \/ r.from # p}
                \cup {Secret(p, votingEpoch[p])}
  BY <1>c, <1>r, <1>e, <1>s
<1>a. PICK mixes : \E new :
         /\ new \subseteq {[type |-> "vote", from |-> p, epoch |-> votingEpoch[p],
                            mixes |-> mixes, commit |-> Secret(p, votingEpoch[p])]}
         /\ msgs' = msgs \cup new
         /\ ledger' = [ledger EXCEPT ![p] = Prune([ledger[p] EXCEPT
               !.commits = C, !.reveals = R, !.votes = ledger[p].votes \cup new])]
  BY <1>d, Votes
<1>v. PICK v : v = [type |-> "vote", from |-> p, epoch |-> e, mixes |-> mixes, commit |-> s]
  OBVIOUS
<1>b. PICK new :
         /\ new \subseteq {v} /\ msgs' = msgs \cup new
         /\ ledger' = [ledger EXCEPT ![p] = Prune([ledger[p] EXCEPT
               !.commits = C, !.reveals = R, !.votes = ledger[p].votes \cup new])]
  BY <1>a, <1>e, <1>s, <1>v
<1>5. v.type = "vote" /\ v.from = p /\ v.epoch = e /\ v.commit = s
  BY <1>v
<1>n. new = {v}
  <2>1. s.from = p /\ s.epoch = e
    BY <1>s DEF Secret
  <2>2. PICK k \in msgs' : k.type = "vote" /\ k.from = p /\ k.epoch = e
    BY <2>1, <1>s, <1>e, FirstVote DEF Basis, VoteSent
  <2>3. k \in new
    BY <1>2, <1>b, <2>2
  <2> QED BY <1>b, <2>3
<1>4. msgs' = msgs \cup {v} /\ ledger' = [ledger EXCEPT ![p] = Prune([ledger[p] EXCEPT
               !.commits = C, !.reveals = R, !.votes = ledger[p].votes \cup {v}])]
  BY <1>b, <1>n
<1> DEFINE l == [ledger[p] EXCEPT !.commits = C, !.reveals = R, !.votes = ledger[p].votes \cup {v}]
<1>6. l.commits = C /\ l.reveals = R /\ l.votes = ledger[p].votes \cup {v}
  BY <1>0 DEF LedgerType
<1>7. ledger'[p] = Prune(l)
  BY <1>0, <1>4
<1> HIDE DEF l
<1>8. /\ ledger'[p].commits = Kept(C) /\ ledger'[p].reveals = Kept(R)
      /\ ledger'[p].votes = Kept(ledger[p].votes \cup {v})
  BY <1>6, <1>7 DEF Prune, LedgerFields
<1>9. DrawsFor(p, e, s, v, C, R)
  BY <1>e, <1>s, <1>c, <1>r, <1>2, <1>4, <1>5, <1>8 DEF DrawsFor
<1> QED BY <1>9

(* Every step keeps VotesKept. *)
LEMMA VotesKeptStep ==
    ASSUME Basis, VotesKept, SentReveals, [Next]_vars
    PROVE  VotesKept'
<1>0. /\ TypeOK /\ TypeOK' /\ OneRevealEach /\ WellFormedMessages /\ msgs \subseteq msgs'
      /\ ledger \in [Authority -> LedgerType]
  BY TypeStep, NewMessages DEF Basis, IInv, TypeOK
<1>1. \A r : VoteSent(r) => VoteSent(r)'
  BY <1>0, SentStaysSent
<1> SUFFICES ASSUME NEW p \in Authority
             PROVE  /\ \A v \in ledger'[p].votes :
                          /\ v.commit \in ledger'[p].commits
                          /\ v.from = p => v.commit \in ledger'[p].reveals
                    /\ \A r \in ledger'[p].reveals :
                          (r.from = p => r \in ledger'[p].commits) /\ VoteSent(r)'
  BY DEF VotesKept
<1>2. /\ \A v \in ledger[p].votes :
            /\ v.commit \in ledger[p].commits /\ v.commit.epoch = v.epoch /\ v.commit.from = v.from
            /\ v.from = p => v.commit \in ledger[p].reveals
      /\ \A r \in ledger[p].reveals : (r.from = p => r \in ledger[p].commits) /\ VoteSent(r)'
  <2>1. \A v \in ledger[p].votes : v.commit.epoch = v.epoch /\ v.commit.from = v.from
    BY <1>0 DEF LedgerType, WellFormedMessages
  <2> QED BY <1>1, <2>1 DEF VotesKept
<1>3. CASE \A f \in Secretive : ledger'[p][f] = ledger[p][f]
  BY <1>2, <1>3 DEF Secretive
<1>4. CASE \A f \in Secretive : ledger'[p][f] = Kept(ledger[p][f])
  BY <1>2, <1>4 DEF Secretive, Kept
<1>5. CASE \A f \in Secretive : ledger'[p][f] = {}
  BY <1>5 DEF Secretive
<1>6. CASE FsmAcceptDescriptor(p)
  <2>d. PICK e, s, v, C, R : DrawsFor(p, e, s, v, C, R)
    BY <1>6, Draws
  <2>1. /\ e = votingEpoch[p] /\ s = Secret(p, e)
        /\ C = {r \in ledger[p].commits : r.epoch # e \/ r.from # p} \cup {s}
        /\ R = {r \in ledger[p].reveals : r.epoch # e \/ r.from # p} \cup {s}
        /\ v.type = "vote" /\ v.from = p /\ v.epoch = e /\ v.commit = s
        /\ ledger'[p].votes = Kept(ledger[p].votes \cup {v})
        /\ ledger'[p].commits = Kept(C) /\ ledger'[p].reveals = Kept(R)
        /\ \A k \in msgs : k.type = "vote" => k.epoch # e \/ k.from # p
    BY <2>d DEF DrawsFor
  <2>2. VoteSent(s)' /\ s.from = p /\ s.epoch = e
    BY <1>6, <2>1, FirstVote DEF Basis, Secret
  <2>3. \A k \in ledger[p].votes : k.epoch # e \/ k.from # p
    BY <1>0, <2>1 DEF LedgerType
  <2> QED BY <1>2, <2>1, <2>2, <2>3 DEF Kept
<1>7. ASSUME NEW m \in msgs, OnVoteUpload(p, m)
      PROVE  /\ \A v \in ledger'[p].votes :
                   /\ v.commit \in ledger'[p].commits
                   /\ v.from = p => v.commit \in ledger'[p].reveals
             /\ \A r \in ledger'[p].reveals :
                   (r.from = p => r \in ledger'[p].commits) /\ VoteSent(r)'
  <2>1. /\ ledger'[p].votes = ledger[p].votes \cup {m} /\ ledger'[p].reveals = ledger[p].reveals
        /\ ledger'[p].commits = ledger[p].commits \cup {m.commit} /\ m.from # p
    BY <1>0, <1>7 DEF OnVoteUpload, Accepts, LedgerType
  <2> QED BY <1>2, <2>1
<1>8. ASSUME NEW m \in msgs, OnRevealUpload(p, m)
      PROVE  /\ \A v \in ledger'[p].votes :
                   /\ v.commit \in ledger'[p].commits
                   /\ v.from = p => v.commit \in ledger'[p].reveals
             /\ \A r \in ledger'[p].reveals :
                   (r.from = p => r \in ledger'[p].commits) /\ VoteSent(r)'
  <2>1. /\ ledger'[p].votes = ledger[p].votes /\ ledger'[p].commits = ledger[p].commits
        /\ ledger'[p].reveals = ledger[p].reveals \cup {m.reveal} /\ m.from # p /\ m.type = "reveal"
    BY <1>0, <1>8 DEF OnRevealUpload, Accepts, LedgerType
  <2>2. m.reveal.from # p /\ VoteSent(m.reveal)'
    BY <1>0, <1>1, <2>1 DEF WellFormedMessages, SentReveals
  <2> QED BY <1>2, <2>1, <2>2
<1> QED BY <1>0, <1>3, <1>4, <1>5, <1>6, <1>7, <1>8, SecretsMove

(* A round that an authority is in began in this epoch; it has just entered it or was *)
(* in it.                                                                             *)
LEMMA RoundBefore ==
    ASSUME Basis, Bounded, InSlot, [Next]_vars, NEW a \in Authority, NEW e \in Nat, Takes(a, e)'
    PROVE  /\ a \in up /\ a \in up' /\ votingEpoch[a] = e /\ Epoch = e - 1
           /\ \/ /\ FsmAcceptDescriptor(a) /\ Phase(state'[a]) = 1
                 /\ now = Begins(e) + 1 /\ now' = now /\ crashes' = crashes
              \/ /\ ~FsmAcceptDescriptor(a) /\ Takes(a, e) /\ (Same(a) \/ Enters(a))
                 /\ Phase(state'[a]) = Phase(state[a]) \/ Enters(a)
<1>0. TypeOK /\ TypeOK' /\ state[a] \in States /\ state'[a] \in States /\ Begins(e) \in Int
      /\ Begins(e) = 8 * e - 8
  BY TypeStep, Slots DEF Basis, IInv, TypeOK
<1>1. a \in up' /\ votingEpoch'[a] = e /\ Phase(state'[a]) >= 1
  BY DEF Takes
<1>2. a \in up /\ votingEpoch'[a] = votingEpoch[a] /\ (Same(a) \/ Enters(a))
  BY <1>1, InRound
<1>3. votingEpoch[a] = e
  BY <1>1, <1>2
<1>4. CASE FsmAcceptDescriptor(a)
  <2>1. state[a] = "accept_desc" /\ state'[a] = "accept_vote"
    BY <1>4, <1>0 DEF FsmAcceptDescriptor, Due, Goto, TypeOK
  <2>2. Phase(state[a]) = 0 /\ Phase(state'[a]) = 1
    BY <2>1 DEF Phase
  <2>3. ~Same(a)
    BY <2>1 DEF Same
  <2>4. now' = now /\ crashes' = crashes /\ now = Begins(e) + 1
    BY <1>2, <1>3, <2>2, <2>3 DEF Enters
  <2>5. Epoch = e - 1
    BY <1>0, <2>4, InEpoch
  <2> QED BY <1>1, <1>2, <1>3, <1>4, <2>2, <2>4, <2>5
<1>5. CASE ~FsmAcceptDescriptor(a)
  <2>1. Phase(state[a]) >= 1
    <3>1. CASE Same(a)
      BY <1>1, <3>1 DEF Same
    <3>2. CASE Enters(a)
      <4>1. state[a] \in {"accept_vote", "accept_reveal", "accept_cert"}
        BY <1>5, <3>2 DEF Enters, FsmAcceptVote, FsmAcceptReveal, FsmAcceptCert, Due
      <4> QED BY <4>1 DEF Phase
    <3> QED BY <1>2, <3>1, <3>2
  <2>2. Takes(a, e)
    BY <1>2, <1>3, <2>1 DEF Takes
  <2>3. state[a] # "bootstrap"
    BY <2>1 DEF Phase
  <2>4. /\ now <= Begins(e) + Phase(state[a]) + 1 /\ now \in Nat /\ Phase(state[a]) \in 0..4
    BY <1>2, <1>3, <2>3, Timer
  <2>5. now >= Begins(e) + Phase(state[a])
    BY <1>2, <1>3, <2>1 DEF InSlot
  <2>6. Epoch = e - 1
    BY <1>0, <2>1, <2>4, <2>5, InEpoch
  <2>7. Phase(state'[a]) = Phase(state[a]) \/ Enters(a)
    BY <1>2 DEF Same
  <2> QED BY <1>1, <1>2, <1>3, <1>5, <2>2, <2>6, <2>7
<1> QED BY <1>4, <1>5

(* What is stored for the round an authority is in, it keeps. *)
LEMMA RoundKeeps ==
    ASSUME Basis, Bounded, InSlot, [Next]_vars, NEW a \in Authority, NEW e \in Nat, Takes(a, e)',
           NEW f \in Stored, NEW r \in ledger[a][f], r.epoch = e,
           f \in {"commits", "reveals"} => ~FsmAcceptDescriptor(a)
    PROVE  r \in ledger'[a][f]
<1>1. a \in up /\ a \in up' /\ Epoch = e - 1
  BY RoundBefore
<1>2. r.epoch + PreserveForPastEpochs >= Epoch
  BY <1>1 DEF PreserveForPastEpochs
<1>3. TypeOK
  BY DEF Basis, IInv
<1> QED BY <1>1, <1>2, <1>3, LedgerKeeps

(* What an authority has of someone for its round, it goes on having. *)
LEMMA HasKeeps ==
    ASSUME Basis, Bounded, InSlot, [Next]_vars, NEW a \in Authority, NEW e \in Nat, Takes(a, e)',
           ~FsmAcceptDescriptor(a), NEW f \in Stored, NEW p, Has(a, f, e, p)
    PROVE  Has(a, f, e, p)'
BY RoundKeeps DEF Has

(* Every step keeps SentReveals. *)
LEMMA SentRevealsStep ==
    ASSUME Basis, VotesKept, SentReveals, [Next]_vars
    PROVE  SentReveals'
<1>0. TypeOK /\ OneRevealEach /\ msgs \subseteq msgs'
  BY NewMessages DEF Basis, IInv
<1> SUFFICES ASSUME NEW w \in msgs', w.type = "reveal" PROVE VoteSent(w.reveal)'
  BY DEF SentReveals
<1>1. VoteSent(w.reveal)
  <2>1. CASE w \in msgs
    BY <2>1 DEF SentReveals
  <2>2. CASE w \notin msgs
    <3>1. w.from \in Authority /\ FsmAcceptVote(w.from)
      BY <1>0, <2>2, Sender DEF TypeOK
    <3>2. w \in {[type |-> "reveal", from |-> w.from, epoch |-> r.epoch, reveal |-> r] :
                    r \in {r \in At(w.from, "reveals", votingEpoch[w.from]) : r.from = w.from}}
      BY <2>2, <3>1 DEF FsmAcceptVote
    <3>3. w.reveal \in ledger[w.from].reveals
      BY <3>2 DEF At
    <3> QED BY <3>1, <3>3 DEF VotesKept
  <2> QED BY <2>1, <2>2
<1> QED BY <1>0, <1>1, SentStaysSent

(* Every step keeps OwnVote. *)
LEMMA OwnVoteStep ==
    ASSUME Basis, Bounded, InSlot, OwnVote, [Next]_vars
    PROVE  OwnVote'
<1> SUFFICES ASSUME NEW a \in Authority, NEW e \in Nat, Takes(a, e)' PROVE Has(a, "votes", e, a)'
  BY DEF OwnVote
<1>1. CASE FsmAcceptDescriptor(a)
  <2>1. PICK k, s, v, C, R : DrawsFor(a, k, s, v, C, R)
    BY <1>1, Draws
  <2>2. /\ k = votingEpoch[a] /\ v.from = a /\ v.epoch = k
        /\ ledger'[a].votes = Kept(ledger[a].votes \cup {v})
    BY <2>1 DEF DrawsFor
  <2>3. votingEpoch[a] = e /\ Epoch = e - 1
    BY RoundBefore
  <2>4. v \in ledger'[a].votes
    BY <2>2, <2>3 DEF Kept, PreserveForPastEpochs
  <2> QED BY <2>2, <2>3, <2>4 DEF Has
<1>2. CASE ~FsmAcceptDescriptor(a)
  <2>1. Takes(a, e)
    BY <1>2, RoundBefore
  <2>2. Has(a, "votes", e, a)
    BY <2>1 DEF OwnVote
  <2> QED BY <1>2, <2>2, HasKeeps DEF Stored
<1> QED BY <1>1, <1>2

(* Who sends something in a round is in it. *)
LEMMA SenderTakes ==
    ASSUME Basis, [Next]_vars, NEW m \in msgs' \ msgs
    PROVE  /\ m.from \in Authority /\ m.epoch \in Nat /\ Takes(m.from, m.epoch)'
           /\ Phase(state'[m.from]) = SentIn(m.type) /\ crashes' = crashes /\ now' = now
           /\ now = Begins(m.epoch) + SentIn(m.type)
<1>1. /\ m.from \in up' /\ m.epoch = votingEpoch[m.from] /\ votingEpoch'[m.from] = votingEpoch[m.from]
      /\ Phase(state'[m.from]) = SentIn(m.type) /\ crashes' = crashes /\ now' = now
      /\ now = Begins(m.epoch) + SentIn(m.type)
  BY SentInSlot
<1>2. SentIn(m.type) \in 1..4 /\ m.from \in Authority /\ m.epoch \in Nat
  BY BasisTypes
<1> QED BY <1>1, <1>2 DEF Takes

(* Every step keeps Voted. *)
LEMMA VotedStep ==
    ASSUME Basis, Voted, OwnVote', [Next]_vars
    PROVE  Voted'
<1>0. msgs \subseteq msgs' /\ TypeOK'
  BY NewMessages, TypeStep DEF Basis, IInv
<1> SUFFICES ASSUME NEW m \in msgs'
             PROVE  \E v \in msgs' : v.type = "vote" /\ v.from = m.from /\ v.epoch = m.epoch
  BY DEF Voted
<1>1. CASE m \in msgs
  BY <1>0, <1>1 DEF Voted
<1>2. CASE m \notin msgs
  <2>1. m.from \in Authority /\ m.epoch \in Nat /\ Takes(m.from, m.epoch)'
    BY <1>2, SenderTakes
  <2>2. Has(m.from, "votes", m.epoch, m.from)'
    BY <2>1 DEF OwnVote
  <2> QED BY <1>0, <2>1, <2>2 DEF Has, TypeOK, LedgerType
<1> QED BY <1>1, <1>2

-----------------------------------------------------------------------------
(* Epochs that no crash has touched. *)

(* Documents are never withdrawn. *)
LEMMA PublishedGrows ==
    ASSUME [Next]_vars
    PROVE  published \subseteq published' /\ \A e : Decided(e) => Decided(e)'
<1>1. published \subseteq published'
    <3>1. ASSUME NEW a \in Authority, Fsm(a) PROVE published \subseteq published'
      BY <3>1 DEF Fsm, FsmBootstrap, FsmAcceptDescriptor, FsmAcceptVote, FsmAcceptReveal,
         FsmAcceptCert, FsmConsensusReached, FsmConsensusFailed
    <3>2. ASSUME NEW a \in Authority, NEW m \in msgs, Deliver(a, m) PROVE published' = published
      BY <3>2 DEF Deliver, OnVoteUpload, OnRevealUpload, OnCertUpload, OnSigUpload, docVars
    <3> QED BY <3>1, <3>2 DEF Next, FetchConsensus, Crash, Restart, docVars, Tick, vars
<1> QED BY <1>1 DEF Decided

(* Between crashes, an epoch that is untouched was untouched before. *)
LEMMA GoodBefore ==
    ASSUME Basis, [Next]_vars, crashes' = crashes, NEW e, Good(e)'
    PROVE  Good(e)
<1>1. msgs \subseteq msgs' /\ published \subseteq published'
  BY PublishedGrows, NewMessages DEF Basis, IInv
<1>2. Clean(e)
  BY <1>1 DEF Good, Clean, VotesFor
<1>3. ~Decided(e - 1)' => ~Decided(e - 1)
  BY <1>1 DEF Decided
<1> QED BY <1>2, <1>3 DEF Good

(* After a crash, only an epoch about which nothing has been said counts as untouched. *)
LEMMA CrashTouches ==
    ASSUME Basis, Bounded, [Next]_vars, OwnVote', Voted', NEW b \in Authority, Crash(b), NEW e, Good(e)'
    PROVE  /\ \A m \in msgs' : m.epoch # e
           /\ \A a \in Authority : e \in Nat => ~Takes(a, e)'
<1>0. TypeOK /\ TypeOK' /\ crashes' = crashes + 1 /\ msgs' = msgs
  BY TypeStep DEF Basis, IInv, Crash
<1>1. ASSUME NEW v \in msgs', v.type = "vote", v.epoch = e PROVE FALSE
  <2>1. v.commit.nonce = crashes'
    BY <1>1 DEF Good, Clean, VotesFor
  <2>2. v.commit.nonce \in Nat /\ crashes \in Nat /\ v.commit.nonce <= crashes
    BY <1>0, <1>1 DEF TypeOK, Bounded, Secrets
  <2> QED BY <1>0, <2>1, <2>2
<1>2. \A m \in msgs' : m.epoch # e
  BY <1>1 DEF Voted
<1>3. ASSUME NEW a \in Authority, e \in Nat, Takes(a, e)' PROVE FALSE
  <2>1. Has(a, "votes", e, a)'
    BY <1>3 DEF OwnVote
  <2> QED BY <1>0, <1>2, <2>1 DEF Has, TypeOK, LedgerType
<1> QED BY <1>2, <1>3

-----------------------------------------------------------------------------
(* An authority that does not crash is there for every round. *)

(* The beginning of an epoch. *)
Epochal(t) == \E e \in Nat : t = EpochStart(e)

(* An authority that never crashed votes in every round: when it waits for the next *)
(* epoch it wakes at its beginning, before the next slot for votes.                 *)
OnTrack(a) ==
    /\ a \in up
    /\ state[a] = "bootstrap" => Epochal(wake[a]) /\ wake[a] <= now + 3
    /\ wake[a] <= now + 4

(* All authorities are on track, or all but the one that crashed. *)
Present ==
    \/ \A a \in Authority : OnTrack(a)
    \/ crashes > 0 /\ \E x \in Authority : \A a \in Authority \ {x} : OnTrack(a)

(* An authority on track stays on track while it runs. *)
LEMMA OnTrackStep ==
    ASSUME Basis, Basis', Bounded, [Next]_vars, NEW a \in Authority, OnTrack(a), a \in up'
    PROVE  OnTrack(a)'
<1>0. /\ TypeOK /\ TypeOK' /\ OnSchedule /\ now \in Nat /\ now' \in Nat /\ now <= now'
      /\ wake[a] \in Nat /\ a \in up /\ state[a] \in States /\ state'[a] \in States
      /\ votingEpoch[a] \in Nat /\ now <= wake[a]
  BY TimeGoesOn, TypeStep, Timer DEF Basis, IInv, TypeOK, OnTrack
<1>1. CASE Stays(a)
  BY <1>0, <1>1 DEF OnTrack, Stays, Epochal
<1>2. CASE ComesBack(a)
  BY <1>0, <1>2 DEF ComesBack
<1>3. CASE SitsOut(a)
  <2>1. /\ now' = now /\ wake[a] = now /\ state'[a] = "bootstrap" /\ wake'[a] = NextEpoch(0)
        /\ state[a] \in {"bootstrap", "accept_signature"}
    BY <1>0, <1>3 DEF SitsOut
  <2>2. NextEpoch(0) = 8 * Epoch + 8 /\ NextEpoch(0) = EpochStart(Epoch + 1) /\ Epoch \in Nat
        /\ Elapsed(1) = 8 * Epoch + 1
        /\ 8 * Epoch <= now /\ now < 8 * Epoch + 8
    <3>1. NextEpoch(0) = 8 * Epoch + 8 /\ Epoch \in Nat /\ 8 * Epoch <= now /\ now < 8 * Epoch + 8
          /\ Elapsed(1) = 8 * Epoch + 1
      BY <1>0, Moments
    <3> QED BY <3>1 DEF EpochStart, SlotsPerEpoch
  <2>3. CASE state[a] = "accept_signature"
    <3>1. Phase(state[a]) = 4 /\ state[a] # "bootstrap"
      BY <2>3 DEF Phase
    <3>2. wake[a] = Begins(votingEpoch[a]) + 5
      <4>1. wake[a] = Begins(votingEpoch[a]) + 4 + 1 /\ Begins(votingEpoch[a]) \in Int
        BY <1>0, <3>1, Timer, Slots
      <4> QED BY <4>1
    <3>3. Begins(votingEpoch[a]) = 8 * votingEpoch[a] - 8
      BY <1>0, Slots
    <3>4. NextEpoch(0) = now + 3
      BY <1>0, <2>1, <2>2, <3>2, <3>3
    <3> QED BY <1>0, <2>1, <2>2, <3>4 DEF OnTrack, Epochal
  <2>4. CASE state[a] = "bootstrap"
    <3>1. PICK e \in Nat : wake[a] = EpochStart(e)
      BY <2>4 DEF OnTrack, Epochal
    <3>2. now = 8 * e
      BY <2>1, <3>1 DEF EpochStart, SlotsPerEpoch
    <3>3. ~TooLateToVote
      BY <1>0, <2>2, <3>2 DEF TooLateToVote, MixPublishDeadline
    <3>4. Fsm(a)
      <4>1. ~Same(a)
        <5>1. wake'[a] > now
          BY <1>0, <2>1, <2>2
        <5> QED BY <1>0, <2>1, <5>1 DEF Same
      <4> QED BY <1>0, <4>1, FsmOrSame
    <3>5. FsmBootstrap(a)
      BY <2>4, <3>4 DEF Fsm, FsmAcceptDescriptor, FsmAcceptVote, FsmAcceptReveal,
         FsmAcceptCert, FsmConsensusReached, FsmConsensusFailed, Due
    <3>6. state'[a] = "accept_desc"
      BY <1>0, <3>3, <3>5 DEF FsmBootstrap, Goto, TypeOK
    <3> QED BY <2>1, <3>6
  <2> QED BY <2>1, <2>3, <2>4
<1>4. CASE StartsVoting(a)
  <2>1. now' = now /\ state'[a] = "accept_desc" /\ wake'[a] = Elapsed(1) /\ now < Elapsed(1)
    BY <1>0, <1>4, Moments DEF StartsVoting, TooLateToVote, MixPublishDeadline
  <2>2. Elapsed(1) = 8 * Epoch + 1 /\ 8 * Epoch <= now /\ Epoch \in Nat
    BY <1>0, Moments
  <2> QED BY <1>0, <2>1, <2>2 DEF OnTrack
<1>5. CASE Advances(a)
  <2>1. /\ now' = now /\ wake[a] = now /\ state[a] # "bootstrap" /\ state'[a] # "bootstrap"
        /\ Phase(state'[a]) = Phase(state[a]) + 1 /\ votingEpoch'[a] = votingEpoch[a]
    BY <1>0, <1>5 DEF Advances
  <2>2. wake[a] = Begins(votingEpoch[a]) + Phase(state[a]) + 1
    BY <1>0, <2>1, Timer
  <2>3. wake'[a] = Begins(votingEpoch[a]) + Deadline(state'[a])
    BY <1>0, <2>1 DEF Basis, OnTime, Begins
  <2>4. Deadline(state'[a]) = Phase(state'[a]) + 1 /\ Phase(state[a]) \in Int /\ Begins(votingEpoch[a]) \in Int
    BY <1>0, <2>1, Slots
  <2> QED BY <1>0, <2>1, <2>2, <2>3, <2>4 DEF OnTrack
<1>6. CASE Succeeds(a)
  <2>1. /\ now' = now /\ state[a] = "accept_signature" /\ state'[a] = "accept_desc"
        /\ wake'[a] = NextEpoch(1)
    BY <1>6 DEF Succeeds, MixPublishDeadline
  <2>2. NextEpoch(1) = 8 * Epoch + 9 /\ 8 * Epoch <= now /\ now < 8 * Epoch + 8 /\ Epoch \in Nat
    BY <1>0, Moments
  <2>3. ~Same(a)
    BY <2>1 DEF Same
  <2>4. Fsm(a)
    BY <1>0, <2>3, FsmOrSame
  <2>5. now = Begins(votingEpoch[a]) + Phase(state[a]) + 1
    BY <1>0, <2>1, <2>4, FsmDeadline
  <2>6. Phase(state[a]) = 4 /\ Begins(votingEpoch[a]) = 8 * votingEpoch[a] - 8
    BY <1>0, <2>1, Slots DEF Phase
  <2>7. NextEpoch(1) = now + 4
    BY <1>0, <2>2, <2>5, <2>6
  <2> QED BY <1>0, <2>1, <2>7 DEF OnTrack
<1> QED BY <1>0, <1>1, <1>2, <1>3, <1>4, <1>5, <1>6, StepMoves DEF Moves

(* Every step keeps Present. *)
LEMMA PresentStep ==
    ASSUME Basis, Basis', Bounded, Bounded', MaxCrash \in 0..1, Present, [Next]_vars
    PROVE  Present'
<1>0. TypeOK /\ TypeOK' /\ crashes \in Nat /\ crashes <= MaxCrash /\ crashes' \in Nat
  BY DEF Basis, IInv, TypeOK, Bounded
<1>1. CASE \E b \in Authority : Crash(b)
  <2>1. PICK b \in Authority : Crash(b)
    BY <1>1
  <2>2. crashes' = crashes + 1 /\ crashes < MaxCrash /\ up' = up \ {b}
    BY <2>1 DEF Crash
  <2>3. crashes = 0
    BY <1>0, <2>2
  <2>4. \A a \in Authority \ {b} : OnTrack(a)'
    <3>1. \A a \in Authority : OnTrack(a)
      BY <2>3 DEF Present
    <3>2. ASSUME NEW a \in Authority \ {b} PROVE OnTrack(a)'
      <4>1. OnTrack(a) /\ a \in up'
        BY <2>2, <3>1 DEF OnTrack
      <4> QED BY <4>1, OnTrackStep
    <3> QED BY <3>2
  <2> QED BY <2>2, <2>3, <2>4 DEF Present
<1>2. CASE crashes' = crashes /\ up \subseteq up'
  <2>1. ASSUME NEW a \in Authority, OnTrack(a) PROVE OnTrack(a)'
    <3>1. a \in up'
      BY <1>2, <2>1 DEF OnTrack
    <3> QED BY <2>1, <3>1, OnTrackStep
  <2>2. CASE \A a \in Authority : OnTrack(a)
    BY <2>1, <2>2 DEF Present
  <2>3. CASE crashes > 0 /\ \E x \in Authority : \A a \in Authority \ {x} : OnTrack(a)
    <3>1. PICK x \in Authority : \A a \in Authority \ {x} : OnTrack(a)
      BY <2>3
    <3>2. \A a \in Authority \ {x} : OnTrack(a)'
      BY <2>1, <3>1
    <3>3. crashes' > 0
      BY <1>2, <2>3
    <3> QED BY <3>2, <3>3 DEF Present
  <2> QED BY <2>2, <2>3 DEF Present
<1> QED BY <1>0, <1>1, <1>2, CrashOrNot

(* The clock moves in a Tick. *)
LEMMA TimeStops ==
    ASSUME [Next]_vars
    PROVE  Tick \/ now' = now
<1>2. ASSUME NEW a \in Authority, Fsm(a) PROVE now' = now
    BY <1>2 DEF Fsm, FsmBootstrap, FsmAcceptDescriptor, FsmAcceptVote, FsmAcceptReveal,
       FsmAcceptCert, FsmConsensusReached, FsmConsensusFailed, clockVars
<1>3. ASSUME NEW a \in Authority, NEW m \in msgs, Deliver(a, m) PROVE now' = now
    BY <1>3 DEF Deliver, OnVoteUpload, OnRevealUpload, OnCertUpload, OnSigUpload, clockVars
<1>4. ASSUME NEW a \in Authority, NEW b \in Authority, FetchConsensus(a, b)
      PROVE  now' = now
    BY <1>4 DEF FetchConsensus, clockVars
<1>5. ASSUME NEW a \in Authority, Crash(a) \/ Restart(a) PROVE now' = now
    BY <1>5 DEF Crash, Restart
<1>6. CASE UNCHANGED vars
    BY <1>6 DEF vars, clockVars
<1> QED BY <1>2, <1>3, <1>4, <1>5, <1>6 DEF Next

(* Authority a has sent its command of type t about epoch e. *)
Sent(t, a, e) == \E m \in msgs : m.type = t /\ m.from = a /\ m.epoch = e

(* All but one of the authorities vote on every epoch. *)
Quorum ==
    \A e \in Nat : e >= First /\ now >= Begins(e) + 2 =>
        \E x \in Authority : \A a \in Authority \ {x} : Sent("vote", a, e)

(* An authority on track has voted when the slot for votes is over. *)
LEMMA OnTrackVotes ==
    ASSUME Basis, OwnVote, NEW e \in Nat, NEW a \in Authority, OnTrack(a),
           now = Begins(e) + 1, now < wake[a]
    PROVE  Sent("vote", a, e)
<1>0. /\ TypeOK /\ now \in Nat /\ wake[a] \in Nat /\ a \in up /\ state[a] \in States
      /\ votingEpoch[a] \in Nat /\ Begins(e) = 8 * e - 8 /\ Phase(state[a]) \in 0..4
      /\ Begins(votingEpoch[a]) = 8 * votingEpoch[a] - 8 /\ wake[a] <= now + 4
  BY Slots, Timer DEF Basis, IInv, TypeOK, OnTrack
<1>1. state[a] # "bootstrap"
  <2> SUFFICES ASSUME state[a] = "bootstrap" PROVE FALSE
    OBVIOUS
  <2>1. PICK k \in Nat : wake[a] = EpochStart(k) /\ wake[a] <= now + 3
    BY DEF OnTrack, Epochal
  <2>2. wake[a] = 8 * k
    BY <2>1 DEF EpochStart, SlotsPerEpoch
  <2> QED BY <1>0, <2>1, <2>2
<1>2. wake[a] = Begins(votingEpoch[a]) + Phase(state[a]) + 1
  BY <1>0, <1>1, Timer
<1>3. votingEpoch[a] = e /\ Phase(state[a]) >= 1
  BY <1>0, <1>2
<1>4. Has(a, "votes", e, a)
  BY <1>0, <1>3 DEF OwnVote, Takes
<1> QED BY <1>0, <1>4 DEF Has, Sent, TypeOK, LedgerType

(* Every step keeps Quorum. *)
LEMMA QuorumStep ==
    ASSUME Basis, Bounded, Present, OwnVote, Quorum, MaxLag = 0, Authority # {}, [Next]_vars
    PROVE  Quorum'
<1>0. TypeOK /\ now \in Nat /\ now' \in Nat /\ msgs \subseteq msgs'
  BY NewMessages, TimeGoesOn DEF Basis, IInv
<1> SUFFICES ASSUME NEW e \in Nat, e >= First, now' >= Begins(e) + 2
             PROVE  \E x \in Authority : \A a \in Authority \ {x} : Sent("vote", a, e)'
  BY DEF Quorum
<1>1. \A a : Sent("vote", a, e) => Sent("vote", a, e)'
  BY <1>0 DEF Sent
<1>2. CASE now >= Begins(e) + 2
  BY <1>1, <1>2 DEF Quorum
<1>3. CASE ~(now >= Begins(e) + 2)
  <2>0. Begins(e) \in Int
    BY Slots
  <2>1. Tick
    BY <1>0, <1>3, <2>0, TimeStops
  <2>2. now' = now + 1 /\ \A a \in up : now < wake[a] + MaxLag
    BY <2>1 DEF Tick
  <2>3. now = Begins(e) + 1
    BY <1>0, <1>3, <2>0, <2>2
  <2>4. ASSUME NEW a \in Authority, OnTrack(a) PROVE Sent("vote", a, e)
    <3>1. now < wake[a]
      <4>1. a \in up /\ wake[a] \in Nat
        BY <1>0, <2>4 DEF OnTrack, TypeOK
      <4>2. now < wake[a] + 0
        BY <2>2, <4>1
      <4> QED BY <1>0, <4>1, <4>2
    <3> QED BY <2>3, <2>4, <3>1, OnTrackVotes
  <2>5. \E x \in Authority : \A a \in Authority \ {x} : OnTrack(a)
    BY DEF Present
  <2> QED BY <1>1, <2>4, <2>5
<1> QED BY <1>2, <1>3

(* Who has voted in this life of the network takes part until the round is over, and if *)
(* no crash has touched it the round ended with a document and its signature was sent.  *)
Stay ==
    \A v \in msgs : v.type = "vote" /\ v.commit.nonce = crashes =>
        \/ Takes(v.from, v.epoch)
        \/ /\ now >= Begins(v.epoch) + 5
           /\ Good(v.epoch) => Decided(v.epoch) /\ Sent("sig", v.from, v.epoch)

(* A command about an untouched round has reached everyone in it when its slot is over. *)
Arrived ==
    \A a \in Authority, m \in msgs :
        /\ Takes(a, m.epoch) /\ Good(m.epoch) /\ m.from # a
        /\ now > Begins(m.epoch) + SentIn(m.type)
        => Has(a, Field(m.type), m.epoch, m.from)

(* Who is in an untouched round has sent what its phases send. *)
Spoke ==
    \A a \in Authority, e \in Nat : Takes(a, e) /\ Good(e) =>
        \A t \in {"reveal", "cert", "sig"} : Phase(state[a]) >= SentIn(t) => Sent(t, a, e)

(* Who has voted on an epoch that no crash has touched is in its round until the end. *)
LEMMA VoterTakes ==
    ASSUME Basis, Stay, NEW e \in Nat, Good(e), NEW v \in VotesFor(e), now < Begins(e) + 5
    PROVE  /\ v.from \in Authority /\ Takes(v.from, e)
           /\ now <= Begins(e) + Phase(state[v.from]) + 1
<1>0. /\ TypeOK /\ v \in msgs /\ v.type = "vote" /\ v.epoch = e /\ v.from \in Authority /\ now \in Nat
      /\ Begins(e) \in Int /\ v.commit.nonce = crashes
  BY Slots DEF Basis, IInv, TypeOK, VotesFor, Good, Clean
<1>1. Takes(v.from, e)
  <2>1. ~(now >= Begins(e) + 5)
    BY <1>0
  <2> QED BY <1>0, <2>1 DEF Stay
<1>2. v.from \in up /\ votingEpoch[v.from] = e /\ state[v.from] # "bootstrap"
  BY <1>1 DEF Takes, Phase
<1>3. now <= Begins(e) + Phase(state[v.from]) + 1
  BY <1>2, Timer
<1> QED BY <1>0, <1>1, <1>3

(* Each type of command is stored in an entry of the ledger. *)
LEMMA Fields ==
    ASSUME NEW t \in {"vote", "reveal", "cert", "sig"}
    PROVE  Field(t) \in Stored
BY DEF Field, Stored

(* Every step keeps Arrived. *)
LEMMA ArrivedStep ==
    ASSUME Basis, Basis', Bounded, InSlot, Stay, Voted, Voted', OwnVote', Arrived, MaxLate = 0,
           [Next]_vars
    PROVE  Arrived'
<1>0. /\ TypeOK /\ TypeOK' /\ now \in Nat /\ now' \in Nat /\ msgs \subseteq msgs'
  BY NewMessages, TimeGoesOn DEF Basis, IInv
<1> SUFFICES ASSUME NEW a \in Authority, NEW m \in msgs', NEW e, e = m.epoch,
                    Takes(a, e)', Good(e)', m.from # a, now' > Begins(e) + SentIn(m.type)
             PROVE  Has(a, Field(m.type), e, m.from)'
  BY DEF Arrived
<1>1. e \in Nat /\ SentIn(m.type) \in 1..4 /\ m.from \in Authority /\ m.type \in {"vote", "reveal", "cert", "sig"}
      /\ Begins(e) \in Int
  BY BasisTypes, Slots
<1>2. m \in msgs
  <2> SUFFICES ASSUME m \notin msgs PROVE FALSE
    OBVIOUS
  <2>1. now' = now /\ now = Begins(e) + SentIn(m.type)
    BY SenderTakes
  <2> QED BY <1>0, <1>1, <2>1
<1>3. crashes' = crashes
  <2>1. ASSUME NEW b \in Authority, Crash(b) PROVE FALSE
    BY <2>1, CrashTouches
  <2> QED BY <1>0, <2>1, CrashOrNot
<1>4. Good(e)
  BY <1>3, GoodBefore
<1>5. Takes(a, e) /\ ~FsmAcceptDescriptor(a)
  <2>1. ~(now = Begins(e) + 1 /\ now' = now)
    BY <1>0, <1>1
  <2> QED BY <1>1, <2>1, RoundBefore
<1>6. Has(a, Field(m.type), e, m.from)
  <2>1. CASE now > Begins(e) + SentIn(m.type)
    BY <1>2, <1>4, <1>5, <2>1 DEF Arrived
  <2>2. CASE ~(now > Begins(e) + SentIn(m.type))
    <3>1. Tick
      BY <1>0, <1>1, <2>2, TimeStops
    <3>2. Outstanding = {}
      <4>1. Cardinality(Outstanding) <= 0
        BY <3>1 DEF Tick
      <4>2. IsFiniteSet(up \X msgs)
        <5>1. IsFiniteSet(up) /\ IsFiniteSet(msgs)
          BY <1>0, AuthorityAssumption, FS_Subset DEF TypeOK, Bounded
        <5> QED BY <5>1, FS_Product
      <4>3. IsFiniteSet(Outstanding)
        <5>1. Outstanding \subseteq up \X msgs
          BY DEF Outstanding
        <5> QED BY <4>2, <5>1, FS_Subset
      <4>4. Cardinality(Outstanding) = 0
        BY <4>1, <4>3, FS_CardinalityType
      <4> QED BY <4>3, <4>4, FS_EmptySet
    <3>3. now < Begins(e) + 5
      BY <1>0, <1>1, <2>2
    <3>4. PICK v \in msgs : v.type = "vote" /\ v.from = m.from /\ v.epoch = e
      BY <1>2 DEF Voted
    <3>5. Takes(m.from, e)
      <4>1. v \in VotesFor(e)
        BY <3>4 DEF VotesFor
      <4>2. Takes(v.from, e)
        BY <1>1, <1>4, <3>3, <4>1, VoterTakes
      <4> QED BY <3>4, <4>2
    <3>6. a \in up /\ votingEpoch[a] = e /\ votingEpoch[m.from] = e
      BY <1>5, <3>5 DEF Takes
    <3>7. <<a, m>> \in up \X msgs
      BY <1>2, <3>6
    <3>8. ~Accepts(a, m, m.type, Field(m.type))
      BY <3>2, <3>6, <3>7 DEF Outstanding
    <3> QED BY <3>6, <3>8 DEF Accepts
  <2> QED BY <2>1, <2>2
<1>7. Field(m.type) \in Stored
  BY <1>1, Fields
<1> QED BY <1>1, <1>5, <1>6, <1>7, HasKeeps

-----------------------------------------------------------------------------
(* What an authority has in an untouched round. *)

(* Authority a takes part in the untouched round for e, with all that is known of it so *)
(* far.                                                                                 *)
InRoundOf(a, e) == Basis /\ Bounded /\ VotesKept /\ OwnVote /\ Stay /\ Arrived /\ Spoke
                     /\ Takes(a, e) /\ Good(e)

(* An authority votes once on an epoch. *)
LEMMA OneVote ==
    ASSUME Basis, NEW e, NEW v \in VotesFor(e)
    PROVE  /\ v.from \in Authority /\ v.commit.from = v.from /\ v.commit.epoch = e
           /\ \A k \in VotesFor(e) : k.from = v.from => k = v
BY DEF Basis, IInv, TypeOK, WellFormedMessages, NoEquivocation, VotesFor

(* After the slot for votes, it has exactly the votes that were sent and what they *)
(* commit to.                                                                      *)
LEMMA VotesIn ==
    ASSUME NEW a \in Authority, NEW e \in Nat, InRoundOf(a, e), now > Begins(e) + 1
    PROVE  At(a, "votes", e) = VotesFor(e) /\ At(a, "commits", e) = CommitsTo(e)
<1> USE DEF InRoundOf
<1>0. TypeOK /\ ledger[a] \in LedgerType /\ CommitsSent
  BY DEF Basis, IInv, TypeOK, Backed
<1>1. At(a, "votes", e) \subseteq VotesFor(e)
  BY <1>0 DEF At, VotesFor, LedgerType
<1>2. ASSUME NEW v \in VotesFor(e) PROVE v \in At(a, "votes", e)
  <2>0. v \in msgs /\ v.type = "vote" /\ v.epoch = e
    BY DEF VotesFor
  <2>1. Has(a, "votes", e, v.from)
    <3>1. CASE v.from = a
      BY <3>1 DEF OwnVote
    <3>2. CASE v.from # a
      <4>1. now > Begins(v.epoch) + SentIn(v.type) /\ Field(v.type) = "votes"
        BY <2>0 DEF SentIn, Field
      <4> QED BY <2>0, <3>2, <4>1 DEF Arrived
    <3> QED BY <3>1, <3>2
  <2>2. PICK k \in ledger[a].votes : k.epoch = e /\ k.from = v.from
    BY <2>1 DEF Has
  <2>3. k \in VotesFor(e)
    BY <2>2, <1>1 DEF At
  <2>4. k = v
    BY <2>2, <2>3, OneVote
  <2> QED BY <2>2, <2>4 DEF At
<1>3. At(a, "votes", e) = VotesFor(e)
  BY <1>1, <1>2
<1>4. ASSUME NEW r \in At(a, "commits", e) PROVE r \in CommitsTo(e)
  <2>1. VoteSent(r) /\ r.epoch = e
    BY <1>0 DEF At, CommitsSent
  <2> QED BY <2>1 DEF VoteSent, CommitsTo, VotesFor
<1>5. ASSUME NEW r \in CommitsTo(e) PROVE r \in At(a, "commits", e)
  <2>1. PICK v \in VotesFor(e) : r = v.commit
    BY DEF CommitsTo
  <2>2. v \in ledger[a].votes /\ r.epoch = e
    BY <1>2, <2>1, OneVote DEF At
  <2> QED BY <2>1, <2>2 DEF VotesKept, At
<1> QED BY <1>3, <1>4, <1>5

(* After the slot for reveals, it has the reveals of all that was committed to. *)
LEMMA RevealsIn ==
    ASSUME NEW a \in Authority, NEW e \in Nat, InRoundOf(a, e), now > Begins(e) + 2, now < Begins(e) + 5
    PROVE  At(a, "reveals", e) = CommitsTo(e)
<1> USE DEF InRoundOf
<1>0. TypeOK /\ ledger[a] \in LedgerType /\ now \in Nat /\ Begins(e) \in Int
  BY Slots DEF Basis, IInv, TypeOK
<1>1. ASSUME NEW r \in At(a, "reveals", e) PROVE r \in CommitsTo(e)
  <2>1. VoteSent(r) /\ r.epoch = e
    BY DEF At, VotesKept
  <2> QED BY <2>1 DEF VoteSent, CommitsTo, VotesFor
<1>2. ASSUME NEW r \in CommitsTo(e) PROVE r \in At(a, "reveals", e)
  <2>1. PICK v \in VotesFor(e) : r = v.commit
    BY DEF CommitsTo
  <2>2. r.epoch = e /\ v.from \in Authority
    BY <2>1, OneVote
  <2>3. CASE v.from = a
    <3>1. v \in ledger[a].votes
      BY <1>0, VotesIn DEF At
    <3> QED BY <2>1, <2>2, <2>3, <3>1 DEF VotesKept, At
  <2>4. CASE v.from # a
    <3>1. Takes(v.from, e) /\ now <= Begins(e) + Phase(state[v.from]) + 1
      BY VoterTakes
    <3>2. Phase(state[v.from]) >= SentIn("reveal")
      <4>1. Phase(state[v.from]) \in Int
        BY <1>0, <2>2, Slots DEF TypeOK
      <4> QED BY <1>0, <3>1, <4>1 DEF SentIn
    <3>3. Sent("reveal", v.from, e)
      BY <2>2, <3>1, <3>2 DEF Spoke
    <3>4. PICK m \in msgs : m.type = "reveal" /\ m.from = v.from /\ m.epoch = e
      BY <3>3 DEF Sent
    <3>5. now > Begins(m.epoch) + SentIn(m.type) /\ Field(m.type) = "reveals"
      BY <3>4 DEF SentIn, Field
    <3>6. Has(a, "reveals", e, v.from)
      BY <2>4, <3>4, <3>5 DEF Arrived
    <3>7. PICK k \in ledger[a].reveals : k.epoch = e /\ k.from = v.from
      BY <3>6 DEF Has
    <3>8. VoteSent(k)
      BY <3>7 DEF VotesKept
    <3>9. PICK w \in VotesFor(e) : w.from = v.from /\ w.commit = k
      BY <3>7, <3>8 DEF VoteSent, VotesFor
    <3>10. w = v
      BY <3>9, OneVote
    <3> QED BY <2>1, <3>7, <3>9, <3>10 DEF At
  <2> QED BY <2>3, <2>4
<1> QED BY <1>1, <1>2

(* A certificate of an untouched round carries all commits and all reveals of the *)
(* round.                                                                         *)
Certs ==
    \A m \in msgs : m.type = "cert" /\ Good(m.epoch) =>
        m.commits = CommitsTo(m.epoch) /\ m.reveals = CommitsTo(m.epoch)

(* Who has sent its certificate has it stored. *)
OwnCert ==
    \A a \in Authority, e \in Nat :
        Takes(a, e) /\ Good(e) /\ Phase(state[a]) >= 3 => Has(a, "certificates", e, a)

(* The mixes that a majority of the votes V lists. *)
MixesOf(V) == {m \in UNION Ballots : Cardinality({v \in V : m \in v.mixes}) >= Threshold}

(* All but one are a majority of three or more. *)
LEMMA AllButOne ==
    ASSUME Cardinality(Authority) >= 3, NEW S, IsFiniteSet(S), NEW x \in Authority,
           \A a \in Authority \ {x} : \E s \in S : s.from = a
    PROVE  Cardinality(S) \in Nat /\ Cardinality(S) >= Threshold /\ Threshold >= 2
<1> DEFINE f == [a \in Authority \ {x} |-> CHOOSE s \in S : s.from = a]
<1>1. ASSUME NEW a \in Authority \ {x} PROVE f[a] \in S /\ f[a].from = a
  OBVIOUS
<1>2. f \in [Authority \ {x} -> S]
  BY <1>1
<1>3. \A a, b \in Authority \ {x} : f[a] = f[b] => a = b
  BY <1>1
<1> HIDE DEF f
<1>4. f \in Injection(Authority \ {x}, S)
  BY <1>2, <1>3 DEF Injection, IsInjective
<1>5. Cardinality(Authority \ {x}) <= Cardinality(S)
  BY <1>4, FS_Injection
<1>6. Cardinality(Authority \ {x}) = Cardinality(Authority) - 1 /\ Cardinality(Authority) \in Nat
  BY AuthorityAssumption, FS_RemoveElement, FS_CardinalityType
<1>7. Cardinality(S) \in Nat
  BY FS_CardinalityType
<1>8. Threshold \in Int /\ Threshold <= Cardinality(Authority) - 1 /\ Threshold >= 2
  BY <1>6 DEF Threshold
<1> QED BY <1>5, <1>6, <1>7, <1>8

(* The votes on an epoch are finitely many. *)
LEMMA FiniteVotes ==
    ASSUME Bounded, NEW e
    PROVE  IsFiniteSet(VotesFor(e))
<1>1. VotesFor(e) \subseteq msgs /\ IsFiniteSet(msgs)
  BY DEF Bounded, VotesFor
<1> QED BY <1>1, FS_Subset

(* So is what they commit to. *)
LEMMA FiniteCommits ==
    ASSUME Bounded, NEW e
    PROVE  IsFiniteSet(CommitsTo(e))
<1> DEFINE f == [v \in VotesFor(e) |-> v.commit]
<1>1. f \in [VotesFor(e) -> CommitsTo(e)] /\ \A c \in CommitsTo(e) : \E v \in VotesFor(e) : f[v] = c
  BY DEF CommitsTo
<1>2. f \in Surjection(VotesFor(e), CommitsTo(e))
  BY <1>1 DEF Surjection
<1> QED BY <1>2, FiniteVotes, FS_Surjection

(* The votes of a round are a majority, and so is what they commit to. *)
LEMMA EnoughVote ==
    ASSUME Cardinality(Authority) >= 3, Basis, Bounded, Quorum, NEW e \in Nat, e >= First,
           now >= Begins(e) + 2
    PROVE  /\ Cardinality(VotesFor(e)) >= Threshold
           /\ Cardinality(CommitsTo(e)) >= Threshold
           /\ Cardinality(CommitsTo(e)) \in Nat /\ Threshold >= 2
           /\ VotesFor(e) # {}
<1>1. PICK x \in Authority : \A a \in Authority \ {x} : Sent("vote", a, e)
  BY DEF Quorum
<1>2. \A a \in Authority \ {x} : \E v \in VotesFor(e) : v.from = a
  BY <1>1 DEF Sent, VotesFor
<1>3. \A a \in Authority \ {x} : \E c \in CommitsTo(e) : c.from = a
  BY <1>2, OneVote DEF CommitsTo
<1>4. Cardinality(VotesFor(e)) >= Threshold
  BY <1>2, FiniteVotes, AllButOne
<1>5. /\ Cardinality(CommitsTo(e)) >= Threshold /\ Cardinality(CommitsTo(e)) \in Nat
      /\ Threshold >= 2
  BY <1>3, FiniteCommits, AllButOne
<1>6. VotesFor(e) # {}
  <2> SUFFICES ASSUME VotesFor(e) = {} PROVE FALSE
    OBVIOUS
  <2>1. CommitsTo(e) = {}
    BY DEF CommitsTo
  <2>2. Cardinality(CommitsTo(e)) = 0
    BY <2>1, FS_EmptySet
  <2>3. Threshold \in Int
    BY AuthorityAssumption, FS_CardinalityType DEF Threshold
  <2> QED BY <1>5, <2>2, <2>3
<1> QED BY <1>4, <1>5, <1>6

(* The tally of a round: the mixes a majority of the votes lists, at least the common *)
(* one.                                                                               *)
LEMMA Tally ==
    ASSUME \E x : \A mixes \in Ballots : x \in mixes, Cardinality(Authority) >= 3, Quorum, InSlot,
           NEW a \in Authority, NEW e \in Nat, InRoundOf(a, e), now >= Begins(e) + 2
    PROVE  /\ CanTally(a, e)
           /\ tallyVotes(a, e) = MixesOf(VotesFor(e)) /\ tallyVotes(a, e) # {}
           /\ Cardinality(CommitsTo(e)) >= Threshold
           /\ Cardinality(CommitsTo(e)) \in Nat /\ Threshold >= 2
           /\ VotesFor(e) # {}
<1>0. Basis /\ Bounded /\ e >= First
  <2>1. a \in up /\ votingEpoch[a] = e /\ state[a] # "bootstrap"
    BY DEF InRoundOf, Takes, Phase
  <2> QED BY <2>1 DEF InRoundOf, InSlot
<1>1. At(a, "votes", e) = VotesFor(e)
  <2>1. now > Begins(e) + 1
    BY <1>0, Slots DEF Basis, IInv, TypeOK
  <2> QED BY <2>1, VotesIn
<1>2. /\ Cardinality(VotesFor(e)) >= Threshold /\ VotesFor(e) # {}
      /\ Cardinality(CommitsTo(e)) >= Threshold
      /\ Cardinality(CommitsTo(e)) \in Nat /\ Threshold >= 2
  BY <1>0, EnoughVote
<1>3. tallyVotes(a, e) = MixesOf(VotesFor(e))
  BY <1>1 DEF tallyVotes, MixesOf, Voters
<1>4. MixesOf(VotesFor(e)) # {}
  <2>1. PICK x : \A mixes \in Ballots : x \in mixes
    OBVIOUS
  <2>2. \A v \in VotesFor(e) : v.mixes \in Ballots
    BY <1>0 DEF Bounded, VotesFor
  <2>3. x \in UNION Ballots
    BY <1>2, <2>1, <2>2
  <2>4. {v \in VotesFor(e) : x \in v.mixes} = VotesFor(e)
    BY <2>1, <2>2
  <2> QED BY <1>2, <2>3, <2>4 DEF MixesOf
<1> QED BY <1>1, <1>2, <1>3, <1>4 DEF CanTally

(* At the end of the slot for reveals everyone in the round sends the same certificate. *)
LEMMA CertSent ==
    ASSUME \E x : \A mixes \in Ballots : x \in mixes, Cardinality(Authority) >= 3, Quorum, InSlot,
           NEW a \in Authority, NEW e \in Nat, InRoundOf(a, e), now = Begins(e) + 3, Epoch = e - 1,
           e = votingEpoch[a], FsmAcceptReveal(a)
    PROVE  Sent("cert", a, e)' /\ Has(a, "certificates", e, a)'
<1>0. /\ now >= Begins(e) + 2 /\ now > Begins(e) + 2 /\ now < Begins(e) + 5 /\ now > Begins(e) + 1
      /\ TypeOK /\ ledger \in [Authority -> LedgerType] /\ ledger[a] \in LedgerType
  BY Slots DEF InRoundOf, Basis, IInv, TypeOK
<1>1. At(a, "commits", e) = CommitsTo(e) /\ At(a, "reveals", e) = CommitsTo(e)
  BY <1>0, VotesIn, RevealsIn
<1>2. WellFormedCertificate(tallyVotes(a, e), At(a, "commits", e), At(a, "reveals", e))
  <2>1. tallyVotes(a, e) # {} /\ Cardinality(CommitsTo(e)) >= Threshold /\ Threshold >= 2
    BY <1>0, Tally
  <2>a. Cardinality(CommitsTo(e)) \in Nat
    BY <1>0, Tally
  <2>b. Threshold \in Int
    BY AuthorityAssumption, FS_CardinalityType DEF Threshold
  <2>2. Cardinality(CommitsTo(e)) \in Nat /\ Threshold \in Int
    BY <2>a, <2>b
  <2>3. Cardinality(CommitsTo(e)) # 1
    BY <2>1, <2>2
  <2> QED BY <1>1, <2>1, <2>3 DEF WellFormedCertificate
<1>3. CanTally(a, e)
  BY <1>0, Tally
<1>4. PICK cert : cert = [type |-> "cert", from |-> a, epoch |-> e,
                          commits |-> At(a, "commits", e), reveals |-> At(a, "reveals", e)]
  OBVIOUS
<1>5. PICK new :
         /\ new = IF Has(a, "certificates", e, a) THEN {} ELSE {cert}
         /\ ledger' = [ledger EXCEPT ![a] = Prune([ledger[a] EXCEPT
                     !.certificates = ledger[a].certificates \cup new])]
         /\ msgs' = msgs \cup new
  BY <1>2, <1>3, <1>4 DEF FsmAcceptReveal
<1>6. ledger'[a].certificates = Kept(ledger[a].certificates \cup new)
  <2> DEFINE l == [ledger[a] EXCEPT !.certificates = ledger[a].certificates \cup new]
  <2>1. l.certificates = ledger[a].certificates \cup new
    BY <1>0 DEF LedgerType
  <2>2. ledger'[a] = Prune(l)
    BY <1>0, <1>5
  <2> HIDE DEF l
  <2> QED BY <2>1, <2>2 DEF Prune, LedgerFields
<1>7. cert.type = "cert" /\ cert.from = a /\ cert.epoch = e
  BY <1>4
<1>8. PICK c \in ledger[a].certificates \cup new : c.from = a /\ c.epoch = e
  BY <1>5, <1>7 DEF Has
<1>9. c \in ledger'[a].certificates
  BY <1>6, <1>8 DEF Kept, PreserveForPastEpochs
<1>10. c \in msgs' /\ c.type = "cert"
  BY <1>0, <1>5, <1>7, <1>8 DEF LedgerType
<1> QED BY <1>8, <1>9, <1>10 DEF Has, Sent

(* What the certificates of a round say. *)
LEMMA CertsIn ==
    ASSUME Certs, OwnCert,
           NEW a \in Authority, NEW e \in Nat, InRoundOf(a, e), now > Begins(e) + 3, now < Begins(e) + 5,
           Phase(state[a]) >= 3
    PROVE  /\ \A v \in VotesFor(e) : \E c \in At(a, "certificates", e) : c.from = v.from
           /\ \A c \in At(a, "certificates", e) :
                 CertCommits(a, c) = CommitsTo(e) /\ CertReveals(a, c) = CommitsTo(e)
<1>0. /\ now > Begins(e) + 2 /\ now > Begins(e) + 1 /\ now \in Nat /\ Begins(e) \in Int
      /\ TypeOK /\ ledger[a] \in LedgerType
  BY Slots DEF InRoundOf, Basis, IInv, TypeOK
<1>1. At(a, "commits", e) = CommitsTo(e) /\ At(a, "reveals", e) = CommitsTo(e)
  BY <1>0, VotesIn, RevealsIn
<1>2. ASSUME NEW c \in At(a, "certificates", e)
      PROVE  CertCommits(a, c) = CommitsTo(e) /\ CertReveals(a, c) = CommitsTo(e)
  <2>1. c \in msgs /\ c.type = "cert" /\ c.epoch = e
    BY <1>0 DEF At, LedgerType
  <2>2. c.commits = CommitsTo(e) /\ c.reveals = CommitsTo(e)
    BY <2>1 DEF Certs, InRoundOf
  <2> QED BY <1>1, <2>1, <2>2 DEF CertCommits, CertReveals
<1>3. ASSUME NEW v \in VotesFor(e)
      PROVE  \E c \in At(a, "certificates", e) : c.from = v.from
  <2>1. Has(a, "certificates", e, v.from)
    <3>1. CASE v.from = a
      BY <3>1 DEF OwnCert, InRoundOf
    <3>2. CASE v.from # a
      <4>1. v.from \in Authority /\ Takes(v.from, e) /\ now <= Begins(e) + Phase(state[v.from]) + 1
        BY VoterTakes DEF InRoundOf
      <4>2. Phase(state[v.from]) >= SentIn("cert")
        <5>1. Phase(state[v.from]) \in Int
          BY <1>0, <4>1, Slots DEF TypeOK
        <5> QED BY <1>0, <4>1, <5>1 DEF SentIn
      <4>3. Sent("cert", v.from, e)
        BY <4>1, <4>2 DEF Spoke, InRoundOf
      <4>4. PICK m \in msgs : m.type = "cert" /\ m.from = v.from /\ m.epoch = e
        BY <4>3 DEF Sent
      <4>5. now > Begins(m.epoch) + SentIn(m.type) /\ Field(m.type) = "certificates"
        BY <4>4 DEF SentIn, Field
      <4> QED BY <3>2, <4>4, <4>5 DEF Arrived, InRoundOf
    <3> QED BY <3>1, <3>2
  <2> QED BY <2>1 DEF Has, At
<1> QED BY <1>2, <1>3

(* What the certificates verify in common is what the votes committed to. *)
LEMMA AllVerified ==
    ASSUME Certs, OwnCert, NEW a \in Authority, NEW e \in Nat, InRoundOf(a, e),
           now > Begins(e) + 3, now < Begins(e) + 5, Phase(state[a]) >= 3, VotesFor(e) # {},
           NEW commits \in verifyCommits(a, e)
    PROVE  commits = CommitsTo(e)
<1> DEFINE certs == At(a, "certificates", e)
           bad   == {c.from : c \in {c \in certs : ~Complete(a, c)}}
           Honest(S) == {k \in S : k.from \notin bad /\ ~Equivocates(k, S)}
<1>1. PICK f \in [certs -> UNION {Contribution(a, c) : c \in certs}] :
         /\ \A c \in certs : f[c] \in Contribution(a, c)
         /\ commits = Honest(UNION {f[c] : c \in certs})
    BY DEF verifyCommits
<1>2. /\ \A c \in certs : CertCommits(a, c) = CommitsTo(e) /\ CertReveals(a, c) = CommitsTo(e)
      /\ certs # {}
  BY CertsIn
<1>3. \A c \in certs : Complete(a, c) /\ Contribution(a, c) = {CommitsTo(e)}
  BY <1>2 DEF Complete, Contribution
<1>4. bad = {}
  BY <1>3
<1>5. \A c \in certs : f[c] = CommitsTo(e)
  BY <1>1, <1>3
<1> HIDE DEF certs, bad
<1>6. UNION {f[c] : c \in certs} = CommitsTo(e)
  BY <1>2, <1>5
<1>7. commits = Honest(CommitsTo(e))
  BY <1>1, <1>6
<1>8. \A k \in CommitsTo(e) : ~Equivocates(k, CommitsTo(e))
  BY OneVote DEF Equivocates, CommitsTo, InRoundOf
<1> QED BY <1>4, <1>7, <1>8

(* That is a majority, and everyone in the round can compute the document. *)
LEMMA EnoughVerified ==
    ASSUME Cardinality(Authority) >= 3, Quorum, InSlot, Certs, OwnCert,
           NEW a \in Authority, NEW e \in Nat, InRoundOf(a, e), e >= First,
           now > Begins(e) + 3, now < Begins(e) + 5, Phase(state[a]) >= 3
    PROVE  Enough(a, e, CommitsTo(e))
<1>0. Basis /\ Bounded /\ now >= Begins(e) + 2 /\ TypeOK /\ ledger[a] \in LedgerType
  BY Slots DEF InRoundOf, Basis, IInv, TypeOK
<1>1. PICK x \in Authority : \A p \in Authority \ {x} : Sent("vote", p, e)
  BY <1>0 DEF Quorum
<1>2. \A p \in Authority \ {x} : \E v \in VotesFor(e) : v.from = p
  BY <1>1 DEF Sent, VotesFor
<1>3. \A p \in Authority \ {x} : \E c \in At(a, "certificates", e) : c.from = p
  BY <1>2, CertsIn
<1>4. IsFiniteSet(At(a, "certificates", e))
  <2>1. At(a, "certificates", e) \subseteq msgs
    BY <1>0 DEF At, LedgerType
  <2> QED BY <1>0, <2>1, FS_Subset DEF Bounded
<1>5. Cardinality(At(a, "certificates", e)) >= Threshold
  BY <1>3, <1>4, AllButOne
<1>6. Cardinality(CommitsTo(e)) >= Threshold
  BY <1>0, EnoughVote
<1> QED BY <1>5, <1>6 DEF Enough

-----------------------------------------------------------------------------
(* The document of an untouched round: what its votes and the last document make of it. *)

(* The document of the last epoch, if it has one: B is the set of them, of at most one. *)
LastOf(B) == CHOOSE b \in B : TRUE

(* The genesis epoch of the document for e. *)
GenesisOf(e, B) == IF B = {} THEN e ELSE LastOf(B).genesis

(* The shared random value of the votes V after the document in B. *)
RandomOf(e, V, B) ==
    [epoch |-> e, reveals |-> {v.commit : v \in V},
     prev  |-> IF B = {} THEN <<>> ELSE <<LastOf(B).srv>>]

(* The weekly rotation of the prior shared random values. *)
Turned(e, p, srv) == IF e % WeekOfEpochs = 0 THEN <<srv, p[1]>> ELSE p

(* The prior values that getCertificate() leaves, and those that getMyConsensus() puts *)
(* in the document.                                                                    *)
CertPriorOf(e, B) ==
    IF LastOf(B).prior = <<>> THEN <<ZeroSRV, ZeroSRV>> ELSE Turned(e, LastOf(B).prior, ZeroSRV)

PriorOf(e, V, B) ==
    IF e = GenesisOf(e, B) THEN <<RandomOf(e, V, B), RandomOf(e, V, B)>>
                           ELSE Turned(e, CertPriorOf(e, B), RandomOf(e, V, B))

(* The document that the votes V on epoch e and the last document make. *)
BodyOf(e, V, B) ==
    [epoch |-> e, genesis |-> GenesisOf(e, B), mixes |-> MixesOf(V),
     srv |-> RandomOf(e, V, B), prior |-> PriorOf(e, V, B)]

(* The documents of epoch e, and the document that an untouched round makes. *)
Bodies(e) == {d.body : d \in {d \in published : d.epoch = e}}

TheBody(e) == BodyOf(e, VotesFor(e), Bodies(e - 1))

(* Before any crash, who waits for or takes part in a later round has the last *)
(* document.                                                                   *)
Hold ==
    \A a \in Authority, e \in Nat :
        /\ crashes = 0 /\ e > First
        /\ a \in up /\ state[a] # "bootstrap" /\ votingEpoch[a] = e
        => \E d \in ledger[a].documents : d.epoch = e - 1

(* In an untouched round fsm() keeps the genesis epoch and the prior values of the last *)
(* document.                                                                            *)
PriorsKnown ==
    \A a \in Authority, e \in Nat : Takes(a, e) /\ Good(e) =>
        /\ Phase(state[a]) <= 3 => genesisEpoch[a] = GenesisOf(e, Bodies(e - 1))
        /\ Bodies(e - 1) # {} =>
              /\ Phase(state[a]) <= 2 => priorSRV[a] = LastOf(Bodies(e - 1)).prior
              /\ Phase(state[a]) = 3 => priorSRV[a] = CertPriorOf(e, Bodies(e - 1))

(* A signature of an untouched round is on the document of that round. *)
Sigs == \A m \in msgs : m.type = "sig" /\ Good(m.epoch) => m.body = TheBody(m.epoch)

(* Who has sent its signature has that document as its own. *)
OwnSig ==
    \A a \in Authority, e \in Nat :
        Takes(a, e) /\ Good(e) /\ Phase(state[a]) = 4 => TheBody(e) \in ledger[a].myconsensus

(* The last document is the only one of its epoch, and who is in a round that no crash *)
(* has touched holds it.                                                               *)
LEMMA LastDocument ==
    ASSUME Basis, InSlot, Hold, NEW a \in Authority, NEW e \in Nat, Good(e),
           a \in up, state[a] # "bootstrap", votingEpoch[a] = e
    PROVE  /\ \A d \in At(a, "documents", e - 1) :
                 d.body = LastOf(Bodies(e - 1)) /\ Bodies(e - 1) # {}
           /\ At(a, "documents", e - 1) = {} => Bodies(e - 1) = {}
<1>0. TypeOK /\ ledger[a] \in LedgerType /\ Agreement
  BY Agree DEF Basis, IInv, TypeOK
<1>1. \A b, c \in Bodies(e - 1) : b = c
  BY <1>0 DEF Bodies, Agreement
<1>2. ASSUME NEW d \in At(a, "documents", e - 1)
      PROVE  d.body = LastOf(Bodies(e - 1)) /\ Bodies(e - 1) # {}
  <2>1. d.body \in Bodies(e - 1)
    BY <1>0 DEF At, Bodies, LedgerType
  <2>2. LastOf(Bodies(e - 1)) \in Bodies(e - 1)
    BY <2>1 DEF LastOf
  <2> QED BY <1>1, <2>1, <2>2
<1>3. ASSUME Bodies(e - 1) # {} PROVE At(a, "documents", e - 1) # {}
  <2>1. PICK d \in published : d.epoch = e - 1
    BY <1>3 DEF Bodies
  <2>2. crashes = 0
    BY <2>1 DEF Good, Decided
  <2>3. e > First
    <3>1. d.epoch >= First /\ First \in Int
      BY <2>1, TimeAssumption DEF InSlot, First, EpochAt, SlotsPerEpoch
    <3> QED BY <2>1, <3>1
  <2> QED BY <2>2, <2>3 DEF Hold, At
<1> QED BY <1>2, <1>3

(* At the end of the slot for certificates everyone in the round signs the same *)
(* document.                                                                    *)
LEMMA SigSent ==
    ASSUME \E x : \A mixes \in Ballots : x \in mixes, Cardinality(Authority) >= 3, Quorum, InSlot,
           Certs, OwnCert, Hold, PriorsKnown,
           NEW a \in Authority, NEW e \in Nat, InRoundOf(a, e), now = Begins(e) + 4, Epoch = e - 1,
           FsmAcceptCert(a)
    PROVE  \E b : /\ b = TheBody(e) /\ b \in ledger'[a].myconsensus
                  /\ msgs' = msgs \cup {[type |-> "sig", from |-> a, epoch |-> e, body |-> b]}
<1>0. /\ now >= Begins(e) + 2 /\ now > Begins(e) + 3 /\ now < Begins(e) + 5
      /\ TypeOK /\ Basis /\ ledger \in [Authority -> LedgerType] /\ ledger[a] \in LedgerType
      /\ Good(e) /\ Takes(a, e)
  BY Slots DEF InRoundOf, Basis, IInv, TypeOK
<1>1. /\ votingEpoch[a] = e /\ a \in up /\ state[a] = "accept_cert" /\ Phase(state[a]) = 3
      /\ state[a] # "bootstrap"
  BY <1>0 DEF Takes, FsmAcceptCert, Due, Phase
<1>2. e >= First
  BY <1>1 DEF InSlot
<1>3. /\ CanTally(a, e) /\ tallyVotes(a, e) = MixesOf(VotesFor(e)) /\ tallyVotes(a, e) # {}
      /\ VotesFor(e) # {}
  BY <1>0, Tally
<1>4. Enough(a, e, CommitsTo(e))
  BY <1>0, <1>1, <1>2, EnoughVerified
<1>5. \A commits \in verifyCommits(a, e) : commits = CommitsTo(e)
  BY <1>0, <1>1, <1>3, AllVerified
<1> DEFINE srv == computeSharedRandom(a, e, CommitsTo(e))
           prior == ConsensusPriorSRV(a, e, srv)
           b == Body(a, e, tallyVotes(a, e), srv, prior)
<1>6. /\ ledger' = [ledger EXCEPT ![a] = Prune([ledger[a] EXCEPT
                            !.myconsensus = ledger[a].myconsensus \cup {b}])]
      /\ msgs' = msgs \cup {[type |-> "sig", from |-> a, epoch |-> e, body |-> b]}
  <2> DEFINE K(q, c) ==
               IF Enough(a, q, c) /\ CanTally(a, q) /\ tallyVotes(a, q) # {}
               THEN {Body(a, q, tallyVotes(a, q), computeSharedRandom(a, q, c),
                          ConsensusPriorSRV(a, q, computeSharedRandom(a, q, c)))} ELSE {}
  <2>0. PICK c \in verifyCommits(a, votingEpoch[a]) :
           /\ ledger' = [ledger EXCEPT ![a] = Prune([ledger[a] EXCEPT
                            !.myconsensus = ledger[a].myconsensus \cup K(votingEpoch[a], c)])]
           /\ msgs' = msgs \cup {[type |-> "sig", from |-> a, epoch |-> votingEpoch[a], body |-> k] :
                                    k \in K(votingEpoch[a], c)}
    BY DEF FsmAcceptCert
  <2>1. /\ ledger' = [ledger EXCEPT ![a] = Prune([ledger[a] EXCEPT
                            !.myconsensus = ledger[a].myconsensus \cup K(e, c)])]
        /\ msgs' = msgs \cup {[type |-> "sig", from |-> a, epoch |-> e, body |-> k] : k \in K(e, c)}
        /\ c \in verifyCommits(a, e)
    <3> HIDE DEF K
    <3> QED BY <1>1, <2>0
  <2>2. c = CommitsTo(e)
    BY <1>5, <2>1
  <2>3. K(e, c) = {b}
    BY <1>3, <1>4, <2>2
  <2> HIDE DEF K, b
  <2> QED BY <2>1, <2>3
<1>7. b = TheBody(e)
  <2> DEFINE B == Bodies(e - 1)
             V == VotesFor(e)
             D == At(a, "documents", e - 1)
  <2>1. /\ \A d \in D : d.body = LastOf(B) /\ B # {}
        /\ D = {} => B = {}
    BY <1>0, <1>1, LastDocument
  <2>2. srv = RandomOf(e, V, B)
    <3>1. CASE D = {}
      BY <2>1, <3>1 DEF computeSharedRandom, RandomOf, CommitsTo
    <3>2. CASE D # {}
      <4>1. (CHOOSE d \in D : TRUE) \in D
        BY <3>2
      <4>2. (CHOOSE d \in D : TRUE).body = LastOf(B) /\ B # {}
        BY <2>1, <4>1
      <4> HIDE DEF D, B
      <4>3. srv = [epoch |-> e, reveals |-> CommitsTo(e), prev |-> <<(CHOOSE d \in D : TRUE).body.srv>>]
        BY <3>2 DEF computeSharedRandom, D
      <4>4. RandomOf(e, V, B) = [epoch |-> e, reveals |-> CommitsTo(e), prev |-> <<LastOf(B).srv>>]
        BY <4>2 DEF RandomOf, CommitsTo
      <4> QED BY <4>2, <4>3, <4>4
    <3> QED BY <3>1, <3>2
  <2>3. genesisEpoch[a] = GenesisOf(e, B)
    BY <1>0, <1>1 DEF PriorsKnown
  <2>4. B # {} => priorSRV[a] = CertPriorOf(e, B)
    BY <1>0, <1>1 DEF PriorsKnown
  <2> HIDE DEF B, V, D, srv
  <2>5. prior = PriorOf(e, V, B)
    <3>1. CASE B = {}
      BY <2>2, <2>3, <3>1 DEF ConsensusPriorSRV, PriorOf, GenesisOf
    <3>2. CASE B # {}
      BY <2>2, <2>3, <2>4, <3>2 DEF ConsensusPriorSRV, Rotate, PriorOf, Turned
    <3> QED BY <3>1, <3>2
  <2>6. tallyVotes(a, e) = MixesOf(V)
    BY <1>3 DEF V
  <2> HIDE DEF prior
  <2>7. b = BodyOf(e, V, B)
    BY <2>2, <2>3, <2>5, <2>6 DEF Body, BodyOf
  <2> QED BY <2>7 DEF TheBody, V, B
<1>8. b \in ledger'[a].myconsensus
  <2>0. b.epoch = e
    BY DEF Body
  <2> HIDE DEF b
  <2> DEFINE l == [ledger[a] EXCEPT !.myconsensus = ledger[a].myconsensus \cup {b}]
  <2>1. l.myconsensus = ledger[a].myconsensus \cup {b}
    BY <1>0 DEF LedgerType
  <2>2. ledger'[a] = Prune(l)
    BY <1>0, <1>6
  <2> HIDE DEF l
  <2> QED BY <2>0, <2>1, <2>2 DEF Prune, LedgerFields, Kept, PreserveForPastEpochs
<1> HIDE DEF b
<1> QED BY <1>6, <1>7, <1>8

(* At the end of such a round everyone has a majority for its own document. *)
LEMMA Majorities ==
    ASSUME Cardinality(Authority) >= 3, Quorum, InSlot, Sigs, OwnSig,
           NEW a \in Authority, NEW e \in Nat, InRoundOf(a, e), now = Begins(e) + 5,
           Phase(state[a]) = 4
    PROVE  ThresholdConsensus(a, e) # {} /\ Sent("sig", a, e)
<1>0. /\ now >= Begins(e) + 2 /\ now > Begins(e) + 4
      /\ TypeOK /\ Basis /\ ledger[a] \in LedgerType
      /\ Good(e) /\ Takes(a, e)
  BY Slots DEF InRoundOf, Basis, IInv, TypeOK
<1>1. e >= First
  BY <1>0 DEF InSlot, Takes, Phase
<1>2. PICK b : b = TheBody(e)
  OBVIOUS
<1>3. b \in At(a, "myconsensus", e)
  <2>1. b \in ledger[a].myconsensus
    BY <1>0, <1>2 DEF OwnSig
  <2>2. b.epoch = e
    BY <1>2 DEF TheBody, BodyOf
  <2> QED BY <2>1, <2>2 DEF At
<1>4. ASSUME NEW v \in VotesFor(e) PROVE v.from \in Signers(a, b)
  <2>1. CASE v.from = a
    BY <2>1 DEF Signers
  <2>2. CASE v.from # a
    <3>0. v \in msgs /\ v.type = "vote" /\ v.epoch = e /\ v.commit.nonce = crashes /\ v.from \in Authority
      BY <1>0 DEF VotesFor, Good, Clean, TypeOK
    <3>1. Sent("sig", v.from, e)
      <4>1. CASE Takes(v.from, e)
        <5>1. v.from \in up /\ votingEpoch[v.from] = e /\ state[v.from] # "bootstrap"
          BY <4>1 DEF Takes, Phase
        <5>2. now <= Begins(e) + Phase(state[v.from]) + 1 /\ Phase(state[v.from]) \in 0..4
          BY <1>0, <5>1, Timer
        <5>3. Phase(state[v.from]) >= SentIn("sig")
          <6>1. Begins(e) \in Int
            BY Slots
          <6> QED BY <1>0, <5>2, <6>1 DEF SentIn
        <5> QED BY <1>0, <3>0, <4>1, <5>3 DEF Spoke, InRoundOf
      <4>2. CASE ~Takes(v.from, e)
        BY <1>0, <3>0, <4>2 DEF Stay, InRoundOf
      <4> QED BY <4>1, <4>2
    <3>2. PICK m \in msgs : m.type = "sig" /\ m.from = v.from /\ m.epoch = e
      BY <3>1 DEF Sent
    <3>3. now > Begins(m.epoch) + SentIn(m.type) /\ Field(m.type) = "signatures"
      BY <1>0, <3>2 DEF SentIn, Field
    <3>4. Has(a, "signatures", e, v.from)
      BY <1>0, <2>2, <3>2, <3>3 DEF Arrived, InRoundOf
    <3>5. PICK k \in ledger[a].signatures : k.epoch = e /\ k.from = v.from
      BY <3>4 DEF Has
    <3>6. k.body = b
      BY <1>0, <1>2, <3>5 DEF LedgerType, Sigs
    <3> QED BY <3>5, <3>6 DEF Signers
  <2> QED BY <2>1, <2>2
<1>5. Cardinality(Signers(a, b)) >= Threshold
  <2>1. PICK x \in Authority : \A p \in Authority \ {x} : Sent("vote", p, e)
    BY <1>0, <1>1 DEF Quorum
  <2>2. \A p \in Authority \ {x} : p \in Signers(a, b)
    BY <1>4, <2>1 DEF Sent, VotesFor
  <2>3. Signers(a, b) \subseteq Authority
    BY <1>0 DEF Signers, TypeOK, LedgerType
  <2> HIDE DEF Signers
  <2>4. IsFiniteSet(Signers(a, b))
    BY <2>3, AuthorityAssumption, FS_Subset
  <2>5. Authority \ {x} \subseteq Signers(a, b)
    BY <2>2
  <2>6. Cardinality(Authority \ {x}) <= Cardinality(Signers(a, b))
    BY <2>4, <2>5, FS_Subset
  <2>7. Cardinality(Authority \ {x}) \in Nat /\ Cardinality(Authority \ {x}) >= Threshold /\ Cardinality(Signers(a, b)) \in Nat
        /\ Threshold \in Int
    <3>1. Cardinality(Authority \ {x}) = Cardinality(Authority) - 1 /\ Cardinality(Authority) \in Nat
      BY AuthorityAssumption, FS_RemoveElement, FS_CardinalityType
    <3>2. Cardinality(Signers(a, b)) \in Nat
      BY <2>4, FS_CardinalityType
    <3> QED BY <3>1, <3>2 DEF Threshold
  <2> QED BY <2>6, <2>7
<1>6. ThresholdConsensus(a, e) # {}
  BY <1>3, <1>5 DEF ThresholdConsensus
<1>7. Sent("sig", a, e)
  BY <1>0 DEF Spoke, SentIn, InRoundOf
<1> QED BY <1>6, <1>7

(* Before any crash, all authorities begin with the first epoch. *)
StartWake ==
    crashes = 0 => \A a \in Authority : a \in up /\ state[a] = "bootstrap" => wake[a] = StartTime

(* Votes before the crash are about epochs that follow one with a document. *)
PastVotes ==
    \A v \in msgs : v.type = "vote" /\ v.commit.nonce = 0 /\ v.epoch > First => Decided(v.epoch - 1)

(* Who takes part in the rounds and what reaches them. *)
Rounds ==
    /\ Basis /\ Bounded /\ InSlot
    /\ VotesKept /\ SentReveals /\ OwnVote /\ Voted
    /\ Present /\ Quorum /\ Stay /\ Arrived /\ Spoke

(* What everyone in an untouched round has in common. *)
CommonView ==
    /\ Certs /\ OwnCert /\ Hold /\ PriorsKnown /\ Sigs /\ OwnSig
    /\ StartWake /\ PastVotes

(* How an authority comes to be in a round that no crash has touched. *)
LEMMA GoodRound ==
    ASSUME Rounds, [Next]_vars, OwnVote', Voted',
           NEW a \in Authority, NEW e \in Nat, Takes(a, e)', Good(e)'
    PROVE  /\ crashes' = crashes /\ Good(e) /\ Epoch = e - 1 /\ a \in up /\ votingEpoch[a] = e
           /\ \/ /\ FsmAcceptDescriptor(a) /\ Phase(state'[a]) = 1
                 /\ now = Begins(e) + 1 /\ now' = now
              \/ /\ InRoundOf(a, e) /\ ~FsmAcceptDescriptor(a)
                 /\ \/ Same(a)
                    \/ FsmAcceptVote(a) /\ now = Begins(e) + 2 /\ Phase(state[a]) = 1 /\ Phase(state'[a]) = 2
                    \/ FsmAcceptReveal(a) /\ now = Begins(e) + 3 /\ Phase(state[a]) = 2 /\ Phase(state'[a]) = 3
                    \/ FsmAcceptCert(a) /\ now = Begins(e) + 4 /\ Phase(state[a]) = 3 /\ Phase(state'[a]) = 4
<1> USE DEF Rounds
<1>1. crashes' = crashes
  <2>1. ASSUME NEW b \in Authority, Crash(b) PROVE FALSE
    BY <2>1, CrashTouches
  <2> QED BY <2>1, CrashOrNot DEF Basis, IInv
<1>2. Good(e)
  BY <1>1, GoodBefore
<1>3. Epoch = e - 1 /\ a \in up /\ votingEpoch[a] = e
  BY RoundBefore
<1>4. CASE FsmAcceptDescriptor(a)
  BY <1>1, <1>2, <1>3, <1>4, RoundBefore
<1>5. CASE ~FsmAcceptDescriptor(a)
  <2>1. Takes(a, e) /\ (Same(a) \/ Enters(a))
    BY <1>5, RoundBefore
  <2>2. InRoundOf(a, e)
    BY <1>2, <2>1 DEF InRoundOf
  <2>3. CASE Enters(a)
    BY <1>1, <1>2, <1>3, <1>5, <2>2, <2>3 DEF Enters, FsmAcceptVote, FsmAcceptReveal, FsmAcceptCert, Due, Phase
  <2> QED BY <1>1, <1>2, <1>3, <1>5, <2>1, <2>2, <2>3
<1> QED BY <1>4, <1>5

(* After the slot for votes, the votes of the round are settled. *)
LEMMA VotesSame ==
    ASSUME Basis, [Next]_vars, NEW e \in Nat, now > Begins(e) + 1
    PROVE  VotesFor(e)' = VotesFor(e) /\ CommitsTo(e)' = CommitsTo(e)
<1>1. msgs \subseteq msgs'
  BY NewMessages DEF Basis, IInv
<1>2. ASSUME NEW m \in msgs' \ msgs, m.type = "vote", m.epoch = e PROVE FALSE
  <2>1. now = Begins(e) + SentIn("vote") /\ now \in Nat /\ Begins(e) \in Int
    BY <1>2, SenderTakes, Slots DEF Basis, IInv, TypeOK
  <2> QED BY <2>1 DEF SentIn
<1>3. VotesFor(e)' = VotesFor(e)
  BY <1>1, <1>2 DEF VotesFor
<1> QED BY <1>3 DEF CommitsTo

(* When a round begins, the documents of the epoch before are settled. *)
LEMMA BodiesSame ==
    ASSUME Basis, [Next]_vars, NEW e \in Nat, now >= Begins(e)
    PROVE  Bodies(e - 1)' = Bodies(e - 1)
<1>1. published \subseteq published'
  BY PublishedGrows
<1>2. ASSUME NEW d \in published' \ published, d.epoch = e - 1 PROVE FALSE
  <2>1. now = Begins(e - 1) + 5 /\ now \in Nat
    BY <1>2, NewlyPublished DEF Basis, IInv, TypeOK
  <2> QED BY <2>1, Slots
<1> QED BY <1>1, <1>2 DEF Bodies

(* So is the document that the round makes. *)
LEMMA BodySame ==
    ASSUME Basis, [Next]_vars, NEW e \in Nat, now > Begins(e) + 1
    PROVE  TheBody(e)' = TheBody(e)
<1>1. VotesFor(e)' = VotesFor(e) /\ Bodies(e - 1)' = Bodies(e - 1)
  <2>1. now >= Begins(e)
    BY Slots DEF Basis, IInv, TypeOK
  <2> QED BY <2>1, VotesSame, BodiesSame
<1> QED BY <1>1 DEF TheBody

(* What has been sent stays sent. *)
LEMMA SentKeeps ==
    ASSUME Basis, [Next]_vars, NEW t, NEW a, NEW e, Sent(t, a, e)
    PROVE  Sent(t, a, e)'
BY NewMessages DEF Basis, IInv, Sent

(* Every step keeps Spoke. *)
LEMMA SpokeStep ==
    ASSUME RecoveryAssumption, Rounds, CommonView, [Next]_vars, OwnVote', Voted'
    PROVE  Spoke'
<1> USE DEF Rounds, CommonView
<1>0. /\ \E x : \A mixes \in Ballots : x \in mixes
      /\ Cardinality(Authority) >= 3 /\ TypeOK /\ TypeOK' /\ WellFormedMessages
  BY TypeStep DEF RecoveryAssumption, Basis, IInv
<1> SUFFICES ASSUME NEW a \in Authority, NEW e \in Nat, Takes(a, e)', Good(e)',
                    NEW t \in {"reveal", "cert", "sig"}, Phase(state'[a]) >= SentIn(t)
             PROVE  Sent(t, a, e)'
  BY DEF Spoke
<1>1. CASE FsmAcceptDescriptor(a)
  <2>1. Phase(state'[a]) = 1
    BY <1>1, GoodRound
  <2> QED BY <2>1 DEF SentIn
<1>2. ASSUME InRoundOf(a, e), Phase(state[a]) >= SentIn(t) PROVE Sent(t, a, e)'
  <2>1. Sent(t, a, e)
    BY <1>2 DEF Spoke, InRoundOf
  <2> QED BY <2>1, SentKeeps
<1>3. CASE Same(a) /\ InRoundOf(a, e)
  BY <1>2, <1>3 DEF Same
<1>4. CASE FsmAcceptVote(a) /\ InRoundOf(a, e) /\ Phase(state[a]) = 1 /\ Phase(state'[a]) = 2
  <2>1. t = "reveal"
    BY <1>4 DEF SentIn
  <2>2. PICK v \in ledger[a].votes : v.epoch = e /\ v.from = a
    BY <1>4 DEF InRoundOf, OwnVote, Has
  <2>3. v.commit \in ledger[a].reveals /\ v.commit.epoch = e /\ v.commit.from = a
    BY <1>0, <2>2 DEF VotesKept, WellFormedMessages, TypeOK, LedgerType
  <2>4. votingEpoch[a] = e
    BY GoodRound
  <2>5. v.commit \in At(a, "reveals", votingEpoch[a])
    BY <2>3, <2>4 DEF At
  <2>6. [type |-> "reveal", from |-> a, epoch |-> v.commit.epoch, reveal |-> v.commit] \in msgs'
    BY <1>4, <2>3, <2>5 DEF FsmAcceptVote
  <2> QED BY <2>1, <2>3, <2>6 DEF Sent
<1>5. CASE /\ FsmAcceptReveal(a) /\ InRoundOf(a, e) /\ now = Begins(e) + 3
           /\ Phase(state[a]) = 2 /\ Phase(state'[a]) = 3
  <2>1. CASE t = "reveal"
    BY <1>2, <1>5, <2>1 DEF SentIn
  <2>2. CASE t = "cert"
    BY <1>0, <1>5, <2>2, CertSent, GoodRound
  <2>3. CASE t = "sig"
    BY <1>5, <2>3 DEF SentIn
  <2> QED BY <2>1, <2>2, <2>3
<1>6. CASE /\ FsmAcceptCert(a) /\ InRoundOf(a, e) /\ now = Begins(e) + 4
           /\ Phase(state[a]) = 3 /\ Phase(state'[a]) = 4
  <2>1. CASE t # "sig"
    BY <1>2, <1>6, <2>1 DEF SentIn
  <2>2. CASE t = "sig"
    <3>1. Epoch = e - 1
      BY GoodRound
    <3>2. \E b : msgs' = msgs \cup {[type |-> "sig", from |-> a, epoch |-> e, body |-> b]}
      BY <1>0, <1>6, <3>1, SigSent
    <3>3. PICK b : msgs' = msgs \cup {[type |-> "sig", from |-> a, epoch |-> e, body |-> b]}
      BY <3>2
    <3>4. [type |-> "sig", from |-> a, epoch |-> e, body |-> b] \in msgs'
      BY <3>3
    <3> QED BY <2>2, <3>4 DEF Sent
  <2> QED BY <2>1, <2>2
<1> QED BY <1>1, <1>3, <1>4, <1>5, <1>6, GoodRound

(* Every step keeps OwnCert. *)
LEMMA OwnCertStep ==
    ASSUME RecoveryAssumption, Rounds, CommonView, [Next]_vars, OwnVote', Voted'
    PROVE  OwnCert'
<1> USE DEF Rounds, CommonView
<1>0. /\ \E x : \A mixes \in Ballots : x \in mixes
      /\ Cardinality(Authority) >= 3
  BY DEF RecoveryAssumption
<1> SUFFICES ASSUME NEW a \in Authority, NEW e \in Nat, Takes(a, e)', Good(e)', Phase(state'[a]) >= 3
             PROVE  Has(a, "certificates", e, a)'
  BY DEF OwnCert
<1>1. ~FsmAcceptDescriptor(a)
  BY GoodRound
<1>2. ASSUME InRoundOf(a, e), Phase(state[a]) >= 3 PROVE Has(a, "certificates", e, a)'
  <2>1. Has(a, "certificates", e, a)
    BY <1>2 DEF OwnCert, InRoundOf
  <2> QED BY <1>1, <2>1, HasKeeps DEF Stored
<1>3. CASE FsmAcceptReveal(a) /\ InRoundOf(a, e) /\ now = Begins(e) + 3
  BY <1>0, <1>3, CertSent, GoodRound
<1>4. CASE Same(a) /\ InRoundOf(a, e)
  BY <1>2, <1>4 DEF Same
<1> QED BY <1>1, <1>2, <1>3, <1>4, GoodRound

(* A command about an untouched epoch: an old one, or its sender is in the round. *)
LEMMA GoodMessage ==
    ASSUME Rounds, [Next]_vars, OwnVote', Voted', NEW m \in msgs', NEW e, e = m.epoch, Good(e)'
    PROVE  /\ Good(e) /\ e \in Nat /\ m.from \in Authority
           /\ m \notin msgs => Takes(m.from, e)' /\ Phase(state'[m.from]) = SentIn(m.type)
           /\ m \in msgs => now >= Begins(e) + SentIn(m.type)
<1> USE DEF Rounds
<1>1. crashes' = crashes
  <2>1. ASSUME NEW b \in Authority, Crash(b) PROVE FALSE
    BY <2>1, CrashTouches
  <2> QED BY <2>1, CrashOrNot DEF Basis, IInv
<1>2. Good(e) /\ e \in Nat /\ m.from \in Authority
  BY <1>1, GoodBefore, BasisTypes
<1>3. m \notin msgs => Takes(m.from, e)' /\ Phase(state'[m.from]) = SentIn(m.type)
  BY SenderTakes
<1>4. m \in msgs => now >= Begins(e) + SentIn(m.type)
  BY DEF InSlot
<1> QED BY <1>2, <1>3, <1>4

(* Every step keeps Certs. *)
LEMMA CertsStep ==
    ASSUME RecoveryAssumption, Rounds, CommonView, [Next]_vars, OwnVote', Voted'
    PROVE  Certs'
<1> USE DEF Rounds, CommonView
<1>0. TypeOK /\ OneRevealEach /\ now \in Nat
  BY DEF Basis, IInv, TypeOK
<1> SUFFICES ASSUME NEW m \in msgs', m.type = "cert", NEW e, e = m.epoch, Good(e)'
             PROVE  m.commits = CommitsTo(e)' /\ m.reveals = CommitsTo(e)'
  BY DEF Certs
<1>1. Good(e) /\ e \in Nat /\ m.from \in Authority /\ Begins(e) \in Int
  BY GoodMessage, Slots
<1>2. m.commits = CommitsTo(e) /\ m.reveals = CommitsTo(e) /\ now >= Begins(e) + 3
  <2>1. CASE m \in msgs
    <3>1. now >= Begins(e) + SentIn(m.type)
      BY <2>1, GoodMessage
    <3> QED BY <1>1, <2>1, <3>1 DEF Certs, SentIn
  <2>2. CASE m \notin msgs
    <3>1. SendsCert(m.from, m) /\ FsmAcceptReveal(m.from)
      BY <1>0, <2>2, Sender DEF SendsCert
    <3>2. Takes(m.from, e)' /\ Phase(state'[m.from]) = 3
      BY <2>2, GoodMessage DEF SentIn
    <3>3. state[m.from] = "accept_reveal" /\ state'[m.from] = "accept_cert"
      BY <1>0, <1>1, <3>1 DEF FsmAcceptReveal, Due, Goto, TypeOK
    <3>4. ~Same(m.from)
      BY <3>3 DEF Same
    <3>5. InRoundOf(m.from, e) /\ now = Begins(e) + 3
      BY <1>1, <3>2, <3>3, <3>4, GoodRound DEF FsmAcceptVote, FsmAcceptCert, Due
    <3>6. At(m.from, "commits", e) = CommitsTo(e) /\ At(m.from, "reveals", e) = CommitsTo(e)
      <4>1. now > Begins(e) + 1 /\ now > Begins(e) + 2 /\ now < Begins(e) + 5
        BY <1>1, <3>5
      <4> QED BY <1>1, <3>5, <4>1, VotesIn, RevealsIn
    <3> QED BY <1>1, <3>1, <3>5, <3>6 DEF SendsCert
  <2> QED BY <2>1, <2>2
<1>3. CommitsTo(e)' = CommitsTo(e)
  <2>1. now > Begins(e) + 1
    BY <1>0, <1>1, <1>2
  <2> QED BY <1>1, <2>1, VotesSame
<1> QED BY <1>2, <1>3

(* Every step keeps Sigs. *)
LEMMA SigsStep ==
    ASSUME RecoveryAssumption, Rounds, CommonView, [Next]_vars, OwnVote', Voted'
    PROVE  Sigs'
<1> USE DEF Rounds, CommonView
<1>0. /\ TypeOK /\ OneRevealEach /\ now \in Nat /\ \E x : \A mixes \in Ballots : x \in mixes
      /\ Cardinality(Authority) >= 3
  BY DEF Basis, IInv, TypeOK, RecoveryAssumption
<1> SUFFICES ASSUME NEW m \in msgs', m.type = "sig", NEW e, e = m.epoch, Good(e)'
             PROVE  m.body = TheBody(e)'
  BY DEF Sigs
<1>1. Good(e) /\ e \in Nat /\ m.from \in Authority /\ Begins(e) \in Int
  BY GoodMessage, Slots
<1>2. m.body = TheBody(e) /\ now >= Begins(e) + 4
  <2>1. CASE m \in msgs
    <3>1. now >= Begins(e) + SentIn(m.type)
      BY <2>1, GoodMessage
    <3> QED BY <1>1, <2>1, <3>1 DEF Sigs, SentIn
  <2>2. CASE m \notin msgs
    <3>1. FsmAcceptCert(m.from)
      BY <1>0, <2>2, Sender DEF SendsSig
    <3>2. Takes(m.from, e)' /\ Phase(state'[m.from]) = 4
      BY <2>2, GoodMessage DEF SentIn
    <3>3. state[m.from] = "accept_cert" /\ state'[m.from] = "accept_signature"
      BY <1>0, <1>1, <3>1 DEF FsmAcceptCert, Due, Goto, TypeOK
    <3>4. ~Same(m.from)
      BY <3>3 DEF Same
    <3>a. ~FsmAcceptVote(m.from) /\ ~FsmAcceptReveal(m.from) /\ ~FsmAcceptDescriptor(m.from)
      BY <3>3 DEF FsmAcceptVote, FsmAcceptReveal, FsmAcceptDescriptor, Due
    <3>5. InRoundOf(m.from, e) /\ now = Begins(e) + 4 /\ Epoch = e - 1
      BY <1>1, <3>2, <3>4, <3>a, GoodRound
    <3>6. PICK b : /\ b = TheBody(e)
                   /\ msgs' = msgs \cup {[type |-> "sig", from |-> m.from, epoch |-> e, body |-> b]}
      BY <1>0, <1>1, <3>1, <3>5, SigSent
    <3>7. m = [type |-> "sig", from |-> m.from, epoch |-> e, body |-> b]
      BY <2>2, <3>6
    <3>8. m.body = b
      BY <3>7
    <3> QED BY <1>1, <3>5, <3>6, <3>8
  <2> QED BY <2>1, <2>2
<1>3. TheBody(e)' = TheBody(e)
  <2>1. now > Begins(e) + 1
    BY <1>0, <1>1, <1>2
  <2> QED BY <1>1, <2>1, BodySame
<1> QED BY <1>2, <1>3

(* Every step keeps OwnSig. *)
LEMMA OwnSigStep ==
    ASSUME RecoveryAssumption, Rounds, CommonView, [Next]_vars, OwnVote', Voted'
    PROVE  OwnSig'
<1> USE DEF Rounds, CommonView
<1>0. /\ TypeOK /\ now \in Nat /\ \E x : \A mixes \in Ballots : x \in mixes
      /\ Cardinality(Authority) >= 3
  BY DEF Basis, IInv, TypeOK, RecoveryAssumption
<1> SUFFICES ASSUME NEW a \in Authority, NEW e \in Nat, Takes(a, e)', Good(e)', Phase(state'[a]) = 4
             PROVE  TheBody(e)' \in ledger'[a].myconsensus
  BY DEF OwnSig
<1>1. PICK b : b = TheBody(e)
  OBVIOUS
<1>2. /\ InRoundOf(a, e) /\ ~FsmAcceptDescriptor(a) /\ a \in up /\ votingEpoch[a] = e
      /\ Same(a) \/ (FsmAcceptCert(a) /\ now = Begins(e) + 4 /\ Epoch = e - 1)
  BY GoodRound
<1>3. b \in ledger'[a].myconsensus
  <2>1. CASE Same(a)
    <3>1. b \in ledger[a].myconsensus
      BY <1>1, <1>2, <2>1 DEF OwnSig, InRoundOf, Same
    <3>2. b.epoch = e
      BY <1>1 DEF TheBody, BodyOf
    <3> QED BY <1>2, <3>1, <3>2, RoundKeeps DEF Stored
  <2>2. CASE FsmAcceptCert(a) /\ now = Begins(e) + 4 /\ Epoch = e - 1
    BY <1>0, <1>1, <1>2, <2>2, SigSent
  <2> QED BY <1>2, <2>1, <2>2
<1>4. now > Begins(e) + 1
  <2>1. CASE Same(a)
    <3>1. Phase(state[a]) = 4 /\ a \in up /\ votingEpoch[a] = e
      BY <1>2, <2>1 DEF Same
    <3>2. now >= Begins(e) + 4
      BY <3>1 DEF InSlot
    <3> QED BY <1>0, <3>2, Slots
  <2>2. CASE now = Begins(e) + 4
    BY <1>0, <2>2, Slots
  <2> QED BY <1>2, <2>1, <2>2
<1>5. TheBody(e)' = b
  BY <1>1, <1>4, BodySame
<1> QED BY <1>3, <1>5

(* Every step keeps PriorsKnown. *)
LEMMA PriorsStep ==
    ASSUME RecoveryAssumption, Rounds, CommonView, [Next]_vars, OwnVote', Voted'
    PROVE  PriorsKnown'
<1> USE DEF Rounds, CommonView
<1>0. /\ TypeOK /\ TypeOK' /\ now \in Nat /\ \E x : \A mixes \in Ballots : x \in mixes
      /\ Cardinality(Authority) >= 3 /\ DOMAIN genesisEpoch = Authority /\ DOMAIN priorSRV = Authority
  BY TypeStep DEF Basis, IInv, TypeOK, RecoveryAssumption, Bounded
<1> SUFFICES ASSUME NEW a \in Authority, NEW e \in Nat, Takes(a, e)', Good(e)', NEW B, B = Bodies(e - 1)'
             PROVE  /\ Phase(state'[a]) <= 3 => genesisEpoch'[a] = GenesisOf(e, B)
                    /\ B # {} =>
                          /\ Phase(state'[a]) <= 2 => priorSRV'[a] = LastOf(B).prior
                          /\ Phase(state'[a]) = 3 => priorSRV'[a] = CertPriorOf(e, B)
  BY DEF PriorsKnown
<1>1. /\ a \in up /\ votingEpoch[a] = e /\ Good(e) /\ Epoch = e - 1
  BY GoodRound
<1>2. now >= Begins(e) /\ B = Bodies(e - 1)
  <2>1. 8 * Epoch <= now /\ Begins(e) = 8 * e - 8
    BY <1>0, Moments, Slots
  <2>2. now >= Begins(e)
    BY <1>0, <1>1, <2>1
  <2> QED BY <2>2, BodiesSame
<1>3. ASSUME InRoundOf(a, e)
      PROVE  /\ Phase(state[a]) <= 3 => genesisEpoch[a] = GenesisOf(e, B)
             /\ B # {} =>
                   /\ Phase(state[a]) <= 2 => priorSRV[a] = LastOf(B).prior
                   /\ Phase(state[a]) = 3 => priorSRV[a] = CertPriorOf(e, B)
  BY <1>2, <1>3 DEF PriorsKnown, InRoundOf
<1>4. CASE FsmAcceptDescriptor(a) /\ Phase(state'[a]) = 1
  <2>1. state[a] # "bootstrap" /\ a \in up /\ votingEpoch[a] = e
    BY <1>1, <1>4 DEF FsmAcceptDescriptor, Due
  <2>2. /\ \A d \in At(a, "documents", e - 1) : d.body = LastOf(B) /\ B # {}
        /\ At(a, "documents", e - 1) = {} => B = {}
    BY <1>1, <1>2, <2>1, LastDocument
  <2>3. CASE At(a, "documents", e - 1) = {}
    <3>1. genesisEpoch' = [genesisEpoch EXCEPT ![a] = e]
      BY <1>4, <2>1, <2>3 DEF FsmAcceptDescriptor
    <3> QED BY <1>0, <2>2, <2>3, <3>1 DEF GenesisOf
  <2>4. CASE At(a, "documents", e - 1) # {}
    <3>1. PICK d \in At(a, "documents", e - 1) :
             /\ genesisEpoch' = [genesisEpoch EXCEPT ![a] = d.body.genesis]
             /\ priorSRV' = [priorSRV EXCEPT ![a] = d.body.prior]
      BY <1>4, <2>1, <2>4 DEF FsmAcceptDescriptor
    <3>2. genesisEpoch'[a] = LastOf(B).genesis /\ priorSRV'[a] = LastOf(B).prior /\ B # {}
      BY <1>0, <2>2, <3>1
    <3> QED BY <1>4, <3>2 DEF GenesisOf
  <2> QED BY <2>3, <2>4
<1>5. CASE Same(a) /\ InRoundOf(a, e)
  BY <1>3, <1>5 DEF Same
<1>6. CASE FsmAcceptVote(a) /\ InRoundOf(a, e) /\ Phase(state[a]) = 1 /\ Phase(state'[a]) = 2
  <2>1. genesisEpoch' = genesisEpoch /\ priorSRV' = priorSRV
    BY <1>6 DEF FsmAcceptVote
  <2> QED BY <1>3, <1>6, <2>1
<1>7. CASE /\ FsmAcceptReveal(a) /\ InRoundOf(a, e) /\ now = Begins(e) + 3
           /\ Phase(state[a]) = 2 /\ Phase(state'[a]) = 3
  <2>1. CanTally(a, e)
    <3>1. now >= Begins(e) + 2
      BY <1>7, Slots
    <3> QED BY <1>0, <1>7, <3>1, Tally
  <2>2. genesisEpoch' = genesisEpoch /\ priorSRV' = [priorSRV EXCEPT ![a] = CertificatePriorSRV(a, e)]
    BY <1>1, <1>7, <2>1 DEF FsmAcceptReveal
  <2>3. priorSRV'[a] = CertificatePriorSRV(a, e)
    BY <1>0, <2>2
  <2>4. B # {} => priorSRV[a] = LastOf(B).prior
    BY <1>3, <1>7
  <2>5. B # {} => CertificatePriorSRV(a, e) = CertPriorOf(e, B)
    BY <2>4 DEF CertificatePriorSRV, CertPriorOf, Rotate, Turned
  <2> QED BY <1>3, <1>7, <2>2, <2>3, <2>5
<1>8. CASE Phase(state'[a]) = 4
  BY <1>8
<1> QED BY <1>4, <1>5, <1>6, <1>7, <1>8, GoodRound

(* Every step keeps Hold. *)
LEMMA HoldStep ==
    ASSUME Rounds, CommonView, [Next]_vars
    PROVE  Hold'
<1> USE DEF Rounds, CommonView
<1>0. /\ TypeOK /\ TypeOK' /\ OnSchedule /\ crashes \in Nat /\ now \in Nat /\ Epoch \in Nat
      /\ First \in Nat /\ Epoch = EpochAt(now)
  BY TypeStep, Moments, TimeAssumption DEF Basis, IInv, TypeOK, First, EpochAt, SlotsPerEpoch, Epoch
<1> SUFFICES ASSUME NEW a \in Authority, NEW e \in Nat, crashes' = 0, e > First,
                    a \in up', state'[a] # "bootstrap", votingEpoch'[a] = e
             PROVE  \E d \in ledger'[a].documents : d.epoch = e - 1
  BY DEF Hold
<1>1. crashes = 0
  <2>1. ASSUME NEW b \in Authority, Crash(b) PROVE FALSE
    BY <1>0, <2>1 DEF Crash
  <2> QED BY <1>0, <2>1, CrashOrNot
<1>2. \A p \in Authority : p \in up
  BY <1>1 DEF Present, OnTrack
<1>3. a \in up /\ votingEpoch[a] \in Nat /\ wake[a] \in Nat /\ now <= wake[a] /\ state[a] \in States
      /\ (state[a] # "bootstrap" => wake[a] = Begins(votingEpoch[a]) + Phase(state[a]) + 1)
      /\ Phase(state[a]) \in 0..4 /\ Begins(votingEpoch[a]) = 8 * votingEpoch[a] - 8
      /\ 8 * Epoch <= now
  <2>1. a \in up
    BY <1>2
  <2>2. 8 * Epoch <= now
    BY <1>0, Moments
  <2>3. /\ votingEpoch[a] \in Nat /\ wake[a] \in Nat /\ now <= wake[a] /\ state[a] \in States
        /\ (state[a] # "bootstrap" => wake[a] = Begins(votingEpoch[a]) + Phase(state[a]) + 1)
        /\ Phase(state[a]) \in 0..4
    BY <2>1, Timer
  <2> QED BY <2>1, <2>2, <2>3, Slots
<1>4. state[a] # "bootstrap" => votingEpoch[a] + 3 > Epoch
  BY <1>0, <1>3
<1>5. CASE state[a] # "bootstrap" /\ votingEpoch[a] = e
  <2>1. PICK d \in ledger[a].documents : d.epoch = e - 1
    BY <1>1, <1>3, <1>5 DEF Hold
  <2>2. d.epoch + PreserveForPastEpochs >= Epoch
    BY <1>0, <1>4, <1>5, <2>1 DEF PreserveForPastEpochs
  <2>3. \E k \in ledger'[a].documents : k.epoch = d.epoch
    BY <1>0, <1>3, <2>2, DocumentsKeep
  <2> QED BY <2>1, <2>3
<1>6. CASE StartsVoting(a)
  <2>1. wake[a] = StartTime /\ wake[a] <= now /\ e = Epoch + 1
    BY <1>1, <1>3, <1>6 DEF StartWake, StartsVoting
  <2>2. now = StartTime
    <3>1. now \in Nat /\ wake[a] \in Nat /\ now <= wake[a]
      BY <1>0, <1>3
    <3> QED BY <2>1, <3>1
  <2> QED BY <1>0, <2>1, <2>2 DEF First
<1>7. CASE Succeeds(a)
  <2>1. state[a] = "accept_signature" /\ state'[a] = "accept_desc" /\ e = votingEpoch[a] + 1
    BY <1>7 DEF Succeeds
  <2>2. Fsm(a)
    <3>1. ~Same(a)
      BY <2>1 DEF Same
    <3> QED BY <1>0, <1>3, <3>1, FsmOrSame
  <2>3. FsmConsensusReached(a)
    <3>1. ~FsmConsensusFailed(a)
      BY <1>0, <2>1 DEF FsmConsensusFailed, SitOut, Goto, TypeOK
    <3> QED BY <2>1, <2>2, <3>1 DEF Fsm, FsmBootstrap, FsmAcceptDescriptor, FsmAcceptVote,
            FsmAcceptReveal, FsmAcceptCert, Due
  <2>4. PICK d : d.epoch = votingEpoch[a] /\ (d.epoch + PreserveForPastEpochs >= Epoch => d \in ledger'[a].documents)
    BY <1>0, <2>3, Reaches
  <2>5. d.epoch + PreserveForPastEpochs >= Epoch /\ d.epoch = e - 1
    BY <1>0, <1>3, <1>4, <2>1, <2>4 DEF PreserveForPastEpochs
  <2> QED BY <2>4, <2>5
<1>8. CASE Stays(a) \/ Advances(a)
  <2>1. state[a] # "bootstrap" /\ votingEpoch[a] = e
    BY <1>8 DEF Stays, Advances
  <2> QED BY <1>5, <2>1
<1>9. ~ComesBack(a) /\ ~SitsOut(a)
  BY <1>3 DEF ComesBack, SitsOut
<1> QED BY <1>0, <1>6, <1>7, <1>8, <1>9, StepMoves DEF Moves

(* Every step keeps PastVotes. *)
LEMMA PastVotesStep ==
    ASSUME Rounds, CommonView, [Next]_vars
    PROVE  PastVotes'
<1> USE DEF Rounds, CommonView
<1>0. TypeOK /\ OneRevealEach /\ crashes \in Nat
  BY DEF Basis, IInv, TypeOK
<1> SUFFICES ASSUME NEW v \in msgs', v.type = "vote", v.commit.nonce = 0, v.epoch > First
             PROVE  Decided(v.epoch - 1)'
  BY DEF PastVotes
<1>1. Decided(v.epoch - 1)
  <2>1. CASE v \in msgs
    BY <2>1 DEF PastVotes
  <2>2. CASE v \notin msgs
    <3>1. /\ FsmAcceptDescriptor(v.from) /\ v.epoch = votingEpoch[v.from]
          /\ v.commit = Secret(v.from, v.epoch)
      BY <2>2, NewVote
    <3>2. crashes = 0
      BY <3>1 DEF Secret
    <3>3. v.from \in up /\ v.from \in Authority /\ state[v.from] # "bootstrap" /\ v.epoch \in Nat
      BY <1>0, <3>1 DEF FsmAcceptDescriptor, Due, TypeOK
    <3>4. PICK d \in ledger[v.from].documents : d.epoch = v.epoch - 1
      BY <3>1, <3>2, <3>3 DEF Hold
    <3>5. d \in published
      BY <1>0, <3>3, <3>4 DEF TypeOK, LedgerType
    <3> QED BY <3>4, <3>5 DEF Decided
  <2> QED BY <2>1, <2>2
<1> QED BY <1>1, PublishedGrows

(* No authority gives up a round that no crash has touched. *)
LEMMA NotFailed ==
    ASSUME RecoveryAssumption, Rounds, CommonView, NEW a \in Authority, NEW e \in Nat,
           e = votingEpoch[a], Good(e), FsmConsensusFailed(a)
    PROVE  FALSE
<1> USE DEF Rounds, CommonView
<1>1. a \in up /\ state[a] = "accept_signature" /\ Phase(state[a]) = 4 /\ state[a] # "bootstrap"
  BY DEF FsmConsensusFailed, Due, Phase
<1>2. now = Begins(e) + 4 + 1
  BY <1>1, FsmDeadline DEF Fsm
<1>3. now = Begins(e) + 5 /\ Cardinality(Authority) >= 3
  BY <1>2, Slots DEF RecoveryAssumption
<1>4. Takes(a, e) /\ InRoundOf(a, e)
  BY <1>1 DEF Takes, InRoundOf
<1>5. ThresholdConsensus(a, e) # {}
  BY <1>1, <1>3, <1>4, Majorities
<1> QED BY <1>5 DEF FsmConsensusFailed

(* Every step keeps StartWake. *)
LEMMA StartWakeStep ==
    ASSUME RecoveryAssumption, Rounds, CommonView, [Next]_vars
    PROVE  StartWake'
<1> USE DEF Rounds, CommonView
<1>0. /\ TypeOK /\ TypeOK' /\ OnSchedule /\ crashes \in Nat /\ now \in Nat /\ StartTime \in Nat
  BY TypeStep, TimeAssumption DEF Basis, IInv, TypeOK
<1> SUFFICES ASSUME NEW a \in Authority, crashes' = 0, a \in up', state'[a] = "bootstrap"
             PROVE  wake'[a] = StartTime
  BY DEF StartWake
<1>1. crashes = 0
  <2>1. ASSUME NEW b \in Authority, Crash(b) PROVE FALSE
    BY <1>0, <2>1 DEF Crash
  <2> QED BY <1>0, <2>1, CrashOrNot
<1>2. a \in up
  BY <1>1 DEF Present, OnTrack
<1>3. CASE Same(a)
  <2>1. state[a] = "bootstrap" /\ wake'[a] = wake[a]
    BY <1>3 DEF Same
  <2> QED BY <1>1, <1>2, <2>1 DEF StartWake
<1>4. CASE Fsm(a)
  <2>1. CASE FsmConsensusFailed(a)
    <3>1. PICK e \in Nat : e = votingEpoch[a]
      BY <1>0 DEF TypeOK
    <3>2. Good(e)
      <4>1. ASSUME NEW v \in VotesFor(e) PROVE v.commit.nonce = 0
        <5>1. v.commit.nonce \in Nat /\ v.commit.nonce <= 0
          BY <1>0, <1>1 DEF VotesFor, Bounded, TypeOK, Secrets
        <5> QED BY <5>1
      <4> QED BY <1>1, <4>1 DEF Good, Clean
    <3> QED BY <2>1, <3>1, <3>2, NotFailed
  <2>2. CASE FsmBootstrap(a)
    <3>1. wake[a] = StartTime /\ now = StartTime
      <4>1. state[a] = "bootstrap" /\ wake[a] <= now
        BY <2>2 DEF FsmBootstrap, Due
      <4>2. wake[a] = StartTime
        BY <1>1, <1>2, <4>1 DEF StartWake
      <4>3. now <= wake[a]
        BY <1>2, Timer
      <4> QED BY <1>0, <4>1, <4>2, <4>3
    <3>2. ~TooLateToVote
      <4>1. Elapsed(1) = 8 * Epoch + 1 /\ 8 * Epoch <= now /\ now < 8 * Epoch + 8 /\ Epoch \in Nat
        BY <1>0, Moments
      <4>2. now % 8 = 0
        BY <3>1 DEF RecoveryAssumption, SlotsPerEpoch
      <4>3. now = 8 * Epoch
        BY <1>0, <4>1, <4>2
      <4> QED BY <1>0, <4>1, <4>3 DEF TooLateToVote, MixPublishDeadline
    <3>3. state'[a] = "accept_desc"
      BY <1>0, <2>2, <3>2 DEF FsmBootstrap, Goto, TypeOK
    <3> QED BY <3>3
  <2>3. ~FsmAcceptDescriptor(a) /\ ~FsmAcceptVote(a) /\ ~FsmAcceptReveal(a) /\ ~FsmAcceptCert(a)
        /\ ~FsmConsensusReached(a)
    <3>1. ~FsmAcceptDescriptor(a)
      BY <1>0 DEF FsmAcceptDescriptor, Goto, TypeOK
    <3>2. ~FsmAcceptVote(a)
      BY <1>0 DEF FsmAcceptVote, Goto, TypeOK
    <3>3. ~FsmAcceptReveal(a)
      BY <1>0 DEF FsmAcceptReveal, Goto, TypeOK
    <3>4. ~FsmAcceptCert(a)
      BY <1>0 DEF FsmAcceptCert, Goto, TypeOK
    <3>5. ~FsmConsensusReached(a)
      BY <1>0 DEF FsmConsensusReached, Goto, TypeOK
    <3> QED BY <3>1, <3>2, <3>3, <3>4, <3>5
  <2> QED BY <1>4, <2>1, <2>2, <2>3 DEF Fsm
<1> QED BY <1>0, <1>2, <1>3, <1>4, FsmOrSame

(* Every step keeps Stay. *)
LEMMA StayStep ==
    ASSUME RecoveryAssumption, Rounds, CommonView, [Next]_vars, Bounded'
    PROVE  Stay'
<1> USE DEF Rounds, CommonView
<1>0. /\ TypeOK /\ TypeOK' /\ OnSchedule /\ OneRevealEach /\ crashes \in Nat /\ now \in Nat
      /\ now' \in Nat /\ now <= now'
  BY TypeStep, TimeGoesOn DEF Basis, IInv, TypeOK
<1> SUFFICES ASSUME NEW v \in msgs', v.type = "vote", v.commit.nonce = crashes', NEW e, e = v.epoch,
                    NEW a, a = v.from
             PROVE  \/ Takes(a, e)'
                    \/ /\ now' >= Begins(e) + 5
                       /\ Good(e)' => Decided(e)' /\ Sent("sig", a, e)'
  BY DEF Stay
<1>1. e \in Nat /\ a \in Authority /\ Begins(e) \in Int
  BY BasisTypes, Slots
<1>2. CASE v \notin msgs
  BY <1>2, SenderTakes
<1>3. CASE v \in msgs
  <2>1. crashes' = crashes /\ up \subseteq up'
    <3>1. ASSUME NEW b \in Authority, Crash(b) PROVE FALSE
      <4>1. crashes' = crashes + 1
        BY <3>1 DEF Crash
      <4>2. v.commit.nonce <= crashes
        BY <1>3 DEF Bounded
      <4> QED BY <1>0, <4>1, <4>2
    <3> QED BY <1>0, <3>1, CrashOrNot
  <2>2. Good(e)' => Good(e)
    BY <2>1, GoodBefore
  <2>3. CASE now >= Begins(e) + 5 /\ (Good(e) => Decided(e) /\ Sent("sig", a, e))
    <3>1. now' >= Begins(e) + 5
      BY <1>0, <1>1, <2>3
    <3>2. Decided(e) /\ Sent("sig", a, e) => Decided(e)' /\ Sent("sig", a, e)'
      BY PublishedGrows, SentKeeps
    <3> QED BY <2>2, <2>3, <3>1, <3>2
  <2>4. CASE Takes(a, e)
    <3>0. /\ a \in up /\ a \in up' /\ votingEpoch[a] = e /\ Phase(state[a]) >= 1
          /\ state[a] # "bootstrap" /\ state[a] # "accept_desc"
      <4>1. a \in up /\ a \in up' /\ votingEpoch[a] = e /\ Phase(state[a]) >= 1
        BY <2>1, <2>4 DEF Takes
      <4>2. state[a] # "bootstrap" /\ state[a] # "accept_desc"
        BY <4>1 DEF Phase
      <4> QED BY <4>1, <4>2
    <3>1. CASE Same(a)
      BY <3>0, <3>1 DEF Same, Takes
    <3>2. CASE FsmAcceptVote(a) \/ FsmAcceptReveal(a) \/ FsmAcceptCert(a)
      <4>1. votingEpoch' = votingEpoch /\ state'[a] \in {"accept_reveal", "accept_cert", "accept_signature"}
        BY <1>0, <1>1, <3>2 DEF FsmAcceptVote, FsmAcceptReveal, FsmAcceptCert, Goto, TypeOK
      <4>2. Phase(state'[a]) >= 1
        BY <4>1 DEF Phase
      <4> QED BY <3>0, <4>1, <4>2 DEF Takes
    <3>3. CASE FsmConsensusReached(a) \/ FsmConsensusFailed(a)
      <4>1. state[a] = "accept_signature" /\ Phase(state[a]) = 4
        BY <3>3 DEF FsmConsensusReached, FsmConsensusFailed, Due, Phase
      <4>2. now = Begins(e) + 4 + 1 /\ now' = now
        BY <1>1, <3>0, <3>3, <4>1, FsmDeadline DEF Fsm
      <4>3. now = Begins(e) + 5 /\ now' >= Begins(e) + 5
        BY <1>0, <1>1, <4>2
      <4>4. ASSUME Good(e)' PROVE Decided(e)' /\ Sent("sig", a, e)'
        <5>1. InRoundOf(a, e) /\ Good(e)
          BY <2>2, <2>4, <4>4 DEF InRoundOf
        <5>2. Sent("sig", a, e)
          BY <1>1, <4>1, <4>3, <5>1, Majorities DEF RecoveryAssumption
        <5>3. FsmConsensusReached(a)
          BY <1>1, <3>0, <3>3, <5>1, NotFailed
        <5>4. Decided(e)'
          BY <1>0, <1>1, <3>0, <5>3, Reaches DEF Decided
        <5> QED BY <5>2, <5>4, SentKeeps
      <4> QED BY <4>3, <4>4
    <3>4. CASE Fsm(a)
      BY <3>0, <3>2, <3>3, <3>4 DEF Fsm, FsmBootstrap, FsmAcceptDescriptor, Due
    <3> QED BY <1>0, <3>0, <3>1, <3>4, FsmOrSame
  <2> QED BY <1>3, <2>1, <2>3, <2>4 DEF Stay
<1> QED BY <1>2, <1>3

(* The inductive invariant. *)
Recovery == Rounds /\ CommonView

(* It holds at the start. *)
LEMMA InitRecovery == RecoveryAssumption /\ Init => Recovery
<1> SUFFICES ASSUME RecoveryAssumption, Init PROVE Recovery
  OBVIOUS
<1>0. /\ msgs = {} /\ published = {} /\ crashes = 0 /\ now = StartTime /\ up = Authority
      /\ state = [a \in Authority |-> "bootstrap"] /\ wake = [a \in Authority |-> StartTime]
      /\ ledger = [a \in Authority |-> EmptyLedger] /\ Phase("bootstrap") = 0
      /\ StartTime \in Nat
  BY TimeAssumption DEF Init, Phase
<1>1. Basis
  BY InitIInv, InitBacked, InitOnTime DEF Basis
<1>2. Bounded
  BY <1>0, FS_EmptySet DEF Init, Bounded, RecoveryAssumption
<1>3. \A a \in Authority, e \in Nat : ~Takes(a, e)
  BY <1>0 DEF Takes
<1>4. InSlot
  BY <1>0 DEF InSlot
<1>5. VotesKept /\ SentReveals /\ OwnVote /\ Voted
  BY <1>0, <1>3 DEF VotesKept, SentReveals, OwnVote, Voted, EmptyLedger, LedgerFields
<1>6. Present
  <2>1. Epochal(StartTime)
    <3>1. StartTime = EpochStart(StartTime \div 8) /\ StartTime \div 8 \in Nat
      BY <1>0 DEF RecoveryAssumption, EpochStart, SlotsPerEpoch
    <3> QED BY <3>1 DEF Epochal
  <2> QED BY <1>0, <2>1 DEF Present, OnTrack
<1>7. Quorum
  <2> SUFFICES ASSUME NEW e \in Nat, e >= First, now >= Begins(e) + 2 PROVE FALSE
    BY DEF Quorum
  <2>1. First = StartTime \div 8 + 1 /\ Begins(e) = 8 * e - 8
    BY Slots DEF First, EpochAt, SlotsPerEpoch
  <2>2. StartTime < 8 * (StartTime \div 8) + 8 /\ StartTime % 8 = 0 /\ StartTime \div 8 \in Nat
    BY <1>0 DEF RecoveryAssumption, SlotsPerEpoch
  <2>3. StartTime = 8 * (StartTime \div 8)
    BY <1>0, <2>2
  <2> QED BY <1>0, <2>1, <2>2, <2>3
<1>8. Stay /\ Arrived /\ Spoke /\ Certs /\ OwnCert /\ PriorsKnown /\ Sigs /\ OwnSig /\ PastVotes
  BY <1>0, <1>3 DEF Stay, Arrived, Spoke, Certs, OwnCert, PriorsKnown, Sigs, OwnSig, PastVotes
<1>9. Hold /\ StartWake
  BY <1>0 DEF Hold, StartWake
<1> QED BY <1>1, <1>2, <1>4, <1>5, <1>6, <1>7, <1>8, <1>9 DEF Recovery, Rounds, CommonView

(* Every step keeps it. *)
LEMMA StepRecovery ==
    ASSUME RecoveryAssumption, Recovery, [Next]_vars
    PROVE  Recovery'
<1>0. Rounds /\ CommonView
  BY DEF Recovery
<1>a. MaxLag = 0 /\ MaxLate = 0 /\ MaxCrash \in 0..1 /\ Authority # {}
  BY FS_EmptySet DEF RecoveryAssumption
<1>1. Basis' /\ Bounded' /\ InSlot'
  BY <1>0, <1>a, BasisStep, BoundedStep, InSlotStep DEF Rounds
<1>2. VotesKept' /\ SentReveals' /\ OwnVote' /\ Present' /\ Quorum'
  BY <1>0, <1>a, <1>1, VotesKeptStep, SentRevealsStep, OwnVoteStep, PresentStep, QuorumStep DEF Rounds
<1>3. Voted'
  BY <1>0, <1>2, VotedStep DEF Rounds
<1>4. Stay' /\ Arrived' /\ Spoke'
  BY <1>0, <1>a, <1>1, <1>2, <1>3, StayStep, ArrivedStep, SpokeStep DEF Rounds
<1>5. Certs' /\ OwnCert' /\ Hold' /\ PriorsKnown' /\ Sigs' /\ OwnSig' /\ StartWake' /\ PastVotes'
  BY <1>0, <1>2, <1>3, CertsStep, OwnCertStep, HoldStep, PriorsStep, SigsStep, OwnSigStep,
     StartWakeStep, PastVotesStep
<1> QED BY <1>1, <1>2, <1>3, <1>4, <1>5 DEF Recovery, Rounds, CommonView

(* A round that no crash has touched ends with a document. *)
LEMMA Finished ==
    ASSUME RecoveryAssumption, Recovery, NEW e \in Nat, e >= First, now > Begins(e) + 5, Good(e)
    PROVE  Decided(e)
<1> USE DEF Recovery, Rounds
<1>0. TypeOK /\ now \in Nat /\ Begins(e) \in Int /\ Cardinality(Authority) >= 3
  BY Slots DEF Basis, IInv, TypeOK, RecoveryAssumption
<1>1. PICK v \in VotesFor(e) : TRUE
  <2>1. now >= Begins(e) + 2
    BY <1>0
  <2> QED BY <1>0, <2>1, EnoughVote
<1>2. v \in msgs /\ v.type = "vote" /\ v.epoch = e /\ v.commit.nonce = crashes
  BY <1>1 DEF VotesFor, Good, Clean
<1>3. ~Takes(v.from, e)
  <2> SUFFICES ASSUME Takes(v.from, e) PROVE FALSE
    OBVIOUS
  <2>1. v.from \in up /\ votingEpoch[v.from] = e /\ state[v.from] # "bootstrap"
    BY DEF Takes, Phase
  <2>2. now <= Begins(e) + Phase(state[v.from]) + 1 /\ Phase(state[v.from]) \in 0..4
    BY <2>1, Timer
  <2> QED BY <1>0, <2>2
<1> QED BY <1>2, <1>3 DEF Stay

(* It implies the property: if epoch e + 1 is untouched its round ended with a        *)
(* document; if not, a vote on it is older than the crash, or epoch e had a document. *)
LEMMA NoTwoLost == RecoveryAssumption /\ Recovery => OneRoundLost
<1> SUFFICES ASSUME RecoveryAssumption, Recovery,
                    NEW e \in EpochAt(StartTime) + 1 .. Epoch, now > EpochStart(e) + PublishConsensusDeadline
             PROVE  Decided(e) \/ Decided(e + 1)
  BY DEF OneRoundLost
<1> USE DEF Recovery, Rounds
<1>0. /\ TypeOK /\ First \in Nat /\ e \in Nat /\ e >= First /\ crashes \in Nat /\ crashes <= 1
      /\ now > Begins(e + 1) + 5
  <2>1. TypeOK /\ crashes \in Nat /\ crashes <= MaxCrash
    BY DEF Basis, IInv, TypeOK, Bounded
  <2>2. First \in Nat
    BY TimeAssumption DEF First, EpochAt, SlotsPerEpoch
  <2>3. Epoch \in Nat
    BY <2>1, Moments
  <2>4. e \in Nat /\ e >= First
    BY <2>2, <2>3 DEF First
  <2>5. EpochStart(e) = Begins(e + 1)
    BY <2>4 DEF Begins
  <2>6. crashes <= 1
    BY <2>1 DEF RecoveryAssumption
  <2> QED BY <2>1, <2>2, <2>4, <2>5, <2>6 DEF PublishConsensusDeadline
<1>1. CASE Good(e + 1)
  BY <1>0, <1>1, Finished
<1>2. CASE ~Clean(e + 1)
  <2>1. PICK v \in VotesFor(e + 1) : v.commit.nonce # crashes
    BY <1>2 DEF Clean
  <2>2. v \in msgs /\ v.type = "vote" /\ v.epoch = e + 1
    BY DEF VotesFor
  <2>3. v.commit.nonce \in Nat /\ v.commit.nonce <= crashes
    BY <1>0, <2>2 DEF TypeOK, Secrets, Bounded
  <2>4. v.commit.nonce = 0
    BY <1>0, <2>1, <2>3
  <2>5. Decided(v.epoch - 1)
    BY <1>0, <2>2, <2>4 DEF CommonView, PastVotes
  <2>6. v.epoch - 1 = e
    BY <1>0, <2>2
  <2> QED BY <2>5, <2>6
<1>3. CASE Clean(e + 1) /\ Decided(e)
  BY <1>3
<1>4. Good(e + 1) \/ ~Clean(e + 1) \/ (Clean(e + 1) /\ Decided(e))
  <2>1. e + 1 - 1 = e
    BY <1>0
  <2> QED BY <2>1 DEF Good
<1> QED BY <1>1, <1>2, <1>3, <1>4

(* Under RecoveryAssumption there are never two epochs in a row without a consensus    *)
(* document: a crash in any step of any phase, which loses the memory of the authority *)
(* that crashes, spoils the rounds of fsm() for one epoch only, in every behaviour of  *)
(* the authorities.                                                                    *)
THEOREM NoTwoRoundsLost ==
    ASSUME RecoveryAssumption
    PROVE  Spec => []OneRoundLost
<1>1. Init => Recovery
  BY InitRecovery
<1>2. Recovery /\ [Next]_vars => Recovery'
  BY StepRecovery
<1>3. Recovery => OneRoundLost
  BY NoTwoLost
<1> QED BY <1>1, <1>2, <1>3, PTL DEF Spec
=============================================================================
