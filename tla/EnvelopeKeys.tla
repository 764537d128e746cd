----------------------------- MODULE EnvelopeKeys -----------------------------
(***************************************************************************)
(* The envelope keys of the storage replicas in the consensus document:    *)
(* buildReplicaEnvelopeKeys and its cache in authority/voting/server, over *)
(* many epochs.  A replica's descriptor has its keys for the current and   *)
(* the next replica epoch (replica/pki.go); a document shall list the keys *)
(* of the previous, the current and the next one, those of replicas that   *)
(* are offline too, from the cache of the authority that makes it.         *)
(*                                                                         *)
(* The rounds are synchronous and every vote arrives: what messages that   *)
(* are late or lost do is the subject of VotingAuthority.  A replica keeps *)
(* its key pairs as long as it runs, and is not restarted here, so a key   *)
(* is known by its replica and its epoch.                                  *)
(***************************************************************************)
EXTENDS Integers, FiniteSets

CONSTANTS
    Authorities,        \* cfg.Authorities
    Replica,            \* cfg.StorageReplicas
    ReplicaEpochPeriod, \* ReplicaEpochPeriod, in epochs
    StartEpoch,         \* the epoch in which the authorities are first started
    MaxEpoch,           \* bound: the last epoch of a behaviour
    MaxRestart          \* bound: how many restarts of authorities there are

ASSUME EpochAssumption == ReplicaEpochPeriod \in Nat \ {0} /\ StartEpoch \in Nat
ASSUME AuthoritiesAssumption == IsFiniteSet(Authorities)

VARIABLES
    epoch,      \* the current epoch
    phase,      \* the phase of the round: descriptors, votes, then consensus
    held,       \* per authority: replicaDescriptors of the voted epoch
    posted,     \* the replicas that have made their upload in this epoch
    ballots,    \* the votes of this round, which all have reached everybody
    cache,      \* per authority: cachedReplicaEnvelopeKeys, a set of keys
    documents,  \* the ReplicaEnvelopeKeys each authority put in its document
    restarted,  \* how many times an authority was restarted
    tallied,    \* history: the keys of the descriptors of some consensus
    stray       \* history: keys cached from a descriptor the tally left out, or lost
                \* in a restart, and not in a tally since

keysVars == <<epoch, phase, held, posted, ballots, cache, documents, restarted, tallied, stray>>

-----------------------------------------------------------------------------
ReplicaNow == epoch \div ReplicaEpochPeriod

KeysOf(R) == [replica : R, epoch : {ReplicaNow, ReplicaNow + 1}]

MinEpoch == IF ReplicaNow > 0 THEN ReplicaNow - 1 ELSE 0
MaxReplicaEpoch == ReplicaNow + 1

(* The result of buildReplicaEnvelopeKeys, and what it leaves in the cache: *)
(* the descriptors it is called with are cached first, whoever calls it.    *)
buildReplicaEnvelopeKeys(a, R) ==
    {k \in cache[a] \cup KeysOf(R) : k.epoch \in MinEpoch .. MaxReplicaEpoch}

(* Fault: an authority caches the descriptors it has itself received. *)
FaultyCached(a, R) == {k \in cache[a] \cup KeysOf(R \cap held[a]) : k.epoch >= MinEpoch}

Cached(a, R) == {k \in cache[a] \cup KeysOf(R) : k.epoch >= MinEpoch}

TallyThreshold == Cardinality(Authorities) \div 2 + 1

Tally == {r \in Replica : Cardinality({v \in ballots : r \in v.replicas}) >= TallyThreshold}

KeysInit ==
    /\ epoch = StartEpoch
    /\ phase = "descriptors"
    /\ held = [a \in Authorities |-> {}]
    /\ posted = {}
    /\ ballots = {}
    /\ cache = [a \in Authorities |-> {}]
    /\ documents = {}
    /\ restarted = 0
    /\ tallied = {}
    /\ stray = {}

-----------------------------------------------------------------------------
(* A replica that is online posts its descriptor; it reaches some authorities. *)
Upload(r) ==
    /\ phase = "descriptors"
    /\ r \notin posted
    /\ posted' = posted \cup {r}
    /\ \E A \in SUBSET Authorities \ {{}} :
          held' = [a \in Authorities |-> IF a \in A THEN held[a] \cup {r} ELSE held[a]]
    /\ UNCHANGED <<epoch, phase, ballots, cache, documents, restarted, tallied, stray>>

(* getVote: the document of the vote is made by getDocument as well. *)
getVote(a) ==
    /\ phase = "votes"
    /\ ~\E v \in ballots : v.from = a
    /\ ballots' = ballots \cup {[from |-> a, replicas |-> held[a]]}
    /\ cache' = [cache EXCEPT ![a] = Cached(a, held[a])]
    /\ UNCHANGED <<epoch, phase, held, posted, documents, restarted, tallied, stray>>

(* getCertificate and getMyConsensus: the document of the tallied descriptors. *)
MakeDocument(a) ==
    /\ phase = "consensus"
    /\ ~\E d \in documents : d.from = a
    /\ documents' = documents \cup {[from |-> a, keys |-> buildReplicaEnvelopeKeys(a, Tally)]}
    /\ cache' = [cache EXCEPT ![a] = Cached(a, Tally)]
    /\ tallied' = tallied \cup KeysOf(Tally)
    /\ stray' = (stray \cup KeysOf(held[a] \ Tally)) \ KeysOf(Tally)
    /\ UNCHANGED <<epoch, phase, held, posted, ballots, restarted>>

(* The schedule of the round. *)
EndOfUploads ==
    /\ phase = "descriptors"
    /\ phase' = "votes"
    /\ UNCHANGED <<epoch, held, posted, ballots, cache, documents, restarted, tallied, stray>>

EndOfVotes ==
    /\ phase = "votes" /\ \A a \in Authorities : \E v \in ballots : v.from = a
    /\ phase' = "consensus"
    /\ UNCHANGED <<epoch, held, posted, ballots, cache, documents, restarted, tallied, stray>>

NextEpoch ==
    /\ phase = "consensus" /\ \A a \in Authorities : \E d \in documents : d.from = a
    /\ epoch < MaxEpoch
    /\ epoch' = epoch + 1
    /\ phase' = "descriptors"
    /\ held' = [a \in Authorities |-> {}]
    /\ posted' = {} /\ ballots' = {} /\ documents' = {}
    /\ UNCHANGED <<cache, restarted, tallied, stray>>

(* An authority is restarted before the votes: the cache is not persisted, *)
(* and the uploads it accepted are not restored.                           *)
RestartAuthority(a) ==
    /\ phase = "descriptors" /\ restarted < MaxRestart
    /\ restarted' = restarted + 1
    /\ cache' = [cache EXCEPT ![a] = {}]
    /\ held' = [held EXCEPT ![a] = {}]
    /\ stray' = stray \cup cache[a]
    /\ UNCHANGED <<epoch, phase, posted, ballots, documents, tallied>>

KeysNext ==
    \/ EndOfUploads \/ EndOfVotes \/ NextEpoch
    \/ \E r \in Replica : Upload(r)
    \/ \E a \in Authorities : getVote(a) \/ MakeDocument(a) \/ RestartAuthority(a)

KeysSpec == KeysInit /\ [][KeysNext]_keysVars

-----------------------------------------------------------------------------
(* Properties.                                                             *)

Keys == [replica : Replica, epoch : Nat]

(* The shape of the state. *)
KeysTypeOK ==
    /\ epoch \in Nat /\ restarted \in Nat
    /\ phase \in {"descriptors", "votes", "consensus"}
    /\ held \in [Authorities -> SUBSET Replica]
    /\ posted \in SUBSET Replica
    /\ ballots \in SUBSET [from : Authorities, replicas : SUBSET Replica]
    /\ cache \in [Authorities -> SUBSET Keys]
    /\ documents \in SUBSET [from : Authorities, keys : SUBSET Keys]
    /\ tallied \in SUBSET Keys /\ stray \in SUBSET Keys

InWindow(k) == k.epoch \in {ReplicaNow - 1, ReplicaNow, ReplicaNow + 1}

(* "This map includes keys from replicas that are temporarily offline,      *)
(* using cached values from previous epochs" (core/pki/document.go:155): a  *)
(* key that was in a consensus is in every later document as long as its    *)
(* replica epoch is the previous, the current or the next one, unless the   *)
(* authority that makes it was restarted.                                   *)
OfflineKeysAreKept ==
    restarted = 0 =>
        \A d \in documents : \A k \in tallied : InWindow(k) => k \in d.keys

(* The documents of a round are the same once no stray key is left in the    *)
(* window: the split that an upload to a minority or a restart makes in the *)
(* caches ends when the replica is tallied again or its keys expire, and    *)
(* nothing else in two calls of buildReplicaEnvelopeKeys makes one.         *)
SplitsEnd ==
    (\A k \in stray : ~InWindow(k)) => \A d1, d2 \in documents : d1.keys = d2.keys

(* "Caching happens after the tally in buildReplicaEnvelopeKeys, so only    *)
(* keys from consensus-agreed descriptors are cached.  This ensures         *)
(* deterministic document generation across authorities"                    *)
(* (authority/voting/server/state.go:2329-2331).                            *)
DeterministicKeys ==
    restarted = 0 => \A d1, d2 \in documents : d1.keys = d2.keys
===============================================================================
