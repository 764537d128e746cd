--------------------------- MODULE DescriptorUpload ---------------------------
(***************************************************************************)
(* How the descriptor of a node (a mix, a gateway, a service node or a     *)
(* storage replica) for the next epoch gets to the directory authorities:  *)
(* the node posts it to every authority in rounds, until a majority has    *)
(* accepted it or refused it or the upload window closes                   *)
(* (authority/voting/client); an authority checks an upload under the      *)
(* read lock, writes it to persistence.db without a lock, and adds it to   *)
(* its map under the write lock (onDescriptorUpload, and the same steps in *)
(* onReplicaDescriptorUpload), in a goroutine per connection.              *)
(*                                                                         *)
(* One node and one epoch: nothing that is kept for another node or        *)
(* another epoch is read or written on the way.                            *)
(***************************************************************************)
EXTENDS Integers, FiniteSets

CONSTANTS
    Authority,      \* cfg.Authorities
    Descriptor,     \* the descriptors the node may make, in one life or another
    MaxTries,       \* bound: how many attempts the node makes at each authority
    MaxCrash,       \* bound: how many crashes the authorities have
    MaxReconfigure  \* bound: how many times the node is restarted

ASSUME AuthorityAssumption == IsFiniteSet(Authority)
ASSUME DescriptorAssumption == Descriptor # {}

VARIABLES
    closed,     \* the upload window of the epoch has closed
    desc,       \* the descriptor the node makes from its keys and configuration
    posting,    \* the node is in postDescriptorWithCompletionRounds
    peer,       \* per authority: the state of the node's upload to it
    tries,      \* per authority: how many attempts there have been
    verdict,    \* what made the node advance lastPublishedEpoch, "none" before
    restarts,   \* how many times the node has been restarted
    up,         \* the authorities whose process runs
    crashes,    \* how many crashes there have been
    handlers,   \* the running goroutines of onPostDescriptor
    mem,        \* per authority: descriptors[epoch][pk], a set of at most one
    disk,       \* per authority: what the bucket of the epoch has under pk
    document,   \* the authorities that have a document for the epoch
    acked,      \* history: who answered DescriptorOk to which descriptor
    votes       \* history: the vote of each authority, as far as the node goes

nodeVars == <<desc, posting, peer, tries, verdict, restarts>>
authVars == <<up, crashes, mem, disk, document, votes>>
vars     == <<closed, nodeVars, authVars, handlers, acked>>

-----------------------------------------------------------------------------
(* The bytes.  What is posted and persisted is a SignedUpload; what the     *)
(* handler compares it with, and what a restart reads it back as, is the    *)
(* bare descriptor.  CBOR ignores unknown fields: a SignedUpload read as a  *)
(* descriptor is an empty one, whose identity key has another hash.         *)
SignedUpload(d)  == [signed |-> TRUE, descriptor |-> d]
MarshalBinary(d) == [signed |-> FALSE, descriptor |-> d]

Restored(raw) == {r.descriptor : r \in {r \in raw : ~r.signed}}

Threshold == Cardinality(Authority) \div 2 + 1

Peers(s) == {a \in Authority : peer[a] = s}

(* Fault: an attempt that failed counts as one that was refused. *)
FaultyConflicts == Cardinality(Peers("conflict") \cup Peers("incomplete"))

Accepted   == Cardinality(Peers("accepted"))
Conflicts  == Cardinality(Peers("conflict"))
Incomplete == Cardinality(Peers("incomplete"))

Init ==
    /\ closed = FALSE
    /\ desc \in Descriptor
    /\ posting = FALSE
    /\ peer = [a \in Authority |-> "incomplete"]
    /\ tries = [a \in Authority |-> 0]
    /\ verdict = "none"
    /\ restarts = 0
    /\ up = Authority
    /\ crashes = 0
    /\ handlers = {}
    /\ mem = [a \in Authority |-> {}]
    /\ disk = [a \in Authority |-> {}]
    /\ document = {}
    /\ acked = {}
    /\ votes = {}

-----------------------------------------------------------------------------
(* The node.                                                               *)

(* publishDescriptorIfNeeded: not published yet and the window is open. *)
StartPost ==
    /\ ~posting /\ verdict = "none" /\ ~closed
    /\ posting' = TRUE
    /\ peer' = [a \in Authority |-> "incomplete"]
    /\ UNCHANGED <<closed, desc, tries, verdict, restarts, authVars, handlers, acked>>

(* The loop of postDescriptorWithCompletionRounds ends: everybody answered, *)
(* a majority refused, a majority cannot be had any more, or time is over.  *)
Finished ==
    \/ closed
    \/ Incomplete = 0
    \/ Conflicts >= Threshold
    \/ Accepted < Threshold /\ Accepted + Incomplete < Threshold

(* runPostRound: an attempt at each authority that is due for one. *)
PostRound ==
    /\ posting /\ Peers("waiting") = {} /\ ~Finished
    /\ \E R \in SUBSET {a \in Peers("incomplete") : tries[a] < MaxTries} :
          /\ R # {}
          /\ peer' = [a \in Authority |-> IF a \in R THEN "waiting" ELSE peer[a]]
          /\ tries' = [a \in Authority |-> IF a \in R THEN tries[a] + 1 ELSE tries[a]]
          /\ handlers' = handlers \cup
                {[auth |-> a, try |-> tries[a] + 1, desc |-> desc, phase |-> "check"] :
                    a \in R \cap up}
    /\ UNCHANGED <<closed, desc, posting, verdict, restarts, authVars, acked>>

(* A transport error: no connection, or no reply in time.  The authority    *)
(* may never see the command, or go on with it.                             *)
TransportError(a) ==
    /\ peer[a] = "waiting"
    /\ peer' = [peer EXCEPT ![a] = "incomplete"]
    /\ \/ UNCHANGED handlers
       \/ handlers' = {h \in handlers : h.auth # a \/ h.try # tries[a] \/ h.phase # "check"}
    /\ UNCHANGED <<closed, desc, posting, tries, verdict, restarts, authVars, acked>>

(* Post returns: a majority accepted, a majority refused (ErrInvalidPostEpoch, *)
(* which also ends the uploads for the epoch), or it failed and is tried again. *)
FinishPost ==
    /\ posting /\ Peers("waiting") = {} /\ Finished
    /\ posting' = FALSE
    /\ verdict' = CASE Accepted >= Threshold -> "accepted"
                    [] Accepted < Threshold /\ Conflicts >= Threshold -> "conflict"
                    [] OTHER -> "none"
    /\ UNCHANGED <<closed, desc, peer, tries, restarts, authVars, handlers, acked>>

(* The node is restarted, perhaps with other addresses or services. *)
Reconfigure ==
    /\ restarts < MaxReconfigure
    /\ restarts' = restarts + 1
    /\ desc' \in Descriptor
    /\ posting' = FALSE
    /\ verdict' = "none"
    /\ peer' = [a \in Authority |-> "incomplete"]
    /\ UNCHANGED <<closed, tries, authVars, handlers, acked>>

-----------------------------------------------------------------------------
(* The authority: onPostDescriptor and onDescriptorUpload.                 *)

(* The handler answers; the node hears it if it still waits for this try. *)
Answer(h, code) ==
    LET a == h.auth IN
    /\ peer' = IF peer[a] = "waiting" /\ tries[a] = h.try
               THEN [peer EXCEPT ![a] = code] ELSE peer
    /\ handlers' = handlers \ {h}
    /\ acked' = IF code = "accepted" THEN acked \cup {[auth |-> a, desc |-> h.desc]} ELSE acked

Goto(h, phase) ==
    /\ handlers' = (handlers \ {h}) \cup {[h EXCEPT !.phase = phase]}
    /\ UNCHANGED <<peer, acked>>

(* Phase 1, under the read lock: is there a descriptor, the same or another, *)
(* or a document already?                                                    *)
Check(h) ==
    LET a == h.auth
        Same(d) == MarshalBinary(d) = SignedUpload(h.desc)
    IN
    /\ h.phase = "check"
    /\ \/ /\ mem[a] # {}
          /\ \A d \in mem[a] : Answer(h, IF Same(d) THEN "accepted" ELSE "conflict")
       \/ /\ mem[a] = {} /\ a \in document
          /\ Answer(h, "conflict")
       \/ /\ mem[a] = {} /\ a \notin document
          /\ Goto(h, "persist")
    /\ UNCHANGED <<closed, desc, posting, tries, verdict, restarts, authVars>>

(* Phase 2, without the lock: the upload is put under the node's key. *)
Persist(h) ==
    /\ h.phase = "persist"
    /\ disk' = [disk EXCEPT ![h.auth] = {SignedUpload(h.desc)}]
    /\ Goto(h, "store")
    /\ UNCHANGED <<closed, desc, posting, tries, verdict, restarts,
                   up, crashes, mem, document, votes>>

(* Fault: nothing is added. *)
FaultyAddedNone(a, d) == mem[a]

(* Phase 3, under the write lock: if another goroutine already added one, *)
(* that's fine.                                                           *)
Added(a, d) == IF mem[a] = {} THEN {d} ELSE mem[a]

StoreDescriptor(h) ==
    /\ h.phase = "store"
    /\ mem' = [mem EXCEPT ![h.auth] = Added(h.auth, h.desc)]
    /\ Answer(h, "accepted")
    /\ UNCHANGED <<closed, desc, posting, tries, verdict, restarts,
                   up, crashes, disk, document, votes>>

Handle(h) == Check(h) \/ Persist(h) \/ StoreDescriptor(h)

-----------------------------------------------------------------------------
(* The rest of the authority, and the environment.                         *)

(* The upload window closes; the node gives up the attempts it waits for. *)
CloseWindow ==
    /\ ~closed
    /\ closed' = TRUE
    /\ peer' = [a \in Authority |-> IF peer[a] = "waiting" THEN "incomplete" ELSE peer[a]]
    /\ UNCHANGED <<desc, posting, tries, verdict, restarts, authVars, handlers, acked>>

(* getVote: the authority votes for the descriptor it has, once. *)
Vote(a) ==
    /\ closed /\ a \in up
    /\ ~\E v \in votes : v.from = a
    /\ votes' = votes \cup {[from |-> a, descs |-> mem[a]]}
    /\ UNCHANGED <<closed, nodeVars, up, crashes, mem, disk, document, handlers, acked>>

(* The consensus of the epoch is persisted and stored. *)
Publish(a) ==
    /\ a \in up /\ a \notin document
    /\ \E v \in votes : v.from = a
    /\ document' = document \cup {a}
    /\ UNCHANGED <<closed, nodeVars, up, crashes, mem, disk, votes, handlers, acked>>

Crash(a) ==
    /\ a \in up /\ crashes < MaxCrash
    /\ up' = up \ {a}
    /\ crashes' = crashes + 1
    /\ mem' = [mem EXCEPT ![a] = {}]
    /\ handlers' = {h \in handlers : h.auth # a}
    /\ UNCHANGED <<closed, nodeVars, disk, document, votes, acked>>

(* restorePersistence. *)
Restart(a) ==
    /\ a \notin up
    /\ up' = up \cup {a}
    /\ mem' = [mem EXCEPT ![a] = Restored(disk[a])]
    /\ UNCHANGED <<closed, nodeVars, crashes, disk, document, votes, handlers, acked>>

Next ==
    \/ StartPost \/ PostRound \/ FinishPost \/ Reconfigure \/ CloseWindow
    \/ \E h \in handlers : Handle(h)
    \/ \E a \in Authority :
          TransportError(a) \/ Vote(a) \/ Publish(a) \/ Crash(a) \/ Restart(a)

Spec == Init /\ [][Next]_vars

-----------------------------------------------------------------------------
(* Properties.                                                             *)

(* The shape of the state: one descriptor and one upload at most per        *)
(* authority, and at most one handler per attempt.                          *)
Phases   == {"check", "persist", "store"}
Verdicts == {"none", "accepted", "conflict"}

AtMostOne(S) == \A x, y \in S : x = y

TypeOK ==
    /\ closed \in BOOLEAN /\ posting \in BOOLEAN
    /\ desc \in Descriptor
    /\ peer \in [Authority -> {"incomplete", "waiting", "accepted", "conflict"}]
    /\ tries \in [Authority -> Nat]
    /\ verdict \in Verdicts
    /\ restarts \in Nat /\ crashes \in Nat
    /\ up \in SUBSET Authority /\ document \in SUBSET Authority
    /\ handlers \in SUBSET [auth : up, try : Nat, desc : Descriptor, phase : Phases]
    /\ mem \in [Authority -> SUBSET Descriptor]
    /\ disk \in [Authority -> SUBSET {SignedUpload(d) : d \in Descriptor}]
    /\ acked \in SUBSET [auth : Authority, desc : Descriptor]
    /\ votes \in SUBSET [from : Authority, descs : SUBSET Descriptor]
    /\ \A a \in Authority : AtMostOne(mem[a]) /\ AtMostOne(disk[a])
    /\ \A g, h \in handlers : g.auth = h.auth /\ g.try = h.try => g = h

(* A node that has stopped posting is in the votes of a majority, with a    *)
(* descriptor of its own: whatever replies were lost, whatever uploads      *)
(* overlapped, and even if it stopped because a majority refused it, as     *)
(* long as no authority crashed (publishDescriptorIfNeeded,                 *)
(* onDescriptorUpload).                                                     *)
StoppedIsVotedFor ==
    verdict # "none" /\ crashes = 0 =>
        Cardinality({v \in votes : v.descs = {}}) + Threshold <= Cardinality(Authority)

(* While an authority runs, what it has of a node is not taken back or      *)
(* replaced by an overlapping upload that ends later (phase 3).             *)
Keeps == \A a \in up \cap up' : mem[a] # {} => mem'[a] = mem[a]

NeverReplaced == [][Keeps]_vars

(* An authority answers DescriptorOk only when it has a descriptor of the   *)
(* node in memory and on disk; a crash may take the first, never the second. *)
AckedIsKept ==
    \A r \in acked : /\ disk[r.auth] # {}
                     /\ crashes = 0 => mem[r.auth] # {}

(* "Redundant uploads that don't change are harmless"                       *)
(* (authority/voting/server/state.go:2384): nobody refuses what it has.     *)
RedundantIsHarmless ==
    \A a \in Authority : peer[a] = "conflict" => mem[a] # {desc}

(* "The database was previously initialised; restore persisted state"       *)
(* (authority/voting/server/state.go:2503): an authority that runs has in   *)
(* memory the descriptor it persisted.                                      *)
PersistedIsRestored ==
    \A a \in up : disk[a] # {} /\ (\A h \in handlers : h.auth # a) => mem[a] # {}

(* "If the descriptor changes, then it will be rejected to prevent nodes    *)
(* from reneging on uploads" (authority/voting/server/state.go:2373): an    *)
(* authority accepts one descriptor of the node for the epoch.              *)
OneAccepted ==
    \A r1, r2 \in acked : r1.auth = r2.auth => r1.desc = r2.desc
=============================================================================
