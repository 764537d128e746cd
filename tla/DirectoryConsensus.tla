-------------------------- MODULE DirectoryConsensus --------------------------
(***************************************************************************)
(* What the directory authorities promise together: at most one consensus  *)
(* document per epoch, for ever, and whatever an authority holds is one of *)
(* those documents.  How a document is decided is left open.               *)
(***************************************************************************)
CONSTANT Authority

VARIABLES
    decided,    \* the documents decided so far, records with an epoch
    held        \* per authority: the documents it can serve or has on disk

OnePerEpoch(S) == \A d1, d2 \in S : d1.epoch = d2.epoch => d1 = d2

Init ==
    /\ decided = {}
    /\ held = [a \in Authority |-> {}]

(* Authority a learns of document d, a new one or one decided before, and   *)
(* may drop some of those it holds.                                         *)
Learn(a) ==
    \E d \in decided' :
        /\ decided' = decided \cup {d}
        /\ OnePerEpoch(decided')
        /\ held'[a] \subseteq held[a] \cup {d}
        /\ held' = [held EXCEPT ![a] = held'[a]]

(* Authority a drops old documents, or loses them in a crash. *)
Forget(a) ==
    /\ held'[a] \subseteq held[a]
    /\ held' = [held EXCEPT ![a] = held'[a]]
    /\ UNCHANGED decided

Next == \E a \in Authority : Learn(a) \/ Forget(a)

Spec == Init /\ [][Next]_<<decided, held>>
===============================================================================
