------------------------------ MODULE MCDirectory ------------------------------
(* Small instances of DescriptorUpload, of EnvelopeKeys and of WireSession for TLC.  They
   have no state in common: a behaviour is one of the component that part names, and the
   variables of the others keep their initial values. *)
EXTENDS DescriptorUpload, EnvelopeKeys, WireSession, TLC

CONSTANTS
    a1, a2, d1, d2,             \* model values
    k1, k2, k3, r1,
    g1, g2, g3

TwoAuthorities == {a1, a2}
OneAuthority   == {a1}
OneDescriptor  == {d1}
TwoDescriptors == {d1, d2}

KeysAuthorities == {k1, k2, k3}
OneReplica      == {r1}

OneEach  == {g1, g2}
TwoOnOne == {g1, g2, g3}
Commands == [c \in Senders |-> IF c = g1 THEN 2 ELSE 1]
TheHomes == [c \in Senders |-> IF c = g1 THEN "initiator" ELSE "responder"]

VARIABLE part

InitAll ==
    /\ part \in {"upload", "keys", "wire"} /\ Init /\ KeysInit /\ SessionInit
    /\ part # "upload" => desc = d1
    /\ part # "wire" => \A s \in Sides : valid[s]
NextAll ==
    \/ part = "upload" /\ Next /\ UNCHANGED <<part, keysVars, wireVars>>
    \/ part = "keys" /\ KeysNext /\ UNCHANGED <<part, vars, wireVars>>
    \/ part = "wire" /\ SessionNext /\ UNCHANGED <<part, vars, keysVars>>
SpecAll == InitAll /\ [][NextAll]_<<part, vars, keysVars, wireVars>>
================================================================================
