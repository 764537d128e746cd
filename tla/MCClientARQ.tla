------------------------------ MODULE MCClientARQ ------------------------------
(* Instances of ClientARQ for TLC. *)
EXTENDS ClientARQ
CONSTANTS aRead, aWrite, aStrict, aCopy, aPlain
OneOfEach == {aRead, aWrite, aStrict, aCopy, aPlain}
KindOfEach ==
    [m \in OneOfEach |->
        CASE m = aRead -> "read" [] m = aWrite -> "write" [] m = aStrict -> "strict"
          [] m = aCopy -> "copy" [] m = aPlain -> "plain"]
OwnHash  == [m \in OneOfEach |-> m]
SameHash == [m \in OneOfEach |-> aRead]

Calm == [wants |-> {aRead}, losses |-> 0, fails |-> 0, cancels |-> 0, waits |-> 0, refusals |-> 0,
         drops |-> 0, resumes |-> 0, late |-> 0, slow |-> FALSE]
Wanting(W) == [Calm EXCEPT !.wants = W]
Everyday ==
    {[Wanting({aRead, aCopy})   EXCEPT !.losses = 2, !.waits = 1],
     [Wanting({aCopy, aStrict}) EXCEPT !.losses = 1, !.cancels = 2],
     [Wanting({aWrite, aRead})  EXCEPT !.losses = 1, !.fails = 1],
     [Wanting({aPlain, aRead})  EXCEPT !.losses = 1, !.fails = 1],
     [Wanting({aPlain})         EXCEPT !.drops = 1, !.resumes = 1],
     [Wanting({aStrict, aRead}) EXCEPT !.drops = 1, !.refusals = 1],
     [Wanting({aRead, aCopy})   EXCEPT !.slow = TRUE, !.late = 1, !.cancels = 1]}
Resumes       == {[Calm EXCEPT !.drops = 1, !.resumes = 1]}
Late          == {[Wanting({aWrite}) EXCEPT !.slow = TRUE, !.late = 1]}
CannotCompose == {[Calm EXCEPT !.fails = 1, !.cancels = 1]}
Cancels       == {[Calm EXCEPT !.cancels = 1]}
Leaves        == {[Calm EXCEPT !.drops = 1]}
PlainOnly     == {Wanting({aPlain})}
Twins         == {Wanting({aRead, aCopy})}
=============================================================================
