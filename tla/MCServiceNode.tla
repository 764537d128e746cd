------------------------------ MODULE MCServiceNode ------------------------------
EXTENDS ServiceNode, TLC
CONSTANTS m1, m2, w1, e1, e2
ThePlugins == <<e1, e2>>
ThePackets == {m1, m2}
TheTo == m1 :> e1 @@ m2 :> Echo
Play(c, h, st, f, si, o) == [crash |-> c, hang |-> h, stop |-> st, fail |-> f, silent |-> si, stale |-> o]
Troubles == {Play(1, 0, 0, 1, 0, 0), Play(0, 1, 0, 0, 0, 1), Play(0, 0, 1, 0, 1, 0)}
==============================================================================
