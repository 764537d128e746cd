CONSTANTS
 m1 = m1
 m2 = m2
 w1 = w1
 e1 = e1
 e2 = e2
 Echo = echo
 NoPacket = NoPacket
 Plugins <- ThePlugins
 Packets <- ThePackets
 To <- TheTo
 Workers = {w1}
 Size = 3
 MaxLaunches = 3
 MayLag = TRUE
 ServiceScenarios <- Troubles
SPECIFICATION ServiceFairSpec
INVARIANTS AdvertisedIsServed
PROPERTIES OthersAreServed
CHECK_DEADLOCK FALSE
