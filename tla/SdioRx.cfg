\* Every interleaving of the two tasks with all kinds of packets, which are
\* worked off; throttling ends.
CONSTANTS
  Bufs = {b1, b2}
  Configs <- MCTwoBufConfigs
  MaxPkts = 4
  MaxCloses = 1
SPECIFICATION FairSpec
INVARIANT TypeOK
INVARIANT BuffersConserved
INVARIANT SemCountsQueued
INVARIANT ReadFindsPacket
PROPERTY ThrottlingEnds
PROPERTY BuffersReturn
CHECK_DEADLOCK FALSE
