SPECIFICATION WatchFairSpec
CONSTANTS
  N = 4
  Size <- MCSize
  Messages <- MCMessages
  Blocks <- MCBlocks
  Paced = TRUE
  MaxCompactions = 2
  MaxRestarts = 1
  MaxReplays = 1
  MaxReplayed = 3
INVARIANT LogFollowed
PROPERTIES DatagramsConsecutive EveryExchangeSeen
CHECK_DEADLOCK FALSE
