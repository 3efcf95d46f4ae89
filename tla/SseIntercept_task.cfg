SPECIFICATION FairSpec
CONSTANTS
  Streams <- ShortAndWhole
  Index = {0, 1, 2}
  Capacity = 1
  MayBreak = TRUE
  MayClose = TRUE
  MaxLogFaults = 1
INVARIANTS ThinkingDiverted
PROPERTIES ImplementsFilter EverythingDelivered
CHECK_DEADLOCK FALSE
