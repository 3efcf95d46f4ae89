SPECIFICATION FairSpec
CONSTANTS
  m1 = m1  m2 = m2
  Datagrams = {m1, m2}
  Kinds <- MCKinds
  r1 = r1  r2 = r2
  Recorders = {r1, r2}
  None = None
  MaxFaults = 1
  MaxStarts = 2
INVARIANTS RunningIsReachable ArchiveInOrder NeverSilent
PROPERTIES WrittenIsArchived
CHECK_DEADLOCK FALSE
