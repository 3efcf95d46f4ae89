SPECIFICATION FairSpec
CONSTANTS
  m1 = m1  m2 = m2  c1 = c1  c2 = c2  s1 = s1  s2 = s2  u1 = u1
  Torn = Torn  NoRequest = NoRequest
  Requests = {m1, m2, c1, s1}
  Body <- MCBody
  Overlap <- Subagents
  MaxCrashes = 1
  MaxFaults = 1
INVARIANTS RawFirst LatestExchangeRecoverable
PROPERTIES EveryRequestForwarded
CHECK_DEADLOCK FALSE
