SPECIFICATION ReplaySpec
CONSTANTS
  m1 = m1  m2 = m2  c1 = c1  c2 = c2  s1 = s1  s2 = s2  u1 = u1
  Torn = Torn  NoRequest = NoRequest
  Requests = {m1, m2, c1, c2, s1, u1}
  Body <- MCBody
  Overlap <- Subagents
  MaxCrashes = 1
  MaxFaults = 1
  MaxReplays = 2
  DERIVED_FILES <- MCDerivedFiles
INVARIANTS ReplayRebuilds ReplayKeepsReferences
CONSTRAINT Sessions
CHECK_DEADLOCK FALSE
