SPECIFICATION Spec
CONSTANTS
  m1 = m1  m2 = m2  c1 = c1  c2 = c2  s1 = s1  s2 = s2  u1 = u1
  Torn = Torn  NoRequest = NoRequest
  Requests = {s1, s2}
  Body <- MCBody
  Overlap <- Subagents
  MaxCrashes = 0
  MaxFaults = 0
INVARIANTS OneRecordPerLine
CHECK_DEADLOCK FALSE
