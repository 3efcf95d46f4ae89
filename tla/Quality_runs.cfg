SPECIFICATION FairSpec
CONSTANTS
  py = py  rs = rs  tmp = tmp  empty = empty  bad = bad  odd = odd
  h1 = h1  h2 = h2  dir = dir  i1 = i1  i2 = i2
  Sources = {py, rs}
  Python = {py}
  Tests = {}
  Temp = tmp
  Versions = {bad, odd}
  Found <- MCFound
  Warn = {"blocked", "layer"}
  Deny = {"blocked"}
  Hooks = {h1, h2}
  Directory = dir
  Inputs = {i1, i2}
  Casts <- MCCasts
  Starts <- MCStarts
  Absent = Absent  Empty = empty  None = None  NoReport = NoReport  Torn = Torn
  MaxEdits = 2
  MaxKills = 1
INVARIANTS ReportedWasThere SidecarTrue
PROPERTIES GateSound EditIsFiled
CHECK_DEADLOCK FALSE
