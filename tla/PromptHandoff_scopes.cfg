SPECIFICATION Spec
CONSTANTS
  t1 = t1  t2 = t2  odin = odin  tyr = tyr  nornir = nornir  docs = docs
  Terminals = {t1, t2}
  Personas = {odin, tyr}
  Workspaces = {nornir, docs}
  None = None
  Part = Part
  MaxPicks = 2
  MaxSessions = 4
  MaxMishaps = 1
  Scopes <- MCScopes
SYMMETRY Interchangeable
INVARIANTS InjectedIsOwn Reinjected SpecLaunchesOnce
CHECK_DEADLOCK FALSE
