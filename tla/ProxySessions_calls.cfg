SPECIFICATION Spec
CONSTANTS
  a = a  b = b  a1 = a1  a2 = a2   b1 = b1
  unknown = unknown  off = off
  Sessions = {a, b}
  NoId = unknown
  Dir <- MCDir
  Requests = {a1, a2, b1}
  Session <- MCSession
  Shows <- MCShows
  Unknown = "unknown"
  NoRequest = off
  MaxStarts = 1
  MaxDeaths = 1
  MaxRestarts = 1
  MaxFaults = 2
INVARIANTS OneWatcher LinkedOnceKnown WorkspaceKept
CHECK_DEADLOCK FALSE
