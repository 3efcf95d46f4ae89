SPECIFICATION Spec
CONSTANTS
  b = b  r = r  x = x  g = g  h = h  k = k  c = c  d = d  y = y
  report = report  glossary = glossary  toml = toml
  Procs = {b, r, x, g, h, k, c, d, y}
  Job <- MCJob
  Valid <- MCValid
  BatchMax = 2
  NL = NL  None = None
  MaxFaults = 2
  MaxDeletes = 2
  Together <- MCTogether
INVARIANTS DocumentsWhole NeverOverwritten BatchInOrder
CHECK_DEADLOCK FALSE
