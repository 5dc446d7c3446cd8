CONSTANTS
  Keys = {k1, k2, f1}
  Foreign = {f1}
  Tabs = {w1}
  None = None
  MaxTime = 1
SPECIFICATION SpecPages
SYMMETRY Sym
INVARIANTS BlockedIsFundable
