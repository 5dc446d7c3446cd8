\* Two tabs of one wallet.
CONSTANTS
  Ids = {i1, i2, i3}
  Tabs = {w1, w2}
  None = None
SPECIFICATION Spec
SYMMETRY Sym
INVARIANTS PendingRemembered
