\* Two callers of two products, tokens of five ticks with a buffer of two and
\* fetches of one; two clients and two sessions over maps with room for one.
CONSTANTS
  Products = {collection, disbursement}
  Callers = {p1, p2}
  Timeout = 1
  Buffer = 2
  Lifetime = 5
  MaxTime = 6
  Clients = {c1, c2}
  Sids = {s1, s2}
  Limit = 2
  Window = 2
  ClientRoom = 1
  Patience = 1
  SessionRoom = 1
SPECIFICATION SpecInstance
SYMMETRY Sym
INVARIANTS InstanceTypeOK TokenOutlivesCall LimitKept
CHECK_DEADLOCK FALSE
