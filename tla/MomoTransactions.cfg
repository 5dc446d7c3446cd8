\* One collection reference asked for twice, one disbursement under the same
\* externalId; two requests and two overlapping reconciliation runs.
CONSTANTS
  Refs = {r1, r2}
  Orders = {c1, c2, d1}
  TypeOf <- MCTypeOf
  ExtOf <- MCExtOf
  MoneyOf <- MCMoneyOf
  Requests = {h1, h2}
  Runs = {run1, run2}
  Route = "COLLECTION"
  NoRef = NoRef
  NoOrder = NoOrder
  c1 = c1
  c2 = c2
  d1 = d1
  d3 = d3
  e1 = e1
  m1 = m1
  m2 = m2
SPECIFICATION Spec
SYMMETRY Sym
INVARIANTS TypeOK OneChargePerReference ReservedBeforePost TruthfulStatus
PROPERTIES FinalForever
