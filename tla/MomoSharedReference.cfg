\* A collection and a disbursement of the same amount under one externalId.
CONSTANTS
  Refs = {r1, r2}
  Orders = {c1, d3}
  TypeOf <- MCTypeOf
  ExtOf <- MCExtOf
  MoneyOf <- MCMoneyOf
  Requests = {h1, h2}
  Runs = {run1}
  Route = "COLLECTION"
  NoRef = NoRef
  NoOrder = NoOrder
  c1 = c1
  c2 = c2
  d1 = d1
  d3 = d3
  e1 = e1
  m1 = m1
  m2 = m2
SPECIFICATION Spec
INVARIANTS TruthfulStatus
