\* Mobile money: a collection and a disbursement, one request and one
\* reconciliation run. Wallet payments: one intent, two envelopes for it, two
\* concurrent requests. Under the fairness of either module.
CONSTANTS
  Refs = {r1, r2}
  Orders = {c1, d1}
  TypeOf <- MCTypeOf
  ExtOf <- MCExtOf
  MoneyOf <- MCMoneyOf
  Requests = {h1}
  Runs = {run1}
  Route = "COLLECTION"
  NoRef = NoRef
  NoOrder = NoOrder
  c1 = c1
  c2 = c2
  d1 = d1
  d3 = d3
  e1 = e1
  m1 = m1
  m2 = m2
  Ids = {i1}
  Keys = {k1}
  Payments = {pA}
  Txs = {t1, t2}
  Handlers = {s1, s2}
  NoId = NoId
  NoTx = NoTx
SPECIFICATION SpecLiveness
PROPERTIES PendingResolves PollIsAnswered
CHECK_DEADLOCK FALSE
