\* Two intents, two keys, two payments, three envelopes, two concurrent requests.
CONSTANTS
  Ids = {i1, i2}
  Keys = {k1, k2}
  Payments = {pA, pB}
  Txs = {t1, t2, t3}
  Handlers = {h1, h2}
  Pays <- MCPays
  NoId = NoId
  NoTx = NoTx
  t1 = t1
  t2 = t2
  pA = pA
  pB = pB
SPECIFICATION Spec
SYMMETRY Sym
INVARIANTS OnePaymentPerKey NoSharedSettlement ClaimedBeforeBroadcast TruthfulStatus IInv
PROPERTIES SettledForever ImplementsSettlement
