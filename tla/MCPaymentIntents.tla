-------------------------- MODULE MCPaymentIntents --------------------------
(* Small instances of PaymentIntents: t1 and t2 make the same payment (a      *)
(* payment built and signed twice), any further envelope makes another one.   *)
EXTENDS PaymentIntents, TLC

CONSTANTS t1, t2, pA, pB

MCPays == [t \in Txs |-> IF t \in {t1, t2} THEN pA ELSE pB]
Sym == Permutations(Handlers) \cup Permutations(Ids) \cup Permutations(Keys)
=============================================================================
