------------------------- MODULE MCMomoTransactions -------------------------
(* Small instances of MomoTransactions. c1 and c2 are one collection          *)
(* reference asked for with two payers; d1 is a disbursement under the same   *)
(* externalId, for another amount; d3 one for the same amount.                *)
EXTENDS MomoTransactions, TLC

CONSTANTS c1, c2, d1, d3, e1, m1, m2

MCTypeOf  == [o \in Orders |-> IF o \in {c1, c2} THEN "COLLECTION" ELSE "DISBURSEMENT"]
MCExtOf   == [o \in Orders |-> e1]
MCMoneyOf == [o \in Orders |-> IF o = d1 THEN m2 ELSE m1]
Sym == Permutations(Refs) \cup Permutations(Requests) \cup Permutations(Runs)
=============================================================================
