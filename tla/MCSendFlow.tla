----------------------------- MODULE MCSendFlow -----------------------------
(* Small instances of SendFlow.                                               *)
EXTENDS SendFlow, TLC

Sym == Permutations(Ids) \cup Permutations(Tabs)
=============================================================================
