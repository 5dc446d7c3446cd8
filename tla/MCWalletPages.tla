---------------------------- MODULE MCWalletPages ----------------------------
(* Small instances of WalletPages, and of WalletSession within it.            *)
EXTENDS WalletPages, TLC

(* Keys generated here, and those brought along, are alike.                   *)
Sym == Permutations(Keys \ Foreign) \cup Permutations(Foreign)
=============================================================================
