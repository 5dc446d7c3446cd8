--------------------------- MODULE MCWalletSession ---------------------------
(* Small instances of WalletSession.                                          *)
EXTENDS WalletSession
=============================================================================
