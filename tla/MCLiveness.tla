----------------------------- MODULE MCLiveness -----------------------------
(* What must eventually happen in the two backend modules. They share no      *)
(* state: each is explored, under its own fairness, beside the other's first  *)
(* state.                                                                     *)
EXTENDS MCMomoTransactions

CONSTANTS Ids, Keys, Payments, Txs, Handlers, NoId, NoTx

VARIABLES intents, clients, sent, outcome
payments == <<intents, clients, sent, outcome>>

(* Every envelope makes the one payment there is.                             *)
OnePays == [t \in Txs |-> CHOOSE pay \in Payments : TRUE]
P == INSTANCE PaymentIntents WITH handlers <- clients, Pays <- OnePays

VARIABLE at   \* the module that is explored

InitLiveness == Init /\ P!Init /\ at \in {"momo", "payments"}

NextLiveness ==
  \/ at = "momo" /\ Next /\ UNCHANGED <<payments, at>>
  \/ at = "payments" /\ P!Next /\ UNCHANGED <<vars, at>>

SpecLiveness ==
  /\ InitLiveness /\ [][NextLiveness]_<<vars, payments, at>>
  /\ \/ at = "momo" /\ Fairness
     \/ at = "payments" /\ P!Fairness

(* See PaymentIntents.                                                        *)
PollIsAnswered == P!PollIsAnswered
=============================================================================
