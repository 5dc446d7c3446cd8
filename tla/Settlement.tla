----------------------------- MODULE Settlement -----------------------------
(* What AfriPay promises about a payment intent, without saying how: an       *)
(* intent is opened once, is bound to at most one transaction, no two intents *)
(* share a transaction, and the status leaves PENDING once, for the outcome   *)
(* the Stellar ledger recorded for that transaction.                          *)
(* PaymentIntents (the request handlers over the table) implements it.        *)
EXTENDS Naturals

CONSTANTS Ids,   \* identifiers an intent may get
          Txs,   \* signed transactions, named by their hash
          NoTx   \* an intent's transaction_hash before the claim

VARIABLES status,   \* [Ids -> "ABSENT" | "PENDING" | "SUCCEEDED" | "FAILED"]
          bound,    \* [Ids -> Txs or NoTx]
          outcome   \* [Txs -> what the ledger decided]
vars == <<status, bound, outcome>>

Included == {"SUCCEEDED", "FAILED"}

Init ==
  /\ status  = [i \in Ids |-> "ABSENT"]
  /\ bound   = [i \in Ids |-> NoTx]
  /\ outcome = [t \in Txs |-> "UNDECIDED"]

Open(i) ==
  /\ status[i] = "ABSENT"
  /\ status' = [status EXCEPT ![i] = "PENDING"]
  /\ UNCHANGED <<bound, outcome>>

Bind(i, t) ==
  /\ status[i] = "PENDING" /\ bound[i] = NoTx
  /\ \A j \in Ids : bound[j] # t
  /\ bound' = [bound EXCEPT ![i] = t]
  /\ UNCHANGED <<status, outcome>>

Decide(t, r) ==
  /\ outcome[t] = "UNDECIDED"
  /\ outcome' = [outcome EXCEPT ![t] = r]
  /\ UNCHANGED <<status, bound>>

Settle(i) ==
  /\ status[i] = "PENDING" /\ bound[i] # NoTx
  /\ outcome[bound[i]] \in Included
  /\ status' = [status EXCEPT ![i] = outcome[bound[i]]]
  /\ UNCHANGED <<bound, outcome>>

Next ==
  \/ \E i \in Ids : Open(i) \/ Settle(i) \/ \E t \in Txs : Bind(i, t)
  \/ \E t \in Txs, r \in Included \cup {"EXPIRED"} : Decide(t, r)

Spec == Init /\ [][Next]_vars
=============================================================================
