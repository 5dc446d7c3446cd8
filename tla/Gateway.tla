------------------------------- MODULE Gateway -------------------------------
(* The payment gateway contract (src/contracts/gateway/src/lib.rs): intents   *)
(* that payers record and the confirmer, the backend's address, marks as      *)
(* confirmed; the confirmer hands its office on. A call is one atomic step    *)
(* and has the signature of the address it names.                             *)
EXTENDS Naturals, Sequences

CONSTANTS Addresses,   \* payers, confirmers, and whoever submits calls
          Nobody,      \* no confirmer: before init
          MaxAmount, MaxIntents, MaxTime  \* bounds for checking

VARIABLES confirmer,  \* DataKey::Confirmer
          intents,    \* Intent(id); id n is intents[n + 1], IntentCounter its length
          now         \* the ledger timestamp
vars == <<confirmer, intents, now>>

Ids == DOMAIN intents
(* confirmed_by is history: who signed the call that confirmed the intent.    *)
PaymentIntent == [payer : Addresses, amount : 1..MaxAmount, status : {"Pending", "Confirmed"},
                  created_at : Nat, confirmed_at : Nat, confirmed_by : Addresses \cup {Nobody}]

Init == confirmer = Nobody /\ intents = <<>> /\ now = 0

-----------------------------------------------------------------------------
InitContract(a) ==
  /\ confirmer = Nobody
  /\ confirmer' = a
  /\ UNCHANGED <<intents, now>>

(* The current confirmer names the next, who need not agree.                  *)
SetConfirmer(c, a) ==
  /\ c = confirmer
  /\ confirmer' = a
  /\ UNCHANGED <<intents, now>>

CreatePaymentIntent(p, n) ==
  /\ Len(intents) < MaxIntents
  /\ confirmer # Nobody /\ n > 0
  /\ intents' = Append(intents, [payer |-> p, amount |-> n, status |-> "Pending",
                                 created_at |-> now, confirmed_at |-> 0,
                                 confirmed_by |-> Nobody])
  /\ UNCHANGED <<confirmer, now>>

ConfirmsForAnyone(a, i) == intents[i].status # "Confirmed"  \* fault: whoever signs
MayConfirm(a, i) == a = confirmer /\ intents[i].status # "Confirmed"

ConfirmPaymentIntent(a, i) ==
  /\ MayConfirm(a, i)
  /\ intents' = [intents EXCEPT ![i].status = "Confirmed", ![i].confirmed_at = now,
                                ![i].confirmed_by = a]
  /\ UNCHANGED <<confirmer, now>>

(* Ledgers close.                                                             *)
Tick == now < MaxTime /\ now' = now + 1 /\ UNCHANGED <<confirmer, intents>>

Next ==
  \/ \E a \in Addresses :
       \/ InitContract(a)
       \/ \E c \in Addresses : SetConfirmer(c, a)
       \/ \E n \in 0..MaxAmount : CreatePaymentIntent(a, n)
       \/ \E i \in Ids : ConfirmPaymentIntent(a, i)
  \/ Tick

Spec == Init /\ [][Next]_vars
-----------------------------------------------------------------------------
(* The entries keep their shape, and none is confirmed before it was made.    *)
TypeOK ==
  /\ confirmer \in Addresses \cup {Nobody}
  /\ intents \in Seq(PaymentIntent)
  /\ now \in Nat
  /\ \A i \in Ids : IF intents[i].status = "Confirmed"
                    THEN intents[i].confirmed_at \in intents[i].created_at..now
                    ELSE intents[i].confirmed_at = 0

(* A confirmation is given once and stands: a repeated call, of a confirmer   *)
(* that has since changed or not, alters neither the record nor its time. And *)
(* it is signed by the address that holds the office when it is given: not by *)
(* one the office was taken from, nor by one that will come to hold it.       *)
ConfirmationKept ==
  [][\A i \in Ids :
       /\ i \in Ids'
       /\ intents[i].status = "Confirmed" => intents'[i] = intents[i]
       /\ intents'[i] # intents[i] => intents'[i].confirmed_by = confirmer]_vars
=============================================================================
