--------------------------- MODULE PaymentIntents ---------------------------
(* Wallet payments: PaymentIntentService over PaymentIntentStore and          *)
(* StellarService (src/backend/src/payments, src/backend/src/stellar).        *)
(*                                                                            *)
(* `intents' is the payment_intents table. Every SQL statement is one atomic  *)
(* step; between two awaits of a handler anything else may happen, and a      *)
(* handler may die at any await (process crash, a 503 from the store, a       *)
(* client that hung up). `sent' is the network to Horizon: a broadcast may be *)
(* lost, delayed past the handler's death, or delivered twice. `outcome' is   *)
(* the Stellar ledger.                                                        *)
EXTENDS Naturals

CONSTANTS Ids,       \* UUIDs createIntent may draw
          Keys,      \* Idempotency-Key headers
          Payments,  \* (sender, recipient, amount, asset, memo) tuples
          Txs,       \* signed envelopes that parse, named by their hash
          Handlers,  \* concurrent requests, over all server instances
          Pays,      \* the payment an envelope makes
          NoId, NoTx

ASSUME PaymentIntentsAssumption ==
  /\ Pays \in [Txs -> Payments]
  /\ NoTx \notin Txs /\ NoId \notin Ids

VARIABLES intents,   \* the payment_intents rows, by id
          handlers,  \* what each request handler holds across its awaits
          sent,      \* <<intent or NoId, tx>>: transactions handed to Horizon
          outcome    \* the ledger's verdict on each transaction
vars == <<intents, handlers, sent, outcome>>

-----------------------------------------------------------------------------
Included == {"SUCCEEDED", "FAILED"}
Status   == {"PENDING"} \cup Included
Row      == [key : Keys, pay : Payments, status : Status, hash : Txs \cup {NoTx}]
Steps    == {"idle", "claim", "broadcast", "verify", "settle"}
Idle     == [pc |-> "idle", id |-> NoId, tx |-> NoTx, res |-> "PENDING"]
Handler  == [pc : Steps, id : Ids \cup {NoId}, tx : Txs \cup {NoTx}, res : Status]

Rows == DOMAIN intents
At(p, step) == handlers[p].pc = step
Goto(p, step) == handlers' = [handlers EXCEPT ![p].pc = step]
Return(p) == handlers' = [handlers EXCEPT ![p] = Idle]

Init ==
  /\ intents  = [i \in {} |-> Idle]
  /\ handlers = [p \in Handlers |-> Idle]
  /\ sent     = {}
  /\ outcome  = [t \in Txs |-> "UNDECIDED"]

-----------------------------------------------------------------------------
(* POST payments/intents: validate, then one INSERT .. ON CONFLICT            *)
(* (idempotency_key). An existing key returns its row and changes nothing,    *)
(* whether the details agree (the retry succeeds) or not (409).               *)
KeyIsFreeNoConstraint(k) == TRUE      \* fault: idempotency_key not UNIQUE
KeyIsFree(k) == \A i \in Rows : intents[i].key # k

Create(i, k, pay) ==
  /\ i \notin Rows
  /\ KeyIsFree(k)
  /\ intents' = [j \in Rows \cup {i} |->
                   IF j = i
                   THEN [key |-> k, pay |-> pay, status |-> "PENDING", hash |-> NoTx]
                   ELSE intents[j]]
  /\ UNCHANGED <<handlers, sent, outcome>>

(* POST payments/intents/:id/submit: read the row (404 without one) and       *)
(* reject an envelope that does not make exactly this payment.                *)
EnvelopeUnchecked(i, t) == TRUE       \* fault: parsePayment without `expected'
EnvelopeMatches(i, t) == Pays[t] = intents[i].pay

SubmitFind(p, i, t) ==
  /\ At(p, "idle")
  /\ i \in Rows /\ EnvelopeMatches(i, t)
  /\ handlers' = [handlers EXCEPT ![p] =
                    [pc |-> "claim", id |-> i, tx |-> t, res |-> "PENDING"]]
  /\ UNCHANGED <<intents, sent, outcome>>

(* claimHash: UPDATE .. WHERE transaction_hash IS NULL OR = the hash, under   *)
(* the unique index on transaction_hash. No row or an index violation is a    *)
(* 409; a row that is already settled is returned and nothing is broadcast.   *)
ClaimWithoutIndex(i, t) ==             \* fault: migration 002 not applied
  intents[i].hash \in {NoTx, t}
ClaimOverwrites(i, t) ==               \* fault: UPDATE .. WHERE id only
  \A j \in Rows \ {i} : intents[j].hash # t
ClaimGranted(i, t) ==
  /\ intents[i].hash \in {NoTx, t}
  /\ \A j \in Rows \ {i} : intents[j].hash # t

Claim(p) ==
  LET i == handlers[p].id
      t == handlers[p].tx
  IN  /\ At(p, "claim")
      /\ \/ /\ ClaimGranted(i, t)
            /\ intents' = [intents EXCEPT ![i].hash = t]
            /\ \/ intents[i].status = "PENDING" /\ Goto(p, "broadcast")
               \/ intents[i].status # "PENDING" /\ Return(p)
         \/ ~ClaimGranted(i, t) /\ Return(p) /\ UNCHANGED intents
      /\ UNCHANGED <<sent, outcome>>

(* submitSignedTransaction: hand the envelope to Horizon; an error or a       *)
(* timeout is swallowed, and the hash is queried in any case.                 *)
Broadcast(p) ==
  /\ At(p, "broadcast")
  /\ sent' = sent \cup {<<handlers[p].id, handlers[p].tx>>}
  /\ Goto(p, "verify")
  /\ UNCHANGED <<intents, outcome>>

(* GET payments/intents/:id: read the row; reconcile only a bound PENDING one.*)
NeedsReconcile(i) == intents[i].hash # NoTx /\ intents[i].status = "PENDING"

ReconcileFind(p, i) ==
  /\ At(p, "idle")
  /\ i \in Rows /\ NeedsReconcile(i)
  /\ handlers' = [handlers EXCEPT ![p] =
                    [pc |-> "verify", id |-> i, tx |-> intents[i].hash, res |-> "PENDING"]]
  /\ UNCHANGED <<intents, sent, outcome>>

(* verifyTransaction: the ledger's verdict when Horizon has it, else PENDING: *)
(* not found, not yet ingested, an error and a timeout all read PENDING.      *)
VerifiedFailureIsPending(t) ==         \* fault: `successful' read as `found'
  IF outcome[t] = "SUCCEEDED" THEN "SUCCEEDED" ELSE "PENDING"
VerifiedStatus(t) == outcome[t]

VerifyAnswered(p) ==
  /\ At(p, "verify")
  /\ outcome[handlers[p].tx] \in Included
  /\ handlers' = [handlers EXCEPT ![p].pc = "settle",
                                  ![p].res = VerifiedStatus(handlers[p].tx)]
  /\ UNCHANGED <<intents, sent, outcome>>

UnansweredIsFailure == "FAILED"        \* fault: a timeout read as a failure
UnansweredIsUnknown == "NOT_FOUND"     \* fault: a status the column has no room for
Unanswered == "PENDING"

VerifyUnanswered(p) ==
  /\ At(p, "verify")
  /\ handlers' = [handlers EXCEPT ![p].pc = "settle", ![p].res = Unanswered]
  /\ UNCHANGED <<intents, sent, outcome>>

(* settle: UPDATE .. WHERE transaction_hash = hash AND status = 'PENDING'.    *)
SettleAlways(i, t) ==                  \* fault: no AND status = 'PENDING'
  intents[i].hash = t
SettleApplies(i, t) == intents[i].hash = t /\ intents[i].status = "PENDING"

Settle(p) ==
  LET i == handlers[p].id
  IN  /\ At(p, "settle")
      /\ intents' = IF SettleApplies(i, handlers[p].tx)
                    THEN [intents EXCEPT ![i].status = handlers[p].res]
                    ELSE intents
      /\ Return(p)
      /\ UNCHANGED <<sent, outcome>>

(* A handler dies at one of its awaits; what it wrote stays.                  *)
Abandon(p) ==
  /\ ~At(p, "idle")
  /\ Return(p)
  /\ UNCHANGED <<intents, sent, outcome>>

-----------------------------------------------------------------------------
(* POST stellar/submit relays any signed envelope, with no intent and no      *)
(* claim; a client may also reach Horizon without AfriPay.                    *)
Relay(t) ==
  /\ sent' = sent \cup {<<NoId, t>>}
  /\ UNCHANGED <<intents, handlers, outcome>>

(* The ledger: a transaction that was sent may be included at any later time, *)
(* and one that is not included before its time bound never will be.          *)
Include(t, r) ==
  /\ outcome[t] = "UNDECIDED"
  /\ \E i \in Ids \cup {NoId} : <<i, t>> \in sent
  /\ outcome' = [outcome EXCEPT ![t] = r]
  /\ UNCHANGED <<intents, handlers, sent>>

Expire(t) ==
  /\ outcome[t] = "UNDECIDED"
  /\ outcome' = [outcome EXCEPT ![t] = "EXPIRED"]
  /\ UNCHANGED <<intents, handlers, sent>>

-----------------------------------------------------------------------------
Verify(p) == VerifyAnswered(p) \/ VerifyUnanswered(p)

HandlerStep(p) == Claim(p) \/ Broadcast(p) \/ Verify(p) \/ Settle(p) \/ Abandon(p)

Next ==
  \/ \E i \in Ids, k \in Keys, pay \in Payments : Create(i, k, pay)
  \/ \E p \in Handlers :
       \/ HandlerStep(p)
       \/ \E i \in Ids : ReconcileFind(p, i) \/ \E t \in Txs : SubmitFind(p, i, t)
  \/ \E t \in Txs : Relay(t) \/ Expire(t) \/ \E r \in Included : Include(t, r)

Spec == Init /\ [][Next]_vars

(* Nothing in the server polls an intent: it is settled only because some     *)
(* client keeps asking (PollIsAnswered below needs every intent to be asked   *)
(* for), Horizon answers now and then, and a handler that repeatedly gets as  *)
(* far as its UPDATE is not killed there every time.                          *)
Serves(p, i) == handlers[p].id = i

Fairness ==
  /\ \A p \in Handlers : WF_vars(HandlerStep(p))
  /\ \A i \in Ids :
       /\ SF_vars(\E p \in Handlers : ReconcileFind(p, i))
       /\ SF_vars(\E p \in Handlers : Serves(p, i) /\ VerifyAnswered(p))
       /\ SF_vars(\E p \in Handlers :
                    Serves(p, i) /\ handlers[p].res \in Included /\ Settle(p))

FairSpec == Spec /\ Fairness

-----------------------------------------------------------------------------
(* Every row and every handler has the shape the code gives it.               *)
TypeOK ==
  /\ Rows \subseteq Ids /\ intents \in [Rows -> Row]
  /\ handlers \in [Handlers -> Handler]
  /\ sent \subseteq (Ids \cup {NoId}) \X Txs
  /\ outcome \in [Txs -> {"UNDECIDED", "EXPIRED"} \cup Included]

(* One idempotency key moves money at most once: whatever the handlers'       *)
(* interleaving and crashes, all the envelopes broadcast for intents with one *)
(* key are one envelope, of one intent (service comment line 71, store unique *)
(* constraints).                                                              *)
OnePaymentPerKey ==
  \A i, j \in Rows : \A t, u \in Txs :
    (<<i, t>> \in sent /\ <<j, u>> \in sent /\ intents[i].key = intents[j].key)
      => (i = j /\ t = u)

(* One envelope never pays for two intents: two intents with the same details *)
(* match the same envelope, and a single ledger payment must not settle both. *)
NoSharedSettlement ==
  \A i, j \in Rows : (i # j /\ intents[i].hash = intents[j].hash) => intents[i].hash = NoTx

(* The claim is durable before any network side effect: every envelope that   *)
(* was ever handed to Horizon by submit is still the one its row is bound to, *)
(* whatever crashed since, and it makes exactly the payment of the intent.    *)
ClaimedBeforeBroadcast ==
  \A i \in Ids, t \in Txs :
    <<i, t>> \in sent => i \in Rows /\ intents[i].hash = t /\ Pays[t] = intents[i].pay

(* A reported result is the ledger's: SUCCEEDED and FAILED are shown only for *)
(* a bound transaction the ledger included with that result; an expired or    *)
(* unanswered one is never reported as failed.                                *)
TruthfulStatus ==
  \A i \in Rows : intents[i].status # "PENDING" =>
    /\ intents[i].hash \in Txs
    /\ intents[i].status = outcome[intents[i].hash]

(* What every handler may rely on between its awaits, and what makes the      *)
(* properties above inductive: past the claim it holds the row's own hash,    *)
(* and a result it is about to write is one the ledger has recorded.          *)
HandlerOK(p) ==
  LET hd == handlers[p]
  IN  /\ hd.pc # "idle" =>
           hd.id \in Rows /\ hd.tx \in Txs /\ Pays[hd.tx] = intents[hd.id].pay
      /\ hd.pc \in {"broadcast", "verify", "settle"} => intents[hd.id].hash = hd.tx
      /\ hd.pc = "settle" /\ hd.res # "PENDING" => outcome[hd.tx] = hd.res
RowOK(i) == intents[i].hash # NoTx => Pays[intents[i].hash] = intents[i].pay
KeysUnique == \A i, j \in Rows : intents[i].key = intents[j].key => i = j
IInv ==
  /\ TypeOK /\ KeysUnique /\ NoSharedSettlement /\ ClaimedBeforeBroadcast /\ TruthfulStatus
  /\ \A i \in Rows : RowOK(i)
  /\ \A p \in Handlers : HandlerOK(p)

(* No step, of any handler however stale its data, rebinds an intent, alters  *)
(* the payment it records, or moves a settled one.                            *)
Permanent(old, new) ==
  /\ new.key = old.key /\ new.pay = old.pay
  /\ old.hash # NoTx => new.hash = old.hash
  /\ old.status # "PENDING" => new.status = old.status
SettledForever == [][\A i \in Rows : i \in Rows' /\ Permanent(intents[i], intents'[i])]_vars

(* The handlers implement the promise of Settlement: status and bound are     *)
(* read off the table, and everything else is a stutter.                      *)
Promise == INSTANCE Settlement WITH
  status <- [i \in Ids |-> IF i \in Rows THEN intents[i].status ELSE "ABSENT"],
  bound  <- [i \in Ids |-> IF i \in Rows THEN intents[i].hash ELSE NoTx]
ImplementsSettlement == Promise!Spec

(* Once the ledger has included the transaction an intent is bound to, the    *)
(* intent eventually shows that result: no lost answer, stale PENDING write or*)
(* crash leaves it PENDING for ever while clients keep asking.                *)
PollIsAnswered ==
  \A i \in Ids :
    (i \in Rows /\ intents[i].hash # NoTx /\ outcome[intents[i].hash] \in Included)
      ~> (i \in Rows /\ intents[i].hash # NoTx /\ intents[i].status = outcome[intents[i].hash])
=============================================================================
