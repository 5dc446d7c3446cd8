------------------------ MODULE PaymentIntentsProofs ------------------------
(* Proofs about PaymentIntents, for any number of intents, keys, envelopes    *)
(* and concurrent requests.                                                   *)
EXTENDS PaymentIntents, TLAPS

USE DEF Rows, At, Goto, Return, Included, Status, Idle

-----------------------------------------------------------------------------
(* IInv is inductive: it holds initially and every action preserves it.       *)
LEMMA InitIInv == Init => IInv
BY PaymentIntentsAssumption
   DEF Init, IInv, TypeOK, Row, Handler, Steps, KeysUnique, NoSharedSettlement,
       ClaimedBeforeBroadcast, TruthfulStatus, RowOK, HandlerOK

(* Typing of the three ways a handler record changes.                         *)
LEMMA HandlerTyping ==
  ASSUME TypeOK, NEW p \in Handlers
  PROVE  /\ Idle \in Handler
         /\ Return(p) => (handlers \in [Handlers -> Handler])'
         /\ \A step \in Steps : Goto(p, step) => (handlers \in [Handlers -> Handler])'
<1>1. Idle \in Handler
  BY DEF Handler, Steps
<1>2. handlers[p] \in Handler /\ handlers \in [Handlers -> Handler]
  BY DEF TypeOK
<1>3. Return(p) => (handlers \in [Handlers -> Handler])'
  BY <1>1, <1>2
<1>4. ASSUME NEW step \in Steps, Goto(p, step) PROVE (handlers \in [Handlers -> Handler])'
  <2>1. [handlers[p] EXCEPT !.pc = step] \in Handler
    BY <1>2 DEF Handler
  <2> QED BY <2>1, <1>2, <1>4
<1> QED BY <1>1, <1>3, <1>4

(* A new row is unbound and PENDING, under a key no row had.                  *)
LEMMA CreateIInv ==
  ASSUME NEW i \in Ids, NEW k \in Keys, NEW pay \in Payments, IInv, Create(i, k, pay)
  PROVE  IInv'
<1> USE PaymentIntentsAssumption DEF Create, KeyIsFree
<1>1. TypeOK'
  BY DEF IInv, TypeOK, Row
<1>2. KeysUnique'
  BY DEF IInv, KeysUnique
<1>3. NoSharedSettlement'
  BY DEF IInv, NoSharedSettlement
<1>4. ClaimedBeforeBroadcast'
  BY DEF IInv, ClaimedBeforeBroadcast
<1>5. TruthfulStatus'
  BY DEF IInv, TruthfulStatus
<1>6. \A j \in Rows' : RowOK(j)'
  BY DEF IInv, RowOK
<1>7. \A p \in Handlers : HandlerOK(p)'
  BY DEF IInv, HandlerOK, TypeOK, Handler
<1> QED BY <1>1, <1>2, <1>3, <1>4, <1>5, <1>6, <1>7 DEF IInv

(* Steps that only move handlers.                                             *)
LEMMA SubmitFindIInv ==
  ASSUME NEW p \in Handlers, NEW i \in Ids, NEW t \in Txs, IInv, SubmitFind(p, i, t)
  PROVE  IInv'
<1> USE PaymentIntentsAssumption DEF SubmitFind, EnvelopeMatches
<1>1. TypeOK'
  BY DEF IInv, TypeOK, Handler, Steps
<1>2. (KeysUnique /\ NoSharedSettlement /\ ClaimedBeforeBroadcast /\ TruthfulStatus)'
  BY DEF IInv, KeysUnique, NoSharedSettlement, ClaimedBeforeBroadcast, TruthfulStatus
<1>3. \A j \in Rows' : RowOK(j)'
  BY DEF IInv, RowOK
<1>4. \A q \in Handlers : HandlerOK(q)'
  BY DEF IInv, HandlerOK, TypeOK
<1> QED BY <1>1, <1>2, <1>3, <1>4 DEF IInv

(* Claim: the one step that binds a hash. A handler of the same intent that is*)
(* past its own claim already pinned the hash, so this one can only repeat it.*)
LEMMA ClaimIInv ==
  ASSUME NEW p \in Handlers, IInv, Claim(p)
  PROVE  IInv'
<1> DEFINE i == handlers[p].id
           t == handlers[p].tx
<1> USE PaymentIntentsAssumption
<1>0. /\ i \in Rows /\ i \in Ids /\ t \in Txs /\ Pays[t] = intents[i].pay
      /\ handlers[p].pc = "claim"
  BY DEF Claim, IInv, TypeOK, HandlerOK
<1>1. CASE /\ ClaimGranted(i, t)
           /\ intents' = [intents EXCEPT ![i].hash = t]
  <2>0. /\ Rows' = Rows
        /\ Goto(p, "broadcast") \/ Return(p)
        /\ UNCHANGED <<sent, outcome>>
    BY <1>1 DEF Claim
  <2>1. TypeOK'
    <3>1. (handlers \in [Handlers -> Handler])'
      BY <2>0, HandlerTyping DEF IInv, Steps
    <3>2. (intents \in [Rows -> Row])'
      BY <1>0, <1>1, <2>0 DEF IInv, TypeOK, Row
    <3> QED BY <3>1, <3>2, <2>0 DEF IInv, TypeOK
  <2>2. KeysUnique'
    BY <1>0, <1>1, <2>0 DEF IInv, KeysUnique
  <2>3. NoSharedSettlement'
    BY <1>0, <1>1, <2>0 DEF IInv, NoSharedSettlement, ClaimGranted
  <2>4. ClaimedBeforeBroadcast'
    BY <1>0, <1>1, <2>0 DEF IInv, ClaimedBeforeBroadcast, ClaimGranted
  <2>5. TruthfulStatus'
    BY <1>0, <1>1, <2>0 DEF IInv, TruthfulStatus, ClaimGranted
  <2>6. \A j \in Rows' : RowOK(j)'
    BY <1>0, <1>1, <2>0 DEF IInv, RowOK
  <2>7. \A q \in Handlers : HandlerOK(q)'
    BY <1>0, <1>1, <2>0 DEF IInv, HandlerOK, TypeOK, Handler, ClaimGranted
  <2> QED BY <2>1, <2>2, <2>3, <2>4, <2>5, <2>6, <2>7 DEF IInv
<1>2. CASE handlers' = [handlers EXCEPT ![p] = Idle] /\ UNCHANGED intents
  <2>0. UNCHANGED <<sent, outcome>>
    BY DEF Claim
  <2>1. TypeOK'
    BY <1>2, <2>0 DEF IInv, TypeOK, Handler, Steps
  <2>2. (KeysUnique /\ NoSharedSettlement /\ ClaimedBeforeBroadcast /\ TruthfulStatus)'
    BY <1>2, <2>0
       DEF IInv, KeysUnique, NoSharedSettlement, ClaimedBeforeBroadcast, TruthfulStatus
  <2>3. \A j \in Rows' : RowOK(j)'
    BY <1>2, <2>0 DEF IInv, RowOK
  <2>4. \A q \in Handlers : HandlerOK(q)'
    BY <1>2, <2>0 DEF IInv, HandlerOK, TypeOK
  <2> QED BY <2>1, <2>2, <2>3, <2>4 DEF IInv
<1> QED BY <1>1, <1>2 DEF Claim

(* Broadcast: the handler's envelope is the one its row is bound to.          *)
LEMMA BroadcastIInv ==
  ASSUME NEW p \in Handlers, IInv, Broadcast(p)
  PROVE  IInv'
<1> USE PaymentIntentsAssumption DEF Broadcast
<1>0. handlers[p].id \in Ids /\ handlers[p].tx \in Txs
  BY DEF IInv, TypeOK, HandlerOK
<1>1. TypeOK'
  <2>1. (handlers \in [Handlers -> Handler])'
    BY HandlerTyping DEF IInv, Steps
  <2>2. (sent \subseteq (Ids \cup {NoId}) \X Txs)'
    BY <1>0 DEF IInv, TypeOK
  <2> QED BY <2>1, <2>2 DEF IInv, TypeOK
<1>2. (KeysUnique /\ NoSharedSettlement /\ ClaimedBeforeBroadcast /\ TruthfulStatus)'
  BY DEF IInv, KeysUnique, NoSharedSettlement, ClaimedBeforeBroadcast, TruthfulStatus, HandlerOK
<1>3. \A j \in Rows' : RowOK(j)'
  BY DEF IInv, RowOK
<1>4. \A q \in Handlers : HandlerOK(q)'
  BY DEF IInv, HandlerOK, TypeOK
<1> QED BY <1>1, <1>2, <1>3, <1>4 DEF IInv

(* A reconciliation picks up the hash the row holds.                          *)
LEMMA ReconcileFindIInv ==
  ASSUME NEW p \in Handlers, NEW i \in Ids, IInv, ReconcileFind(p, i)
  PROVE  IInv'
<1> USE PaymentIntentsAssumption DEF ReconcileFind, NeedsReconcile
<1>1. TypeOK'
  BY DEF IInv, TypeOK, Row, Handler, Steps
<1>2. (KeysUnique /\ NoSharedSettlement /\ ClaimedBeforeBroadcast /\ TruthfulStatus)'
  BY DEF IInv, KeysUnique, NoSharedSettlement, ClaimedBeforeBroadcast, TruthfulStatus
<1>3. \A j \in Rows' : RowOK(j)'
  BY DEF IInv, RowOK
<1>4. \A q \in Handlers : HandlerOK(q)'
  BY DEF IInv, HandlerOK, TypeOK, Row, RowOK
<1> QED BY <1>1, <1>2, <1>3, <1>4 DEF IInv

(* A result enters a handler either from the ledger or as PENDING.            *)
LEMMA VerifyIInv ==
  ASSUME NEW p \in Handlers, IInv, Verify(p)
  PROVE  IInv'
<1> USE PaymentIntentsAssumption
<1>0. PICK r \in Status :
        /\ At(p, "verify")
        /\ r # "PENDING" => outcome[handlers[p].tx] = r
        /\ handlers' = [handlers EXCEPT ![p].pc = "settle", ![p].res = r]
        /\ UNCHANGED <<intents, sent, outcome>>
  BY DEF Verify, VerifyAnswered, VerifyUnanswered, VerifiedStatus, Unanswered
<1>1. TypeOK'
  <2>1. [handlers[p] EXCEPT !.pc = "settle", !.res = r] \in Handler
    BY DEF IInv, TypeOK, Handler, Steps
  <2> QED BY <1>0, <2>1 DEF IInv, TypeOK
<1>2. (KeysUnique /\ NoSharedSettlement /\ ClaimedBeforeBroadcast /\ TruthfulStatus)'
  BY <1>0 DEF IInv, KeysUnique, NoSharedSettlement, ClaimedBeforeBroadcast, TruthfulStatus
<1>3. \A j \in Rows' : RowOK(j)'
  BY <1>0 DEF IInv, RowOK
<1>4. ASSUME NEW q \in Handlers PROVE HandlerOK(q)'
  <2>1. CASE q = p
    BY <1>0, <2>1 DEF IInv, HandlerOK, TypeOK, Handler
  <2>2. CASE q # p
    BY <1>0, <2>2 DEF IInv, HandlerOK, TypeOK, Handler
  <2> QED BY <2>1, <2>2
<1> QED BY <1>1, <1>2, <1>3, <1>4 DEF IInv

(* Settle: the result written is the handler's, which HandlerOK ties to the   *)
(* ledger through the hash the row is bound to.                               *)
LEMMA SettleIInv ==
  ASSUME NEW p \in Handlers, IInv, Settle(p)
  PROVE  IInv'
<1> DEFINE i == handlers[p].id
<1> USE PaymentIntentsAssumption DEF Settle, SettleApplies
<1>0. handlers[p] \in Handler /\ i \in Rows /\ handlers[p].res \in Status
  BY DEF IInv, TypeOK, Handler, HandlerOK
<1>1. TypeOK'
  <2>1. (intents \in [Rows -> Row])'
    BY <1>0 DEF IInv, TypeOK, Row
  <2> QED BY <2>1, HandlerTyping DEF IInv, TypeOK
<1>2. (KeysUnique /\ NoSharedSettlement /\ ClaimedBeforeBroadcast)'
  BY <1>0 DEF IInv, KeysUnique, NoSharedSettlement, ClaimedBeforeBroadcast
<1>3. TruthfulStatus'
  BY <1>0 DEF IInv, TruthfulStatus, HandlerOK, TypeOK
<1>4. \A j \in Rows' : RowOK(j)'
  BY <1>0 DEF IInv, RowOK
<1>5. \A q \in Handlers : HandlerOK(q)'
  BY <1>0 DEF IInv, HandlerOK, TypeOK, Handler
<1> QED BY <1>1, <1>2, <1>3, <1>4, <1>5 DEF IInv

(* A handler that dies leaves every claim about it void.                      *)
LEMMA AbandonIInv ==
  ASSUME NEW p \in Handlers, IInv, Abandon(p)
  PROVE  IInv'
<1> USE PaymentIntentsAssumption DEF Abandon
<1>1. TypeOK'
  BY DEF IInv, TypeOK, Handler, Steps
<1>2. (KeysUnique /\ NoSharedSettlement /\ ClaimedBeforeBroadcast /\ TruthfulStatus)'
  BY DEF IInv, KeysUnique, NoSharedSettlement, ClaimedBeforeBroadcast, TruthfulStatus
<1>3. \A j \in Rows' : RowOK(j)'
  BY DEF IInv, RowOK
<1>4. \A q \in Handlers : HandlerOK(q)'
  BY DEF IInv, HandlerOK, TypeOK
<1> QED BY <1>1, <1>2, <1>3, <1>4 DEF IInv

(* The environment: the ledger moves only undecided transactions, and a       *)
(* settled row's transaction is decided.                                      *)
LEMMA RelayIInv ==
  ASSUME NEW t \in Txs, IInv, Relay(t)
  PROVE  IInv'
<1> USE PaymentIntentsAssumption DEF Relay
<1>1. TypeOK'
  BY DEF IInv, TypeOK
<1>2. (KeysUnique /\ NoSharedSettlement /\ ClaimedBeforeBroadcast /\ TruthfulStatus)'
  BY DEF IInv, KeysUnique, NoSharedSettlement, ClaimedBeforeBroadcast, TruthfulStatus
<1>3. \A j \in Rows' : RowOK(j)'
  BY DEF IInv, RowOK
<1>4. \A q \in Handlers : HandlerOK(q)'
  BY DEF IInv, HandlerOK, TypeOK
<1> QED BY <1>1, <1>2, <1>3, <1>4 DEF IInv

(* A transaction is included only while undecided.                            *)
LEMMA IncludeIInv ==
  ASSUME NEW t \in Txs, NEW r \in Included, IInv, Include(t, r)
  PROVE  IInv'
<1> USE PaymentIntentsAssumption DEF Include
<1>1. TypeOK'
  BY DEF IInv, TypeOK
<1>2. (KeysUnique /\ NoSharedSettlement /\ ClaimedBeforeBroadcast)'
  BY DEF IInv, KeysUnique, NoSharedSettlement, ClaimedBeforeBroadcast
<1>5. TruthfulStatus'
  BY DEF IInv, TypeOK, TruthfulStatus, Row
<1>3. \A j \in Rows' : RowOK(j)'
  BY DEF IInv, RowOK
<1>4. \A q \in Handlers : HandlerOK(q)'
  BY DEF IInv, HandlerOK, TypeOK, Handler
<1> QED BY <1>1, <1>2, <1>3, <1>4, <1>5 DEF IInv

(* So is its expiry, which no row reports.                                    *)
LEMMA ExpireIInv ==
  ASSUME NEW t \in Txs, IInv, Expire(t)
  PROVE  IInv'
<1> USE PaymentIntentsAssumption DEF Expire
<1>1. TypeOK'
  BY DEF IInv, TypeOK
<1>2. (KeysUnique /\ NoSharedSettlement /\ ClaimedBeforeBroadcast)'
  BY DEF IInv, KeysUnique, NoSharedSettlement, ClaimedBeforeBroadcast
<1>5. TruthfulStatus'
  BY DEF IInv, TypeOK, TruthfulStatus, Row
<1>3. \A j \in Rows' : RowOK(j)'
  BY DEF IInv, RowOK
<1>4. \A q \in Handlers : HandlerOK(q)'
  BY DEF IInv, HandlerOK, TypeOK, Handler
<1> QED BY <1>1, <1>2, <1>3, <1>4, <1>5 DEF IInv

(* A stuttering step changes nothing IInv speaks of.                          *)
LEMMA StutterIInv == IInv /\ UNCHANGED vars => IInv'
BY DEF vars, IInv, TypeOK, KeysUnique, NoSharedSettlement, ClaimedBeforeBroadcast,
       TruthfulStatus, RowOK, HandlerOK

(* The induction step, by the action that was taken.                          *)
LEMMA NextIInv == IInv /\ [Next]_vars => IInv'
<1> SUFFICES ASSUME IInv, [Next]_vars PROVE IInv'
  OBVIOUS
<1>1. CASE UNCHANGED vars
  BY <1>1, StutterIInv
<1>2. ASSUME NEW i \in Ids, NEW k \in Keys, NEW pay \in Payments, Create(i, k, pay)
      PROVE  IInv'
  BY <1>2, CreateIInv
<1>3. ASSUME NEW p \in Handlers, HandlerStep(p) PROVE IInv'
  BY <1>3, ClaimIInv, BroadcastIInv, VerifyIInv, SettleIInv, AbandonIInv DEF HandlerStep
<1>4. ASSUME NEW p \in Handlers, NEW i \in Ids, ReconcileFind(p, i) PROVE IInv'
  BY <1>4, ReconcileFindIInv
<1>5. ASSUME NEW p \in Handlers, NEW i \in Ids, NEW t \in Txs, SubmitFind(p, i, t)
      PROVE  IInv'
  BY <1>5, SubmitFindIInv
<1>6. ASSUME NEW t \in Txs, Relay(t) \/ Expire(t) PROVE IInv'
  BY <1>6, RelayIInv, ExpireIInv
<1>7. ASSUME NEW t \in Txs, NEW r \in Included, Include(t, r) PROVE IInv'
  BY <1>7, IncludeIInv
<1> QED BY <1>1, <1>2, <1>3, <1>4, <1>5, <1>6, <1>7 DEF Next

(* The inductive invariant holds in every reachable state.                    *)
THEOREM InductiveInvariant == Spec => []IInv
BY InitIInv, NextIInv, PTL DEF Spec

-----------------------------------------------------------------------------
(* The properties the runs check, for every value of the constants.           *)

(* Every row and every handler keeps its shape.                               *)
THEOREM TypeCorrect == Spec => []TypeOK
<1>1. IInv => TypeOK
  BY DEF IInv
<1> QED BY <1>1, InductiveInvariant, PTL

(* At most one envelope is ever broadcast for an idempotency key.             *)
THEOREM PaymentIsIdempotent == Spec => []OnePaymentPerKey
<1>1. IInv => OnePaymentPerKey
  BY DEF IInv, TypeOK, KeysUnique, ClaimedBeforeBroadcast, OnePaymentPerKey
<1> QED BY <1>1, InductiveInvariant, PTL

(* No two intents are settled by one transaction.                             *)
THEOREM HashesUnique == Spec => []NoSharedSettlement
<1>1. IInv => NoSharedSettlement
  BY DEF IInv
<1> QED BY <1>1, InductiveInvariant, PTL

(* Whatever was broadcast is still claimed by its row, and pays what it says. *)
THEOREM ClaimIsDurable == Spec => []ClaimedBeforeBroadcast
<1>1. IInv => ClaimedBeforeBroadcast
  BY DEF IInv
<1> QED BY <1>1, InductiveInvariant, PTL

(* A reported result is the ledger's.                                         *)
THEOREM StatusIsTruthful == Spec => []TruthfulStatus
<1>1. IInv => TruthfulStatus
  BY DEF IInv
<1> QED BY <1>1, InductiveInvariant, PTL

(* How a step changes the table: it adds a PENDING row, or binds an unbound   *)
(* one to a hash no row has, or moves a PENDING bound row, or leaves it alone.*)
TableStep ==
  \/ \E i \in Ids, k \in Keys, pay \in Payments : Create(i, k, pay)
  \/ \E i \in Rows, t \in Txs :
       /\ ClaimGranted(i, t)
       /\ intents' = [intents EXCEPT ![i].hash = t]
       /\ UNCHANGED outcome
  \/ \E i \in Rows, r \in Status :
       /\ intents[i].status = "PENDING" /\ intents[i].hash \in Txs
       /\ r # "PENDING" => outcome[intents[i].hash] = r
       /\ intents' = [intents EXCEPT ![i].status = r]
       /\ UNCHANGED outcome
  \/ UNCHANGED intents

(* Every step of the system is one of those on the table.                     *)
LEMMA StepsOnTable == IInv /\ [Next]_vars => TableStep
<1> SUFFICES ASSUME IInv, [Next]_vars PROVE TableStep
  OBVIOUS
<1>1. ASSUME NEW p \in Handlers, Claim(p) PROVE TableStep
  BY <1>1 DEF Claim, TableStep, IInv, TypeOK, HandlerOK
<1>2. ASSUME NEW p \in Handlers, Settle(p) PROVE TableStep
  <2>1. handlers[p].id \in Rows /\ handlers[p].res \in Status /\ handlers[p].tx \in Txs
    BY <1>2 DEF Settle, IInv, TypeOK, Handler, HandlerOK
  <2>2. CASE SettleApplies(handlers[p].id, handlers[p].tx)
    BY <1>2, <2>1, <2>2 DEF Settle, SettleApplies, TableStep, IInv, HandlerOK
  <2>3. CASE ~SettleApplies(handlers[p].id, handlers[p].tx)
    BY <1>2, <2>3 DEF Settle, TableStep
  <2> QED BY <2>2, <2>3
<1>3. ASSUME NEW p \in Handlers, HandlerStep(p) PROVE TableStep
  BY <1>1, <1>2, <1>3
     DEF HandlerStep, Broadcast, Verify, VerifyAnswered, VerifyUnanswered, Abandon, TableStep
<1> QED BY <1>3 DEF Next, vars, TableStep, ReconcileFind, SubmitFind, Relay, Include, Expire

(* A settled or bound row stays what it is.                                   *)
THEOREM SettlementIsFinal == Spec => SettledForever
<1>1. IInv /\ [Next]_vars =>
        [\A i \in Rows : i \in Rows' /\ Permanent(intents[i], intents'[i])]_vars
  <2> SUFFICES ASSUME IInv, [Next]_vars, NEW i \in Rows
               PROVE  i \in Rows' /\ Permanent(intents[i], intents'[i])
    OBVIOUS
  <2>0. intents[i] \in Row /\ i \in Ids
    BY DEF IInv, TypeOK
  <2>1. ASSUME NEW n \in Ids, NEW k \in Keys, NEW pay \in Payments, Create(n, k, pay)
        PROVE  i \in Rows' /\ Permanent(intents[i], intents'[i])
    BY <2>1 DEF Create, Permanent
  <2>2. ASSUME NEW j \in Rows, NEW t \in Txs, ClaimGranted(j, t),
               intents' = [intents EXCEPT ![j].hash = t]
        PROVE  i \in Rows' /\ Permanent(intents[i], intents'[i])
    BY <2>0, <2>2 DEF ClaimGranted, Permanent, Row
  <2>3. ASSUME NEW j \in Rows, NEW r \in Status, intents[j].status = "PENDING",
               intents' = [intents EXCEPT ![j].status = r]
        PROVE  i \in Rows' /\ Permanent(intents[i], intents'[i])
    BY <2>0, <2>3 DEF Permanent, Row
  <2>4. CASE UNCHANGED intents
    BY <2>4 DEF Permanent
  <2> QED BY <2>1, <2>2, <2>3, <2>4, StepsOnTable DEF TableStep
<1> QED BY <1>1, InductiveInvariant, PTL DEF Spec, SettledForever

-----------------------------------------------------------------------------
(* The refinement mapping, as PaymentIntents substitutes it.                  *)
MappedStatus == [i \in Ids |-> IF i \in Rows THEN intents[i].status ELSE "ABSENT"]
MappedBound  == [i \in Ids |-> IF i \in Rows THEN intents[i].hash ELSE NoTx]

(* Each kind of step on the table, mapped to its step of Settlement.          *)
LEMMA MappedStep ==
  IInv /\ [Next]_vars => [Promise!Next]_(Promise!vars)
<1> SUFFICES ASSUME IInv, [Next]_vars PROVE [Promise!Next]_(Promise!vars)
  OBVIOUS
<1> USE PaymentIntentsAssumption
<1>1. CASE UNCHANGED intents /\ UNCHANGED outcome
  BY <1>1 DEF Promise!vars
<1>2. CASE UNCHANGED intents /\ \E t \in Txs, r \in Included \cup {"EXPIRED"} :
             outcome[t] = "UNDECIDED" /\ outcome' = [outcome EXCEPT ![t] = r]
  BY <1>2 DEF Promise!Next, Promise!Decide, Promise!Included
<1>3. ASSUME NEW i \in Ids, NEW k \in Keys, NEW pay \in Payments, Create(i, k, pay)
      PROVE  [Promise!Next]_(Promise!vars)
  <2>1. MappedStatus[i] = "ABSENT" /\ MappedBound' = MappedBound /\ UNCHANGED outcome
    BY <1>3 DEF Create, MappedStatus, MappedBound
  <2>2. MappedStatus' = [MappedStatus EXCEPT ![i] = "PENDING"]
    BY <1>3 DEF Create, MappedStatus
  <2>3. Promise!Open(i)
    BY <2>1, <2>2 DEF Promise!Open, MappedStatus, MappedBound
  <2> QED BY <2>3 DEF Promise!Next
<1>4. ASSUME NEW i \in Rows, NEW t \in Txs, ClaimGranted(i, t),
             intents' = [intents EXCEPT ![i].hash = t], UNCHANGED outcome
      PROVE  [Promise!Next]_(Promise!vars)
  <2>0. i \in Ids /\ intents[i] \in Row /\ Rows' = Rows
    BY <1>4 DEF IInv, TypeOK
  <2>1. MappedStatus' = MappedStatus
    BY <1>4, <2>0 DEF MappedStatus
  <2>2. CASE intents[i].hash = t
    <3>1. MappedBound' = MappedBound
      BY <1>4, <2>0, <2>2 DEF MappedBound, IInv, TypeOK, Row
    <3> QED BY <3>1, <2>1, <1>4 DEF MappedBound, MappedStatus, Promise!vars
  <2>3. CASE intents[i].hash = NoTx
    <3>1. MappedBound' = [MappedBound EXCEPT ![i] = t]
      BY <1>4, <2>0 DEF MappedBound, IInv, TypeOK, Row
    <3>2. MappedBound[i] = NoTx /\ \A j \in Ids : MappedBound[j] # t
      BY <1>4, <2>0, <2>3 DEF MappedBound, ClaimGranted
    <3>3. MappedStatus[i] = "PENDING"
      BY <2>0, <2>3 DEF MappedStatus, IInv, TruthfulStatus
    <3>4. Promise!Bind(i, t)
      BY <3>1, <3>2, <3>3, <2>1, <1>4 DEF MappedBound, MappedStatus, Promise!Bind
    <3> QED BY <3>4, <2>0 DEF Promise!Next
  <2> QED BY <2>2, <2>3, <1>4 DEF ClaimGranted
<1>5. ASSUME NEW i \in Rows, NEW r \in Status,
             intents[i].status = "PENDING", intents[i].hash \in Txs,
             r # "PENDING" => outcome[intents[i].hash] = r,
             intents' = [intents EXCEPT ![i].status = r], UNCHANGED outcome
      PROVE  [Promise!Next]_(Promise!vars)
  <2>0. i \in Ids /\ intents[i] \in Row /\ Rows' = Rows
    BY <1>5 DEF IInv, TypeOK
  <2>1. MappedBound' = MappedBound
    BY <1>5, <2>0 DEF MappedBound
  <2>2. MappedStatus' = [MappedStatus EXCEPT ![i] = r]
    BY <1>5, <2>0 DEF MappedStatus, IInv, TypeOK, Row
  <2>3. MappedStatus[i] = "PENDING" /\ MappedBound[i] = intents[i].hash
    BY <1>5, <2>0 DEF MappedStatus, MappedBound
  <2>4. CASE r = "PENDING"
    <3>1. MappedStatus' = MappedStatus
      BY <2>2, <2>3, <2>4, <2>0 DEF MappedStatus
    <3> QED BY <3>1, <2>1, <1>5 DEF MappedBound, MappedStatus, Promise!vars
  <2>5. CASE r # "PENDING"
    <3>1. Promise!Settle(i)
      BY <2>1, <2>2, <2>3, <2>5, <1>5
         DEF MappedBound, MappedStatus, Promise!Settle, Promise!Included
    <3> QED BY <3>1, <2>0 DEF Promise!Next
  <2> QED BY <2>4, <2>5
<1>6. TableStep
  BY StepsOnTable
<1>7. CASE UNCHANGED intents /\ ~UNCHANGED outcome
  <2>1. \E t \in Txs, r \in Included : Include(t, r) \/ Expire(t)
    BY <1>7 DEF Next, vars, HandlerStep, Claim, Broadcast, Verify, VerifyAnswered,
                VerifyUnanswered, Settle, Abandon, Create, SubmitFind, ReconcileFind, Relay
  <2> QED BY <2>1, <1>2, <1>7 DEF Include, Expire
<1> QED BY <1>1, <1>3, <1>4, <1>5, <1>6, <1>7 DEF TableStep

(* The handlers over the table keep what Settlement promises of an intent: it *)
(* is bound once, to a transaction of its own, and settled once, as the ledger *)
(* decided.                                                                   *)
THEOREM Refinement == Spec => ImplementsSettlement
<1>1. Init => Promise!Init
  BY DEF Init, Promise!Init
<1> QED BY <1>1, MappedStep, InductiveInvariant, PTL
        DEF Spec, ImplementsSettlement, Promise!Spec
=============================================================================
