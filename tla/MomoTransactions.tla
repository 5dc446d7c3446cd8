-------------------------- MODULE MomoTransactions --------------------------
(* MTN mobile-money collections and disbursements: MomoService over           *)
(* MomoTransactionStore, with the reconciliation timer and the provider       *)
(* (src/backend/src/momo), as deployed with DATABASE_URL.                     *)
(*                                                                            *)
(* `records' is the momo_transactions table; each SQL statement is one step,  *)
(* each await lets other requests, callbacks and reconciliation runs in, and  *)
(* any step may fail or be cut by a crash. `posted' is the network to MTN and *)
(* `provider' is MTN: it keys requests by X-Reference-Id, decides once, and   *)
(* may call back any number of times, late, or never.                         *)
EXTENDS Naturals

CONSTANTS Refs,      \* UUIDs drawn for X-Reference-Id
          Orders,    \* what merchants ask for: product, externalId, money, party
          TypeOf, ExtOf, MoneyOf, \* product, reference, and amount+currency of an order
          Requests,  \* concurrent HTTP requests (orders, status polls, callbacks)
          Runs,      \* reconciliation runs that may overlap
          Route,     \* the product whose webhook MTN_MOMO_CALLBACK_URL names
          NoRef, NoOrder

Types == {"COLLECTION", "DISBURSEMENT"}

ASSUME MomoAssumption ==
  /\ TypeOf \in [Orders -> Types] /\ Route \in Types
  /\ NoRef \notin Refs /\ NoOrder \notin Orders
  /\ Requests \cap Runs = {}

VARIABLES records,   \* reference_id -> [order, status]
          handlers,  \* what each request or run holds across its awaits
          posted,    \* <<reference, order>> requests handed to MTN
          provider   \* MTN's state of each reference
vars == <<records, handlers, posted, provider>>

-----------------------------------------------------------------------------
Final   == {"SUCCESSFUL", "FAILED"}
Status  == {"PENDING"} \cup Final
Actors  == Requests \cup Runs
Steps   == {"idle", "reserve", "post", "fetch", "upsert", "persist", "next"}
Idle    == [pc |-> "idle", ref |-> NoRef, order |-> NoOrder, res |-> "PENDING", todo |-> {}]
Known   == DOMAIN records

At(p, step) == handlers[p].pc = step
Goto(p, step) == handlers' = [handlers EXCEPT ![p].pc = step]
Return(p) == handlers' = [handlers EXCEPT ![p] = Idle]

(* A request answers; the loop of a reconciliation run goes on.               *)
Done(p) ==
  \/ p \in Requests /\ Return(p)
  \/ p \in Runs /\ handlers' = [handlers EXCEPT ![p] =
                       [Idle EXCEPT !.pc = "next", !.todo = handlers[p].todo]]

SameReference(o, q) == TypeOf[o] = TypeOf[q] /\ ExtOf[o] = ExtOf[q]
Taken(o) == \E r \in Known : SameReference(records[r].order, o)

Init ==
  /\ records  = [r \in {} |-> Idle]
  /\ handlers = [p \in Actors |-> Idle]
  /\ posted   = {}
  /\ provider = [r \in Refs |-> "NONE"]

-----------------------------------------------------------------------------
(* requestToPay, transfer. A reference that has a record returns it, or 409s  *)
(* on other details, and changes nothing; a new one draws a UUID.             *)
OrderFind(p, o, r) ==
  /\ At(p, "idle")
  /\ ~Taken(o)
  /\ r \notin Known /\ \A q \in Requests : handlers[q].ref # r
  /\ handlers' = [handlers EXCEPT ![p].pc = "reserve", ![p].ref = r, ![p].order = o]
  /\ UNCHANGED <<records, posted, provider>>

(* save: INSERT under UNIQUE (transaction_type, external_id); a request that  *)
(* lost the race gets a 409 and never reaches MTN.                            *)
ReserveIgnoresLoser(p) == Goto(p, "post") \* fault: ON CONFLICT DO NOTHING
ReserveLoses(p) == Return(p)
ReferenceFreeNoConstraint(o) == TRUE      \* fault: no UNIQUE on the table
ReferenceFree(o) == ~Taken(o)

Reserve(p) ==
  LET o == handlers[p].order
      r == handlers[p].ref
  IN  /\ At(p, "reserve")
      /\ \/ /\ ReferenceFree(o)
            /\ records' = [s \in Known \cup {r} |->
                             IF s = r THEN [order |-> o, status |-> "PENDING"] ELSE records[s]]
            /\ Goto(p, "post")
         \/ ~ReferenceFree(o) /\ ReserveLoses(p) /\ UNCHANGED records
      /\ UNCHANGED <<posted, provider>>

(* callMomo: POST with the reserved reference; 202, a refusal and a timeout   *)
(* leave the record as it is.                                                 *)
Post(p) ==
  /\ At(p, "post")
  /\ posted' = posted \cup {<<handlers[p].ref, handlers[p].order>>}
  /\ Return(p)
  /\ UNCHANGED <<records, provider>>

(* refreshStatus, from GET momo/{collections,disbursements}/:referenceId.     *)
PollFind(p, r) ==
  /\ At(p, "idle") /\ r \in Known
  /\ handlers' = [handlers EXCEPT ![p].pc = "fetch", ![p].ref = r]
  /\ UNCHANGED <<records, posted, provider>>

(* reconcilePending: snapshot the PENDING rows, then refresh one by one; an   *)
(* error on one is logged and the loop goes on.                               *)
Pending == {r \in Known : records[r].status = "PENDING"}

RunStart(p) ==
  /\ At(p, "idle") /\ Pending # {}
  /\ handlers' = [handlers EXCEPT ![p].pc = "next", ![p].todo = Pending]
  /\ UNCHANGED <<records, posted, provider>>

RunPick(p, r) ==
  /\ At(p, "next") /\ r \in handlers[p].todo
  /\ handlers' = [handlers EXCEPT ![p].pc = "fetch", ![p].ref = r,
                                  ![p].todo = @ \ {r}]
  /\ UNCHANGED <<records, posted, provider>>

RunEnd(p) ==
  /\ At(p, "next") /\ handlers[p].todo = {}
  /\ Return(p)
  /\ UNCHANGED <<records, posted, provider>>

(* The GET to MTN, and validateResource: a status outside the enum is         *)
(* refused, as is a reference MTN does not know (404).                        *)
AnyStatus(s) == s # "NONE"               \* fault: enum not checked
StatusKnown(s) == s \in Status

Fetch(p) ==
  LET s == provider[handlers[p].ref]
  IN  /\ At(p, "fetch")
      /\ StatusKnown(s)
      /\ handlers' = [handlers EXCEPT ![p].pc = "upsert", ![p].res = s]
      /\ UNCHANGED <<records, posted, provider>>

(* applyCallback: MTN posts the resource of order o to the one configured     *)
(* URL. The record is looked up by externalId and the product of that URL     *)
(* (404 without one), and validateResource compares amount and currency.      *)
MoneyUnchecked(r, o) == TRUE             \* fault: no amount/currency comparison
MoneyMatches(r, o) == MoneyOf[records[r].order] = MoneyOf[o]

CallbackFind(p, r, q, o) ==
  /\ At(p, "idle")
  /\ <<q, o>> \in posted /\ provider[q] \in Final
  /\ r \in Known /\ TypeOf[records[r].order] = Route /\ ExtOf[records[r].order] = ExtOf[o]
  /\ MoneyMatches(r, o)
  /\ handlers' = [handlers EXCEPT ![p].pc = "upsert", ![p].ref = r, ![p].res = provider[q]]
  /\ UNCHANGED <<records, posted, provider>>

(* upsertStatus: read the row; a terminal one is not moved to another status; *)
(* then the UPDATE, which applies only WHERE status = 'PENDING'.              *)
UpsertFind(p) ==
  LET s == records[handlers[p].ref].status
  IN  /\ At(p, "upsert")
      /\ \/ s \in Final /\ s # handlers[p].res /\ Done(p)
         \/ (s \in Final => s = handlers[p].res) /\ Goto(p, "persist")
      /\ UNCHANGED <<records, posted, provider>>

PersistAlways(r) == TRUE                 \* fault: UPDATE without its WHERE
PersistApplies(r) == records[r].status = "PENDING"

Persist(p) ==
  LET r == handlers[p].ref
  IN  /\ At(p, "persist")
      /\ records' = IF PersistApplies(r)
                    THEN [records EXCEPT ![r].status = handlers[p].res] ELSE records
      /\ Done(p)
      /\ UNCHANGED <<posted, provider>>

(* A token request, a statement or a call to MTN fails, or times out: the     *)
(* request answers with the error and a run logs it and goes on. A crash ends *)
(* either.                                                                    *)
ErrorEndsRun(p) == Return(p)             \* fault: no try/catch in the loop
AfterError(p) == Done(p)

Fail(p) ==
  /\ handlers[p].pc \in Steps \ {"idle", "next"}
  /\ AfterError(p)
  /\ UNCHANGED <<records, posted, provider>>

Crash(p) ==
  /\ ~At(p, "idle")
  /\ Return(p)
  /\ UNCHANGED <<records, posted, provider>>

-----------------------------------------------------------------------------
(* MTN: a posted request may be accepted, late or never, may pass through a   *)
(* status this backend does not know, and is decided once.                    *)
Accept(r) ==
  /\ provider[r] = "NONE" /\ \E o \in Orders : <<r, o>> \in posted
  /\ \E s \in {"PENDING", "OTHER"} : provider' = [provider EXCEPT ![r] = s]
  /\ UNCHANGED <<records, handlers, posted>>

Decide(r) ==
  /\ provider[r] \in {"PENDING", "OTHER"}
  /\ \E s \in Final : provider' = [provider EXCEPT ![r] = s]
  /\ UNCHANGED <<records, handlers, posted>>

-----------------------------------------------------------------------------
Step(p) ==
  \/ Reserve(p) \/ Post(p) \/ Fetch(p) \/ UpsertFind(p) \/ Persist(p)
  \/ RunEnd(p) \/ (\E r \in Refs : RunPick(p, r)) \/ Fail(p)

Begin(p) ==
  \/ \E r \in Refs : PollFind(p, r) \/ \E o \in Orders : OrderFind(p, o, r)
  \/ \E r, q \in Refs, o \in Orders : CallbackFind(p, r, q, o)

Next ==
  \/ \E p \in Actors : Step(p) \/ Crash(p)
  \/ \E p \in Requests : Begin(p)
  \/ \E p \in Runs : RunStart(p)
  \/ \E r \in Refs : Accept(r) \/ Decide(r)

Spec == Init /\ [][Next]_vars

(* The timer keeps starting runs (setInterval), a started handler goes on,    *)
(* and the process stays up in the end, so that runs are not cut short for    *)
(* ever. What may fail does not fail every time it is tried for a reference   *)
(* MTN has decided: asking MTN, reading the row and writing it. Nothing is    *)
(* assumed of whether and when a run gets to a reference: that is the loop's. *)
Refreshes(p, r) == handlers[p].ref = r /\ provider[r] \in Final
WritesFinal(p, r) == Refreshes(p, r) /\ handlers[p].res = provider[r]

Fairness ==
  /\ \A p \in Actors : WF_vars(Step(p))
  /\ \A p \in Runs : WF_vars(RunStart(p))
  /\ <>[][\A p \in Runs : Crash(p) => Step(p)]_vars  \* only its own steps end a run
  /\ \A r \in Refs :
       /\ SF_vars(\E p \in Runs : Refreshes(p, r) /\ Fetch(p))
       /\ SF_vars(\E p \in Runs : WritesFinal(p, r) /\ UpsertFind(p))
       /\ SF_vars(\E p \in Runs : WritesFinal(p, r) /\ Persist(p))

FairSpec == Spec /\ Fairness

-----------------------------------------------------------------------------
(* Every record and every handler has the shape the code gives it.            *)
TypeOK ==
  /\ Known \subseteq Refs
  /\ records \in [Known -> [order : Orders, status : Status]]
  /\ handlers \in [Actors -> [pc : Steps, ref : Refs \cup {NoRef},
                              order : Orders \cup {NoOrder}, res : Status,
                              todo : SUBSET Refs]]
  /\ posted \subseteq Refs \X Orders
  /\ provider \in [Refs -> {"NONE", "OTHER"} \cup Status]

(* One merchant reference is one charge: however requests race, fail, are cut *)
(* by a crash and are retried, MTN is asked at most once, under one           *)
(* X-Reference-Id and for one set of details, for each product and externalId *)
(* ("never create a fresh charge on retry", momo.service.ts:37).              *)
OneChargePerReference ==
  \A a, b \in posted : SameReference(a[2], b[2]) => a = b

(* Nothing reaches MTN that a restart could not find again: the reference of  *)
(* every posted request is stored, with the details that were posted.         *)
ReservedBeforePost ==
  \A a \in posted : a[1] \in Known /\ records[a[1]].order = a[2]

(* A final status is MTN's final status of that very reference, whichever of  *)
(* a callback, a status poll and a reconciliation run wrote it and however    *)
(* old the answer was.                                                        *)
TruthfulStatus ==
  \A r \in Known : records[r].status \in Final => provider[r] = records[r].status

(* A terminal record is not moved back to PENDING or to the other terminal    *)
(* state by any duplicated, delayed or reordered answer (store comment, 123). *)
FinalForever ==
  [][\A r \in Known : records[r].status \in Final => records'[r].status = records[r].status]_vars

(* A reference MTN has decided is eventually reported so, by the timer alone, *)
(* when every callback is lost; also when another one fails at every refresh  *)
(* (momo.service.ts:128), as one in a status this backend does not know does. *)
PendingResolves ==
  \A r \in Refs :
    (r \in Known /\ provider[r] \in Final) ~> (r \in Known /\ records[r].status = provider[r])

(* What makes TruthfulStatus true: a merchant does not use one reference for  *)
(* both products with the same amount. Without it a callback of one product,  *)
(* posted to the only configured URL, passes for the other's.                 *)
UnambiguousOrders ==
  \A o, u \in Orders :
    TypeOf[o] # TypeOf[u] /\ ExtOf[o] = ExtOf[u] => MoneyOf[o] # MoneyOf[u]
=============================================================================
