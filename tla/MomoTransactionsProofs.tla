----------------------- MODULE MomoTransactionsProofs -----------------------
(* Proofs about MomoTransactions, for any references, orders, concurrent      *)
(* requests and overlapping reconciliation runs.                              *)
EXTENDS MomoTransactions, TLAPS

USE DEF Known, At, Goto, Return

Handler == [pc : Steps, ref : Refs \cup {NoRef}, order : Orders \cup {NoOrder},
            res : Status, todo : SUBSET Refs]

(* UNIQUE (transaction_type, external_id).                                    *)
RecordsUnique ==
  \A r, s \in Known : SameReference(records[r].order, records[s].order) => r = s

(* What a handler may rely on between two awaits, whatever the others did: a  *)
(* reference drawn is its own until it is stored, one that is posted is stored*)
(* with the same details, and one to refresh is a stored one.                 *)
HandlerOK(p) ==
  LET h == handlers[p]
  IN  /\ h.pc = "reserve" => /\ p \in Requests /\ h.ref \in Refs \ Known /\ h.order \in Orders
                             /\ \A q \in Requests \ {p} : handlers[q].ref # h.ref
      /\ h.pc = "post" => h.ref \in Known /\ records[h.ref].order = h.order
      /\ h.pc \in {"fetch", "upsert", "persist"} => h.ref \in Known
      /\ h.pc # "reserve" => h.ref \in Known \cup {NoRef}
      /\ h.todo \subseteq Known

IInv ==
  /\ TypeOK
  /\ RecordsUnique
  /\ ReservedBeforePost
  /\ \A p \in Actors : HandlerOK(p)

(* The ways a handler's record changes keep its type.                         *)
LEMMA Typing ==
  ASSUME TypeOK, NEW p \in Actors
  PROVE  /\ Idle \in Handler
         /\ handlers \in [Actors -> Handler]
         /\ \A step \in Steps : Goto(p, step) => (handlers \in [Actors -> Handler])'
         /\ Done(p) => (handlers \in [Actors -> Handler])'
<1>1. Idle \in Handler
  BY DEF Idle, Handler, Steps, Status
<1>2. handlers \in [Actors -> Handler] /\ handlers[p] \in Handler
  BY DEF TypeOK, Handler
<1>3. ASSUME NEW step \in Steps, Goto(p, step) PROVE (handlers \in [Actors -> Handler])'
  <2>1. [handlers[p] EXCEPT !.pc = step] \in Handler
    BY <1>2 DEF Handler
  <2> QED BY <2>1, <1>2, <1>3
<1>4. ASSUME Done(p) PROVE (handlers \in [Actors -> Handler])'
  <2>1. [Idle EXCEPT !.pc = "next", !.todo = handlers[p].todo] \in Handler
    BY <1>1, <1>2 DEF Handler, Idle, Steps
  <2> QED BY <1>1, <1>2, <1>4, <2>1 DEF Done
<1> QED BY <1>1, <1>2, <1>3, <1>4

LEMMA InitIInv == Init => IInv
<1> SUFFICES ASSUME Init PROVE IInv OBVIOUS
<1>1. TypeOK
  BY MomoAssumption DEF Init, TypeOK, Idle, Steps, Status
<1> QED BY <1>1 DEF Init, IInv, RecordsUnique, ReservedBeforePost, HandlerOK, Idle

(* A step of p that touches no row, and leaves p with nothing it does not     *)
(* already have a right to.                                                   *)
LEMMA QuietIInv ==
  ASSUME IInv, NEW p \in Actors, NEW h \in Handler,
         handlers' = [handlers EXCEPT ![p] = h],
         UNCHANGED <<records, posted>>, provider' \in [Refs -> {"NONE", "OTHER"} \cup Status],
         h.pc # "reserve",
         h.pc = "post" => h.ref \in Known /\ records[h.ref].order = h.order,
         h.pc \in {"fetch", "upsert", "persist"} => h.ref \in Known,
         h.ref \in Known \cup {NoRef}, h.todo \subseteq Known
  PROVE  IInv'
<1>1. TypeOK'
  BY Typing DEF IInv, TypeOK, Handler
<1>2. RecordsUnique' /\ ReservedBeforePost'
  BY DEF IInv, RecordsUnique, ReservedBeforePost, SameReference
<1>3. ASSUME NEW q \in Actors PROVE HandlerOK(q)'
  <2>0. HandlerOK(q) BY DEF IInv
  <2>1. CASE q = p
    BY <2>1, Typing DEF IInv, HandlerOK
  <2>2. CASE q # p
    <3>1. handlers'[q] = handlers[q] BY <2>2, Typing DEF IInv
    <3>2. handlers[q].pc = "reserve" => handlers'[p].ref # handlers[q].ref
      BY <2>0, Typing, MomoAssumption DEF IInv, HandlerOK
    <3> QED BY <2>0, <3>1, <3>2, Typing DEF IInv, HandlerOK
  <2> QED BY <2>1, <2>2
<1> QED BY <1>1, <1>2, <1>3 DEF IInv

(* Done: a request returns, a run keeps the rest of its snapshot.             *)
LEMMA DoneIInv ==
  ASSUME IInv, NEW p \in Actors, Done(p) \/ Return(p), UNCHANGED <<records, posted, provider>>
  PROVE  IInv'
<1> DEFINE rest == [Idle EXCEPT !.pc = "next", !.todo = handlers[p].todo]
<1>1. rest \in Handler /\ Idle \in Handler
  BY DEF IInv, TypeOK, Handler, Idle, Steps, Status
<1>2. handlers[p].todo \subseteq Known /\ provider' \in [Refs -> {"NONE", "OTHER"} \cup Status]
  BY DEF IInv, HandlerOK, TypeOK
<1>3. CASE handlers' = [handlers EXCEPT ![p] = Idle]
  BY <1>1, <1>2, <1>3, QuietIInv DEF Idle
<1>4. CASE handlers' = [handlers EXCEPT ![p] = rest]
  <2>1. rest.pc = "next" /\ rest.ref = NoRef /\ rest.todo = handlers[p].todo
    BY DEF Idle
  <2> HIDE DEF rest
  <2> QED BY <1>1, <1>2, <1>4, <2>1, QuietIInv
<1> QED BY <1>3, <1>4 DEF Done

LEMMA GotoIInv ==
  ASSUME IInv, NEW p \in Actors, NEW step \in {"upsert", "persist"}, NEW s \in Status,
         handlers[p].pc \in {"fetch", "upsert"},
         handlers' = [handlers EXCEPT ![p] = [handlers[p] EXCEPT !.pc = step, !.res = s]],
         UNCHANGED <<records, posted, provider>>
  PROVE  IInv'
<1> DEFINE h == [handlers[p] EXCEPT !.pc = step, !.res = s]
<1>1. /\ h \in Handler /\ h.pc = step /\ h.ref = handlers[p].ref /\ h.todo = handlers[p].todo
  BY DEF IInv, TypeOK, Handler, Steps
<1>2. /\ handlers[p].ref \in Known /\ handlers[p].todo \subseteq Known
      /\ provider' \in [Refs -> {"NONE", "OTHER"} \cup Status]
  BY DEF IInv, HandlerOK, TypeOK
<1>3. handlers' = [handlers EXCEPT ![p] = h]
  OBVIOUS
<1> HIDE DEF h
<1> QED BY <1>1, <1>2, <1>3, QuietIInv

(* OrderFind draws a reference that is neither stored nor drawn.              *)
LEMMA OrderFindIInv ==
  ASSUME IInv, NEW p \in Requests, NEW o \in Orders, NEW r \in Refs, OrderFind(p, o, r)
  PROVE  IInv'
<1> USE DEF OrderFind
<1>0. p \in Actors BY DEF Actors
<1>1. TypeOK'
  BY <1>0 DEF IInv, TypeOK, Steps
<1>2. RecordsUnique' /\ ReservedBeforePost'
  BY DEF IInv, RecordsUnique, ReservedBeforePost, SameReference
<1>3. ASSUME NEW q \in Actors PROVE HandlerOK(q)'
  <2>0. HandlerOK(q) /\ HandlerOK(p) /\ handlers \in [Actors -> Handler]
    BY <1>0, Typing DEF IInv
  <2>1. CASE q = p
    BY <1>0, <2>0, <2>1 DEF HandlerOK, Actors, Handler
  <2>2. CASE q # p
    BY <1>0, <2>0, <2>2 DEF HandlerOK, Actors, Handler
  <2> QED BY <2>1, <2>2
<1> QED BY <1>1, <1>2, <1>3 DEF IInv

(* Reserve stores the reference the handler drew, for an order no record had. *)
LEMMA ReserveIInv ==
  ASSUME IInv, NEW p \in Actors, Reserve(p)
  PROVE  IInv'
<1> DEFINE o == handlers[p].order
           r == handlers[p].ref
<1>0. /\ p \in Requests /\ r \in Refs \ Known /\ o \in Orders /\ At(p, "reserve")
      /\ \A q \in Requests \ {p} : handlers[q].ref # r
      /\ HandlerOK(p) /\ handlers \in [Actors -> Handler]
  BY Typing DEF Reserve, IInv, HandlerOK
<1>1. CASE /\ ReferenceFree(o)
           /\ records' = [s \in Known \cup {r} |->
                            IF s = r THEN [order |-> o, status |-> "PENDING"] ELSE records[s]]
           /\ Goto(p, "post")
           /\ UNCHANGED <<posted, provider>>
  <2>0. /\ Known' = Known \cup {r} /\ records'[r] = [order |-> o, status |-> "PENDING"]
        /\ \A s \in Known : records'[s] = records[s]
    BY <1>0, <1>1
  <2>1. TypeOK'
    <3>1. (handlers \in [Actors -> Handler])'
      BY <1>1, Typing DEF IInv, Steps
    <3>2. (records \in [Known -> [order : Orders, status : Status]])'
      BY <1>0, <1>1, <2>0 DEF IInv, TypeOK, Status
    <3> QED BY <1>0, <1>1, <2>0, <3>1, <3>2 DEF IInv, TypeOK, Handler
  <2>2. RecordsUnique'
    BY <1>1, <2>0 DEF IInv, RecordsUnique, ReferenceFree, Taken, SameReference
  <2>3. ReservedBeforePost'
    BY <1>0, <1>1, <2>0 DEF IInv, ReservedBeforePost
  <2>4. ASSUME NEW q \in Actors PROVE HandlerOK(q)'
    <3>0. HandlerOK(q) BY DEF IInv
    <3>1. CASE q = p
      BY <1>0, <1>1, <2>0, <3>1 DEF HandlerOK, Handler
    <3>2. CASE q # p
      <4>1. handlers'[q] = handlers[q] BY <1>0, <1>1, <3>2
      <4>2. \A s \in Requests : handlers'[s].ref = handlers[s].ref
        BY <1>0, <1>1 DEF Actors, Handler
      <4> QED BY <1>0, <1>1, <2>0, <3>0, <3>2, <4>1, <4>2 DEF HandlerOK
    <3> QED BY <3>1, <3>2
  <2> QED BY <2>1, <2>2, <2>3, <2>4 DEF IInv
<1>2. CASE Return(p) /\ UNCHANGED <<records, posted, provider>>
  BY <1>2, DoneIInv
<1> QED BY <1>1, <1>2 DEF Reserve, ReserveLoses

(* Post hands MTN what the handler has stored.                                *)
LEMMA PostIInv ==
  ASSUME IInv, NEW p \in Actors, Post(p)
  PROVE  IInv'
<1> USE DEF Post
<1>0. /\ handlers[p].ref \in Known /\ records[handlers[p].ref].order = handlers[p].order
      /\ handlers \in [Actors -> Handler] /\ Idle \in Handler
  BY Typing DEF IInv, HandlerOK
<1>1. TypeOK'
  <2>1. handlers[p].ref \in Refs /\ handlers[p].order \in Orders
    BY <1>0 DEF IInv, TypeOK
  <2> QED BY <1>0, <2>1 DEF IInv, TypeOK, Handler
<1>2. RecordsUnique' /\ ReservedBeforePost'
  BY <1>0 DEF IInv, RecordsUnique, ReservedBeforePost, SameReference
<1>3. ASSUME NEW q \in Actors PROVE HandlerOK(q)'
  <2>0. HandlerOK(q) BY DEF IInv
  <2>1. CASE q = p
    BY <1>0, <2>1 DEF HandlerOK, Idle
  <2>2. CASE q # p
    BY <1>0, <2>0, <2>2, MomoAssumption DEF HandlerOK, Idle
  <2> QED BY <2>1, <2>2
<1> QED BY <1>1, <1>2, <1>3 DEF IInv

(* Steps that give a handler a stored reference to refresh.                   *)
LEMMA FindIInv ==
  ASSUME IInv, NEW p \in Actors,
         \/ \E r \in Refs : PollFind(p, r) \/ RunPick(p, r)
         \/ \E r, q \in Refs, o \in Orders : CallbackFind(p, r, q, o)
         \/ RunStart(p)
  PROVE  IInv'
<1>0. /\ handlers[p] \in Handler /\ handlers[p].todo \subseteq Known
      /\ At(p, "idle") \/ At(p, "next")
      /\ provider \in [Refs -> {"NONE", "OTHER"} \cup Status] /\ Known \subseteq Refs
  BY Typing DEF IInv, HandlerOK, TypeOK, PollFind, RunPick, CallbackFind, RunStart
<1>1. ASSUME NEW r \in Refs, PollFind(p, r) PROVE IInv'
  <2> DEFINE h == [handlers[p] EXCEPT !.pc = "fetch", !.ref = r]
  <2>1. /\ h \in Handler /\ h.pc = "fetch" /\ h.ref = r /\ h.todo = handlers[p].todo
    BY <1>0 DEF Handler, Steps
  <2>2. handlers' = [handlers EXCEPT ![p] = h] /\ r \in Known /\ UNCHANGED <<records, posted, provider>>
    BY <1>1 DEF PollFind
  <2> HIDE DEF h
  <2> QED BY <1>0, <2>1, <2>2, QuietIInv
<1>2. ASSUME NEW r \in Refs, RunPick(p, r) PROVE IInv'
  <2> DEFINE h == [handlers[p] EXCEPT !.pc = "fetch", !.ref = r, !.todo = @ \ {r}]
  <2>1. /\ h \in Handler /\ h.pc = "fetch" /\ h.ref = r /\ h.todo = handlers[p].todo \ {r}
    BY <1>0 DEF Handler, Steps
  <2>2. /\ handlers' = [handlers EXCEPT ![p] = h] /\ r \in handlers[p].todo
        /\ UNCHANGED <<records, posted, provider>>
    BY <1>2 DEF RunPick
  <2> HIDE DEF h
  <2> QED BY <1>0, <2>1, <2>2, QuietIInv
<1>3. ASSUME NEW r \in Refs, NEW q \in Refs, NEW o \in Orders, CallbackFind(p, r, q, o) PROVE IInv'
  <2> DEFINE h == [handlers[p] EXCEPT !.pc = "upsert", !.ref = r, !.res = provider[q]]
  <2>1. /\ h \in Handler /\ h.pc = "upsert" /\ h.ref = r /\ h.todo = handlers[p].todo
    BY <1>0, <1>3 DEF Handler, Steps, CallbackFind, Status, Final
  <2>2. handlers' = [handlers EXCEPT ![p] = h] /\ r \in Known /\ UNCHANGED <<records, posted, provider>>
    BY <1>3 DEF CallbackFind
  <2> HIDE DEF h
  <2> QED BY <1>0, <2>1, <2>2, QuietIInv
<1>4. ASSUME RunStart(p) PROVE IInv'
  <2> DEFINE h == [handlers[p] EXCEPT !.pc = "next", !.todo = Pending]
  <2>1. Pending \subseteq Known
    BY DEF Pending
  <2>2. /\ h \in Handler /\ h.pc = "next" /\ h.ref = handlers[p].ref /\ h.todo = Pending
    BY <1>0, <2>1 DEF Handler, Steps
  <2>3. handlers' = [handlers EXCEPT ![p] = h] /\ UNCHANGED <<records, posted, provider>>
    BY <1>4 DEF RunStart
  <2>4. h.ref \in Known \cup {NoRef}
    BY <1>4, <2>2 DEF IInv, HandlerOK, RunStart
  <2> HIDE DEF h
  <2> QED BY <1>0, <2>1, <2>2, <2>3, <2>4, QuietIInv
<1> QED BY <1>1, <1>2, <1>3, <1>4

(* Refreshing: MTN's answer, the read of the row and its conditional UPDATE.  *)
LEMMA FetchIInv ==
  ASSUME IInv, NEW p \in Actors, Fetch(p)
  PROVE  IInv'
<1> DEFINE s == provider[handlers[p].ref]
<1>1. /\ s \in Status /\ handlers[p].pc = "fetch" /\ UNCHANGED <<records, posted, provider>>
      /\ handlers' = [handlers EXCEPT ![p] = [handlers[p] EXCEPT !.pc = "upsert", !.res = s]]
  BY DEF Fetch, StatusKnown
<1> QED BY <1>1, GotoIInv

LEMMA UpsertFindIInv ==
  ASSUME IInv, NEW p \in Actors, UpsertFind(p)
  PROVE  IInv'
<1>1. CASE Done(p)
  BY <1>1, DoneIInv DEF UpsertFind
<1>2. CASE Goto(p, "persist")
  <2>1. handlers[p] \in Handler /\ handlers[p].pc = "upsert" /\ handlers[p].res \in Status
    BY Typing DEF IInv, UpsertFind, Handler
  <2>2. [handlers[p] EXCEPT !.pc = "persist"]
          = [handlers[p] EXCEPT !.pc = "persist", !.res = handlers[p].res]
    BY <2>1 DEF Handler
  <2> QED BY <1>2, <2>1, <2>2, GotoIInv DEF UpsertFind
<1> QED BY <1>1, <1>2 DEF UpsertFind

LEMMA PersistIInv ==
  ASSUME IInv, NEW p \in Actors, Persist(p)
  PROVE  IInv'
<1> DEFINE r == handlers[p].ref
<1>0. /\ r \in Known /\ handlers[p].res \in Status /\ handlers \in [Actors -> Handler]
  BY Typing DEF IInv, HandlerOK, Persist, Handler
<1>1. /\ Known' = Known /\ \A s \in Known : records'[s].order = records[s].order
      /\ records' \in [Known -> [order : Orders, status : Status]]
  BY <1>0 DEF Persist, IInv, TypeOK
<1>2. TypeOK'
  BY <1>0, <1>1, Typing DEF IInv, TypeOK, Persist, Handler
<1>3. RecordsUnique' /\ ReservedBeforePost'
  BY <1>1 DEF IInv, RecordsUnique, ReservedBeforePost, SameReference, Persist
<1>4. /\ handlers'[p].pc \in {"idle", "next"} /\ handlers'[p].ref = NoRef
      /\ handlers'[p].todo \subseteq Known
      /\ \A q \in Actors \ {p} : handlers'[q] = handlers[q]
  <2>1. handlers[p].todo \subseteq Known
    BY DEF IInv, HandlerOK
  <2>2. CASE Return(p)
    BY <1>0, <2>2 DEF Idle
  <2>3. CASE handlers' = [handlers EXCEPT ![p] =
                            [Idle EXCEPT !.pc = "next", !.todo = handlers[p].todo]]
    BY <1>0, <2>1, <2>3 DEF Idle
  <2> QED BY <2>2, <2>3 DEF Persist, Done
<1>5. ASSUME NEW q \in Actors PROVE HandlerOK(q)'
  <2>0. HandlerOK(q) BY DEF IInv
  <2>1. CASE q = p
    BY <1>1, <1>4, <2>1 DEF HandlerOK
  <2>2. CASE q # p
    <3>1. \A s \in Requests : handlers'[s].ref \in {NoRef, handlers[s].ref}
      BY <1>4 DEF Actors
    <3> QED BY <1>1, <1>4, <2>0, <2>2, <3>1, MomoAssumption DEF HandlerOK
  <2> QED BY <2>1, <2>2
<1> QED BY <1>2, <1>3, <1>5 DEF IInv

(* MTN's own steps.                                                           *)
LEMMA ProviderIInv ==
  ASSUME IInv, NEW r \in Refs, Accept(r) \/ Decide(r)
  PROVE  IInv'
<1>1. UNCHANGED <<records, handlers, posted>>
  BY DEF Accept, Decide
<1>2. TypeOK'
  BY DEF IInv, TypeOK, Accept, Decide, Status
<1>3. RecordsUnique' /\ ReservedBeforePost' /\ \A q \in Actors : HandlerOK(q)'
  BY <1>1 DEF IInv, RecordsUnique, ReservedBeforePost, SameReference, HandlerOK
<1> QED BY <1>2, <1>3 DEF IInv

LEMMA NextIInv == IInv /\ [Next]_vars => IInv'
<1> SUFFICES ASSUME IInv, [Next]_vars PROVE IInv' OBVIOUS
<1>1. ASSUME NEW p \in Actors, Step(p) \/ Crash(p) PROVE IInv'
  <2>1. CASE RunEnd(p) \/ Fail(p) \/ Crash(p)
    BY <2>1, DoneIInv DEF RunEnd, Fail, AfterError, Crash
  <2>2. CASE Reserve(p) BY <2>2, ReserveIInv
  <2>3. CASE Post(p) BY <2>3, PostIInv
  <2>4. CASE Fetch(p) BY <2>4, FetchIInv
  <2>5. CASE UpsertFind(p) BY <2>5, UpsertFindIInv
  <2>6. CASE Persist(p) BY <2>6, PersistIInv
  <2>7. CASE \E r \in Refs : RunPick(p, r) BY <2>7, FindIInv
  <2> QED BY <1>1, <2>1, <2>2, <2>3, <2>4, <2>5, <2>6, <2>7 DEF Step
<1>2. ASSUME NEW p \in Requests, Begin(p) PROVE IInv'
  <2>0. p \in Actors BY DEF Actors
  <2>1. CASE \E r \in Refs, o \in Orders : OrderFind(p, o, r)
    BY <2>1, OrderFindIInv
  <2>2. CASE (\E r \in Refs : PollFind(p, r)) \/ \E r, q \in Refs, o \in Orders : CallbackFind(p, r, q, o)
    BY <2>0, <2>2, FindIInv
  <2> QED BY <1>2, <2>1, <2>2 DEF Begin
<1>3. ASSUME NEW p \in Runs, RunStart(p) PROVE IInv'
  BY <1>3, FindIInv DEF Actors
<1>4. ASSUME NEW r \in Refs, Accept(r) \/ Decide(r) PROVE IInv'
  BY <1>4, ProviderIInv
<1>5. CASE UNCHANGED vars
  <2>1. UNCHANGED <<records, handlers, posted, provider>>
    BY <1>5 DEF vars
  <2> QED BY <2>1 DEF IInv, TypeOK, RecordsUnique, ReservedBeforePost, SameReference, HandlerOK
<1> QED BY <1>1, <1>2, <1>3, <1>4, <1>5 DEF Next

-----------------------------------------------------------------------------
(* The strengthening holds in every reachable state: references are unique,   *)
(* what was posted is stored, and handlers hold what is still true.           *)
THEOREM InductiveInvariant == Spec => []IInv
<1>1. Init => IInv BY InitIInv
<1>2. IInv /\ [Next]_vars => IInv' BY NextIInv
<1> QED BY <1>1, <1>2, PTL DEF Spec

(* Records, handlers and the network keep their shape.                        *)
THEOREM TypeCorrect == Spec => []TypeOK
<1>1. IInv => TypeOK BY DEF IInv
<1> QED BY <1>1, InductiveInvariant, PTL

(* The reference of every posted request is stored with its details before    *)
(* callMomo sends it.                                                         *)
THEOREM ReservationFirst == Spec => []ReservedBeforePost
<1>1. IInv => ReservedBeforePost BY DEF IInv
<1> QED BY <1>1, InductiveInvariant, PTL

(* MTN is asked at most once for a product and externalId: two requests for   *)
(* one reference would be posted under one stored record.                     *)
THEOREM ChargedOnce == Spec => []OneChargePerReference
<1>1. ASSUME IInv PROVE OneChargePerReference
  <2> SUFFICES ASSUME NEW a \in posted, NEW b \in posted, SameReference(a[2], b[2])
               PROVE  a = b
    BY DEF OneChargePerReference
  <2>1. a[1] \in Known /\ records[a[1]].order = a[2] /\ b[1] \in Known /\ records[b[1]].order = b[2]
    BY <1>1 DEF IInv, ReservedBeforePost
  <2>2. a[1] = b[1]
    BY <1>1, <2>1 DEF IInv, RecordsUnique
  <2> QED BY <1>1, <2>1, <2>2 DEF IInv, TypeOK
<1> QED BY <1>1, InductiveInvariant, PTL

(* No step moves a terminal record, not even one that read it before.         *)
THEOREM TerminalIsFinal == Spec => FinalForever
<1>1. ASSUME IInv, [Next]_vars
      PROVE  [\A r \in Known : records[r].status \in Final => records'[r].status = records[r].status]_vars
  <2> SUFFICES ASSUME NEW r \in Known, records[r].status \in Final, Next
               PROVE  records'[r].status = records[r].status
    BY <1>1
  <2>1. ASSUME NEW p \in Actors, Reserve(p) PROVE records'[r].status = records[r].status
    BY <1>1, <2>1 DEF Reserve, IInv, HandlerOK
  <2>2. ASSUME NEW p \in Actors, Persist(p) PROVE records'[r].status = records[r].status
    BY <1>1, <2>2 DEF Persist, PersistApplies, Final, IInv, TypeOK
  <2>3. ASSUME UNCHANGED records PROVE records'[r].status = records[r].status
    BY <2>3
  <2>4. \/ \E p \in Actors : Reserve(p) \/ Persist(p)
        \/ UNCHANGED records
    BY DEF Next, Step, Begin, Post, Fetch, UpsertFind, RunEnd, RunPick, Fail, AfterError, Crash, RunStart,
           PollFind, OrderFind, CallbackFind, Accept, Decide
  <2> QED BY <2>1, <2>2, <2>3, <2>4
<1> QED BY <1>1, InductiveInvariant, PTL DEF Spec, FinalForever

-----------------------------------------------------------------------------
(* A handler about to write a final status holds MTN's for its reference. It  *)
(* got it from a GET of that reference, or from a callback that, as merchants *)
(* do not use one externalId and amount for both products, is of no other.    *)
ResultTrue(p) ==
  handlers[p].pc \in {"upsert", "persist"} /\ handlers[p].res \in Final =>
    provider[handlers[p].ref] = handlers[p].res

TInv == TruthfulStatus /\ \A p \in Actors : ResultTrue(p)

(* MTN decides once: what it said of a reference stays true.                  *)
LEMMA ProviderStable ==
  ASSUME IInv, [Next]_vars, NEW r \in Refs, provider[r] \in Final
  PROVE  provider'[r] = provider[r]
<1>1. UNCHANGED provider \/ \E q \in Refs : Accept(q) \/ Decide(q)
  BY DEF Next, Step, Begin, Reserve, Post, Fetch, UpsertFind, Persist, RunEnd, RunPick, Fail, AfterError, Crash,
         RunStart, PollFind, OrderFind, CallbackFind, vars
<1>2. ASSUME NEW q \in Refs, Accept(q) \/ Decide(q) PROVE provider'[r] = provider[r]
  BY <1>2 DEF Accept, Decide, Final, IInv, TypeOK
<1> QED BY <1>1, <1>2

(* A callback that validateResource accepts is of the record it is applied to.*)
LEMMA CallbackOfRecord ==
  ASSUME UnambiguousOrders, IInv, NEW p \in Requests,
         NEW r \in Refs, NEW q \in Refs, NEW o \in Orders, CallbackFind(p, r, q, o)
  PROVE  q = r
<1>1. q \in Known /\ records[q].order = o /\ r \in Known /\ records[r].order \in Orders
  BY DEF IInv, ReservedBeforePost, CallbackFind, TypeOK
<1>2. /\ TypeOf[records[r].order] = Route /\ ExtOf[records[r].order] = ExtOf[o]
      /\ MoneyOf[records[r].order] = MoneyOf[o]
  BY DEF CallbackFind, MoneyMatches
<1>3. TypeOf[o] = Route
  BY <1>1, <1>2 DEF UnambiguousOrders
<1> QED BY <1>1, <1>2, <1>3 DEF IInv, RecordsUnique, SameReference

(* What a step may do to a handler and to a status.                           *)
LEMMA ResultStep ==
  ASSUME UnambiguousOrders, IInv, TInv, [Next]_vars, NEW p \in Actors
  PROVE  ResultTrue(p)'
<1>0. /\ handlers \in [Actors -> Handler]
      /\ handlers[p].pc \in {"upsert", "persist"} => handlers[p].ref \in Refs
  BY Typing DEF IInv, HandlerOK, TypeOK
<1>1. CASE handlers'[p] = handlers[p]
  BY <1>0, <1>1, ProviderStable DEF TInv, ResultTrue
<1>2. CASE handlers'[p].pc \notin {"upsert", "persist"}
  BY <1>2 DEF ResultTrue
<1>3. CASE Fetch(p)
  BY <1>0, <1>3 DEF Fetch, ResultTrue
<1>4. CASE Goto(p, "persist") /\ At(p, "upsert") /\ UNCHANGED provider
  <2>1. handlers'[p].pc = "persist" /\ handlers'[p].ref = handlers[p].ref /\ handlers'[p].res = handlers[p].res
    BY <1>0, <1>4 DEF Handler
  <2> QED BY <1>4, <2>1 DEF TInv, ResultTrue
<1>5. ASSUME p \in Requests, NEW r \in Refs, NEW q \in Refs, NEW o \in Orders, CallbackFind(p, r, q, o)
      PROVE  ResultTrue(p)'
  <2>1. q = r /\ r \in Refs
    BY <1>5, CallbackOfRecord
  <2>2. handlers'[p].ref = r /\ handlers'[p].res = provider[q] /\ provider' = provider
    BY <1>0, <1>5 DEF CallbackFind, Handler
  <2> QED BY <2>1, <2>2 DEF ResultTrue
<1>6. ASSUME NEW q \in Actors, Step(q) \/ Crash(q) PROVE ResultTrue(p)'
  <2>1. CASE q = p
    <3>1. CASE Fetch(p) BY <1>3, <3>1
    <3>2. CASE UpsertFind(p) /\ Goto(p, "persist") BY <1>4, <3>2 DEF UpsertFind
    <3>3. CASE Done(p) \/ Return(p)
      <4>1. CASE Return(p)
        BY <1>0, <1>2, <4>1 DEF Idle
      <4>2. CASE handlers' = [handlers EXCEPT ![p] =
                                [Idle EXCEPT !.pc = "next", !.todo = handlers[p].todo]]
        BY <1>0, <1>2, <4>2 DEF Idle
      <4> QED BY <3>3, <4>1, <4>2 DEF Done
    <3>4. CASE Reserve(p)
      BY <1>0, <1>2, <3>3, <3>4 DEF Reserve, ReserveLoses, Handler
    <3>5. CASE \E r \in Refs : RunPick(p, r)
      BY <1>0, <1>2, <3>5 DEF RunPick, Handler
    <3> QED BY <1>6, <2>1, <3>1, <3>2, <3>3, <3>4, <3>5
            DEF Step, UpsertFind, Post, Persist, RunEnd, Fail, AfterError, Crash
  <2>2. CASE q # p
    <3>1. handlers'[p] = handlers[p]
      BY <1>0, <1>6, <2>2 DEF Step, Reserve, ReserveLoses, Post, Fetch, UpsertFind, Persist, RunEnd,
                              RunPick, Fail, AfterError, Crash, Done
    <3> QED BY <1>1, <3>1
  <2> QED BY <2>1, <2>2
<1>7. ASSUME NEW q \in Requests, Begin(q) PROVE ResultTrue(p)'
  <2>1. CASE q = p
    <3>1. ASSUME NEW r \in Refs, PollFind(p, r) PROVE ResultTrue(p)'
      BY <1>0, <1>2, <3>1 DEF PollFind, Handler
    <3>2. ASSUME NEW r \in Refs, NEW o \in Orders, OrderFind(p, o, r) PROVE ResultTrue(p)'
      BY <1>0, <1>2, <3>2 DEF OrderFind, Handler
    <3> QED BY <1>5, <1>7, <2>1, <3>1, <3>2 DEF Begin
  <2>2. CASE q # p
    <3>1. handlers'[p] = handlers[p]
      BY <1>0, <1>7, <2>2 DEF Begin, PollFind, OrderFind, CallbackFind
    <3> QED BY <1>1, <3>1
  <2> QED BY <2>1, <2>2
<1>8. ASSUME NEW q \in Runs, RunStart(q) PROVE ResultTrue(p)'
  BY <1>0, <1>1, <1>2, <1>8 DEF RunStart, Handler
<1>9. CASE UNCHANGED handlers
  BY <1>1, <1>9
<1> QED BY <1>6, <1>7, <1>8, <1>9 DEF Next, Accept, Decide, vars

LEMMA StatusStep ==
  ASSUME IInv, TInv, [Next]_vars
  PROVE  TruthfulStatus'
<1> SUFFICES ASSUME NEW r \in Known', records'[r].status \in Final
             PROVE  provider'[r] = records'[r].status
  BY DEF TruthfulStatus
<1>1. CASE r \in Known /\ records'[r].status = records[r].status
  BY <1>1, ProviderStable DEF IInv, TypeOK, TInv, TruthfulStatus
<1>2. ASSUME NEW p \in Actors, Persist(p) PROVE provider'[r] = records'[r].status
  <2>1. /\ handlers[p].ref \in Known /\ Known' = Known /\ provider' = provider
        /\ r # handlers[p].ref => records'[r] = records[r]
        /\ r = handlers[p].ref => records'[r].status \in {records[r].status, handlers[p].res}
    BY <1>2 DEF Persist, IInv, HandlerOK, TypeOK
  <2> QED BY <1>1, <1>2, <2>1 DEF TInv, ResultTrue, Persist
<1>3. ASSUME NEW p \in Actors, Reserve(p) PROVE provider'[r] = records'[r].status
  BY <1>1, <1>3 DEF Reserve, Final
<1>4. CASE UNCHANGED records
  BY <1>1, <1>4
<1>5. \/ \E p \in Actors : Reserve(p) \/ Persist(p)
      \/ UNCHANGED records
  BY DEF Next, Step, Begin, Post, Fetch, UpsertFind, RunEnd, RunPick, Fail, AfterError, Crash, RunStart,
         PollFind, OrderFind, CallbackFind, Accept, Decide, vars
<1> QED BY <1>2, <1>3, <1>4, <1>5

(* A reported final status is MTN's own for that reference, for merchants who *)
(* keep their references and amounts apart between the two products.          *)
THEOREM StatusIsTruthful == ASSUME UnambiguousOrders PROVE Spec => []TruthfulStatus
<1>1. Init => TInv
  BY DEF Init, TInv, TruthfulStatus, ResultTrue, Idle
<1>2. IInv /\ TInv /\ [Next]_vars => TInv'
  BY ResultStep, StatusStep DEF TInv
<1>3. TInv => TruthfulStatus
  BY DEF TInv
<1> QED BY <1>1, <1>2, <1>3, InductiveInvariant, PTL DEF Spec
=============================================================================
