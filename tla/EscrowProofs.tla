---------------------------- MODULE EscrowProofs ----------------------------
(* Proofs about Escrow: any users, token contracts, amounts and number of     *)
(* escrows.                                                                   *)
EXTENDS Escrow, FiniteSetTheorems, TLAPS

LEMMA ContractNoUser ==
  ASSUME EscrowAssumption
  PROVE  /\ Contract \in Holders /\ Users \subseteq Holders
         /\ \A s \in Users : s # Contract
BY DEF EscrowAssumption, Holders

LEMMA IntervalsNat ==
  ASSUME EscrowAssumption
  PROVE  0..MaxAmount \subseteq Nat /\ 1..MaxAmount \subseteq Nat /\ 0..MaxTime \subseteq Nat
BY DEF EscrowAssumption

(* What a transfer that does not panic changes.                               *)
LEMMA MoveBalance ==
  ASSUME EscrowAssumption, TypeOK, NEW a \in Assets, NEW from \in Holders, NEW to \in Holders,
         NEW n \in Nat, Move(a, from, to, n)
  PROVE  /\ balance' \in [Assets -> [Holders -> Nat]]
         /\ \A b \in Assets, h \in Holders :
              Paid(b, h) = (IF b = a /\ h = to THEN n ELSE 0)
                           - (IF b = a /\ h = from THEN n ELSE 0)
<1> DEFINE new == [h \in Holders |-> balance[a][h] + (IF h = to THEN n ELSE 0)
                                                   - (IF h = from THEN n ELSE 0)]
<1>1. balance \in [Assets -> [Holders -> Nat]] BY DEF TypeOK
<1>2. balance[a] \in [Holders -> Nat] /\ balance[a][from] >= n
  BY <1>1 DEF Move
<1>3. balance' = [balance EXCEPT ![a] = new]
  BY DEF Move
<1>4. new \in [Holders -> Nat]
  BY <1>2
<1>5. balance' \in [Assets -> [Holders -> Nat]]
  BY <1>1, <1>3, <1>4
<1>6. ASSUME NEW b \in Assets, NEW h \in Holders
      PROVE  Paid(b, h) = (IF b = a /\ h = to THEN n ELSE 0)
                          - (IF b = a /\ h = from THEN n ELSE 0)
  <2>1. balance[b][h] \in Nat BY <1>1
  <2>2. CASE b = a
    <3>1. balance'[b] = new BY <1>1, <1>3, <2>2
    <3>2. balance'[b][h] = balance[b][h] + (IF h = to THEN n ELSE 0)
                                         - (IF h = from THEN n ELSE 0)
      BY <2>2, <3>1
    <3> QED BY <2>1, <2>2, <3>2 DEF Paid
  <2>3. CASE b # a
    <3>1. balance'[b] = balance[b] BY <1>1, <1>3, <2>3
    <3> QED BY <2>1, <2>3, <3>1 DEF Paid
  <2> QED BY <2>2, <2>3
<1> QED BY <1>5, <1>6

LEMMA RecordTyped ==
  ASSUME EscrowAssumption, TypeOK, NEW i \in Ids
  PROVE  escrows[i] \in EscrowRecord
BY DEF TypeOK, Ids

LEMMA SetStatusTyped ==
  ASSUME EscrowAssumption, TypeOK, NEW i \in Ids, NEW s \in Statuses, SetStatus(i, s)
  PROVE  /\ escrows' \in Seq(EscrowRecord)
         /\ escrows'[i].status = s
<1> DEFINE x == [escrows[i] EXCEPT !.status = s]
<1>1. escrows[i] \in EscrowRecord BY RecordTyped
<1>2. x \in EscrowRecord /\ x.status = s BY <1>1 DEF EscrowRecord
<1>3. escrows' = [escrows EXCEPT ![i] = x] BY DEF SetStatus
<1> HIDE DEF x
<1> QED BY <1>2, <1>3 DEF TypeOK, Ids

-----------------------------------------------------------------------------
LEMMA InitTypeOK == ASSUME EscrowAssumption, Init PROVE TypeOK
<1>1. escrows \in Seq(EscrowRecord) BY DEF Init
<1>2. balance \in [Assets -> [Holders -> Nat]] BY DEF EscrowAssumption, Init
<1> QED BY <1>1, <1>2 DEF Init, TypeOK

LEMMA CreateTypeOK ==
  ASSUME EscrowAssumption, TypeOK, NEW a \in Assets, NEW n \in 0..MaxAmount, NEW s \in Users,
         NEW r \in Holders, NEW e \in 0..MaxTime, CreateEscrow(a, n, s, r, e)
  PROVE  TypeOK'
<1> DEFINE x == [asset |-> a, sender |-> s, recipient |-> r,
                 amount |-> n, expires_at |-> e, status |-> "Created"]
<1>1. n \in 1..MaxAmount /\ e \in Nat
  BY DEF EscrowAssumption, CreateEscrow, AmountValid
<1>2. x \in EscrowRecord BY <1>1 DEF EscrowRecord, Statuses
<1>3. escrows' = Append(escrows, x) /\ UNCHANGED <<balance, now, stray>>
  BY DEF CreateEscrow
<1> HIDE DEF x
<1> QED BY <1>2, <1>3 DEF TypeOK

LEMMA FundTypeOK == ASSUME EscrowAssumption, TypeOK, NEW i \in Ids, Fund(i) PROVE TypeOK'
<1>1. escrows[i].asset \in Assets /\ escrows[i].sender \in Holders
      /\ escrows[i].amount \in Nat
  BY RecordTyped, ContractNoUser, IntervalsNat DEF EscrowRecord
<1>2. balance' \in [Assets -> [Holders -> Nat]]
  BY <1>1, MoveBalance, ContractNoUser DEF Fund
<1>3. escrows' \in Seq(EscrowRecord)
  BY SetStatusTyped DEF Fund, Statuses
<1> QED BY <1>2, <1>3 DEF Fund, TypeOK

LEMMA ReleaseTypeOK == ASSUME EscrowAssumption, TypeOK, NEW i \in Ids, Release(i) PROVE TypeOK'
<1>1. escrows[i].asset \in Assets /\ escrows[i].recipient \in Holders
      /\ escrows[i].amount \in Nat
  BY RecordTyped, IntervalsNat DEF EscrowRecord
<1>2. balance' \in [Assets -> [Holders -> Nat]]
  BY <1>1, MoveBalance, ContractNoUser DEF Release
<1>3. escrows' \in Seq(EscrowRecord)
  BY SetStatusTyped DEF Release, Statuses
<1>4. stray' \in [Assets -> Nat]
  BY <1>1 DEF Release, TypeOK
<1> QED BY <1>2, <1>3, <1>4 DEF Release, TypeOK

LEMMA RefundTypeOK == ASSUME EscrowAssumption, TypeOK, NEW i \in Ids, Refund(i) PROVE TypeOK'
<1>1. escrows[i].asset \in Assets /\ escrows[i].sender \in Holders
      /\ escrows[i].amount \in Nat
  BY RecordTyped, ContractNoUser, IntervalsNat DEF EscrowRecord
<1>2. balance' \in [Assets -> [Holders -> Nat]]
  BY <1>1, MoveBalance, ContractNoUser DEF Refund
<1>3. escrows' \in Seq(EscrowRecord)
  BY SetStatusTyped DEF Refund, Statuses
<1> QED BY <1>2, <1>3 DEF Refund, TypeOK

LEMMA SpendTypeOK ==
  ASSUME EscrowAssumption, TypeOK, NEW a \in Assets, NEW n \in 1..MaxAmount, NEW s \in Users,
         NEW r \in Holders, Spend(a, s, r, n)
  PROVE  TypeOK'
<1>1. n \in Nat /\ s \in Holders BY IntervalsNat, ContractNoUser
<1>2. balance' \in [Assets -> [Holders -> Nat]]
  BY <1>1, MoveBalance DEF Spend
<1>3. stray' \in [Assets -> Nat] BY <1>1 DEF Spend, TypeOK
<1> QED BY <1>2, <1>3 DEF Spend, TypeOK

LEMMA NextTypeOK == ASSUME EscrowAssumption, TypeOK, [Next]_vars PROVE TypeOK'
<1>1. CASE Tick BY <1>1 DEF Tick, TypeOK
<1>2. CASE UNCHANGED vars BY <1>2 DEF vars, TypeOK
<1> QED BY <1>1, <1>2, CreateTypeOK, FundTypeOK, ReleaseTypeOK, RefundTypeOK,
           SpendTypeOK DEF Next

(* The entries keep their shape and no token balance is ever negative.        *)
THEOREM TypeCorrect == ASSUME EscrowAssumption PROVE Spec => []TypeOK
BY InitTypeOK, NextTypeOK, PTL DEF Spec

-----------------------------------------------------------------------------
(* What PaidOutAsAgreed says of one token in one step.                        *)
AgreedStep(a) ==
  Paid(a, Contract) < 0 =>
    \E i \in Ids : /\ escrows[i].asset = a
                   /\ \/ now < escrows[i].expires_at
                         /\ PaysOut(i, escrows[i].recipient, "Released")
                      \/ now >= escrows[i].expires_at
                         /\ PaysOut(i, escrows[i].sender, "Refunded")

LEMMA NothingPaid ==
  ASSUME EscrowAssumption, TypeOK, UNCHANGED balance, NEW a \in Assets
  PROVE  AgreedStep(a)
<1>1. balance[a][Contract] \in Nat BY ContractNoUser DEF TypeOK
<1>2. Paid(a, Contract) = 0 BY <1>1 DEF Paid
<1> QED BY <1>2 DEF AgreedStep

(* A transfer out of a user's balance takes nothing from the contract.        *)
LEMMA UserPays ==
  ASSUME EscrowAssumption, TypeOK, NEW a \in Assets, NEW s \in Users, NEW r \in Holders, NEW n \in Nat,
         Move(a, s, r, n), NEW b \in Assets
  PROVE  AgreedStep(b)
<1>1. Paid(b, Contract) = (IF b = a /\ Contract = r THEN n ELSE 0)
                          - (IF b = a /\ Contract = s THEN n ELSE 0)
  BY MoveBalance, ContractNoUser
<1>2. Contract # s BY ContractNoUser
<1> QED BY <1>1, <1>2 DEF AgreedStep

(* A transfer out of the contract's balance is what PaysOut describes, unless *)
(* it is to the contract itself.                                              *)
LEMMA ContractPays ==
  ASSUME EscrowAssumption, TypeOK, NEW i \in Ids, NEW to \in Holders, NEW s \in Statuses,
         escrows[i].status = "Funded", SetStatus(i, s),
         Move(escrows[i].asset, Contract, to, escrows[i].amount),
         NEW a \in Assets, Paid(a, Contract) < 0
  PROVE  escrows[i].asset = a /\ PaysOut(i, to, s)
<1> DEFINE x == escrows[i]
<1>1. x.asset \in Assets /\ x.amount \in Nat
  BY RecordTyped, IntervalsNat DEF EscrowRecord
<1>2. \A b \in Assets, h \in Holders :
        Paid(b, h) = (IF b = x.asset /\ h = to THEN x.amount ELSE 0)
                     - (IF b = x.asset /\ h = Contract THEN x.amount ELSE 0)
  BY <1>1, MoveBalance, ContractNoUser
<1>3. Paid(a, Contract) = (IF a = x.asset /\ Contract = to THEN x.amount ELSE 0)
                          - (IF a = x.asset THEN x.amount ELSE 0)
  BY <1>2, ContractNoUser
<1>4. a = x.asset /\ to # Contract BY <1>1, <1>3
<1>5. Paid(a, Contract) = -x.amount BY <1>1, <1>3, <1>4
<1>6. Paid(a, to) = x.amount BY <1>1, <1>2, <1>4
<1>7. \A h \in Holders \ {to, Contract} : Paid(a, h) = 0 BY <1>1, <1>2
<1>8. escrows'[i].status = s BY SetStatusTyped
<1> QED BY <1>4, <1>5, <1>6, <1>7, <1>8 DEF PaysOut

LEMMA ReleaseAgreed ==
  ASSUME EscrowAssumption, TypeOK, NEW i \in Ids, Release(i), NEW a \in Assets
  PROVE  AgreedStep(a)
<1>1. escrows[i].recipient \in Holders BY RecordTyped DEF EscrowRecord
<1>2. Paid(a, Contract) < 0 =>
        escrows[i].asset = a /\ PaysOut(i, escrows[i].recipient, "Released")
  BY <1>1, ContractPays DEF Release, Releasable, Statuses
<1>3. now < escrows[i].expires_at BY DEF Release, Releasable
<1> QED BY <1>2, <1>3 DEF AgreedStep

LEMMA RefundAgreed ==
  ASSUME EscrowAssumption, TypeOK, NEW i \in Ids, Refund(i), NEW a \in Assets
  PROVE  AgreedStep(a)
<1>1. escrows[i].sender \in Holders BY RecordTyped, ContractNoUser DEF EscrowRecord
<1>2. Paid(a, Contract) < 0 =>
        escrows[i].asset = a /\ PaysOut(i, escrows[i].sender, "Refunded")
  BY <1>1, ContractPays DEF Refund, Refundable, Statuses
<1>3. now >= escrows[i].expires_at BY DEF Refund, Refundable
<1> QED BY <1>2, <1>3 DEF AgreedStep

LEMMA NextAgreed ==
  ASSUME EscrowAssumption, TypeOK, [Next]_vars, NEW a \in Assets
  PROVE  AgreedStep(a)
<1>1. CASE UNCHANGED vars BY <1>1, NothingPaid DEF vars
<1>2. CASE Tick BY <1>2, NothingPaid DEF Tick
<1>3. ASSUME NEW b, NEW n, NEW s, NEW r, NEW e, CreateEscrow(b, n, s, r, e)
      PROVE  AgreedStep(a)
  BY <1>3, NothingPaid DEF CreateEscrow
<1>4. ASSUME NEW i \in Ids, Fund(i) PROVE AgreedStep(a)
  <2>1. escrows[i].asset \in Assets /\ escrows[i].sender \in Users
        /\ escrows[i].amount \in Nat
    BY RecordTyped, IntervalsNat DEF EscrowRecord
  <2> QED BY <1>4, <2>1, UserPays, ContractNoUser DEF Fund
<1>5. ASSUME NEW i \in Ids, Release(i) PROVE AgreedStep(a)
  BY <1>5, ReleaseAgreed
<1>6. ASSUME NEW i \in Ids, Refund(i) PROVE AgreedStep(a)
  BY <1>6, RefundAgreed
<1>7. ASSUME NEW b \in Assets, NEW n \in 1..MaxAmount, NEW s \in Users,
             NEW r \in Holders, Spend(b, s, r, n)
      PROVE  AgreedStep(a)
  BY <1>7, UserPays, IntervalsNat DEF Spend
<1> QED BY <1>1, <1>2, <1>3, <1>4, <1>5, <1>6, <1>7 DEF Next

(* release, refund: whatever the order of calls and the escrows that share    *)
(* the balance, tokens leave the contract only for one funded escrow, to the  *)
(* party its expiry names, for its amount.                                    *)
THEOREM MoneyLeavesAsAgreed == ASSUME EscrowAssumption PROVE Spec => PaidOutAsAgreed
<1>1. TypeOK /\ [Next]_vars => [\A a \in Assets : AgreedStep(a)]_vars
  BY NextAgreed
<1>2. Spec => [][\A a \in Assets : AgreedStep(a)]_vars
  BY <1>1, TypeCorrect, PTL DEF Spec
<1> QED BY <1>2 DEF PaidOutAsAgreed, AgreedStep

-----------------------------------------------------------------------------
(* Counting the tokens of one escrow in or out.                               *)
LEMMA CountTokens ==
  ASSUME NEW i, NEW n \in Nat
  PROVE  IsFiniteSet({i} \X (1..n)) /\ Cardinality({i} \X (1..n)) = n
<1> DEFINE U == {i} \X (1..n)
<1>1. IsFiniteSet({i}) /\ Cardinality({i}) = 1 BY FS_Singleton
<1>2. IsFiniteSet(1..n) /\ Cardinality(1..n) = n BY FS_Interval
<1>3. IsFiniteSet(U) /\ Cardinality(U) = Cardinality({i}) * Cardinality(1..n)
  BY <1>1, <1>2, FS_Product
<1> QED BY <1>1, <1>2, <1>3

LEMMA CountMore ==
  ASSUME NEW T, IsFiniteSet(T), NEW i, NEW n \in Nat, T \cap ({i} \X (1..n)) = {}
  PROVE  /\ IsFiniteSet(T \cup ({i} \X (1..n)))
         /\ Cardinality(T \cup ({i} \X (1..n))) = Cardinality(T) + n
<1> DEFINE U == {i} \X (1..n)
<1>1. IsFiniteSet(U) /\ Cardinality(U) = n BY CountTokens
<1>2. Cardinality(T \cap U) = 0 BY FS_EmptySet
<1>3. Cardinality(T) \in Nat BY FS_CardinalityType
<1> HIDE DEF U
<1>4. /\ IsFiniteSet(T \cup U)
      /\ Cardinality(T \cup U) = Cardinality(T) + Cardinality(U) - Cardinality(T \cap U)
  BY <1>1, FS_Union
<1>5. IsFiniteSet(T \cup U) /\ Cardinality(T \cup U) = Cardinality(T) + n
  BY <1>1, <1>2, <1>3, <1>4
<1> QED BY <1>5 DEF U

LEMMA OwedFinite ==
  ASSUME EscrowAssumption, TypeOK, NEW a
  PROVE  IsFiniteSet(Owed(a)) /\ Cardinality(Owed(a)) \in Nat
<1>1. Ids = 1..Len(escrows) /\ Len(escrows) \in Nat BY DEF TypeOK, Ids
<1>2. IsFiniteSet(Ids) /\ IsFiniteSet(1..MaxAmount)
  BY <1>1, FS_Interval DEF EscrowAssumption
<1>3. IsFiniteSet(Ids \X (1..MaxAmount)) BY <1>2, FS_Product
<1>4. Owed(a) \subseteq Ids \X (1..MaxAmount) BY DEF Owed, Funded
<1>5. IsFiniteSet(Owed(a)) BY <1>3, <1>4, FS_Subset
<1> QED BY <1>5, FS_CardinalityType

(* A new status of escrow i counts its tokens in or out, and no others.       *)
LEMMA StatusCount ==
  ASSUME EscrowAssumption, TypeOK, NEW i \in Ids, NEW s \in Statuses, SetStatus(i, s), NEW a
  PROVE  LET n == IF escrows[i].asset = a THEN escrows[i].amount ELSE 0
         IN  Cardinality(Owed(a)') = Cardinality(Owed(a))
               + (IF s = "Funded" THEN n ELSE 0)
               - (IF escrows[i].status = "Funded" THEN n ELSE 0)
<1> DEFINE x == escrows[i]
           T == {i} \X (1..x.amount)
           rest == {t \in Owed(a) : t[1] # i}
<1>1. x.amount \in 1..MaxAmount /\ x.amount \in Nat
  BY RecordTyped, IntervalsNat DEF EscrowRecord
<1>2. T = {t \in {i} \X (1..MaxAmount) : t[2] <= x.amount}
  BY <1>1 DEF EscrowAssumption
<1>3. IsFiniteSet(rest) /\ rest \cap T = {}
  BY OwedFinite, FS_Subset, rest \subseteq Owed(a)
<1>4. IsFiniteSet(rest \cup T) /\ Cardinality(rest \cup T) = Cardinality(rest) + x.amount
  BY <1>1, <1>3, CountMore
<1>5. Cardinality(rest) \in Nat BY <1>3, FS_CardinalityType
<1>6. Owed(a) = IF x.asset = a /\ x.status = "Funded" THEN rest \cup T ELSE rest
  BY <1>2 DEF Owed, Funded
<1>7. Owed(a)' = IF x.asset = a /\ s = "Funded" THEN rest \cup T ELSE rest
  <2>1. escrows \in Seq(EscrowRecord) /\ escrows' = [escrows EXCEPT ![i].status = s]
    BY DEF TypeOK, SetStatus
  <2>2. Ids' = Ids BY <2>1 DEF Ids
  <2>3. /\ \A j \in Ids \ {i} : escrows'[j] = escrows[j]
        /\ escrows'[i] = [x EXCEPT !.status = s]
    BY <2>1 DEF Ids
  <2>4. escrows'[i].asset = x.asset /\ escrows'[i].amount = x.amount /\ escrows'[i].status = s
    BY <2>3, RecordTyped DEF EscrowRecord
  <2>5. Funded(a)' = IF x.asset = a /\ s = "Funded" THEN (Funded(a) \ {i}) \cup {i}
                                                    ELSE Funded(a) \ {i}
    BY <2>2, <2>3, <2>4 DEF Funded
  <2> QED BY <1>2, <2>3, <2>4, <2>5 DEF Owed, Funded
<1> HIDE DEF x, T, rest
<1>8. CASE x.asset = a BY <1>1, <1>4, <1>5, <1>6, <1>7, <1>8 DEF x
<1>9. CASE x.asset # a BY <1>1, <1>4, <1>5, <1>6, <1>7, <1>9 DEF x
<1> QED BY <1>8, <1>9

(* Steps that leave the records, or append one that is not funded.            *)
LEMMA OwedFrame ==
  ASSUME EscrowAssumption, TypeOK, NEW a, NEW x,
         x.status # "Funded", escrows' \in {escrows, Append(escrows, x)}
  PROVE  Owed(a)' = Owed(a)
<1>1. CASE escrows' = escrows BY <1>1 DEF Owed, Funded, Ids
<1>2. CASE escrows' = Append(escrows, x)
  <2>1. escrows \in Seq(EscrowRecord) BY DEF TypeOK
  <2>2. Len(escrows) \in Nat /\ Ids = 1..Len(escrows) BY <2>1 DEF Ids
  <2>3. Ids' = Ids \cup {Len(escrows) + 1} /\ Len(escrows) + 1 \notin Ids
    BY <1>2, <2>1, <2>2 DEF Ids
  <2>4. \A j \in Ids : escrows'[j] = escrows[j] BY <1>2, <2>1 DEF Ids
  <2>5. escrows'[Len(escrows) + 1] = x BY <1>2, <2>1
  <2>6. Funded(a)' = Funded(a) BY <2>3, <2>4, <2>5 DEF Funded
  <2> QED BY <2>4, <2>6 DEF Owed, Funded
<1> QED BY <1>1, <1>2

LEMMA FundAccounted ==
  ASSUME EscrowAssumption, TypeOK, FundsAccounted, NEW i \in Ids, Fund(i)
  PROVE  FundsAccounted'
<1> DEFINE x == escrows[i]
<1>1. x.asset \in Assets /\ x.amount \in Nat /\ x.sender \in Users
  BY RecordTyped, IntervalsNat DEF EscrowRecord
<1>2. /\ x.status = "Created" /\ SetStatus(i, "Funded") /\ "Funded" \in Statuses
      /\ Move(x.asset, x.sender, Contract, x.amount) /\ stray' = stray
  BY DEF Fund, Statuses
<1>3. ASSUME NEW a \in Assets
      PROVE  balance'[a][Contract] = stray'[a] + Cardinality(Owed(a)')
  <2>1. Paid(a, Contract) = IF x.asset = a THEN x.amount ELSE 0
    BY <1>1, <1>2, MoveBalance, ContractNoUser
  <2>2. Cardinality(Owed(a)') = Cardinality(Owed(a)) + (IF x.asset = a THEN x.amount ELSE 0)
    BY <1>1, <1>2, StatusCount, OwedFinite
  <2>3. /\ balance[a][Contract] \in Nat /\ balance'[a][Contract] \in Nat
        /\ stray[a] \in Nat /\ Cardinality(Owed(a)) \in Nat
    BY FundTypeOK, OwedFinite, ContractNoUser DEF TypeOK
  <2> QED BY <1>1, <1>2, <2>1, <2>2, <2>3 DEF FundsAccounted, Paid
<1> QED BY <1>3 DEF FundsAccounted

(* Money that leaves for one escrow is no longer owed; sent to the contract   *)
(* itself it is stray.                                                        *)
LEMMA ExitAccounted ==
  ASSUME EscrowAssumption, TypeOK, TypeOK', FundsAccounted, NEW i \in Ids,
         NEW to \in Holders, NEW s \in Statuses \ {"Funded"},
         escrows[i].status = "Funded", SetStatus(i, s),
         Move(escrows[i].asset, Contract, to, escrows[i].amount),
         stray' = IF to = Contract
                  THEN [stray EXCEPT ![escrows[i].asset] = @ + escrows[i].amount] ELSE stray
  PROVE  FundsAccounted'
<1> DEFINE x == escrows[i]
<1>1. x.asset \in Assets /\ x.amount \in Nat
  BY RecordTyped, IntervalsNat DEF EscrowRecord
<1>2. ASSUME NEW a \in Assets
      PROVE  balance'[a][Contract] = stray'[a] + Cardinality(Owed(a)')
  <2>1. Paid(a, Contract) = (IF a = x.asset /\ Contract = to THEN x.amount ELSE 0)
                            - (IF a = x.asset THEN x.amount ELSE 0)
    BY <1>1, MoveBalance, ContractNoUser
  <2>2. Cardinality(Owed(a)') = Cardinality(Owed(a)) - (IF x.asset = a THEN x.amount ELSE 0)
    BY <1>1, StatusCount, OwedFinite
  <2>3. /\ balance[a][Contract] \in Nat /\ balance'[a][Contract] \in Nat
        /\ stray[a] \in Nat /\ Cardinality(Owed(a)) \in Nat
    BY OwedFinite, ContractNoUser DEF TypeOK
  <2>4. stray'[a] = stray[a] + (IF a = x.asset /\ Contract = to THEN x.amount ELSE 0)
    BY <1>1, <2>3 DEF TypeOK
  <2>5. balance[a][Contract] = stray[a] + Cardinality(Owed(a)) BY DEF FundsAccounted
  <2> HIDE DEF x
  <2>6. balance'[a][Contract] = balance[a][Contract] + Paid(a, Contract) BY <2>3 DEF Paid
  <2> QED BY <1>1, <2>1, <2>2, <2>3, <2>4, <2>5, <2>6
<1> QED BY <1>2 DEF FundsAccounted

LEMMA SpendAccounted ==
  ASSUME EscrowAssumption, TypeOK, FundsAccounted, NEW a \in Assets, NEW n \in 1..MaxAmount,
         NEW s \in Users, NEW r \in Holders, Spend(a, s, r, n)
  PROVE  FundsAccounted'
<1>1. n \in Nat /\ s # Contract /\ s \in Holders BY IntervalsNat, ContractNoUser
<1>2. ASSUME NEW b \in Assets
      PROVE  balance'[b][Contract] = stray'[b] + Cardinality(Owed(b)')
  <2>1. Paid(b, Contract) = IF b = a /\ Contract = r THEN n ELSE 0
    BY <1>1, MoveBalance, ContractNoUser DEF Spend
  <2>2. escrows' = escrows BY DEF Spend
  <2>3. Owed(b)' = Owed(b) BY <2>2 DEF Owed, Funded, Ids
  <2>4. /\ balance[b][Contract] \in Nat /\ balance'[b][Contract] \in Nat
        /\ stray[b] \in Nat /\ Cardinality(Owed(b)) \in Nat
    BY SpendTypeOK, OwedFinite, ContractNoUser DEF TypeOK
  <2>5. stray'[b] = stray[b] + (IF b = a /\ Contract = r THEN n ELSE 0)
    BY <1>1, <2>4 DEF TypeOK, Spend
  <2> QED BY <1>1, <2>1, <2>3, <2>4, <2>5 DEF FundsAccounted, Paid
<1> QED BY <1>2 DEF FundsAccounted

LEMMA NextAccounted ==
  ASSUME EscrowAssumption, TypeOK, FundsAccounted, [Next]_vars PROVE FundsAccounted'
<1>1. ASSUME NEW x, x.status # "Funded", escrows' \in {escrows, Append(escrows, x)},
             UNCHANGED <<balance, stray>>
      PROVE  FundsAccounted'
  BY <1>1, OwedFrame DEF FundsAccounted
<1> DEFINE none == [status |-> "Created"]
<1>2. CASE UNCHANGED vars \/ Tick
  <2>1. none.status # "Funded" OBVIOUS
  <2>2. escrows' = escrows /\ UNCHANGED <<balance, stray>> BY <1>2 DEF vars, Tick
  <2> HIDE DEF none
  <2> QED BY <1>1, <2>1, <2>2
<1>3. ASSUME NEW a, NEW n, NEW s, NEW r, NEW e, CreateEscrow(a, n, s, r, e)
      PROVE  FundsAccounted'
  <2> DEFINE x == [asset |-> a, sender |-> s, recipient |-> r,
                   amount |-> n, expires_at |-> e, status |-> "Created"]
  <2>1. x.status # "Funded" OBVIOUS
  <2>2. escrows' = Append(escrows, x) /\ UNCHANGED <<balance, stray>>
    BY <1>3 DEF CreateEscrow
  <2> HIDE DEF x
  <2> QED BY <1>1, <2>1, <2>2
<1>4. ASSUME NEW i \in Ids, Release(i) PROVE FundsAccounted'
  <2>1. escrows[i].recipient \in Holders BY <1>4, RecordTyped DEF EscrowRecord
  <2> QED BY <1>4, <2>1, ExitAccounted, ReleaseTypeOK DEF Release, Releasable, Statuses
<1>5. ASSUME NEW i \in Ids, Refund(i) PROVE FundsAccounted'
  <2>1. escrows[i].sender \in Holders /\ escrows[i].sender # Contract
    BY <1>5, RecordTyped, ContractNoUser DEF EscrowRecord
  <2> QED BY <1>5, <2>1, ExitAccounted, RefundTypeOK DEF Refund, Refundable, Statuses
<1> QED BY <1>2, <1>3, <1>4, <1>5, FundAccounted, SpendAccounted DEF Next

(* create_escrow, fund, release, refund: over any sequence of calls and of    *)
(* payments past the contract, every token it holds is one token of one open  *)
(* escrow or stray.                                                           *)
THEOREM EveryTokenIsOwed == ASSUME EscrowAssumption PROVE Spec => []FundsAccounted
<1>1. Init => FundsAccounted
  <2> SUFFICES ASSUME Init, NEW a \in Assets
               PROVE  balance[a][Contract] = stray[a] + Cardinality(Owed(a))
    BY DEF FundsAccounted
  <2>1. Owed(a) = {} BY DEF Init, Owed, Funded, Ids
  <2>2. balance[a][Contract] = 0 /\ stray[a] = 0 BY ContractNoUser DEF Init
  <2> QED BY <2>1, <2>2, FS_EmptySet
<1> QED BY <1>1, TypeCorrect, NextAccounted, PTL DEF Spec

(* release, refund: exactly one of them would succeed for a funded escrow, at *)
(* the second of its expiry too, and the balance the escrows share covers it. *)
THEOREM AlwaysOneExit == ASSUME EscrowAssumption PROVE Spec => []ExactlyOneExit
<1>1. ASSUME TypeOK, FundsAccounted, NEW i \in Ids, escrows[i].status = "Funded"
      PROVE  /\ Releasable(i) # Refundable(i)
             /\ balance[escrows[i].asset][Contract] >= escrows[i].amount
  <2> DEFINE a == escrows[i].asset
             n == escrows[i].amount
             T == {i} \X (1..n)
  <2>1. a \in Assets /\ n \in 1..MaxAmount /\ n \in Nat /\ escrows[i].expires_at \in Nat
    BY <1>1, RecordTyped, IntervalsNat DEF EscrowRecord
  <2>2. T \subseteq Owed(a)
    BY <1>1, <2>1 DEF Owed, Funded, EscrowAssumption
  <2>3. Cardinality(T) = n BY <2>1, CountTokens
  <2>4. n <= Cardinality(Owed(a)) BY <1>1, <2>2, <2>3, OwedFinite, FS_Subset
  <2>5. /\ balance[a][Contract] \in Nat /\ stray[a] \in Nat /\ Cardinality(Owed(a)) \in Nat
        /\ balance[a][Contract] = stray[a] + Cardinality(Owed(a))
    BY <1>1, <2>1, OwedFinite, ContractNoUser DEF TypeOK, FundsAccounted
  <2>6. balance[a][Contract] >= n BY <2>1, <2>4, <2>5
  <2>7. now \in Nat BY <1>1 DEF TypeOK
  <2> QED BY <1>1, <2>1, <2>6, <2>7 DEF Releasable, Refundable
<1>2. TypeOK /\ FundsAccounted => ExactlyOneExit BY <1>1 DEF ExactlyOneExit
<1> QED BY <1>2, TypeCorrect, EveryTokenIsOwed, PTL
=============================================================================
