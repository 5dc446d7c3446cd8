----------------------------- MODULE VaultProofs -----------------------------
(* Proofs about Vault: any users, rates, denominator and largest integer, any *)
(* amounts and any idle times.                                                *)
EXTENDS Vault, TLAPS

(* The balance with the interest since the last call, in units of             *)
(* 1 / Denominator and before it is rounded.                                  *)
Grown(u) == account[u].balance * (Denominator + rate * (now - account[u].last_updated))

(* Unrounded interest stays under the compounded figure.                      *)
CapOK(u) ==
  /\ rate = Unset => account[u].balance = 0 /\ cap[u] = 0
  /\ rate # Unset => Grown(u) * scale <= cap[u] * Denominator

IInv ==
  /\ TypeOK
  /\ put \in [Users -> Nat] /\ taken \in [Users -> Nat]
  /\ scale \in Nat /\ cap \in [Users -> Int]
  /\ PrincipalKept
  /\ \A u \in Users : CapOK(u)

-----------------------------------------------------------------------------
LEMMA ProductNat == ASSUME NEW x \in Nat, NEW y \in Nat PROVE x * y \in Nat
OBVIOUS

LEMMA ProductLe ==
  ASSUME NEW x \in Int, NEW y \in Int, NEW z \in Nat, x <= y
  PROVE  x * z <= y * z
OBVIOUS

LEMMA ProductCancel ==
  ASSUME NEW x \in Int, NEW y \in Int, NEW z \in Nat, z > 0, x * z <= y * z
  PROVE  x <= y
OBVIOUS

LEMMA Rounded ==
  ASSUME NEW z \in Nat, NEW d \in Nat \ {0}
  PROVE  z \div d \in Nat /\ (z \div d) * d <= z
OBVIOUS

(* One more instant of simple interest is less than one of compound interest. *)
LEMMA SimpleBelowCompound ==
  ASSUME NEW b \in Nat, NEW d \in Nat, NEW r \in Nat, NEW e \in Nat
  PROVE  b * (d + r * (e + 1)) * d <= b * (d + r * e) * (d + r)
<1>1. (d + r * e) * (d + r) = (d + r * (e + 1)) * d + r * r * e
  OBVIOUS
<1>2. r * r * e \in Nat
  BY ProductNat
<1>3. (d + r * (e + 1)) * d <= (d + r * e) * (d + r)
  BY <1>1, <1>2
<1>4. ((d + r * (e + 1)) * d) * b <= ((d + r * e) * (d + r)) * b
  BY <1>3, ProductLe
<1> QED BY <1>4

-----------------------------------------------------------------------------
(* What accrue yields, when it yields anything.                               *)
LEMMA AccruedBounds ==
  ASSUME VaultAssumption, IInv, rate # Unset, NEW u \in Users, NEW a \in Accrued(u)
  PROVE  /\ a \in account[u].balance..MaxInt
         /\ a * Denominator <= Grown(u)
<1> DEFINE b == account[u].balance
           e == now - account[u].last_updated
<1>1. /\ rate \in Nat /\ Denominator \in Nat \ {0} /\ MaxInt \in Nat
      /\ b \in 0..MaxInt /\ e \in Nat
  BY DEF VaultAssumption, IInv, TypeOK, VaultAccount
<1>2. CASE e > 0 /\ b > 0
  <2>1. PICK i \in Interest(b, e) : a \in CheckedAdd(b, i)
    BY <1>2 DEF Accrued
  <2>2. PICK z \in UNION {CheckedMul(y, e) : y \in CheckedMul(b, rate)} :
          i = z \div Denominator
    BY <2>1 DEF Interest
  <2>3. z = (b * rate) * e
    BY <2>2 DEF CheckedMul
  <2>4. z \in Nat
    BY <1>1, <2>3, ProductNat
  <2>5. i \in Nat /\ i * Denominator <= z
    BY <1>1, <2>2, <2>4, Rounded
  <2>6. a = b + i /\ a <= MaxInt
    BY <2>1 DEF CheckedAdd
  <2> HIDE DEF b, e
  <2>7. a * Denominator = b * Denominator + i * Denominator
    BY <1>1, <2>5, <2>6
  <2>8. b * (Denominator + rate * e) = b * Denominator + (b * rate) * e
    BY <1>1
  <2>9. a * Denominator <= b * (Denominator + rate * e)
    BY <1>1, <2>3, <2>4, <2>5, <2>7, <2>8
  <2>10. a \in b..MaxInt BY <1>1, <2>5, <2>6
  <2> QED BY <2>9, <2>10 DEF Grown, b, e
<1>3. CASE ~(e > 0 /\ b > 0)
  <2>1. a = b BY <1>3 DEF Accrued
  <2> HIDE DEF b, e
  <2>2. Denominator <= Denominator + rate * e
    BY <1>1, ProductNat
  <2>3. Denominator * b <= (Denominator + rate * e) * b
    BY <1>1, <2>2, ProductLe
  <2>4. a * Denominator <= b * (Denominator + rate * e)
    BY <1>1, <2>1, <2>3
  <2> QED BY <1>1, <2>1, <2>4 DEF Grown, b, e
<1> QED BY <1>2, <1>3

(* So the rounded balance stays under the compounded figure as well.          *)
LEMMA AccruedBelowCap ==
  ASSUME VaultAssumption, IInv, rate # Unset, NEW u \in Users, NEW a \in Accrued(u)
  PROVE  a * scale <= cap[u]
<1>1. /\ a \in Nat /\ a * Denominator <= Grown(u)
      /\ Grown(u) * scale <= cap[u] * Denominator
      /\ Denominator \in Nat \ {0} /\ scale \in Nat /\ cap[u] \in Int
  BY AccruedBounds DEF IInv, CapOK, VaultAssumption, TypeOK, VaultAccount
<1>2. Grown(u) \in Int
  BY DEF IInv, TypeOK, VaultAccount, VaultAssumption, Grown, Unset
<1>3. (a * Denominator) * scale <= Grown(u) * scale
  BY <1>1, <1>2, ProductLe
<1>4. (a * scale) * Denominator <= cap[u] * Denominator
  BY <1>1, <1>2, <1>3
<1> QED BY <1>1, <1>4, ProductCancel

-----------------------------------------------------------------------------
LEMMA InitIInv == VaultAssumption /\ Init => IInv
BY DEF VaultAssumption, Init, IInv, TypeOK, VaultAccount, PrincipalKept, CapOK, Unset

LEMMA InitializeIInv ==
  ASSUME VaultAssumption, IInv, NEW r \in Rates, Initialize(r)
  PROVE  IInv'
<1>1. /\ rate = Unset /\ rate' = r /\ r \in Nat
      /\ UNCHANGED <<account, now, put, taken, scale, cap>>
  BY DEF Initialize, VaultAssumption
<1>2. TypeOK' BY <1>1 DEF IInv, TypeOK
<1>3. ASSUME NEW u \in Users PROVE CapOK(u)'
  <2>1. account[u].balance = 0 /\ cap[u] = 0 BY <1>1 DEF IInv, CapOK
  <2>2. /\ scale \in Nat /\ Denominator \in Nat /\ now \in Nat
        /\ account[u].last_updated \in Nat
    BY DEF IInv, TypeOK, VaultAssumption, VaultAccount
  <2>3. Grown(u)' = 0 BY <1>1, <2>1, <2>2 DEF Grown
  <2> QED BY <1>1, <2>1, <2>2, <2>3 DEF CapOK, Unset
<1> QED BY <1>1, <1>2, <1>3 DEF IInv, PrincipalKept

(* A call that leaves user u with b, interest credited up to now.             *)
LEMMA StoreIInv ==
  ASSUME VaultAssumption, IInv, rate # Unset, NEW u \in Users,
         NEW b \in 0..MaxInt, NEW p \in Nat, NEW t \in Nat, NEW c \in Int,
         account' = [account EXCEPT ![u] = [balance |-> b, last_updated |-> now]],
         put' = [put EXCEPT ![u] = p], taken' = [taken EXCEPT ![u] = t],
         cap' = [cap EXCEPT ![u] = c], UNCHANGED <<rate, now, scale>>,
         b + t >= p, b * scale <= c
  PROVE  IInv'
<1>1. TypeOK' BY DEF IInv, TypeOK, VaultAccount
<1>2. PrincipalKept' BY DEF IInv, TypeOK, PrincipalKept
<1>3. ASSUME NEW v \in Users PROVE CapOK(v)'
  <2>1. CASE v # u
    <3>1. account'[v] = account[v] /\ cap'[v] = cap[v] BY <2>1 DEF IInv, TypeOK
    <3> QED BY <3>1 DEF IInv, CapOK, Grown
  <2>2. CASE v = u
    <3>1. account'[u] = [balance |-> b, last_updated |-> now] /\ cap'[u] = c
      BY DEF IInv, TypeOK
    <3>2. /\ rate \in Nat /\ Denominator \in Nat /\ scale \in Nat /\ now \in Nat
          /\ b \in Nat
      BY DEF IInv, TypeOK, VaultAssumption
    <3>3. Grown(u)' = b * Denominator
      BY <3>1, <3>2 DEF Grown
    <3>4. (b * scale) * Denominator <= c * Denominator
      BY <3>2, ProductLe
    <3>5. (b * Denominator) * scale <= c * Denominator
      BY <3>2, <3>4
    <3> QED BY <2>2, <3>1, <3>3, <3>5 DEF CapOK
  <2> QED BY <2>1, <2>2
<1>4. /\ put' \in [Users -> Nat] /\ taken' \in [Users -> Nat]
      /\ scale' \in Nat /\ cap' \in [Users -> Int]
  BY DEF IInv
<1> QED BY <1>1, <1>2, <1>3, <1>4 DEF IInv

LEMMA DepositIInv ==
  ASSUME VaultAssumption, IInv, NEW u \in Users, NEW n \in 0..MaxAmount, Deposit(u, n)
  PROVE  IInv'
<1>0. PICK a \in Accrued(u) : \E b \in CheckedAdd(a, n) : Store(u, b)
  BY DEF Deposit
<1>1. PICK b \in CheckedAdd(a, n) : Store(u, b)
  BY <1>0
<1>2. rate # Unset /\ n \in Nat /\ scale \in Nat /\ cap[u] \in Int
      /\ put[u] \in Nat /\ taken[u] \in Nat
  BY DEF Deposit, VaultAssumption, IInv
<1>3. a \in account[u].balance..MaxInt /\ a * scale <= cap[u]
  BY <1>2, AccruedBounds, AccruedBelowCap
<1>4. account[u].balance \in Nat /\ account[u].balance + taken[u] >= put[u]
  BY DEF IInv, TypeOK, VaultAccount, PrincipalKept, VaultAssumption
<1>5. b = a + n /\ b \in 0..MaxInt
  BY <1>2, <1>3, <1>4 DEF CheckedAdd, VaultAssumption
<1>6. b * scale <= cap[u] + n * scale
  <2>1. b * scale = a * scale + n * scale BY <1>2, <1>3, <1>4, <1>5
  <2> QED BY <1>2, <1>3, <1>4, <2>1
<1>7. b + taken[u] >= put[u] + n BY <1>2, <1>3, <1>4, <1>5
<1>8. /\ account' = [account EXCEPT ![u] = [balance |-> b, last_updated |-> now]]
      /\ put' = [put EXCEPT ![u] = put[u] + n]
      /\ taken' = [taken EXCEPT ![u] = taken[u]]
      /\ cap' = [cap EXCEPT ![u] = cap[u] + n * scale]
      /\ UNCHANGED <<rate, now, scale>>
  BY <1>1 DEF Deposit, Store, Touched, IInv
<1>9. put[u] + n \in Nat /\ cap[u] + n * scale \in Int BY <1>2
<1> DEFINE p == put[u] + n
           c == cap[u] + n * scale
<1> HIDE DEF p, c
<1> QED BY <1>2, <1>5, <1>6, <1>7, <1>8, <1>9, StoreIInv DEF p, c

LEMMA WithdrawIInv ==
  ASSUME VaultAssumption, IInv, NEW u \in Users, NEW n \in 0..MaxAmount, Withdraw(u, n)
  PROVE  IInv'
<1>1. PICK a \in Accrued(u) : Covers(a, n) /\ Store(u, a - n)
  BY DEF Withdraw
<1>2. rate # Unset /\ n \in Nat /\ scale \in Nat /\ cap[u] \in Int
      /\ put[u] \in Nat /\ taken[u] \in Nat
  BY DEF Withdraw, VaultAssumption, IInv
<1>3. a \in account[u].balance..MaxInt /\ a * scale <= cap[u]
  BY <1>2, AccruedBounds, AccruedBelowCap
<1>4. account[u].balance \in Nat /\ account[u].balance + taken[u] >= put[u]
  BY DEF IInv, TypeOK, VaultAccount, PrincipalKept, VaultAssumption
<1>5. a - n \in 0..MaxInt
  BY <1>1, <1>2, <1>3, <1>4 DEF Covers, VaultAssumption
<1>6. (a - n) * scale <= cap[u] - n * scale
  <2>1. (a - n) * scale = a * scale - n * scale BY <1>2, <1>3, <1>4
  <2> QED BY <1>2, <1>3, <1>4, <2>1
<1>7. (a - n) + (taken[u] + n) >= put[u] BY <1>2, <1>3, <1>4
<1>8. /\ account' = [account EXCEPT ![u] = [balance |-> a - n, last_updated |-> now]]
      /\ put' = [put EXCEPT ![u] = put[u]]
      /\ taken' = [taken EXCEPT ![u] = taken[u] + n]
      /\ cap' = [cap EXCEPT ![u] = cap[u] - n * scale]
      /\ UNCHANGED <<rate, now, scale>>
  BY <1>1 DEF Withdraw, Store, Touched, IInv
<1>9. taken[u] + n \in Nat /\ cap[u] - n * scale \in Int BY <1>2
<1> QED BY <1>2, <1>5, <1>6, <1>7, <1>8, <1>9, StoreIInv

LEMMA TickIInv ==
  ASSUME VaultAssumption, IInv, Tick
  PROVE  IInv'
<1> DEFINE d == Denominator
<1>1. /\ rate \in Nat /\ rate # Unset /\ d \in Nat /\ scale \in Nat /\ now \in Nat
      /\ now' = now + 1 /\ scale' = scale * d
      /\ cap' = [u \in Users |-> cap[u] * (d + rate)]
      /\ UNCHANGED <<rate, account, put, taken>>
  BY DEF Tick, IInv, TypeOK, VaultAssumption
<1>2. TypeOK' BY <1>1 DEF IInv, TypeOK, VaultAccount
<1>3. ASSUME NEW u \in Users PROVE cap[u] * (d + rate) \in Int /\ CapOK(u)'
  <2> DEFINE b == account[u].balance
             e == now - account[u].last_updated
             c == cap[u]
             g == b * (d + rate * e)
             h == b * (d + rate * (e + 1))
  <2>1. b \in Nat /\ e \in Nat /\ c \in Int
    BY DEF IInv, TypeOK, VaultAccount, VaultAssumption
  <2>2. g * scale <= c * d BY <1>1 DEF IInv, CapOK, Grown
  <2>3. now + 1 - account[u].last_updated = e + 1
    BY <1>1 DEF IInv, TypeOK, VaultAccount
  <2>4. Grown(u)' = h
    <3>1. Grown(u)' = account'[u].balance
                       * (Denominator + rate' * (now' - account'[u].last_updated))
      BY DEF Grown
    <3>2. account' = account /\ rate' = rate /\ now' = now + 1
      BY <1>1
    <3>3. account'[u].last_updated = account[u].last_updated
          /\ account[u].last_updated \in Nat /\ now \in Nat
      BY <1>1, <3>2 DEF IInv, TypeOK, VaultAccount
    <3>4. now' - account'[u].last_updated = now + 1 - account[u].last_updated
      BY <3>2, <3>3
    <3> HIDE DEF e
    <3> QED BY <2>3, <3>1, <3>2, <3>4
  <2>5. cap'[u] = c * (d + rate) BY <1>1
  <2> HIDE DEF b, e, c, d
  <2>6. g \in Int /\ h \in Int BY <1>1, <2>1
  <2>7. h * d <= g * (d + rate) BY <1>1, <2>1, SimpleBelowCompound
  <2> HIDE DEF g, h
  <2>8. (h * d) * scale <= (g * (d + rate)) * scale
    BY <1>1, <2>6, <2>7, ProductLe
  <2>9. (g * scale) * (d + rate) <= (c * d) * (d + rate)
    BY <1>1, <2>1, <2>2, <2>6, ProductLe
  <2>10. h * (scale * d) <= (c * (d + rate)) * d
    BY <1>1, <2>1, <2>6, <2>8, <2>9
  <2>11. c * (d + rate) \in Int BY <1>1, <2>1
  <2> QED BY <1>1, <2>4, <2>5, <2>10, <2>11 DEF CapOK, d, c
<1>4. cap' \in [Users -> Int] BY <1>1, <1>3
<1>5. scale' \in Nat BY <1>1, ProductNat
<1> QED BY <1>1, <1>2, <1>3, <1>4, <1>5 DEF IInv, PrincipalKept

LEMMA FrameIInv == ASSUME IInv, UNCHANGED vars PROVE IInv'
BY DEF IInv, vars, TypeOK, PrincipalKept, CapOK, Grown

LEMMA NextIInv ==
  ASSUME VaultAssumption, IInv, [Next]_vars
  PROVE  IInv'
BY InitializeIInv, DepositIInv, WithdrawIInv, TickIInv, FrameIInv DEF Next

-----------------------------------------------------------------------------
(* The strengthening: what accrue would credit before rounding stays under    *)
(* the compounded figure, and the principal is in the balance or withdrawn.   *)
THEOREM InductiveInvariant ==
  ASSUME VaultAssumption
  PROVE  Spec => []IInv
<1>1. Init => IInv BY InitIInv
<1> QED BY <1>1, NextIInv, PTL DEF Spec

(* deposit, withdraw: no rounding, no overflow and no order of calls takes    *)
(* any of what a user paid in.                                                *)
THEOREM PrincipalIsKept ==
  ASSUME VaultAssumption
  PROVE  Spec => []PrincipalKept
<1>1. IInv => PrincipalKept BY DEF IInv
<1> QED BY <1>1, InductiveInvariant, PTL

(* accrue: no sequence of calls earns more than the rate compounded at every  *)
(* instant.                                                                   *)
THEOREM InterestIsBounded ==
  ASSUME VaultAssumption
  PROVE  Spec => []YieldBounded
<1>1. ASSUME IInv, NEW u \in Users, NEW b \in Accrued(u)
      PROVE  b * scale <= cap[u]
  <2>1. CASE rate # Unset BY <1>1, <2>1, AccruedBelowCap
  <2>2. CASE rate = Unset
    <3>1. account[u].balance = 0 /\ cap[u] = 0 /\ scale \in Nat
      BY <1>1, <2>2 DEF IInv, CapOK
    <3>2. b = 0 BY <1>1, <3>1 DEF Accrued
    <3> QED BY <3>1, <3>2
  <2> QED BY <2>1, <2>2
<1>2. IInv => YieldBounded BY <1>1 DEF YieldBounded
<1> QED BY <1>2, InductiveInvariant, PTL
=============================================================================
