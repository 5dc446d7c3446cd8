-------------------------------- MODULE Vault --------------------------------
(* The vault contract (src/contracts/vault/src/lib.rs): balances that earn    *)
(* interest, credited whenever their owner calls. Amounts are i128 and every  *)
(* product and sum of accrue is checked: MaxInt stands for i128::MAX, and a   *)
(* checked operation yields the set of its result, empty when it overflows; a *)
(* call that meets an empty set returns an error and changes nothing. No      *)
(* token moves: the contract keeps figures only.                              *)
EXTENDS Integers

CONSTANTS Users,
          Rates,       \* yield_rate_bps that initialize may be given
          Denominator, \* BPS_DENOMINATOR * SECONDS_PER_YEAR
          MaxInt,
          MaxAmount, MaxPut, MaxTime  \* bounds for checking

VaultAssumption ==
  /\ Rates \subseteq Nat /\ Denominator \in Nat \ {0} /\ MaxInt \in Nat
  /\ MaxAmount \in Nat /\ MaxPut \in Nat /\ MaxTime \in Nat

VARIABLES rate,     \* YieldRateBps, Unset before initialize
          account,  \* Account(user); one never stored earns as an empty one does
          now,      \* the ledger timestamp
          put, taken, \* history: what each user deposited and withdrew
          scale,    \* history: Denominator^now
          cap       \* history: see YieldBounded
vars == <<rate, account, now, put, taken, scale, cap>>

Unset == -1
VaultAccount == [balance : 0..MaxInt, last_updated : Nat]

Init ==
  /\ rate = Unset /\ now = 0 /\ scale = 1
  /\ account = [u \in Users |-> [balance |-> 0, last_updated |-> 0]]
  /\ put = [u \in Users |-> 0] /\ taken = [u \in Users |-> 0] /\ cap = [u \in Users |-> 0]

-----------------------------------------------------------------------------
WrappingAdd(x, y) ==                     \* fault: a release build's plain `+'
  {((x + y + MaxInt + 1) % (2 * (MaxInt + 1))) - MaxInt - 1}
CheckedAdd(x, y) == {z \in {x + y} : z <= MaxInt}
CheckedMul(x, y) == {z \in {x * y} : z <= MaxInt}

(* accrue: simple interest for the time since the last call, rounded down.    *)
Interest(b, e) ==
  {z \div Denominator : z \in UNION {CheckedMul(y, e) : y \in CheckedMul(b, rate)}}

Accrued(u) ==
  LET b == account[u].balance
      e == now - account[u].last_updated
  IN  IF e > 0 /\ b > 0 THEN UNION {CheckedAdd(b, i) : i \in Interest(b, e)} ELSE {b}

Initialize(r) ==
  /\ rate = Unset /\ rate' = r
  /\ UNCHANGED <<account, now, put, taken, scale, cap>>

KeptTime(u) == account[u].last_updated   \* fault: last_updated not advanced
Touched(u) == now

Store(u, b) ==
  account' = [account EXCEPT ![u] = [balance |-> b, last_updated |-> Touched(u)]]

Deposit(u, n) ==
  /\ n > 0 /\ rate # Unset
  /\ put[u] + n <= MaxPut
  /\ \E a \in Accrued(u) : \E b \in CheckedAdd(a, n) : Store(u, b)
  /\ put' = [put EXCEPT ![u] = @ + n]
  /\ cap' = [cap EXCEPT ![u] = @ + n * scale]
  /\ UNCHANGED <<rate, now, taken, scale>>

Covers(b, n) == b >= n

Withdraw(u, n) ==
  /\ n > 0 /\ rate # Unset
  /\ \E a \in Accrued(u) : Covers(a, n) /\ Store(u, a - n)
  /\ taken' = [taken EXCEPT ![u] = @ + n]
  /\ cap' = [cap EXCEPT ![u] = @ - n * scale]
  /\ UNCHANGED <<rate, now, put, scale>>

(* Ledgers close.                                                             *)
Tick ==
  /\ rate # Unset /\ now < MaxTime
  /\ now' = now + 1 /\ scale' = scale * Denominator
  /\ cap' = [u \in Users |-> cap[u] * (Denominator + rate)]
  /\ UNCHANGED <<rate, account, put, taken>>

Next ==
  \/ \E r \in Rates : Initialize(r)
  \/ \E u \in Users, n \in 0..MaxAmount : Deposit(u, n) \/ Withdraw(u, n)
  \/ Tick

Spec == Init /\ [][Next]_vars

-----------------------------------------------------------------------------
(* The state keeps its shape; no balance is negative.                         *)
TypeOK ==
  /\ rate \in Rates \cup {Unset} /\ now \in Nat
  /\ account \in [Users -> VaultAccount]
  /\ \A u \in Users : account[u].last_updated <= now

(* What was deposited is in the balance or was withdrawn: rounding down over  *)
(* and over, and calls refused for an overflow, cost interest, never principal.*)
PrincipalKept == \A u \in Users : account[u].balance + taken[u] >= put[u]

(* However often and whenever a user calls, the interest credited is no more  *)
(* than the rate compounded at every instant would give on the same deposits  *)
(* and withdrawals: no interval is credited twice, and none at a higher rate. *)
(* cap[u] is that figure in units of 1 / scale.                               *)
YieldBounded ==
  \A u \in Users : \A b \in Accrued(u) : b * scale <= cap[u]
=============================================================================
