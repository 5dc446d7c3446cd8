------------------------------- MODULE Escrow -------------------------------
(* The escrow contract (src/contracts/escrow/src/lib.rs) over the token       *)
(* contracts that hold the money. A contract call is one atomic step: a token *)
(* transfer that panics (no balance, no authorization) reverts all of it, and *)
(* Soroban forbids the token from calling back into the contract. Every call  *)
(* below is one its require_auth address, the depositor, has signed.          *)
EXTENDS Integers, Sequences, FiniteSets

CONSTANTS Users,       \* accounts that own tokens and sign calls
          Assets,      \* token contracts
          Contract,    \* the escrow contract's own address
          Funds,       \* what each user owns of each token at the start
          MaxAmount, MaxTime, MaxEscrows \* bounds for checking

EscrowAssumption ==
  /\ Contract \notin Users
  /\ Funds \in Nat /\ MaxAmount \in Nat /\ MaxTime \in Nat /\ MaxEscrows \in Nat

VARIABLES escrows,   \* Escrow(id) entries; id n is escrows[n + 1], NextEscrowId its length
          balance,   \* [Assets -> [Users and Contract -> Int]], the tokens' ledgers
          now,       \* the ledger timestamp
          stray      \* history: tokens the contract holds for no escrow
vars == <<escrows, balance, now, stray>>

Holders == Users \cup {Contract}
Ids == DOMAIN escrows
Statuses == {"Created", "Funded", "Released", "Refunded"}
EscrowRecord ==
  [asset : Assets, sender : Users, recipient : Holders, amount : 1..MaxAmount,
   expires_at : Nat, status : Statuses]

Init ==
  /\ escrows = <<>>
  /\ balance = [a \in Assets |-> [h \in Holders |-> IF h \in Users THEN Funds ELSE 0]]
  /\ now = 0
  /\ stray = [a \in Assets |-> 0]

-----------------------------------------------------------------------------
(* token::Client::transfer: panics without the balance.                       *)
Move(a, from, to, n) ==
  /\ balance[a][from] >= n
  /\ balance' = [balance EXCEPT ![a] =
       [h \in Holders |-> @[h] + (IF h = to THEN n ELSE 0) - (IF h = from THEN n ELSE 0)]]

SetStatus(i, s) == escrows' = [escrows EXCEPT ![i].status = s]

(* create_escrow: a record only; nothing is deposited yet.                    *)
AmountUnchecked(n) == TRUE               \* fault: no InvalidAmount check
AmountValid(n) == n > 0

CreateEscrow(a, n, s, r, e) ==
  /\ Len(escrows) < MaxEscrows
  /\ AmountValid(n) /\ e > now
  /\ escrows' = Append(escrows, [asset |-> a, sender |-> s, recipient |-> r,
                                 amount |-> n, expires_at |-> e, status |-> "Created"])
  /\ UNCHANGED <<balance, now, stray>>

(* fund: the depositor pays in, once and before the expiry.                   *)
Fund(i) ==
  LET x == escrows[i]
  IN  /\ x.status = "Created" /\ now < x.expires_at
      /\ Move(x.asset, x.sender, Contract, x.amount)
      /\ SetStatus(i, "Funded")
      /\ UNCHANGED <<now, stray>>

(* Up to, and not at, the expiry the depositor may settle to the beneficiary, *)
(* who may be any address, the contract itself included.                      *)
ReleasableUntilExpiry(i) ==              \* fault: `>' for `>='
  escrows[i].status = "Funded" /\ now <= escrows[i].expires_at
Releasable(i) == escrows[i].status = "Funded" /\ now < escrows[i].expires_at

Release(i) ==
  LET x == escrows[i]
  IN  /\ Releasable(i)
      /\ Move(x.asset, Contract, x.recipient, x.amount)
      /\ SetStatus(i, "Released")
      /\ stray' = IF x.recipient = Contract
                  THEN [stray EXCEPT ![x.asset] = @ + x.amount] ELSE stray
      /\ UNCHANGED now

(* From the expiry on the depositor may take the money back.                  *)
RefundableAnytime(i) ==                  \* fault: expiry not checked
  escrows[i].status = "Funded"
RefundableReleased(i) ==                 \* fault: checks `not yet refunded' only
  escrows[i].status \in {"Funded", "Released"} /\ now >= escrows[i].expires_at
Refundable(i) == escrows[i].status = "Funded" /\ now >= escrows[i].expires_at

Refund(i) ==
  LET x == escrows[i]
  IN  /\ Refundable(i)
      /\ Move(x.asset, Contract, x.sender, x.amount)
      /\ SetStatus(i, "Refunded")
      /\ UNCHANGED <<now, stray>>

-----------------------------------------------------------------------------
(* Outside the contract: ledgers close, and owners move their tokens, also to *)
(* the contract's address.                                                    *)
Tick == now < MaxTime /\ now' = now + 1 /\ UNCHANGED <<escrows, balance, stray>>

Spend(a, from, to, n) ==
  /\ from # to /\ Move(a, from, to, n)
  /\ stray' = IF to = Contract THEN [stray EXCEPT ![a] = @ + n] ELSE stray
  /\ UNCHANGED <<escrows, now>>

Next ==
  \/ \E a \in Assets, n \in 0..MaxAmount, s \in Users, r \in Holders, e \in 0..MaxTime :
       CreateEscrow(a, n, s, r, e)
  \/ \E i \in Ids : Fund(i) \/ Release(i) \/ Refund(i)
  \/ Tick
  \/ \E a \in Assets, n \in 1..MaxAmount, s \in Users, r \in Holders : Spend(a, s, r, n)

Spec == Init /\ [][Next]_vars

-----------------------------------------------------------------------------
(* The entries and the balances keep their shape; no balance goes negative.   *)
TypeOK ==
  /\ escrows \in Seq(EscrowRecord)
  /\ balance \in [Assets -> [Holders -> Nat]]
  /\ now \in Nat /\ stray \in [Assets -> Nat]

(* Every token the contract holds is owed to exactly one open escrow, or is   *)
(* stray: over any sequence of calls nothing is paid out twice, for an escrow *)
(* that was never funded, or in another asset than was deposited. The tokens  *)
(* owed are counted one by one: <<i, k>> is the k-th token of escrow i.       *)
Funded(a) == {i \in Ids : escrows[i].asset = a /\ escrows[i].status = "Funded"}
Owed(a) == {t \in Funded(a) \X (1..MaxAmount) : t[2] <= escrows[t[1]].amount}
FundsAccounted ==
  \A a \in Assets : balance[a][Contract] = stray[a] + Cardinality(Owed(a))

(* A funded escrow is never stuck and never ambiguous: at every instant, the  *)
(* expiry itself included, exactly one of release and refund would succeed,   *)
(* however many other escrows draw on the same balance.                       *)
ExactlyOneExit ==
  \A i \in Ids : escrows[i].status = "Funded" =>
    /\ Releasable(i) # Refundable(i)
    /\ balance[escrows[i].asset][Contract] >= escrows[i].amount

(* Tokens leave the contract only to settle one escrow: to its recipient      *)
(* before its expiry, or back to its sender from the expiry on, for exactly   *)
(* its amount, and nobody else's balance changes.                             *)
Paid(a, h) == balance'[a][h] - balance[a][h]
PaysOut(i, to, s) ==
  LET x == escrows[i]
  IN  /\ x.status = "Funded" /\ escrows'[i].status = s
      /\ Paid(x.asset, Contract) = -x.amount /\ Paid(x.asset, to) = x.amount
      /\ \A h \in Holders \ {to, Contract} : Paid(x.asset, h) = 0
PaidOutAsAgreed ==
  [][\A a \in Assets : Paid(a, Contract) < 0 =>
       \E i \in Ids : /\ escrows[i].asset = a
                      /\ \/ now < escrows[i].expires_at
                            /\ PaysOut(i, escrows[i].recipient, "Released")
                         \/ now >= escrows[i].expires_at
                            /\ PaysOut(i, escrows[i].sender, "Refunded")]_vars
=============================================================================
