----------------------------- MODULE MCContracts -----------------------------
(* Small instances of the four Soroban contracts. They share no state and do  *)
(* not call one another: each is explored beside the others' first states,    *)
(* which its steps neither read nor write.                                    *)
EXTENDS Multisig, TLC

CONSTANTS
  Users, Assets, Funds, MaxSum, MaxTime, MaxEscrows,
  Savers, Rates, Denominator, MaxInt, MaxSaving, MaxPut, MaxYears,
  Addresses, Nobody, MaxIntents

VARIABLES escrows, tokens, now, stray
escrow == <<escrows, tokens, now, stray>>
E == INSTANCE Escrow WITH balance <- tokens, MaxAmount <- MaxSum

VARIABLES rate, account, time, put, taken, scale, cap
vault == <<rate, account, time, put, taken, scale, cap>>
V == INSTANCE Vault WITH Users <- Savers, now <- time, MaxAmount <- MaxSaving,
                         MaxTime <- MaxYears

VARIABLES confirmer, intents, clock
gateway == <<confirmer, intents, clock>>
G == INSTANCE Gateway WITH now <- clock

ASSUME ContractsAssumption == E!EscrowAssumption /\ V!VaultAssumption

VARIABLE at   \* the contract that is explored

InitContracts ==
  /\ Init /\ E!Init /\ V!Init /\ G!Init
  /\ at \in {"escrow", "multisig", "vault", "gateway"}

NextContracts ==
  \/ at = "multisig" /\ Next /\ UNCHANGED <<escrow, vault, gateway, at>>
  \/ at = "escrow" /\ E!Next /\ UNCHANGED <<vars, vault, gateway, at>>
  \/ at = "vault" /\ V!Next /\ UNCHANGED <<vars, escrow, gateway, at>>
  \/ at = "gateway" /\ G!Next /\ UNCHANGED <<vars, escrow, vault, at>>

SpecContracts ==
  InitContracts /\ [][NextContracts]_<<vars, escrow, vault, gateway, at>>

Sym == Permutations(Users) \cup Permutations(Assets) \cup Permutations(Accounts)

(* Each contract's entries keep their shape (see the TypeOK of each module).  *)
ContractsTypeOK == TypeOK /\ E!TypeOK /\ V!TypeOK /\ G!TypeOK

(* See Escrow; its FundsAccounted has another name beside that of Multisig.   *)
EscrowsAccounted == E!FundsAccounted
ExactlyOneExit == E!ExactlyOneExit
PaidOutAsAgreed == E!PaidOutAsAgreed

(* See Vault.                                                                 *)
PrincipalKept == V!PrincipalKept
YieldBounded == V!YieldBounded

(* See Gateway.                                                               *)
ConfirmationKept == G!ConfirmationKept
=============================================================================
