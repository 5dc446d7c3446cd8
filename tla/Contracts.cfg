\* Escrow: two users, two tokens and two escrows whose expiries fall before, on
\* and after each other's. Multisig: three accounts, signer lists of up to three
\* entries that may repeat one, two proposals of either kind. Vault: one user
\* (accounts share nothing but the rate) at no, a low and a high rate; amounts and
\* times small enough to round to nothing and large enough to overflow. Gateway:
\* two intents and two addresses that may both come to be the confirmer.
CONSTANTS
  Contract = Contract
  Users = {alice, bob}
  Assets = {xlm, eurc}
  Funds = 1
  MaxSum = 2
  MaxTime = 2
  MaxEscrows = 2
  Accounts = {s1, s2, s3}
  MaxSigners = 3
  MaxProposals = 2
  MaxAmount = 1
  MaxDeposits = 2
  Savers = {u}
  Rates = {0, 1, 3}
  Denominator = 4
  MaxInt = 20
  MaxSaving = 5
  MaxPut = 12
  MaxYears = 3
  Addresses = {a1, a2}
  Nobody = Nobody
  MaxIntents = 2
SPECIFICATION SpecContracts
SYMMETRY Sym
INVARIANTS ContractsTypeOK EscrowsAccounted ExactlyOneExit ExecutedByQuorum QuorumReachable FundsAccounted PrincipalKept YieldBounded
PROPERTIES PaidOutAsAgreed AgreementsKept ConfirmationKept
CHECK_DEADLOCK FALSE
