CONSTANTS
  Keys = {k1, f1}
  Foreign = {f1}
  Tabs = {w1}
  None = None
  MaxTime = 1
SPECIFICATION SpecPages
INVARIANTS PagesTypeOK OwnPages KeyRecoverable SetupHasReason LockedShowsNothing SecretOfWallet
PROPERTIES NeverGoesBack
