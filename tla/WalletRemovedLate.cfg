\* One tab: a wallet is removed while its password is checked.
CONSTANTS
  Keys = {k1, k2}
  Foreign = {k2}
  Tabs = {w1}
  None = None
SPECIFICATION Spec
INVARIANTS OneWallet
