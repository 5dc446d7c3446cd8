\* The backup step of a new wallet and the inactivity lock.
CONSTANTS
  Keys = {k1, k2, k3, k4}
  Foreign = {k4}
  Tabs = {w1}
  None = None
SPECIFICATION Spec
PROPERTIES BackupStepKept
