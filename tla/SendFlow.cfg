\* One tab, three payments in a row, under the fairness of FairSpec.
CONSTANTS
  Ids = {i1, i2, i3}
  Tabs = {w1}
  None = None
SPECIFICATION FairSpec
INVARIANTS TypeOK PendingRemembered OneOutstanding
PROPERTIES EnvelopeKept BlockEnds
