SPECIFICATION FairSpec
CONSTANTS
  Admins = {a1, a2, a3, a4}
  Requests = {r1}
  None = None
  MaxVersion = 2
  MaxFaults = 2
INVARIANTS ApprovedByTwo TwoPersonRule AcceptedWasActivated
PROPERTIES LedgerIsAtomic ReleaseTakesEffect
