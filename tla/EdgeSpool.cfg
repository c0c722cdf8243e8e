SPECIFICATION FairSpec
CONSTANTS
  Review = {1, 3}
  Evidence = {2, 4}
  Big = {3, 4}
  MaxBytes = 3
  MaxPuts = 4
  MaxFaults = 2
INVARIANTS IndexMatchesDisk RestartPossible QueuedIsKept WithinQuota
PROPERTIES EventuallyAccepted
CHECK_DEADLOCK FALSE
