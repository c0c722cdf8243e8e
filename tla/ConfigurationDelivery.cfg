SPECIFICATION FairSpec
CONSTANTS
  Admins = {a1, a2}
  None = None
  MaxEdits = 1
  MaxRevisions = 2
  MaxFaults = 2
INVARIANTS AppliedIsTrue OnlyAuthorizedReceive
PROPERTIES FileNeverRegresses ReachesDevice
