SPECIFICATION FairSpec
CONSTANTS
  Clients = {c1, c2}
  None = None
  Today = Today
  k1 = k1
  k2 = k2
  n1 = n1
  l1 = l1
  Keys = {k1, k2, Today}
  Names = {n1}
  Labels = {l1}
  Commands <- MCCommands
  MaxCalls = 4
  MaxAged = 1
  MaxFaults = 1
INVARIANTS CreatedOnce AuditTellsAll
PROPERTIES FailsOnlyOnFault KeepsPromise Answered
CHECK_DEADLOCK FALSE
