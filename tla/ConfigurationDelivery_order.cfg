SPECIFICATION Spec
CONSTANTS
  Admins = {a1, a2}
  None = None
  MaxEdits = 1
  MaxRevisions = 2
  MaxFaults = 0
INVARIANTS RevisionsFollowZones
