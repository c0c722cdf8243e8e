SPECIFICATION Spec
CONSTANTS
  Review = {1, 3}
  Evidence = {2, 4}
  Big = {3, 4}
  MaxBytes = 3
  MaxPuts = 4
  MaxFaults = 0
INVARIANTS ReviewNotDisplaced
CHECK_DEADLOCK FALSE
