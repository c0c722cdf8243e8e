SPECIFICATION Spec
CONSTANTS
  Requests = {r1}
  Emails = {e1}
  Admins = {a1, a2}
  Members = {}
  Workers = {w1}
  None = None
  BatchSize = 1
  MaxFaults = 1
PROPERTIES AmbiguousIsHeld
CHECK_DEADLOCK FALSE
