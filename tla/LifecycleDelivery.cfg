SPECIFICATION FairSpec
CONSTANTS
  Requests = {r1, r2}
  Emails = {e1}
  Admins = {a1, a2}
  Members = {m1}
  Workers = {w1, w2}
  None = None
  BatchSize = 2
  MaxFaults = 2
INVARIANTS SuperAdminRemains SuspensionIsQueued DeliveredWasSent ResendNeedsFault
PROPERTIES InvitationDelivered
CHECK_DEADLOCK FALSE
