SPECIFICATION FairSpec
CONSTANTS
  MaxAlerts = 2
  ListLimit = 1
  ReplayLimit = 1
  MaxWindow = 2
  Slots = {q1}
  MaxFaults = 1
INVARIANTS ResumeAccepted HandledOnce ScreenFollowsStream AcknowledgedOnce
PROPERTIES CatchesUp
CHECK_DEADLOCK FALSE
