SPECIFICATION FairSpec
CONSTANTS
  Admins = {a1, a2, a3}
  Requests = {r1}
  None = None
  MaxVersion = 2
  MaxFaults = 0
PROPERTIES VerificationFailureReported
