SPECIFICATION FairSpec
CONSTANTS
  Requests = {r1, r2}
  Checker = checker
  CB_THRESHOLD = 2
  CB_RESET_SECS = 2
  MaxNow = 4
  MaxFailures = 2
  U64 = 16
  ClockStepsBack = TRUE
INVARIANT OpenMeansFailedChecks
INVARIANT ResetsAreDue
PROPERTY Recovery
PROPERTY Detection
