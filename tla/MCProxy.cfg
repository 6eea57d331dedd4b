SPECIFICATION FairSpec
CONSTANTS
  Requests = {r1, r2}
  Timeouts = {1, 2}
  CONNECTION_SECS = 3
CHECK_DEADLOCK FALSE
INVARIANT TypeOK
INVARIANT AnsweredBeforeCut
INVARIANT RedirectComesFirst
PROPERTY RequestsEnd
