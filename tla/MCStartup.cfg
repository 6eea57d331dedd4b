SPECIFICATION FairSpec
CONSTANTS
  Absent = Absent
  Domains = {d1, d2}
  Files <- MCFiles
  Overrides <- MCOverrides
  TakenPorts = {80, 443}
CHECK_DEADLOCK FALSE
INVARIANT TypeOK
INVARIANT ServesOnlyWhole
INVARIANT CheckersKnowDomains
PROPERTY ComesUp
