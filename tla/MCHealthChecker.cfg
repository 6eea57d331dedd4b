SPECIFICATION Spec
CONSTANTS
  N = 2
  Settings <- SettingsValue
  CB_THRESHOLD = 2
  CB_RESET_SECS = 5
INVARIANT TypeOK
INVARIANT StaysShut
INVARIANT ShutOutInTime
PROPERTY NoCatchingUp
