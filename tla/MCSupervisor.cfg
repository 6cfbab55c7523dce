SPECIFICATION Spec
CONSTANTS
  WARN_HI = 600
  WARN_LO = 400
  ALARM_HI = 1200
  ALARM_LO = 900
  DEBOUNCE_N = 3
  Errors <- MCErrors
INVARIANT
  SupTypeOK
PROPERTIES
  Dwells
  OuterStatesDebounced
  FaultsFollowed
