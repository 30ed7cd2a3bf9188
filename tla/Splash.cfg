SPECIFICATION SplashSpec
CONSTANTS
  Lag = 1
  TIMEOUT = 4
INVARIANTS
  BusyShown
PROPERTIES
  TimeToEnd
CHECK_DEADLOCK FALSE
