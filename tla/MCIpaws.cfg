CONSTANTS
  Messages <- MCMessages
  SettingsSet <- MCSettings
  Latency = 1
  Lookback = 2
  MaxClock = 3
  MaxCrashes = 1
SPECIFICATION Spec
INVARIANTS
  NothingMissed
  EnqueuedOnce
CHECK_DEADLOCK FALSE
