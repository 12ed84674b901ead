CONSTANTS
  Processes <- MCProcesses
  Receivers <- MCReceivers
  MaxRetired = 1
  MaxSeq = 1
  QueueSize = 1
  MaxOffers = 4
  MaxStalls = 1
  MaxFallbacks = 1
SPECIFICATION FairSpec
INVARIANTS
  NoReplay
  ProcessesReaped
  LatchHolds
  CleanStop
PROPERTIES
  ShutdownEnds
  SettingsAreSeen
  ReceiverReturns
CHECK_DEADLOCK FALSE
