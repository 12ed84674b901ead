CONSTANTS
  Configs <- MCConfigs
  MaxFaults = 3
SPECIFICATION FairSpec
INVARIANTS
  NoObsoleteLink
  OneLink
  ScopeKept
  CommandedOnce
  EditIsTruthful
PROPERTIES
  LockIsReleased
