CONSTANTS
  d1 = d1
  d2 = d2
  con = con
  ext = ext
  can = can
  Dests = {d1}
  Followups = {ext, can}
  Action <- MCAction
  Order <- MCOrder
  LegacyIncludes = TRUE
  PartialFaults = FALSE
  MaxMishaps = 1
SPECIFICATION FairSpec
PROPERTIES
  WaitingIsServed
  FollowupIsSettled
CHECK_DEADLOCK FALSE
