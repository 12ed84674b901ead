CONSTANTS
  d1 = d1
  d2 = d2
  con = con
  ext = ext
  can = can
  Dests = {d1, d2}
  Followups = {can}
  Action <- MCAction
  Order <- MCOrder
  LegacyIncludes = TRUE
  PartialFaults = TRUE
  MaxMishaps = 1
SPECIFICATION Spec
SYMMETRY DestSymmetry
INVARIANTS
  NoClaimAfterFollowup
  EveryClaimIsCarried
  ConditionalNeedsSuccess
PROPERTIES
  ToldOnlyByAcceptance
CHECK_DEADLOCK FALSE
