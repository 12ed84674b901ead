CONSTANTS
  d1 = d1
  d2 = d2
  con = con
  ext = ext
  can = can
  Dests = {d1}
  Followups = {con, ext, can}
  Action <- MCAction
  Order <- MCOrder
  LegacyIncludes = TRUE
  PartialFaults = FALSE
  MaxMishaps = 2
SPECIFICATION Spec
INVARIANTS
  TypeOK
  RebroadcastsOnlyStrays
  CanonicalChainIsCancelled
  OnlyNewestProductMoves
PROPERTIES
  LifecycleNeverRegresses
  RefinesOneShot
CHECK_DEADLOCK FALSE
