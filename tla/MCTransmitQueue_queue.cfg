CONSTANTS
  w1 = w1
  w2 = w2
  det = det
  msg = msg
  frm = frm
  chainKey = chainKey
  otherKey = otherKey
  None = None
  Entries = {w1, w2, det, msg, frm}
  Keys = {chainKey, otherKey}
  Lane <- MCLane
  Key <- MCKey
  Frames = {frm}
  Cap = 1
SPECIFICATION FairSpec
INVARIANTS
  TypeOK
  AnsweredOnce
  WithdrawnNeverAirs
  ConditionalFollowsSuccess
  OnlyACancelKills
PROPERTIES
  WarningsGoFirst
  EveryEntryIsAnswered
CHECK_DEADLOCK FALSE
