CONSTANTS
  w1 = w1
  w2 = w2
  det = det
  msg = msg
  frm = frm
  chainKey = chainKey
  otherKey = otherKey
  None = None
  Entries = {w1, w2}
  Keys = {chainKey, otherKey}
  Lane <- MCLane
  Key <- MCKey
  Frames = {}
  Cap = 2
SPECIFICATION Spec
INVARIANTS
  WorkerSurvives
CHECK_DEADLOCK FALSE
