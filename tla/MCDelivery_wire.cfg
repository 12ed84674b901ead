CONSTANTS
  r1 = r1
  r2 = r2
  r3 = r3
  n1 = n1
  n3 = n3
  i1 = i1
  i2 = i2
  i3 = i3
  iv = iv
  d1 = d1
  d2 = d2
  north = north
  south = south
  None = None
  Alerts = {r1, r3, n1, n3}
  Wire = {n1, n3}
  Ids = {i1, i2, i3, iv}
  Dests = {d1}
  Nth <- MCNth
  Type <- MCType
  Own <- MCOwn
  Refs <- MCRefs
  Text <- MCText
  Detail <- MCDetail
  Area <- MCArea
  Counties = {north, south}
  Rules <- MCRules
  LegacyIncludes = TRUE
  Editable <- MCEditable
  MaxMishaps = 0
SPECIFICATION DualSpec
INVARIANTS
  HeardOnce
