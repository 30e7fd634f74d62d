SPECIFICATION FairSpec
CONSTANTS
  a = a
  b = b
  Nodes = {a, b}
  Founders = {a, b}
  Leavers = {a, b}
  MaxEpoch = 2
  MaxEvents = 3
  MaxMishaps = 2
  MaxPosts = 1
  Limits <- EventLimits
CHECK_DEADLOCK FALSE
INVARIANTS
  TypeOK
  KeysAgree
  RotationExcludes
  WaitsForFirstKey
  OwedIsRead
PROPERTIES
  ResyncEnds
