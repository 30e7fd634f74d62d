\* Three nodes, whose views have room for one another: joins, shuffles and failures overlap.
SPECIFICATION Spec
CONSTANTS
  a = a
  Nodes = {a, b, c}
  Contacts <- Star
  ActiveCapacity = 2
  PassiveCapacity = 2
  ActiveWalk = 1
  PassiveWalk = 0
  ShuffleWalk = 1
  ShuffleActive = 2
  ShufflePassive = 2
  MaxJoins = 2
  MaxShuffles = 1
  MaxFailures = 2
  MaxBusy = 2
CHECK_DEADLOCK FALSE
INVARIANTS  Attached  CrashFoundOut
