SPECIFICATION FairSpec
CONSTANTS
  a = a
  b = b
  c = c
  Nodes = {a, b, c}
  Links <- Triangle
  Tree <- Path
  Swarm = {m}
  Local = {h}
  Origins = {a, b}
  Threshold = 2
  MaxFaults = 1
INVARIANTS  TreeSpans DepartedForgotten ReceivedOnce
PROPERTY AllReceive
CHECK_DEADLOCK FALSE
