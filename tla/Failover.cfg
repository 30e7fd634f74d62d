SPECIFICATION FairSpec
CONSTANTS
  h = h
  a = a
  b = b
  c = c
  Peers = {a, b}
  Hub = h
  Rank <- MCRank
  Initial = {a, b}
  Watchdog = TRUE
  Threshold = 2
  MaxKinds = 2
  Limits <- OneOfEach
INVARIANT OneLeader
 
PROPERTY Followed
