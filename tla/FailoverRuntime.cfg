SPECIFICATION FairSpec
CONSTANTS
  h = h
  a = a
  b = b
  c = c
  Peers = {a, b}
  Hub = h
  Rank <- MCRank
  Initial = {a, b}
  Watchdog = FALSE
  Threshold = 2
  MaxKinds = 3
  Limits <- CrashOnly
PROPERTY Promotes
