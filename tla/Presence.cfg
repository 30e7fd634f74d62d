SPECIFICATION Spec
CONSTANTS
  Peers = {p}
  Stale = 1
  Offline = 2
  Throttle = 1
  MaxStored = 2
  MaxSends = 3
  MaxRestarts = 1
INVARIANTS
  NotToldTooWell
  OnlineRelayEarned
  
PROPERTIES
  ForgottenIsOffline
  SilenceNoticed
