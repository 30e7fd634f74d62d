SPECIFICATION Spec
CONSTANTS
  m1 = m1
  m2 = m2
  m3 = m3
  Msgs = {m1, m2, m3}
  HistoryCap = 1
  DedupCap = 2
  SyncLimit = 3
  TTL = 1
  FirstDay = 1
  MaxDays = 0
  Limits <- OneOfEach
  MaxEvents = 1
INVARIANT NumbersAreUnique
