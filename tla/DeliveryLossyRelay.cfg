SPECIFICATION FairSpec
CONSTANTS
  Msgs = {m1}
  Relays = {r1}
  Undecryptable = {}
  Encrypted = FALSE
  MaxRetries = 2
  AckDeadline = 1
  DedupTTL = 3
  AckTTL = 1
  MaxAge = 4
  TrackCap = 2
  CacheCap = 2
  NonceCap = 1
  Timely = TRUE
  LossyTypes = {"chat"}
  MaxLoss = 2
  MaxSenderCrash = 0
  MaxRecipientCrash = 0
INVARIANTS
  DeliveredMeansAcked
  SweepSettlesDeadlines
  AckedNotFailed
PROPERTY
  EventuallyDelivered
