SPECIFICATION FairSpec
CONSTANTS
  Msgs = {m1, m2}
  Relays = {}
  Undecryptable = {m2}
  Encrypted = TRUE
  MaxRetries = 1
  AckDeadline = 1
  DedupTTL = 2
  AckTTL = 1
  MaxAge = 4
  TrackCap = 1
  CacheCap = 1
  NonceCap = 1
  Timely = TRUE
  LossyTypes = {"chat", "relayAck", "ack", "read"}
  MaxLoss = 1
  MaxSenderCrash = 0
  MaxRecipientCrash = 0
INVARIANT
  AtMostOnce
PROPERTY
  Settles
