SPECIFICATION Spec
CONSTANTS
  Msgs = {m1}
  Relays = {}
  Undecryptable = {}
  Encrypted = TRUE
  MaxRetries = 2
  AckDeadline = 1
  DedupTTL = 3
  AckTTL = 1
  MaxAge = 4
  TrackCap = 2
  CacheCap = 2
  NonceCap = 1
  Timely = FALSE
  LossyTypes = {}
  MaxLoss = 0
  MaxSenderCrash = 1
  MaxRecipientCrash = 1
INVARIANTS
  AttemptsBounded
  AtMostOnce
PROPERTIES
  StatusMonotone
  ContractHolds
