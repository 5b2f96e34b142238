CONSTANTS
  PeKinds = {"data", "ext", "soft"}
  PartnerKinds = {"ext", "request", "soft", "ping"}
  PD_MESSAGE_ID_COUNT = 2
  CHUNKS = 2
  SENDS = 1
  RECEIVES = 1
  RESETS = 1
  RX_QUEUE = 2
SPECIFICATION FairSpec
INVARIANTS TypeOK DiscardedNotSent HardResetRequested
PROPERTIES Answered HardResetEnds
