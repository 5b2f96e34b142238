CONSTANTS
  PeKinds = {"data", "soft"}
  PartnerKinds = {"data", "ext", "soft"}
  PD_MESSAGE_ID_COUNT = 2
  CHUNKS = 2
  SENDS = 1
  RECEIVES = 2
  RESETS = 1
  RX_QUEUE = 2
SPECIFICATION Spec
INVARIANTS InOrder SentIsReceived
