SPECIFICATION FairSpec
CONSTANTS
  EC_MKBP_EVENT_COUNT = 2
  Senders = {s1}
  HOOKS = hooks
  Sources = {0,1}
  WakeMasks = {{1}}
  GPIO = FALSE
  SLEEPS = TRUE
  IDS = 3
  FAILURES = 1
INVARIANTS TypeOK TransitionOwned ActiveMeansRaised
PROPERTIES NoStarvation EventFetched
