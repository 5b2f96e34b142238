SPECIFICATION Spec
CONSTANTS
  EC_MKBP_EVENT_COUNT = 2
  Senders = {s1}
  HOOKS = hooks
  Sources = {0, 1}
  WakeMasks = {{1}}
  GPIO = FALSE
  SLEEPS = FALSE
  IDS = 3
  FAILURES = 0
INVARIANT SafetyNet
