CONSTANTS
  DEFERRED_FUNCS_COUNT = 2
  HOOK_TICK_INTERVAL = 3
  SECOND = 5
  Delays = {0, 1, 2}
  REQUESTS = 3
  HORIZON = 9
SPECIFICATION Spec
INVARIANT DelayHonoured
