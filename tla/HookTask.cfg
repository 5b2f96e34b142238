CONSTANTS
  DEFERRED_FUNCS_COUNT = 2
  HOOK_TICK_INTERVAL = 3
  SECOND = 4
  Delays = {0, 1, 2}
  REQUESTS = 3
  HORIZON = 7
  HOOK_PRIO_FIRST = 1
  HOOK_PRIO_LAST = 4
  HOOKS = 4
SPECIFICATION StartSpec
INVARIANTS TypeOK NeverOversleeps NotifiesInOrder
PROPERTY DeferredCalled
