CONSTANTS
  TASK_ID_COUNT = 4
  Mutex = {m1}
  CustomEvents = {e1}
  Calls <- LockCalls
  Masks <- AnyCustomEvent
  Disablable = {}
  IrqReceivers = {1,2,3}
  IRQ_NEST = 2
  TASK_PROFILING = FALSE
  NoMutex = NoMutex
SPECIFICATION FairSpec
INVARIANTS MutualExclusion HighestPriorityRuns
PROPERTY MutexGranted
