CONSTANTS
  TASK_ID_COUNT = 3
  Mutex = {m1}
  CustomEvents = {e1,e2}
  Calls <- WaitCalls
  Masks <- AnyCustomEvent
  Disablable = {2}
  IrqReceivers = {2}
  IRQ_NEST = 1
  TASK_PROFILING = FALSE
  NoMutex = NoMutex
SPECIFICATION Spec
INVARIANTS TypeOK NoLostWakeup NoLostEvent EventsConserved NoStaleTimer
