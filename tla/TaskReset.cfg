SPECIFICATION FairSpec
CONSTANTS
  TASK_ID_COUNT = 6
  WORD = 9
  Resettable = {3, 5}
  Requesters = {2, 4}
  REQUESTS = 3
INVARIANTS TypeOK OneResetter QueuedExecuted DoneWhenReset TimerArmed
PROPERTY ResetReturns
