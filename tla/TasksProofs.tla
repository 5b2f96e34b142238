---------------------------- MODULE TasksProofs ----------------------------
(***************************************************************************)
(* Proofs about the task runtime, for every number of tasks, mutexes and   *)
(* events, every interrupt nesting and every use the tasks make of it.     *)
(***************************************************************************)
EXTENDS Tasks, TLAPS

-----------------------------------------------------------------------------
(* The inductive invariant                                                 *)

\* The labels inside __wait_evt() and its callers.
Waiting == {"arm", "clear", "desched", "cancel", "untimer", "got"}

\* What a label says about the locals of the call the task is in.
ControlOK ==
  \A t \in TaskId :
    /\ pc[t] \in {"try", "locked", "wake"} => mtx[t] # NoMutex
    /\ pc[t] = "run" => mtx[t] = NoMutex
    /\ pc[t] \in Waiting /\ mtx[t] # NoMutex =>
         mask[t] = {MUTEX, TIMER} /\ ~timed[t]
    /\ pc[t] \in {"cancel", "untimer"} => timed[t]
    /\ mask[t] # {} => TIMER \in mask[t] /\ pc[t] \in Waiting
    /\ evt[t] # {} => pc[t] \in {"cancel", "untimer", "got"}
    /\ collected[t] # {} => mask[t] # {}

\* The lock word is set exactly while some task owns the mutex.
LockOwned ==
  \A m \in Mutex : lock[m] # 0 <=> \E t \in TaskId : Holds(t, m)

\* A timer runs, and its event is pending, only within a timed wait.
TimerOK ==
  \A t \in TaskId :
    /\ t \in timer_running =>
         timed[t] /\ pc[t] \in {"clear", "desched", "cancel"}
    /\ TIMER \in events[t] =>
         timed[t] /\ pc[t] \in {"clear", "desched", "cancel", "untimer"}

\* A handler, or one nested in the return of another, asked for a rescheduling
\* that is still to come.  Under profiling the flag is always set.
ReschedDue == need_resched /\ (irq_depth > 0 \/ ~TASK_PROFILING)

\* The scheduler lost nothing when no rescheduling is due.
HighestUnlessDue ==
  /\ TASK_PROFILING => need_resched /\ ~leaving
  /\ ReschedDue \/ \A t \in (tasks_ready \cap tasks_enabled) \ Disablable :
                     t <= current_task

\* Somebody will send, or has just sent, task t the wake-up it waits for.
WakeupDue(t) ==
  \E u \in TaskId :
    \/ Holds(u, mtx[t])
    \/ /\ pc[u] \in {"wake", "svc"} /\ mtx[u] = mtx[t]
       /\ \/ t \in to_wake[u]
          \/ pc[u] = "svc" /\ dest[u] = t /\ MUTEX \in events[t]

\* A task in mutex_lock() is registered; while it waits there its wake-up is
\* due, pending, or in the word it has just taken.
WaitersOK ==
  \A t \in TaskId : mtx[t] # NoMutex =>
    /\ pc[t] \in Waiting \cup {"try"} => t \in waiters[mtx[t]]
    /\ pc[t] \in Waiting =>
         \/ WakeupDue(t)
         \/ MUTEX \in events[t] /\ t \in tasks_ready
         \/ pc[t] = "got" /\ MUTEX \in evt[t]

\* The running task is ready.
CurrentReady == current_task \in tasks_ready

-----------------------------------------------------------------------------
LEMMA IdleAndHooks ==
  /\ TASK_ID_IDLE \in TaskId /\ TASK_ID_HOOKS \in TaskId
BY TasksAssumption DEF TasksAssumption, TaskId, TASK_ID_IDLE, TASK_ID_HOOKS

LEMMA TypeInit == Init => TypeOK
<1> SUFFICES ASSUME Init PROVE TypeOK
  OBVIOUS
<1>1. need_resched \in BOOLEAN /\ booted \in BOOLEAN
  BY TasksAssumption DEF Init, TasksAssumption
<1>2. irq_depth \in 0 .. IRQ_NEST
  BY TasksAssumption DEF Init, TasksAssumption
<1> QED BY <1>1, <1>2, IdleAndHooks DEF Init, TypeOK, PcValues

LEMMA TypeNext == TypeOK /\ ControlOK /\ [Next]_vars => TypeOK'
<1> SUFFICES ASSUME TypeOK, ControlOK, [Next]_vars PROVE TypeOK'
  OBVIOUS
<1> USE TasksAssumption, IdleAndHooks
<1>1. CASE EnableAllTasks
  <2>1. /\ current_task' \in TaskId /\ tasks_ready' \subseteq TaskId
        /\ need_resched' \in BOOLEAN
    BY <1>1 DEF EnableAllTasks, svc_handler, TypeOK, TasksAssumption
  <2> QED BY <1>1, <2>1 DEF EnableAllTasks, TypeOK, mutexes, waits, irq
<1>2. ASSUME NEW t \in TaskId, Call(t) PROVE TypeOK'
  <2>1. ASSUME NEW r \in TaskId, NEW e \in CustomEvents, SetEvent(t, r, e)
        PROVE  TypeOK'
    BY <2>1
       DEF SetEvent, TypeOK, Goto, PcValues, sched, irq, mutexes, waits, Events
  <2>2. ASSUME NEW u \in Disablable, EnableTask(t, u) \/ DisableTask(t, u)
        PROVE  TypeOK'
    <3>1. /\ tasks_enabled' \subseteq TaskId
          /\ UNCHANGED <<sched, mutexes, waits, booted, events, timer_running,
                         owed>>
      BY <2>2 DEF EnableTask, DisableTask, TypeOK, TasksAssumption
    <3>2. pc' \in [TaskId -> PcValues] /\ dest' \in [TaskId -> TaskId]
      BY <2>2 DEF EnableTask, DisableTask, TypeOK, Goto, PcValues
    <3> QED BY <3>1, <3>2 DEF TypeOK, sched, irq, mutexes, waits
  <2>3. ASSUME NEW m \in SUBSET Events, NEW b \in BOOLEAN,
               StartWait(t, m, b), UNCHANGED mutexes
        PROVE  TypeOK'
    BY <2>3 DEF StartWait, TypeOK, Goto, PcValues, sched, irq, mutexes
  <2>4. CASE task_wait_event(t)
    BY <2>3, <2>4 DEF task_wait_event
  <2>5. CASE usleep(t)
    BY <2>3, <2>5 DEF usleep, Events
  <2>6. ASSUME NEW m \in Masks, task_wait_event_mask(t, m) PROVE TypeOK'
    <3>1. m \cup {TIMER} \in SUBSET Events
      BY DEF TasksAssumption, Events
    <3> QED BY <2>3, <2>6, <3>1 DEF task_wait_event_mask
  <2>7. ASSUME NEW m \in Mutex, MutexLock(t, m) PROVE TypeOK'
    BY <2>7 DEF MutexLock, TypeOK, Goto, PcValues, sched, irq, waits
  <2> QED BY <1>2, <2>1, <2>2, <2>4, <2>5, <2>6, <2>7 DEF Call
<1>3. ASSUME NEW t \in TaskId, Step(t) PROVE TypeOK'
  <2>1. CASE Schedule(t)
    <3>1. /\ current_task' \in TaskId /\ tasks_ready' \subseteq TaskId
          /\ need_resched' \in BOOLEAN
      BY <2>1 DEF Schedule, svc_handler, TypeOK, TasksAssumption
    <3> QED BY <2>1, <3>1
       DEF Schedule, TypeOK, Goto, PcValues, mutexes, waits, irq
  <2>2. CASE Arm(t)
    BY <2>2 DEF Arm, TypeOK, Goto, PcValues, sched, irq, mutexes, waits
  <2>3. CASE Clear(t)
    BY <2>3 DEF Clear, TypeOK, Goto, PcValues, sched, irq, mutexes
  <2>4. CASE Desched(t)
    <3>1. /\ current_task' \in TaskId /\ tasks_ready' \subseteq TaskId
          /\ need_resched' \in BOOLEAN
      BY <2>4 DEF Desched, svc_handler, TypeOK, TasksAssumption
    <3> QED BY <2>4, <3>1
       DEF Desched, TypeOK, Goto, PcValues, mutexes, waits, irq
  <2>5. CASE Cancel(t)
    BY <2>5 DEF Cancel, TypeOK, Goto, PcValues, sched, irq, mutexes, waits
  <2>6. CASE ClearTimerEvent(t)
    BY <2>6
       DEF ClearTimerEvent, TypeOK, Goto, PcValues, sched, irq, mutexes, waits
  <2>7. CASE ReturnPlain(t)
    BY <2>7 DEF ReturnPlain, TypeOK, Goto, PcValues, sched, irq, mutexes
  <2>8. CASE ReturnMasked(t)
    <3> DEFINE all(d) == collected[t] \cup evt[t]
                           \cup (IF d THEN {TIMER} ELSE {})
    <3>1. \A d \in BOOLEAN : all(d) \subseteq Events
      BY DEF TypeOK, Events
    <3> HIDE DEF all
    <3>2. PICK d \in BOOLEAN :
            \/ /\ collected' = [collected EXCEPT ![t] = all(d)]
               /\ Goto(t, "arm")
               /\ UNCHANGED <<events, owed, mask, timed>>
            \/ /\ collected' = [collected EXCEPT ![t] = {}]
               /\ events' = [events EXCEPT ![t] = @ \cup (all(d) \ mask[t])]
               /\ owed' = [owed EXCEPT ![t] = @ \ (all(d) \cap mask[t])]
               /\ mask' = [mask EXCEPT ![t] = {}]
               /\ timed' = [timed EXCEPT ![t] = FALSE]
               /\ \/ Goto(t, "run")
                  \/ Goto(t, "try")
      BY <2>8 DEF ReturnMasked, all
    <3>3. all(d) \subseteq Events
      BY <3>1
    <3>4. evt' = [evt EXCEPT ![t] = {}]
      BY <2>8 DEF ReturnMasked
    <3>5. UNCHANGED <<sched, mutexes, tasks_enabled, booted, timer_running,
                      dest>>
      BY <2>8 DEF ReturnMasked
    <3>6. /\ events' \in [TaskId -> SUBSET Events]
          /\ collected' \in [TaskId -> SUBSET Events]
      BY <3>2, <3>3 DEF TypeOK
    <3>11. evt' \in [TaskId -> SUBSET Events]
      BY <3>4 DEF TypeOK
    <3>7. owed' \in [TaskId -> SUBSET CustomEvents]
      BY <3>2 DEF TypeOK
    <3>8. mask' \in [TaskId -> SUBSET Events]
      BY <3>2 DEF TypeOK
    <3>9. timed' \in [TaskId -> BOOLEAN]
      BY <3>2 DEF TypeOK
    <3>10. pc' \in [TaskId -> PcValues]
      BY <3>2 DEF TypeOK, Goto, PcValues
    <3> QED BY <3>5, <3>6, <3>7, <3>8, <3>9, <3>10, <3>11
             DEF TypeOK, sched, irq, mutexes
  <2>9. CASE TakeLock(t)
    BY <2>9 DEF TakeLock, TypeOK, Goto, PcValues, sched, irq, waits
  <2>10. CASE Contend(t)
    BY <2>10
       DEF Contend, StartWait, TypeOK, Goto, PcValues, sched, irq, mutexes,
                 Events
  <2>11. CASE Locked(t)
    BY <2>11
       DEF Locked, ControlOK, At, TypeOK, Goto, PcValues, sched, irq, waits
  <2>12. CASE WakeWaiter(t)
    BY <2>12 DEF WakeWaiter, TypeOK, Goto, PcValues, sched, irq, waits, Events
  <2>13. CASE Unlocked(t)
    BY <2>13 DEF Unlocked, TypeOK, Goto, PcValues, sched, irq, waits
  <2> QED BY <1>3, <2>1, <2>2, <2>3, <2>4, <2>5, <2>6, <2>7, <2>8, <2>9,
             <2>10, <2>11, <2>12, <2>13 DEF Step
<1>4. ASSUME NEW t \in TaskId, Unlock(t) PROVE TypeOK'
  BY <1>4 DEF Unlock, MutexUnlock, TypeOK, Goto, PcValues, sched, irq, waits
<1>5. CASE Interrupt
  <2>1. CASE IrqEnter
    BY <2>1 DEF IrqEnter, TypeOK, mutexes, waits, TasksAssumption
  <2>2. ASSUME NEW r \in TaskId, NEW e \in CustomEvents, IrqSetEvent(r, e)
        PROVE  TypeOK'
    BY <2>2 DEF IrqSetEvent, IrqPost, TypeOK, mutexes, waits, irq, Events
  <2>3. ASSUME NEW r \in TaskId, expire_timer(r) PROVE TypeOK'
    BY <2>3 DEF expire_timer, IrqPost, TypeOK, mutexes, waits, irq, Events
  <2>4. CASE task_resched_if_needed
    <3>1. /\ current_task' \in TaskId /\ tasks_ready' \subseteq TaskId
          /\ need_resched' \in BOOLEAN
      BY <2>4 DEF task_resched_if_needed, svc_handler, TypeOK, TasksAssumption
    <3>2. irq_depth' \in 0 .. IRQ_NEST /\ leaving' \in BOOLEAN
      <4>1. CASE need_resched
        BY <2>4, <4>1 DEF task_resched_if_needed, TypeOK, TasksAssumption
      <4>2. CASE ~need_resched
        BY <2>4, <4>2 DEF task_resched_if_needed, TypeOK, TasksAssumption
      <4> QED BY <4>1, <4>2
    <3> QED BY <2>4, <3>1, <3>2
            DEF task_resched_if_needed, TypeOK, mutexes, waits
  <2>5. CASE IrqReturn
    <3>1. irq_depth' \in 0 .. IRQ_NEST
      BY <2>5 DEF IrqReturn, TypeOK, TasksAssumption
    <3>2. leaving' \in BOOLEAN
      BY <2>5, Zenon DEF IrqReturn, TypeOK
    <3> QED BY <2>5, <3>1, <3>2 DEF IrqReturn, TypeOK, mutexes, waits
  <2> QED BY <1>5, <2>1, <2>2, <2>3, <2>4, <2>5
          DEF Interrupt, IrqExit, TasksAssumption
<1>6. CASE UNCHANGED vars
  BY <1>6 DEF vars, sched, irq, mutexes, waits, TypeOK
<1> QED BY <1>1, <1>2, <1>3, <1>4, <1>5, <1>6 DEF Next

LEMMA ControlInit == Init => ControlOK
BY DEF Init, ControlOK

\* ControlOK is inductive: the locals of a call change only at its own steps.
LEMMA ControlNext == TypeOK /\ ControlOK /\ [Next]_vars => ControlOK'
<1> SUFFICES ASSUME TypeOK, ControlOK, [Next]_vars PROVE ControlOK'
  OBVIOUS
<1>0. /\ pc \in [TaskId -> PcValues] /\ mtx \in [TaskId -> Mutex \cup {NoMutex}]
      /\ evt \in [TaskId -> SUBSET Events]
      /\ collected \in [TaskId -> SUBSET Events]
      /\ mask \in [TaskId -> SUBSET Events] /\ timed \in [TaskId -> BOOLEAN]
  BY DEF TypeOK
<1> USE <1>0 DEF ControlOK, At, Goto, Waiting, TIMER, MUTEX
<1>1. CASE EnableAllTasks \/ Interrupt \/ UNCHANGED vars
  <2>1. UNCHANGED <<pc, mtx, waits>>
    BY <1>1 DEF EnableAllTasks, Interrupt, IrqEnter, IrqExit, IrqReturn,
                task_resched_if_needed, IrqSetEvent,
                IrqPost, expire_timer, vars, mutexes
  <2> QED BY <2>1 DEF waits
<1>2. ASSUME NEW t \in TaskId, Call(t) PROVE ControlOK'
  <2>1. ASSUME NEW r \in TaskId, NEW e \in CustomEvents, SetEvent(t, r, e)
        PROVE  ControlOK'
    BY <2>1 DEF SetEvent, mutexes, waits
  <2>2. ASSUME NEW u \in Disablable, EnableTask(t, u) \/ DisableTask(t, u)
        PROVE  ControlOK'
    <3>1. /\ pc[t] = "run" /\ UNCHANGED <<mtx, waits>>
          /\ UNCHANGED pc \/ pc' = [pc EXCEPT ![t] = "svc"]
      BY <2>2 DEF EnableTask, DisableTask, mutexes
    <3> QED BY <3>1 DEF waits
  <2>3. CASE task_wait_event(t) \/ usleep(t)
    <3>1. CASE task_wait_event(t)
      BY <3>1 DEF task_wait_event, StartWait, mutexes
    <3>2. CASE usleep(t)
      BY <3>2 DEF usleep, StartWait, mutexes
    <3> QED BY <2>3, <3>1, <3>2
  <2>4. ASSUME NEW m \in Masks, task_wait_event_mask(t, m) PROVE ControlOK'
    <3>1. /\ pc[t] = "run" /\ pc' = [pc EXCEPT ![t] = "arm"]
          /\ UNCHANGED mtx
          /\ mask' = [mask EXCEPT ![t] = m \cup {TIMER}]
          /\ UNCHANGED evt
          /\ collected' = [collected EXCEPT ![t] = {}]
          /\ \E b \in BOOLEAN : timed' = [timed EXCEPT ![t] = b]
      BY <2>4 DEF task_wait_event_mask, StartWait, mutexes
    <3> QED BY <3>1
  <2>5. ASSUME NEW m \in Mutex, MutexLock(t, m) PROVE ControlOK'
    <3>1. m # NoMutex
      BY TasksAssumption DEF TasksAssumption
    <3> QED BY <2>5, <3>1 DEF MutexLock, waits
  <2> QED BY <1>2, <2>1, <2>2, <2>3, <2>4, <2>5 DEF Call
<1>3. ASSUME NEW t \in TaskId, Step(t) PROVE ControlOK'
  <2>1. CASE Schedule(t)
    BY <2>1 DEF Schedule, mutexes, waits
  <2>2. CASE Arm(t) \/ Cancel(t) \/ ClearTimerEvent(t)
    BY <2>2 DEF Arm, Cancel, ClearTimerEvent, mutexes, waits
  <2>3. CASE Clear(t)
    BY <2>3 DEF Clear, mutexes
  <2>4. CASE Desched(t)
    BY <2>4 DEF Desched, mutexes, waits
  <2>5. CASE ReturnPlain(t)
    BY <2>5 DEF ReturnPlain, mutexes
  <2>6. CASE ReturnMasked(t)
    BY <2>6 DEF ReturnMasked, mutexes
  <2>7. CASE TakeLock(t) \/ Locked(t)
    BY <2>7 DEF TakeLock, Locked, waits
  <2>8. CASE Contend(t)
    BY <2>8 DEF Contend, StartWait, mutexes
  <2>9. CASE WakeWaiter(t) \/ Unlocked(t)
    BY <2>9 DEF WakeWaiter, Unlocked, waits
  <2> QED BY <1>3, <2>1, <2>2, <2>3, <2>4, <2>5, <2>6, <2>7, <2>8, <2>9
          DEF Step
<1>4. ASSUME NEW t \in TaskId, Unlock(t) PROVE ControlOK'
  <2>1. \A m \in Mutex : m # NoMutex
    BY TasksAssumption DEF TasksAssumption
  <2> QED BY <1>4, <2>1 DEF Unlock, MutexUnlock, waits
<1> QED BY <1>1, <1>2, <1>3, <1>4 DEF Next
-----------------------------------------------------------------------------
(* Mutual exclusion                                                        *)

LEMMA LockInit == Init => LockOwned /\ MutualExclusion
BY DEF Init, LockOwned, MutualExclusion, Holds

\* Only TakeLock makes an owner, and the lock word it finds at 0 says that
\* there is none; only MutexUnlock takes ownership away, and it clears the word.
LEMMA LockNext ==
  TypeOK /\ ControlOK /\ LockOwned /\ MutualExclusion /\ [Next]_vars
    => LockOwned' /\ MutualExclusion'
<1> SUFFICES ASSUME TypeOK, ControlOK, LockOwned, MutualExclusion, [Next]_vars
             PROVE  LockOwned' /\ MutualExclusion'
  OBVIOUS
<1>0. /\ pc \in [TaskId -> PcValues] /\ mtx \in [TaskId -> Mutex \cup {NoMutex}]
      /\ lock \in [Mutex -> {0, 2}] /\ held \in [TaskId -> SUBSET Mutex]
  BY DEF TypeOK
<1> USE TasksAssumption, <1>0
<1>1. ASSUME UNCHANGED lock, \A u \in TaskId, m \in Mutex :
                               Holds(u, m)' <=> Holds(u, m)
      PROVE  LockOwned' /\ MutualExclusion'
  BY <1>1 DEF LockOwned, MutualExclusion
<1>2. CASE EnableAllTasks \/ Interrupt \/ UNCHANGED vars
  BY <1>1, <1>2
     DEF EnableAllTasks, Interrupt, IrqEnter, IrqExit, IrqReturn,
                task_resched_if_needed, IrqSetEvent, IrqPost,
         expire_timer, vars, mutexes, Holds
<1>3. ASSUME NEW t \in TaskId, Call(t)
      PROVE  LockOwned' /\ MutualExclusion'
  BY <1>1, <1>3
     DEF Call, SetEvent, EnableTask, DisableTask, task_wait_event, usleep,
         task_wait_event_mask, MutexLock, StartWait, mutexes, At, Goto, Holds
<1>4. ASSUME NEW t \in TaskId, Step(t)
      PROVE  LockOwned' /\ MutualExclusion'
  <2>1. CASE TakeLock(t)
    <3>1. mtx[t] \in Mutex /\ lock[mtx[t]] = 0 /\ lock'[mtx[t]] = 2
      BY <2>1 DEF TakeLock, ControlOK, At
    <3>2. \A u \in TaskId, m \in Mutex :
            Holds(u, m)' <=> Holds(u, m) \/ (u = t /\ m = mtx[t])
      BY <2>1, <3>1 DEF TakeLock, At, Goto, Holds
    <3>3. \A u \in TaskId : ~Holds(u, mtx[t])
      BY <3>1 DEF LockOwned
    <3>4. \A m \in Mutex : m # mtx[t] => lock'[m] = lock[m]
      BY <2>1 DEF TakeLock
    <3> QED BY <3>1, <3>2, <3>3, <3>4 DEF LockOwned, MutualExclusion
  <2>2. CASE Locked(t)
    <3>1. \A u \in TaskId, m \in Mutex : Holds(u, m)' <=> Holds(u, m)
      BY <2>2 DEF Locked, ControlOK, At, Goto, Holds
    <3> QED BY <1>1, <2>2, <3>1 DEF Locked
  <2>3. CASE \/ Schedule(t) \/ Arm(t) \/ Clear(t) \/ Desched(t) \/ Cancel(t)
             \/ ClearTimerEvent(t) \/ ReturnPlain(t) \/ ReturnMasked(t)
    <3>1. UNCHANGED mutexes /\ pc[t] # "locked"
          /\ \E l \in {"run", "wake", "clear", "desched", "cancel", "got",
                       "untimer", "arm", "try"} : Goto(t, l)
      BY <2>3 DEF Schedule, Arm, Clear, Desched, Cancel, ClearTimerEvent,
                  ReturnPlain, ReturnMasked, At
    <3> QED BY <1>1, <3>1 DEF mutexes, Goto, Holds
  <2>4. CASE Contend(t) \/ WakeWaiter(t) \/ Unlocked(t)
    BY <1>1, <2>4 DEF Contend, WakeWaiter, Unlocked, StartWait, mutexes, At,
                      Goto, Holds
  <2> QED BY <1>4, <2>1, <2>2, <2>3, <2>4 DEF Step
<1>5. ASSUME NEW t \in TaskId, NEW m \in Mutex, MutexUnlock(t, m)
      PROVE  LockOwned' /\ MutualExclusion'
  <2>1. \A u \in TaskId, n \in Mutex :
          Holds(u, n)' <=> Holds(u, n) /\ ~(u = t /\ n = m)
    BY <1>5 DEF MutexUnlock, At, Goto, Holds
  <2>2. \A u \in TaskId : Holds(u, m) => u = t
    BY <1>5 DEF MutexUnlock, Holds, MutualExclusion
  <2>3. lock'[m] = 0 /\ \A n \in Mutex : n # m => lock'[n] = lock[n]
    BY <1>5 DEF MutexUnlock
  <2> QED BY <2>1, <2>2, <2>3 DEF LockOwned, MutualExclusion
<1> QED BY <1>2, <1>3, <1>4, <1>5 DEF Next, Unlock

-----------------------------------------------------------------------------
(* Events and scheduling                                                   *)

LEMMA EventInit == Init => NoLostEvent /\ CurrentReady
BY DEF Init, NoLostEvent, CurrentReady

\* A ready bit is taken away only by Desched, which looks at the event word,
\* and only the running task, which is ready, writes to its own word.
LEMMA EventNext ==
  TypeOK /\ NoLostEvent /\ CurrentReady /\ [Next]_vars
    => NoLostEvent' /\ CurrentReady'
<1> SUFFICES ASSUME TypeOK, NoLostEvent, CurrentReady, [Next]_vars
             PROVE  NoLostEvent' /\ CurrentReady'
  OBVIOUS
<1>0. /\ current_task \in TaskId /\ tasks_ready \subseteq TaskId
      /\ tasks_enabled \subseteq TaskId /\ pc \in [TaskId -> PcValues]
      /\ events \in [TaskId -> SUBSET Events] /\ dest \in [TaskId -> TaskId]
      /\ to_wake \in [TaskId -> SUBSET TaskId]
  BY DEF TypeOK
<1> USE <1>0, IdleAndHooks DEF NoLostEvent, CurrentReady, At, Running, Goto
<1>1. CASE EnableAllTasks
  BY <1>1 DEF EnableAllTasks, svc_handler
<1>2. ASSUME NEW t \in TaskId, Call(t) PROVE NoLostEvent' /\ CurrentReady'
  <2>1. ASSUME NEW r \in TaskId, NEW e \in CustomEvents, SetEvent(t, r, e)
        PROVE  NoLostEvent' /\ CurrentReady'
    BY <2>1 DEF SetEvent, sched
  <2>2. ASSUME NEW u \in Disablable, EnableTask(t, u) \/ DisableTask(t, u)
        PROVE  NoLostEvent' /\ CurrentReady'
    BY <2>2 DEF EnableTask, DisableTask, sched
  <2>3. CASE task_wait_event(t) \/ usleep(t)
    BY <2>3 DEF task_wait_event, usleep, StartWait, sched
  <2>4. ASSUME NEW m \in Masks, task_wait_event_mask(t, m)
        PROVE  NoLostEvent' /\ CurrentReady'
    BY <2>4 DEF task_wait_event_mask, StartWait, sched
  <2>5. ASSUME NEW m \in Mutex, MutexLock(t, m)
        PROVE  NoLostEvent' /\ CurrentReady'
    BY <2>5 DEF MutexLock, sched
  <2> QED BY <1>2, <2>1, <2>2, <2>3, <2>4, <2>5 DEF Call
<1>3. ASSUME NEW t \in TaskId, Step(t) PROVE NoLostEvent' /\ CurrentReady'
  <2>1. CASE Schedule(t)
    BY <2>1 DEF Schedule, svc_handler
  <2>2. CASE Arm(t) \/ Cancel(t)
    BY <2>2 DEF Arm, Cancel, sched
  <2>3. CASE Clear(t) \/ ClearTimerEvent(t) \/ ReturnPlain(t)
    BY <2>3 DEF Clear, ClearTimerEvent, ReturnPlain, sched
  <2>4. CASE Desched(t)
    BY <2>4 DEF Desched, svc_handler
  <2>5. CASE ReturnMasked(t)
    BY <2>5 DEF ReturnMasked, sched
  <2>6. CASE TakeLock(t) \/ Locked(t) \/ Unlocked(t)
    BY <2>6 DEF TakeLock, Locked, Unlocked, sched
  <2>7. CASE Contend(t)
    BY <2>7 DEF Contend, StartWait, sched
  <2>8. CASE WakeWaiter(t)
    BY <2>8 DEF WakeWaiter, sched
  <2> QED BY <1>3, <2>1, <2>2, <2>3, <2>4, <2>5, <2>6, <2>7, <2>8 DEF Step
<1>4. ASSUME NEW t \in TaskId, Unlock(t) PROVE NoLostEvent' /\ CurrentReady'
  BY <1>4 DEF Unlock, MutexUnlock, sched
<1>5. CASE Interrupt
  <2>1. CASE IrqEnter
    BY <2>1 DEF IrqEnter
  <2>2. ASSUME NEW r \in TaskId, NEW e \in Events, IrqPost(r, e)
        PROVE  NoLostEvent' /\ CurrentReady'
    BY <2>2 DEF IrqPost
  <2>3. CASE IrqExit
    BY <2>3 DEF IrqExit, IrqReturn, task_resched_if_needed, svc_handler
  <2> QED BY <1>5, <2>1, <2>2, <2>3, TasksAssumption
          DEF Interrupt, IrqSetEvent, expire_timer, Events, TasksAssumption
<1>6. CASE UNCHANGED vars
  BY <1>6 DEF vars, sched, irq
<1> QED BY <1>1, <1>2, <1>3, <1>4, <1>5, <1>6 DEF Next
LEMMA PriorityInit == Init => HighestUnlessDue
BY TasksAssumption
   DEF Init, HighestUnlessDue, ReschedDue, TASK_ID_IDLE, TASK_ID_HOOKS

\* What makes a task ready either is the scheduler or asks for it to run.
LEMMA PriorityNext ==
  TypeOK /\ HighestUnlessDue /\ [Next]_vars => HighestUnlessDue'
<1> SUFFICES ASSUME TypeOK, HighestUnlessDue, [Next]_vars
             PROVE  HighestUnlessDue'
  OBVIOUS
<1> USE TasksAssumption DEF TypeOK, HighestUnlessDue, ReschedDue
<1>2. CASE EnableAllTasks
  BY <1>2 DEF EnableAllTasks, svc_handler, IsHighest, irq
<1>3. ASSUME NEW t \in TaskId, Call(t) PROVE HighestUnlessDue'
  BY <1>3 DEF Call, SetEvent, EnableTask, DisableTask, task_wait_event,
              usleep, task_wait_event_mask, MutexLock, StartWait, sched, irq
<1>4. ASSUME NEW t \in TaskId, Step(t) PROVE HighestUnlessDue'
  <2>1. CASE Schedule(t)
    BY <2>1 DEF Schedule, svc_handler, IsHighest, irq
  <2>2. CASE Desched(t)
    BY <2>2 DEF Desched, svc_handler, IsHighest, irq
  <2>3. CASE ~(Schedule(t) \/ Desched(t))
    <3>1. UNCHANGED <<sched, tasks_enabled>>
      BY <1>4, <2>3
         DEF Step, Arm, Clear, Cancel, ClearTimerEvent, ReturnPlain,
             ReturnMasked, TakeLock, Contend, StartWait, Locked, WakeWaiter,
             Unlocked
    <3> QED BY <3>1 DEF sched, irq
  <2> QED BY <2>1, <2>2, <2>3
<1>5. ASSUME NEW t \in TaskId, Unlock(t) PROVE HighestUnlessDue'
  BY <1>5 DEF Unlock, MutexUnlock, sched, irq
<1>6. CASE Interrupt
  <2>1. CASE IrqEnter
    BY <2>1 DEF IrqEnter
  <2>2. ASSUME NEW r \in TaskId, NEW e, IrqPost(r, e)
        PROVE  HighestUnlessDue'
    BY <2>2 DEF IrqPost, InHandler, irq
  <2>3. CASE task_resched_if_needed
    <3>1. CASE need_resched
      <4>1. /\ svc_handler(current_task, FALSE, TASK_ID_IDLE, tasks_enabled,
                           tasks_ready)
            /\ UNCHANGED <<tasks_enabled, leaving>>
        BY <2>3, <3>1 DEF task_resched_if_needed
      <4> QED BY <4>1 DEF svc_handler, IsHighest
    <3>2. CASE ~need_resched
      BY <2>3, <3>2 DEF task_resched_if_needed
    <3> QED BY <3>1, <3>2
  <2>4. CASE IrqReturn
    BY <2>4 DEF IrqReturn
  <2> QED BY <1>6, <2>1, <2>2, <2>3, <2>4
          DEF Interrupt, IrqExit, IrqSetEvent, expire_timer, TasksAssumption
<1>7. CASE UNCHANGED vars
  BY <1>7 DEF vars, sched, irq
<1> QED BY <1>2, <1>3, <1>4, <1>5, <1>6, <1>7 DEF Next

-----------------------------------------------------------------------------
(* Timers of waits, and the events waits take                              *)

LEMMA TimerInit == Init => TimerOK
BY DEF Init, TimerOK

\* Arm starts a timer only in a timed wait, which cancels the timer and then
\* clears its event before it returns.
LEMMA TimerNext ==
  TypeOK /\ ControlOK /\ TimerOK /\ [Next]_vars => TimerOK'
<1> SUFFICES ASSUME TypeOK, ControlOK, TimerOK, [Next]_vars PROVE TimerOK'
  OBVIOUS
<1>0. /\ pc \in [TaskId -> PcValues] /\ events \in [TaskId -> SUBSET Events]
      /\ mask \in [TaskId -> SUBSET Events] /\ timed \in [TaskId -> BOOLEAN]
      /\ evt \in [TaskId -> SUBSET Events]
      /\ collected \in [TaskId -> SUBSET Events]
      /\ mtx \in [TaskId -> Mutex \cup {NoMutex}]
      /\ timer_running \subseteq TaskId /\ to_wake \in [TaskId -> SUBSET TaskId]
      /\ owed \in [TaskId -> SUBSET CustomEvents]
  BY DEF TypeOK
<1> USE TasksAssumption, <1>0 DEF TimerOK, At, Goto
<1>1. CASE EnableAllTasks \/ UNCHANGED vars
  BY <1>1 DEF EnableAllTasks, vars, waits
<1>2. ASSUME NEW t \in TaskId, Call(t) PROVE TimerOK'
  <2>1. ASSUME NEW r \in TaskId, NEW e \in CustomEvents, SetEvent(t, r, e)
        PROVE  TimerOK'
    BY <2>1 DEF SetEvent, waits, TasksAssumption
  <2>2. ASSUME NEW u \in Disablable, EnableTask(t, u) \/ DisableTask(t, u)
        PROVE  TimerOK'
    BY <2>2 DEF EnableTask, DisableTask, waits
  <2>3. CASE task_wait_event(t)
    BY <2>3 DEF task_wait_event, StartWait
  <2>4. CASE usleep(t)
    BY <2>4 DEF usleep, StartWait
  <2>5. ASSUME NEW m \in Masks, task_wait_event_mask(t, m) PROVE TimerOK'
    BY <2>5 DEF task_wait_event_mask, StartWait
  <2>6. ASSUME NEW m \in Mutex, MutexLock(t, m) PROVE TimerOK'
    BY <2>6 DEF MutexLock, waits
  <2> QED BY <1>2, <2>1, <2>2, <2>3, <2>4, <2>5, <2>6 DEF Call
<1>3. ASSUME NEW t \in TaskId, Step(t) PROVE TimerOK'
  <2>1. CASE Schedule(t) \/ Desched(t)
    <3>1. CASE Schedule(t)
      BY <3>1 DEF Schedule, waits
    <3>2. CASE Desched(t)
      BY <3>2 DEF Desched, waits
    <3> QED BY <2>1, <3>1, <3>2
  <2>2. CASE Arm(t) \/ Cancel(t)
    BY <2>2 DEF Arm, Cancel, waits
  <2>3. CASE Clear(t)
    BY <2>3 DEF Clear
  <2>4. CASE ClearTimerEvent(t)
    BY <2>4 DEF ClearTimerEvent, waits
  <2>5. CASE ReturnPlain(t)
    BY <2>5 DEF ReturnPlain
  <2>6. CASE ReturnMasked(t)
    <3>1. t \notin timer_running /\ TIMER \notin events[t]
      BY <2>6 DEF ReturnMasked
    <3>2. TIMER \in mask[t]
      BY <2>6 DEF ReturnMasked, ControlOK
    <3>3. /\ TIMER \notin events'[t] /\ timer_running' = timer_running
          /\ \A u \in TaskId : u # t =>
               /\ events'[u] = events[u] /\ pc'[u] = pc[u]
               /\ timed'[u] = timed[u]
      BY <2>6, <3>1, <3>2 DEF ReturnMasked
    <3> QED BY <3>1, <3>3
  <2>7. CASE TakeLock(t) \/ Locked(t)
    BY <2>7 DEF TakeLock, Locked, waits
  <2>8. CASE Contend(t)
    BY <2>8 DEF Contend, StartWait
  <2>9. CASE WakeWaiter(t)
    BY <2>9 DEF WakeWaiter, waits, TIMER, MUTEX
  <2>10. CASE Unlocked(t)
    BY <2>10 DEF Unlocked, waits
  <2> QED BY <1>3, <2>1, <2>2, <2>3, <2>4, <2>5, <2>6, <2>7, <2>8, <2>9, <2>10
          DEF Step
<1>4. ASSUME NEW t \in TaskId, Unlock(t) PROVE TimerOK'
  BY <1>4 DEF Unlock, MutexUnlock, waits
<1>5. CASE Interrupt
  <2>1. CASE IrqEnter \/ IrqExit
    BY <2>1 DEF IrqEnter, IrqExit, IrqReturn, task_resched_if_needed,
                waits
  <2>2. ASSUME NEW r \in TaskId, NEW e \in CustomEvents, IrqSetEvent(r, e)
        PROVE  TimerOK'
    BY <2>2 DEF IrqSetEvent, IrqPost, waits, TasksAssumption
  <2>3. ASSUME NEW r \in TaskId, expire_timer(r) PROVE TimerOK'
    BY <2>3 DEF expire_timer, IrqPost, waits
  <2> QED BY <1>5, <2>1, <2>2, <2>3 DEF Interrupt, TasksAssumption
<1> QED BY <1>1, <1>2, <1>3, <1>4, <1>5 DEF Next

LEMMA ConservedInit == Init => EventsConserved
BY DEF Init, EventsConserved

\* An event leaves the word only for a local of the wait, and a local only for
\* the caller or for the word.
LEMMA ConservedNext ==
  TypeOK /\ ControlOK /\ EventsConserved /\ [Next]_vars => EventsConserved'
<1> SUFFICES ASSUME TypeOK, ControlOK, EventsConserved, [Next]_vars
             PROVE  EventsConserved'
  OBVIOUS
<1>0. /\ pc \in [TaskId -> PcValues] /\ events \in [TaskId -> SUBSET Events]
      /\ mask \in [TaskId -> SUBSET Events] /\ timed \in [TaskId -> BOOLEAN]
      /\ evt \in [TaskId -> SUBSET Events]
      /\ collected \in [TaskId -> SUBSET Events]
      /\ mtx \in [TaskId -> Mutex \cup {NoMutex}]
      /\ timer_running \subseteq TaskId /\ to_wake \in [TaskId -> SUBSET TaskId]
      /\ owed \in [TaskId -> SUBSET CustomEvents]
  BY DEF TypeOK
<1> USE TasksAssumption, <1>0 DEF EventsConserved, At, Goto
<1>1. CASE EnableAllTasks \/ UNCHANGED vars
  BY <1>1 DEF EnableAllTasks, vars, waits
<1>2. ASSUME NEW t \in TaskId, Call(t) PROVE EventsConserved'
  <2>1. ASSUME NEW r \in TaskId, NEW e \in CustomEvents, SetEvent(t, r, e)
        PROVE  EventsConserved'
    BY <2>1 DEF SetEvent, waits
  <2>2. CASE ~\E r \in TaskId, e \in CustomEvents : SetEvent(t, r, e)
    <3>1. collected[t] = {} /\ pc[t] = "run"
      BY <1>2, <2>2 DEF Call, EnableTask, DisableTask, task_wait_event, usleep,
                        task_wait_event_mask, MutexLock, ControlOK, Waiting
    <3>2. /\ UNCHANGED <<events, owed, evt>>
          /\ collected' = collected
             \/ collected' = [collected EXCEPT ![t] = {}]
      BY <1>2, <2>2 DEF Call, EnableTask, DisableTask, task_wait_event, usleep,
                        task_wait_event_mask, MutexLock, StartWait, waits
    <3> QED BY <3>1, <3>2
  <2> QED BY <2>1, <2>2
<1>3. ASSUME NEW t \in TaskId, Step(t) PROVE EventsConserved'
  <2>1. CASE \/ Schedule(t) \/ Desched(t) \/ Arm(t) \/ Cancel(t)
             \/ TakeLock(t) \/ Locked(t)
    BY <2>1 DEF Schedule, Desched, Arm, Cancel, TakeLock, Locked, waits
  <2>2. CASE Clear(t)
    BY <2>2 DEF Clear, ControlOK
  <2>3. CASE ClearTimerEvent(t) \/ Unlocked(t)
    BY <2>3 DEF ClearTimerEvent, Unlocked, waits, TasksAssumption
  <2>4. CASE ReturnPlain(t)
    BY <2>4 DEF ReturnPlain
  <2>5. CASE ReturnMasked(t)
    <3>1. \A u \in TaskId : u # t =>
            /\ events'[u] = events[u] /\ owed'[u] = owed[u]
            /\ evt'[u] = evt[u] /\ collected'[u] = collected[u]
      BY <2>5 DEF ReturnMasked
    <3>2. owed'[t] \subseteq events'[t] \cup collected'[t]
      BY <2>5 DEF ReturnMasked
    <3> QED BY <3>1, <3>2
  <2>6. CASE Contend(t)
    <3>1. collected[t] = {}
      BY <2>6 DEF Contend, ControlOK, Waiting
    <3> QED BY <2>6, <3>1 DEF Contend, StartWait
  <2>7. CASE WakeWaiter(t)
    BY <2>7 DEF WakeWaiter, waits
  <2> QED BY <1>3, <2>1, <2>2, <2>3, <2>4, <2>5, <2>6, <2>7 DEF Step
<1>4. ASSUME NEW t \in TaskId, Unlock(t) PROVE EventsConserved'
  BY <1>4 DEF Unlock, MutexUnlock, waits
<1>5. CASE Interrupt
  <2>1. CASE IrqEnter \/ IrqExit
    BY <2>1 DEF IrqEnter, IrqExit, IrqReturn, task_resched_if_needed,
                waits
  <2>2. ASSUME NEW r \in TaskId, NEW e \in CustomEvents, IrqSetEvent(r, e)
        PROVE  EventsConserved'
    BY <2>2 DEF IrqSetEvent, IrqPost, waits, TasksAssumption
  <2>3. ASSUME NEW r \in TaskId, expire_timer(r) PROVE EventsConserved'
    BY <2>3 DEF expire_timer, IrqPost, waits
  <2> QED BY <1>5, <2>1, <2>2, <2>3 DEF Interrupt, TasksAssumption
<1> QED BY <1>1, <1>2, <1>3, <1>4, <1>5 DEF Next
-----------------------------------------------------------------------------
(* Wake-ups of mutex_lock()                                                *)

LEMMA WaitersInit == Init => WaitersOK
BY DEF Init, WaitersOK

\* The wake-up of a waiter passes from the owner to the snapshot taken by
\* MutexUnlock, from there to the event WakeWaiter sends, and from the event
\* word, once the waiter is ready, to the waiter.
LEMMA WaitersNext ==
  TypeOK /\ ControlOK /\ LockOwned /\ CurrentReady /\ WaitersOK
    /\ [Next]_vars => WaitersOK'
<1> SUFFICES ASSUME TypeOK, ControlOK, LockOwned, CurrentReady, WaitersOK,
                    [Next]_vars
             PROVE  WaitersOK'
  OBVIOUS
<1>0. /\ tasks_ready \subseteq TaskId /\ pc \in [TaskId -> PcValues]
      /\ events \in [TaskId -> SUBSET Events] /\ dest \in [TaskId -> TaskId]
      /\ evt \in [TaskId -> SUBSET Events] /\ lock \in [Mutex -> {0, 2}]
      /\ waiters \in [Mutex -> SUBSET TaskId]
      /\ to_wake \in [TaskId -> SUBSET TaskId]
      /\ mtx \in [TaskId -> Mutex \cup {NoMutex}] /\ NoMutex \notin Mutex
      /\ held \in [TaskId -> SUBSET Mutex] /\ mask \in [TaskId -> SUBSET Events]
      /\ timed \in [TaskId -> BOOLEAN]
  BY TasksAssumption DEF TypeOK, TasksAssumption
<1> USE <1>0 DEF At, Running, Goto
<1>1. CASE EnableAllTasks \/ UNCHANGED vars
  BY <1>1 DEF EnableAllTasks, svc_handler, vars, sched, mutexes, waits,
              WaitersOK, WakeupDue, Holds
<1>2. ASSUME NEW t \in TaskId, Call(t) PROVE WaitersOK'
  <2>1. ASSUME NEW r \in TaskId, NEW e \in CustomEvents, SetEvent(t, r, e)
        PROVE  WaitersOK'
    BY <2>1 DEF SetEvent, sched, mutexes, waits, WaitersOK, WakeupDue, Holds,
                Waiting, ControlOK
  <2>2. ASSUME NEW u \in Disablable, EnableTask(t, u) \/ DisableTask(t, u)
        PROVE  WaitersOK'
    BY <2>2 DEF EnableTask, DisableTask, sched, mutexes, waits, WaitersOK,
                WakeupDue, Holds, Waiting, ControlOK
  <2>3. CASE \/ task_wait_event(t) \/ usleep(t)
             \/ \E m \in Masks : task_wait_event_mask(t, m)
    <3>1. /\ mtx[t] = NoMutex /\ pc[t] = "run" /\ Goto(t, "arm")
          /\ UNCHANGED <<tasks_ready, mutexes, evt, events, dest>>
      BY <2>3 DEF task_wait_event, usleep, task_wait_event_mask, StartWait,
                  sched, ControlOK
    <3> QED BY <3>1 DEF mutexes, WaitersOK, WakeupDue, Holds, Waiting
  <2>4. ASSUME NEW m \in Mutex, MutexLock(t, m) PROVE WaitersOK'
    BY <2>4 DEF MutexLock, sched, waits, WaitersOK, WakeupDue, Holds, Waiting,
                ControlOK
  <2> QED BY <1>2, <2>1, <2>2, <2>3, <2>4 DEF Call
<1>3. ASSUME NEW t \in TaskId, Step(t) PROVE WaitersOK'
  <2>1. CASE Schedule(t)
    <3>1. /\ pc[t] = "svc" /\ dest[t] \in tasks_ready'
          /\ tasks_ready \subseteq tasks_ready'
          /\ pc' = [pc EXCEPT ![t] = IF mtx[t] = NoMutex THEN "run" ELSE "wake"]
          /\ dest' = [dest EXCEPT ![t] = TASK_ID_IDLE]
          /\ UNCHANGED <<mutexes, waits, events>>
      BY <2>1 DEF Schedule, svc_handler
    <3>2. ASSUME NEW w \in TaskId, mtx[w] # NoMutex, WakeupDue(w)
          PROVE  WakeupDue(w)' \/ (MUTEX \in events[w] /\ w \in tasks_ready')
      BY <3>1, <3>2 DEF WakeupDue, Holds, mutexes
    <3>3. ASSUME NEW w \in TaskId, mtx[w] # NoMutex, pc'[w] \in Waiting
          PROVE  pc[w] = pc'[w] /\ w \in TaskId
      BY <3>1, <3>3 DEF Waiting
    <3>4. ASSUME NEW w \in TaskId, mtx[w] # NoMutex,
                 pc'[w] \in Waiting \cup {"try"}
          PROVE  w \in waiters[mtx[w]]
      BY <3>1, <3>4 DEF WaitersOK, Waiting
    <3> QED BY <3>1, <3>2, <3>3, <3>4 DEF WaitersOK, mutexes, waits
  <2>2. CASE Arm(t) \/ Cancel(t)
    BY <2>2 DEF Arm, Cancel, sched, mutexes, waits, WaitersOK, WakeupDue,
                Holds, Waiting, ControlOK
  <2>3. CASE Clear(t)
    BY <2>3 DEF Clear, sched, mutexes, WaitersOK, WakeupDue, Holds, Waiting,
                ControlOK
  <2>4. CASE Desched(t)
    BY <2>4 DEF Desched, svc_handler, mutexes, waits, WaitersOK, WakeupDue,
                Holds, Waiting
  <2>5. CASE ClearTimerEvent(t)
    BY <2>5 DEF ClearTimerEvent, sched, mutexes, waits, WaitersOK, WakeupDue,
                Holds, Waiting, ControlOK, TIMER, MUTEX
  <2>6. CASE ReturnPlain(t)
    BY <2>6 DEF ReturnPlain, sched, mutexes, WaitersOK, WakeupDue, Holds,
                Waiting, ControlOK
  <2>7. CASE ReturnMasked(t)
    <3>1. /\ pc[t] = "got" /\ evt' = [evt EXCEPT ![t] = {}]
          /\ UNCHANGED <<tasks_ready, mutexes, dest>>
      BY <2>7 DEF ReturnMasked, sched
    <3>2. \A u \in TaskId : events[u] \subseteq events'[u]
      BY <2>7 DEF ReturnMasked
    <3>3. \/ Goto(t, "arm") /\ (mtx[t] # NoMutex => MUTEX \notin evt[t])
          \/ Goto(t, "run") /\ mtx[t] = NoMutex
          \/ Goto(t, "try")
      BY <2>7 DEF ReturnMasked, ControlOK, Waiting
    <3> QED BY <3>1, <3>2, <3>3
       DEF mutexes, WaitersOK, WakeupDue, Holds, Waiting
  <2>8. CASE TakeLock(t)
    BY <2>8 DEF TakeLock, sched, waits, WaitersOK, WakeupDue, Holds, Waiting
  <2>9. CASE Contend(t)
    BY <2>9 DEF Contend, StartWait, sched, mutexes, WaitersOK, WakeupDue,
                Holds, Waiting, LockOwned, ControlOK
  <2>10. CASE Locked(t)
    BY <2>10 DEF Locked, sched, waits, WaitersOK, WakeupDue, Holds, Waiting,
                 ControlOK
  <2>11. CASE WakeWaiter(t)
    BY <2>11 DEF WakeWaiter, sched, waits, WaitersOK, WakeupDue, Holds,
                 Waiting, ControlOK
  <2>12. CASE Unlocked(t)
    BY <2>12 DEF Unlocked, sched, waits, WaitersOK, WakeupDue, Holds, Waiting,
                 ControlOK
  <2> QED BY <1>3, <2>1, <2>2, <2>3, <2>4, <2>5, <2>6, <2>7, <2>8, <2>9,
             <2>10, <2>11, <2>12 DEF Step
<1>4. ASSUME NEW t \in TaskId, NEW m \in Mutex, MutexUnlock(t, m)
      PROVE  WaitersOK'
  BY <1>4 DEF MutexUnlock, sched, waits, WaitersOK, WakeupDue, Holds, Waiting,
              ControlOK
<1>5. CASE Interrupt
  <2>1. CASE IrqEnter
    BY <2>1 DEF IrqEnter, mutexes, waits, WaitersOK, WakeupDue, Holds
  <2>2. ASSUME NEW r \in TaskId, NEW e, IrqPost(r, e) PROVE WaitersOK'
    <3>1. /\ UNCHANGED <<mutexes, waits, pc, dest>>
          /\ \A t \in TaskId : events[t] \subseteq events'[t]
          /\ tasks_ready \subseteq tasks_ready'
      BY <2>2 DEF IrqPost
    <3> QED BY <3>1 DEF mutexes, waits, WaitersOK, WakeupDue, Holds
  <2>3. CASE IrqExit
    <3>1. /\ UNCHANGED <<mutexes, waits, events, pc, dest>>
          /\ tasks_ready \subseteq tasks_ready'
      BY <2>3 DEF IrqExit, IrqReturn, task_resched_if_needed, svc_handler
    <3> QED BY <3>1 DEF mutexes, waits, WaitersOK, WakeupDue, Holds
  <2> QED BY <1>5, <2>1, <2>2, <2>3, TasksAssumption
          DEF Interrupt, IrqSetEvent, expire_timer, TasksAssumption
<1> QED BY <1>1, <1>2, <1>3, <1>4, <1>5 DEF Next, Unlock

-----------------------------------------------------------------------------
(* The theorems                                                            *)

\* The inductive invariant of the runtime.
IInv ==
  /\ TypeOK /\ ControlOK
  /\ LockOwned /\ MutualExclusion
  /\ NoLostEvent /\ CurrentReady /\ HighestUnlessDue
  /\ TimerOK /\ EventsConserved
  /\ WaitersOK

\* Every reachable state of the runtime satisfies the inductive invariant.
THEOREM Invariance == Spec => []IInv
<1>1. Init => IInv
  BY TypeInit, ControlInit, LockInit, EventInit, PriorityInit, TimerInit,
     ConservedInit, WaitersInit DEF IInv
<1>2. IInv /\ [Next]_vars => IInv'
  BY TypeNext, ControlNext, LockNext, EventNext, PriorityNext, TimerNext,
     ConservedNext, WaitersNext DEF IInv
<1> QED BY <1>1, <1>2, PTL DEF Spec

\* Type correctness: in particular the lock word is never the 1 that the code
\* of mutex_lock() reserves for a failed exclusive store.
THEOREM TypeCorrect == Spec => []TypeOK
<1>1. IInv => TypeOK
  BY DEF IInv
<1> QED BY <1>1, Invariance, PTL

\* mutex_lock() and mutex_unlock() provide mutual exclusion between any number
\* of tasks, preempted by any interrupts.
THEOREM MutexSafe == Spec => []MutualExclusion
<1>1. IInv => MutualExclusion
  BY DEF IInv
<1> QED BY <1>1, Invariance, PTL

\* No wake-up of mutex_lock() is lost, however unlocks, preemptions, other
\* events and stale snapshots interleave.
THEOREM MutexWakes == Spec => []NoLostWakeup
<1>1. IInv => NoLostWakeup
  <2> SUFFICES ASSUME IInv, NEW t \in TaskId, AsleepInLock(t)
               PROVE  WakeupDue(t)
    BY DEF NoLostWakeup, WakeupDue
  <2> QED BY DEF IInv, WaitersOK, AsleepInLock, Waiting
<1> QED BY <1>1, Invariance, PTL

\* A task with a pending event is ready or about to be made so: sleeping in
\* task_wait_event() never overlooks an event.
THEOREM EventsWake == Spec => []NoLostEvent
<1>1. IInv => NoLostEvent
  BY DEF IInv
<1> QED BY <1>1, Invariance, PTL

\* Waits for a mutex, for time or for chosen events lose no other event.
THEOREM EventsKept == Spec => []EventsConserved
<1>1. IInv => EventsConserved
  BY DEF IInv
<1> QED BY <1>1, Invariance, PTL

\* No timer and no timer event outlives the wait it was armed for.
THEOREM TimersCleared == Spec => []NoStaleTimer
<1>1. IInv => NoStaleTimer
  BY DEF IInv, TimerOK, NoStaleTimer
<1> QED BY <1>1, Invariance, PTL

\* Outside handlers the running task has the highest priority, or need_resched
\* is still set for the one that a nested handler made ready.
THEOREM PriorityRespected == Spec => []HighestPriorityRuns
<1>1. IInv => HighestPriorityRuns
  BY DEF IInv, HighestUnlessDue, ReschedDue, HighestPriorityRuns
<1> QED BY <1>1, Invariance, PTL
=============================================================================
