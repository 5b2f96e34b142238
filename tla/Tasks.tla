------------------------------- MODULE Tasks -------------------------------
(***************************************************************************)
(* The task runtime of core/cortex-m/task.c: the fixed-priority scheduler, *)
(* the event words, the blocking waits built on them and the mutexes.      *)
(*                                                                         *)
(* One step is one atomic access of the code to shared memory (an          *)
(* atomic_or, an exclusive load/store pair, a section under                *)
(* interrupt_disable) or one SVC, which runs with interrupts masked.  Only *)
(* the current task takes steps, and only outside interrupt handlers;      *)
(* interrupts preempt it between any two steps and may nest.  What the     *)
(* tasks do between two calls of the runtime is arbitrary: `Calls' says    *)
(* which of its functions each task uses.                                  *)
(*                                                                         *)
(* Time is abstract: the interrupt of the timer module may expire any      *)
(* running timer at any moment (Timer.tla has the deadlines).  A local     *)
(* variable of the code is reset when it goes out of scope.                *)
(***************************************************************************)
EXTENDS Naturals, FiniteSets

CONSTANTS
  TASK_ID_COUNT,  \* number of tasks, the idle task included
  Mutex,          \* the mutexes of the system
  CustomEvents,   \* the task-specific events that tasks and handlers send
  Calls,          \* Calls[t]: the runtime functions task t uses
  Masks,          \* the sets of custom events tasks wait for selectively
  Disablable,     \* tasks some task disables or enables at run time
  IrqReceivers,   \* tasks the interrupt handlers send events to
  IRQ_NEST,       \* bound: depth of interrupt nesting
  TASK_PROFILING, \* is CONFIG_TASK_PROFILING defined?
  NoMutex         \* no mutex operation under way

TaskId == 0 .. TASK_ID_COUNT - 1
TASK_ID_IDLE == 0
TASK_ID_HOOKS == 1

TIMER == "TASK_EVENT_TIMER"
MUTEX == "TASK_EVENT_MUTEX"
Events == CustomEvents \cup {TIMER, MUTEX}

Functions_ ==
  {"set", "wait", "wait_timed", "mask", "mask_timed", "usleep", "mutex",
   "enable"}

ASSUME TasksAssumption ==
  /\ TASK_ID_COUNT \in Nat /\ TASK_ID_COUNT >= 2
  /\ TIMER \notin CustomEvents /\ MUTEX \notin CustomEvents
  /\ Calls \in [TaskId -> SUBSET Functions_] /\ Calls[TASK_ID_IDLE] = {}
  /\ Masks \subseteq SUBSET CustomEvents
  /\ Disablable \subseteq TaskId \ {TASK_ID_IDLE}
  /\ IrqReceivers \subseteq TaskId \ {TASK_ID_IDLE}
  /\ IRQ_NEST \in Nat
  /\ TASK_PROFILING \in BOOLEAN
  /\ NoMutex \notin Mutex

VARIABLES
  \* the globals of the scheduler
  current_task, tasks_ready, tasks_enabled, need_resched, irq_depth,
  leaving,        \* the outermost handler found need_resched clear and returns
  booted,         \* task_enable_all_tasks() was called
  events,         \* tasks[t].events
  timer_running,  \* the timers armed and not expired
  lock, waiters,  \* the two words of each mutex
  \* where each task is in the runtime, and its locals there
  pc,
  dest,           \* task_set_event: the receiver still to be made ready
  evt,            \* __wait_evt: the word taken by atomic_clear
  collected,      \* task_wait_event_mask, usleep: `events', `evt'
  mask,           \* event_mask with TIMER, {} in a plain task_wait_event
  timed,          \* timeout_us > 0
  mtx,            \* the operand of mutex_lock or mutex_unlock under way
  to_wake,        \* mutex_unlock: the snapshot of waiters still to be woken
  held,           \* the mutexes the task's own code holds
  owed            \* history: custom events sent and not yet returned

irq == <<irq_depth, leaving>>
sched == <<current_task, tasks_ready, need_resched, irq>>
mutexes == <<lock, waiters, mtx, to_wake, held>>
waits == <<evt, collected, mask, timed>>
vars == <<sched, mutexes, waits, tasks_enabled, booted, events,
          timer_running, pc, dest, owed>>

PcValues == {"run", "svc", "arm", "clear", "desched", "cancel", "untimer",
             "got", "try", "locked", "wake"}

TypeOK ==
  /\ current_task \in TaskId
  /\ tasks_ready \subseteq TaskId /\ tasks_enabled \subseteq TaskId
  /\ need_resched \in BOOLEAN /\ irq_depth \in 0 .. IRQ_NEST
  /\ leaving \in BOOLEAN
  /\ booted \in BOOLEAN
  /\ events \in [TaskId -> SUBSET Events]
  /\ timer_running \subseteq TaskId
  /\ lock \in [Mutex -> {0, 2}] /\ waiters \in [Mutex -> SUBSET TaskId]
  /\ pc \in [TaskId -> PcValues]
  /\ dest \in [TaskId -> TaskId]
  /\ evt \in [TaskId -> SUBSET Events]
  /\ collected \in [TaskId -> SUBSET Events]
  /\ mask \in [TaskId -> SUBSET Events]
  /\ timed \in [TaskId -> BOOLEAN]
  /\ mtx \in [TaskId -> Mutex \cup {NoMutex}]
  /\ to_wake \in [TaskId -> SUBSET TaskId]
  /\ held \in [TaskId -> SUBSET Mutex]
  /\ owed \in [TaskId -> SUBSET CustomEvents]

\* The state in which the hook task starts: __task_start() has made the first
\* __schedule(0, 0), which also marked the idle task ready.
Init ==
  /\ current_task = TASK_ID_HOOKS
  /\ tasks_ready = {TASK_ID_HOOKS, TASK_ID_IDLE}
  /\ tasks_enabled = {TASK_ID_HOOKS, TASK_ID_IDLE}
  /\ need_resched = TASK_PROFILING /\ irq_depth = 0 /\ leaving = FALSE
  /\ booted = FALSE
  /\ events = [t \in TaskId |-> {}]
  /\ timer_running = {}
  /\ lock = [m \in Mutex |-> 0] /\ waiters = [m \in Mutex |-> {}]
  /\ pc = [t \in TaskId |-> "run"]
  /\ dest = [t \in TaskId |-> TASK_ID_IDLE]
  /\ evt = [t \in TaskId |-> {}] /\ collected = [t \in TaskId |-> {}]
  /\ mask = [t \in TaskId |-> {}] /\ timed = [t \in TaskId |-> FALSE]
  /\ mtx = [t \in TaskId |-> NoMutex]
  /\ to_wake = [t \in TaskId |-> {}]
  /\ held = [t \in TaskId |-> {}] /\ owed = [t \in TaskId |-> {}]

-----------------------------------------------------------------------------
(* The scheduler                                                           *)

\* __fls(): the most significant bit set in S.
IsHighest(t, S) == t \in S /\ \A u \in S : u <= t

\* Mutant of svc_handler: the ready bit is taken away without a second look at
\* the event word.
svc_handler_blind(t, desched, resched, enabled, ready) ==
  LET now_ready == (IF desched THEN ready \ {t} ELSE ready) \cup {resched}
  IN  /\ tasks_ready' = now_ready
      /\ \E next \in now_ready \cap enabled :
           /\ IsHighest(next, now_ready \cap enabled)
           /\ current_task' = next
      /\ need_resched' = TASK_PROFILING

\* svc_handler(desched, resched), run by task t or at the exit of a handler.
svc_handler(t, desched, resched, enabled, ready) ==
  LET left == IF desched /\ events[t] = {} THEN ready \ {t} ELSE ready
      now_ready == left \cup {resched}
  IN  /\ tasks_ready' = now_ready
      /\ \E next \in now_ready \cap enabled :
           /\ IsHighest(next, now_ready \cap enabled)
           /\ current_task' = next
      /\ need_resched' = TASK_PROFILING

\* Task t executes the next instruction of its own or of the runtime's code.
Running(t) == irq_depth = 0 /\ current_task = t

At(t, label) == Running(t) /\ pc[t] = label

Goto(t, label) == pc' = [pc EXCEPT ![t] = label]

-----------------------------------------------------------------------------
(* task_set_event() and the calls that enable and disable tasks            *)

\* Task t sets event e for task r: the atomic_or on the receiver's word.
SetEvent(t, r, e) ==
  /\ At(t, "run") /\ "set" \in Calls[t]
  /\ events' = [events EXCEPT ![r] = @ \cup {e}]
  /\ owed' = [owed EXCEPT ![r] = @ \cup {e}]
  /\ dest' = [dest EXCEPT ![t] = r]
  /\ Goto(t, "svc")
  /\ UNCHANGED <<sched, mutexes, waits, tasks_enabled, booted, timer_running>>

\* __schedule(0, tskid), then back to mutex_unlock's loop or to the caller.
Schedule(t) ==
  /\ At(t, "svc")
  /\ svc_handler(t, FALSE, dest[t], tasks_enabled, tasks_ready)
  /\ dest' = [dest EXCEPT ![t] = TASK_ID_IDLE]
  /\ Goto(t, IF mtx[t] = NoMutex THEN "run" ELSE "wake")
  /\ UNCHANGED <<irq, mutexes, waits, tasks_enabled, booted, events,
                 timer_running, owed>>

\* The hook task has called the HOOK_INIT hooks: task_enable_all_tasks().
EnableAllTasks ==
  /\ At(TASK_ID_HOOKS, "run") /\ ~booted
  /\ booted' = TRUE
  /\ tasks_enabled' = TaskId
  /\ svc_handler(TASK_ID_HOOKS, FALSE, TASK_ID_IDLE, TaskId, TaskId)
  /\ UNCHANGED <<irq, mutexes, waits, events, timer_running, pc, dest,
                 owed>>

\* task_enable_task(): no rescheduling.
EnableTask(t, u) ==
  /\ At(t, "run") /\ "enable" \in Calls[t] /\ booted
  /\ tasks_enabled' = tasks_enabled \cup {u}
  /\ UNCHANGED <<sched, mutexes, waits, booted, events, timer_running, pc,
                 dest, owed>>

\* task_disable_task(): reschedules only when a task disables itself.
DisableTask(t, u) ==
  /\ At(t, "run") /\ "enable" \in Calls[t] /\ booted
  /\ tasks_enabled' = tasks_enabled \ {u}
  /\ IF u = t
     THEN Goto(t, "svc") /\ dest' = [dest EXCEPT ![t] = TASK_ID_IDLE]
     ELSE UNCHANGED <<pc, dest>>
  /\ UNCHANGED <<sched, mutexes, waits, booted, events, timer_running, owed>>

-----------------------------------------------------------------------------
(* __wait_evt() and its callers                                            *)

\* The entry of task_wait_event (m = {}), of task_wait_event_mask (m holds
\* TIMER too) or of usleep (m = {TIMER}).
StartWait(t, m, timeout) ==
  /\ mask' = [mask EXCEPT ![t] = m]
  /\ timed' = [timed EXCEPT ![t] = timeout]
  /\ collected' = [collected EXCEPT ![t] = {}]
  /\ Goto(t, "arm")
  /\ UNCHANGED <<sched, evt, tasks_enabled, booted, events, timer_running,
                 dest, owed>>

task_wait_event(t) ==
  /\ At(t, "run")
  /\ \/ "wait" \in Calls[t] /\ StartWait(t, {}, FALSE)
     \/ "wait_timed" \in Calls[t] /\ StartWait(t, {}, TRUE)
  /\ UNCHANGED mutexes

task_wait_event_mask(t, m) ==
  /\ At(t, "run")
  /\ \/ "mask" \in Calls[t] /\ StartWait(t, m \cup {TIMER}, FALSE)
     \/ "mask_timed" \in Calls[t] /\ StartWait(t, m \cup {TIMER}, TRUE)
  /\ UNCHANGED mutexes

usleep(t) ==
  /\ At(t, "run") /\ "usleep" \in Calls[t]
  /\ StartWait(t, {TIMER}, TRUE)
  /\ UNCHANGED mutexes

\* timer_arm(); the code asserts that it does not find the timer running.
Arm(t) ==
  /\ At(t, "arm")
  /\ timer_running' = IF timed[t] THEN timer_running \cup {t}
                                  ELSE timer_running
  /\ Goto(t, "clear")
  /\ UNCHANGED <<sched, mutexes, waits, tasks_enabled, booted, events, dest,
                 owed>>

\* evt = atomic_clear(&tsk->events)
Clear(t) ==
  /\ At(t, "clear")
  /\ evt' = [evt EXCEPT ![t] = events[t]]
  /\ events' = [events EXCEPT ![t] = {}]
  /\ Goto(t, IF events[t] = {} THEN "desched"
             ELSE IF timed[t] THEN "cancel" ELSE "got")
  /\ UNCHANGED <<sched, mutexes, collected, mask, timed, tasks_enabled,
                 booted, timer_running, dest, owed>>

\* __schedule(1, TASK_ID_IDLE): sleep unless an event came meanwhile.
Desched(t) ==
  /\ At(t, "desched")
  /\ svc_handler(t, TRUE, TASK_ID_IDLE, tasks_enabled, tasks_ready)
  /\ Goto(t, "clear")
  /\ UNCHANGED <<irq, mutexes, waits, tasks_enabled, booted, events,
                 timer_running, dest, owed>>

\* Mutant of Cancel: the timer is left for the interrupt to clean up.
Cancel_left(t) ==
  /\ At(t, "cancel")
  /\ Goto(t, "untimer")
  /\ UNCHANGED <<sched, mutexes, waits, tasks_enabled, booted, events,
                 timer_running, dest, owed>>

\* timer_cancel(me)
Cancel(t) ==
  /\ At(t, "cancel")
  /\ timer_running' = timer_running \ {t}
  /\ Goto(t, "untimer")
  /\ UNCHANGED <<sched, mutexes, waits, tasks_enabled, booted, events, dest,
                 owed>>

\* "Ensure timer event is clear, we no longer care about it"
ClearTimerEvent(t) ==
  /\ At(t, "untimer")
  /\ events' = [events EXCEPT ![t] = @ \ {TIMER}]
  /\ Goto(t, "got")
  /\ UNCHANGED <<sched, mutexes, waits, tasks_enabled, booted, timer_running,
                 dest, owed>>

\* The return of __wait_evt to task_wait_event, which returns the word.
ReturnPlain(t) ==
  /\ At(t, "got") /\ mask[t] = {}
  /\ owed' = [owed EXCEPT ![t] = @ \ evt[t]]
  /\ evt' = [evt EXCEPT ![t] = {}]
  /\ timed' = [timed EXCEPT ![t] = FALSE]
  /\ Goto(t, "run")
  /\ UNCHANGED <<sched, mutexes, collected, mask, tasks_enabled, booted,
                 events, timer_running, dest>>

\* Mutant of ReturnMasked: what the caller did not ask for is not re-posted.
ReturnMasked_drop(t) ==
  /\ At(t, "got") /\ mask[t] # {}
  /\ LET all == collected[t] \cup evt[t]
     IN  IF all \cap mask[t] = {}
         THEN /\ collected' = [collected EXCEPT ![t] = all] /\ Goto(t, "arm")
              /\ UNCHANGED <<mask, timed>>
         ELSE /\ collected' = [collected EXCEPT ![t] = {}]
              /\ mask' = [mask EXCEPT ![t] = {}]
              /\ timed' = [timed EXCEPT ![t] = FALSE]
              /\ Goto(t, IF mtx[t] = NoMutex THEN "run" ELSE "try")
  /\ evt' = [evt EXCEPT ![t] = {}]
  /\ UNCHANGED <<sched, mutexes, tasks_enabled, booted, events, timer_running,
                 dest, owed>>

\* The return of __wait_evt to the loop of task_wait_event_mask or usleep: if
\* the deadline has passed add TIMER; wait again, or re-post what the caller
\* did not ask for and return (to mutex_lock's loop when it called).
ReturnMasked(t) ==
  /\ At(t, "got") /\ mask[t] # {}
  /\ evt' = [evt EXCEPT ![t] = {}]
  /\ \E deadline_passed \in IF timed[t] THEN BOOLEAN ELSE {FALSE} :
       LET all == collected[t] \cup evt[t]
                    \cup (IF deadline_passed THEN {TIMER} ELSE {})
       IN  IF all \cap mask[t] = {}
           THEN /\ collected' = [collected EXCEPT ![t] = all]
                /\ Goto(t, "arm")
                /\ UNCHANGED <<events, owed, mask, timed>>
           ELSE /\ collected' = [collected EXCEPT ![t] = {}]
                /\ events' = [events EXCEPT ![t] = @ \cup (all \ mask[t])]
                /\ owed' = [owed EXCEPT ![t] = @ \ (all \cap mask[t])]
                /\ mask' = [mask EXCEPT ![t] = {}]
                /\ timed' = [timed EXCEPT ![t] = FALSE]
                /\ Goto(t, IF mtx[t] = NoMutex THEN "run" ELSE "try")
  /\ UNCHANGED <<sched, mutexes, tasks_enabled, booted, timer_running, dest>>

-----------------------------------------------------------------------------
(* mutex_lock() and mutex_unlock()                                         *)

\* Mutant of MutexLock: only a task that finds the mutex taken registers.
MutexLock_optimistic(t, m) ==
  /\ At(t, "run") /\ "mutex" \in Calls[t] /\ m \notin held[t]
  /\ mtx' = [mtx EXCEPT ![t] = m]
  /\ waiters' = [waiters EXCEPT ![m] = IF lock[m] = 0 THEN @ ELSE @ \cup {t}]
  /\ Goto(t, "try")
  /\ UNCHANGED <<sched, waits, tasks_enabled, booted, events, timer_running,
                 lock, to_wake, held, dest, owed>>

\* mutex_lock: atomic_or(&mtx->waiters, id)
MutexLock(t, m) ==
  /\ At(t, "run") /\ "mutex" \in Calls[t] /\ m \notin held[t]
  /\ mtx' = [mtx EXCEPT ![t] = m]
  /\ waiters' = [waiters EXCEPT ![m] = @ \cup {t}]
  /\ Goto(t, "try")
  /\ UNCHANGED <<sched, waits, tasks_enabled, booted, events, timer_running,
                 lock, to_wake, held, dest, owed>>

\* Mutant of TakeLock: a plain store in place of the exclusive one, which a
\* task that was preempted after its load makes although the lock is taken.
TakeLock_plain(t) ==
  /\ At(t, "try")
  /\ lock' = [lock EXCEPT ![mtx[t]] = 2]
  /\ Goto(t, "locked")
  /\ UNCHANGED <<sched, waits, tasks_enabled, booted, events, timer_running,
                 waiters, mtx, to_wake, held, dest, owed>>

\* Mutant of TakeLock: the value stored is 1, which the code reserves for a
\* failed store.
TakeLock_one(t) ==
  /\ At(t, "try") /\ lock[mtx[t]] = 0
  /\ lock' = [lock EXCEPT ![mtx[t]] = 1]
  /\ Goto(t, "locked")
  /\ UNCHANGED <<sched, waits, tasks_enabled, booted, events, timer_running,
                 waiters, mtx, to_wake, held, dest, owed>>

\* The exclusive store succeeds.
TakeLock(t) ==
  /\ At(t, "try") /\ lock[mtx[t]] = 0
  /\ lock' = [lock EXCEPT ![mtx[t]] = 2]
  /\ Goto(t, "locked")
  /\ UNCHANGED <<sched, waits, tasks_enabled, booted, events, timer_running,
                 waiters, mtx, to_wake, held, dest, owed>>

\* Somebody owns the mutex: task_wait_event_mask(TASK_EVENT_MUTEX, 0).
Contend(t) ==
  /\ At(t, "try") /\ lock[mtx[t]] # 0
  /\ StartWait(t, {MUTEX, TIMER}, FALSE)
  /\ UNCHANGED mutexes

\* atomic_clear_bits(&mtx->waiters, id), and mutex_lock returns.
Locked(t) ==
  /\ At(t, "locked")
  /\ waiters' = [waiters EXCEPT ![mtx[t]] = @ \ {t}]
  /\ held' = [held EXCEPT ![t] = @ \cup {mtx[t]}]
  /\ mtx' = [mtx EXCEPT ![t] = NoMutex]
  /\ Goto(t, "run")
  /\ UNCHANGED <<sched, waits, tasks_enabled, booted, events, timer_running,
                 lock, to_wake, dest, owed>>

\* mutex_unlock: its critical section snapshots the waiters and frees the lock.
MutexUnlock(t, m) ==
  /\ At(t, "run") /\ m \in held[t]
  /\ to_wake' = [to_wake EXCEPT ![t] = waiters[m]]
  /\ lock' = [lock EXCEPT ![m] = 0]
  /\ mtx' = [mtx EXCEPT ![t] = m]
  /\ held' = [held EXCEPT ![t] = @ \ {m}]
  /\ Goto(t, "wake")
  /\ UNCHANGED <<sched, waits, tasks_enabled, booted, events, timer_running,
                 waiters, dest, owed>>

\* Mutant of WakeWaiter: the waiter is made ready but not sent the event.
WakeWaiter_silent(t) ==
  /\ At(t, "wake")
  /\ \E id \in to_wake[t] :
       /\ to_wake' = [to_wake EXCEPT ![t] = @ \ {id}]
       /\ dest' = [dest EXCEPT ![t] = id]
  /\ Goto(t, "svc")
  /\ UNCHANGED <<sched, waits, tasks_enabled, booted, events, timer_running,
                 lock, waiters, mtx, held, owed>>

\* One turn of mutex_unlock's loop: task_set_event(id, TASK_EVENT_MUTEX).
WakeWaiter(t) ==
  /\ At(t, "wake")
  /\ \E id \in to_wake[t] :
       /\ IsHighest(id, to_wake[t])
       /\ to_wake' = [to_wake EXCEPT ![t] = @ \ {id}]
       /\ events' = [events EXCEPT ![id] = @ \cup {MUTEX}]
       /\ dest' = [dest EXCEPT ![t] = id]
  /\ Goto(t, "svc")
  /\ UNCHANGED <<sched, waits, tasks_enabled, booted, timer_running, lock,
                 waiters, mtx, held, owed>>

\* "Ensure no event is remaining from mutex wake-up", and mutex_unlock returns.
Unlocked(t) ==
  /\ At(t, "wake") /\ to_wake[t] = {}
  /\ events' = [events EXCEPT ![t] = @ \ {MUTEX}]
  /\ mtx' = [mtx EXCEPT ![t] = NoMutex]
  /\ Goto(t, "run")
  /\ UNCHANGED <<sched, waits, tasks_enabled, booted, timer_running, lock,
                 waiters, to_wake, held, dest, owed>>

-----------------------------------------------------------------------------
(* Interrupts                                                              *)

\* An interrupt, possibly nested in a handler of lower priority.
IrqEnter ==
  /\ irq_depth < IRQ_NEST
  /\ irq_depth' = irq_depth + 1
  /\ UNCHANGED <<current_task, tasks_ready, need_resched, leaving, mutexes,
                 waits, tasks_enabled, booted, events, timer_running, pc, dest,
                 owed>>

\* The code of some handler's routine runs.
InHandler == irq_depth > 1 \/ (irq_depth = 1 /\ ~leaving)

\* Mutant of IrqPost: the handler forgets to ask for a rescheduling.
IrqPost_quiet(r, e) ==
  /\ InHandler
  /\ events' = [events EXCEPT ![r] = @ \cup {e}]
  /\ tasks_ready' = tasks_ready \cup {r}
  /\ UNCHANGED <<current_task, need_resched, irq, mutexes, waits,
                 tasks_enabled, booted, pc, dest>>

\* task_set_event() in interrupt context.
IrqPost(r, e) ==
  /\ InHandler
  /\ events' = [events EXCEPT ![r] = @ \cup {e}]
  /\ tasks_ready' = tasks_ready \cup {r}
  /\ need_resched' = TRUE
  /\ UNCHANGED <<current_task, irq, mutexes, waits, tasks_enabled,
                 booted, pc, dest>>

IrqSetEvent(r, e) ==
  /\ IrqPost(r, e)
  /\ owed' = [owed EXCEPT ![r] = @ \cup {e}]
  /\ UNCHANGED timer_running

\* expire_timer(), called by process_timers() in the timer interrupt.
expire_timer(r) ==
  /\ r \in timer_running
  /\ timer_running' = timer_running \ {r}
  /\ IrqPost(r, TIMER)
  /\ UNCHANGED owed

\* task_resched_if_needed() at the end of the outermost handler: it loads
\* need_resched, and svc_handler() masks interrupts until the return.
task_resched_if_needed ==
  /\ irq_depth = 1 /\ ~leaving
  /\ IF need_resched
     THEN /\ irq_depth' = 0
          /\ svc_handler(current_task, FALSE, TASK_ID_IDLE, tasks_enabled,
                         tasks_ready)
          /\ UNCHANGED leaving
     ELSE /\ leaving' = TRUE
          /\ UNCHANGED <<current_task, tasks_ready, need_resched, irq_depth>>
  /\ UNCHANGED <<mutexes, waits, tasks_enabled, booted, events, timer_running,
                 pc, dest, owed>>

\* The exception return of a nested handler, which does not reschedule, or of
\* the outermost one when it found need_resched clear.
IrqReturn ==
  /\ irq_depth > 1 \/ (irq_depth = 1 /\ leaving)
  /\ irq_depth' = irq_depth - 1
  /\ leaving' = IF irq_depth = 1 THEN FALSE ELSE leaving
  /\ UNCHANGED <<current_task, tasks_ready, need_resched, mutexes, waits,
                 tasks_enabled, booted, events, timer_running, pc, dest, owed>>

IrqExit == task_resched_if_needed \/ IrqReturn

-----------------------------------------------------------------------------
\* A call task t's own code makes.
Call(t) ==
  \/ \E r \in TaskId \ {TASK_ID_IDLE}, e \in CustomEvents : SetEvent(t, r, e)
  \/ \E u \in Disablable : EnableTask(t, u) \/ DisableTask(t, u)
  \/ task_wait_event(t) \/ usleep(t)
  \/ \E m \in Masks : task_wait_event_mask(t, m)
  \/ \E m \in Mutex : MutexLock(t, m)

\* A step of the runtime's code on behalf of task t.
Step(t) ==
  \/ Schedule(t)
  \/ Arm(t) \/ Clear(t) \/ Desched(t) \/ Cancel(t) \/ ClearTimerEvent(t)
  \/ ReturnPlain(t) \/ ReturnMasked(t)
  \/ TakeLock(t) \/ Contend(t) \/ Locked(t)
  \/ WakeWaiter(t) \/ Unlocked(t)

Unlock(t) == \E m \in Mutex : MutexUnlock(t, m)

Interrupt ==
  \/ IrqEnter \/ IrqExit
  \/ \E r \in IrqReceivers, e \in CustomEvents : IrqSetEvent(r, e)
  \/ \E r \in TaskId : expire_timer(r)

Next ==
  \/ EnableAllTasks
  \/ \E t \in TaskId : Call(t) \/ Step(t) \/ Unlock(t)
  \/ Interrupt

Spec == Init /\ [][Next]_vars

\* Handlers return, the processor executes the current task when it is not in
\* a handler, and a task's code keeps no mutex for ever.
Fairness ==
  /\ WF_vars(IrqExit)
  /\ WF_vars(EnableAllTasks)
  /\ \A t \in TaskId : WF_vars(Step(t) \/ Unlock(t))

FairSpec == Spec /\ Fairness

-----------------------------------------------------------------------------
(* Properties                                                              *)

\* Task t's code owns mutex m, or mutex_lock is about to return to it.
Holds(t, m) == m \in held[t] \/ (pc[t] = "locked" /\ mtx[t] = m)

\* mutex_lock(): no two tasks own a mutex at the same time.
MutualExclusion ==
  \A m \in Mutex : \A t, u \in TaskId : Holds(t, m) /\ Holds(u, m) => t = u

\* Task t sleeps in the wait of mutex_lock.
AsleepInLock(t) == mtx[t] # NoMutex /\ pc[t] = "clear" /\ t \notin tasks_ready

\* mutex_unlock() snapshots the waiters together with freeing the lock: a task
\* asleep in mutex_lock() is owed a wake-up, by the owner of the mutex or by a
\* mutex_unlock() that has not sent it yet.
NoLostWakeup ==
  \A t \in TaskId : AsleepInLock(t) =>
    \E u \in TaskId :
      \/ Holds(u, mtx[t])
      \/ /\ pc[u] \in {"wake", "svc"} /\ mtx[u] = mtx[t]
         /\ t \in to_wake[u] \/ dest[u] = t

\* svc_handler() re-reads the event word before it takes a ready bit away: a
\* task with an event pending is ready, or its sender is about to make it so.
NoLostEvent ==
  \A t \in TaskId : events[t] # {} =>
    t \in tasks_ready \/ \E u \in TaskId : pc[u] = "svc" /\ dest[u] = t

\* Waiting for a mutex, for some events or for time consumes no other event:
\* what was sent and not yet returned to the task's code is still pending or
\* in the hands of the wait, which re-posts it.
EventsConserved ==
  \A t \in TaskId : owed[t] \subseteq events[t] \cup evt[t] \cup collected[t]

\* __wait_evt() cancels its timer before it clears the timer event: outside a
\* timed wait no timer is left running, so that the next timer_arm() does not
\* return busy and fail the assertion, and no stale event cuts a wait short.
NoStaleTimer ==
  \A t \in TaskId : pc[t] \in {"run", "arm"} =>
    t \notin timer_running /\ TIMER \notin events[t]

\* The scheduler is preemptive: outside handlers an enabled ready task has a
\* higher priority than the running one only when its event came from a handler
\* nested in the return of another, between the load of need_resched and the
\* exception return.  need_resched then stays set, for the next handler to
\* reschedule; under profiling the flag is always set and the case does not
\* arise.  task_enable_task() does not reschedule, so the tasks that are
\* disabled at run time are exempt.
HighestPriorityRuns ==
  irq_depth = 0 =>
    \A t \in (tasks_ready \cap tasks_enabled) \ Disablable :
      t <= current_task \/ (need_resched /\ ~TASK_PROFILING)

\* mutex_lock() returns, whatever interrupts and events came while the task
\* waited, once they cease: the task of highest priority gets the mutex from
\* whichever task owns it.  There is no priority inheritance, so that this needs
\* the tasks in between to leave the processor to the owner, and a rescheduling
\* missed at the exit of the last handler (HighestPriorityRuns) to be made up
\* for: these are the only ways for the task to wait for ever.
MutexGranted ==
  /\ <>[](irq_depth = 0)
  /\ \A u \in TaskId \ {TASK_ID_IDLE} :
       []<>(current_task = u \/ u \notin tasks_ready)
  => \A m \in Mutex : LET top == TASK_ID_COUNT - 1 IN
       mtx[top] = m /\ pc[top] = "try" ~> m \in held[top]
=============================================================================
