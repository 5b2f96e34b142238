----------------------------- MODULE TaskReset -----------------------------
(***************************************************************************)
(* Task resets, core/cortex-m/task.c under CONFIG_TASK_RESET_LIST: any     *)
(* task may have another one restarted from its entry point, at once or,   *)
(* when that task has disabled resets, when it next enables them.          *)
(*                                                                         *)
(* The state word of a task is modelled by the set of its bits: SUPPORTED, *)
(* LOCK, and one bit for each task to be notified.  One step is one atomic *)
(* access to shared memory.  The protocol relies on the priorities: a task *)
(* takes a step only while no task of higher priority wants to.  What the  *)
(* tasks do otherwise is arbitrary.  The waits are those of Tasks.tla, of  *)
(* whose events only TASK_EVENT_RESET_DONE matters here, and the deferred  *)
(* call is that of Hooks.tla.                                              *)
(***************************************************************************)
EXTENDS Naturals, FiniteSets

CONSTANTS
  TASK_ID_COUNT,
  WORD,               \* number of bits of a state word
  Resettable,         \* CONFIG_TASK_RESET_LIST
  Requesters,         \* the tasks that call task_reset()
  REQUESTS            \* bound: number of calls of task_reset()

TaskId == 0 .. TASK_ID_COUNT - 1
TASK_ID_IDLE == 0
TASK_ID_HOOKS == 1
SUPPORTED == WORD - 1
LOCK == WORD - 2
Waiters(word) == word \ {SUPPORTED, LOCK}

\* BUILD_ASSERT(BIT(TASK_ID_COUNT) < TASK_RESET_LOCK).  The tasks listed are
\* tasks of CONFIG_TASK_LIST, so that none is the idle task.
ASSUME ResetAssumption ==
  /\ TASK_ID_COUNT \in Nat /\ WORD \in Nat
  /\ 2 <= TASK_ID_COUNT /\ TASK_ID_COUNT < LOCK
  /\ Resettable \subseteq TaskId \ {TASK_ID_IDLE, TASK_ID_HOOKS}
  /\ Requesters \subseteq TaskId \ {TASK_ID_IDLE, TASK_ID_HOOKS}
  /\ REQUESTS \in Nat

VARIABLES
  task_reset_state,         \* of the resettable tasks
  deferred_reset_task_ids,
  deferred_call,            \* deferred_task_reset() is to be called
  reset_done,               \* tasks with TASK_EVENT_RESET_DONE pending
  timer_running,
  pc,
  target,                   \* task_reset: `id'; deferred_task_reset: reset_id
  notify,                   \* task_reset_cleanup: notify_id
  unscheduled,              \* tasks made ready and not yet scheduled
  disabled,                 \* tasks that have resets disabled
  queued,                   \* history: requests that r is to be reset for
  timed_reset,              \* history: tasks that were reset, with resets
                            \* enabled, while their timer ran, as it still does
  requests                  \* number of calls so far

locals == <<target, notify>>
deferral == <<deferred_reset_task_ids, deferred_call>>
timers == <<timer_running, timed_reset>>
vars == <<task_reset_state, deferral, reset_done, timers, pc, locals,
          unscheduled, disabled, queued, requests>>

PcValues == {"own", "timed", "assert",             \* in the task's own code
             "start", "release", "pick", "notify", \* task_reset_cleanup
             "enable", "defer", "call",            \* task_enable_resets
             "forever",                            \* sleep_forever
             "reset", "await",                     \* task_reset
             "loop", "do"}                         \* deferred_task_reset

Cleanup == {"start", "release", "pick", "notify"}

TypeOK ==
  /\ task_reset_state \in [Resettable -> SUBSET (0 .. WORD - 1)]
  /\ deferred_reset_task_ids \subseteq Resettable
  /\ deferred_call \in BOOLEAN
  /\ reset_done \subseteq TaskId
  /\ timer_running \subseteq Resettable /\ timed_reset \subseteq Resettable
  /\ pc \in [TaskId -> PcValues]
  /\ target \in [TaskId -> TaskId] /\ notify \in [TaskId -> 0 .. WORD - 1]
  /\ unscheduled \subseteq Resettable /\ disabled \subseteq Resettable
  /\ queued \in [Resettable -> SUBSET (0 .. WORD - 1)]
  /\ requests \in 0 .. REQUESTS

NoBits == [r \in Resettable |-> {}]
Supported == [r \in Resettable |-> {SUPPORTED}]
Zero == [t \in TaskId |-> 0]
Entry == [t \in TaskId |-> IF t \in Resettable THEN "start" ELSE "own"]

Init ==
  /\ task_reset_state = Supported
  /\ deferred_reset_task_ids = {} /\ deferred_call = FALSE
  /\ reset_done = {} /\ timer_running = {} /\ timed_reset = {}
  /\ pc = Entry /\ target = Zero /\ notify = Zero
  /\ unscheduled = {} /\ disabled = {}
  /\ queued = NoBits /\ requests = 0

\* Task u may be asleep.
MaySleep(u) ==
  \/ pc[u] \in {"own", "timed", "forever"}
  \/ pc[u] = "await" /\ u \notin reset_done

\* A failed assertion: the EC is about to reboot, and no task runs any more.
Panic == \E r \in Resettable : pc[r] = "assert"

\* Task t is the current one: do_task_reset() does not reschedule, and a task
\* it made ready may have to wait for others.
Running(t) ==
  ~Panic /\ \A u \in TaskId : u > t => MaySleep(u) \/ u \in unscheduled

\* Task t is at `label' and runs.
At(t, label) ==
  /\ pc[t] = label /\ Running(t)
  /\ unscheduled' = unscheduled \ {t}

Goto(t, label) == pc' = [pc EXCEPT ![t] = label]

\* __fls()
IsHighest(b, S) == b \in S /\ \A c \in S : c <= b

\* Task r checks its own state word and updates it, and goes on accordingly.
update_reset_state(r, if_value, to_value, success, failure) ==
  IF task_reset_state[r] = if_value
  THEN /\ task_reset_state' = [task_reset_state EXCEPT ![r] = to_value]
       /\ Goto(r, success)
  ELSE /\ Goto(r, failure)
       /\ UNCHANGED task_reset_state

try_acquire_reset_lock(r, success, failure) ==
  update_reset_state(r, {SUPPORTED}, {SUPPORTED, LOCK}, success, failure)

\* Nobody may be waiting.
try_release_reset_lock(r, success, failure) ==
  update_reset_state(r, {SUPPORTED, LOCK}, {SUPPORTED}, success, failure)

-----------------------------------------------------------------------------
(* What the resettable tasks call                                          *)

\* task_reset_cleanup(), first thing in the task: is the lock held?
CleanupStart(r) ==
  /\ At(r, "start")
  /\ Goto(r, IF LOCK \in task_reset_state[r] THEN "release" ELSE "own")
  /\ UNCHANGED <<task_reset_state, deferral, reset_done, timers, locals,
                 disabled, queued, requests>>

\* Mutant of TryRelease: the lock is released whoever waits.
TryRelease_always(r) ==
  /\ At(r, "release")
  /\ task_reset_state' = [task_reset_state EXCEPT ![r] = {SUPPORTED}]
  /\ Goto(r, "own")
  /\ UNCHANGED <<deferral, reset_done, timers, locals, disabled, queued,
                 requests>>

\* while (!try_release_reset_lock(state))
TryRelease(r) ==
  /\ At(r, "release")
  /\ try_release_reset_lock(r, "own", "pick")
  /\ UNCHANGED <<deferral, reset_done, timers, locals, disabled, queued,
                 requests>>

\* "Find the first waiter to notify."
Pick(r) ==
  /\ At(r, "pick")
  /\ \E b \in Waiters(task_reset_state[r]) :
       /\ IsHighest(b, Waiters(task_reset_state[r]))
       /\ notify' = [notify EXCEPT ![r] = b]
  /\ Goto(r, "notify")
  /\ UNCHANGED <<task_reset_state, deferral, reset_done, timers, target,
                 disabled, queued, requests>>

\* Mutant of Notify: the id of a non-blocking request is not skipped.
Notify_any(r) ==
  /\ At(r, "notify")
  /\ task_reset_state' = [task_reset_state EXCEPT ![r] = @ \ {notify[r]}]
  /\ reset_done' = reset_done \cup {notify[r]}
  /\ notify' = [notify EXCEPT ![r] = 0]
  /\ Goto(r, "release")
  /\ UNCHANGED <<deferral, timers, target, disabled, queued, requests>>

\* "Remove the task from waiters first"; the event is set in the same step,
\* since nothing but the waiter, which sleeps, could tell the difference.
Notify(r) ==
  /\ At(r, "notify")
  /\ task_reset_state' = [task_reset_state EXCEPT ![r] = @ \ {notify[r]}]
  /\ reset_done' = reset_done \cup ({notify[r]} \cap TaskId)
  /\ notify' = [notify EXCEPT ![r] = 0]
  /\ Goto(r, "release")
  /\ UNCHANGED <<deferral, timers, target, disabled, queued, requests>>

\* "If we can't acquire the lock, we are about to be reset by another task."
task_disable_resets(r) ==
  /\ At(r, "own") /\ r \notin disabled
  /\ try_acquire_reset_lock(r, "own", "forever")
  /\ disabled' = disabled \cup {u \in {r} : pc'[u] = "own"}
  /\ UNCHANGED <<deferral, reset_done, timers, locals, queued, requests>>

\* task_enable_resets(), by a task that has disabled resets.
task_enable_resets(r) ==
  /\ At(r, "own") /\ r \in disabled
  /\ disabled' = disabled \ {r}
  /\ Goto(r, "enable")
  /\ UNCHANGED <<task_reset_state, deferral, reset_done, timers, locals,
                 queued, requests>>

\* Mutant of EnableRelease: the lock is released whoever waits.
EnableRelease_always(r) ==
  /\ At(r, "enable")
  /\ task_reset_state' = [task_reset_state EXCEPT ![r] = @ \ {LOCK}]
  /\ Goto(r, "own")
  /\ UNCHANGED <<deferral, reset_done, timers, locals, disabled, queued,
                 requests>>

\* Mutant of EnableRelease: those who wait are notified without a reset.
EnableRelease_notify(r) ==
  /\ At(r, "enable")
  /\ Goto(r, "release")
  /\ UNCHANGED <<task_reset_state, deferral, reset_done, timers, locals,
                 disabled, queued, requests>>

\* if (try_release_reset_lock(state)) return
EnableRelease(r) ==
  /\ At(r, "enable")
  /\ try_release_reset_lock(r, "own", "defer")
  /\ UNCHANGED <<deferral, reset_done, timers, locals, disabled, queued,
                 requests>>

\* "People are waiting for us to reset; schedule a reset."
ScheduleReset(r) ==
  /\ At(r, "defer")
  /\ deferred_reset_task_ids' = deferred_reset_task_ids \cup {r}
  /\ Goto(r, "call")
  /\ UNCHANGED <<task_reset_state, deferred_call, reset_done, timers,
                 locals, disabled, queued, requests>>

\* hook_call_deferred(&deferred_task_reset_data, 0); sleep_forever()
CallDeferred(r) ==
  /\ At(r, "call")
  /\ deferred_call' = TRUE
  /\ Goto(r, "forever")
  /\ UNCHANGED <<task_reset_state, deferred_reset_task_ids, reset_done,
                 timers, locals, disabled, queued, requests>>

-----------------------------------------------------------------------------
(* Waits with a timeout                                                    *)

\* __wait_evt() arms the timer and asserts that it was not running.
TimedWait(r) ==
  /\ At(r, "own")
  /\ timer_running' = timer_running \cup {r}
  /\ Goto(r, IF r \in timer_running THEN "assert" ELSE "timed")
  /\ UNCHANGED <<task_reset_state, deferral, reset_done, locals, disabled,
                 queued, timed_reset, requests>>

\* The timer interrupt.
Expire(r) ==
  /\ r \in timer_running /\ ~Panic
  /\ timer_running' = timer_running \ {r}
  /\ timed_reset' = timed_reset \ {r}
  /\ UNCHANGED <<task_reset_state, deferral, reset_done, pc, locals,
                 unscheduled, disabled, queued, requests>>

\* The panic reboots the EC.
Reboot ==
  /\ Panic
  /\ task_reset_state' = Supported
  /\ deferred_reset_task_ids' = {} /\ deferred_call' = FALSE
  /\ reset_done' = {} /\ timer_running' = {} /\ timed_reset' = {}
  /\ pc' = Entry /\ target' = Zero /\ notify' = Zero
  /\ unscheduled' = {} /\ disabled' = {}
  /\ queued' = NoBits
  /\ UNCHANGED requests

\* Mutant of EndWait: the timer is not cancelled.
EndWait_left(r) ==
  /\ At(r, "timed")
  /\ Goto(r, "own")
  /\ UNCHANGED <<task_reset_state, deferral, reset_done, timers, locals,
                 disabled, queued, requests>>

\* The wait ends, by the timer or by an event: timer_cancel().
EndWait(r) ==
  /\ At(r, "timed")
  /\ timer_running' = timer_running \ {r}
  /\ timed_reset' = timed_reset \ {r}
  /\ Goto(r, "own")
  /\ UNCHANGED <<task_reset_state, deferral, reset_done, locals, disabled,
                 queued, requests>>

-----------------------------------------------------------------------------
(* task_reset()                                                            *)

\* Mutant of task_reset: the lock is taken without a look at who has it.
task_reset_unlocked(a, r, wait) ==
  /\ At(a, "own") /\ a # r /\ requests < REQUESTS
  /\ requests' = requests + 1
  /\ task_reset_state' = [task_reset_state EXCEPT ![r] = @ \cup {LOCK}]
  /\ target' = [target EXCEPT ![a] = r]
  /\ Goto(a, "reset")
  /\ UNCHANGED <<deferral, reset_done, timers, notify, disabled, queued>>

\* The critical section of task_reset(r, wait), called by task a.  A task that
\* was reset and has not finished cleaning up need not be reset again.
task_reset(a, r, wait) ==
  /\ At(a, "own") /\ a # r /\ requests < REQUESTS
  /\ requests' = requests + 1
  /\ LET waiter_id == IF wait THEN a ELSE TASK_ID_COUNT IN
     IF LOCK \in task_reset_state[r]
     THEN /\ task_reset_state' = [task_reset_state EXCEPT
                                    ![r] = @ \cup {waiter_id}]
          /\ queued' = IF pc[r] \in Cleanup THEN queued
                       ELSE [queued EXCEPT ![r] = @ \cup {waiter_id}]
          /\ Goto(a, IF wait THEN "await" ELSE "own")
          /\ UNCHANGED target
     ELSE /\ task_reset_state' = [task_reset_state EXCEPT ![r] = @ \cup {LOCK}]
          /\ target' = [target EXCEPT ![a] = r]
          /\ Goto(a, "reset")
          /\ UNCHANGED queued
  /\ UNCHANGED <<deferral, reset_done, timers, notify, disabled>>

\* do_task_reset(r) by task t, which goes on at `label': a new context, that
\* is, the task is at its start.  Its events and its timer stay.
do_task_reset(t, r, label) ==
  /\ pc' = [pc EXCEPT ![r] = "start", ![t] = label]
  /\ target' = [target EXCEPT ![r] = 0, ![t] = 0]
  /\ notify' = [notify EXCEPT ![r] = 0]
  /\ unscheduled' = unscheduled \cup {r}
  /\ queued' = [queued EXCEPT ![r] = {}]
  /\ timed_reset' = timed_reset \cup ((timer_running \cap {r}) \ disabled)
  /\ UNCHANGED <<task_reset_state, reset_done, timer_running, disabled,
                 requests>>

\* "We got the lock, do the reset immediately."
Reset(a) ==
  /\ pc[a] = "reset" /\ Running(a)
  /\ do_task_reset(a, target[a], "own")
  /\ UNCHANGED deferral

\* task_wait_event_mask(TASK_EVENT_RESET_DONE, -1)
Await(a) ==
  /\ At(a, "await") /\ a \in reset_done
  /\ reset_done' = reset_done \ {a}
  /\ Goto(a, "own")
  /\ UNCHANGED <<task_reset_state, deferral, timers, locals, disabled,
                 queued, requests>>

-----------------------------------------------------------------------------
(* deferred_task_reset(), called in the hook task                          *)

DeferredStart ==
  /\ At(TASK_ID_HOOKS, "own") /\ deferred_call
  /\ deferred_call' = FALSE
  /\ Goto(TASK_ID_HOOKS, "loop")
  /\ UNCHANGED <<task_reset_state, deferred_reset_task_ids, reset_done,
                 timers, locals, disabled, queued, requests>>

\* while (deferred_reset_task_ids): take one; the others only add to the set.
DeferredLoop ==
  /\ At(TASK_ID_HOOKS, "loop")
  /\ IF deferred_reset_task_ids = {}
     THEN /\ Goto(TASK_ID_HOOKS, "own")
          /\ UNCHANGED <<deferred_reset_task_ids, target>>
     ELSE /\ \E r \in deferred_reset_task_ids :
               /\ IsHighest(r, deferred_reset_task_ids)
               /\ deferred_reset_task_ids' = deferred_reset_task_ids \ {r}
               /\ target' = [target EXCEPT ![TASK_ID_HOOKS] = r]
          /\ Goto(TASK_ID_HOOKS, "do")
  /\ UNCHANGED <<task_reset_state, deferred_call, reset_done, timers,
                 notify, disabled, queued, requests>>

DeferredReset ==
  /\ pc[TASK_ID_HOOKS] = "do" /\ Running(TASK_ID_HOOKS)
  /\ do_task_reset(TASK_ID_HOOKS, target[TASK_ID_HOOKS], "loop")
  /\ UNCHANGED deferral

-----------------------------------------------------------------------------
\* What task r does in the functions of this file; it leaves a wait.
Step(r) ==
  \/ CleanupStart(r) \/ TryRelease(r) \/ Pick(r) \/ Notify(r)
  \/ EnableRelease(r) \/ ScheduleReset(r) \/ CallDeferred(r)
  \/ EndWait(r)

deferred_task_reset == DeferredStart \/ DeferredLoop \/ DeferredReset

Next ==
  \/ \E r \in Resettable :
       \/ Step(r) \/ TimedWait(r) \/ Expire(r)
       \/ task_disable_resets(r) \/ task_enable_resets(r)
  \/ \E a \in Requesters, r \in Resettable, wait \in BOOLEAN :
       task_reset(a, r, wait)
  \/ \E a \in Requesters : Reset(a) \/ Await(a)
  \/ deferred_task_reset
  \/ Reboot

Spec == Init /\ [][Next]_vars

\* The tasks of higher priority leave every task some time, a task that
\* disables resets enables them again, and a panic ends in a reboot.
FairSpec ==
  /\ Spec
  /\ \A r \in Resettable : SF_vars(Step(r)) /\ SF_vars(task_enable_resets(r))
  /\ \A a \in Requesters : SF_vars(Reset(a) \/ Await(a))
  /\ SF_vars(deferred_task_reset) /\ WF_vars(Reboot)

-----------------------------------------------------------------------------
(* Properties                                                              *)

\* Who may be holding the reset lock of r: r itself, a task that is about to
\* reset it, or deferred_task_reset() on r's behalf.
HeldByItself(r) ==
  \/ r \in disabled
  \/ pc[r] \in {"enable", "defer", "call", "release", "pick", "notify"}
  \/ pc[r] = "forever" /\ r \in deferred_reset_task_ids

Resetters(r) ==
  {t \in TaskId : pc[t] \in {"reset", "do"} /\ target[t] = r}

\* "The task reset lock must be held prior to calling this function"
\* (do_task_reset), and by one task only: a task that is about to reset r is
\* the only one, r does not hold the lock itself (a task that has disabled
\* resets is never reset), and whoever waits in sleep_forever() is going to be
\* reset.
OneResetter ==
  \A r \in Resettable :
    /\ Resetters(r) # {} => /\ Cardinality(Resetters(r)) = 1
                            /\ LOCK \in task_reset_state[r]
                            /\ ~HeldByItself(r)
    /\ pc[r] = "forever" => Resetters(r) # {} \/ r \in deferred_reset_task_ids

\* "Any calls to task_reset() during this time will cause a reset request to
\* be queued, and executed the next time task_enable_resets() is called": a
\* task does not go on with resets enabled while a request is queued, unless
\* another task is about to reset it.
QueuedExecuted ==
  \A r \in Resettable :
    /\ pc[r] \in {"own", "timed"} /\ r \notin disabled /\ Resetters(r) = {}
    => queued[r] = {}

\* "If wait is true, blocks until the task has been reset": no task is told
\* that a reset is done while it still waits for one that is not.
DoneWhenReset ==
  \A a \in reset_done : \A r \in Resettable : a \notin queued[r]

\* __wait_evt() asserts that timer_arm() succeeds.  It fails for no task but
\* one that was reset in an earlier wait with a timeout, begun with resets
\* enabled, whose timer still runs: do_task_reset() leaves it.  A task that
\* disables resets around its timed waits never fails, whoever asks for its
\* reset and when.
TimerArmed == \A r \in Resettable : pc[r] = "assert" => r \in timed_reset

\* task_reset() with `wait' returns, unless the EC reboots: the task enables
\* resets, is reset by the hook task, and notifies whoever waits.
ResetReturns == \A a \in Requesters : pc[a] = "await" ~> pc[a] = "own"
=============================================================================
