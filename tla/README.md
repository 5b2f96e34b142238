# The EC runtime in TLA+

The embedded controller firmware in `src/` runs on a small real-time kernel of
its own: fixed-priority tasks, event words, mutexes, timers, hooks and deferred
calls. Everything else (host commands, power sequencing, charging, keyboard,
sensors, USB-C) is built on those few primitives and on a handful of protocols
between tasks, interrupt handlers and the host. The bugs that matter there are
interleavings: a wake-up lost between a check and a sleep, a word read before an
interrupt and used after it, an event swallowed by a wait for something else.
Unit tests in `src/test/` run on the host emulation, where a task switch happens
only at a blocking call, and reach few of them.

This directory models the kernel and three protocols built on it (the events for
the host, the rollback block in the flash, and the protocol layer of USB power
delivery), checks the models with TLC and proves the central properties with
TLAPS.

- [1. The system](#1-the-system)
- [2. The modules](#2-the-modules)
- [3. The runs](#3-the-runs)
- [4. Fairness](#4-fairness)
- [5. What is proved](#5-what-is-proved)
- [6. Where the code deviates](#6-where-the-code-deviates)
- [7. What is not modelled](#7-what-is-not-modelled)
- [8. Plan](#8-plan)
- [9. Using it](#9-using-it)

## 1. The system

### Components that are modelled

**Task scheduler, events, mutexes** (`core/cortex-m/task.c`, `switch.S`,
`irq_handler.h`, `atomic.h`).
State: the bit masks `tasks_ready` and `tasks_enabled`, `current_task`,
`need_resched_or_profiling`, one event word per task, two words per mutex.
Operations: `task_set_event` (from tasks and handlers), `task_wait_event`,
`task_wait_event_mask`, `usleep`, `task_enable_task`, `task_disable_task`,
`task_enable_all_tasks`, `mutex_lock`, `mutex_unlock`, the SVC handler and the
exit of every interrupt handler.
Hard: the decision to sleep is split over an atomic clear of the event word and
an SVC; `task_set_event` is split over an atomic OR and an SVC; `mutex_unlock`
wakes the waiters of a snapshot after it has freed the lock; interrupts come
between any two of these and nest, and a handler looks whether it must reschedule
some instructions before it returns.
Correct when: a mutex has one owner; no waiter sleeps without somebody who will
wake it; no pending event belongs to a sleeping task; no wait consumes an event
it was not asked for; a timed wait leaves no timer behind; the highest ready
task runs.

**Timers and clock** (`common/timer.c`, `chip/stm32/hwtimer32.c`).
State: a hardware counter of 32 bits and the word counted up by its overflow
interrupt, a deadline per task, the set of running timers, one match register.
Operations: `get_time`, `timer_arm`, `timer_cancel`, the timer interrupt with
`process_timers`, `force_time` after deep sleep.
Hard: two words that cannot be read at once; the counter runs on while the
match is programmed and while the handler reads and clears its status; the
interrupt changes what `timer_arm` has read.
Correct when: every running timer has an interrupt that will look at it in
time; a timer expires never early, never twice, never after it was cancelled.

**Hook task and deferred calls** (`common/hooks.c`).
State: the due time per deferred routine, the flag `defer_new_call`, the times
of the last tick and second.
Operations: `hook_call_deferred` from anywhere, the loop of `hook_task`,
`hook_notify`.
Hard: the hook task has the lowest priority and is preempted between every
check of a shared word and its use, and while it computes how long to sleep.
Correct when: it never sleeps past something it owes; every request not
cancelled leads to a call; `hook_notify` calls every routine once, by priority.

**Task reset** (`core/cortex-m/task.c`, `CONFIG_TASK_RESET_LIST`).
State: one word per resettable task with a lock bit and a bit per waiter, the
set handed to `deferred_task_reset`.
Operations: `task_reset`, `task_disable_resets`, `task_enable_resets`,
`task_reset_cleanup`, `deferred_task_reset`.
Hard: requests come while the task is disabling or enabling resets, is being
reset, or is notifying those who waited for the last reset.
Correct when: one task at a time resets another, and never one that has
disabled resets; queued requests are executed; nobody is told of a reset that
has not happened; whoever waits is told.

**MKBP events** (`common/mkbp_event.c`).
State: the pending events, the tri-state of the host interrupt with its id, the
count of failed attempts, the wake mask, a deferred call.
Operations: `mkbp_send_event`, `activate_mkbp_with_events`,
`force_mkbp_if_events`, `mkbp_get_next_event`, `set_inactive_if_no_events`,
`hc_mkbp_wake_mask`.
Hard: the state lock is released while the interrupt is sent, so the host may
answer, and another task may start a new activation, before the first one
records its own; the deferred call races the host's polling.
Correct when: the interrupt never stays in transition, is called active only if
it was sent for this activation, no event starves another, and every event the
host is to be told of is fetched.

**Rollback protection** (`common/rollback.c`, `rollback_private.h`, `rwsig.c`).
State: two regions of the flash, each with an id, the minimum version, a secret
and a cookie; the pending request of the host.
Operations: `rollback_update` with its callers `rwsig_check_signature`, the
console commands and `add_entropy_deferred`; `hc_rollback_add_entropy`.
Hard: the power may fail, and the flash may return an error, between any two
words; three tasks update without a lock between reading and writing.
Correct when: there is always a latest region and it is complete; neither the
version nor the entropy goes back; a reset of the secret leaves none of the old
one behind; the host gets an answer.

**USB PD protocol layer** (`common/usbc/usb_prl_sm.c`).
State: four state machines (`prl_tx`, `prl_hr`, `rch`, `tch`) with their flags
and timers, the message in construction, the one received, message ids, and
`xmit_status`, which the interrupt task writes.
Operations: `prl_run` with all entry, run and exit functions, `prl_send_*`,
`prl_execute_hard_reset`, `pd_execute_hard_reset`, `prl_hard_reset_complete`,
`prl_reset`, `prl_reset_soft`, `pd_transmit_complete`.
Hard: the machines wait for each other's flags; a message may come in at any
point of a transmission and cancels it in some states only; resets clear some
of this state; results come late or not at all; the partner repeats messages.
Correct when: messages are passed up in order, and once unless a reset forgot the
stored id in between; what is reported as
sent was received as new, what is reported as discarded was not sent; every
message is answered for and every hard reset ends.

### How they interact

```
 tasks --task_set_event/wait/mutex--> Tasks <--expire_timer-- Timer <-- counter
   |                                    ^  \--timer_arm/cancel--^
   |--hook_call_deferred--> Hooks --task_wait_event--/
   |--task_reset--> TaskReset --hook_call_deferred--> Hooks
   |--mkbp_send_event--> MkbpEvent --hook_call_deferred--> Hooks
   |                         ^--- EC_CMD_GET_NEXT_EVENT --- host (AP)
   |--rollback_update--> Rollback --hook_call_deferred--> Hooks
   |                         ^--- EC_CMD_ADD_ENTROPY ------ host (AP)
   pd_task: policy engine --prl_send_*--> Prl --tcpm_transmit--> partner
```

The modules are coupled by what each assumes of the one below. `Tasks` lets a
running timer expire at any moment; `Timer` refines `TimerService`, which says
that a timer expires at some moment after its due time and only while running.
`Hooks` sleeps in a `task_wait_event` that ends on a wake event or when its
timer is due, as `Tasks` (NoLostEvent, NoStaleTimer) and `Timer` show.
`TaskReset`, `MkbpEvent` and `Rollback` use a deferred call that comes some time
after it was requested unless it is cancelled: DeferredCalled of `Hooks`. `Prl`
runs within one task and sees the others only through flags and events.

### Other components

`PROJECT.json` lists the rest of the repository: queues, host commands, shared
memory, motion sense, charging, the rest of USB-C, power sequencing, power
button, keyboard, flash, sysjump, console, I2C, other cores, chips, drivers,
boards, the Zephyr port, host tools. See [7](#7-what-is-not-modelled) and
[8](#8-plan).

## 2. The modules

| module | models | role |
|---|---|---|
| `Tasks` | scheduler, events, waits, mutexes | component |
| `TasksProofs` | | proofs about `Tasks` |
| `MCTasks` | | which functions the tasks of each run call |
| `TimerService` | what `Tasks` needs of timers | abstract specification |
| `Timer` | clock, timers, timer interrupt | component, refines `TimerService` |
| `TimerProofs` | | proofs about `Timer`, the refinement among them |
| `MCTimer` | | symmetry of the tasks |
| `Hooks` | `hook_task`, `hook_call_deferred` | component |
| `HookNotify` | `hook_notify` | algorithm |
| `HookTask` | `hook_task` from its start | composes `HookNotify` and `Hooks` |
| `HooksProofs` | | proofs about `Hooks` and `HookTask` |
| `TaskReset` | task reset protocol | component on top of `Tasks`, `Hooks` |
| `TaskResetProofs` | | proofs about `TaskReset` |
| `MkbpEvent` | MKBP events, host interrupt | component on top of `Hooks` |
| `MkbpEventProofs` | | proofs about `MkbpEvent` |
| `Rollback` | rollback block and its updaters | component on top of `Hooks` |
| `RollbackProofs` | | proofs about `Rollback` |
| `Prl` | PD protocol layer | component, with PE, PHY and partner external |
| `PrlProofs` | | proofs about `Prl`: types, hard resets, reception |
| `PrlSendProofs` | | proofs about `Prl`: what becomes of a message sent |

Conventions. A variable or an action has the name it has in the code where that
is possible. A step is one access to shared memory that the code makes
atomically: an `atomic_*` call, an exclusive load/store pair, a section under
`interrupt_disable()` or a mutex, an SVC. `pc` says where a task is in a
function that takes several steps; locals that are live across steps are
variables, and are reset when they go out of scope. An operator whose comment
begins "Mutant of" is a wrong variant of the definition below it: a plausible
bug that the named property must catch. None is used by a specification.

### Tasks

Only the current task takes steps, and only outside handlers. `svc_handler` is
the SVC with its second look at the event word; `Desched`, `Schedule` and
`task_resched_if_needed` are its three callers. A handler ends in
`task_resched_if_needed`, which loads `need_resched`; the exception return
(`IrqReturn`) is a step of its own, before which another interrupt may nest
(`leaving`). A wait goes through `arm`, `clear`, `desched` (and round again),
then `cancel`, `untimer` when it is timed, and `got`, where `task_wait_event`
returns and `task_wait_event_mask` and `usleep` decide whether to go round again
or to re-post what was not asked for. `mutex_lock` registers (`MutexLock`),
tries (`TakeLock`, `Contend`), and deregisters (`Locked`); `mutex_unlock`
snapshots and frees (`MutexUnlock`), wakes from the highest down (`WakeWaiter`,
`Schedule`) and clears its own event (`Unlocked`). Clients are arbitrary:
`Calls[t]` says which functions task `t` may call, in any order and with any
argument. Abstractions: an event word is a set; whether the deadline of a masked
wait has passed is chosen freely while the wait is timed; context saving is left
out. The exclusive pair of `mutex_lock` is one step because a preemption in
between clears the exclusive monitor and the loop retries. The history variable
`owed` holds the custom events sent and not yet returned.

### Timer and TimerService

A word has `WRAP` values, a timestamp is `hi * WRAP + lo`, and `now` is the time
that the counter and the overflows served or pending make; `lost` counts the
overflows lost, and `RealTime` is the two together. `Tick` may fall between any
two steps of a task and of the handler. A task performs `__wait_evt` with a
timeout: `get_time` in up to four reads, `timer_arm` in three steps (the time it
reads, the deadline with the running bit, the comparison that triggers the
interrupt), then `timer_cancel`. The handler: reading the status, clearing it
and counting the overflow read, a pass of `process_timers`, programming the
match, the re-check. A flag raised between the read and the clear is lost. One
assumption on the hardware: an overflow interrupt is served before the counter
overflows again (over an hour). History: `due`, the time the caller meant;
`fired`; `crossed`, see [6](#6-where-the-code-deviates).

### Hooks and HookNotify

The steps of `hook_task` are those at which it reads or writes a shared word;
since every other task has a higher priority, a call of `hook_call_deferred` by
somebody else is one step for it. What a deferred routine does is open: it may
request or cancel any routine, itself included, and a wait of its own may take
the loop's wake event. `drift` is how long the loop was preempted between
reading the clock and falling asleep. `HookNotify` is `hook_notify` as a
function from a table of priorities to the order of the calls. `HookTask` starts
with any table of HOOK_INIT routines within the bounds, calls them, enables the
tasks and enters the loop.

### TaskReset

A state word is the set of its bits. The protocol relies on priorities: a task
takes a step only while no task of higher priority wants to (`Running`).
`do_task_reset` does not reschedule, so a task that was just reset may have to
wait although its priority is higher (`unscheduled`). It clears neither the
events nor the timer of the task. In its own code a task may wait with a timeout
at any time, with resets enabled or disabled; an assertion that fails there
(`Panic`) reboots the EC. `timed_reset` remembers the tasks that were reset,
with resets enabled, while their timer ran.

### MkbpEvent

Critical sections of `state.lock` are the steps; the interrupt is sent between
two of them. The configuration is `CONFIG_MKBP_EVENT_WAKEUP_MASK`; the interrupt
is a GPIO (a level: it cannot be lost) or a message that may fail or be missed.
The AP is external: it reacts to an interrupt by fetching events until told
there are no more, sleeps and wakes. The data of an event is abstract: a source
delivers, fails (get_next_event then returns an error, and the AP stops
polling), or is busy because another event is at the head of its FIFO, which is
then pending.

### Rollback

The configuration is that of the fingerprint boards. A step is one region read
(`Scan`, `Fetch`), the decision what to write (`Decide`), or one word erased or
written: erasing takes the words in any order, writing goes up the structure.
Each read of a region, the check before the erase, `Erase` and `Write` may
return an error, and `Reboot` comes at any moment. With
CONFIG_ROLLBACK_MPU_PROTECT interrupts are disabled from the first word erased
to the last written, so that only `Reboot` comes in between; before that a task
of higher priority may come in, and then `overlapped` says that one of the two
went on with stale data. The secret is the set of the additions hashed into it;
`mark` is the first addition made for the host's request to reset the secret,
from the start of `add_entropy_deferred` on. `Images` are the versions of the RW
images that are started. `rwsig_check_signature` is the part about versions; the
signature is taken to be right.

### Prl

`prl` is one record with the variables of the four state machines, and the
functions of the source are functions on it: a state's entry function is applied
where the state is set, so that a chain of `set_state` calls is one step, as in
the code. `stage` is the place in a round of `pd_task`: `tc_event_check`, the
policy engine, the reception, then `rch`, `tch`, `prl_tx`, `tch` again and
`prl_hr`. Results of the PHY, messages and expiring timers come between any two
of them. A message is its kind (plain, extended in `CHUNKS` chunks, chunk
request, Soft_Reset, Ping, hard reset), its number, its chunk number and its id.
`prl_reset` and `prl_reset_soft` only mark the layer (`local_state`); prl_init()
comes in the place of the next round's reception, and until then hard resets are
ignored, as the checks of `prl_is_running` in the code say. With a startup the
partner may start anew as well, with `prl_reset_soft` it goes on with its ids
until it receives the Soft_Reset that the policy engine sends after it
(`pe_soft`). Source and sink differ only in what ends the wait at the start of
an AMS; both are the timer "sink". External: the policy engine sends one message
at a time, does or does not start an AMS, starts up, resets, answers an error
with a Soft_Reset or goes on, a failed Soft_Reset with a hard reset, and an
incoming one with Accept; the partner sends, repeats its last message until it
receives one of ours, resets and keeps ids as the standard says; the PHY loses a
message, its GoodCRC or its result. Abstractions: a late result of a
transmission that was given up for another is left out; the timer of a hard
reset is longer than a round of the loop; a partner in its own hard reset
neither sends nor receives.

## 3. The runs

Every passing run also has a mutant per property, listed in `PROJECT.json`.

| run | configuration | distinct states | shows |
|---|---|---|---|
| `mutex` | 3 tasks that lock and unlock, and idle, 1 mutex, interrupts nested twice, fair | 18 k | MutualExclusion, HighestPriorityRuns, MutexGranted |
| `waits` | 2 tasks and idle, 1 mutex, 2 events, every kind of wait, interrupts, one task disabled at run time | 2.3 M | TypeOK, NoLostWakeup, NoLostEvent, EventsConserved, NoStaleTimer |
| `timers` | 2 tasks, words of 3 values, time 0..6 | 2.6 M | TypeOK, TimersProgrammed, DeadlineCoherent, refinement of TimerService |
| `timer_armed` | the same, time 0..7 | violation | EveryTimerProgrammed fails |
| `hooks` | 2 routines, tick 3, second 4, delays 0..2, 3 requests, time 0..7, fair; every table of up to 4 routines, 4 priorities | 0.6 M | TypeOK, NeverOversleeps, DeferredCalled, NotifiesInOrder |
| `hook_delay` | the same, second 5, time 0..9 | violation | DelayHonoured fails |
| `reset` | resettable tasks 3 and 5, requesters 2 and 4, 3 requests, fair | 46 k | TypeOK, OneResetter, QueuedExecuted, DoneWhenReset, TimerArmed, ResetReturns |
| `mkbp` | 2 event types, messages as interrupts, 1 failure (of an interrupt or of the data), a sleeping AP, fair | 0.6 M | TypeOK, TransitionOwned, ActiveMeansRaised, NoStarvation, EventFetched |
| `mkbp_cancel` | 2 event types, messages | violation | SafetyNet fails |
| `rollback` | versions 0..1, an RW image of version 1, 2 additions, ids 0..2, 1 command, fair | 0.5 M | TypeOK, AlwaysReadable, SuccessInEffect, OldSecretGone, NeverDecreases, RequestAnswered |
| `prl` | 1 message of PE (plain or Soft_Reset), 2 of the partner (plain, chunk, Soft_Reset), ids 0..2, 2 chunks, 1 reset or startup | 4.7 M | InOrder, SentIsReceived |
| `prl_live` | 1 message each, of PE of every kind, of the partner a chunk, a chunk request, Soft_Reset or Ping, 1 reset or startup, fair | 1.0 M | TypeOK, DiscardedNotSent, HardResetRequested, Answered, HardResetEnds |

Why the bounds are enough for the cases in question:

- `mutex`: three contenders are the least for which a waiter of the snapshot is
  still to be woken while another one takes, uses and frees the mutex, and a third
  comes anew. Nesting of two lets a handler post while another one has asked for
  rescheduling, or has found that nobody did and is about to return.
- `waits`: two events let one be waited for while the other comes. Interrupts do
  not nest here, which keeps the run short: what the waits see of handlers is the
  event words, the ready set and the timers, whichever handler writes them;
  nesting only matters to who runs next, which `mutex` checks.
- `timers`: a word of three values has a first, a middle and a last one, the last
  being the code's "no deadline"; the horizon crosses two overflows and every
  delay up to a full wrap is tried. The history is finite because the horizon is;
  nothing is assumed to happen at it. An overflow may be lost at either of the
  two.
- `hooks`: two routines are one before and one after the index the loop is at;
  three requests are a request, a change and a cancellation of one, or a request
  of each and a change. A request is made only if it is due by the horizon, so
  that DeferredCalled is not met vacuously; there, time stops and every timeout
  counts as passed.
- `reset`: requesters below, between and above the targets, and the hook task
  below all; three requests let two wait and one come without waiting or during
  the cleanup.
- `mkbp`: three ids suffice to keep two activators and one new activation apart
  (on the width of `interrupt_id` see [5](#5-what-is-proved)); two types make the
  round-robin order visible, and one failure is the one the retry is for, or an
  error of the data.
- `rollback`: ids 0..2 go round the two regions, so that every update but the
  first overwrites a block that was valid; two additions are one request to reset
  the secret; the version is raised by any task before, between and after them. At
  the bounds an update fails, which the code handles.
- `prl`: two messages of the partner are one and its repetition, one and the next,
  or the chunks of one; ours is in any state when they come. With three ids a
  stale one differs from the next and from the one before. A second message of
  ours comes in as the Accept of an incoming Soft_Reset, the hard reset of a
  failed Soft_Reset, and the chunk request.
- `prl_live`: one message of each side is enough for ours to be discarded or the
  hard reset to be hindered; PE's chunked messages are here.

Deadlock is checked in every run.

## 4. Fairness

- `Tasks`: handlers return (WF on IrqExit), the hook task finishes HOOK_INIT, and
  the current task executes: WF per task on the steps of the runtime and on
  unlocking. WF suffices because only the current task is enabled and a task of
  lower priority is enabled continuously once nothing preempts it. MutexGranted
  speaks of the task of highest priority and of the time after interrupts have
  ceased: the code has no priority inheritance and promises no more.
- `Hooks`: time passes, and the tasks of higher priority leave the hook task some
  time, or it would be hung by design of a fixed-priority scheduler.
- `TaskReset`: strong fairness on every task's steps, because a task is disabled
  whenever one of higher priority runs; and a task that has disabled resets
  enables them again, which `include/task.h` requires of it.
- `MkbpEvent`: every task gets to run, the AP reacts to an interrupt it sees, and
  the data of an event that is busy is ready some time.
- `Rollback`: the processor executes some task that can go on, and the hook task
  comes to its deferred calls, as DeferredCalled shows. Nothing is assumed of
  reboots: a boot answers a request too, since it forgets it.
- `Prl`: `pd_task` loops (it wakes every 5 ms at the latest), timers expire, and
  the PHY ends a transmission with a result unless its timer was first. Strong
  fairness on `prl_hard_reset_complete`: the policy engine, told of a hard reset,
  completes it, which its PE_*_TRANSITION_TO_DEFAULT states do.

No fairness is assumed of interrupts, of the AP's sleep, of requests, of
clients' calls or of the partner.

## 5. What is proved

The theorems are in `TasksProofs`, `TimerProofs`, `HooksProofs`,
`TaskResetProofs`, `MkbpEventProofs`, `RollbackProofs`, `PrlProofs` and
`PrlSendProofs`. They hold for every value of the constants: every number of
tasks, mutexes, events, routines, requests, messages and chunks, every length of
a word, all delays, every nesting of interrupts and every choice of what the
tasks call. The assumptions are those named in the modules (`TasksAssumption`,
`TimerAssumption`, ...): types of the constants, that there is a task and that
the horizon of `Timer` is not before the first overflow, that the idle and the
hook task neither are reset nor ask for resets. Where a theorem has a hypothesis
besides, its table says so; where a property is qualified (by `overlapped`,
`crossed`, `lost`, `overwritten`, `clean`, `apart`, `unhindered`),
[6](#6-where-the-code-deviates) says what the code does otherwise.

Each module proves an inductive invariant, called IInv in most of them, with one
lemma per action, and derives the properties from it.

**Tasks.** `Invariance` shows that IInv is inductive; the theorems follow from
it.

| theorem | states |
|---|---|
| TypeCorrect | `Spec => []TypeOK` |
| MutexSafe | `Spec => []MutualExclusion` |
| MutexWakes | `Spec => []NoLostWakeup` |
| EventsWake | `Spec => []NoLostEvent` |
| EventsKept | `Spec => []EventsConserved` |
| TimersCleared | `Spec => []NoStaleTimer` |
| PriorityRespected | `Spec => []HighestPriorityRuns` |

Why the strengthening is needed:

- MutualExclusion says nothing of the lock word; `LockOwned` adds that it is set
  exactly while somebody owns the mutex, so that whoever finds it 0 is alone.
- NoLostWakeup speaks of tasks asleep, too late to see why. `WaitersOK` follows a
  waiter from the moment it finds the lock taken: its wake-up is due from the
  owner, then from the snapshot, then from the send under way, then pending in its
  ready event word, then in the word it has taken. The step that matters is from
  owner to snapshot: the waiter is registered (first conjunct), so that the
  snapshot has it. `CurrentReady` and the second look of `svc_handler` carry it
  past the SVC.
- NoStaleTimer follows from `TimerOK`: a timer runs, and its event is pending,
  only between the arm and the two steps that cancel the one and clear the other,
  in this order.
- HighestPriorityRuns fails within handlers; `HighestUnlessDue` says that it holds
  there too unless a rescheduling is due. A request that comes between the look of
  the outermost handler and its return is not served by it
  ([6](#6-where-the-code-deviates), 4): what is proved is that the flag is then
  still set, so that the next handler reschedules.
- `ControlOK` relates labels and locals, as the type of a program counter.

**MKBP.** `MkbpInvariance` shows `TypeOK /\ Owned` inductive. TransitionOwned
and ActiveMeansRaised need `IdsDistinct` (tasks within an activation have
different ids) and `SentByOwner` (the owner of the current activation that
finished sending successfully has set `raised`): a task that compares its id
with `interrupt_id` then knows that nobody has started another activation.
IdsDistinct rests on a restriction of the model, a conjunct of `Add`: fewer than
`IDS` activations come while a task is within its own. In the code `IDS` is 256
and a task would have to be held up for 256 activations between two of its
critical sections; the theorems do not cover that case. RoundRobin is an action
property: `Distance` counts the types from the one served last to a pending one,
and the lemma SearchCloser shows that the search of `mkbp_get_next_event`, which
passes over nothing that is pending, brings every pending type that it does not
take closer.

| theorem | states |
|---|---|
| MkbpTypeCorrect | `Spec => []TypeOK` |
| ActivationOwned | `Spec => []TransitionOwned` |
| ActiveRaised | `Spec => []ActiveMeansRaised` |
| RoundRobin | `Spec => NoStarvation` |

**Timer.**

| theorem | states |
|---|---|
| TimerTypeCorrect | `Spec => []TypeOK` |
| TimeCoherent | `Spec => []DeadlineCoherent` |
| TimerRefines | `Spec => TimerServiceSpec` |
| AllProgrammed | `Spec => []TimersProgrammed` |

- `ClockOK`: the high word is behind the EC's clock by one exactly while an
  overflow is pending, which it still is when the handler has read it and not yet
  cleared it; `lost` counts the wraps that this clock is behind real time.
  DeadlineCoherent allows for those, which no code can see; TimerRefines is about
  real time, in which a timer can then only be late. `ReadOK` follows `get_time`
  through its reads: the high word read first is not ahead; if it equals the epoch
  at the check, both words belong together; if not, the second read of the low
  word is in a later epoch, and what the two make is not before the call began.
  That is why the time a timeout is counted from is neither early nor in the
  future.
- `RunningOK` adds that a timer runs only while its task waits, with a deadline
  not before the time its caller meant. With it each step of `Timer` is a step of
  `TimerService` or leaves its variables alone (the lemmas up to ServiceStep, one
  per action): this is the refinement that `Tasks` relies on.
- TimersProgrammed needs `PInv` as well, about `process_timers`: while it programs
  the match, `next` is the closest deadline unless the counter has overflowed
  (`NextOK`), the register holds it before the re-check (`SetOK`), and when the
  handler has nothing left to do the match is not passed (`MatchOK`). A timer just
  armed is covered by the task about to trigger the interrupt, as long as the high
  word it compares with is still right (`CoveredOK`, `ArmOK`).

**Hooks.**

| theorem | states |
|---|---|
| HooksTypeCorrect | `Spec => []TypeOK` |
| WakesInTime | `Spec => []NeverOversleeps` |
| StartSafe | `StartSpec => []TypeOK /\ []NeverOversleeps` |

NeverOversleeps speaks of the wait. `ScanOK` says what the loop knows before:
`next` is not later than the tick nor than any routine below the index, unless
`defer_new_call` is set. A request behind the index sets the flag, so the loop
goes round once more instead of sleeping; one that comes after the flag was read
leaves the wake event pending (`WaitOK`). `OwedOK`: a routine asked for has its
time set until it is entered.

**TaskReset.** `Separate` is the hypothesis that no task that may be reset
requests resets itself; without it the properties fail
([6](#6-where-the-code-deviates), 7). `include/task.h` does not ask for it; no
board in the repository has a list of resettable tasks yet.

| theorem | states |
|---|---|
| ResetTypeCorrect | `Spec => []TypeOK` |
| SingleResetter | `Separate /\ Spec => []OneResetter` |
| QueueServed | `Separate /\ Spec => []QueuedExecuted` |
| DoneIsTrue | `Separate /\ Spec => []DoneWhenReset` |
| TimersFree | `Separate /\ Spec => []TimerArmed` |

The core is `HolderOK`: the lock bit of a task is set exactly while the task
itself holds it (resets disabled, or cleaning up), or one task is about to reset
it, or it was just restarted and has not looked yet. The last case is where
priorities come in: a task that has been restarted can be reset again before it
runs only by a task above it that keeps it from running. `WordOK` adds that
waiters are registered only while the lock is taken, `PlaceOK` where the task
can be when it is in the hook task's set, `WaitersOK` that a waiter waits for
one reset and is not told before its bit is taken, `QueuesOK` that what is
queued is still a bit of the word. TimerArmed says which tasks can fail the
assertion on `timer_arm`: those that a reset found in a timed wait begun with
resets enabled ([6](#6-where-the-code-deviates), 7). No other order of waits,
resets and requests leads there, in particular none of a task that disables
resets around its timed waits.

**Rollback.**

| theorem | states |
|---|---|
| RollbackTypeCorrect | `Spec => []TypeOK` |
| Readable | `Spec => []AlwaysReadable` |
| SuccessTakesEffect | `Spec => []SuccessInEffect` |
| VersionsAdvance | `Spec => NeverDecreases` |
| ResetForgets | `Spec => []OldSecretGone` |

`RegionsOK` says that one region is the latest: complete, and the other one is
without a cookie or has a smaller id. `UpdatesOK` follows an update that is not
stale through the scan (the best so far of the regions seen), the fetch, the
erase and the write: its target is never the latest region, and the words
written so far are those of the new block, so that the last word, the cookie,
turns the target into the latest at once. Only one update is past its decision
(`Exclusive`). An error or a reboot at any word leaves the other region.
NeverDecreases is an action property; it and AlwaysReadable speak of executions
up to the first overlap. OldSecretGone needs `ResetInv`: which additions of the
host's request are in the block in effect and in the one being written, for each
of the two additions (`RequestOK`). It, too, speaks of executions without an
overlap.

**Prl.**

| theorem | states |
|---|---|
| PrlInvariance | `Spec => []IInv` |
| PrlTypeCorrect | `Spec => []TypeOK` |
| HardResetAsked | `Spec => []HardResetRequested` |
| OrderInvariance | `Spec => []OrderInv` |
| PassedInOrder | `Spec => []InOrder` |
| DiscardedStaysUnsent | `Spec => []DiscardedNotSent` |
| SentWasReceived | `Spec => []SentIsReceived` |

The model's operators map the record of the layer to the next one and are
composed as the functions of the code call one another. Each has a lemma
`...Ok`: it keeps `Good` (the types and `ChunksOK`) and moves the hard reset
only as `Follows` allows, and these compose.

- `ChunksOK`: while a chunk is built or sent its number is below the offset
  reached, and while the partner has to ask for the next one there is one left.
  Without it the types of the chunk numbers are not inductive.
- `HardOK` and `ResetsOK`: each flag of `prl_hr`, its timer, and the policy
  engine's own reset belong to the states that use them; the policy engine waits
  for the answer to a Soft_Reset only while there is no hard reset.
- `StageOK`: PRL_HR_RESET_LAYER is left in the round that enters it, and in
  between nothing was started that its entry cleared.
- `PathOK`: an unhindered hard reset finds the layer `Quiet` in
  PRL_HR_RESET_LAYER; then the Hard_Reset is `Asked` for, in `tch` and afterwards
  in `prl_tx`, with the timer of `prl_hr` running; then it has been requested.
- `QueueOK`: messages sent and messages queued stay within what the policy engine
  and the partner may send, which bounds the numbers of the answers.

The order of reception needs `OrderInv` on top of that. Nearly every operator
passes nothing up and at most gives up what is held (`Less`, which composes);
the operators of `rch`, `tch` and the reception have lemmas of their own.

- `Ord`, as long as nothing was overwritten: what was passed up is increasing and
  not newer than the message in `rx_chk_buf`, and older while that one is held; it
  is held in one place, by `tch`, by `rch` or by `rch` as it processes a chunk,
  and not while a message of ours is pending.
- `QueueOrdered`: the numbers of the messages on their way never decrease, equal
  ones are repetitions, and what the partner may still repeat comes last.
- `Stored`: the stored id is that of the message in `rx_chk_buf` unless a reset
  has forgotten it. Each message passed up bears the number of resets before its
  reception (`era`), so that two copies are told apart: the second one is in a
  later era.
- `StageOrd`: at which places of a round `rch` and `tch` in their wait states may
  have a message to take. `rch` runs before `tch`, so a message that `tch` hands
  over waits a round; meanwhile `tch` stays in TCH_MESSAGE_RECEIVED.

What becomes of a message that the policy engine hands over needs `SendInv`, on
top of IInv, in `PrlSendProofs`. Here, too, a lemma says of each operator which
fields it leaves alone (`Agree`) or what it does to the message (`TxMoves`,
`TchMoves`, ...), and a step is their composition.

- `Ids`, unless `apart`: the id the partner saw last is the one before ours, or
  one before those that went unacknowledged since (`Near`), or that of the message
  it has received and not acknowledged yet. The message in the PHY has our id
  (`Transmitting`), and if fewer than PD_MESSAGE_ID_COUNT were unacknowledged
  before it, its id differs from the one the partner saw last. A hard reset ends
  with no message of before it in the PHY (`ResetsApart`). Neither a startup that
  the partner does not know of nor `prl_reset_soft` keeps the ids in step: unless
  nothing was sent before, they set `apart`, until the Soft_Reset or a hard reset
  of ours reaches the partner. A Soft_Reset that the partner repeats is followed
  by no message of ours (`RetryOK`).
- `Numbers`: the numbers in use are those of messages handed over.
- `Fate`: a `clean` message is in one of five places. `tch` has not taken it up
  (`Handed`); it waits for `prl_tx` (`Waits`); the PHY has it or has a result
  (`Sending`); the result waits for `tch` (`Done`); or it is `Spent`, and then no
  flag of `tch` or `prl_tx` is left that could send it. The partner has not
  received it before `Sending`, and a discard comes only from `Handed` and
  `Waits`; a success after `Sending` comes with an id in step, so that the partner
  took the message for a new one. Where a place depends on the stage, that is
  because `rch`, `tch` and `prl_tx` see one another's flags only in the order in
  which a round runs them.

Three attempts at these proofs failed for a good reason, and TLC confirmed each
with a counterexample beyond the bounds of the run:

- (InOrder) An error of `rch` removed from the history variable `accepted` a
  message that `tch` still held, so that a later one was written over it without
  `overwritten` being set.
- (DiscardedNotSent) An Accept that answers the partner's Soft_Reset during a hard
  reset is a message like any other for `prl_send_ctrl_msg`; what the hard reset
  left in `tch` and `prl_tx` may send it after its discard. `clean` now asks that
  no hard reset is under way, and that nothing is left of a prl_init(), after which
  the PHY may still have a message or a result of before.
- (SentIsReceived) After PD_MESSAGE_ID_COUNT unacknowledged messages in a row the
  next id is again the one the partner saw last, and a Soft_Reset of ours that is
  discarded leaves the partner's stored id behind. Both now set `apart`
  ([6](#6-where-the-code-deviates), 17).

**Only model-checked.** Liveness (MutexGranted, DeferredCalled, ResetReturns,
EventFetched, RequestAnswered, Answered, HardResetEnds) is out of this prover's
reach, and so is what the recursive function in `hook_notify` computes for every
table (NotifiesInOrder): it takes an induction over the table. Every other
property of a passing run is a theorem.

## 6. Where the code deviates

Each of the first three has a run that TLC ends with a counterexample.

1. **A timer armed across an overflow** (`timer_armed`, `timer.c:138`).
   `timer_arm` decides whether to reprogram the hardware with the high word it
   read on entry. If the counter overflows and the interrupt is served before the
   running bit is set, a deadline in the new epoch is taken for one of a later
   epoch, and no interrupt is programmed for it. Unless another timer event comes,
   it expires at the next overflow, up to 2^32 us late. AllProgrammed proves that
   this is the only way: TimersProgrammed holds for every timer not in `crossed`.
2. **A delay changed while the routine becomes due** (`hook_delay`,
   `hooks.c:203`). Check and clear are two steps; a request or a cancellation in
   between is overwritten, and the routine is called at once. DeferredCalled and
   NeverOversleeps show that nothing worse follows.
3. **The safety net cancelled** (`mkbp_cancel`, `mkbp_event.c:350`).
   `set_inactive_if_no_events` cancels the deferred call outside the lock and may
   cancel the one just requested for a new event. A GPIO interrupt is still seen
   (EventFetched); a message that is missed is not repeated. With `SLEEPS = TRUE`
   there is a second way to violate SafetyNet: the retry adds no event, so for a
   sleeping AP it never finds one in the wake mask and skips the interrupt.

Seen in the model as well; most contradict no line of the repository:

4. **A rescheduling missed at the exit of a handler** (`task.c:395`).
   `task_resched_if_needed` loads the flag, and the exception return is a later
   instruction. A handler nested in between sets the flag and, being nested, does
   not reschedule: the interrupted task goes on although one of higher priority is
   ready. The documentation says that "When the current interrupt is going to
   return, it will see this bit" (`docs/core_runtime.md:119`). The flag stays set,
   and the next handler, or the next SVC of the task, makes up for it
   (HighestPriorityRuns); with task profiling every handler reschedules.
   MutexGranted presupposes that something does.
5. **An overflow lost** (`hwtimer32.c:57`). The handler reads the status register
   and then clears all of it. A counter that overflows in between leaves no trace:
   `clksrc_high`, and with it every later `get_time()`, is 2^32 us behind for
   ever, and timers armed before are late by as much (`lost`). A match lost in the
   same way does no harm, because process_timers() looks at the time after the
   clear.
6. `mutex_unlock` may send TASK_EVENT_MUTEX to a task of its snapshot that has
   meanwhile taken and freed the mutex: the task then has a spurious event
   pending, which ends a plain `task_wait_event` early.
7. `do_task_reset` leaves the timer of the task running: a task that is reset in a
   timed wait, with resets enabled, and waits with a timeout again fails the
   assertion on `timer_arm` and the EC reboots. TimerArmed says that this is the
   only way; `include/task.h:299` lets a task be reset at any point. It leaves the
   events, too: a requester that is itself resettable (`Resettable = {3, 4}`,
   `Requesters = {2, 4}`) and is reset while it waits may later take the answer to
   its first request for one to its second (DoneWhenReset is violated). With a
   third requester (`Requesters = {2, 4, 5}`) one is reset between taking the lock
   of another and `do_task_reset`: the lock is left with nobody, and OneResetter
   and QueuedExecuted are violated too. This is what the hypothesis `Separate` of
   the theorems excludes.
8. `task_enable_task` does not reschedule, so HighestPriorityRuns exempts the
   tasks that are disabled at run time.
9. When the data of an event cannot be had (`mkbp_event.c:425`), or the event has
   no source, `get_next_event` returns EC_RES_ERROR and the AP stops polling.
   Other events still pending then wait, the interrupt being active already, until
   the deferred call repeats it; and if that call was cancelled (3), until the AP
   asks by itself. EventFetched assumes that there is no such error.
10. `rollback_update` holds no lock between `get_latest_rollback` and the erase
   (`rollback.c:265`, `:327`). A task that is preempted in between by another
   update writes over the block that update has made the latest; the version it
   set and the entropy it added are gone, and a power failure during that write
   leaves the older block. The properties hold up to the first overlap.
   `get_latest_rollback` clears only the secret when no region is valid and leaves
   the rest of `data` uninitialised (its comment says zeros); AlwaysReadable shows
   that this does not come up.
11. A hard reset resets the flags of `tch` and `rch` but not their states, and
   leaves a message pending in `prl_tx` (`usb_prl_sm.c:1255`). When one of them is
   busy, the hard reset message stays in `tch`, is answered with an error, or an
   old message is transmitted in its place, and after the timer PE is told that
   the reset was sent. A message that comes in meanwhile discards the hard reset
   message and enables reception again (`:2130`). HardResetRequested has these
   cases as its premise (`unhindered`); HardResetEnds has none.
12. Clearing the flags also clears CHUNKING, which only the entry of the wait
   states sets again (`:1262`, `:1400`): machines that are in them already do not
   enter, and the next extended message is an error, or goes out as one piece.
13. `prl_rx_wait_for_phy_message` keeps off `rx_chk_buf` only while `rch` has its
   flag set (`:2039`), not while `tch` holds a message or `rch` is to process a
   chunk: a second message is written over the first. InOrder exempts what follows
   (`overwritten`). A message given to `tch` while it is in TCH_MESSAGE_RECEIVED
   is dropped with the flags (`:1702`), and one that is not extended leaves `rch`
   in RCH_WAITING_CHUNK with its timer not looked at (`:1617`).
14. A message that the partner repeats after a reset of ours has forgotten the
   stored id (`prl_init`, `:1271`, a hard reset or a Soft_Reset) is taken for a
   new one and passed up again. InOrder says that there is no other way, unless
   (13) came before.
15. TX_COMPLETE and TX_ERROR that nobody waited for (of a chunk, of a request for
   a chunk, of a message abandoned by a reset) are taken for the next message's.
   TCH_SENDING_CHUNKED_MESSAGE reports a message as sent once its last chunk is
   handed over, without waiting for the result (`:1880`), and a timeout of the
   wait for a request is reported as sent. A discarded chunk request is reported
   as a discarded message of PE. What was under way when a hard reset or
   prl_init() came may still be sent, or its result be taken for that of a message
   handed over afterwards. SentIsReceived and DiscardedNotSent hold for a message
   that is not chunked, with nothing left of an earlier one or of a reset
   (`clean`).
16. A Soft_Reset in PRL_TX_LAYER_RESET_FOR_TRANSMIT is dropped by a message that
   comes in, without a report: PE hears of the message instead (Answered).
17. `prl_reset_soft` sets our ids to 0 before the Soft_Reset goes out. Until it
   reaches the partner (and it may be lost or discarded) the two sides are out of
   step, and so they are after a startup of ours alone. The same comes of a
   transmission that crosses the partner's Soft_Reset or that the end of a hard
   reset abandons, and of PD_MESSAGE_ID_COUNT (7) messages in a row that the
   partner has not acknowledged: the id is incremented for each (`:1126`), and the
   eighth has the id of the last it has seen. Our next message may then be taken
   for a repetition and be reported as sent (`apart`).
18. While `prl_init` is due (`local_state` is SM_INIT) a hard reset of the partner
   or of the policy engine is ignored (`:527`), and an error that is reported to
   the policy engine in the rounds of a hard reset makes it send a Soft_Reset,
   which ends the hard reset (`usb_pe_drp_sm.c:1295`).

## 7. What is not modelled

- In `task.c`: context switching, FPU state, stack checks, profiling counters,
  console commands, `task_enable_irq` and friends.
- The clock of `task_wait_event_mask`: the 64-bit difference cut to an `int`
  (`task.c:470`) needs deadlines in `Tasks`; planned as a composition.
- The two stores of a 64-bit `__deferred_until` (`hooks.c:159`) are one. Priorities
  of hooks outside the range, with which the loop of `hook_notify` does not end.
- `CONFIG_HWTIMER_64BIT`, chips other than stm32, the registers of the timer.
- In `mkbp_event.c`: CONFIG_MKBP_USE_HOST_EVENT's own mask and the build without
  wake masks, whose control is a special case.
- In `rollback.c`: hashing, the random numbers, reading the secret, and builds
  without CONFIG_ROLLBACK_MPU_PROTECT, in which an update can be preempted between
  any two words.
- In `usb_prl_sm.c`: packets other than SOP and revisions below 3.0, for which the
  chunking machines only pass messages through; the build without extended
  messages; more than one port (their states are separate); `prl_run` while PD is
  disabled (SM_PAUSED).
- The other cores' runtimes have the same interface and different code; only
  cortex-m is modelled.
- Drivers, boards, chips: bus transactions and configuration, with little state
  that a model could tell more about than the code. The policy engine and the
  Type-C state machine (each some thousand lines, with board callbacks at most
  transitions) and per-chipset power sequencing are projects of their own; `Prl`
  has of them what they call and are told. Calibration and lid-angle code is
  floating point. Hashes and signatures are computation.

`PROJECT.json` lists all of them, and under `hazards` the main places where the
modelled code is exposed, with the properties that cover it or the reason why
none does.

## 8. Plan

Worth modelling next: `common/queue.c` (a ring buffer with free-running
indices), the one-command-in-progress protocol of `common/host_command.c`, the
staged FIFO of `common/motion_sense_fifo.c`, and the deadline arithmetic of
`task_wait_event_mask` as a composition of `Tasks` and `TimerService`.

## 9. Using it

```
tlc -workers 2 -config MCTasks_mutex.cfg MCTasks
tlapm TasksProofs.tla
```

Every run takes less than three minutes (`prl_live` most), the proofs
together about ten.
