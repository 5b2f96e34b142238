-------------------------- MODULE TaskResetProofs --------------------------
(***************************************************************************)
(* Proofs about task resets, for every number of tasks and of requests and *)
(* every choice of the resettable tasks and of the requesters.             *)
(***************************************************************************)
EXTENDS TaskReset, FiniteSetTheorems, TLAPS

\* No task that may be reset resets another: one that is reset between taking
\* the lock and do_task_reset() would leave the lock with nobody.
Separate == Requesters \cap Resettable = {}

-----------------------------------------------------------------------------
(* The inductive invariant                                                 *)

OwnPc == {"own", "timed", "assert", "start", "release", "pick", "notify",
          "enable", "defer", "call", "forever"}

\* Who executes what.
RolesOK ==
  /\ \A r \in Resettable : pc[r] \in OwnPc
  /\ pc[TASK_ID_HOOKS] \in {"own", "loop", "do"}
  /\ \A a \in TaskId \ Resettable : a # TASK_ID_HOOKS =>
       pc[a] \in {"own", "reset", "await"}
  /\ \A t \in TaskId : pc[t] \in {"reset", "do"} => target[t] \in Resettable

\* The bits of the state word.
WordOK(r) ==
  /\ SUPPORTED \in task_reset_state[r]
  /\ LOCK \notin task_reset_state[r] => task_reset_state[r] = {SUPPORTED}
  /\ pc[r] = "notify" => notify[r] \in Waiters(task_reset_state[r])

\* Where the task can be while it has resets disabled, or waits for the hook
\* task to reset it, or was made ready by do_task_reset().
PlaceOK(r) ==
  /\ r \in disabled => pc[r] \in {"own", "timed", "assert"}
  /\ r \in deferred_reset_task_ids => pc[r] \in {"call", "forever"}
  /\ pc[r] = "call" => r \in deferred_reset_task_ids
  /\ r \in unscheduled => pc[r] = "start" /\ LOCK \in task_reset_state[r]

\* The lock has one holder.  (A task that was started but has not looked at
\* its lock yet can be reset only by a task that keeps it from running.)
HolderOK(r) ==
  /\ LOCK \in task_reset_state[r] =>
       HeldByItself(r) \/ Resetters(r) # {} \/ pc[r] = "start"
  /\ HeldByItself(r) => LOCK \in task_reset_state[r] /\ Resetters(r) = {}
  /\ \A t \in Resetters(r) :
       /\ LOCK \in task_reset_state[r]
       /\ Resetters(r) = {t}
       /\ pc[r] = "start" => t > r /\ r \notin unscheduled
  /\ pc[r] = "forever" => Resetters(r) # {} \/ r \in deferred_reset_task_ids

LockOK(r) == WordOK(r) /\ PlaceOK(r) /\ HolderOK(r)

\* A task waits for one reset at a time, until it is told.
WaitersOK ==
  /\ \A a \in reset_done : pc[a] = "await"
  /\ \A r \in Resettable : \A a \in TaskId :
       a \in task_reset_state[r] =>
         /\ pc[a] = "await" /\ a \notin reset_done
         /\ \A s \in Resettable : a \in task_reset_state[s] => s = r

\* A queued request is one of the bits, until the task is reset.
QueuesOK ==
  \A r \in Resettable :
    /\ queued[r] \subseteq Waiters(task_reset_state[r])
    /\ pc[r] \in Cleanup => queued[r] = {}

\* A timer runs for a wait under way, or was left behind by a reset.
TimerOK(r) ==
  /\ r \in timer_running => pc[r] = "timed" \/ r \in timed_reset
  /\ pc[r] = "assert" => r \in timed_reset

TimersOK == \A r \in Resettable : TimerOK(r)

IInv ==
  /\ Separate /\ TypeOK /\ RolesOK
  /\ \A r \in Resettable : LockOK(r)
  /\ WaitersOK /\ QueuesOK /\ TimersOK

-----------------------------------------------------------------------------
(* Type correctness                                                        *)

LEMMA Bits ==
  /\ SUPPORTED \in 0 .. WORD - 1 /\ LOCK \in 0 .. WORD - 1 /\ SUPPORTED # LOCK
  /\ SUPPORTED \notin 0 .. TASK_ID_COUNT /\ LOCK \notin 0 .. TASK_ID_COUNT
  /\ TASK_ID_COUNT \in 0 .. WORD - 1 /\ TASK_ID_COUNT \notin TaskId
  /\ TASK_ID_COUNT \in 0 .. TASK_ID_COUNT
  /\ TaskId \subseteq 0 .. TASK_ID_COUNT /\ TaskId \subseteq 0 .. WORD - 1
  /\ SUPPORTED \notin TaskId /\ LOCK \notin TaskId /\ 0 \in TaskId /\ 0 \in 0 .. WORD - 1
  BY ResetAssumption DEF SUPPORTED, LOCK, TaskId

LEMMA Roles ==
  /\ TASK_ID_HOOKS \in TaskId /\ Resettable \subseteq TaskId
  /\ Requesters \subseteq TaskId
  /\ TASK_ID_HOOKS \notin Resettable /\ TASK_ID_HOOKS \notin Requesters
  /\ \A r \in Resettable : r > TASK_ID_HOOKS
  <1>1. TASK_ID_HOOKS \in TaskId /\ Resettable \subseteq TaskId
        /\ Requesters \subseteq TaskId
        /\ TASK_ID_HOOKS \notin Resettable /\ TASK_ID_HOOKS \notin Requesters
    BY ResetAssumption DEF TaskId, TASK_ID_HOOKS
  <1>2. \A r \in TaskId \ {TASK_ID_IDLE, TASK_ID_HOOKS} : r > TASK_ID_HOOKS
    BY ResetAssumption DEF TaskId, TASK_ID_HOOKS, TASK_ID_IDLE
  <1> QED  BY <1>1, <1>2, ResetAssumption

\* do_task_reset() is called for a resettable task.
TargetsOK ==
  \A t \in TaskId : pc[t] \in {"reset", "do"} => target[t] \in Resettable

LEMMA OwnTyped ==
  ASSUME TypeOK, TargetsOK, NEW r \in Resettable,
         Step(r) \/ TimedWait(r) \/ Expire(r)
           \/ task_disable_resets(r) \/ task_enable_resets(r)
  PROVE  TypeOK' /\ TargetsOK'
  <1>0. r \in TaskId /\ {SUPPORTED} \in SUBSET (0 .. WORD - 1)
        /\ {SUPPORTED, LOCK} \in SUBSET (0 .. WORD - 1) /\ 0 \in 0 .. WORD - 1
        /\ Waiters(task_reset_state[r]) \subseteq 0 .. WORD - 1
    BY Roles, Bits DEF TypeOK, Waiters
  <1> USE DEF TypeOK, PcValues, deferral, timers, locals
  <1>1. /\ task_reset_state' \in [Resettable -> SUBSET (0 .. WORD - 1)]
        /\ UNCHANGED <<target, requests, queued>> /\ pc' \in [TaskId -> PcValues]
        /\ \A t \in TaskId : pc'[t] \in {"reset", "do"} => pc[t] \in {"reset", "do"}
    <2>1. CASE CleanupStart(r) \/ Pick(r) \/ ScheduleReset(r) \/ CallDeferred(r)
                 \/ EndWait(r) \/ Expire(r) \/ task_enable_resets(r)
      BY <1>0, <2>1 DEF CleanupStart, Pick, ScheduleReset, CallDeferred, EndWait,
                        Expire, task_enable_resets, Goto
    <2>2. CASE TimedWait(r)
      BY <1>0, <2>2 DEF TimedWait, Goto
    <2>3. CASE Notify(r)
      BY <1>0, <2>3 DEF Notify, Goto
    <2>4. CASE TryRelease(r) \/ EnableRelease(r)
      BY <1>0, <2>4 DEF TryRelease, EnableRelease, try_release_reset_lock,
                        update_reset_state, Goto
    <2>5. CASE task_disable_resets(r)
      BY <1>0, <2>5 DEF task_disable_resets, try_acquire_reset_lock,
                        update_reset_state, Goto
    <2> QED  BY <2>1, <2>2, <2>3, <2>4, <2>5 DEF Step
  <1>2. /\ deferred_reset_task_ids' \subseteq Resettable /\ deferred_call' \in BOOLEAN
        /\ reset_done' \subseteq TaskId /\ timer_running' \subseteq Resettable
        /\ timed_reset' \subseteq Resettable
        /\ notify' \in [TaskId -> 0 .. WORD - 1]
        /\ unscheduled' \subseteq Resettable /\ disabled' \subseteq Resettable
    <2>1. CASE CleanupStart(r) \/ ScheduleReset(r) \/ CallDeferred(r) \/ EndWait(r)
                 \/ Expire(r) \/ TimedWait(r)
      BY <2>1 DEF CleanupStart, ScheduleReset, CallDeferred, EndWait, Expire,
                  TimedWait, At
    <2>2. CASE Pick(r)
      BY <1>0, <2>2 DEF Pick, At
    <2>3. CASE Notify(r)
      BY <1>0, <2>3 DEF Notify, At
    <2>4. CASE TryRelease(r) \/ EnableRelease(r)
      BY <2>4 DEF TryRelease, EnableRelease, At
    <2>5. CASE task_enable_resets(r) \/ task_disable_resets(r)
      BY <2>5 DEF task_enable_resets, task_disable_resets, At
    <2> QED  BY <2>1, <2>2, <2>3, <2>4, <2>5 DEF Step
  <1> QED  BY <1>1, <1>2 DEF TargetsOK

LEMMA DoResetTyped ==
  ASSUME TypeOK, TargetsOK, NEW t \in TaskId, NEW r \in Resettable,
         NEW label \in {"own", "loop"},
         do_task_reset(t, r, label), UNCHANGED deferral
  PROVE  TypeOK' /\ TargetsOK'
  <1>0. r \in TaskId /\ 0 \in TaskId /\ 0 \in 0 .. WORD - 1
    BY Roles, Bits
  <1> USE DEF TypeOK
  <1>1. /\ pc' \in [TaskId -> PcValues] /\ target' \in [TaskId -> TaskId]
        /\ \A u \in TaskId : pc'[u] = IF u = t THEN label
                                      ELSE IF u = r THEN "start" ELSE pc[u]
        /\ \A u \in TaskId : u # t /\ u # r => target'[u] = target[u]
    BY <1>0 DEF do_task_reset, PcValues
  <1>2. TargetsOK'
    BY <1>1 DEF TargetsOK
  <1> QED  BY <1>0, <1>1, <1>2 DEF do_task_reset, deferral

LEMMA OthersTyped ==
  ASSUME TypeOK, TargetsOK,
         \/ \E a \in Requesters, r \in Resettable, wait \in BOOLEAN :
              task_reset(a, r, wait)
         \/ \E a \in Requesters : Reset(a) \/ Await(a)
         \/ deferred_task_reset
  PROVE  TypeOK' /\ TargetsOK'
  <1>1. ASSUME NEW a \in Requesters, NEW r \in Resettable, NEW wait \in BOOLEAN,
               task_reset(a, r, wait)
        PROVE  TypeOK' /\ TargetsOK'
    <2>0. a \in TaskId /\ r \in TaskId /\ {LOCK} \subseteq 0 .. WORD - 1
      BY Roles, Bits
    <2> DEFINE waiter_id == IF wait THEN a ELSE TASK_ID_COUNT
    <2>1. waiter_id \in 0 .. WORD - 1
      BY <2>0, Bits
    <2>2. requests' \in 0 .. REQUESTS
      BY <1>1, ResetAssumption DEF task_reset, TypeOK
    <2> USE DEF TypeOK, PcValues
    <2>3. CASE LOCK \in task_reset_state[r]
      <3>1. /\ task_reset_state' \in [Resettable -> SUBSET (0 .. WORD - 1)]
            /\ queued' \in [Resettable -> SUBSET (0 .. WORD - 1)]
            /\ pc' \in [TaskId -> PcValues] /\ target' = target
            /\ \A t \in TaskId : pc'[t] \in {"reset", "do"} => pc[t] \in {"reset", "do"}
        BY <1>1, <2>0, <2>1, <2>3 DEF task_reset, Goto
      <3> QED  BY <1>1, <2>2, <3>1 DEF task_reset, At, timers, deferral, TargetsOK
    <2>4. CASE LOCK \notin task_reset_state[r]
      <3>1. /\ task_reset_state' \in [Resettable -> SUBSET (0 .. WORD - 1)]
            /\ queued' = queued
            /\ pc' \in [TaskId -> PcValues] /\ target' \in [TaskId -> TaskId]
            /\ \A t \in TaskId : t # a => pc'[t] = pc[t] /\ target'[t] = target[t]
            /\ target'[a] = r
        BY <1>1, <2>0, <2>4 DEF task_reset, Goto
      <3> QED  BY <1>1, <2>2, <3>1 DEF task_reset, At, timers, deferral, TargetsOK
    <2> QED  BY <2>3, <2>4
  <1>2. ASSUME NEW a \in Requesters, Reset(a) PROVE TypeOK' /\ TargetsOK'
    <2>1. a \in TaskId /\ target[a] \in Resettable
      BY <1>2, Roles DEF Reset, TargetsOK
    <2> QED  BY <1>2, <2>1, DoResetTyped DEF Reset
  <1>3. ASSUME NEW a \in Requesters, Await(a) PROVE TypeOK' /\ TargetsOK'
    <2>1. /\ pc' \in [TaskId -> PcValues]
          /\ \A t \in TaskId : pc'[t] \in {"reset", "do"} => pc[t] \in {"reset", "do"}
      BY <1>3, Roles DEF Await, Goto, TypeOK, PcValues
    <2> QED  BY <1>3, <2>1 DEF Await, At, timers, deferral, locals, TypeOK, TargetsOK
  <1>4. CASE DeferredStart
    <2>1. /\ pc' \in [TaskId -> PcValues]
          /\ \A t \in TaskId : pc'[t] \in {"reset", "do"} => pc[t] \in {"reset", "do"}
      BY <1>4, Roles DEF DeferredStart, Goto, TypeOK, PcValues
    <2> QED  BY <1>4, <2>1 DEF DeferredStart, At, timers, locals, TypeOK, TargetsOK
  <1>5. CASE DeferredLoop
    <2>1. CASE deferred_reset_task_ids = {}
      <3>1. /\ pc' \in [TaskId -> PcValues]
            /\ \A t \in TaskId : pc'[t] \in {"reset", "do"} => pc[t] \in {"reset", "do"}
        BY <1>5, <2>1, Roles DEF DeferredLoop, Goto, TypeOK, PcValues
      <3> QED  BY <1>5, <2>1, <3>1 DEF DeferredLoop, At, timers, TypeOK, TargetsOK
    <2>2. CASE deferred_reset_task_ids # {}
      <3>1. PICK r \in deferred_reset_task_ids :
              /\ deferred_reset_task_ids' = deferred_reset_task_ids \ {r}
              /\ target' = [target EXCEPT ![TASK_ID_HOOKS] = r]
        BY <1>5, <2>2 DEF DeferredLoop
      <3>2. r \in Resettable /\ r \in TaskId
        BY Roles DEF TypeOK
      <3>3. /\ pc' \in [TaskId -> PcValues] /\ target' \in [TaskId -> TaskId]
            /\ \A t \in TaskId : t # TASK_ID_HOOKS =>
                 pc'[t] = pc[t] /\ target'[t] = target[t]
            /\ target'[TASK_ID_HOOKS] = r
        BY <1>5, <2>2, <3>1, <3>2, Roles DEF DeferredLoop, Goto, TypeOK, PcValues
      <3> QED  BY <1>5, <3>1, <3>2, <3>3 DEF DeferredLoop, At, timers, TypeOK, TargetsOK
    <2> QED  BY <2>1, <2>2
  <1>6. CASE DeferredReset
    <2>1. target[TASK_ID_HOOKS] \in Resettable
      BY <1>6, Roles DEF DeferredReset, TargetsOK
    <2> QED  BY <1>6, <2>1, Roles, DoResetTyped DEF DeferredReset
  <1> QED  BY <1>1, <1>2, <1>3, <1>4, <1>5, <1>6 DEF deferred_task_reset

LEMMA TypeInit == Init => TypeOK /\ TargetsOK
  <1> SUFFICES ASSUME Init PROVE TypeOK /\ TargetsOK
    OBVIOUS
  <1>1. 0 \in 0 .. REQUESTS
    BY ResetAssumption
  <1> QED
    BY <1>1, Bits DEF Init, TypeOK, TargetsOK, PcValues, Supported, Zero, Entry,
                      NoBits

LEMMA BootTyped == TypeOK /\ Reboot => TypeOK' /\ TargetsOK'
  <1> SUFFICES ASSUME TypeOK, Reboot PROVE TypeOK' /\ TargetsOK'
    OBVIOUS
  <1>1. /\ task_reset_state' \in [Resettable -> SUBSET (0 .. WORD - 1)]
        /\ queued' \in [Resettable -> SUBSET (0 .. WORD - 1)]
    BY Bits DEF Reboot, Supported, NoBits
  <1>2. pc' \in [TaskId -> PcValues] /\ TargetsOK'
    BY DEF Reboot, Entry, PcValues, TargetsOK
  <1>3. target' \in [TaskId -> TaskId] /\ notify' \in [TaskId -> 0 .. WORD - 1]
    BY Bits DEF Reboot, Zero
  <1> QED  BY <1>1, <1>2, <1>3 DEF Reboot, TypeOK

LEMMA TypeStep == TypeOK /\ TargetsOK /\ [Next]_vars => TypeOK' /\ TargetsOK'
  <1> SUFFICES ASSUME TypeOK, TargetsOK, [Next]_vars PROVE TypeOK' /\ TargetsOK'
    OBVIOUS
  <1>1. CASE UNCHANGED vars
    BY <1>1 DEF vars, deferral, timers, locals, TypeOK, TargetsOK
  <1>2. CASE Reboot
    BY <1>2, BootTyped
  <1> QED  BY <1>1, <1>2, OwnTyped, OthersTyped DEF Next

\* Every state word, every task id and every place stays within its type; what
\* is reset is a resettable task.
THEOREM ResetTypeCorrect == Spec => []TypeOK
  BY TypeInit, TypeStep, PTL DEF Spec

-----------------------------------------------------------------------------
(* The steps of a resettable task                                          *)

\* A step of task r that leaves the other tasks and their words alone.
OnlyOwn(r) ==
  /\ \A t \in TaskId \ {r} : pc'[t] = pc[t]
  /\ pc'[r] \in OwnPc
  /\ UNCHANGED target
  /\ \A s \in Resettable \ {r} :
       /\ task_reset_state'[s] = task_reset_state[s] /\ notify'[s] = notify[s]
       /\ s \in disabled' <=> s \in disabled
       /\ s \in deferred_reset_task_ids' <=> s \in deferred_reset_task_ids
  /\ unscheduled' \subseteq unscheduled

\* What concerns task s is as it was.
LEMMA Frame ==
  ASSUME NEW s \in Resettable, LockOK(s), pc'[s] = pc[s],
         task_reset_state'[s] = task_reset_state[s], notify'[s] = notify[s],
         s \in disabled' <=> s \in disabled,
         s \in deferred_reset_task_ids' <=> s \in deferred_reset_task_ids,
         s \in unscheduled' => s \in unscheduled,
         Resetters(s)' = Resetters(s)
  PROVE  LockOK(s)'
  <1>1. WordOK(s)'
    BY DEF LockOK, WordOK
  <1>2. PlaceOK(s)'
    BY DEF LockOK, PlaceOK
  <1>3. HolderOK(s)'
    BY DEF LockOK, HolderOK, HeldByItself
  <1> QED  BY <1>1, <1>2, <1>3 DEF LockOK

LEMMA OwnFrame ==
  ASSUME IInv, NEW r \in Resettable, OnlyOwn(r)
  PROVE  /\ RolesOK'
         /\ \A s \in Resettable : Resetters(s)' = Resetters(s)
         /\ \A s \in Resettable \ {r} : LockOK(s)'
  <1>0. RolesOK /\ Resettable \subseteq TaskId /\ TASK_ID_HOOKS \in TaskId
        /\ TASK_ID_HOOKS # r
    BY Roles DEF IInv
  <1>1. RolesOK'
    BY <1>0 DEF RolesOK, OnlyOwn, OwnPc
  <1>2. \A t \in TaskId : pc'[t] \in {"reset", "do"} <=> pc[t] \in {"reset", "do"}
    BY <1>0 DEF OnlyOwn, RolesOK, OwnPc
  <1>3. \A s \in Resettable : Resetters(s)' = Resetters(s)
    BY <1>2 DEF Resetters, OnlyOwn
  <1>4. ASSUME NEW s \in Resettable \ {r} PROVE LockOK(s)'
    BY <1>0, <1>3, Frame DEF OnlyOwn, IInv
  <1> QED  BY <1>1, <1>3, <1>4

\* It tells nobody anything, and only takes itself off somebody's list.
LEMMA OwnWaiters ==
  ASSUME IInv, NEW r \in Resettable, OnlyOwn(r), reset_done' = reset_done,
         \A a \in TaskId : a \in task_reset_state'[r] => a \in task_reset_state[r]
  PROVE  WaitersOK'
  <1>1. \A a \in TaskId : pc[a] = "await" => pc'[a] = "await"
    BY DEF IInv, RolesOK, OwnPc, OnlyOwn
  <1>2. reset_done \subseteq TaskId
    BY DEF IInv, TypeOK
  <1>3. \A s \in Resettable : \A a \in TaskId :
          a \in task_reset_state'[s] => a \in task_reset_state[s]
    BY DEF OnlyOwn
  <1> QED  BY <1>1, <1>2, <1>3 DEF IInv, WaitersOK

\* It leaves the requests alone, or there are none when it releases the lock.
LEMMA OwnQueues ==
  ASSUME IInv, NEW r \in Resettable, OnlyOwn(r), queued' = queued,
         queued[r] \subseteq Waiters(task_reset_state'[r]),
         pc'[r] \in Cleanup => pc[r] \in Cleanup
  PROVE  QueuesOK'
  <1>1. \A s \in Resettable \ {r} : pc'[s] = pc[s]
    BY Roles DEF OnlyOwn
  <1> QED  BY <1>1 DEF IInv, QueuesOK, OnlyOwn

LEMMA OwnTimers ==
  ASSUME IInv, NEW r \in Resettable, OnlyOwn(r),
         timer_running' \ {r} \subseteq timer_running,
         timed_reset \ {r} \subseteq timed_reset', TimerOK(r)'
  PROVE  TimersOK'
  <1>1. \A s \in Resettable \ {r} : pc'[s] = pc[s]
    BY Roles DEF OnlyOwn
  <1>2. \A s \in Resettable \ {r} :
          /\ s \in timer_running' => s \in timer_running
          /\ s \in timed_reset => s \in timed_reset'
    OBVIOUS
  <1> QED  BY <1>1, <1>2 DEF IInv, TimersOK, TimerOK

\* It leaves the timers alone, and is not waiting with a timeout.
LEMMA OwnNoTimer ==
  ASSUME IInv, NEW r \in Resettable, OnlyOwn(r), UNCHANGED timers,
         pc[r] # "timed", pc'[r] # "assert"
  PROVE  TimersOK'
  BY OwnTimers DEF IInv, TimersOK, TimerOK, timers

LEMMA OwnInv ==
  ASSUME IInv, TypeOK', NEW r \in Resettable, OnlyOwn(r), LockOK(r)', WaitersOK',
         QueuesOK', TimersOK'
  PROVE  IInv'
  <1>1. RolesOK' /\ \A s \in Resettable : LockOK(s)'
    BY OwnFrame
  <1> QED  BY <1>1 DEF IInv, Separate

\* The locals and the place of r after a step to `label'.
LEMMA Moved ==
  ASSUME TypeOK, NEW r \in TaskId, NEW label, Goto(r, label)
  PROVE  pc'[r] = label /\ \A t \in TaskId \ {r} : pc'[t] = pc[t]
  BY DEF Goto, TypeOK

\* Whoever keeps r from running is not about to reset it.
LEMMA NotReset ==
  ASSUME IInv, NEW r \in Resettable, pc[r] = "start", Running(r)
  PROVE  Resetters(r) = {}
  <1> SUFFICES ASSUME NEW t \in Resetters(r) PROVE FALSE
    OBVIOUS
  <1>1. t \in TaskId /\ pc[t] \in {"reset", "do"} /\ t > r
    BY DEF Resetters, IInv, LockOK, HolderOK
  <1>2. t \notin unscheduled
    BY <1>1 DEF IInv, RolesOK, OwnPc, TypeOK
  <1> QED  BY <1>1, <1>2 DEF Running, MaySleep

LEMMA CleanupStartStep ==
  ASSUME IInv, TypeOK', NEW r \in Resettable, CleanupStart(r)
  PROVE  IInv'
  <1>0. TypeOK /\ r \in TaskId /\ LockOK(r)
    BY Roles DEF IInv
  <1>1. /\ pc'[r] = IF LOCK \in task_reset_state[r] THEN "release" ELSE "own"
        /\ \A t \in TaskId \ {r} : pc'[t] = pc[t]
    BY <1>0, Moved DEF CleanupStart
  <1>2. /\ pc[r] = "start" /\ Running(r) /\ unscheduled' = unscheduled \ {r}
        /\ UNCHANGED <<task_reset_state, deferred_reset_task_ids, reset_done,
                       timers, target, notify, disabled, queued>>
    BY DEF CleanupStart, At, deferral, locals
  <1>3. OnlyOwn(r)
    BY <1>1, <1>2 DEF OnlyOwn, OwnPc
  <1>4. Resetters(r)' = {}
    BY <1>2, <1>3, NotReset, OwnFrame
  <1>5. LockOK(r)'
    <2>1. WordOK(r)' /\ PlaceOK(r)'
      BY <1>0, <1>1, <1>2 DEF LockOK, WordOK, PlaceOK
    <2>2. HolderOK(r)'
      BY <1>0, <1>1, <1>2, <1>4 DEF LockOK, HolderOK, PlaceOK, HeldByItself
    <2> QED  BY <2>1, <2>2 DEF LockOK
  <1>6. WaitersOK'
    BY <1>2, <1>3, OwnWaiters
  <1>7. QueuesOK'
    BY <1>2, <1>3, OwnQueues DEF IInv, QueuesOK, Cleanup
  <1>8. TimersOK'
    BY <1>1, <1>2, <1>3, OwnNoTimer
  <1> QED  BY <1>3, <1>5, <1>6, <1>7, <1>8, OwnInv

\* Taking and releasing the lock.
LEMMA ReleaseStep ==
  ASSUME IInv, TypeOK', NEW r \in Resettable, TryRelease(r) \/ EnableRelease(r)
  PROVE  IInv'
  <1>0. TypeOK /\ r \in TaskId /\ LockOK(r)
    BY Roles DEF IInv
  <1>1. /\ pc[r] \in {"release", "enable"} /\ unscheduled' = unscheduled \ {r}
        /\ UNCHANGED <<deferred_reset_task_ids, reset_done,
                       timers, target, notify, disabled, queued>>
    BY DEF TryRelease, EnableRelease, At, deferral, locals
  <1>2. /\ \A s \in Resettable \ {r} : task_reset_state'[s] = task_reset_state[s]
        /\ \A t \in TaskId \ {r} : pc'[t] = pc[t]
        /\ \/ /\ task_reset_state[r] = {SUPPORTED, LOCK}
              /\ task_reset_state'[r] = {SUPPORTED} /\ pc'[r] = "own"
           \/ /\ task_reset_state'[r] = task_reset_state[r]
              /\ pc'[r] = IF pc[r] = "release" THEN "pick" ELSE "defer"
    BY <1>0, Moved DEF TryRelease, EnableRelease, At, try_release_reset_lock,
                       update_reset_state, TypeOK
  <1>3. OnlyOwn(r)
    BY <1>1, <1>2 DEF OnlyOwn, OwnPc
  <1>4. Resetters(r)' = {}
    <2>1. HeldByItself(r)
      BY <1>1 DEF HeldByItself
    <2> QED  BY <1>0, <1>3, <2>1, OwnFrame DEF LockOK, HolderOK
  <1>5. LockOK(r)'
    <2>1. WordOK(r)'
      BY <1>0, <1>1, <1>2, Bits DEF LockOK, WordOK
    <2>2. PlaceOK(r)'
      BY <1>0, <1>1, <1>2 DEF LockOK, PlaceOK
    <2>3. HolderOK(r)'
      BY <1>0, <1>1, <1>2, <1>4, Bits DEF LockOK, HolderOK, PlaceOK, HeldByItself
    <2> QED  BY <2>1, <2>2, <2>3 DEF LockOK
  <1>6. WaitersOK'
    BY <1>1, <1>2, <1>3, OwnWaiters, Bits
  <1>7. QueuesOK'
    <2>1. queued[r] \subseteq Waiters(task_reset_state'[r])
      BY <1>2 DEF IInv, QueuesOK, Waiters
    <2> QED  BY <1>1, <1>2, <1>3, <2>1, OwnQueues DEF Cleanup
  <1>8. TimersOK'
    BY <1>1, <1>2, <1>3, OwnNoTimer
  <1> QED  BY <1>3, <1>5, <1>6, <1>7, <1>8, OwnInv

LEMMA PickStep ==
  ASSUME IInv, TypeOK', NEW r \in Resettable, Pick(r)
  PROVE  IInv'
  <1>0. TypeOK /\ r \in TaskId /\ LockOK(r)
    BY Roles DEF IInv
  <1>1. /\ pc[r] = "pick" /\ unscheduled' = unscheduled \ {r}
        /\ UNCHANGED <<task_reset_state, deferred_reset_task_ids, reset_done,
                       timers, target, disabled, queued>>
        /\ pc'[r] = "notify" /\ \A t \in TaskId \ {r} : pc'[t] = pc[t]
    BY <1>0, Moved DEF Pick, At, deferral
  <1>2. /\ notify'[r] \in Waiters(task_reset_state[r])
        /\ \A s \in Resettable \ {r} : notify'[s] = notify[s]
    BY <1>0, Roles DEF Pick, TypeOK
  <1>3. OnlyOwn(r)
    BY <1>1, <1>2 DEF OnlyOwn, OwnPc
  <1>4. Resetters(r)' = {}
    <2>1. HeldByItself(r)
      BY <1>1 DEF HeldByItself
    <2> QED  BY <1>0, <1>3, <2>1, OwnFrame DEF LockOK, HolderOK
  <1>5. LockOK(r)'
    <2>1. WordOK(r)' /\ PlaceOK(r)'
      BY <1>0, <1>1, <1>2 DEF LockOK, WordOK, PlaceOK
    <2>2. HolderOK(r)'
      BY <1>0, <1>1, <1>4 DEF LockOK, HolderOK, PlaceOK, HeldByItself
    <2> QED  BY <2>1, <2>2 DEF LockOK
  <1>6. WaitersOK'
    BY <1>1, <1>3, OwnWaiters
  <1>7. QueuesOK'
    BY <1>1, <1>3, OwnQueues DEF IInv, QueuesOK, Cleanup
  <1>8. TimersOK'
    BY <1>1, <1>3, OwnNoTimer
  <1> QED  BY <1>3, <1>5, <1>6, <1>7, <1>8, OwnInv

\* The one who is told waited for this task, and waits for no other.
LEMMA NotifyStep ==
  ASSUME IInv, TypeOK', NEW r \in Resettable, Notify(r)
  PROVE  IInv'
  <1>0. TypeOK /\ r \in TaskId /\ LockOK(r)
    BY Roles DEF IInv
  <1> DEFINE b == notify[r]
  <1>1. /\ pc[r] = "notify" /\ unscheduled' = unscheduled \ {r}
        /\ UNCHANGED <<deferred_reset_task_ids, timers, target, disabled,
                       queued>>
        /\ pc'[r] = "release" /\ \A t \in TaskId \ {r} : pc'[t] = pc[t]
        /\ reset_done' = reset_done \cup ({b} \cap TaskId)
    BY <1>0, Moved DEF Notify, At, deferral
  <1>2. /\ task_reset_state'[r] = task_reset_state[r] \ {b}
        /\ \A s \in Resettable \ {r} :
             task_reset_state'[s] = task_reset_state[s] /\ notify'[s] = notify[s]
    BY <1>0, Roles DEF Notify, TypeOK
  <1>b. b \in task_reset_state[r] /\ b # SUPPORTED /\ b # LOCK
    BY <1>0, <1>1 DEF LockOK, WordOK, Waiters
  <1> HIDE DEF b
  <1>3. OnlyOwn(r)
    BY <1>1, <1>2 DEF OnlyOwn, OwnPc
  <1>4. Resetters(r)' = {} /\ LOCK \in task_reset_state[r]
    <2>1. HeldByItself(r)
      BY <1>1 DEF HeldByItself
    <2> QED  BY <1>0, <1>3, <2>1, OwnFrame DEF LockOK, HolderOK
  <1>5. LockOK(r)'
    <2>1. WordOK(r)' /\ PlaceOK(r)'
      BY <1>0, <1>1, <1>2, <1>b, <1>4 DEF LockOK, WordOK, PlaceOK
    <2>2. HolderOK(r)'
      BY <1>0, <1>1, <1>2, <1>b, <1>4 DEF LockOK, HolderOK, PlaceOK, HeldByItself
    <2> QED  BY <2>1, <2>2 DEF LockOK
  <1>6. WaitersOK'
    <2>1. \A a \in TaskId : pc[a] = "await" => pc'[a] = "await"
      BY <1>1
    <2>2. \A s \in Resettable : \A a \in TaskId :
            a \in task_reset_state'[s] => a \in task_reset_state[s] /\ a # b
      <3>1. \A s \in Resettable \ {r} : b \in TaskId => b \notin task_reset_state[s]
        BY <1>b DEF IInv, WaitersOK
      <3> QED  BY <1>2, <3>1
    <2>3. b \in TaskId => pc[b] = "await"
      BY <1>b DEF IInv, WaitersOK
    <2>4. reset_done \subseteq TaskId
      BY <1>0 DEF TypeOK
    <2> QED  BY <1>1, <2>1, <2>2, <2>3, <2>4 DEF IInv, WaitersOK
  <1>7. QueuesOK'
    <2>1. queued[r] = {}
      BY <1>1 DEF IInv, QueuesOK, Cleanup
    <2> QED  BY <1>1, <1>3, <2>1, OwnQueues DEF Cleanup
  <1>8. TimersOK'
    BY <1>1, <1>3, OwnNoTimer
  <1> QED  BY <1>3, <1>5, <1>6, <1>7, <1>8, OwnInv

LEMMA DisableStep ==
  ASSUME IInv, TypeOK', NEW r \in Resettable, task_disable_resets(r)
  PROVE  IInv'
  <1>0. TypeOK /\ r \in TaskId /\ LockOK(r)
    BY Roles DEF IInv
  <1>1. /\ pc[r] = "own" /\ r \notin disabled /\ unscheduled' = unscheduled \ {r}
        /\ UNCHANGED <<deferred_reset_task_ids, reset_done, timers, target,
                       notify, queued>>
        /\ disabled' = disabled \cup {u \in {r} : pc'[u] = "own"}
    BY DEF task_disable_resets, At, deferral, locals
  <1>2. /\ \A s \in Resettable \ {r} : task_reset_state'[s] = task_reset_state[s]
        /\ \A t \in TaskId \ {r} : pc'[t] = pc[t]
        /\ \/ /\ task_reset_state[r] = {SUPPORTED}
              /\ task_reset_state'[r] = {SUPPORTED, LOCK} /\ pc'[r] = "own"
           \/ /\ task_reset_state[r] # {SUPPORTED}
              /\ task_reset_state'[r] = task_reset_state[r]
              /\ pc'[r] = "forever"
    BY <1>0, Moved DEF task_disable_resets, try_acquire_reset_lock,
                       update_reset_state, TypeOK
  <1>3. OnlyOwn(r)
    BY <1>1, <1>2 DEF OnlyOwn, OwnPc
  <1>4. Resetters(r)' = Resetters(r)
    BY <1>3, OwnFrame
  <1>5. LockOK(r)'
    <2>1. CASE pc'[r] = "own"
      <3>1. /\ task_reset_state[r] = {SUPPORTED} /\ r \in disabled'
            /\ task_reset_state'[r] = {SUPPORTED, LOCK}
        BY <1>1, <1>2, <2>1
      <3>2. Resetters(r)' = {}
        BY <1>0, <1>4, <3>1, Bits DEF LockOK, HolderOK
      <3>3. WordOK(r)'
        BY <2>1, <3>1 DEF WordOK
      <3>4. PlaceOK(r)'
        BY <1>0, <1>1, <2>1 DEF LockOK, PlaceOK
      <3>5. HolderOK(r)'
        BY <2>1, <3>1, <3>2 DEF HolderOK, HeldByItself
      <3> QED  BY <3>3, <3>4, <3>5 DEF LockOK
    <2>2. CASE pc'[r] = "forever"
      <3>1. task_reset_state'[r] = task_reset_state[r] /\ r \notin disabled'
            /\ task_reset_state[r] # {SUPPORTED}
        BY <1>1, <1>2, <2>2
      <3>2. LOCK \in task_reset_state[r] /\ r \notin deferred_reset_task_ids
        BY <1>0, <1>1, <3>1 DEF LockOK, WordOK, PlaceOK
      <3>3. Resetters(r) # {}
        BY <1>0, <1>1, <3>2 DEF LockOK, HolderOK, HeldByItself
      <3>4. WordOK(r)' /\ PlaceOK(r)'
        BY <1>0, <1>1, <2>2, <3>1, <3>2 DEF LockOK, WordOK, PlaceOK
      <3>5. HolderOK(r)'
        BY <1>0, <1>1, <1>4, <2>2, <3>1, <3>2, <3>3
        DEF LockOK, HolderOK, HeldByItself
      <3> QED  BY <3>4, <3>5 DEF LockOK
    <2> QED  BY <1>2, <2>1, <2>2
  <1>6. WaitersOK'
    BY <1>1, <1>2, <1>3, OwnWaiters, Bits
  <1>7. QueuesOK'
    <2>1. queued[r] \subseteq Waiters(task_reset_state'[r])
      BY <1>2 DEF IInv, QueuesOK, Waiters
    <2> QED  BY <1>1, <1>2, <1>3, <2>1, OwnQueues DEF Cleanup
  <1>8. TimersOK'
    BY <1>1, <1>2, <1>3, OwnNoTimer
  <1> QED  BY <1>3, <1>5, <1>6, <1>7, <1>8, OwnInv

\* The way to the deferred reset: the lock stays with the task.
LEMMA EnableStep ==
  ASSUME IInv, TypeOK', NEW r \in Resettable,
         task_enable_resets(r) \/ ScheduleReset(r) \/ CallDeferred(r)
  PROVE  IInv'
  <1>0. TypeOK /\ r \in TaskId /\ LockOK(r)
    BY Roles DEF IInv
  <1>1. /\ pc[r] \in {"own", "defer", "call"} /\ unscheduled' = unscheduled \ {r}
        /\ pc[r] = "own" => r \in disabled
        /\ UNCHANGED <<task_reset_state, reset_done, timers, target,
                       notify, queued>>
        /\ disabled' = IF pc[r] = "own" THEN disabled \ {r} ELSE disabled
        /\ deferred_reset_task_ids' =
             IF pc[r] = "defer" THEN deferred_reset_task_ids \cup {r}
             ELSE deferred_reset_task_ids
    BY DEF task_enable_resets, ScheduleReset, CallDeferred, At, deferral, locals
  <1>2. /\ \A t \in TaskId \ {r} : pc'[t] = pc[t]
        /\ pc'[r] = IF pc[r] = "own" THEN "enable"
                    ELSE IF pc[r] = "defer" THEN "call" ELSE "forever"
    BY <1>0, Moved DEF task_enable_resets, ScheduleReset, CallDeferred, At
  <1>3. OnlyOwn(r)
    BY <1>1, <1>2 DEF OnlyOwn, OwnPc
  <1>4. Resetters(r)' = {} /\ LOCK \in task_reset_state[r]
    <2>1. HeldByItself(r)
      BY <1>1 DEF HeldByItself
    <2> QED  BY <1>0, <1>3, <2>1, OwnFrame DEF LockOK, HolderOK
  <1>5. LockOK(r)'
    <2>1. WordOK(r)'
      BY <1>0, <1>1, <1>2 DEF LockOK, WordOK
    <2>2. PlaceOK(r)'
      BY <1>0, <1>1, <1>2 DEF LockOK, PlaceOK
    <2>3. HeldByItself(r)'
      BY <1>0, <1>1, <1>2 DEF LockOK, PlaceOK, HeldByItself
    <2>4. HolderOK(r)'
      BY <1>0, <1>1, <1>2, <1>4, <2>2, <2>3 DEF LockOK, HolderOK, PlaceOK
    <2> QED  BY <2>1, <2>2, <2>4 DEF LockOK
  <1>6. WaitersOK'
    BY <1>1, <1>3, OwnWaiters
  <1>7. QueuesOK'
    BY <1>1, <1>2, <1>3, OwnQueues DEF IInv, QueuesOK, Cleanup
  <1>8. TimersOK'
    <2>1. pc'[r] # "timed" /\ pc'[r] # "assert" /\ pc[r] # "timed"
      BY <1>1, <1>2
    <2> QED  BY <1>1, <1>3, <2>1, OwnNoTimer
  <1> QED  BY <1>3, <1>5, <1>6, <1>7, <1>8, OwnInv

LEMMA TimerStep ==
  ASSUME IInv, TypeOK', NEW r \in Resettable,
         TimedWait(r) \/ EndWait(r) \/ Expire(r)
  PROVE  IInv'
  <1>0. TypeOK /\ r \in TaskId /\ LockOK(r)
    BY Roles DEF IInv
  <1>1. /\ unscheduled' \subseteq unscheduled
        /\ UNCHANGED <<task_reset_state, deferred_reset_task_ids, reset_done, target,
                       notify, queued, disabled>>
    BY DEF TimedWait, EndWait, Expire, At, deferral, locals
  <1>2. /\ \A t \in TaskId \ {r} : pc'[t] = pc[t]
        /\ \/ pc'[r] = pc[r]
           \/ {pc[r], pc'[r]} \subseteq {"own", "timed", "assert"}
    BY <1>0, Moved DEF TimedWait, EndWait, Expire, At
  <1>3. OnlyOwn(r)
    BY <1>1, <1>2 DEF OnlyOwn, OwnPc, IInv, RolesOK
  <1>4. Resetters(r)' = Resetters(r)
    BY <1>3, OwnFrame
  <1>5. LockOK(r)'
    <2>1. CASE pc'[r] = pc[r]
      BY <1>0, <1>1, <1>4, <2>1, Frame
    <2>2. CASE {pc[r], pc'[r]} \subseteq {"own", "timed", "assert"}
      <3>1. pc[r] \in {"own", "timed", "assert"} /\ pc'[r] \in {"own", "timed", "assert"}
        BY <2>2
      <3>2. WordOK(r)' /\ PlaceOK(r)'
        BY <1>0, <1>1, <3>1 DEF LockOK, WordOK, PlaceOK
      <3>3. HolderOK(r)'
        BY <1>0, <1>1, <1>4, <3>1 DEF LockOK, HolderOK, HeldByItself
      <3> QED  BY <3>2, <3>3 DEF LockOK
    <2> QED  BY <1>2, <2>1, <2>2
  <1>6. WaitersOK'
    BY <1>1, <1>3, OwnWaiters
  <1>7. QueuesOK'
    BY <1>1, <1>2, <1>3, OwnQueues DEF IInv, QueuesOK, Cleanup
  <1>8. TimersOK'
    <2>1. timer_running' \ {r} \subseteq timer_running
      BY DEF TimedWait, EndWait, Expire
    <2>5. timed_reset \ {r} \subseteq timed_reset'
      BY DEF TimedWait, EndWait, Expire
    <2>2. CASE TimedWait(r)
      <3>1. /\ pc[r] = "own" /\ timed_reset' = timed_reset
            /\ pc'[r] = IF r \in timer_running THEN "assert" ELSE "timed"
        BY <1>0, <2>2, Moved DEF TimedWait, At
      <3> QED  BY <1>3, <2>1, <2>5, <3>1, OwnTimers DEF IInv, TimersOK, TimerOK
    <2>3. CASE EndWait(r)
      <3>1. r \notin timer_running' /\ pc'[r] = "own"
        BY <1>0, <2>3, Moved DEF EndWait
      <3> QED  BY <1>3, <2>1, <2>5, <3>1, OwnTimers DEF TimerOK
    <2>4. CASE Expire(r)
      <3>1. r \notin timer_running' /\ pc'[r] # "assert"
        BY <1>0, <2>4 DEF Expire, Panic
      <3> QED  BY <1>3, <2>1, <2>5, <3>1, OwnTimers DEF TimerOK
    <2> QED  BY <2>2, <2>3, <2>4
  <1> QED  BY <1>3, <1>5, <1>6, <1>7, <1>8, OwnInv

-----------------------------------------------------------------------------
(* task_reset() and deferred_task_reset()                                  *)

\* A task other than the resettable ones moves.
LEMMA OtherRoles ==
  ASSUME IInv, NEW a \in TaskId \ Resettable,
         \A t \in TaskId \ {a} : pc'[t] = pc[t] /\ target'[t] = target[t],
         pc'[a] \in IF a = TASK_ID_HOOKS THEN {"own", "loop", "do"}
                    ELSE {"own", "reset", "await"},
         pc'[a] \in {"reset", "do"} => target'[a] \in Resettable
  PROVE  RolesOK'
  <1>1. RolesOK /\ Resettable \subseteq TaskId /\ TASK_ID_HOOKS \in TaskId \ Resettable
    BY Roles DEF IInv
  <1> QED  BY <1>1 DEF RolesOK

\* The lock is held: the request is noted.
LEMMA QueueStep ==
  ASSUME IInv, TypeOK', NEW a \in Requesters, NEW r \in Resettable,
         NEW wait \in BOOLEAN, task_reset(a, r, wait), LOCK \in task_reset_state[r]
  PROVE  IInv'
  <1> DEFINE waiter_id == IF wait THEN a ELSE TASK_ID_COUNT
  <1>0. /\ TypeOK /\ a \in TaskId \ Resettable /\ r \in TaskId /\ a # TASK_ID_HOOKS
        /\ Resettable \subseteq TaskId /\ pc[a] = "own"
    BY Roles DEF IInv, Separate, task_reset, At
  <1>w. /\ waiter_id # SUPPORTED /\ waiter_id # LOCK
        /\ wait => waiter_id = a
        /\ ~wait => waiter_id \notin TaskId
    BY <1>0, Bits
  <1>1. /\ task_reset_state'[r] = task_reset_state[r] \cup {waiter_id}
        /\ \A s \in Resettable \ {r} : task_reset_state'[s] = task_reset_state[s]
        /\ pc'[a] = IF wait THEN "await" ELSE "own"
        /\ \A t \in TaskId \ {a} : pc'[t] = pc[t]
        /\ queued' = IF pc[r] \in Cleanup THEN queued
                     ELSE [queued EXCEPT ![r] = @ \cup {waiter_id}]
        /\ UNCHANGED <<target, notify, disabled, deferred_reset_task_ids, reset_done,
                       timers>>
        /\ unscheduled' \subseteq unscheduled
    BY <1>0, Moved DEF task_reset, TypeOK, deferral, At
  <1> HIDE DEF waiter_id
  <1>2. RolesOK'
    BY <1>0, <1>1, OtherRoles
  <1>3. \A s \in Resettable : Resetters(s)' = Resetters(s)
    <2>1. \A t \in TaskId : pc'[t] \in {"reset", "do"} <=> pc[t] \in {"reset", "do"}
      BY <1>0, <1>1
    <2> QED  BY <1>1, <2>1 DEF Resetters
  <1>4. \A s \in Resettable \ {r} : LockOK(s)'
    BY <1>0, <1>1, <1>3, Frame DEF IInv
  <1>5. LockOK(r)'
    <2>0. LockOK(r) /\ LOCK \in task_reset_state'[r] /\ pc'[r] = pc[r]
      BY <1>0, <1>1 DEF IInv
    <2>1. WordOK(r)' /\ PlaceOK(r)'
      BY <1>1, <2>0 DEF LockOK, WordOK, PlaceOK, Waiters
    <2>2. HolderOK(r)'
      BY <1>1, <1>3, <2>0 DEF LockOK, HolderOK, HeldByItself
    <2> QED  BY <2>1, <2>2 DEF LockOK
  <1>6. WaitersOK'
    <2>1. a \notin reset_done /\ \A s \in Resettable : a \notin task_reset_state[s]
      BY <1>0 DEF IInv, WaitersOK
    <2>2. \A b \in TaskId \ {a} : b # waiter_id /\ pc'[b] = pc[b]
      BY <1>1, <1>w
    <2>3. \A s \in Resettable : \A b \in TaskId \ {a} :
            b \in task_reset_state'[s] <=> b \in task_reset_state[s]
      BY <1>1, <2>2
    <2>4. \A s \in Resettable : a \in task_reset_state'[s] => s = r /\ wait
      BY <1>0, <1>1, <1>w, <2>1
    <2>5. reset_done \subseteq TaskId
      BY <1>0 DEF TypeOK
    <2> QED  BY <1>1, <2>1, <2>2, <2>3, <2>4, <2>5 DEF IInv, WaitersOK
  <1>7. QueuesOK'
    <2>1. \A s \in Resettable : pc'[s] = pc[s]
      BY <1>0, <1>1
    <2>2. \A s \in Resettable : queued'[s] \subseteq queued[s] \cup {waiter_id}
                                /\ (s # r => queued'[s] = queued[s])
                                /\ (pc[s] \in Cleanup => queued'[s] = queued[s])
      BY <1>0, <1>1 DEF TypeOK
    <2>3. \A s \in Resettable : queued[s] \subseteq Waiters(task_reset_state[s])
                                /\ (pc[s] \in Cleanup => queued[s] = {})
      BY DEF IInv, QueuesOK
    <2>4. \A s \in Resettable \ {r} : queued'[s] \subseteq Waiters(task_reset_state'[s])
      BY <1>1, <2>2, <2>3
    <2>5. queued'[r] \subseteq Waiters(task_reset_state'[r])
      BY <1>1, <1>w, <2>2, <2>3 DEF Waiters
    <2> QED  BY <2>1, <2>2, <2>3, <2>4, <2>5 DEF QueuesOK
  <1>8. TimersOK'
    BY <1>0, <1>1 DEF IInv, TimersOK, TimerOK, timers
  <1> QED  BY <1>2, <1>4, <1>5, <1>6, <1>7, <1>8 DEF IInv, Separate

\* The lock is free: the requester takes it.
LEMMA TakeStep ==
  ASSUME IInv, TypeOK', NEW a \in Requesters, NEW r \in Resettable,
         NEW wait \in BOOLEAN, task_reset(a, r, wait), LOCK \notin task_reset_state[r]
  PROVE  IInv'
  <1>0. /\ TypeOK /\ a \in TaskId \ Resettable /\ r \in TaskId /\ a # TASK_ID_HOOKS
        /\ Resettable \subseteq TaskId /\ pc[a] = "own" /\ Running(a) /\ LockOK(r)
    BY Roles DEF IInv, Separate, task_reset, At
  <1>1. /\ task_reset_state'[r] = {SUPPORTED, LOCK}
        /\ \A s \in Resettable \ {r} : task_reset_state'[s] = task_reset_state[s]
        /\ pc'[a] = "reset" /\ target'[a] = r
        /\ \A t \in TaskId \ {a} : pc'[t] = pc[t] /\ target'[t] = target[t]
        /\ UNCHANGED <<notify, disabled, deferred_reset_task_ids, reset_done,
                       timers, queued>>
        /\ unscheduled' \subseteq unscheduled
    <2>1. task_reset_state[r] = {SUPPORTED}
      BY <1>0 DEF LockOK, WordOK
    <2> QED  BY <1>0, <2>1, Moved DEF task_reset, TypeOK, deferral, At
  <1>2. RolesOK'
    BY <1>0, <1>1, OtherRoles
  <1>3. Resetters(r)' = {a} /\ \A s \in Resettable \ {r} : Resetters(s)' = Resetters(s)
    <2>1. Resetters(r) = {}
      BY <1>0 DEF LockOK, HolderOK
    <2> QED  BY <1>0, <1>1, <2>1 DEF Resetters
  <1>4. \A s \in Resettable \ {r} : LockOK(s)'
    BY <1>0, <1>1, <1>3, Frame DEF IInv
  <1>5. LockOK(r)'
    <2>0. pc'[r] = pc[r] /\ ~HeldByItself(r)
      BY <1>0, <1>1 DEF LockOK, HolderOK
    <2>1. pc[r] # "notify" /\ r \notin unscheduled /\ pc[r] # "forever"
      BY <1>0, <2>0 DEF HeldByItself, LockOK, PlaceOK, HolderOK
    <2>2. WordOK(r)' /\ PlaceOK(r)'
      BY <1>0, <1>1, <2>0, <2>1 DEF LockOK, WordOK, PlaceOK
    <2>3. pc[r] = "start" => a > r
      <3>1. pc[r] = "start" => ~(r > a)
        BY <1>0, <2>1 DEF Running, MaySleep
      <3>2. a # r /\ a \in Int /\ r \in Int
        BY <1>0 DEF TaskId
      <3> QED  BY <3>1, <3>2
    <2>4. ~HeldByItself(r)'
      BY <1>1, <2>0 DEF HeldByItself
    <2>5. HolderOK(r)'
      BY <1>1, <1>3, <2>0, <2>1, <2>3, <2>4 DEF HolderOK
    <2> QED  BY <2>2, <2>5 DEF LockOK
  <1>6. WaitersOK'
    <2>1. \A b \in TaskId : pc[b] = "await" => pc'[b] = "await"
      BY <1>0, <1>1
    <2>2. \A s \in Resettable : \A b \in TaskId :
            b \in task_reset_state'[s] => b \in task_reset_state[s]
      BY <1>1, Bits
    <2>3. reset_done \subseteq TaskId
      BY <1>0 DEF TypeOK
    <2> QED  BY <1>1, <2>1, <2>2, <2>3 DEF IInv, WaitersOK
  <1>7. QueuesOK'
    <2>1. task_reset_state[r] = {SUPPORTED}
      BY <1>0 DEF LockOK, WordOK
    <2> QED  BY <1>0, <1>1, <2>1 DEF IInv, QueuesOK, Waiters
  <1>8. TimersOK'
    BY <1>0, <1>1 DEF IInv, TimersOK, TimerOK, timers
  <1> QED  BY <1>2, <1>4, <1>5, <1>6, <1>7, <1>8 DEF IInv, Separate

\* The one that holds the lock resets the task.
LEMMA DoResetStep ==
  ASSUME IInv, TypeOK', NEW t \in TaskId, NEW r \in Resettable, NEW label,
         pc[t] \in {"reset", "do"}, target[t] = r,
         label = IF t = TASK_ID_HOOKS THEN "loop" ELSE "own",
         do_task_reset(t, r, label), UNCHANGED deferral
  PROVE  IInv'
  <1>0. /\ TypeOK /\ t \in TaskId \ Resettable /\ r \in TaskId /\ t # r
        /\ Resettable \subseteq TaskId /\ LockOK(r)
    BY Roles DEF IInv, RolesOK, OwnPc
  <1>1. /\ pc'[r] = "start" /\ pc'[t] = label
        /\ \A u \in TaskId \ {t, r} : pc'[u] = pc[u] /\ target'[u] = target[u]
        /\ \A s \in Resettable \ {r} : notify'[s] = notify[s] /\ queued'[s] = queued[s]
        /\ queued'[r] = {} /\ unscheduled' = unscheduled \cup {r}
        /\ UNCHANGED <<task_reset_state, disabled, deferred_reset_task_ids,
                       reset_done, timer_running>>
        /\ timed_reset' = timed_reset \cup ((timer_running \cap {r}) \ disabled)
    BY <1>0 DEF do_task_reset, TypeOK, deferral
  <1>2. RolesOK'
    <2>1. RolesOK /\ TASK_ID_HOOKS \in TaskId \ Resettable
      BY Roles DEF IInv
    <2> QED  BY <1>0, <1>1, <2>1 DEF RolesOK, OwnPc
  <1>3. /\ Resetters(r) = {t} /\ LOCK \in task_reset_state[r] /\ ~HeldByItself(r)
    <2>1. t \in Resetters(r)
      BY DEF Resetters
    <2> QED  BY <1>0, <2>1 DEF LockOK, HolderOK
  <1>4. Resetters(r)' = {} /\ \A s \in Resettable \ {r} : Resetters(s)' = Resetters(s)
    <2>1. \A u \in TaskId \ {t, r} : u \in Resetters(r)' => u \in Resetters(r)
      BY <1>1 DEF Resetters
    <2>2. t \notin Resetters(r)' /\ r \notin Resetters(r)'
      BY <1>0, <1>1 DEF Resetters
    <2>3. Resetters(r)' = {}
      BY <1>3, <2>1, <2>2 DEF Resetters
    <2>4. ASSUME NEW s \in Resettable \ {r} PROVE Resetters(s)' = Resetters(s)
      <3>1. r \notin Resetters(s) /\ r \notin Resetters(s)'
            /\ t \notin Resetters(s) /\ t \notin Resetters(s)'
        BY <1>0, <1>1 DEF Resetters, IInv, RolesOK, OwnPc
      <3>2. \A u \in TaskId \ {t, r} : u \in Resetters(s)' <=> u \in Resetters(s)
        BY <1>1 DEF Resetters
      <3>3. Resetters(s) \subseteq TaskId /\ Resetters(s)' \subseteq TaskId
        BY DEF Resetters
      <3> QED  BY <3>1, <3>2, <3>3
    <2> QED  BY <2>3, <2>4
  <1>5. \A s \in Resettable \ {r} : LockOK(s)'
    BY <1>0, <1>1, <1>4, Frame DEF IInv
  <1>6. r \notin disabled /\ r \notin deferred_reset_task_ids
    BY <1>0, <1>3 DEF HeldByItself, LockOK, PlaceOK
  <1>7. LockOK(r)'
    <2>1. WordOK(r)' /\ PlaceOK(r)'
      BY <1>0, <1>1, <1>3, <1>6 DEF LockOK, WordOK, PlaceOK
    <2>2. HolderOK(r)'
      BY <1>1, <1>3, <1>4, <1>6 DEF HolderOK, HeldByItself
    <2> QED  BY <2>1, <2>2 DEF LockOK
  <1>8. WaitersOK'
    <2>1. \A b \in TaskId : pc[b] = "await" => pc'[b] = "await"
      BY <1>0, <1>1 DEF IInv, RolesOK, OwnPc
    <2>2. reset_done \subseteq TaskId
      BY <1>0 DEF TypeOK
    <2> QED  BY <1>1, <2>1, <2>2 DEF IInv, WaitersOK
  <1>9. QueuesOK'
    BY <1>0, <1>1 DEF IInv, QueuesOK
  <1>10. TimersOK'
    BY <1>0, <1>1, <1>6 DEF IInv, TimersOK, TimerOK
  <1> QED  BY <1>2, <1>5, <1>7, <1>8, <1>9, <1>10 DEF IInv, Separate

\* A step of another task that touches no state word.
LEMMA QuietStep ==
  ASSUME IInv, TypeOK', NEW a \in TaskId \ Resettable,
         \A t \in TaskId \ {a} : pc'[t] = pc[t],
         UNCHANGED <<task_reset_state, deferred_reset_task_ids, timers, target,
                     notify, disabled, queued>>,
         unscheduled' \subseteq unscheduled,
         pc[a] \notin {"reset", "do"}, pc'[a] \notin {"reset", "do"},
         RolesOK', WaitersOK'
  PROVE  IInv'
  <1>0. Resettable \subseteq TaskId
    BY Roles
  <1>1. \A t \in TaskId : pc'[t] \in {"reset", "do"} <=> pc[t] \in {"reset", "do"}
    OBVIOUS
  <1>2. \A s \in Resettable : Resetters(s)' = Resetters(s)
    BY <1>1 DEF Resetters
  <1>3. \A s \in Resettable : LockOK(s)'
    BY <1>0, <1>2, Frame DEF IInv
  <1>4. QueuesOK' /\ TimersOK'
    BY <1>0 DEF IInv, QueuesOK, TimersOK, TimerOK, timers
  <1> QED  BY <1>3, <1>4 DEF IInv, Separate

LEMMA AwaitStep ==
  ASSUME IInv, TypeOK', NEW a \in Requesters, Await(a)
  PROVE  IInv'
  <1>0. TypeOK /\ a \in TaskId \ Resettable /\ a # TASK_ID_HOOKS
    BY Roles DEF IInv, Separate
  <1>1. /\ pc[a] = "await" /\ pc'[a] = "own" /\ \A t \in TaskId \ {a} : pc'[t] = pc[t]
        /\ a \in reset_done /\ reset_done' = reset_done \ {a}
        /\ UNCHANGED <<task_reset_state, deferred_reset_task_ids, timers,
                       target, notify, disabled, queued>>
        /\ unscheduled' \subseteq unscheduled
    BY <1>0, Moved DEF Await, At, deferral, locals
  <1>2. RolesOK'
    BY <1>0, <1>1, OtherRoles
  <1>3. WaitersOK'
    <2>1. reset_done \subseteq TaskId
      BY <1>0 DEF TypeOK
    <2> QED  BY <1>0, <1>1, <2>1 DEF IInv, WaitersOK
  <1> QED  BY <1>0, <1>1, <1>2, <1>3, QuietStep

\* deferred_task_reset() takes a task that has gone to sleep for ever: it has a
\* lower priority than the tasks it resets.
LEMMA DeferredStep ==
  ASSUME IInv, TypeOK', DeferredStart \/ DeferredLoop
  PROVE  IInv'
  <1> DEFINE a == TASK_ID_HOOKS
  <1>0. TypeOK /\ a \in TaskId \ Resettable
    BY Roles DEF IInv
  <1>1. ASSUME pc[a] \in {"own", "loop"}, pc'[a] \in {"own", "loop"},
               \A t \in TaskId \ {a} : pc'[t] = pc[t],
               UNCHANGED <<task_reset_state, deferred_reset_task_ids, timers,
                           target, notify, disabled, queued, reset_done>>,
               unscheduled' \subseteq unscheduled
        PROVE  IInv'
    <2>1. RolesOK'
      BY <1>0, <1>1, OtherRoles
    <2>2. WaitersOK'
      <3>1. \A b \in TaskId : pc[b] = "await" => pc'[b] = "await"
        BY <1>0, <1>1
      <3>2. reset_done \subseteq TaskId
        BY <1>0 DEF TypeOK
      <3> QED  BY <1>1, <3>1, <3>2 DEF IInv, WaitersOK
    <2> QED  BY <1>0, <1>1, <2>1, <2>2, QuietStep
  <1>2. CASE DeferredStart
    <2>1. /\ pc[a] = "own" /\ pc'[a] = "loop" /\ \A t \in TaskId \ {a} : pc'[t] = pc[t]
          /\ UNCHANGED <<task_reset_state, deferred_reset_task_ids, timers,
                         target, notify, disabled, queued, reset_done>>
          /\ unscheduled' \subseteq unscheduled
      BY <1>0, <1>2, Moved DEF DeferredStart, At, locals
    <2> QED  BY <1>1, <2>1
  <1>3. CASE DeferredLoop /\ deferred_reset_task_ids = {}
    <2>1. /\ pc[a] = "loop" /\ pc'[a] = "own" /\ \A t \in TaskId \ {a} : pc'[t] = pc[t]
          /\ UNCHANGED <<task_reset_state, deferred_reset_task_ids, timers,
                         target, notify, disabled, queued, reset_done>>
          /\ unscheduled' \subseteq unscheduled
      BY <1>0, <1>3, Moved DEF DeferredLoop, At
    <2> QED  BY <1>1, <2>1
  <1>4. CASE DeferredLoop /\ deferred_reset_task_ids # {}
    <2>1. PICK r \in deferred_reset_task_ids :
            /\ deferred_reset_task_ids' = deferred_reset_task_ids \ {r}
            /\ target' = [target EXCEPT ![a] = r]
      BY <1>4 DEF DeferredLoop
    <2>2. r \in Resettable /\ r \in TaskId /\ LockOK(r) /\ r > a
      BY <1>0, Roles DEF TypeOK, IInv
    <2>3. /\ pc[a] = "loop" /\ Running(a) /\ pc'[a] = "do" /\ target'[a] = r
          /\ \A t \in TaskId \ {a} : pc'[t] = pc[t] /\ target'[t] = target[t]
          /\ UNCHANGED <<task_reset_state, timers, notify, disabled, queued,
                         reset_done>>
          /\ unscheduled' \subseteq unscheduled
      BY <1>0, <1>4, <2>1, Moved DEF DeferredLoop, At, TypeOK
    <2>4. pc[r] = "forever"
      <3>1. pc[r] \in {"call", "forever"} /\ r \notin unscheduled
        BY <2>2 DEF LockOK, PlaceOK
      <3> QED  BY <2>2, <2>3, <3>1 DEF Running, MaySleep
    <2>5. /\ Resetters(r) = {} /\ LOCK \in task_reset_state[r] /\ r \notin disabled
      BY <2>2, <2>4 DEF HeldByItself, LockOK, HolderOK, PlaceOK
    <2>6. /\ Resetters(r)' = {a}
          /\ \A s \in Resettable \ {r} : Resetters(s)' = Resetters(s)
      BY <1>0, <2>3, <2>5 DEF Resetters
    <2>7. RolesOK'
      BY <1>0, <2>2, <2>3, OtherRoles
    <2>8. \A s \in Resettable \ {r} : LockOK(s)'
      BY <1>0, <2>1, <2>3, <2>6, Roles, Frame DEF IInv
    <2>9. LockOK(r)'
      <3>0. pc'[r] = "forever" /\ r \notin deferred_reset_task_ids'
        BY <1>0, <2>1, <2>2, <2>3, <2>4
      <3>1. WordOK(r)' /\ PlaceOK(r)'
        BY <2>2, <2>3, <2>4, <2>5, <3>0 DEF LockOK, WordOK, PlaceOK
      <3>2. HolderOK(r)'
        BY <2>3, <2>5, <2>6, <3>0 DEF HolderOK, HeldByItself
      <3> QED  BY <3>1, <3>2 DEF LockOK
    <2>10. WaitersOK'
      <3>1. \A b \in TaskId : pc[b] = "await" => pc'[b] = "await"
        BY <1>0, <2>3
      <3>2. reset_done \subseteq TaskId
        BY <1>0 DEF TypeOK
      <3> QED  BY <2>3, <3>1, <3>2 DEF IInv, WaitersOK
    <2>11. QueuesOK' /\ TimersOK'
      BY <1>0, <2>3, Roles DEF IInv, QueuesOK, TimersOK, TimerOK, timers
    <2> QED  BY <2>7, <2>8, <2>9, <2>10, <2>11 DEF IInv, Separate
  <1> QED  BY <1>2, <1>3, <1>4

-----------------------------------------------------------------------------
\* The EC has started, for the first time or after a panic.
Booted ==
  /\ task_reset_state = Supported /\ deferred_reset_task_ids = {}
  /\ reset_done = {} /\ timer_running = {} /\ pc = Entry
  /\ unscheduled = {} /\ disabled = {} /\ queued = NoBits

LEMMA BootInv == Separate /\ TypeOK /\ Booted => IInv
  <1> SUFFICES ASSUME Separate, TypeOK, Booted PROVE IInv
    OBVIOUS
  <1>0. /\ TypeOK /\ Resettable \subseteq TaskId
        /\ TASK_ID_HOOKS \in TaskId \ Resettable
    BY Roles
  <1>1. \A t \in TaskId : pc[t] = IF t \in Resettable THEN "start" ELSE "own"
    BY DEF Booted, Entry
  <1>2. RolesOK
    BY <1>0, <1>1 DEF RolesOK, OwnPc
  <1>3. ASSUME NEW r \in Resettable PROVE LockOK(r)
    <2>0. pc[r] = "start" /\ task_reset_state[r] = {SUPPORTED}
      BY <1>0, <1>1 DEF Booted, Supported, Entry
    <2>1. Resetters(r) = {}
      BY <1>1 DEF Resetters
    <2>2. WordOK(r) /\ PlaceOK(r)
      BY <2>0 DEF WordOK, PlaceOK, Booted
    <2>3. HolderOK(r)
      BY <2>0, <2>1, Bits DEF HolderOK, HeldByItself, Booted
    <2> QED  BY <2>2, <2>3 DEF LockOK
  <1>4. WaitersOK
    BY Bits DEF Booted, Supported, NoBits, WaitersOK
  <1>5. QueuesOK /\ TimersOK
    BY <1>0, <1>1 DEF Booted, Supported, NoBits, QueuesOK, TimersOK, TimerOK
  <1> QED  BY <1>0, <1>2, <1>3, <1>4, <1>5 DEF IInv

LEMMA InvInit == Separate /\ Init => IInv
  BY TypeInit, BootInv DEF Init, Booted

LEMMA BootInvNext == Separate' /\ TypeOK' /\ Booted' => IInv'
  BY BootInv, PTL

LEMMA RebootStep == Separate /\ TypeOK' /\ Reboot => IInv'
  BY BootInvNext DEF Reboot, Booted, Separate, Supported, Entry, NoBits

LEMMA InvStep == IInv /\ [Next]_vars => IInv'
  <1> SUFFICES ASSUME IInv, [Next]_vars PROVE IInv'
    OBVIOUS
  <1>0. TypeOK'
    BY TypeStep DEF IInv, RolesOK, TargetsOK
  <1>1. CASE UNCHANGED vars
    <2>1. \A s \in Resettable : Resetters(s)' = Resetters(s)
      BY <1>1 DEF Resetters, vars, locals
    <2>2. \A s \in Resettable : LockOK(s)'
      BY <1>1, <2>1, Frame DEF IInv, vars, locals, deferral
    <2>3. RolesOK' /\ WaitersOK' /\ QueuesOK' /\ TimersOK'
      BY <1>1 DEF IInv, RolesOK, WaitersOK, QueuesOK, TimersOK, TimerOK, vars,
                  timers, locals
    <2> QED  BY <1>0, <2>2, <2>3 DEF IInv, Separate
  <1>2. ASSUME NEW r \in Resettable,
               Step(r) \/ TimedWait(r) \/ Expire(r)
                 \/ task_disable_resets(r) \/ task_enable_resets(r)
        PROVE  IInv'
    BY <1>0, <1>2, CleanupStartStep, ReleaseStep, PickStep, NotifyStep,
       DisableStep, EnableStep, TimerStep DEF Step
  <1>3. ASSUME NEW a \in Requesters, NEW r \in Resettable, NEW wait \in BOOLEAN,
               task_reset(a, r, wait)
        PROVE  IInv'
    BY <1>0, <1>3, QueueStep, TakeStep
  <1>4. ASSUME NEW a \in Requesters, Reset(a) PROVE IInv'
    <2>1. a \in TaskId /\ a # TASK_ID_HOOKS /\ target[a] \in Resettable
      BY <1>4, Roles DEF Reset, IInv, RolesOK
    <2> QED  BY <1>0, <1>4, <2>1, DoResetStep DEF Reset
  <1>5. ASSUME NEW a \in Requesters, Await(a) PROVE IInv'
    BY <1>0, <1>5, AwaitStep
  <1>6. CASE DeferredStart \/ DeferredLoop
    BY <1>0, <1>6, DeferredStep
  <1>7. CASE DeferredReset
    <2>1. TASK_ID_HOOKS \in TaskId /\ target[TASK_ID_HOOKS] \in Resettable
      BY <1>7, Roles DEF DeferredReset, IInv, RolesOK
    <2> QED  BY <1>0, <1>7, <2>1, DoResetStep DEF DeferredReset
  <1>8. CASE Reboot
    BY <1>0, <1>8, RebootStep DEF IInv
  <1> QED
    BY <1>1, <1>2, <1>3, <1>4, <1>5, <1>6, <1>7, <1>8
       DEF Next, deferred_task_reset

\* The invariant of the reset protocol.
THEOREM ResetInvariance == Separate /\ Spec => []IInv
  BY InvInit, InvStep, PTL DEF Spec

\* Of all tasks at most one is about to call do_task_reset() for a task; it
\* holds the lock, and the task itself does not: a task that has disabled
\* resets is not reset under way, and one that sleeps for ever is reset.
THEOREM SingleResetter == Separate /\ Spec => []OneResetter
  <1>1. IInv => OneResetter
    <2> SUFFICES ASSUME IInv, NEW r \in Resettable
                 PROVE  /\ Resetters(r) # {} => /\ Cardinality(Resetters(r)) = 1
                                                /\ LOCK \in task_reset_state[r]
                                                /\ ~HeldByItself(r)
                        /\ pc[r] = "forever" =>
                             Resetters(r) # {} \/ r \in deferred_reset_task_ids
      BY DEF OneResetter
    <2>1. HolderOK(r)
      BY DEF IInv, LockOK
    <2>2. \A t \in Resetters(r) : Cardinality({t}) = 1
      BY FS_Singleton
    <2> QED  BY <2>1, <2>2 DEF HolderOK
  <1> QED  BY <1>1, ResetInvariance, PTL

\* A request that was queued while a task had resets disabled is executed
\* before the task goes on with resets enabled.
THEOREM QueueServed == Separate /\ Spec => []QueuedExecuted
  <1>1. IInv => QueuedExecuted
    <2> SUFFICES ASSUME IInv, NEW r \in Resettable, pc[r] \in {"own", "timed"},
                        r \notin disabled, Resetters(r) = {}
                 PROVE  queued[r] = {}
      BY DEF QueuedExecuted
    <2>1. LockOK(r) /\ queued[r] \subseteq Waiters(task_reset_state[r])
      BY DEF IInv, QueuesOK
    <2>2. LOCK \notin task_reset_state[r]
      BY <2>1 DEF LockOK, HolderOK, HeldByItself
    <2>3. task_reset_state[r] = {SUPPORTED}
      BY <2>1, <2>2 DEF LockOK, WordOK
    <2> QED  BY <2>1, <2>3 DEF Waiters
  <1> QED  BY <1>1, ResetInvariance, PTL

\* TASK_EVENT_RESET_DONE is not set for a task whose request is still queued.
THEOREM DoneIsTrue == Separate /\ Spec => []DoneWhenReset
  <1>1. IInv => DoneWhenReset
    BY DEF IInv, DoneWhenReset, WaitersOK, QueuesOK, Waiters, TypeOK
  <1> QED  BY <1>1, ResetInvariance, PTL

\* The timer_arm() in task_wait_event() fails for no task but one that a reset
\* found in a timed wait, with resets enabled, and whose timer of that wait
\* still runs: do_task_reset() does not cancel it.
THEOREM TimersFree == Separate /\ Spec => []TimerArmed
  <1>1. IInv => TimerArmed
    BY DEF IInv, TimersOK, TimerOK, TimerArmed
  <1> QED  BY <1>1, ResetInvariance, PTL
=============================================================================
