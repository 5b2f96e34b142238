------------------------------- MODULE Hooks -------------------------------
(***************************************************************************)
(* The loop of hook_task() in common/hooks.c, which calls the deferred     *)
(* routines and the periodic hooks, and hook_call_deferred(), by which     *)
(* every other task, every interrupt handler and the routines themselves   *)
(* request and cancel deferred calls.                                      *)
(*                                                                         *)
(* The hook task has the lowest priority of all but the idle task: it is   *)
(* preempted between any two accesses to the shared words, and none of its *)
(* steps falls within a call of hook_call_deferred() by another task or a  *)
(* handler.  A task's sleep is task_wait_event(): Tasks.tla and Timer.tla  *)
(* have the details, here its timer is a time it wakes at.                 *)
(***************************************************************************)
EXTENDS Integers

CONSTANTS
  DEFERRED_FUNCS_COUNT,  \* number of deferred routines
  HOOK_TICK_INTERVAL, SECOND,
  Delays,                \* the delays that are requested
  REQUESTS,              \* bound: number of requests and cancellations
  HORIZON                \* bound: the last moment considered

Funcs == 1 .. DEFERRED_FUNCS_COUNT

ASSUME HooksAssumption ==
  /\ DEFERRED_FUNCS_COUNT \in Nat
  /\ HOOK_TICK_INTERVAL \in Nat \ {0} /\ SECOND \in Nat \ {0}
  /\ Delays \subseteq Nat
  /\ REQUESTS \in Nat /\ HORIZON \in Nat \ {0}

VARIABLES
  now,             \* get_time(); 0 in __deferred_until means "none"
  deferred_until, defer_new_call, last_tick, last_second,
  wake,            \* TASK_EVENT_WAKE of the hook task
  pc, i, t, next,  \* the hook task's locals
  alarm, drift,    \* asleep: when the timer fires; how old `t' was then
  requests,        \* number of requests made so far
  asked,           \* history: the calls owed to their requesters
  not_before       \* history: the earliest time of the call last asked for

shared == <<deferred_until, defer_new_call, wake>>
history == <<requests, asked, not_before>>
vars == <<now, shared, last_tick, last_second, pc, i, t, next, alarm, drift,
          history>>

Time == 0 .. HORIZON

TypeOK ==
  /\ now \in Time
  /\ deferred_until \in [Funcs -> Time]
  /\ defer_new_call \in BOOLEAN /\ wake \in BOOLEAN
  /\ last_tick \in -HOOK_TICK_INTERVAL .. HORIZON
  /\ last_second \in -SECOND .. HORIZON
  /\ pc \in {"top", "check", "clear", "call", "routine", "periodic",
             "next", "reset", "scan", "sleep", "wait"}
  /\ i \in 1 .. DEFERRED_FUNCS_COUNT + 1 /\ t \in Time
  /\ next \in 0 .. HOOK_TICK_INTERVAL
  /\ alarm \in 0 .. HORIZON + HOOK_TICK_INTERVAL /\ drift \in Time
  /\ requests \in 0 .. REQUESTS
  /\ asked \subseteq Funcs
  /\ not_before \in [Funcs -> Time]

\* hook_task() has called the HOOK_INIT hooks and enabled the other tasks.
\* "Periodic hooks will be called first time through the loop."
Init ==
  /\ now = 1
  /\ deferred_until = [f \in Funcs |-> 0]
  /\ defer_new_call = FALSE /\ wake = FALSE
  /\ last_tick = -HOOK_TICK_INTERVAL /\ last_second = -SECOND
  /\ pc = "top" /\ i = 1 /\ t = 0 /\ next = 0
  /\ alarm = 0 /\ drift = 0
  /\ requests = 0 /\ asked = {} /\ not_before = [f \in Funcs |-> 0]

Tick ==
  /\ now < HORIZON
  /\ now' = now + 1
  /\ UNCHANGED <<shared, last_tick, last_second, pc, i, t, next, alarm, drift,
                 history>>

-----------------------------------------------------------------------------
(* hook_call_deferred()                                                    *)

\* Mutant of Request: the hook task is not woken to sleep anew.
Request_silent(f, us) ==
  /\ requests < REQUESTS /\ now + us <= HORIZON - 2
  /\ deferred_until' = [deferred_until EXCEPT ![f] = now + us]
  /\ defer_new_call' = TRUE
  /\ requests' = requests + 1
  /\ asked' = asked \cup {f}
  /\ not_before' = [not_before EXCEPT ![f] = now + us]
  /\ UNCHANGED <<now, wake, last_tick, last_second, pc, i, t, next, alarm,
                 drift>>

\* us >= 0: set the alarm, flag the call, wake the hook task.
Request(f, us) ==
  /\ requests < REQUESTS /\ now + us <= HORIZON - 2
  /\ deferred_until' = [deferred_until EXCEPT ![f] = now + us]
  /\ defer_new_call' = TRUE
  /\ wake' = TRUE
  /\ requests' = requests + 1
  /\ asked' = asked \cup {f}
  /\ not_before' = [not_before EXCEPT ![f] = now + us]
  /\ UNCHANGED <<now, last_tick, last_second, pc, i, t, next, alarm, drift>>

\* us = -1
CancelCall(f) ==
  /\ requests < REQUESTS
  /\ deferred_until' = [deferred_until EXCEPT ![f] = 0]
  /\ requests' = requests + 1
  /\ asked' = asked \ {f}
  /\ UNCHANGED <<now, defer_new_call, wake, last_tick, last_second, pc, i, t,
                 next, alarm, drift, not_before>>

hook_call_deferred(f) == CancelCall(f) \/ \E us \in Delays : Request(f, us)

-----------------------------------------------------------------------------
(* hook_task()                                                             *)

\* The top of the loop.
Top ==
  /\ pc = "top"
  /\ t' = now /\ i' = 1
  /\ pc' = "check"
  /\ UNCHANGED <<now, shared, last_tick, last_second, next, alarm, drift,
                 history>>

\* Mutant of Check: the loop ends before the last routine.
Check_short ==
  /\ pc = "check"
  /\ IF i >= DEFERRED_FUNCS_COUNT
     THEN pc' = "periodic" /\ UNCHANGED i
     ELSE IF deferred_until[i] # 0 /\ deferred_until[i] < t
     THEN pc' = "clear" /\ UNCHANGED i
     ELSE pc' = "check" /\ i' = i + 1
  /\ UNCHANGED <<now, shared, last_tick, last_second, t, next, alarm, drift,
                 history>>

\* Is routine i due?
Check ==
  /\ pc = "check"
  /\ IF i > DEFERRED_FUNCS_COUNT
     THEN pc' = "periodic" /\ UNCHANGED i
     ELSE IF deferred_until[i] # 0 /\ deferred_until[i] < t
     THEN pc' = "clear" /\ UNCHANGED i
     ELSE pc' = "check" /\ i' = i + 1
  /\ UNCHANGED <<now, shared, last_tick, last_second, t, next, alarm, drift,
                 history>>

\* "Clear timer first, so it can request itself be called later."
Clear ==
  /\ pc = "clear"
  /\ deferred_until' = [deferred_until EXCEPT ![i] = 0]
  /\ pc' = "call"
  /\ UNCHANGED <<now, defer_new_call, wake, last_tick, last_second, i, t, next,
                 alarm, drift, history>>

\* The routine is entered.
CallRoutine ==
  /\ pc = "call"
  /\ asked' = asked \ {i}
  /\ pc' = "routine"
  /\ UNCHANGED <<now, shared, last_tick, last_second, i, t, next, alarm, drift,
                 requests, not_before>>

\* It returns; a wait of its own may have taken the wake event meant for the
\* loop.  (What it requests, or cancels, is a step of hook_call_deferred.)
Return ==
  /\ pc = "routine"
  /\ wake' \in {wake, FALSE}
  /\ pc' = "check" /\ i' = i + 1
  /\ UNCHANGED <<now, deferred_until, defer_new_call, last_tick, last_second, t,
                 next, alarm, drift, history>>

\* HOOK_TICK and HOOK_SECOND.
Periodic ==
  /\ pc = "periodic"
  /\ last_tick' = IF t - last_tick >= HOOK_TICK_INTERVAL THEN t ELSE last_tick
  /\ last_second' = IF t - last_second >= SECOND THEN t ELSE last_second
  /\ pc' = "next"
  /\ UNCHANGED <<now, shared, i, t, next, alarm, drift, history>>

\* Mutant of NextTick: no look whether the tick is overdue.
NextTick_overdue ==
  /\ pc = "next"
  /\ t' = now
  /\ next' = last_tick + HOOK_TICK_INTERVAL - now
  /\ pc' = "reset"
  /\ UNCHANGED <<now, shared, last_tick, last_second, i, alarm, drift, history>>

\* "Calculate when next tick needs to occur"
NextTick ==
  /\ pc = "next"
  /\ t' = now
  /\ next' = IF last_tick + HOOK_TICK_INTERVAL > now
             THEN last_tick + HOOK_TICK_INTERVAL - now ELSE 0
  /\ pc' = "reset"
  /\ UNCHANGED <<now, shared, last_tick, last_second, i, alarm, drift, history>>

\* defer_new_call = 0
Reset ==
  /\ pc = "reset"
  /\ defer_new_call' = FALSE
  /\ i' = 1
  /\ pc' = "scan"
  /\ UNCHANGED <<now, deferred_until, wake, last_tick, last_second, t, next,
                 alarm, drift, history>>

\* "Wake earlier if needed by a deferred routine"
Scan ==
  /\ pc = "scan"
  /\ IF i > DEFERRED_FUNCS_COUNT \/ next = 0
     THEN pc' = "sleep" /\ UNCHANGED <<i, next>>
     ELSE /\ i' = i + 1
          /\ next' = IF deferred_until[i] = 0 THEN next
                     ELSE IF deferred_until[i] < t THEN 0
                     ELSE IF deferred_until[i] - t < next
                     THEN deferred_until[i] - t ELSE next
          /\ pc' = "scan"
  /\ UNCHANGED <<now, shared, last_tick, last_second, t, alarm, drift, history>>

\* if (next > 0 && !defer_new_call) task_wait_event(next)
Sleep ==
  /\ pc = "sleep"
  /\ IF next > 0 /\ ~defer_new_call
     THEN pc' = "wait" /\ alarm' = now + next /\ drift' = now - t
     ELSE pc' = "top" /\ UNCHANGED <<alarm, drift>>
  /\ i' = 1 /\ t' = 0 /\ next' = 0
  /\ UNCHANGED <<now, shared, last_tick, last_second, history>>

\* task_wait_event() returns, with an event or for the timeout; every timeout
\* has passed when the last moment considered has.
Wakeup ==
  /\ pc = "wait" /\ (wake \/ alarm <= now \/ now = HORIZON)
  /\ wake' = FALSE
  /\ alarm' = 0 /\ drift' = 0
  /\ pc' = "top"
  /\ UNCHANGED <<now, deferred_until, defer_new_call, last_tick, last_second, i,
                 t, next, history>>

hook_task ==
  \/ Top \/ Check \/ Clear \/ CallRoutine \/ Return \/ Periodic
  \/ NextTick \/ Reset \/ Scan \/ Sleep \/ Wakeup

Next ==
  \/ Tick
  \/ \E f \in Funcs : hook_call_deferred(f)
  \/ hook_task

Spec == Init /\ [][Next]_vars

\* Time passes, and the tasks of higher priority leave the hook task some.
FairSpec == Spec /\ WF_vars(Tick) /\ WF_vars(hook_task)

-----------------------------------------------------------------------------
(* Properties                                                              *)

Asleep == pc = "wait" /\ ~wake /\ alarm > now

\* The hook task never sleeps past a call it owes or past the next tick, by
\* more than the time it was preempted for between reading the clock and
\* falling asleep; and no request is made that it does not know of.
NeverOversleeps ==
  Asleep =>
    /\ alarm <= last_tick + HOOK_TICK_INTERVAL + drift
    /\ \A f \in asked : deferred_until[f] # 0
                        /\ alarm <= deferred_until[f] + drift

\* "This will always trigger a deferred call after our new ID was written.  If
\* the hook call is currently executing, it will run again" (the comment of
\* task_enable_resets): a request that is not cancelled is followed by a call.
DeferredCalled == \A f \in Funcs : f \in asked ~> f \notin asked

\* include/hooks.h: "The routine will be called after at least the specified
\* delay", "subsequent calls will change the delay".  It does not hold:
\* hook_task() looks whether a routine is due in one step and clears its time
\* in the next, and takes with it a later time requested in between.
DelayHonoured ==
  pc = "call" /\ i \in asked => not_before[i] <= now
=============================================================================
