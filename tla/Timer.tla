------------------------------- MODULE Timer -------------------------------
(***************************************************************************)
(* common/timer.c without CONFIG_HWTIMER_64BIT: the 64-bit clock made of a *)
(* hardware counter and a word counted up by its overflow interrupt, and   *)
(* the timers of all tasks multiplexed on the counter's match interrupt.   *)
(*                                                                         *)
(* A 32-bit word has the values 0 .. WRAP - 1 here, and a timestamp is the *)
(* number hi * WRAP + lo.  `now' is the time of the EC's clock, of which   *)
(* the code sees the low word, and clksrc_high.  An overflow that comes    *)
(* between the read and the clear of the status register is lost: the      *)
(* clock is then an epoch behind for ever.                                 *)
(*                                                                         *)
(* One step of a task is one access to a word that the timer interrupt or  *)
(* the hardware also changes.  The interrupt has a higher priority than    *)
(* every task and is taken before the task's next step; time passes        *)
(* between any two steps, of the handler too.  A word that is not read     *)
(* again before it is written is reset to 0.                               *)
(***************************************************************************)
EXTENDS Naturals

CONSTANTS
  Tasks,     \* the tasks that wait with a timeout
  WRAP,      \* number of values of a word
  DELAY,     \* bound: the longest timeout
  HORIZON    \* bound: the last moment considered

ASSUME TimerAssumption ==
  /\ Tasks # {}
  /\ WRAP \in Nat /\ WRAP >= 2
  /\ DELAY \in Nat \ {0} /\ HORIZON \in Nat /\ WRAP <= HORIZON

hi(time) == time \div WRAP
lo(time) == time % WRAP
Word == 0 .. WRAP - 1
MaxWord == WRAP - 1
Time == 0 .. HORIZON + DELAY

VARIABLES
  now,       \* the time counted, less the overflows lost
  lost,      \* history: the number of overflows lost
  \* the hardware timer: match register and its interrupt enable, the
  \* interrupts pending for match, overflow and task_trigger_irq()
  match, match_enabled, match_pending, overflow_pending, sw_pending,
  \* the globals of timer.c
  clksrc_high, timer_running, timer_deadline, next_deadline,
  \* the timer interrupt handler: where it is, the overflow flag of the status
  \* it read, and process_timers()'s `next'
  irq, stat_tim, next,
  \* the tasks: where each is, timeout_us, the words read by the get_time() of
  \* __wait_evt(), and the high word returned to timer_arm()
  pc, timeout, ts_hi, ts_lo, arm_hi,
  \* history: the time the wait was to end, the timer events not yet seen, and
  \* the tasks for which an overflow was counted within timer_arm()
  due, fired, crossed

hw == <<match, match_enabled, match_pending, overflow_pending, sw_pending>>
globals == <<clksrc_high, timer_running, timer_deadline, next_deadline>>
locals == <<pc, timeout, ts_hi, ts_lo, arm_hi>>
handler == <<irq, stat_tim, next>>
vars == <<now, lost, hw, globals, handler, locals, due, fired, crossed>>

\* The time that has really passed.
RealTime == now + lost * WRAP

TypeOK ==
  /\ now \in 0 .. HORIZON /\ lost \in Nat
  /\ match \in Word /\ match_enabled \in BOOLEAN /\ match_pending \in BOOLEAN
  /\ overflow_pending \in BOOLEAN /\ sw_pending \in BOOLEAN
  /\ clksrc_high \in 0 .. hi(HORIZON)
  /\ timer_running \subseteq Tasks
  /\ timer_deadline \in [Tasks -> Time]
  /\ next_deadline \in Word
  /\ irq \in {"off", "clear", "scan", "set", "again"} /\ stat_tim \in BOOLEAN
  /\ next \in Time
  /\ pc \in [Tasks -> {"run", "hi", "lo", "check", "relo", "arm", "start",
                       "trigger", "wait"}]
  /\ timeout \in [Tasks -> 0 .. DELAY]
  /\ ts_hi \in [Tasks -> 0 .. hi(HORIZON)] /\ ts_lo \in [Tasks -> Word]
  /\ arm_hi \in [Tasks -> 0 .. hi(HORIZON)]
  /\ due \in [Tasks -> Time]
  /\ fired \subseteq Tasks /\ crossed \subseteq Tasks

\* timer_init(): the time kept over a sysjump, or 0.
Init ==
  /\ now \in {0, WRAP - 1} /\ clksrc_high = 0 /\ lost = 0
  /\ match = 0 /\ match_enabled = FALSE /\ match_pending = FALSE
  /\ overflow_pending = FALSE /\ sw_pending = FALSE
  /\ timer_running = {} /\ timer_deadline = [t \in Tasks |-> 0]
  /\ next_deadline = MaxWord
  /\ irq = "off" /\ stat_tim = FALSE /\ next = 0
  /\ pc = [t \in Tasks |-> "run"]
  /\ timeout = [t \in Tasks |-> 0]
  /\ ts_hi = [t \in Tasks |-> 0] /\ ts_lo = [t \in Tasks |-> 0]
  /\ arm_hi = [t \in Tasks |-> 0] /\ due = [t \in Tasks |-> 0]
  /\ fired = {} /\ crossed = {}

-----------------------------------------------------------------------------
(* The hardware                                                            *)

\* The counter counts.  An overflow is served before the next one.
Tick ==
  /\ RealTime < HORIZON
  /\ ~(overflow_pending /\ lo(now) = MaxWord)
  /\ now' = now + 1
  /\ overflow_pending' = (overflow_pending \/ lo(now') = 0)
  /\ match_pending' = (match_pending \/ (match_enabled /\ lo(now') = match))
  /\ UNCHANGED <<lost, match, match_enabled, sw_pending, globals, handler,
                 locals, due, fired, crossed>>

IrqPending == match_pending \/ overflow_pending \/ sw_pending

-----------------------------------------------------------------------------
(* The timer interrupt                                                     *)

\* The clock as process_timers() reads it: nothing interrupts it to change the
\* high word, which lags behind a counter that overflows meanwhile.
HandlerTime == clksrc_high * WRAP + lo(now)

\* __hw_clock_source_irq() reads the status register.
__hw_clock_source_irq ==
  /\ irq = "off" /\ IrqPending
  /\ irq' = "clear"
  /\ stat_tim' = overflow_pending
  /\ sw_pending' = FALSE
  /\ UNCHANGED <<now, lost, match, match_enabled, match_pending,
                 overflow_pending, globals, next, locals, due, fired, crossed>>

\* The write of 0 to the status register clears what was raised since the read
\* too, which may have made the interrupt pending once more: an overflow
\* raised in between is lost.
ClearStatus ==
  /\ irq = "clear"
  /\ irq' = "scan" /\ stat_tim' = FALSE
  /\ match_pending' = FALSE /\ overflow_pending' = FALSE
  /\ sw_pending' \in {FALSE, match_pending \/ overflow_pending}
  /\ IF overflow_pending /\ ~stat_tim
     THEN now' = now - WRAP /\ lost' = lost + 1
     ELSE UNCHANGED <<now, lost>>
  /\ UNCHANGED <<match, match_enabled, timer_running, timer_deadline,
                 next_deadline, next, locals, due, fired>>

\* Mutant of clear_and_count: the overflow flag of the status it has read is
\* ignored, and every interrupt counts as an overflow.
count_always ==
  /\ ClearStatus
  /\ clksrc_high' = clksrc_high + 1
  /\ UNCHANGED crossed

\* The clear, and process_timers() counts the overflow that was read.
clear_and_count ==
  /\ ClearStatus
  /\ clksrc_high' = IF stat_tim THEN clksrc_high + 1 ELSE clksrc_high
  /\ crossed' = IF stat_tim
                THEN crossed \cup {t \in Tasks : pc[t] = "start"}
                ELSE crossed

\* Mutant of Expired: only the low words are compared.
Expired_lo(time) == {t \in timer_running : lo(timer_deadline[t]) <= lo(time)}

\* timer_deadline[tskid].val <= now.val
Expired(time) == {t \in timer_running : timer_deadline[t] <= time}

\* The running timers of the current epoch that can be matched; MaxWord, the
\* low word of the initial -1, is not.
Candidates(time) ==
  {timer_deadline[t] :
     t \in {u \in timer_running \ Expired(time) :
              /\ hi(timer_deadline[u]) = hi(time)
              /\ lo(timer_deadline[u]) < MaxWord}}

\* One pass of process_timers(): expire the timers that are due and find the
\* closest deadline of the others; without one, disable the match.
process_timers ==
  /\ irq = "scan"
  /\ timer_running' = timer_running \ Expired(HandlerTime)
  /\ fired' = fired \cup Expired(HandlerTime)
  /\ crossed' = crossed \ timer_running
  /\ IF Candidates(HandlerTime) = {}
     THEN /\ match' = 0 /\ match_enabled' = FALSE
          /\ next_deadline' = MaxWord
          /\ irq' = "off" /\ next' = 0
     ELSE /\ next' \in Candidates(HandlerTime)
          /\ \A deadline \in Candidates(HandlerTime) : next' <= deadline
          /\ irq' = "set"
          /\ UNCHANGED <<match, match_enabled, next_deadline>>
  /\ UNCHANGED <<now, lost, match_pending, overflow_pending, sw_pending,
                 clksrc_high, timer_deadline, stat_tim, locals, due>>

\* __hw_clock_event_set(), which clears an old match.
event_set ==
  /\ irq = "set"
  /\ match' = lo(next) /\ match_enabled' = TRUE /\ match_pending' = FALSE
  /\ next_deadline' = lo(next)
  /\ irq' = "again"
  /\ UNCHANGED <<now, lost, overflow_pending, sw_pending, clksrc_high,
                 timer_running, timer_deadline, stat_tim, next, locals, due,
                 fired, crossed>>

\* Mutant of recheck: the counter may have passed the match while it was set.
recheck_never ==
  /\ irq = "again"
  /\ irq' = "off"
  /\ next' = 0
  /\ UNCHANGED <<now, lost, hw, globals, stat_tim, locals, due, fired,
                 crossed>>

\* while (next.val <= get_time().val)
recheck ==
  /\ irq = "again"
  /\ irq' = IF next <= HandlerTime THEN "scan" ELSE "off"
  /\ next' = 0
  /\ UNCHANGED <<now, lost, hw, globals, stat_tim, locals, due, fired,
                 crossed>>

-----------------------------------------------------------------------------
(* The tasks: task_wait_event() with a timeout, and the timer calls in it  *)

At(t, label) == irq = "off" /\ ~IrqPending /\ pc[t] = label
Goto(t, label) == pc' = [pc EXCEPT ![t] = label]

\* __wait_evt(): the task is to be woken in d units.
StartWait(t, d) ==
  /\ At(t, "run")
  /\ timeout' = [timeout EXCEPT ![t] = d]
  /\ due' = [due EXCEPT ![t] = RealTime + d]
  /\ Goto(t, "hi")
  /\ UNCHANGED <<now, lost, hw, globals, handler, ts_hi, ts_lo, arm_hi, fired,
                 crossed>>

\* get_time() reads the high word ...
ReadHi(t) ==
  /\ At(t, "hi")
  /\ ts_hi' = [ts_hi EXCEPT ![t] = clksrc_high]
  /\ Goto(t, "lo")
  /\ UNCHANGED <<now, lost, hw, globals, handler, timeout, ts_lo, arm_hi, due,
                 fired, crossed>>

\* ... and the counter, again if the high word was found to have changed.
ReadLo(t) ==
  /\ \/ At(t, "lo") /\ Goto(t, "check")
     \/ At(t, "relo") /\ Goto(t, "arm")
  /\ ts_lo' = [ts_lo EXCEPT ![t] = lo(now)]
  /\ UNCHANGED <<now, lost, hw, globals, handler, timeout, ts_hi, arm_hi, due,
                 fired, crossed>>

\* Mutant of CheckHi: the high word is not read again.
CheckHi_trusted(t) ==
  /\ At(t, "check")
  /\ Goto(t, "arm")
  /\ UNCHANGED <<now, lost, hw, globals, handler, timeout, ts_hi, ts_lo,
                 arm_hi, due, fired, crossed>>

\* if (ts.le.hi != clksrc_high)
CheckHi(t) ==
  /\ At(t, "check")
  /\ ts_hi' = [ts_hi EXCEPT ![t] = clksrc_high]
  /\ Goto(t, IF ts_hi[t] = clksrc_high THEN "arm" ELSE "relo")
  /\ UNCHANGED <<now, lost, hw, globals, handler, timeout, ts_lo, arm_hi, due,
                 fired, crossed>>

\* timer_arm()'s own get_time(), of which it uses the high word: the one
\* clksrc_high had when get_time() compared it.
Arm(t) ==
  /\ At(t, "arm")
  /\ arm_hi' = [arm_hi EXCEPT ![t] = clksrc_high]
  /\ Goto(t, "start")
  /\ UNCHANGED <<now, lost, hw, globals, handler, timeout, ts_hi, ts_lo, due,
                 fired, crossed>>

\* The timer is not running: set its deadline, then its bit.
Start(t) ==
  /\ At(t, "start") /\ t \notin timer_running
  /\ timer_deadline' = [timer_deadline EXCEPT
                          ![t] = ts_hi[t] * WRAP + ts_lo[t] + timeout[t]]
  /\ timer_running' = timer_running \cup {t}
  /\ Goto(t, "trigger")
  /\ UNCHANGED <<now, lost, hw, clksrc_high, next_deadline, handler, timeout,
                 ts_hi, ts_lo, arm_hi, due, fired, crossed>>

\* "Modify the next event if needed", and wait.
Trigger(t) ==
  /\ At(t, "trigger")
  /\ LET event == timer_deadline[t] IN
       sw_pending' = \/ hi(event) < arm_hi[t]
                     \/ hi(event) = arm_hi[t] /\ lo(event) <= next_deadline
  /\ Goto(t, "wait")
  /\ timeout' = [timeout EXCEPT ![t] = 0]
  /\ ts_hi' = [ts_hi EXCEPT ![t] = 0] /\ ts_lo' = [ts_lo EXCEPT ![t] = 0]
  /\ arm_hi' = [arm_hi EXCEPT ![t] = 0]
  /\ UNCHANGED <<now, lost, match, match_enabled, match_pending,
                 overflow_pending, globals, handler, due, fired, crossed>>

\* The task was woken, by its timer or by another event: timer_cancel().
Cancel(t) ==
  /\ At(t, "wait")
  /\ timer_running' = timer_running \ {t}
  /\ fired' = fired \ {t}
  /\ crossed' = crossed \ {t}
  /\ timer_deadline' = [timer_deadline EXCEPT ![t] = 0]
  /\ due' = [due EXCEPT ![t] = 0]
  /\ Goto(t, "run")
  /\ UNCHANGED <<now, lost, hw, clksrc_high, next_deadline, handler, timeout,
                 ts_hi, ts_lo, arm_hi>>

\* The idle task, which runs while all others wait, wakes from a deep sleep
\* of d units that stopped the counter: force_time(), interrupts disabled.
force_time(d) ==
  /\ \A t \in Tasks : At(t, "wait") /\ t \notin fired
  /\ RealTime + d <= HORIZON
  /\ now' = now + d
  /\ clksrc_high' = hi(now')
  /\ sw_pending' = TRUE
  /\ UNCHANGED <<lost, match, match_enabled, match_pending, overflow_pending,
                 timer_running, timer_deadline, next_deadline, handler,
                 locals, due, fired, crossed>>

-----------------------------------------------------------------------------
Handler ==
  \/ __hw_clock_source_irq \/ clear_and_count
  \/ process_timers \/ event_set \/ recheck

Task(t) ==
  \/ \E d \in 1 .. DELAY : StartWait(t, d)
  \/ ReadHi(t) \/ ReadLo(t) \/ CheckHi(t)
  \/ Arm(t) \/ Start(t) \/ Trigger(t) \/ Cancel(t)

Next ==
  \/ Tick \/ Handler
  \/ \E t \in Tasks : Task(t)
  \/ \E d \in 1 .. HORIZON : force_time(d)

Spec == Init /\ [][Next]_vars

-----------------------------------------------------------------------------
(* Properties                                                              *)

\* The interrupt that will look at task t's timer no later than its deadline on
\* the EC's clock is programmed: the overflow for a deadline in a later epoch
\* or at the last value of the counter, a match not yet passed for the others.
Programmed(t) ==
  LET deadline == timer_deadline[t] IN
    \/ hi(deadline) > hi(now)
    \/ hi(deadline) = hi(now) /\ lo(deadline) = MaxWord
    \/ /\ hi(deadline) = hi(now)
       /\ match_enabled /\ lo(now) < match /\ match <= lo(deadline)

Quiescent == irq = "off" /\ ~IrqPending

\* Whatever the order in which timers are armed, cancelled and expire and
\* however long process_timers() takes: no interrupt left to serve, every
\* armed timer has its interrupt.  The timers for which an overflow was
\* counted within timer_arm() are excepted until the next process_timers().
TimersProgrammed ==
  Quiescent =>
    \A t \in timer_running \ crossed : pc[t] = "wait" => Programmed(t)

\* docs/core_runtime.md: "Every time a timer is armed or expired, the runtime
\* finds the task timer having the closest deadline and programs it in the
\* hardware to get an interrupt."  It does not hold: timer_arm() compares the
\* deadline with the time it read first, so that a deadline in the epoch that
\* has begun since is taken for one that the overflow will look at.
EveryTimerProgrammed ==
  Quiescent => \A t \in timer_running : pc[t] = "wait" => Programmed(t)

\* get_time() is coherent: the deadline computed from it lies no earlier than
\* the timeout after the call and no later than the timeout from now, as the
\* EC's clock can tell: it is behind by the overflows it has lost.
DeadlineCoherent ==
  \A t \in Tasks : pc[t] \in {"arm", "start"} =>
    LET ts == ts_hi[t] * WRAP + ts_lo[t]
    IN  due[t] <= ts + timeout[t] + lost * WRAP /\ ts <= RealTime

\* The timers of timer.c are the timers the task runtime counts on: none
\* expires before its time, none twice, none after it was cancelled.  A lost
\* overflow can only make them late.
Service == INSTANCE TimerService WITH running <- timer_running,
                                      now <- RealTime
TimerServiceSpec == Service!Spec
=============================================================================
