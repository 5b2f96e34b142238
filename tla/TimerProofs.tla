---------------------------- MODULE TimerProofs ----------------------------
(***************************************************************************)
(* Proofs about Timer, for every word length, all timeouts and every set   *)
(* of tasks.                                                               *)
(***************************************************************************)
EXTENDS Timer, TLAPS

-----------------------------------------------------------------------------
(* The inductive invariant                                                 *)

\* The start of an epoch.
Epoch(h) == h * WRAP

\* The time the EC's clock is behind.
Behind == Epoch(lost)

\* The high word is behind by one while an overflow is pending, which it is
\* when the status that was read says so.
ClockOK ==
  /\ hi(now) = IF overflow_pending THEN clksrc_high + 1 ELSE clksrc_high
  /\ now + Behind <= HORIZON
  /\ irq = "clear" /\ stat_tim => overflow_pending

\* get_time() in __wait_evt(): what was read so far, and that the call began no
\* later than the time the words read will make.
ReadOK(t) ==
  LET ts == Epoch(ts_hi[t]) + ts_lo[t]
      coherent == due[t] <= ts + timeout[t] + Behind /\ ts <= now + Behind
  IN  /\ pc[t] \in {"hi", "lo"} => due[t] <= now + timeout[t] + Behind
      /\ pc[t] \in {"lo", "check"} =>
           /\ ts_hi[t] <= clksrc_high
           /\ due[t] < Epoch(ts_hi[t]) + WRAP + timeout[t] + Behind
      /\ pc[t] = "check" /\ ts_hi[t] = clksrc_high => coherent
      /\ pc[t] = "relo" =>
           /\ ts_hi[t] <= clksrc_high
           /\ due[t] <= Epoch(ts_hi[t]) + timeout[t] + Behind
      /\ pc[t] \in {"arm", "start"} => coherent

\* A timer runs, or has fired, while its task waits for it.
RunningOK(t) ==
  /\ t \in timer_running =>
       /\ pc[t] \in {"trigger", "wait"}
       /\ due[t] <= timer_deadline[t] + Behind
  /\ t \in fired => pc[t] \in {"trigger", "wait"}

TaskOK(t) == ReadOK(t) /\ RunningOK(t)

IInv == TypeOK /\ ClockOK /\ \A t \in Tasks : TaskOK(t)

\* No overflow was counted since the task read the high word.
ArmOK ==
  \A t \in Tasks \ crossed : pc[t] = "start" => arm_hi[t] = clksrc_high

\* No interrupt is left to serve: the match that is set is not passed.
MatchOK ==
  Quiescent =>
    \/ next_deadline = MaxWord
    \/ match_enabled /\ match = next_deadline /\ lo(now) < match

\* A timer that is not programmed yet is going to be.
CoveredOK ==
  Quiescent =>
    \A t \in timer_running \ crossed :
      \/ Programmed(t)
      \/ pc[t] = "trigger" /\ arm_hi[t] = clksrc_high

\* In process_timers(): unless the counter has overflowed meanwhile, `next' is
\* the closest deadline.
NextOK ==
  irq \in {"set", "again"} =>
    /\ hi(next) = clksrc_high
    /\ ~overflow_pending => \A t \in timer_running :
         \/ hi(timer_deadline[t]) > hi(now)
         \/ /\ hi(timer_deadline[t]) = hi(now)
            /\ \/ lo(timer_deadline[t]) = MaxWord
               \/ next <= timer_deadline[t]

SetOK ==
  irq = "again" =>
    match_enabled /\ match = lo(next) /\ next_deadline = lo(next)

PInv == ArmOK /\ MatchOK /\ CoveredOK /\ NextOK /\ SetOK

-----------------------------------------------------------------------------
(* Words                                                                   *)

LEMMA EpochTyped == ASSUME NEW h \in Nat PROVE Epoch(h) \in Nat
  BY TimerAssumption DEF Epoch

LEMMA NextEpoch == ASSUME NEW h \in Nat PROVE Epoch(h + 1) = Epoch(h) + WRAP
  BY TimerAssumption DEF Epoch

LEMMA EpochGrows ==
  ASSUME NEW g \in Nat, NEW h \in Nat, g <= h PROVE Epoch(g) <= Epoch(h)
  BY TimerAssumption DEF Epoch

LEMMA EpochLater ==
  ASSUME NEW g \in Nat, NEW h \in Nat, g < h PROVE Epoch(g) + WRAP <= Epoch(h)
  <1>1. g + 1 \in Nat /\ g + 1 <= h
    OBVIOUS
  <1> QED  BY <1>1, EpochGrows, NextEpoch

LEMMA Split ==
  ASSUME NEW x \in Nat
  PROVE  /\ hi(x) \in Nat /\ lo(x) \in Word /\ lo(x) \in Nat /\ lo(x) < WRAP
         /\ x = Epoch(hi(x)) + lo(x)
  BY TimerAssumption DEF hi, lo, Word, Epoch

LEMMA Join ==
  ASSUME NEW h \in Nat, NEW l \in Word
  PROVE  hi(Epoch(h) + l) = h /\ lo(Epoch(h) + l) = l
  <1> DEFINE x == Epoch(h) + l
  <1>0. l \in Nat /\ l < WRAP /\ WRAP \in Nat
    BY TimerAssumption DEF Word
  <1>1. Epoch(h) \in Nat /\ x \in Nat
    BY <1>0, EpochTyped
  <1> HIDE DEF x
  <1>2. /\ hi(x) \in Nat /\ lo(x) \in Nat /\ lo(x) < WRAP
        /\ x = Epoch(hi(x)) + lo(x)
    BY <1>1, Split
  <1>3. x = Epoch(h) + l
    BY DEF x
  <1>4. ~(hi(x) < h)
    BY <1>0, <1>1, <1>2, <1>3, EpochLater, EpochTyped
  <1>5. ~(h < hi(x))
    BY <1>0, <1>1, <1>2, <1>3, EpochLater, EpochTyped
  <1>6. hi(x) = h
    BY <1>2, <1>4, <1>5
  <1>7. lo(x) = l
    BY <1>0, <1>1, <1>2, <1>3, <1>6
  <1> QED  BY <1>6, <1>7 DEF x

LEMMA HiGrows ==
  ASSUME NEW x \in Nat, NEW y \in Nat, x <= y PROVE hi(x) <= hi(y)
  <1>1. /\ hi(x) \in Nat /\ lo(x) \in Nat
        /\ x = Epoch(hi(x)) + lo(x)
    BY Split
  <1>2. /\ hi(y) \in Nat /\ lo(y) \in Nat /\ lo(y) < WRAP
        /\ y = Epoch(hi(y)) + lo(y)
    BY Split
  <1>3. Epoch(hi(x)) \in Nat /\ Epoch(hi(y)) \in Nat /\ WRAP \in Nat
    BY <1>1, <1>2, EpochTyped, TimerAssumption
  <1>4. hi(y) < hi(x) => Epoch(hi(y)) + WRAP <= Epoch(hi(x))
    BY <1>1, <1>2, EpochLater
  <1>5. ~(hi(y) < hi(x))
    BY <1>1, <1>2, <1>3, <1>4
  <1> QED  BY <1>1, <1>2, <1>5

\* The next value of the counter.
LEMMA Count ==
  ASSUME NEW x \in Nat
  PROVE  /\ lo(x) = MaxWord => hi(x + 1) = hi(x) + 1 /\ lo(x + 1) = 0
         /\ lo(x) # MaxWord => hi(x + 1) = hi(x) /\ lo(x + 1) = lo(x) + 1
  <1>1. /\ hi(x) \in Nat /\ lo(x) \in Nat /\ lo(x) < WRAP
        /\ x = Epoch(hi(x)) + lo(x)
    BY Split
  <1>2. Epoch(hi(x)) \in Nat /\ WRAP \in Nat /\ WRAP >= 2
    BY <1>1, EpochTyped, TimerAssumption
  <1>3. CASE lo(x) = MaxWord
    <2>1. x + 1 = Epoch(hi(x)) + WRAP
      BY <1>1, <1>2, <1>3 DEF MaxWord
    <2>2. x + 1 = Epoch(hi(x) + 1) + 0
      BY <1>1, <1>2, <2>1, NextEpoch
    <2>3. 0 \in Word /\ hi(x) + 1 \in Nat
      BY <1>1, <1>2 DEF Word
    <2> QED  BY <1>3, <2>2, <2>3, Join
  <1>4. CASE lo(x) # MaxWord
    <2>1. lo(x) + 1 \in Word
      BY <1>1, <1>2, <1>4 DEF MaxWord, Word
    <2>2. x + 1 = Epoch(hi(x)) + (lo(x) + 1)
      BY <1>1, <1>2
    <2> QED  BY <1>1, <1>4, <2>1, <2>2, Join
  <1> QED  BY <1>3, <1>4

\* The same value of the counter an epoch ago.
LEMMA Back ==
  ASSUME NEW x \in Nat, NEW h \in Nat, hi(x) = h + 1
  PROVE  x - WRAP \in Nat /\ hi(x - WRAP) = h
  <1>1. /\ lo(x) \in Word /\ lo(x) \in Nat /\ x = Epoch(h + 1) + lo(x)
    BY Split
  <1>2. Epoch(h + 1) = Epoch(h) + WRAP /\ Epoch(h) \in Nat /\ WRAP \in Nat
    BY NextEpoch, EpochTyped, TimerAssumption
  <1>3. x - WRAP = Epoch(h) + lo(x)
    BY <1>1, <1>2
  <1> QED  BY <1>1, <1>2, <1>3, Join

-----------------------------------------------------------------------------
(* The invariant                                                           *)

\* What a step may use of the clock.
LEMMA Clock ==
  ASSUME TypeOK, ClockOK
  PROVE  /\ now \in Nat /\ now <= HORIZON
         /\ hi(now) \in Nat /\ hi(now) <= hi(HORIZON) /\ lo(now) \in Word
         /\ lo(now) \in Nat /\ lo(now) < WRAP /\ now = Epoch(hi(now)) + lo(now)
         /\ clksrc_high \in Nat /\ clksrc_high <= hi(now)
         /\ ~overflow_pending => clksrc_high = hi(now)
         /\ overflow_pending => clksrc_high + 1 = hi(now)
         /\ HandlerTime \in Nat /\ HandlerTime <= now
         /\ ~overflow_pending => HandlerTime = now
         /\ hi(HandlerTime) = clksrc_high /\ lo(HandlerTime) = lo(now)
         /\ lost \in Nat /\ Behind \in Nat /\ now + Behind <= HORIZON
         /\ RealTime = now + Behind
  <1>1. now \in Nat /\ now <= HORIZON /\ HORIZON \in Nat
    BY TimerAssumption DEF TypeOK
  <1>2. /\ hi(now) \in Nat /\ lo(now) \in Word /\ lo(now) \in Nat
        /\ lo(now) < WRAP /\ now = Epoch(hi(now)) + lo(now)
    BY <1>1, Split
  <1>3. hi(now) <= hi(HORIZON)
    BY <1>1, HiGrows
  <1>4. hi(HORIZON) \in Nat
    BY <1>1, Split
  <1>5. clksrc_high \in Nat
    BY <1>4 DEF TypeOK
  <1>6. /\ ~overflow_pending => clksrc_high = hi(now)
        /\ overflow_pending => clksrc_high + 1 = hi(now)
    BY <1>2, <1>5 DEF ClockOK
  <1>7. clksrc_high <= hi(now)
    BY <1>2, <1>5, <1>6
  <1>8. HandlerTime = Epoch(clksrc_high) + lo(now)
    BY DEF HandlerTime, Epoch
  <1>9. /\ Epoch(clksrc_high) \in Nat /\ Epoch(hi(now)) \in Nat
        /\ Epoch(clksrc_high) <= Epoch(hi(now))
    BY <1>2, <1>5, <1>7, EpochTyped, EpochGrows
  <1>10. HandlerTime \in Nat /\ HandlerTime <= now
    BY <1>2, <1>8, <1>9
  <1>11. ~overflow_pending => HandlerTime = now
    BY <1>2, <1>6, <1>8
  <1>12. hi(HandlerTime) = clksrc_high /\ lo(HandlerTime) = lo(now)
    BY <1>2, <1>5, <1>8, Join
  <1>13. lost \in Nat /\ now + Behind <= HORIZON
    BY DEF TypeOK, ClockOK
  <1>14. Behind \in Nat /\ RealTime = now + Behind
    BY <1>13, EpochTyped DEF Behind, RealTime, Epoch
  <1> QED  BY <1>1, <1>2, <1>3, <1>5, <1>6, <1>7, <1>10, <1>11, <1>12, <1>13,
              <1>14

\* The types of a task's words.
LEMMA Locals ==
  ASSUME TypeOK, NEW t \in Tasks
  PROVE  /\ ts_hi[t] \in Nat /\ ts_lo[t] \in Nat /\ ts_lo[t] \in Word
         /\ arm_hi[t] \in Nat
         /\ timeout[t] \in Nat /\ timeout[t] <= DELAY /\ due[t] \in Nat
         /\ timer_deadline[t] \in Nat /\ Epoch(ts_hi[t]) \in Nat
  <1>1. HORIZON \in Nat /\ DELAY \in Nat /\ WRAP \in Nat
    BY TimerAssumption
  <1>2. hi(HORIZON) \in Nat
    BY <1>1, Split
  <1>3. ts_hi[t] \in Nat /\ ts_lo[t] \in Word /\ arm_hi[t] \in Nat
    BY <1>1, <1>2 DEF TypeOK
  <1>4. ts_lo[t] \in Nat
    BY <1>1, <1>3 DEF Word
  <1>5. timeout[t] \in Nat /\ timeout[t] <= DELAY
    BY <1>1 DEF TypeOK
  <1>6. due[t] \in Nat /\ timer_deadline[t] \in Nat
    BY <1>1 DEF TypeOK, Time
  <1> QED  BY <1>3, <1>4, <1>5, <1>6, EpochTyped

\* A step that changes nothing of the task and leaves the clock alone.
LEMMA ReadFrame ==
  ASSUME NEW t \in Tasks, ReadOK(t), pc'[t] = pc[t], timeout'[t] = timeout[t],
         ts_hi'[t] = ts_hi[t], ts_lo'[t] = ts_lo[t], due'[t] = due[t],
         now' = now, lost' = lost, clksrc_high' = clksrc_high
  PROVE  ReadOK(t)'
  BY DEF ReadOK, Behind

LEMMA RunningFrame ==
  ASSUME NEW t \in Tasks, RunningOK(t), pc'[t] = pc[t], due'[t] = due[t],
         timer_deadline'[t] = timer_deadline[t], lost' = lost,
         t \in timer_running' => t \in timer_running,
         t \in fired' => t \in fired \/ t \in timer_running
  PROVE  RunningOK(t)'
  BY DEF RunningOK, Behind

LEMMA InitInv == Init => IInv
  <1> SUFFICES ASSUME Init PROVE IInv
    OBVIOUS
  <1>1. /\ WRAP \in Nat /\ WRAP >= 2 /\ HORIZON \in Nat /\ DELAY \in Nat
        /\ WRAP <= HORIZON
    BY TimerAssumption
  <1>2. hi(HORIZON) \in Nat
    BY <1>1, Split
  <1>3. 0 \in 0 .. hi(HORIZON) /\ 0 \in Word /\ 0 \in Time /\ MaxWord \in Word
    BY <1>1, <1>2 DEF Word, Time, MaxWord
  <1>4. now \in 0 .. HORIZON
    BY <1>1 DEF Init
  <1>5. TypeOK
    <2>1. 0 \in 0 .. DELAY
      BY <1>1
    <2>2. /\ timer_deadline \in [Tasks -> Time] /\ due \in [Tasks -> Time]
          /\ timeout \in [Tasks -> 0 .. DELAY]
      BY <1>3, <2>1 DEF Init
    <2>3. /\ ts_hi \in [Tasks -> 0 .. hi(HORIZON)]
          /\ arm_hi \in [Tasks -> 0 .. hi(HORIZON)]
          /\ ts_lo \in [Tasks -> Word]
      BY <1>3 DEF Init
    <2>4. pc \in [Tasks -> {"run", "hi", "lo", "check", "relo", "arm", "start",
                            "trigger", "wait"}]
      BY DEF Init
    <2>5. clksrc_high \in 0 .. hi(HORIZON)
      BY <1>3 DEF Init
    <2> QED  BY <1>3, <1>4, <2>2, <2>3, <2>4, <2>5 DEF Init, TypeOK
  <1>6. Epoch(0) = 0
    BY <1>1 DEF Epoch
  <1>7. Epoch(0) + 0 = 0 /\ Epoch(0) + (WRAP - 1) = WRAP - 1
    BY <1>1, <1>6
  <1>8. WRAP - 1 \in Word
    BY <1>1 DEF Word
  <1>9. hi(0) = 0 /\ hi(WRAP - 1) = 0
    BY <1>3, <1>7, <1>8, Join
  <1>10. ClockOK
    BY <1>1, <1>4, <1>6, <1>9 DEF Init, ClockOK, Behind
  <1>11. \A t \in Tasks : TaskOK(t)
    BY DEF Init, TaskOK, ReadOK, RunningOK
  <1> QED  BY <1>5, <1>10, <1>11 DEF IInv

LEMMA TickStep == IInv /\ Tick => IInv'
  <1> SUFFICES ASSUME IInv, Tick PROVE IInv'
    OBVIOUS
  <1>1. TypeOK /\ ClockOK
    BY DEF IInv
  <1>2. /\ now \in Nat /\ now' = now + 1 /\ hi(now) \in Nat
        /\ clksrc_high \in Nat /\ clksrc_high' = clksrc_high
        /\ clksrc_high <= hi(now) /\ lo(now) \in Nat
        /\ lost' = lost /\ Behind \in Nat /\ RealTime = now + Behind
        /\ Behind' = Behind
    BY <1>1, Clock DEF Tick, globals, Behind
  <1>3. now' \in 0 .. HORIZON /\ now' + Behind <= HORIZON
    BY <1>2, TimerAssumption DEF Tick
  <1>4. overflow_pending' \in BOOLEAN /\ match_pending' \in BOOLEAN
    BY DEF Tick
  <1>5. TypeOK'
    BY <1>1, <1>3, <1>4 DEF Tick, TypeOK, globals, locals, handler
  <1>6. ClockOK'
    <2>0. irq' = irq /\ stat_tim' = stat_tim
          /\ (overflow_pending => overflow_pending')
      BY DEF Tick, handler
    <2>1. CASE lo(now) = MaxWord
      <3>1. hi(now') = hi(now) + 1 /\ lo(now') = 0
        BY <1>2, <2>1, Count
      <3>2. ~overflow_pending /\ overflow_pending'
        BY <2>1, <3>1 DEF Tick
      <3> QED  BY <1>1, <1>2, <1>3, <2>0, <3>1, <3>2 DEF ClockOK
    <2>2. CASE lo(now) # MaxWord
      <3>1. hi(now') = hi(now) /\ lo(now') = lo(now) + 1
        BY <1>2, <2>2, Count
      <3>2. lo(now') # 0
        BY <1>2, <3>1
      <3>3. overflow_pending' = overflow_pending
        BY <1>1, <3>2 DEF Tick, TypeOK
      <3> QED  BY <1>1, <1>2, <1>3, <2>0, <3>1, <3>3 DEF ClockOK
    <2> QED  BY <2>1, <2>2
  <1>7. ASSUME NEW t \in Tasks PROVE TaskOK(t)'
    <2>1. ReadOK(t) /\ RunningOK(t)
      BY DEF IInv, TaskOK
    <2>2. /\ pc' = pc /\ timeout' = timeout /\ ts_hi' = ts_hi /\ ts_lo' = ts_lo
          /\ due' = due /\ timer_running' = timer_running /\ fired' = fired
          /\ timer_deadline' = timer_deadline
      BY DEF Tick, globals, locals
    <2>4. /\ ts_hi[t] \in Nat /\ ts_lo[t] \in Nat /\ Epoch(ts_hi[t]) \in Nat
          /\ timeout[t] \in Nat /\ due[t] \in Nat
      BY <1>1, Locals
    <2>5. ReadOK(t)'
      BY <1>2, <2>1, <2>2, <2>4 DEF ReadOK
    <2> QED  BY <1>2, <2>1, <2>2, <2>5, RunningFrame DEF TaskOK
  <1> QED  BY <1>5, <1>6, <1>7 DEF IInv

LEMMA IrqStep == IInv /\ __hw_clock_source_irq => IInv'
  <1> SUFFICES ASSUME IInv, __hw_clock_source_irq PROVE IInv'
    OBVIOUS
  <1>1. TypeOK /\ ClockOK
    BY DEF IInv
  <1>2. /\ now' = now /\ lost' = lost /\ clksrc_high' = clksrc_high
        /\ overflow_pending' = overflow_pending /\ stat_tim' = overflow_pending
        /\ pc' = pc /\ timeout' = timeout /\ ts_hi' = ts_hi /\ ts_lo' = ts_lo
        /\ due' = due /\ timer_running' = timer_running /\ fired' = fired
        /\ timer_deadline' = timer_deadline
    BY DEF __hw_clock_source_irq, globals, locals
  <1>3. TypeOK'
    BY <1>1 DEF __hw_clock_source_irq, TypeOK, globals, locals
  <1>4. ClockOK'
    BY <1>1, <1>2 DEF ClockOK, Behind
  <1>5. ASSUME NEW t \in Tasks PROVE TaskOK(t)'
    <2>1. ReadOK(t) /\ RunningOK(t)
      BY DEF IInv, TaskOK
    <2> QED  BY <1>2, <2>1, ReadFrame, RunningFrame DEF TaskOK
  <1> QED  BY <1>3, <1>4, <1>5 DEF IInv

\* The clear counts the overflow that was read, or loses one that was not.
LEMMA ClearClock ==
  ASSUME TypeOK, ClockOK, clear_and_count
  PROVE  /\ now' \in Nat /\ lost' \in Nat /\ ~overflow_pending'
         /\ Behind \in Nat /\ Behind' \in Nat /\ Behind <= Behind'
         /\ now' + Behind' = now + Behind /\ hi(now') = clksrc_high'
         /\ clksrc_high \in Nat /\ clksrc_high' \in Nat
         /\ clksrc_high' = clksrc_high \/ clksrc_high' = clksrc_high + 1
         /\ clksrc_high' <= hi(now)
  <1>1. /\ now \in Nat /\ hi(now) \in Nat /\ clksrc_high \in Nat
        /\ lost \in Nat /\ Behind \in Nat
        /\ ~overflow_pending => clksrc_high = hi(now)
        /\ overflow_pending => clksrc_high + 1 = hi(now)
    BY Clock
  <1>2. /\ ~overflow_pending' /\ irq = "clear"
        /\ clksrc_high' = IF stat_tim THEN clksrc_high + 1 ELSE clksrc_high
        /\ stat_tim => overflow_pending
    BY DEF clear_and_count, ClearStatus, ClockOK
  <1>3. CASE overflow_pending /\ ~stat_tim
    <2>1. now' = now - WRAP /\ lost' = lost + 1 /\ clksrc_high' = clksrc_high
      BY <1>2, <1>3 DEF clear_and_count, ClearStatus
    <2>2. now - WRAP \in Nat /\ hi(now - WRAP) = clksrc_high
      BY <1>1, <1>3, Back
    <2>3. Behind' = Behind + WRAP /\ WRAP \in Nat
      BY <1>1, <2>1, NextEpoch, TimerAssumption DEF Behind
    <2> QED  BY <1>1, <1>2, <1>3, <2>1, <2>2, <2>3
  <1>4. CASE ~(overflow_pending /\ ~stat_tim)
    <2>1. now' = now /\ lost' = lost /\ Behind' = Behind
      BY <1>4 DEF clear_and_count, ClearStatus, Behind
    <2> QED  BY <1>1, <1>2, <1>4, <2>1
  <1> QED  BY <1>3, <1>4

LEMMA ClearStep == IInv /\ clear_and_count => IInv'
  <1> SUFFICES ASSUME IInv, clear_and_count PROVE IInv'
    OBVIOUS
  <1>1. TypeOK /\ ClockOK
    BY DEF IInv
  <1>2. /\ hi(now) \in Nat /\ hi(now) <= hi(HORIZON) /\ hi(HORIZON) \in Nat
        /\ now + Behind <= HORIZON /\ HORIZON \in Nat /\ now \in Nat
    BY <1>1, Clock, Split, TimerAssumption
  <1>3. /\ now' \in Nat /\ lost' \in Nat /\ ~overflow_pending'
        /\ Behind \in Nat /\ Behind' \in Nat /\ Behind <= Behind'
        /\ now' + Behind' = now + Behind /\ hi(now') = clksrc_high'
        /\ clksrc_high \in Nat /\ clksrc_high' \in Nat
        /\ clksrc_high' = clksrc_high \/ clksrc_high' = clksrc_high + 1
        /\ clksrc_high' <= hi(now)
    BY <1>1, ClearClock
  <1>4. clksrc_high' \in 0 .. hi(HORIZON) /\ now' \in 0 .. HORIZON
    <2>1. clksrc_high' \in 0 .. hi(HORIZON)
      BY <1>2, <1>3
    <2>2. \A n, b, horizon \in Nat : n + b <= horizon => n \in 0 .. horizon
      OBVIOUS
    <2>3. now' \in 0 .. HORIZON
      BY <1>2, <1>3, <2>2
    <2> QED  BY <2>1, <2>3
  <1>5. crossed' \subseteq Tasks
    BY <1>1 DEF clear_and_count, TypeOK
  <1>6. sw_pending' \in BOOLEAN
    BY <1>1, Zenon DEF clear_and_count, ClearStatus, TypeOK
  <1>7. TypeOK'
    BY <1>1, <1>3, <1>4, <1>5, <1>6
       DEF clear_and_count, ClearStatus, TypeOK, locals
  <1>8. ClockOK'
    BY <1>2, <1>3 DEF ClockOK, clear_and_count, ClearStatus
  <1>9. ASSUME NEW t \in Tasks PROVE TaskOK(t)'
    <2>1. ReadOK(t) /\ RunningOK(t)
      BY DEF IInv, TaskOK
    <2>2. /\ pc' = pc /\ timeout' = timeout /\ ts_hi' = ts_hi /\ ts_lo' = ts_lo
          /\ due' = due /\ timer_running' = timer_running /\ fired' = fired
          /\ timer_deadline' = timer_deadline
      BY DEF clear_and_count, ClearStatus, locals
    <2>3. /\ ts_hi[t] \in Nat /\ ts_lo[t] \in Nat /\ timeout[t] \in Nat
          /\ Epoch(ts_hi[t]) \in Nat /\ due[t] \in Nat
          /\ timer_deadline[t] \in Nat /\ WRAP \in Nat
      BY <1>1, Locals, TimerAssumption
    <2> DEFINE ts == Epoch(ts_hi[t]) + ts_lo[t]
    <2>6. /\ now \in Nat /\ now' + Behind' = now + Behind
          /\ Behind \in Nat /\ Behind' \in Nat /\ Behind <= Behind'
          /\ now' \in Nat
      BY <1>2, <1>3
    <2>10. ts \in Nat
      BY <2>3
    <2>11. /\ clksrc_high \in Nat /\ clksrc_high' \in Nat
           /\ clksrc_high <= clksrc_high'
      BY <1>3
    <2>12. \A d, x, b, c \in Nat : d <= x + b /\ b <= c => d <= x + c
      OBVIOUS
    <2>13. /\ due[t] <= ts + timeout[t] + Behind
             => due[t] <= ts + timeout[t] + Behind'
           /\ due[t] <= Epoch(ts_hi[t]) + timeout[t] + Behind
             => due[t] <= Epoch(ts_hi[t]) + timeout[t] + Behind'
      BY <2>3, <2>6, <2>10, <2>12
    <2>14. due[t] < Epoch(ts_hi[t]) + WRAP + timeout[t] + Behind
             => due[t] < Epoch(ts_hi[t]) + WRAP + timeout[t] + Behind'
      BY <2>3, <2>6
    <2>15. \A d, n, x, b, m, c \in Nat :
              m + c = n + b /\ d <= n + x + b => d <= m + x + c
      OBVIOUS
    <2>16. due[t] <= now + timeout[t] + Behind
             => due[t] <= now' + timeout[t] + Behind'
      BY <2>3, <2>6, <2>15
    <2>7. /\ pc[t] \in {"hi", "lo"} => due[t] <= now' + timeout[t] + Behind'
          /\ pc[t] \in {"lo", "check"} =>
               /\ ts_hi[t] <= clksrc_high'
               /\ due[t] < Epoch(ts_hi[t]) + WRAP + timeout[t] + Behind'
      BY <2>1, <2>3, <2>11, <2>14, <2>16 DEF ReadOK
    <2>8. /\ pc[t] = "relo" =>
               /\ ts_hi[t] <= clksrc_high'
               /\ due[t] <= Epoch(ts_hi[t]) + timeout[t] + Behind'
      BY <2>1, <2>3, <2>11, <2>13 DEF ReadOK
    <2>9. \/ pc[t] = "check" /\ ts_hi[t] = clksrc_high'
          \/ pc[t] \in {"arm", "start"}
          => due[t] <= ts + timeout[t] + Behind' /\ ts <= now' + Behind'
      <3>1. pc[t] = "check" /\ ts_hi[t] = clksrc_high' =>
              ts_hi[t] = clksrc_high
        BY <2>1, <2>3, <2>11 DEF ReadOK
      <3>2. \/ pc[t] = "check" /\ ts_hi[t] = clksrc_high'
            \/ pc[t] \in {"arm", "start"}
            => due[t] <= ts + timeout[t] + Behind /\ ts <= now + Behind
        BY <2>1, <3>1 DEF ReadOK
      <3> QED  BY <2>6, <2>13, <3>2
    <2>4. ReadOK(t)'
      BY <2>2, <2>7, <2>8, <2>9 DEF ReadOK
    <2>5. RunningOK(t)'
      BY <1>3, <2>1, <2>2, <2>3 DEF RunningOK
    <2> QED  BY <2>4, <2>5 DEF TaskOK
  <1> QED  BY <1>7, <1>8, <1>9 DEF IInv

LEMMA HandlerStep == IInv /\ (process_timers \/ event_set \/ recheck) => IInv'
  <1> SUFFICES ASSUME IInv, process_timers \/ event_set \/ recheck PROVE IInv'
    OBVIOUS
  <1>1. TypeOK /\ ClockOK
    BY DEF IInv
  <1>2. /\ now' = now /\ lost' = lost /\ clksrc_high' = clksrc_high
        /\ overflow_pending' = overflow_pending /\ irq' # "clear"
        /\ pc' = pc /\ timeout' = timeout /\ ts_hi' = ts_hi /\ ts_lo' = ts_lo
        /\ due' = due /\ timer_deadline' = timer_deadline
    BY DEF process_timers, event_set, recheck, hw, globals, locals
  <1>3. WRAP \in Nat /\ WRAP >= 2 /\ HORIZON \in Nat /\ DELAY \in Nat
    BY TimerAssumption
  <1>4. 0 \in Word /\ 0 \in Time /\ MaxWord \in Word
    BY <1>3 DEF Word, Time, MaxWord
  <1>5. TypeOK'
    <2>1. CASE process_timers
      <3>1. next' \in Time
        BY <1>1, <1>4, <2>1 DEF process_timers, Candidates, TypeOK
      <3>2. /\ match' \in Word /\ match_enabled' \in BOOLEAN
            /\ next_deadline' \in Word
            /\ irq' \in {"off", "clear", "scan", "set", "again"}
        BY <1>1, <1>4, <2>1 DEF process_timers, TypeOK
      <3>3. /\ timer_running' \subseteq Tasks /\ fired' \subseteq Tasks
            /\ crossed' \subseteq Tasks
        BY <1>1, <2>1 DEF process_timers, Expired, TypeOK
      <3> QED  BY <1>1, <2>1, <3>1, <3>2, <3>3
                 DEF process_timers, TypeOK, locals
    <2>2. CASE event_set
      <3>1. next \in Nat
        BY <1>1, <1>3 DEF TypeOK, Time
      <3>2. lo(next) \in Word
        BY <3>1, Split
      <3> QED  BY <1>1, <2>2, <3>2 DEF event_set, TypeOK, locals
    <2>3. CASE recheck
      BY <1>1, <1>4, <2>3 DEF recheck, TypeOK, hw, globals, locals
    <2> QED  BY <2>1, <2>2, <2>3
  <1>6. ClockOK'
    BY <1>1, <1>2 DEF ClockOK, Behind
  <1>7. ASSUME NEW t \in Tasks PROVE TaskOK(t)'
    <2>1. ReadOK(t) /\ RunningOK(t)
      BY DEF IInv, TaskOK
    <2>2. /\ t \in timer_running' => t \in timer_running
          /\ t \in fired' => t \in fired \/ t \in timer_running
      BY DEF process_timers, event_set, recheck, Expired, globals
    <2> QED  BY <1>2, <2>1, <2>2, ReadFrame, RunningFrame DEF TaskOK
  <1> QED  BY <1>5, <1>6, <1>7 DEF IInv

\* A task runs: no interrupt is pending, and the high word is right.
LEMMA Running ==
  ASSUME IInv, NEW t \in Tasks, NEW label, At(t, label)
  PROVE  ~overflow_pending /\ clksrc_high = hi(now) /\ pc[t] = label
  BY Clock DEF IInv, At, IrqPending

LEMMA TaskTyped ==
  ASSUME IInv, NEW u \in Tasks, Task(u)
  PROVE  TypeOK'
  <1>1. TypeOK /\ ClockOK /\ ReadOK(u)
    BY DEF IInv, TaskOK
  <1>2. /\ now \in Nat /\ now <= HORIZON /\ HORIZON \in Nat /\ DELAY \in Nat
        /\ WRAP \in Nat /\ lo(now) \in Word /\ WRAP >= 2
        /\ Behind \in Nat /\ RealTime = now + Behind /\ now + Behind <= HORIZON
    BY <1>1, Clock, TimerAssumption
  <1>3. 0 \in Word /\ 0 \in Time /\ 0 \in 0 .. DELAY
    BY <1>2 DEF Word, Time
  <1>4. 0 \in 0 .. hi(HORIZON) /\ clksrc_high \in 0 .. hi(HORIZON)
    BY <1>1, <1>2, Split DEF TypeOK
  <1>5. ASSUME NEW d \in 1 .. DELAY, StartWait(u, d) PROVE TypeOK'
    <2>1. RealTime + d \in Time /\ d \in 0 .. DELAY
      BY <1>2 DEF Time
    <2>2. pc' \in [Tasks -> {"run", "hi", "lo", "check", "relo", "arm",
                             "start", "trigger", "wait"}]
      BY <1>1, <1>5 DEF StartWait, Goto, TypeOK
    <2>3. due' \in [Tasks -> Time] /\ timeout' \in [Tasks -> 0 .. DELAY]
      BY <1>1, <1>5, <2>1 DEF StartWait, TypeOK
    <2> QED  BY <1>1, <1>5, <2>2, <2>3 DEF StartWait, TypeOK, hw, handler, globals
  <1>6. CASE ReadHi(u)
    <2>1. pc' \in [Tasks -> {"run", "hi", "lo", "check", "relo", "arm",
                             "start", "trigger", "wait"}]
      BY <1>1, <1>6 DEF ReadHi, Goto, TypeOK
    <2>2. ts_hi' \in [Tasks -> 0 .. hi(HORIZON)]
      BY <1>1, <1>4, <1>6 DEF ReadHi, TypeOK
    <2> QED  BY <1>1, <1>6, <2>1, <2>2 DEF ReadHi, TypeOK, hw, handler, globals
  <1>7. CASE ReadLo(u)
    <2>1. pc' \in [Tasks -> {"run", "hi", "lo", "check", "relo", "arm",
                             "start", "trigger", "wait"}]
      BY <1>1, <1>7 DEF ReadLo, Goto, TypeOK
    <2>2. ts_lo' \in [Tasks -> Word]
      BY <1>1, <1>2, <1>7 DEF ReadLo, TypeOK
    <2> QED  BY <1>1, <1>7, <2>1, <2>2 DEF ReadLo, TypeOK, hw, handler, globals
  <1>8. CASE CheckHi(u)
    <2>1. pc' \in [Tasks -> {"run", "hi", "lo", "check", "relo", "arm",
                             "start", "trigger", "wait"}]
      BY <1>1, <1>8 DEF CheckHi, Goto, TypeOK
    <2>2. ts_hi' \in [Tasks -> 0 .. hi(HORIZON)]
      BY <1>1, <1>4, <1>8 DEF CheckHi, TypeOK
    <2> QED  BY <1>1, <1>8, <2>1, <2>2 DEF CheckHi, TypeOK, hw, handler, globals
  <1>9. CASE Arm(u)
    <2>1. pc' \in [Tasks -> {"run", "hi", "lo", "check", "relo", "arm",
                             "start", "trigger", "wait"}]
      BY <1>1, <1>9 DEF Arm, Goto, TypeOK
    <2>2. arm_hi' \in [Tasks -> 0 .. hi(HORIZON)]
      BY <1>1, <1>4, <1>9 DEF Arm, TypeOK
    <2> QED  BY <1>1, <1>9, <2>1, <2>2 DEF Arm, TypeOK, hw, handler, globals
  <1>10. CASE Start(u)
    <2>1. pc' \in [Tasks -> {"run", "hi", "lo", "check", "relo", "arm",
                             "start", "trigger", "wait"}]
      BY <1>1, <1>10 DEF Start, Goto, TypeOK
    <2>2. Epoch(ts_hi[u]) + ts_lo[u] <= now + Behind
      BY <1>1, <1>10 DEF Start, At, ReadOK
    <2>3. /\ Epoch(ts_hi[u]) \in Nat /\ ts_lo[u] \in Nat
          /\ timeout[u] \in Nat /\ timeout[u] <= DELAY
      BY <1>1, Locals
    <2>4. Epoch(ts_hi[u]) + ts_lo[u] + timeout[u] \in Time
      BY <1>2, <2>2, <2>3 DEF Time
    <2>5. timer_deadline' \in [Tasks -> Time]
      BY <1>1, <1>10, <2>4 DEF Start, TypeOK, Epoch
    <2>6. timer_running' \subseteq Tasks
      BY <1>1, <1>10 DEF Start, TypeOK
    <2> QED  BY <1>1, <1>10, <2>1, <2>5, <2>6 DEF Start, TypeOK, hw, handler
  <1>11. CASE Trigger(u)
    <2>1. pc' \in [Tasks -> {"run", "hi", "lo", "check", "relo", "arm",
                             "start", "trigger", "wait"}]
      BY <1>1, <1>11 DEF Trigger, Goto, TypeOK
    <2>2. /\ timeout' \in [Tasks -> 0 .. DELAY] /\ ts_lo' \in [Tasks -> Word]
      BY <1>1, <1>3, <1>11 DEF Trigger, TypeOK
    <2>3. /\ ts_hi' \in [Tasks -> 0 .. hi(HORIZON)]
          /\ arm_hi' \in [Tasks -> 0 .. hi(HORIZON)]
      BY <1>1, <1>4, <1>11 DEF Trigger, TypeOK
    <2>4. sw_pending' \in BOOLEAN
      BY <1>11 DEF Trigger
    <2> QED  BY <1>1, <1>11, <2>1, <2>2, <2>3, <2>4
             DEF Trigger, TypeOK, globals, handler
  <1>12. CASE Cancel(u)
    <2>1. pc' \in [Tasks -> {"run", "hi", "lo", "check", "relo", "arm",
                             "start", "trigger", "wait"}]
      BY <1>1, <1>12 DEF Cancel, Goto, TypeOK
    <2>2. timer_deadline' \in [Tasks -> Time] /\ due' \in [Tasks -> Time]
      BY <1>1, <1>3, <1>12 DEF Cancel, TypeOK
    <2>3. /\ timer_running' \subseteq Tasks /\ fired' \subseteq Tasks
          /\ crossed' \subseteq Tasks
      BY <1>1, <1>12 DEF Cancel, TypeOK
    <2> QED  BY <1>1, <1>12, <2>1, <2>2, <2>3 DEF Cancel, TypeOK, hw, handler
  <1> QED  BY <1>5, <1>6, <1>7, <1>8, <1>9, <1>10, <1>11, <1>12 DEF Task

\* What a step of task u leaves alone.
Others(u) ==
  \A t \in Tasks \ {u} :
    /\ pc'[t] = pc[t] /\ timeout'[t] = timeout[t]
    /\ ts_hi'[t] = ts_hi[t] /\ ts_lo'[t] = ts_lo[t]
    /\ arm_hi'[t] = arm_hi[t] /\ due'[t] = due[t]
    /\ timer_deadline'[t] = timer_deadline[t]
    /\ t \in timer_running' <=> t \in timer_running
    /\ t \in fired' <=> t \in fired
    /\ t \in crossed' <=> t \in crossed

LEMMA TaskLeaves ==
  ASSUME TypeOK, NEW u \in Tasks, Task(u)
  PROVE  /\ now' = now /\ lost' = lost /\ clksrc_high' = clksrc_high
         /\ overflow_pending' = overflow_pending
         /\ irq = "off" /\ irq' = "off" /\ ~IrqPending
         /\ match' = match /\ match_enabled' = match_enabled
         /\ match_pending' = match_pending /\ next_deadline' = next_deadline
         /\ Others(u)
  <1>1. PICK d \in 1 .. DELAY :
          \/ StartWait(u, d) \/ ReadHi(u) \/ ReadLo(u) \/ CheckHi(u)
          \/ Arm(u) \/ Start(u) \/ Trigger(u) \/ Cancel(u)
    <2>1. 1 \in 1 .. DELAY
      BY TimerAssumption
    <2> QED  BY <2>1 DEF Task
  <1>2. /\ now' = now /\ lost' = lost /\ clksrc_high' = clksrc_high
        /\ overflow_pending' = overflow_pending /\ irq' = irq
        /\ match' = match /\ match_enabled' = match_enabled
        /\ match_pending' = match_pending /\ next_deadline' = next_deadline
    BY <1>1 DEF StartWait, ReadHi, ReadLo, CheckHi, Arm, Start, Trigger,
                Cancel, hw, globals, handler
  <1>3. irq = "off" /\ ~IrqPending
    BY <1>1 DEF StartWait, ReadHi, ReadLo, CheckHi, Arm, Start, Trigger,
                Cancel, At
  <1>4. Others(u)
    <2>1. CASE StartWait(u, d)
      BY <2>1 DEF StartWait, Goto, globals, TypeOK, Others
    <2>2. CASE ReadHi(u)
      BY <2>2 DEF ReadHi, Goto, globals, TypeOK, Others
    <2>3. CASE ReadLo(u)
      BY <2>3 DEF ReadLo, Goto, globals, TypeOK, Others
    <2>4. CASE CheckHi(u)
      BY <2>4 DEF CheckHi, Goto, globals, TypeOK, Others
    <2>5. CASE Arm(u)
      BY <2>5 DEF Arm, Goto, globals, TypeOK, Others
    <2>6. CASE Start(u)
      BY <2>6 DEF Start, Goto, globals, TypeOK, Others
    <2>7. CASE Trigger(u)
      BY <2>7 DEF Trigger, Goto, globals, TypeOK, Others
    <2>8. CASE Cancel(u)
      BY <2>8 DEF Cancel, Goto, globals, TypeOK, Others
    <2> QED  BY <1>1, <2>1, <2>2, <2>3, <2>4, <2>5, <2>6, <2>7, <2>8
  <1> QED  BY <1>2, <1>3, <1>4

LEMMA TaskStep == ASSUME IInv, NEW u \in Tasks, Task(u) PROVE IInv'
  <1>1. TypeOK /\ ClockOK /\ ReadOK(u) /\ RunningOK(u)
    BY DEF IInv, TaskOK
  <1>2. /\ now' = now /\ lost' = lost /\ clksrc_high' = clksrc_high
        /\ overflow_pending' = overflow_pending /\ ~IrqPending /\ Others(u)
        /\ irq' = "off" /\ Behind' = Behind
    BY <1>1, TaskLeaves DEF Behind
  <1>3. ClockOK'
    BY <1>1, <1>2 DEF ClockOK
  <1>4. ASSUME NEW t \in Tasks, t # u PROVE TaskOK(t)'
    <2>1. /\ pc'[t] = pc[t] /\ timeout'[t] = timeout[t]
          /\ ts_hi'[t] = ts_hi[t] /\ ts_lo'[t] = ts_lo[t]
          /\ due'[t] = due[t] /\ timer_deadline'[t] = timer_deadline[t]
          /\ t \in timer_running' <=> t \in timer_running
          /\ t \in fired' <=> t \in fired
      BY <1>2, <1>4 DEF Others
    <2>2. ReadOK(t) /\ RunningOK(t)
      BY DEF IInv, TaskOK
    <2> QED  BY <1>2, <2>1, <2>2, ReadFrame, RunningFrame DEF TaskOK
  <1>5. /\ clksrc_high = hi(now) /\ now \in Nat /\ hi(now) \in Nat
        /\ lo(now) \in Nat /\ lo(now) < WRAP /\ now = Epoch(hi(now)) + lo(now)
        /\ WRAP \in Nat /\ Epoch(hi(now)) \in Nat
        /\ Behind \in Nat /\ RealTime = now + Behind
    BY <1>1, <1>2, Clock, EpochTyped, TimerAssumption DEF IrqPending
  <1>6. /\ ts_hi[u] \in Nat /\ ts_lo[u] \in Nat /\ Epoch(ts_hi[u]) \in Nat
        /\ timeout[u] \in Nat /\ due[u] \in Nat /\ timer_deadline[u] \in Nat
    BY <1>1, Locals
  <1>7. TaskOK(u)'
    <2>1. ASSUME NEW d \in 1 .. DELAY, StartWait(u, d) PROVE TaskOK(u)'
      <3>1. /\ pc[u] = "run" /\ pc'[u] = "hi" /\ timeout'[u] = d
            /\ due'[u] = RealTime + d /\ timer_running' = timer_running
            /\ fired' = fired
        BY <1>1, <2>1 DEF StartWait, At, Goto, globals, TypeOK
      <3>2. d \in Nat
        BY TimerAssumption
      <3> QED  BY <1>1, <1>2, <1>5, <3>1, <3>2 DEF TaskOK, ReadOK, RunningOK
    <2>2. CASE ReadHi(u)
      <3>1. /\ pc[u] = "hi" /\ pc'[u] = "lo" /\ timeout' = timeout
            /\ ts_hi'[u] = hi(now) /\ due' = due
            /\ timer_running' = timer_running /\ fired' = fired
        BY <1>1, <1>5, <2>2 DEF ReadHi, At, Goto, globals, TypeOK
      <3>2. due[u] <= now + timeout[u] + Behind
        BY <1>1, <3>1 DEF ReadOK
      <3>3. due[u] < Epoch(hi(now)) + WRAP + timeout[u] + Behind
        BY <1>5, <1>6, <3>2
      <3>4. ReadOK(u)'
        BY <1>2, <1>5, <3>1, <3>2, <3>3 DEF ReadOK
      <3> QED  BY <1>1, <3>1, <3>4 DEF TaskOK, RunningOK
    <2>3. CASE ReadLo(u)
      <3>1. /\ timeout' = timeout /\ ts_hi' = ts_hi /\ ts_lo'[u] = lo(now)
            /\ due' = due /\ timer_running' = timer_running /\ fired' = fired
        BY <1>1, <2>3 DEF ReadLo, globals, TypeOK
      <3>2. CASE pc[u] = "lo" /\ pc'[u] = "check"
        <4>1. /\ due[u] <= now + timeout[u] + Behind /\ ts_hi[u] <= clksrc_high
              /\ due[u] < Epoch(ts_hi[u]) + WRAP + timeout[u] + Behind
          BY <1>1, <3>2 DEF ReadOK
        <4>2. ts_hi[u] = hi(now) => Epoch(ts_hi[u]) + lo(now) = now
          BY <1>5
        <4>3. ReadOK(u)'
          BY <1>2, <1>5, <3>1, <3>2, <4>1, <4>2 DEF ReadOK
        <4> QED  BY <1>1, <3>1, <3>2, <4>3 DEF TaskOK, RunningOK
      <3>3. CASE pc[u] = "relo" /\ pc'[u] = "arm"
        <4>1. /\ ts_hi[u] <= clksrc_high
              /\ due[u] <= Epoch(ts_hi[u]) + timeout[u] + Behind
          BY <1>1, <3>3 DEF ReadOK
        <4>2. Epoch(ts_hi[u]) <= Epoch(hi(now))
          BY <1>5, <1>6, <4>1, EpochGrows
        <4>3. /\ Epoch(ts_hi[u]) + lo(now) <= now
              /\ due[u] <= Epoch(ts_hi[u]) + lo(now) + timeout[u] + Behind
          BY <1>5, <1>6, <4>1, <4>2
        <4>4. ReadOK(u)'
          BY <1>2, <1>5, <1>6, <3>1, <3>3, <4>3 DEF ReadOK
        <4> QED  BY <1>1, <3>1, <3>3, <4>4 DEF TaskOK, RunningOK
      <3> QED  BY <1>1, <2>3, <3>2, <3>3 DEF ReadLo, At, Goto, TypeOK
    <2>4. CASE CheckHi(u)
      <3>1. /\ timeout' = timeout /\ ts_lo' = ts_lo /\ ts_hi'[u] = hi(now)
            /\ due' = due /\ timer_running' = timer_running /\ fired' = fired
            /\ pc[u] = "check"
            /\ pc'[u] = IF ts_hi[u] = hi(now) THEN "arm" ELSE "relo"
        BY <1>1, <1>5, <2>4 DEF CheckHi, At, Goto, globals, TypeOK
      <3>2. CASE ts_hi[u] = hi(now)
        <4>1. /\ due[u] <= Epoch(ts_hi[u]) + ts_lo[u] + timeout[u] + Behind
              /\ Epoch(ts_hi[u]) + ts_lo[u] <= now + Behind
          BY <1>1, <1>5, <3>1, <3>2 DEF ReadOK
        <4>2. ReadOK(u)'
          BY <1>2, <3>1, <3>2, <4>1 DEF ReadOK
        <4> QED  BY <1>1, <3>1, <3>2, <4>2 DEF TaskOK, RunningOK
      <3>3. CASE ts_hi[u] # hi(now)
        <4>1. /\ ts_hi[u] <= hi(now)
              /\ due[u] < Epoch(ts_hi[u]) + WRAP + timeout[u] + Behind
          BY <1>1, <1>5, <3>1 DEF ReadOK
        <4>2. Epoch(ts_hi[u]) + WRAP <= Epoch(hi(now))
          BY <1>5, <1>6, <3>3, <4>1, EpochLater
        <4>3. due[u] <= Epoch(hi(now)) + timeout[u] + Behind
          BY <1>5, <1>6, <4>1, <4>2
        <4>4. ReadOK(u)'
          BY <1>2, <1>5, <3>1, <3>3, <4>3 DEF ReadOK
        <4> QED  BY <1>1, <3>1, <3>3, <4>4 DEF TaskOK, RunningOK
      <3> QED  BY <3>2, <3>3
    <2>5. CASE Arm(u)
      <3>1. /\ timeout' = timeout /\ ts_lo' = ts_lo /\ ts_hi' = ts_hi
            /\ due' = due /\ timer_running' = timer_running /\ fired' = fired
            /\ pc[u] = "arm" /\ pc'[u] = "start"
        BY <1>1, <2>5 DEF Arm, At, Goto, globals, TypeOK
      <3> QED  BY <1>1, <1>2, <3>1 DEF TaskOK, ReadOK, RunningOK
    <2>6. CASE Start(u)
      <3>1. /\ fired' = fired /\ due' = due /\ pc[u] = "start"
            /\ pc'[u] = "trigger"
            /\ timer_deadline'[u] = Epoch(ts_hi[u]) + ts_lo[u] + timeout[u]
        BY <1>1, <2>6 DEF Start, At, Goto, TypeOK, Epoch
      <3> QED  BY <1>1, <1>2, <3>1 DEF TaskOK, ReadOK, RunningOK
    <2>7. CASE Trigger(u)
      <3>1. /\ due' = due /\ timer_running' = timer_running /\ fired' = fired
            /\ timer_deadline' = timer_deadline
            /\ pc[u] = "trigger" /\ pc'[u] = "wait"
        BY <1>1, <2>7 DEF Trigger, At, Goto, globals, TypeOK
      <3> QED  BY <1>1, <1>2, <3>1 DEF TaskOK, ReadOK, RunningOK
    <2>8. CASE Cancel(u)
      <3>1. /\ u \notin timer_running' /\ u \notin fired' /\ pc'[u] = "run"
        BY <1>1, <2>8 DEF Cancel, Goto, TypeOK
      <3> QED  BY <3>1 DEF TaskOK, ReadOK, RunningOK
    <2> QED  BY <2>1, <2>2, <2>3, <2>4, <2>5, <2>6, <2>7, <2>8 DEF Task
  <1> QED  BY <1>3, <1>4, <1>7, TaskTyped DEF IInv

LEMMA ForceStep ==
  ASSUME IInv, NEW d \in 1 .. HORIZON, force_time(d) PROVE IInv'
  <1>1. TypeOK /\ ClockOK
    BY DEF IInv
  <1>2. \A t \in Tasks : pc[t] = "wait" /\ ~IrqPending
    BY DEF force_time, At
  <1>3. ~overflow_pending
    BY <1>2, TimerAssumption DEF IrqPending
  <1>4. /\ now \in Nat /\ HORIZON \in Nat /\ d \in Nat
        /\ lost' = lost /\ Behind' = Behind /\ Behind \in Nat
        /\ RealTime = now + Behind /\ irq' = irq /\ stat_tim' = stat_tim
    BY <1>1, Clock, TimerAssumption DEF force_time, handler, Behind
  <1>5. /\ now' \in 0 .. HORIZON /\ now' \in Nat /\ now' <= HORIZON
        /\ now' + Behind <= HORIZON
    BY <1>4 DEF force_time
  <1>6. hi(now') \in Nat /\ hi(now') <= hi(HORIZON) /\ hi(HORIZON) \in Nat
    BY <1>4, <1>5, Split, HiGrows
  <1>7. clksrc_high' \in 0 .. hi(HORIZON)
    BY <1>6 DEF force_time
  <1>8. TypeOK'
    BY <1>1, <1>5, <1>7 DEF force_time, TypeOK, locals, handler
  <1>9. ClockOK'
    BY <1>1, <1>3, <1>4, <1>5 DEF force_time, ClockOK
  <1>10. ASSUME NEW t \in Tasks PROVE TaskOK(t)'
    <2>1. pc[t] = "wait" /\ pc' = pc /\ timer_running' = timer_running
          /\ fired' = fired /\ timer_deadline' = timer_deadline /\ due' = due
      BY <1>2 DEF force_time, locals
    <2>2. RunningOK(t)
      BY DEF IInv, TaskOK
    <2> QED  BY <1>4, <2>1, <2>2 DEF TaskOK, ReadOK, RunningOK
  <1> QED  BY <1>8, <1>9, <1>10 DEF IInv

LEMMA NextInv == IInv /\ [Next]_vars => IInv'
  <1> SUFFICES ASSUME IInv, [Next]_vars PROVE IInv'
    OBVIOUS
  <1>1. CASE UNCHANGED vars
    <2>1. /\ now' = now /\ lost' = lost /\ clksrc_high' = clksrc_high
          /\ overflow_pending' = overflow_pending
          /\ irq' = irq /\ stat_tim' = stat_tim
      BY <1>1 DEF vars, hw, globals, handler
    <2>2. TypeOK'
      BY <1>1 DEF IInv, TypeOK, vars, hw, globals, locals, handler
    <2>3. ClockOK'
      BY <2>1 DEF IInv, ClockOK, Behind
    <2>4. ASSUME NEW t \in Tasks PROVE TaskOK(t)'
      <3>1. ReadOK(t) /\ RunningOK(t)
        BY DEF IInv, TaskOK
      <3>2. /\ pc' = pc /\ timeout' = timeout /\ ts_hi' = ts_hi
            /\ ts_lo' = ts_lo /\ due' = due /\ fired' = fired
            /\ timer_running' = timer_running
            /\ timer_deadline' = timer_deadline
        BY <1>1 DEF vars, globals, locals
      <3> QED  BY <2>1, <3>1, <3>2, ReadFrame, RunningFrame DEF TaskOK
    <2> QED  BY <2>2, <2>3, <2>4 DEF IInv
  <1> QED  BY <1>1, TickStep, IrqStep, ClearStep, HandlerStep, TaskStep,
              ForceStep
             DEF Next, Handler

\* The clock is the counter's, behind by an epoch while an overflow waits to be
\* counted and by one for ever for each overflow the clear of the status lost,
\* and a task has read of it what get_time() promises.
THEOREM TimerInvariance == Spec => []IInv
  BY InitInv, NextInv, PTL DEF Spec

\* All words of timer.c keep their types; so do the deadlines, which stay
\* within the longest timeout of the time.
THEOREM TimerTypeCorrect == Spec => []TypeOK
  <1>1. IInv => TypeOK
    BY DEF IInv
  <1> QED  BY <1>1, TimerInvariance, PTL

\* get_time() is coherent whenever an overflow is counted, or lost, between its
\* reads: the deadline made of it is not before the timeout nor beyond it, but
\* for the overflows the clock has lost.
THEOREM TimeCoherent == Spec => []DeadlineCoherent
  <1>1. IInv => DeadlineCoherent
    BY DEF IInv, TaskOK, ReadOK, DeadlineCoherent, RealTime, Behind, Epoch
  <1> QED  BY <1>1, TimerInvariance, PTL

-----------------------------------------------------------------------------
(* The timers are those of TimerService                                    *)

\* process_timers() expires no timer before its due time: the time it reads
\* is behind the counter, never ahead.
LEMMA ExpiredDue ==
  ASSUME IInv, NEW t \in Expired(HandlerTime) PROVE due[t] <= RealTime
  <1>1. TypeOK /\ ClockOK
    BY DEF IInv
  <1>2. /\ t \in timer_running /\ t \in Tasks
        /\ timer_deadline[t] <= HandlerTime
    BY <1>1 DEF Expired, TypeOK
  <1>3. due[t] <= timer_deadline[t] + Behind
    BY <1>2 DEF IInv, TaskOK, RunningOK
  <1>4. /\ HandlerTime \in Nat /\ HandlerTime <= now /\ now \in Nat
        /\ due[t] \in Nat /\ timer_deadline[t] \in Nat
        /\ Behind \in Nat /\ RealTime = now + Behind
    BY <1>1, <1>2, Clock, Locals
  <1> QED  BY <1>2, <1>3, <1>4

LEMMA ServiceInit == Init => Service!Init
  <1> SUFFICES ASSUME Init PROVE Service!Init
    OBVIOUS
  <1>1. now \in Nat /\ RealTime = now
    BY TimerAssumption DEF Init, RealTime
  <1> QED  BY <1>1 DEF Init, Service!Init

LEMMA ServiceStep == IInv /\ [Next]_vars => [Service!Next]_(Service!vars)
  <1> SUFFICES ASSUME IInv, [Next]_vars PROVE [Service!Next]_(Service!vars)
    OBVIOUS
  <1>1. /\ TypeOK /\ ClockOK /\ now \in Nat /\ Behind \in Nat
        /\ RealTime = now + Behind /\ RealTime \in Nat
    BY Clock DEF IInv
  <1>0. lost' = lost /\ now' = now => RealTime' = RealTime
    BY DEF RealTime
  <1>2. CASE Tick
    <2>1. now' = now + 1 /\ lost' = lost
      BY <1>2 DEF Tick
    <2>2. RealTime' = now' + Behind
      BY <1>1, <2>1, EpochTyped DEF RealTime, Behind, Epoch
    <2>3. Service!Pass
      BY <1>1, <1>2, <2>1, <2>2 DEF Tick, globals, Service!Pass
    <2> QED  BY <2>3 DEF Service!Next
  <1>3. CASE __hw_clock_source_irq \/ event_set \/ recheck
    BY <1>0, <1>3 DEF __hw_clock_source_irq, event_set, recheck, globals,
                Service!vars
  <1>8. CASE clear_and_count
    <2>1. now' + Behind' = now + Behind /\ lost' \in Nat /\ now' \in Nat
      BY <1>1, <1>8, ClearClock
    <2>2. RealTime' = now' + Behind'
      BY DEF RealTime, Behind, Epoch
    <2> QED  BY <1>1, <1>8, <2>1, <2>2
               DEF clear_and_count, ClearStatus, Service!vars
  <1>4. CASE process_timers
    <2> DEFINE S == Expired(HandlerTime)
    <2>1. S \in SUBSET timer_running
      BY DEF Expired
    <2>2. \A t \in S : due[t] <= RealTime
      BY ExpiredDue
    <2>3. /\ timer_running' = timer_running \ S /\ fired' = fired \cup S
          /\ RealTime' = RealTime /\ due' = due
      BY <1>0, <1>4 DEF process_timers
    <2> HIDE DEF S
    <2>4. Service!Expire(S)
      BY <2>1, <2>2, <2>3 DEF Service!Expire
    <2> QED  BY <2>1, <2>4 DEF Service!Next
  <1>5. ASSUME NEW t \in Tasks, Task(t) PROVE [Service!Next]_(Service!vars)
    <2>1. RunningOK(t)
      BY DEF IInv, TaskOK
    <2>2. ASSUME NEW d \in 1 .. DELAY, StartWait(t, d) PROVE Service!Choose(t)
      <3>1. due' = [due EXCEPT ![t] = RealTime + d] /\ pc[t] = "run"
        BY <2>2 DEF StartWait, At
      <3>2. due'[t] = RealTime + d
        BY <1>1, <3>1 DEF TypeOK
      <3>3. RealTime + d \in Nat /\ RealTime + d > RealTime
        BY <1>1, TimerAssumption
      <3>4. t \notin timer_running /\ t \notin fired
        BY <2>1, <3>1 DEF RunningOK
      <3> QED  BY <1>0, <2>2, <3>1, <3>2, <3>3, <3>4
                 DEF StartWait, globals, Service!Choose
    <2>3. CASE ReadHi(t) \/ ReadLo(t) \/ CheckHi(t) \/ Arm(t) \/ Trigger(t)
      BY <1>0, <2>3
         DEF ReadHi, ReadLo, CheckHi, Arm, Trigger, globals, Service!vars
    <2>4. CASE Start(t)
      <3>1. t \notin timer_running /\ t \notin fired
        BY <2>1, <2>4 DEF Start, At, RunningOK
      <3>2. Service!Start(t)
        BY <1>0, <2>4, <3>1 DEF Start, Service!Start
      <3> QED  BY <3>2 DEF Service!Next
    <2>5. CASE Cancel(t)
      <3>1. Service!Cancel(t)
        BY <1>0, <2>5 DEF Cancel, Service!Cancel
      <3> QED  BY <3>1 DEF Service!Next
    <2> QED  BY <1>5, <2>2, <2>3, <2>4, <2>5 DEF Task, Service!Next
  <1>6. ASSUME NEW d \in 1 .. HORIZON, force_time(d) PROVE Service!Pass
    <2>1. d \in Nat /\ d > 0
      BY TimerAssumption
    <2>2. now' = now + d /\ RealTime' = now' + Behind
      BY <1>1, <1>6 DEF force_time, RealTime, Behind, Epoch
    <2> QED  BY <1>1, <1>6, <2>1, <2>2 DEF force_time, Service!Pass
  <1>7. CASE UNCHANGED vars
    BY <1>0, <1>7 DEF vars, globals, Service!vars
  <1> QED  BY <1>2, <1>3, <1>4, <1>5, <1>6, <1>7, <1>8
             DEF Next, Handler, Service!Next

\* timer.c implements the timers the task runtime counts on: whatever the
\* overflows and the deep sleeps, none expires before its time, none twice,
\* none after it was cancelled.
THEOREM TimerRefines == Spec => TimerServiceSpec
  BY ServiceInit, ServiceStep, TimerInvariance, PTL
     DEF Spec, TimerServiceSpec, Service!Spec

-----------------------------------------------------------------------------
(* The interrupt of every timer is programmed                              *)

\* Within an epoch the low words tell the order.
LEMMA SameEpoch ==
  ASSUME NEW x \in Nat, NEW y \in Nat, hi(x) = hi(y)
  PROVE  (x <= y <=> lo(x) <= lo(y)) /\ (x < y <=> lo(x) < lo(y))
  <1>1. /\ hi(x) \in Nat /\ lo(x) \in Nat /\ x = Epoch(hi(x)) + lo(x)
        /\ lo(y) \in Nat /\ y = Epoch(hi(y)) + lo(y)
    BY Split
  <1>2. Epoch(hi(x)) \in Nat
    BY <1>1, EpochTyped
  <1> QED  BY <1>1, <1>2

\* The counter counts within an epoch.
LEMMA QuietTick ==
  ASSUME IInv, Tick, ~overflow_pending'
  PROVE  ~overflow_pending /\ hi(now') = hi(now) /\ lo(now') = lo(now) + 1
  <1>1. ~overflow_pending /\ lo(now') # 0 /\ now' = now + 1
    BY DEF Tick
  <1>2. now \in Nat
    BY Clock DEF IInv
  <1> QED  BY <1>1, <1>2, Count

LEMMA InitProgrammed == Init => PInv
  BY DEF Init, PInv, ArmOK, MatchOK, CoveredOK, NextOK, SetOK

LEMMA TickProgrammed == IInv /\ PInv /\ Tick => PInv'
  <1> SUFFICES ASSUME IInv, PInv, Tick PROVE PInv'
    OBVIOUS
  <1>1. /\ match' = match /\ match_enabled' = match_enabled
        /\ clksrc_high' = clksrc_high /\ timer_running' = timer_running
        /\ timer_deadline' = timer_deadline /\ next_deadline' = next_deadline
        /\ irq' = irq /\ next' = next /\ pc' = pc /\ arm_hi' = arm_hi
        /\ crossed' = crossed
    BY DEF Tick, globals, locals, handler
  <1>2. lo(now) \in Nat
    BY Clock DEF IInv
  <1>3. match \in Nat
    BY TimerAssumption DEF IInv, TypeOK, Word
  <1>4. ASSUME Quiescent'
        PROVE  /\ Quiescent /\ hi(now') = hi(now)
               /\ match_enabled /\ lo(now) < match => lo(now') < match
    <2>1. /\ ~overflow_pending' /\ ~match_pending' /\ ~sw_pending'
          /\ irq' = "off"
      BY <1>4 DEF Quiescent, IrqPending
    <2>2. ~overflow_pending /\ hi(now') = hi(now) /\ lo(now') = lo(now) + 1
      BY <2>1, QuietTick
    <2>3. /\ ~match_pending /\ ~(match_enabled /\ lo(now') = match)
          /\ ~sw_pending
      BY <2>1 DEF Tick
    <2>4. Quiescent
      BY <1>1, <2>1, <2>2, <2>3 DEF Quiescent, IrqPending
    <2>5. lo(now) < match /\ lo(now') # match => lo(now') < match
      BY <1>2, <1>3, <2>2
    <2> QED  BY <2>2, <2>3, <2>4, <2>5
  <1>5. ArmOK'
    BY <1>1 DEF PInv, ArmOK
  <1>6. MatchOK'
    BY <1>1, <1>4 DEF PInv, MatchOK
  <1>7. CoveredOK'
    <2> SUFFICES ASSUME Quiescent', NEW t \in timer_running \ crossed
                 PROVE  \/ Programmed(t)'
                        \/ pc[t] = "trigger" /\ arm_hi[t] = clksrc_high
      BY <1>1 DEF CoveredOK
    <2>1. \/ Programmed(t)
          \/ pc[t] = "trigger" /\ arm_hi[t] = clksrc_high
      BY <1>4 DEF PInv, CoveredOK
    <2>2. Programmed(t) => Programmed(t)'
      BY <1>1, <1>4 DEF Programmed
    <2> QED  BY <2>1, <2>2
  <1>8. NextOK'
    BY <1>1, QuietTick DEF PInv, NextOK
  <1>9. SetOK'
    BY <1>1 DEF PInv, SetOK
  <1> QED  BY <1>5, <1>6, <1>7, <1>8, <1>9 DEF PInv

LEMMA IrqProgrammed == IInv /\ PInv /\ __hw_clock_source_irq => PInv'
  <1> SUFFICES ASSUME IInv, PInv, __hw_clock_source_irq PROVE PInv'
    OBVIOUS
  <1>1. irq' = "clear" /\ ~Quiescent'
    BY DEF __hw_clock_source_irq, Quiescent
  <1>2. ArmOK'
    BY DEF PInv, ArmOK, __hw_clock_source_irq, locals, globals
  <1> QED  BY <1>1, <1>2 DEF PInv, MatchOK, CoveredOK, NextOK, SetOK

LEMMA ClearProgrammed == IInv /\ PInv /\ clear_and_count => PInv'
  <1> SUFFICES ASSUME IInv, PInv, clear_and_count PROVE PInv'
    OBVIOUS
  <1>1. irq' = "scan" /\ ~Quiescent'
    BY DEF clear_and_count, ClearStatus, Quiescent
  <1>2. ArmOK'
    BY DEF PInv, ArmOK, clear_and_count, ClearStatus, locals
  <1> QED  BY <1>1, <1>2 DEF PInv, MatchOK, CoveredOK, NextOK, SetOK

\* A running timer that process_timers() finds neither due nor a candidate for
\* the match belongs to the overflow.
LEMMA NotDue ==
  ASSUME IInv, ~overflow_pending,
         NEW t \in timer_running \ Expired(HandlerTime)
  PROVE  \/ hi(timer_deadline[t]) > hi(now)
         \/ /\ hi(timer_deadline[t]) = hi(now)
            /\ \/ lo(timer_deadline[t]) = MaxWord
               \/ timer_deadline[t] \in Candidates(HandlerTime)
  <1>1. TypeOK /\ ClockOK /\ t \in Tasks
    BY DEF IInv, TypeOK
  <1>2. /\ timer_deadline[t] \in Nat /\ now \in Nat /\ HandlerTime = now
        /\ hi(now) \in Nat
    BY <1>1, Clock, Locals
  <1>3. ~(timer_deadline[t] <= now)
    BY <1>2 DEF Expired
  <1>4. now <= timer_deadline[t]
    BY <1>2, <1>3
  <1>5. hi(now) <= hi(timer_deadline[t])
    BY <1>2, <1>4, HiGrows
  <1>6. /\ hi(timer_deadline[t]) \in Nat /\ lo(timer_deadline[t]) \in Nat
        /\ lo(timer_deadline[t]) < WRAP
    BY <1>2, Split
  <1>7. lo(timer_deadline[t]) # MaxWord => lo(timer_deadline[t]) < MaxWord
    BY <1>6, TimerAssumption DEF MaxWord
  <1>8. /\ hi(timer_deadline[t]) = hi(now)
        /\ lo(timer_deadline[t]) # MaxWord
        => timer_deadline[t] \in Candidates(HandlerTime)
    BY <1>2, <1>7 DEF Candidates
  <1>9. hi(timer_deadline[t]) > hi(now) \/ hi(timer_deadline[t]) = hi(now)
    BY <1>2, <1>5, <1>6
  <1> QED  BY <1>8, <1>9

LEMMA ScanProgrammed == IInv /\ PInv /\ process_timers => PInv'
  <1> SUFFICES ASSUME IInv, PInv, process_timers PROVE PInv'
    OBVIOUS
  <1>1. /\ timer_running' = timer_running \ Expired(HandlerTime)
        /\ crossed' = crossed \ timer_running /\ now' = now
        /\ overflow_pending' = overflow_pending /\ clksrc_high' = clksrc_high
        /\ timer_deadline' = timer_deadline /\ pc' = pc /\ arm_hi' = arm_hi
    BY DEF process_timers, locals
  <1>2. ArmOK'
    <2> SUFFICES ASSUME NEW t \in Tasks, t \notin crossed', pc[t] = "start"
                 PROVE  arm_hi[t] = clksrc_high
      BY <1>1 DEF ArmOK
    <2>1. t \notin timer_running
      BY DEF IInv, TaskOK, RunningOK
    <2> QED  BY <1>1, <2>1 DEF PInv, ArmOK
  <1>3. CASE Candidates(HandlerTime) = {}
    <2>1. irq' = "off" /\ next_deadline' = MaxWord
      BY <1>3 DEF process_timers
    <2>2. MatchOK' /\ NextOK' /\ SetOK'
      BY <2>1 DEF MatchOK, NextOK, SetOK
    <2>3. CoveredOK'
      <3> SUFFICES ASSUME Quiescent', NEW t \in timer_running'
                   PROVE  Programmed(t)'
        BY DEF CoveredOK
      <3>1. ~overflow_pending
        BY <1>1 DEF Quiescent, IrqPending
      <3>2. \/ hi(timer_deadline[t]) > hi(now)
            \/ /\ hi(timer_deadline[t]) = hi(now)
               /\ lo(timer_deadline[t]) = MaxWord
        BY <1>1, <1>3, <3>1, NotDue
      <3> QED  BY <1>1, <3>2 DEF Programmed
    <2> QED  BY <1>2, <2>2, <2>3 DEF PInv
  <1>4. CASE Candidates(HandlerTime) # {}
    <2>1. /\ irq' = "set" /\ next' \in Candidates(HandlerTime)
          /\ \A deadline \in Candidates(HandlerTime) : next' <= deadline
      BY <1>4 DEF process_timers
    <2>2. MatchOK' /\ CoveredOK' /\ SetOK'
      BY <2>1 DEF MatchOK, CoveredOK, SetOK, Quiescent
    <2>3. hi(next') = hi(HandlerTime)
      BY <2>1 DEF Candidates
    <2>4. hi(next') = clksrc_high
      BY <2>3, Clock DEF IInv
    <2>5. NextOK'
      <3> SUFFICES ASSUME ~overflow_pending, NEW t \in timer_running'
                   PROVE  \/ hi(timer_deadline[t]) > hi(now)
                          \/ /\ hi(timer_deadline[t]) = hi(now)
                             /\ \/ lo(timer_deadline[t]) = MaxWord
                                \/ next' <= timer_deadline[t]
        BY <1>1, <2>4 DEF NextOK
      <3> QED  BY <1>1, <2>1, NotDue
    <2> QED  BY <1>2, <2>2, <2>5 DEF PInv
  <1> QED  BY <1>3, <1>4

LEMMA SetProgrammed == IInv /\ PInv /\ event_set => PInv'
  <1> SUFFICES ASSUME IInv, PInv, event_set PROVE PInv'
    OBVIOUS
  <1>1. irq = "set" /\ irq' = "again" /\ ~Quiescent'
    BY DEF event_set, Quiescent
  <1>2. ArmOK' /\ SetOK'
    BY DEF PInv, ArmOK, SetOK, event_set, locals
  <1>3. NextOK'
    BY <1>1 DEF PInv, NextOK, event_set
  <1> QED  BY <1>1, <1>2, <1>3 DEF PInv, MatchOK, CoveredOK

LEMMA RecheckProgrammed == IInv /\ PInv /\ recheck => PInv'
  <1> SUFFICES ASSUME IInv, PInv, recheck PROVE PInv'
    OBVIOUS
  <1>1. /\ irq = "again" /\ now' = now /\ clksrc_high' = clksrc_high
        /\ match' = match /\ match_enabled' = match_enabled
        /\ next_deadline' = next_deadline /\ timer_running' = timer_running
        /\ overflow_pending' = overflow_pending
        /\ timer_deadline' = timer_deadline /\ pc' = pc /\ arm_hi' = arm_hi
        /\ crossed' = crossed
        /\ irq' = IF next <= HandlerTime THEN "scan" ELSE "off"
    BY DEF recheck, hw, globals, locals
  <1>2. ArmOK' /\ NextOK' /\ SetOK'
    BY <1>1 DEF PInv, ArmOK, NextOK, SetOK
  <1>3. ASSUME Quiescent'
        PROVE  /\ next \in Nat /\ hi(next) = hi(now) /\ lo(now) < lo(next)
               /\ match_enabled /\ match = lo(next)
               /\ next_deadline = lo(next) /\ ~overflow_pending
    <2>1. ~(next <= HandlerTime) /\ ~overflow_pending
      BY <1>1, <1>3 DEF Quiescent, IrqPending
    <2>2. /\ now \in Nat /\ HandlerTime = now /\ clksrc_high = hi(now)
      BY <2>1, Clock DEF IInv
    <2>3. next \in Nat
      BY TimerAssumption DEF IInv, TypeOK, Time
    <2>4. now < next
      BY <2>1, <2>2, <2>3
    <2>5. hi(next) = hi(now)
      BY <1>1, <2>2 DEF PInv, NextOK
    <2>6. lo(now) < lo(next)
      BY <2>2, <2>3, <2>4, <2>5, SameEpoch
    <2> QED  BY <1>1, <2>1, <2>3, <2>5, <2>6 DEF PInv, SetOK
  <1>4. MatchOK'
    BY <1>1, <1>3 DEF MatchOK
  <1>5. CoveredOK'
    <2> SUFFICES ASSUME Quiescent', NEW t \in timer_running
                 PROVE  Programmed(t)'
      BY <1>1 DEF CoveredOK
    <2>1. \/ hi(timer_deadline[t]) > hi(now)
          \/ /\ hi(timer_deadline[t]) = hi(now)
             /\ \/ lo(timer_deadline[t]) = MaxWord
                \/ next <= timer_deadline[t]
      BY <1>1, <1>3 DEF PInv, NextOK
    <2>2. timer_deadline[t] \in Nat
      BY Locals DEF IInv, TypeOK
    <2>3. hi(timer_deadline[t]) = hi(now) /\ next <= timer_deadline[t]
          => lo(next) <= lo(timer_deadline[t])
      BY <1>3, <2>2, SameEpoch
    <2> QED  BY <1>1, <1>3, <2>1, <2>3 DEF Programmed
  <1> QED  BY <1>2, <1>4, <1>5 DEF PInv

\* timer_arm(): when it does not trigger the interrupt, the timer belongs to
\* the overflow or the match that is set comes before it.
LEMMA TriggerProgrammed ==
  ASSUME IInv, PInv, NEW u \in timer_running \ crossed, Trigger(u),
         Quiescent'
  PROVE  Programmed(u)'
  <1>1. /\ u \in Tasks /\ Quiescent /\ pc[u] = "trigger"
        /\ clksrc_high = hi(now)
    BY Running DEF IInv, TypeOK, Trigger, At, Quiescent
  <1>2. /\ now' = now /\ match' = match /\ match_enabled' = match_enabled
        /\ timer_deadline' = timer_deadline
    BY DEF Trigger, globals
  <1>3. Programmed(u) => Programmed(u)'
    BY <1>2 DEF Programmed
  <1>4. CASE arm_hi[u] = clksrc_high
    <2>1. timer_deadline[u] \in Nat /\ hi(now) \in Nat
      BY <1>1, Locals, Clock DEF IInv
    <2>2. /\ hi(timer_deadline[u]) \in Nat /\ lo(timer_deadline[u]) \in Nat
          /\ lo(timer_deadline[u]) < WRAP
      BY <2>1, Split
    <2>3. /\ ~(hi(timer_deadline[u]) < hi(now))
          /\ hi(timer_deadline[u]) = hi(now) =>
               ~(lo(timer_deadline[u]) <= next_deadline)
      BY <1>1, <1>4 DEF Trigger, Quiescent, IrqPending
    <2>4. hi(timer_deadline[u]) > hi(now) \/ hi(timer_deadline[u]) = hi(now)
      BY <2>1, <2>2, <2>3
    <2>5. next_deadline \in Nat
      BY TimerAssumption DEF IInv, TypeOK, Word
    <2>6. hi(timer_deadline[u]) = hi(now) =>
            /\ next_deadline # MaxWord
            /\ next_deadline <= lo(timer_deadline[u])
      BY <2>2, <2>3, <2>5, TimerAssumption DEF MaxWord
    <2>7. hi(timer_deadline[u]) = hi(now) =>
            match_enabled /\ match = next_deadline /\ lo(now) < match
      BY <1>1, <2>6 DEF PInv, MatchOK
    <2> QED  BY <1>2, <2>4, <2>6, <2>7 DEF Programmed
  <1> QED  BY <1>1, <1>3, <1>4 DEF PInv, CoveredOK

LEMMA TaskProgrammed ==
  ASSUME IInv, PInv, NEW u \in Tasks, Task(u) PROVE PInv'
  <1>1. TypeOK /\ IInv'
    BY TaskStep DEF IInv
  <1>2. /\ now' = now /\ clksrc_high' = clksrc_high
        /\ overflow_pending' = overflow_pending
        /\ irq = "off" /\ irq' = "off" /\ ~IrqPending
        /\ match' = match /\ match_enabled' = match_enabled
        /\ match_pending' = match_pending /\ next_deadline' = next_deadline
        /\ Others(u)
    BY <1>1, TaskLeaves
  <1>3. Quiescent
    BY <1>2 DEF Quiescent
  <1>4. MatchOK' /\ NextOK' /\ SetOK'
    BY <1>2, <1>3 DEF PInv, MatchOK, NextOK, SetOK
  <1>5. PICK d \in 1 .. DELAY :
          \/ StartWait(u, d) \/ ReadHi(u) \/ ReadLo(u) \/ CheckHi(u)
          \/ Arm(u) \/ Start(u) \/ Trigger(u) \/ Cancel(u)
    <2>1. 1 \in 1 .. DELAY
      BY TimerAssumption
    <2> QED  BY <2>1 DEF Task
  <1>6. ArmOK'
    <2> SUFFICES ASSUME NEW t \in Tasks, t \notin crossed', pc'[t] = "start"
                 PROVE  arm_hi'[t] = clksrc_high
      BY <1>2 DEF ArmOK
    <2>1. CASE t # u
      BY <1>2, <2>1 DEF PInv, ArmOK, Others
    <2>2. CASE t = u
      <3>1. Arm(u)
        BY <1>1, <1>5, <2>2 DEF StartWait, ReadHi, ReadLo, CheckHi, Start,
                                Trigger, Cancel, Goto, TypeOK
      <3> QED  BY <1>1, <2>2, <3>1 DEF Arm, TypeOK
    <2> QED  BY <2>1, <2>2
  <1>7. CoveredOK'
    <2> SUFFICES ASSUME Quiescent', NEW t \in timer_running' \ crossed'
                 PROVE  \/ Programmed(t)'
                        \/ pc'[t] = "trigger" /\ arm_hi'[t] = clksrc_high
      BY <1>2 DEF CoveredOK
    <2>1. t \in Tasks
      BY <1>1 DEF IInv, TypeOK
    <2>2. CASE t # u
      <3>1. /\ t \in timer_running \ crossed /\ pc'[t] = pc[t]
            /\ arm_hi'[t] = arm_hi[t] /\ timer_deadline'[t] = timer_deadline[t]
        BY <1>2, <2>1, <2>2 DEF Others
      <3>2. Programmed(t) => Programmed(t)'
        BY <1>2, <3>1 DEF Programmed
      <3> QED  BY <1>3, <3>1, <3>2 DEF PInv, CoveredOK
    <2>3. CASE t = u
      <3>1. pc'[u] \in {"trigger", "wait"}
        BY <1>1, <2>1, <2>3 DEF IInv, TaskOK, RunningOK
      <3>2. Start(u) \/ Trigger(u)
        BY <1>1, <1>5, <3>1 DEF StartWait, ReadHi, ReadLo, CheckHi, Arm,
                                Cancel, Goto, TypeOK
      <3>3. CASE Start(u)
        <4>1. /\ u \notin crossed /\ pc[u] = "start" /\ pc'[u] = "trigger"
              /\ arm_hi' = arm_hi
          BY <1>1, <2>3, <3>3 DEF Start, At, Goto, TypeOK
        <4> QED  BY <2>3, <4>1 DEF PInv, ArmOK
      <3>4. CASE Trigger(u)
        <4>1. u \in timer_running \ crossed
          BY <2>3, <3>4 DEF Trigger, globals
        <4> QED  BY <2>3, <3>4, <4>1, TriggerProgrammed
      <3> QED  BY <3>2, <3>3, <3>4
    <2> QED  BY <2>2, <2>3
  <1> QED  BY <1>4, <1>6, <1>7 DEF PInv

LEMMA ForceProgrammed ==
  ASSUME IInv, PInv, NEW d \in 1 .. HORIZON, force_time(d) PROVE PInv'
  <1>1. irq = "off" /\ irq' = "off" /\ ~Quiescent'
    BY TimerAssumption DEF force_time, At, Quiescent, IrqPending, handler
  <1>2. ArmOK'
    BY DEF force_time, At, ArmOK, locals
  <1> QED  BY <1>1, <1>2 DEF PInv, MatchOK, CoveredOK, NextOK, SetOK

LEMMA NextProgrammed == IInv /\ PInv /\ [Next]_vars => PInv'
  <1> SUFFICES ASSUME IInv, PInv, [Next]_vars PROVE PInv'
    OBVIOUS
  <1>1. CASE UNCHANGED vars
    <2>1. /\ now' = now /\ match' = match /\ match_enabled' = match_enabled
          /\ match_pending' = match_pending /\ sw_pending' = sw_pending
          /\ overflow_pending' = overflow_pending
          /\ clksrc_high' = clksrc_high /\ timer_running' = timer_running
          /\ timer_deadline' = timer_deadline
          /\ next_deadline' = next_deadline /\ irq' = irq /\ next' = next
          /\ pc' = pc /\ arm_hi' = arm_hi /\ crossed' = crossed
      BY <1>1 DEF vars, hw, globals, locals, handler
    <2>2. ArmOK' /\ MatchOK' /\ SetOK'
      BY <2>1 DEF PInv, ArmOK, MatchOK, SetOK, Quiescent, IrqPending
    <2>3. CoveredOK'
      BY <2>1 DEF PInv, CoveredOK, Programmed, Quiescent, IrqPending
    <2>4. NextOK'
      BY <2>1 DEF PInv, NextOK
    <2> QED  BY <2>2, <2>3, <2>4 DEF PInv
  <1> QED  BY <1>1, TickProgrammed, IrqProgrammed, ClearProgrammed,
              ScanProgrammed, SetProgrammed, RecheckProgrammed, TaskProgrammed,
              ForceProgrammed DEF Next, Handler

\* With no interrupt left to serve, every armed timer has its interrupt, except
\* those that read the high word before an overflow was counted.
THEOREM AllProgrammed == Spec => []TimersProgrammed
  <1>1. IInv /\ PInv => TimersProgrammed
    BY DEF PInv, CoveredOK, TimersProgrammed
  <1>2. Spec => [](IInv /\ PInv)
    BY InitInv, NextInv, InitProgrammed, NextProgrammed, PTL DEF Spec
  <1> QED  BY <1>1, <1>2, PTL

=============================================================================
