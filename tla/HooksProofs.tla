---------------------------- MODULE HooksProofs ----------------------------
(***************************************************************************)
(* Proofs about the loop of hook_task(), for every number of routines, all *)
(* intervals and delays.                                                   *)
(***************************************************************************)
EXTENDS HookTask, TLAPS

-----------------------------------------------------------------------------
(* The inductive invariant                                                 *)

\* The times the hook task has read are past; it is within the table while it
\* serves a routine.
ClockOK ==
  /\ 1 <= now /\ t <= now /\ last_tick <= now
  /\ pc \in {"clear", "call", "routine"} => i <= DEFERRED_FUNCS_COUNT

\* A call that is owed has its time, until the routine is entered.
OwedOK ==
  \A f \in asked : deferred_until[f] # 0 \/ (pc = "call" /\ i = f)

\* `next' is no later than the next tick, nor than the routines seen so far,
\* unless a request was made since they were.
Covered(f) == deferred_until[f] = 0 \/ t + next <= deferred_until[f]

ScanOK ==
  /\ pc \in {"reset", "scan", "sleep"} /\ next > 0 =>
       t + next <= last_tick + HOOK_TICK_INTERVAL
  /\ pc = "scan" /\ next > 0 /\ ~defer_new_call => \A f \in Funcs : f < i => Covered(f)
  /\ pc = "sleep" /\ next > 0 /\ ~defer_new_call => \A f \in Funcs : Covered(f)

WaitOK ==
  pc = "wait" =>
    /\ alarm <= last_tick + HOOK_TICK_INTERVAL + drift
    /\ ~wake => \A f \in Funcs :
                  deferred_until[f] = 0 \/ alarm <= deferred_until[f] + drift

IInv == TypeOK /\ ClockOK /\ OwedOK /\ ScanOK /\ WaitOK

-----------------------------------------------------------------------------
LEMMA TypeInit == Init => TypeOK
  <1> SUFFICES ASSUME Init PROVE TypeOK
    OBVIOUS
  <1>1. 0 \in Time /\ 1 \in Time
    BY HooksAssumption DEF Time
  <1>2. /\ -HOOK_TICK_INTERVAL \in -HOOK_TICK_INTERVAL .. HORIZON
        /\ -SECOND \in -SECOND .. HORIZON /\ 1 \in 1 .. DEFERRED_FUNCS_COUNT + 1
        /\ 0 \in 0 .. HOOK_TICK_INTERVAL /\ 0 \in 0 .. HORIZON + HOOK_TICK_INTERVAL
        /\ 0 \in 0 .. REQUESTS
    BY HooksAssumption
  <1> QED  BY <1>1, <1>2 DEF Init, TypeOK

LEMMA InvInit == Init => IInv
  <1> SUFFICES ASSUME Init PROVE IInv
    OBVIOUS
  <1>2. ClockOK
    BY HooksAssumption DEF Init, ClockOK
  <1> QED  BY <1>2, TypeInit DEF Init, IInv, OwedOK, ScanOK, WaitOK

\* The words are integers.
LEMMA Typed ==
  ASSUME TypeOK
  PROVE  /\ now \in Int /\ t \in Int /\ next \in Int /\ alarm \in Int /\ drift \in Int
         /\ last_tick \in Int /\ i \in Int
         /\ \A f \in Funcs : deferred_until[f] \in Int
  BY HooksAssumption DEF TypeOK, Time

LEMMA RequestStep ==
  ASSUME IInv, NEW f \in Funcs, NEW us \in Delays, Request(f, us)
  PROVE  IInv'
  <1>0. TypeOK /\ us \in Nat
    BY HooksAssumption DEF IInv
  <1>1. now + us \in Time /\ now + us # 0
    BY <1>0, HooksAssumption DEF IInv, ClockOK, TypeOK, Time, Request
  <1>2. requests' \in 0 .. REQUESTS
    BY <1>0, HooksAssumption DEF TypeOK, Request
  <1>3. TypeOK'
    BY <1>0, <1>1, <1>2 DEF TypeOK, Request
  <1>4. ClockOK'
    BY DEF IInv, ClockOK, Request
  <1>5. OwedOK'
    BY <1>0, <1>1 DEF IInv, OwedOK, Request, TypeOK
  <1>6. ScanOK' /\ WaitOK'
    BY DEF IInv, ScanOK, WaitOK, Request
  <1> QED  BY <1>3, <1>4, <1>5, <1>6 DEF IInv

LEMMA CancelStep ==
  ASSUME IInv, NEW f \in Funcs, CancelCall(f)
  PROVE  IInv'
  <1>0. TypeOK
    BY DEF IInv
  <1>1. 0 \in Time /\ requests' \in 0 .. REQUESTS
    BY <1>0, HooksAssumption DEF TypeOK, Time, CancelCall
  <1>2. \A g \in Funcs : deferred_until'[g] = IF g = f THEN 0 ELSE deferred_until[g]
    BY <1>0 DEF TypeOK, CancelCall
  <1>3. TypeOK'
    BY <1>0, <1>1 DEF TypeOK, CancelCall
  <1>4. ClockOK'
    BY DEF IInv, ClockOK, CancelCall
  <1>5. OwedOK'
    BY <1>0, <1>2 DEF IInv, OwedOK, CancelCall, TypeOK
  <1>6. ScanOK'
    BY <1>2 DEF IInv, ScanOK, Covered, CancelCall
  <1>7. WaitOK'
    BY <1>2 DEF IInv, WaitOK, CancelCall
  <1> QED  BY <1>3, <1>4, <1>5, <1>6, <1>7 DEF IInv

LEMMA TickStep ==
  ASSUME IInv, Tick
  PROVE  IInv'
  <1>0. TypeOK /\ now \in Int /\ t \in Int /\ last_tick \in Int
    BY Typed DEF IInv
  <1>1. now' \in Time
    BY <1>0, HooksAssumption DEF TypeOK, Time, Tick
  <1>2. TypeOK'
    BY <1>0, <1>1 DEF TypeOK, Tick, shared, history
  <1>3. ClockOK'
    BY <1>0 DEF IInv, ClockOK, Tick
  <1>4. OwedOK' /\ ScanOK' /\ WaitOK'
    BY DEF IInv, OwedOK, ScanOK, WaitOK, Covered, Tick, shared, history
  <1> QED  BY <1>2, <1>3, <1>4 DEF IInv

\* The loop over the deferred routines.
LEMMA CallsStep ==
  ASSUME IInv, Top \/ Check \/ Clear \/ CallRoutine \/ Return
  PROVE  IInv'
  <1>0. /\ TypeOK /\ now \in Int /\ t \in Int /\ i \in Int /\ last_tick \in Int
        /\ 0 \in Time /\ 1 \in 1 .. DEFERRED_FUNCS_COUNT + 1
    BY Typed, HooksAssumption DEF IInv, Time
  <1>1. ASSUME i <= DEFERRED_FUNCS_COUNT
        PROVE  i \in Funcs /\ i + 1 \in 1 .. DEFERRED_FUNCS_COUNT + 1
    BY <1>0, <1>1, HooksAssumption DEF TypeOK, Funcs
  <1>2. CASE Top
    <2>1. TypeOK'
      BY <1>0, <1>2 DEF TypeOK, Top, shared, history
    <2>2. ClockOK'
      BY <1>0, <1>2 DEF IInv, ClockOK, Top
    <2>3. OwedOK' /\ ScanOK' /\ WaitOK'
      BY <1>2 DEF IInv, OwedOK, ScanOK, WaitOK, Top, shared, history
    <2> QED  BY <2>1, <2>2, <2>3 DEF IInv
  <1>3. CASE Check
    <2>0. i \in Int /\ DEFERRED_FUNCS_COUNT \in Int
      BY <1>0, HooksAssumption
    <2>1. TypeOK'
      BY <1>0, <1>1, <1>3, <2>0 DEF TypeOK, Check, shared, history
    <2>2. ClockOK'
      BY <1>0, <1>3, <2>0 DEF IInv, ClockOK, Check
    <2>3. OwedOK' /\ ScanOK' /\ WaitOK'
      BY <1>3 DEF IInv, OwedOK, ScanOK, WaitOK, Check, shared, history
    <2> QED  BY <2>1, <2>2, <2>3 DEF IInv
  <1>4. CASE Clear
    <2>0. i \in Funcs
      BY <1>1, <1>4 DEF IInv, ClockOK, Clear
    <2>1. TypeOK'
      BY <1>0, <1>4 DEF TypeOK, Clear, history
    <2>2. ClockOK'
      BY <1>0, <1>4 DEF IInv, ClockOK, Clear
    <2>3. OwedOK'
      BY <1>0, <1>4, <2>0 DEF IInv, OwedOK, TypeOK, Clear, history
    <2>4. ScanOK' /\ WaitOK'
      BY <1>4 DEF ScanOK, WaitOK, Clear
    <2> QED  BY <2>1, <2>2, <2>3, <2>4 DEF IInv
  <1>5. CASE CallRoutine
    <2>1. TypeOK'
      BY <1>0, <1>5 DEF TypeOK, CallRoutine, shared
    <2>2. ClockOK'
      BY <1>0, <1>5 DEF IInv, ClockOK, CallRoutine
    <2>3. OwedOK' /\ ScanOK' /\ WaitOK'
      BY <1>5 DEF IInv, OwedOK, ScanOK, WaitOK, CallRoutine, shared
    <2> QED  BY <2>1, <2>2, <2>3 DEF IInv
  <1>6. CASE Return
    <2>0. i + 1 \in 1 .. DEFERRED_FUNCS_COUNT + 1
      BY <1>1, <1>6 DEF IInv, ClockOK, Return
    <2>1. TypeOK'
      BY <1>0, <1>6, <2>0 DEF TypeOK, Return, history
    <2>2. ClockOK'
      BY <1>0, <1>6 DEF IInv, ClockOK, Return
    <2>3. OwedOK' /\ ScanOK' /\ WaitOK'
      BY <1>6 DEF IInv, OwedOK, ScanOK, WaitOK, Return, history
    <2> QED  BY <2>1, <2>2, <2>3 DEF IInv
  <1> QED  BY <1>2, <1>3, <1>4, <1>5, <1>6

\* The hooks HOOK_TICK and HOOK_SECOND, and when the next tick is.
LEMMA PeriodicStep ==
  ASSUME IInv, Periodic \/ NextTick \/ Reset
  PROVE  IInv'
  <1>0. /\ TypeOK /\ now \in Int /\ t \in Int /\ i \in Int /\ last_tick \in Int
        /\ 0 \in Time /\ 1 \in 1 .. DEFERRED_FUNCS_COUNT + 1
        /\ HOOK_TICK_INTERVAL \in Int /\ 0 \in 0 .. HOOK_TICK_INTERVAL
    BY Typed, HooksAssumption DEF IInv, Time
  <1>1. CASE Periodic
    <2>0. /\ last_tick' \in {t, last_tick} /\ last_second' \in {t, last_second}
      BY <1>1 DEF Periodic
    <2>2. t \in -HOOK_TICK_INTERVAL .. HORIZON /\ t \in -SECOND .. HORIZON
      BY <1>0, HooksAssumption DEF TypeOK, Time
    <2>3. TypeOK'
      BY <1>0, <1>1, <2>0, <2>2 DEF TypeOK, Periodic, shared, history
    <2>4. ClockOK'
      BY <1>0, <1>1, <2>0 DEF IInv, ClockOK, Periodic
    <2>5. OwedOK' /\ ScanOK' /\ WaitOK'
      BY <1>1 DEF IInv, OwedOK, ScanOK, WaitOK, Periodic, shared, history
    <2> QED  BY <2>3, <2>4, <2>5 DEF IInv
  <1>2. CASE NextTick
    <2>1. /\ next' \in 0 .. HOOK_TICK_INTERVAL
          /\ next' > 0 => now + next' <= last_tick + HOOK_TICK_INTERVAL
      BY <1>0, <1>2 DEF IInv, ClockOK, NextTick
    <2>2. TypeOK'
      BY <1>0, <1>2, <2>1 DEF TypeOK, NextTick, shared, history
    <2>3. ClockOK'
      BY <1>0, <1>2 DEF IInv, ClockOK, NextTick
    <2>4. OwedOK' /\ WaitOK'
      BY <1>2 DEF IInv, OwedOK, WaitOK, NextTick, shared, history
    <2>5. ScanOK'
      BY <1>2, <2>1 DEF ScanOK, NextTick
    <2> QED  BY <2>2, <2>3, <2>4, <2>5 DEF IInv
  <1>3. CASE Reset
    <2>1. TypeOK'
      BY <1>0, <1>3 DEF TypeOK, Reset, history
    <2>2. ClockOK' /\ OwedOK' /\ WaitOK'
      BY <1>3 DEF IInv, ClockOK, OwedOK, WaitOK, Reset, history
    <2>3. \A f \in Funcs : ~(f < 1)
      BY HooksAssumption DEF Funcs
    <2>4. ScanOK'
      BY <1>3, <2>3 DEF IInv, ScanOK, Reset
    <2> QED  BY <2>1, <2>2, <2>4 DEF IInv
  <1> QED  BY <1>1, <1>2, <1>3

LEMMA Sooner ==
  ASSUME NEW x \in Int, NEW n \in Nat, NEW d \in Int, NEW m,
         m = IF d = 0 THEN n ELSE IF d < x THEN 0 ELSE IF d - x < n THEN d - x ELSE n
  PROVE  m \in Nat /\ m <= n /\ (m > 0 => n > 0 /\ (d = 0 \/ x + m <= d))
  OBVIOUS

LEMMA StillSooner ==
  ASSUME NEW x \in Int, NEW n \in Int, NEW m \in Int, m <= n, NEW y \in Int, x + n <= y
  PROVE  x + m <= y
  OBVIOUS

LEMMA ScanStep ==
  ASSUME IInv, Scan
  PROVE  IInv'
  <1>0. /\ TypeOK /\ t \in Int /\ i \in Int /\ next \in Int /\ last_tick \in Int
        /\ \A f \in Funcs : deferred_until[f] \in Int
        /\ HOOK_TICK_INTERVAL \in Int /\ DEFERRED_FUNCS_COUNT \in Int
    BY Typed, HooksAssumption DEF IInv
  <1>1. ClockOK' /\ OwedOK' /\ WaitOK'
    BY DEF IInv, ClockOK, OwedOK, WaitOK, Scan, shared, history
  <1>2. CASE i > DEFERRED_FUNCS_COUNT \/ next = 0
    <2>1. TypeOK'
      BY <1>0, <1>2 DEF TypeOK, Scan, shared, history
    <2>2. i > DEFERRED_FUNCS_COUNT => \A f \in Funcs : f < i
      BY <1>0 DEF Funcs
    <2>3. ScanOK'
      BY <1>0, <1>2, <2>2 DEF IInv, ScanOK, Covered, Scan, shared
    <2> QED  BY <1>1, <2>1, <2>3 DEF IInv
  <1>3. CASE ~(i > DEFERRED_FUNCS_COUNT \/ next = 0)
    <2>1. i \in Funcs /\ i + 1 \in 1 .. DEFERRED_FUNCS_COUNT + 1
      BY <1>0, <1>3 DEF TypeOK, Funcs
    <2> PICK d \in Int : d = deferred_until[i]
      BY <1>0, <2>1
    <2>2. /\ next' = IF d = 0 THEN next ELSE IF d < t THEN 0
                     ELSE IF d - t < next THEN d - t ELSE next
          /\ i' = i + 1 /\ pc' = "scan"
          /\ UNCHANGED <<t, last_tick, deferred_until, defer_new_call>>
      BY <1>3 DEF Scan, shared
    <2>3. next \in Nat /\ next <= HOOK_TICK_INTERVAL
      BY <1>0 DEF TypeOK
    <2>5. next' \in Nat /\ next' <= next
          /\ (next' > 0 => next > 0 /\ (d = 0 \/ t + next' <= d))
      BY <1>0, <2>2, <2>3, Sooner
    <2>6. next' > 0 => t + next' <= last_tick + HOOK_TICK_INTERVAL
      <3>1. next > 0 => t + next <= last_tick + HOOK_TICK_INTERVAL
        BY DEF IInv, ScanOK, Scan
      <3>2. PICK y \in Int : y = last_tick + HOOK_TICK_INTERVAL
        BY <1>0
      <3>3. ASSUME next' > 0 PROVE t + next' <= y
        <4>1. t + next <= y
          BY <2>5, <3>1, <3>2, <3>3
        <4>2. t \in Int /\ next \in Int /\ next' \in Int /\ next' <= next
          BY <1>0, <2>5
        <4> QED  BY <4>1, <4>2, StillSooner
      <3> QED  BY <3>2, <3>3
    <2>9. next' \in 0 .. HOOK_TICK_INTERVAL
      BY <1>0, <2>3, <2>5
    <2>4. TypeOK'
      BY <1>0, <1>3, <2>1, <2>9 DEF TypeOK, Scan, shared, history
    <2>7. ASSUME next' > 0, ~defer_new_call, NEW f \in Funcs, f < i + 1
          PROVE  deferred_until[f] = 0 \/ t + next' <= deferred_until[f]
      <3>1. f < i \/ f = i
        BY <1>0, <2>7 DEF Funcs
      <3>2. CASE f < i
        <4>1. deferred_until[f] = 0 \/ t + next <= deferred_until[f]
          BY <2>5, <2>7, <3>2 DEF IInv, ScanOK, Covered, Scan
        <4> QED  BY <1>0, <2>5, <4>1
      <3> QED  BY <2>5, <2>7, <3>1, <3>2
    <2>8. ScanOK'
      BY <2>2, <2>6, <2>7 DEF ScanOK, Covered
    <2> QED  BY <1>1, <2>4, <2>8 DEF IInv
  <1> QED  BY <1>2, <1>3

LEMMA SleepStep ==
  ASSUME IInv, Sleep
  PROVE  IInv'
  <1>0. /\ TypeOK /\ now \in Int /\ t \in Int /\ next \in Int /\ last_tick \in Int
        /\ \A f \in Funcs : deferred_until[f] \in Int
        /\ HOOK_TICK_INTERVAL \in Int /\ HORIZON \in Int
        /\ 0 \in Time /\ 1 \in 1 .. DEFERRED_FUNCS_COUNT + 1
        /\ 0 \in 0 .. HOOK_TICK_INTERVAL
    BY Typed, HooksAssumption DEF IInv, Time
  <1>1. now + next \in 0 .. HORIZON + HOOK_TICK_INTERVAL /\ now - t \in Time
    BY <1>0 DEF IInv, ClockOK, TypeOK, Time
  <1>2. TypeOK'
    BY <1>0, <1>1 DEF TypeOK, Sleep, shared, history
  <1>3. ClockOK'
    BY <1>0 DEF IInv, ClockOK, Sleep
  <1>4. OwedOK' /\ ScanOK'
    BY DEF IInv, OwedOK, ScanOK, Sleep, shared, history
  <1>5. WaitOK'
    <2>1. CASE next > 0 /\ ~defer_new_call
      <3>1. /\ t + next <= last_tick + HOOK_TICK_INTERVAL
            /\ \A f \in Funcs : deferred_until[f] = 0 \/ t + next <= deferred_until[f]
        BY <2>1 DEF IInv, ScanOK, Covered, Sleep
      <3>2. alarm' = now + next /\ drift' = now - t
            /\ UNCHANGED <<last_tick, deferred_until>>
        BY <2>1 DEF Sleep, shared
      <3>3. now + next <= last_tick + HOOK_TICK_INTERVAL + (now - t)
        BY <1>0, <3>1
      <3>4. \A f \in Funcs : deferred_until[f] = 0
                             \/ now + next <= deferred_until[f] + (now - t)
        BY <1>0, <3>1
      <3> QED  BY <3>2, <3>3, <3>4 DEF WaitOK
    <2>2. CASE ~(next > 0 /\ ~defer_new_call)
      BY <2>2 DEF Sleep, WaitOK
    <2> QED  BY <2>1, <2>2
  <1> QED  BY <1>2, <1>3, <1>4, <1>5 DEF IInv

LEMMA WakeupStep ==
  ASSUME IInv, Wakeup
  PROVE  IInv'
  <1>0. TypeOK /\ 0 \in Time /\ 0 \in 0 .. HORIZON + HOOK_TICK_INTERVAL
    BY HooksAssumption DEF IInv, Time
  <1>1. TypeOK'
    BY <1>0 DEF TypeOK, Wakeup, history
  <1>2. ClockOK' /\ OwedOK' /\ ScanOK' /\ WaitOK'
    BY DEF IInv, ClockOK, OwedOK, ScanOK, WaitOK, Wakeup, history
  <1> QED  BY <1>1, <1>2 DEF IInv

LEMMA InvStep == IInv /\ [Next]_vars => IInv'
  <1> SUFFICES ASSUME IInv, [Next]_vars PROVE IInv'
    OBVIOUS
  <1>1. CASE UNCHANGED vars
    <2>1. TypeOK'
      BY <1>1 DEF IInv, TypeOK, vars, shared, history
    <2>2. ClockOK' /\ OwedOK' /\ ScanOK' /\ WaitOK'
      BY <1>1 DEF IInv, ClockOK, OwedOK, ScanOK, WaitOK, Covered, vars, shared,
                  history
    <2> QED  BY <2>1, <2>2 DEF IInv
  <1>2. CASE Tick
    BY <1>2, TickStep
  <1>3. ASSUME NEW f \in Funcs, hook_call_deferred(f) PROVE IInv'
    BY <1>3, CancelStep, RequestStep DEF hook_call_deferred
  <1>4. CASE hook_task
    BY <1>4, CallsStep, PeriodicStep, ScanStep, SleepStep, WakeupStep DEF hook_task
  <1> QED  BY <1>1, <1>2, <1>3, <1>4 DEF Next

LEMMA InvAwake == IInv => NeverOversleeps
  <1> SUFFICES ASSUME IInv, Asleep
               PROVE  /\ alarm <= last_tick + HOOK_TICK_INTERVAL + drift
                      /\ \A f \in asked : deferred_until[f] # 0
                                          /\ alarm <= deferred_until[f] + drift
    BY DEF NeverOversleeps
  <1>1. asked \subseteq Funcs
    BY DEF IInv, TypeOK
  <1> QED  BY <1>1 DEF IInv, OwedOK, WaitOK, Asleep

-----------------------------------------------------------------------------
(* The loop                                                                *)

\* The invariant of the loop, whatever the tasks and interrupt handlers
\* request between any two of its accesses.
THEOREM HooksInvariance == Spec => []IInv
  BY InvInit, InvStep, PTL DEF Spec

\* Every index into the table of routines, every time read and every delay
\* computed by hook_task() stays within its type.
THEOREM HooksTypeCorrect == Spec => []TypeOK
  BY HooksInvariance, PTL DEF IInv

\* hook_task() never waits past the next tick or past a deferred call it owes
\* by more than the time it was preempted for.
THEOREM WakesInTime == Spec => []NeverOversleeps
  BY HooksInvariance, InvAwake, PTL

-----------------------------------------------------------------------------
(* hook_task() as a whole                                                  *)

LEMMA LoopStep == [StartNext]_<<vars, startup>> => [Next]_vars
  BY DEF StartNext, CallInit, EnableTasks, InLoop

\* hook_task() with its start implements the loop: before the tasks are enabled
\* nothing of the loop's state changes.
THEOREM StartRefines == StartSpec => Spec
  <1>1. StartInit => Init
    BY DEF StartInit
  <1> QED  BY <1>1, LoopStep, PTL DEF StartSpec, Spec

\* The two properties of the loop, for hook_task() from its first instruction.
THEOREM StartSafe == StartSpec => []TypeOK /\ []NeverOversleeps
  BY StartRefines, HooksTypeCorrect, WakesInTime, PTL
=============================================================================
