---------------------------- MODULE TimerService ----------------------------
(***************************************************************************)
(* What common/timer.c promises to the task runtime: one timer per task,   *)
(* which may expire at any moment after its due time and never before, and *)
(* which expires once.                                                     *)
(***************************************************************************)
EXTENDS Naturals

CONSTANTS Tasks

VARIABLES
  now,      \* the time
  running,  \* the timers started and neither expired nor cancelled
  due,      \* due[t]: the time t's timer was started for
  fired     \* the tasks whose timer expired and that have not seen it yet

vars == <<now, running, due, fired>>

Init ==
  /\ now \in Nat
  /\ running = {} /\ fired = {}
  /\ due \in [Tasks -> Nat]

\* Time passes, by more than one unit when the processor was in deep sleep.
Pass ==
  /\ now' \in Nat /\ now' > now
  /\ UNCHANGED <<running, due, fired>>

\* A task that sees no timer of its own running decides on a due time.
Choose(t) ==
  /\ t \notin running /\ t \notin fired
  /\ due'[t] \in Nat /\ due'[t] > now
  /\ due' = [due EXCEPT ![t] = due'[t]]
  /\ UNCHANGED <<now, running, fired>>

Start(t) ==
  /\ t \notin running /\ t \notin fired
  /\ running' = running \cup {t}
  /\ UNCHANGED <<now, due, fired>>

Expire(S) ==
  /\ S \subseteq running /\ \A t \in S : due[t] <= now
  /\ running' = running \ S /\ fired' = fired \cup S
  /\ UNCHANGED <<now, due>>

Cancel(t) ==
  /\ running' = running \ {t} /\ fired' = fired \ {t}
  /\ due' = [due EXCEPT ![t] = 0]
  /\ UNCHANGED now

Next ==
  \/ Pass
  \/ \E t \in Tasks : Choose(t) \/ Start(t) \/ Cancel(t)
  \/ \E S \in SUBSET running : Expire(S)

Spec == Init /\ [][Next]_vars
=============================================================================
