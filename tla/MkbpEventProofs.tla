-------------------------- MODULE MkbpEventProofs --------------------------
(***************************************************************************)
(* For any tasks and event types: the MKBP interrupt is never left between *)
(* inactive and active, and it is active only once it has been sent for    *)
(* this activation.  Both rest on the ids that tell the activations apart. *)
(***************************************************************************)
EXTENDS MkbpEvent, TLAPS

\* The tasks that have activated the interrupt and not yet updated the state.
Activating(a) == pc[a] \in {"raise", "finish"}

\* No two of them have the same id.
IdsDistinct ==
  \A a, b \in Activators :
    Activating(a) /\ Activating(b) /\ my_id[a] = my_id[b] => a = b

\* The task whose activation is the current one has sent the interrupt, if it
\* says so.
SentByOwner ==
  \A a \in Activators :
    /\ interrupt = "INACTIVE_TO_ACTIVE"
    /\ pc[a] = "finish" /\ my_id[a] = interrupt_id /\ rv[a]
    => raised

\* The parts of the inductive invariant that are about activations.
Owned == IdsDistinct /\ TransitionOwned /\ SentByOwner /\ ActiveMeansRaised

-----------------------------------------------------------------------------
\* What the assumption says of the values that the actions assign.
LEMMA Constants ==
  /\ 0 \in Types /\ 0 \in 0 .. IDS - 1 /\ 0 \in 0 .. FAILURES
  /\ 0 \in 0 .. EC_MKBP_EVENT_COUNT
  /\ \A e \in Types : e + 1 \in 0 .. EC_MKBP_EVENT_COUNT
  /\ \A i \in 0 .. IDS - 1 : (i + 1) % IDS \in 0 .. IDS - 1
  /\ HOOKS \in Activators /\ Senders \subseteq Activators
  /\ GPIO \in BOOLEAN /\ FAILURES \in Nat
  BY MkbpAssumption DEF Types, Activators

\* The initial values have their types.
LEMMA InitType == Init => TypeOK
<1> SUFFICES ASSUME Init PROVE TypeOK
  OBVIOUS
<1>1. /\ failed_attempts \in 0 .. 2 /\ interrupt_id \in 0 .. IDS - 1
      /\ last \in 0 .. EC_MKBP_EVENT_COUNT /\ failures \in 0 .. FAILURES
      /\ my_id \in [Activators -> 0 .. IDS - 1] /\ evt \in Types
  BY Constants DEF Init
<1> QED
  BY <1>1, Zenon DEF Init, TypeOK

\* Every step keeps the types, one step of the proof for each action.
LEMMA NextType == TypeOK /\ [Next]_vars => TypeOK'
<1> SUFFICES ASSUME TypeOK, [Next]_vars PROVE TypeOK'
  OBVIOUS
<1> USE Constants DEF TypeOK, Goto, mkbp, locals, poll, ap, host_is_sleeping,
        mkbp_set_host_active
<1>1. ASSUME NEW a \in Activators, NEW E \in SUBSET Types, Enter(a, E)
      PROVE  TypeOK'
  BY <1>1 DEF Enter
<1>2. ASSUME NEW a \in Activators, Add(a) PROVE TypeOK'
  <2>1. skip_interrupt' \in [Activators -> BOOLEAN]
    BY <1>2 DEF Add
  <2>2. interrupt_id' \in 0 .. IDS - 1 /\ my_id' \in [Activators -> 0 .. IDS - 1]
    BY <1>2 DEF Add
  <2>3. owed' \subseteq Types /\ events' \subseteq Types
    BY <1>2 DEF Add
  <2>4. pc' \in [Activators -> {"idle", "force", "activate", "add", "raise",
                                "finish", "schedule"}]
    BY <1>2 DEF Add
  <2> QED
    BY <1>2, <2>1, <2>2, <2>3, <2>4 DEF Add
<1>3. ASSUME NEW a \in Activators, Raise(a) PROVE TypeOK'
  <2>1. failures' \in 0 .. FAILURES
    BY <1>3 DEF Raise
  <2>2. rv' \in [Activators -> BOOLEAN]
    BY <1>3 DEF Raise
  <2>3. line' \in BOOLEAN /\ raised' \in BOOLEAN
    BY <1>3 DEF Raise
  <2> QED
    BY <1>3, <2>1, <2>2, <2>3 DEF Raise
<1>4. ASSUME NEW a \in Activators, Finish(a) PROVE TypeOK'
  BY <1>4 DEF Finish
<1>5. ASSUME NEW a \in Activators, Schedule(a) PROVE TypeOK'
  BY <1>5 DEF Schedule
<1>6. HOOKS \in Activators /\ Senders \subseteq Activators
  OBVIOUS
<1>7. CASE CallDeferred
  BY <1>6, <1>7 DEF CallDeferred
<1>8. CASE force_mkbp_if_events
  <2>1. failed_attempts' \in 0 .. 2
    BY <1>8 DEF force_mkbp_if_events
  <2>2. interrupt' \in {"INACTIVE", "INACTIVE_TO_ACTIVE", "ACTIVE"}
    BY <1>8 DEF force_mkbp_if_events
  <2>3. raised' \in BOOLEAN
    BY <1>8 DEF force_mkbp_if_events
  <2>4. pc' \in [Activators -> {"idle", "force", "activate", "add", "raise",
                                "finish", "schedule"}]
    BY <1>6, <1>8 DEF force_mkbp_if_events
  <2> QED
    BY <1>8, <2>1, <2>2, <2>3, <2>4 DEF force_mkbp_if_events
<1>9. CASE mkbp_get_next_event
  BY <1>9 DEF mkbp_get_next_event
<1>10. CASE Take
  BY <1>10 DEF Take
<1>11. CASE GetData
  <2>1. failures' \in 0 .. FAILURES
    BY <1>11 DEF GetData
  <2>2. polling' \in BOOLEAN
    BY <1>11 DEF GetData
  <2>3. owed' \subseteq Types /\ evt' \in Types
    BY <1>11 DEF GetData
  <2>4. hc' \in {"more", "error", "repost", "idle"}
    BY <1>11 DEF GetData
  <2>5. /\ events' = events /\ interrupt' = interrupt
        /\ interrupt_id' = interrupt_id /\ failed_attempts' = failed_attempts
        /\ UNCHANGED <<mkbp_event_wake_mask, deferred, pc, locals, last, asleep,
                       line, raised>>
    BY <1>11 DEF GetData
  <2> QED
    BY <2>1, <2>2, <2>3, <2>4, <2>5
<1>12. CASE Repost
  BY <1>12 DEF Repost
<1>13. CASE set_inactive_if_no_events
  <2>1. line' \in BOOLEAN
    BY <1>13, Zenon DEF set_inactive_if_no_events
  <2>3. polling' \in BOOLEAN
    BY <1>13, Zenon DEF set_inactive_if_no_events
  <2>4. failed_attempts' \in {0, failed_attempts}
    BY <1>13, Zenon DEF set_inactive_if_no_events
  <2>2. failed_attempts' \in 0 .. 2
    BY <2>4
  <2> QED
    BY <1>13, <2>1, <2>2, <2>3 DEF set_inactive_if_no_events
<1>14. CASE CancelDeferred
  BY <1>14 DEF CancelDeferred
<1>15. CASE \E m \in WakeMasks : hc_mkbp_wake_mask(m)
  BY <1>15 DEF hc_mkbp_wake_mask
<1>16. CASE React \/ Miss \/ Suspend \/ Resume
  <2>1. line' \in BOOLEAN
    BY <1>16, Zenon DEF React, Miss, Suspend, Resume
  <2>2. failures' \in 0 .. FAILURES
    BY <1>16 DEF React, Miss, Suspend, Resume
  <2>3. asleep' \in BOOLEAN /\ polling' \in BOOLEAN
    BY <1>16, Zenon DEF React, Miss, Suspend, Resume
  <2>4. UNCHANGED <<mkbp, mkbp_event_wake_mask, deferred, pc, locals, poll,
                    owed, raised>>
    BY <1>16, Zenon DEF React, Miss, Suspend, Resume
  <2> QED
    BY <2>1, <2>2, <2>3, <2>4
<1>17. CASE UNCHANGED vars
  BY <1>17 DEF vars
<1> QED
  BY <1>1, <1>2, <1>3, <1>4, <1>5, <1>6, <1>7, <1>8, <1>9, <1>10, <1>11,
     <1>12, <1>13, <1>14, <1>15, <1>16, <1>17
  DEF Next, activate_mkbp_with_events, HostCommand, mkbp_send_event,
      ForceActivate

-----------------------------------------------------------------------------
\* A step that activates nothing, ends no activation and sends no interrupt
\* may only make the interrupt inactive.
LEMMA Deactivation ==
  ASSUME TypeOK, Owned,
         my_id' = my_id, rv' = rv, interrupt_id' = interrupt_id,
         \A a \in Activators : Activating(a)' <=> Activating(a),
         \A a \in Activators : pc'[a] = "finish" <=> pc[a] = "finish",
         \/ interrupt' = "INACTIVE"
         \/ interrupt' = interrupt /\ raised' = raised
  PROVE  Owned'
<1>1. IdsDistinct'
  BY DEF Owned, IdsDistinct, Activating
<1>2. CASE interrupt' = "INACTIVE"
  BY <1>1, <1>2 DEF Owned, TransitionOwned, SentByOwner, ActiveMeansRaised
<1>3. CASE interrupt' = interrupt /\ raised' = raised
  <2>1. TransitionOwned'
    BY <1>3 DEF Owned, TransitionOwned, Activating
  <2>2. SentByOwner'
    BY <1>3 DEF Owned, SentByOwner
  <2>3. ActiveMeansRaised'
    BY <1>3 DEF Owned, ActiveMeansRaised
  <2> QED
    BY <1>1, <2>1, <2>2, <2>3 DEF Owned
<1> QED
  BY <1>2, <1>3

\* The id of a new activation is no other task's, so that whatever an older
\* activation still does is not taken for the new one's.
LEMMA AddOwned ==
  ASSUME TypeOK, Owned, NEW a \in Activators, Add(a)
  PROVE  Owned'
<1>1. CASE pc' = [pc EXCEPT ![a] = "idle"] /\ UNCHANGED <<interrupt, interrupt_id, my_id>>
  BY <1>1, Deactivation DEF Add, TypeOK, Activating
<1>2. CASE /\ interrupt' = "INACTIVE_TO_ACTIVE"
           /\ \A b \in Activators : Activating(b) => my_id[b] # interrupt_id'
           /\ my_id' = [my_id EXCEPT ![a] = interrupt_id']
           /\ pc' = [pc EXCEPT ![a] = "raise"]
  <2>1. IdsDistinct'
    BY <1>2 DEF Owned, IdsDistinct, Activating, TypeOK
  <2>2. TransitionOwned'
    BY <1>2 DEF TransitionOwned, TypeOK
  <2>3. SentByOwner'
    BY <1>2 DEF SentByOwner, Activating, TypeOK
  <2> QED
    BY <1>2, <2>1, <2>2, <2>3 DEF Owned, ActiveMeansRaised
<1> QED
  BY <1>1, <1>2 DEF Add, Goto, Activating

\* An interrupt that was sent was sent for the current activation too; one
\* that was not is known to its task.
LEMMA RaiseOwned ==
  ASSUME TypeOK, Owned, NEW a \in Activators, Raise(a)
  PROVE  Owned'
<1> USE DEF mkbp_set_host_active
<1>1. /\ pc[a] = "raise" /\ pc' = [pc EXCEPT ![a] = "finish"]
      /\ UNCHANGED <<my_id, interrupt, interrupt_id>>
  BY DEF Raise, Goto, mkbp
<1>2. \/ raised' = TRUE
      \/ rv' = [rv EXCEPT ![a] = FALSE] /\ raised' = raised
  BY DEF Raise
<1>3. \A b \in Activators : b # a => rv'[b] = rv[b]
  BY DEF Raise, TypeOK
<1>4. IdsDistinct'
  BY <1>1 DEF Owned, IdsDistinct, Activating, TypeOK
<1>5. TransitionOwned'
  BY <1>1 DEF Owned, TransitionOwned, TypeOK
<1>6. SentByOwner'
  <2>1. CASE raised' = TRUE
    BY <2>1 DEF SentByOwner
  <2>2. CASE rv' = [rv EXCEPT ![a] = FALSE] /\ raised' = raised
    <3>1. \A b \in Activators : rv'[b] => b # a /\ rv[b]
      BY <2>2, <1>3 DEF TypeOK
    <3>2. \A b \in Activators : b # a => pc'[b] = pc[b]
      BY <1>1 DEF TypeOK
    <3> QED
      BY <1>1, <2>2, <3>1, <3>2, Zenon DEF Owned, SentByOwner
  <2> QED
    BY <1>2, <2>1, <2>2
<1>7. ActiveMeansRaised'
  <2>1. raised' = TRUE \/ raised' = raised
    BY <1>2
  <2> QED
    BY <1>1, <2>1, Zenon DEF Owned, ActiveMeansRaised
<1> QED
  BY <1>4, <1>5, <1>6, <1>7 DEF Owned

\* Only the task of the current activation makes the interrupt active.
LEMMA FinishOwned ==
  ASSUME TypeOK, Owned, NEW a \in Activators, Finish(a)
  PROVE  Owned'
<1>1. /\ pc[a] = "finish" /\ ~Activating(a)'
      /\ my_id' = [my_id EXCEPT ![a] = 0] /\ rv' = [rv EXCEPT ![a] = FALSE]
      /\ UNCHANGED <<interrupt_id, raised>>
      /\ \A b \in Activators : b # a => pc'[b] = pc[b]
  BY DEF Finish, Goto, TypeOK, Activating
<1>2. \A b \in Activators : b # a => my_id'[b] = my_id[b] /\ rv'[b] = rv[b]
  BY <1>1 DEF TypeOK
<1>3. IdsDistinct'
  BY <1>1, <1>2 DEF Owned, IdsDistinct, Activating
<1>4. CASE interrupt = "INACTIVE_TO_ACTIVE" /\ my_id[a] = interrupt_id
  <2>1. interrupt' = IF rv[a] THEN "ACTIVE" ELSE "INACTIVE"
    BY <1>4 DEF Finish
  <2>2. ActiveMeansRaised'
    BY <1>1, <1>4, <2>1 DEF Owned, SentByOwner, ActiveMeansRaised
  <2> QED
    BY <1>3, <2>1, <2>2 DEF Owned, TransitionOwned, SentByOwner
<1>5. CASE ~(interrupt = "INACTIVE_TO_ACTIVE" /\ my_id[a] = interrupt_id)
  <2>1. interrupt' = interrupt
    BY <1>5 DEF Finish
  <2>2. TransitionOwned'
    BY <1>1, <1>2, <1>5, <2>1 DEF Owned, TransitionOwned, Activating
  <2>3. SentByOwner'
    BY <1>1, <1>2, <2>1 DEF Owned, SentByOwner, Activating
  <2>4. ActiveMeansRaised'
    BY <1>1, <2>1 DEF Owned, ActiveMeansRaised
  <2> QED
    BY <1>3, <2>2, <2>3, <2>4 DEF Owned
<1> QED
  BY <1>4, <1>5

\* Every step keeps the activations apart.
LEMMA NextOwned == TypeOK /\ Owned /\ [Next]_vars => Owned'
<1> SUFFICES ASSUME TypeOK, Owned, [Next]_vars PROVE Owned'
  OBVIOUS
<1> USE DEF Goto, mkbp, locals
<1>1. ASSUME NEW a \in Activators, NEW E, Enter(a, E), pc[a] \in {"idle", "activate"}
      PROVE  Owned'
  BY <1>1, Deactivation DEF Enter, TypeOK, Activating
<1>2. ASSUME NEW a \in Activators, Schedule(a) PROVE Owned'
  BY <1>2, Deactivation DEF Schedule, TypeOK, Activating
<1>3. HOOKS \in Activators /\ Senders \subseteq Activators
  BY Constants
<1>4. CASE CallDeferred
  BY <1>3, <1>4, Deactivation DEF CallDeferred, TypeOK, Activating
<1>5. CASE force_mkbp_if_events
  <2>1. /\ pc[HOOKS] = "force"
        /\ \/ pc' = [pc EXCEPT ![HOOKS] = "activate"]
           \/ pc' = [pc EXCEPT ![HOOKS] = "idle"]
        /\ \/ interrupt' = "INACTIVE"
           \/ interrupt' = interrupt /\ raised' = raised
        /\ UNCHANGED <<my_id, rv, interrupt_id>>
    BY <1>5 DEF force_mkbp_if_events
  <2> QED
    BY <1>3, <2>1, Deactivation DEF TypeOK, Activating
<1>6. CASE mkbp_get_next_event \/ Take \/ GetData \/ Repost \/ CancelDeferred
  BY <1>6, Deactivation DEF mkbp_get_next_event, Take, GetData, Repost,
     CancelDeferred, Activating
<1>7. CASE set_inactive_if_no_events
  BY <1>7, Deactivation DEF set_inactive_if_no_events, Activating
<1>8. CASE \E m \in WakeMasks : hc_mkbp_wake_mask(m)
  BY <1>8, Deactivation DEF hc_mkbp_wake_mask, Activating
<1>9. CASE React \/ Miss \/ Suspend \/ Resume
  BY <1>9, Deactivation DEF React, Miss, Suspend, Resume, Activating
<1>10. CASE UNCHANGED vars
  BY <1>10, Deactivation DEF vars, Activating
<1> QED
  BY <1>1, <1>2, <1>3, <1>4, <1>5, <1>6, <1>7, <1>8, <1>9, <1>10, AddOwned,
     RaiseOwned, FinishOwned
  DEF Next, activate_mkbp_with_events, HostCommand, mkbp_send_event,
      ForceActivate

-----------------------------------------------------------------------------
\* The inductive invariant of activate_mkbp_with_events() and of what may
\* deactivate the interrupt meanwhile.
THEOREM MkbpInvariance == Spec => [](TypeOK /\ Owned)
<1>1. Init => TypeOK /\ Owned
  BY InitType, Zenon DEF Init, Owned, IdsDistinct, TransitionOwned, SentByOwner,
     ActiveMeansRaised, Activating
<1>2. TypeOK /\ Owned /\ [Next]_vars => (TypeOK /\ Owned)'
  BY NextType, NextOwned
<1> QED
  BY <1>1, <1>2, PTL DEF Spec

\* Every variable of mkbp_event.c keeps its type; in particular the attempts
\* of force_mkbp_if_events() stay below three.
THEOREM MkbpTypeCorrect == Spec => []TypeOK
  BY MkbpInvariance, PTL

\* The interrupt is never left between inactive and active, however many tasks
\* are preempted within activate_mkbp_with_events().
THEOREM ActivationOwned == Spec => []TransitionOwned
<1>1. Owned => TransitionOwned
  BY DEF Owned
<1> QED
  BY <1>1, MkbpInvariance, PTL

\* The interrupt is active only once it has been sent for this activation: a
\* task that returns late never reports an older one.
THEOREM ActiveRaised == Spec => []ActiveMeansRaised
<1>1. Owned => ActiveMeansRaised
  BY DEF Owned
<1> QED
  BY <1>1, MkbpInvariance, PTL

-----------------------------------------------------------------------------
(* The round-robin search                                                  *)

\* A number below twice the modulus.
LEMMA Wrapped ==
  ASSUME NEW n \in Nat \ {0}, NEW x \in 0 .. 2 * n - 1
  PROVE  x % n = IF x < n THEN x ELSE x - n
<1> DEFINE q == x \div n
           r == x % n
<1>1. q \in Nat /\ r \in 0 .. n - 1 /\ x = n * q + r
  OBVIOUS
<1> HIDE DEF q, r
<1>2. q >= 2 => n * q >= 2 * n
  BY <1>1
<1>3. q = 0 \/ q = 1
  BY <1>1, <1>2
<1>4. r = IF x < n THEN x ELSE x - n
  BY <1>1, <1>3
<1> QED
  BY <1>4 DEF r

\* The search goes up from `from' and round.
LEMMA DistanceValue ==
  ASSUME NEW e \in Types, NEW from \in 0 .. EC_MKBP_EVENT_COUNT
  PROVE  /\ Distance(e, from) \in Nat
         /\ Distance(e, from) = IF from <= e THEN e - from
                                ELSE e + EC_MKBP_EVENT_COUNT - from
<1> DEFINE n == EC_MKBP_EVENT_COUNT
           x == e + n - from
<1>1. n \in Nat \ {0} /\ e \in Nat /\ e < n /\ from \in Nat /\ from <= n
  BY MkbpAssumption DEF Types
<1>2. x \in 0 .. 2 * n - 1 /\ x = e + n - from
  BY <1>1
<1>3. Distance(e, from) = x % n
  BY DEF Distance
<1> HIDE DEF n, x
<1>4. x % n = IF x < n THEN x ELSE x - n
  BY <1>1, <1>2, Wrapped
<1>5. /\ x % n \in Nat
      /\ x % n = IF from <= e THEN e - from ELSE e + n - from
  BY <1>1, <1>2, <1>4
<1> QED
  BY <1>3, <1>5 DEF n

\* A search that finds e first ends closer to every other event.
LEMMA SearchCloser ==
  ASSUME NEW e \in Types, NEW f \in Types, f # e,
         NEW from \in 0 .. EC_MKBP_EVENT_COUNT,
         Distance(e, from) <= Distance(f, from)
  PROVE  Distance(f, e + 1) < Distance(f, from)
<1> DEFINE n == EC_MKBP_EVENT_COUNT
<1>1. /\ n \in Nat \ {0} /\ e \in Nat /\ f \in Nat /\ from \in Nat
      /\ e < n /\ f < n /\ from <= n /\ e + 1 \in 0 .. n
  BY MkbpAssumption DEF Types
<1>2. Distance(e, from) = IF from <= e THEN e - from ELSE e + n - from
  BY DistanceValue
<1>3. Distance(f, from) = IF from <= f THEN f - from ELSE f + n - from
  BY DistanceValue
<1>4. Distance(f, e + 1) = IF e + 1 <= f THEN f - (e + 1) ELSE f + n - (e + 1)
  BY <1>1, DistanceValue
<1> HIDE DEF n
<1> QED
  BY <1>1, <1>2, <1>3, <1>4

\* No event is passed over for ever: whatever is set meanwhile, every search
\* that finds another event ends closer to those that stay pending.
THEOREM RoundRobin == Spec => NoStarvation
<1> DEFINE Closer ==
      \A e \in events \cap events' :
        hc = "take" /\ hc' = "data" => Distance(e, last)' < Distance(e, last)
<1>1. TypeOK /\ [Next]_vars => [Closer]_vars
  <2> SUFFICES ASSUME TypeOK, Next, hc = "take", hc' = "data",
                      NEW e \in events \cap events'
               PROVE  Distance(e, last)' < Distance(e, last)
    OBVIOUS
  <2>1. Take
    <3>1. hc' # hc
      OBVIOUS
    <3>2. ASSUME NEW a \in Activators, NEW E, Enter(a, E) PROVE FALSE
      BY <3>1, <3>2 DEF Enter, poll
    <3>3. ASSUME NEW a \in Activators, activate_mkbp_with_events(a)
          PROVE  FALSE
      BY <3>1, <3>3 DEF activate_mkbp_with_events, Add, Raise, Finish,
                        Schedule, poll
    <3>4. ~CallDeferred /\ ~force_mkbp_if_events
      BY <3>1 DEF CallDeferred, force_mkbp_if_events, poll
    <3>5. ASSUME NEW mask \in WakeMasks, hc_mkbp_wake_mask(mask) PROVE FALSE
      BY <3>1, <3>5 DEF hc_mkbp_wake_mask, poll
    <3>6. ~React /\ ~Miss /\ ~Suspend /\ ~Resume
      BY <3>1 DEF React, Miss, Suspend, Resume, poll
    <3>7. HostCommand
      BY <3>2, <3>3, <3>4, <3>5, <3>6, Constants
         DEF Next, mkbp_send_event, ForceActivate
    <3> QED
      BY <3>7 DEF HostCommand, mkbp_get_next_event, GetData, Repost,
                  set_inactive_if_no_events, CancelDeferred
  <2>2. PICK c \in events : /\ IsNext(c, events, last)
                            /\ events' = events \ {c} /\ last' = c + 1
    BY <2>1 DEF Take
  <2>3. /\ c \in Types /\ e \in Types /\ e # c
        /\ last \in 0 .. EC_MKBP_EVENT_COUNT
        /\ Distance(c, last) <= Distance(e, last)
    BY <2>2 DEF TypeOK, IsNext
  <2>4. Distance(e, c + 1) < Distance(e, last)
    BY <2>3, SearchCloser
  <2>5. Distance(e, last)' = Distance(e, c + 1)
    BY <2>2 DEF Distance
  <2> QED
    BY <2>4, <2>5
<1> QED
  BY <1>1, MkbpTypeCorrect, PTL DEF Spec, NoStarvation
=============================================================================
