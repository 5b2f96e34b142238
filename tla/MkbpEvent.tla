----------------------------- MODULE MkbpEvent -----------------------------
(***************************************************************************)
(* common/mkbp_event.c: events for the host (AP), announced by an          *)
(* interrupt and fetched with the host command EC_CMD_GET_NEXT_EVENT.      *)
(*                                                                         *)
(* Any task sends events; the hook task calls force_mkbp_if_events() when  *)
(* the deferred call that guards every interrupt comes due; the host       *)
(* command task answers the AP.  The configuration is that with            *)
(* CONFIG_MKBP_EVENT_WAKEUP_MASK; the interrupt is a GPIO, or a message    *)
(* that may fail to be sent or be missed (host event, HECI).               *)
(*                                                                         *)
(* All of `state' is accessed under state.lock, so that a critical section *)
(* is one step; tasks interleave in any order between them.  The deferred  *)
(* call may come at any moment: it is only known to come (Hooks.tla).      *)
(***************************************************************************)
EXTENDS Naturals

CONSTANTS
  EC_MKBP_EVENT_COUNT,
  Senders,    \* the tasks that call mkbp_send_event()
  HOOKS,      \* the hook task
  Sources,    \* the types in __mkbp_evt_srcs
  WakeMasks,  \* the values the host gives to mkbp_event_wake_mask
  GPIO,       \* is the interrupt a level (CONFIG_MKBP_USE_GPIO)?
  SLEEPS,     \* does the AP sleep?
  IDS,        \* number of values of interrupt_id, a uint8_t; bound: fewer
              \* activations come while a task is within its own
  FAILURES    \* bound: the interrupts that cannot be sent or that the AP misses,
              \* and the errors of get_data()

Types == 0 .. EC_MKBP_EVENT_COUNT - 1
EC_MKBP_EVENT_KEY_MATRIX == 0
Activators == Senders \cup {HOOKS}

ASSUME MkbpAssumption ==
  /\ EC_MKBP_EVENT_COUNT \in Nat \ {0}
  /\ HOOKS \notin Senders /\ Sources \subseteq Types
  /\ WakeMasks \subseteq SUBSET Types /\ WakeMasks # {}
  /\ GPIO \in BOOLEAN /\ SLEEPS \in BOOLEAN
  /\ IDS \in Nat \ {0}
  /\ FAILURES \in Nat

VARIABLES
  \* struct mkbp_state
  events, interrupt, interrupt_id, failed_attempts,
  mkbp_event_wake_mask,
  deferred,             \* force_mkbp_if_events() is to be called
  \* activate_mkbp_with_events(): where each task is, and its locals
  pc, events_to_add, skip_interrupt, my_id, rv,
  \* mkbp_get_next_event(): where the host command task is, `last' and `evt'
  hc, last, evt,
  \* the AP: does it sleep, has it an interrupt to react to, is it polling
  asleep, line, polling,
  failures,             \* interrupts lost, and errors of get_data(), so far
  owed,                 \* history: the events the AP is to be told of
  raised                \* history: an interrupt was sent for this activation

mkbp == <<events, interrupt, interrupt_id, failed_attempts>>
locals == <<events_to_add, skip_interrupt, my_id, rv>>
poll == <<hc, last, evt>>
ap == <<asleep, line, polling, failures>>
vars == <<mkbp, mkbp_event_wake_mask, deferred, pc, locals, poll, ap, owed,
          raised>>

TypeOK ==
  /\ events \subseteq Types
  /\ interrupt \in {"INACTIVE", "INACTIVE_TO_ACTIVE", "ACTIVE"}
  /\ interrupt_id \in 0 .. IDS - 1 /\ failed_attempts \in 0 .. 2
  /\ mkbp_event_wake_mask \in WakeMasks /\ deferred \in BOOLEAN
  /\ pc \in [Activators -> {"idle", "force", "activate", "add", "raise",
                            "finish", "schedule"}]
  /\ events_to_add \in [Activators -> SUBSET Types]
  /\ skip_interrupt \in [Activators -> BOOLEAN]
  /\ my_id \in [Activators -> 0 .. IDS - 1]
  /\ rv \in [Activators -> BOOLEAN]
  /\ hc \in {"idle", "take", "empty", "data", "repost", "more", "error",
             "cancel"}
  /\ last \in 0 .. EC_MKBP_EVENT_COUNT /\ evt \in Types
  /\ asleep \in BOOLEAN /\ line \in BOOLEAN /\ polling \in BOOLEAN
  /\ failures \in 0 .. FAILURES
  /\ owed \subseteq Types /\ raised \in BOOLEAN

Init ==
  /\ events = {} /\ interrupt = "INACTIVE" /\ interrupt_id = 0
  /\ failed_attempts = 0 /\ deferred = FALSE
  /\ mkbp_event_wake_mask \in WakeMasks
  /\ pc = [a \in Activators |-> "idle"]
  /\ events_to_add = [a \in Activators |-> {}]
  /\ skip_interrupt = [a \in Activators |-> FALSE]
  /\ my_id = [a \in Activators |-> 0] /\ rv = [a \in Activators |-> FALSE]
  /\ hc = "idle" /\ last = 0 /\ evt = 0
  /\ asleep = FALSE /\ line = FALSE /\ polling = FALSE /\ failures = 0
  /\ owed = {} /\ raised = FALSE

Goto(a, label) == pc' = [pc EXCEPT ![a] = label]

-----------------------------------------------------------------------------
(* activate_mkbp_with_events()                                             *)

host_is_sleeping == asleep

\* "Check to see if this MKBP event should wake the system."
Enter(a, E) ==
  /\ events_to_add' = [events_to_add EXCEPT ![a] = E]
  /\ skip_interrupt' = [skip_interrupt EXCEPT ![a] =
                          host_is_sleeping /\ E \cap mkbp_event_wake_mask = {}]
  /\ Goto(a, "add")
  /\ UNCHANGED <<mkbp, mkbp_event_wake_mask, deferred, my_id, rv, poll, ap,
                 owed, raised>>

mkbp_send_event(s, e) == pc[s] = "idle" /\ Enter(s, {e})

\* The first critical section.  Only an inactive interrupt is activated.
Add(a) ==
  /\ pc[a] = "add"
  /\ events' = events \cup events_to_add[a]
  /\ LET skip == skip_interrupt[a] /\ EC_MKBP_EVENT_KEY_MATRIX \notin events'
     IN  /\ owed' = IF skip THEN owed ELSE owed \cup events_to_add[a]
         /\ IF events' # {} /\ interrupt = "INACTIVE" /\ ~skip
            THEN /\ interrupt' = "INACTIVE_TO_ACTIVE"
                 /\ interrupt_id' = (interrupt_id + 1) % IDS
                 /\ \A b \in Activators :
                      pc[b] \in {"raise", "finish"} => my_id[b] # interrupt_id'
                 /\ my_id' = [my_id EXCEPT ![a] = interrupt_id']
                 /\ Goto(a, "raise")
            ELSE /\ Goto(a, "idle")
                 /\ UNCHANGED <<interrupt, interrupt_id, my_id>>
  /\ events_to_add' = [events_to_add EXCEPT ![a] = {}]
  /\ skip_interrupt' = [skip_interrupt EXCEPT ![a] = FALSE]
  /\ UNCHANGED <<failed_attempts, mkbp_event_wake_mask, deferred, rv, poll, ap,
                 raised>>

\* Mutant of Raise: an interrupt that cannot be sent ends the call.
Raise_return(a) ==
  /\ pc[a] = "raise"
  /\ \/ /\ rv' = [rv EXCEPT ![a] = TRUE]
        /\ line' = TRUE /\ raised' = TRUE
        /\ Goto(a, "finish")
        /\ UNCHANGED failures
     \/ /\ ~GPIO /\ failures < FAILURES
        /\ failures' = failures + 1
        /\ Goto(a, "idle")
        /\ UNCHANGED <<rv, line, raised>>
  /\ UNCHANGED <<mkbp, mkbp_event_wake_mask, deferred, events_to_add,
                 skip_interrupt, my_id, poll, asleep, polling, owed>>

\* mkbp_set_host_active(1), which fails only if the interrupt is a message.
mkbp_set_host_active(a) ==
  \/ /\ rv' = [rv EXCEPT ![a] = TRUE]
     /\ line' = TRUE /\ raised' = TRUE
     /\ UNCHANGED failures
  \/ /\ ~GPIO /\ failures < FAILURES
     /\ rv' = [rv EXCEPT ![a] = FALSE]
     /\ failures' = failures + 1
     /\ UNCHANGED <<line, raised>>

\* "Send a rising edge MKBP interrupt"
Raise(a) ==
  /\ pc[a] = "raise"
  /\ mkbp_set_host_active(a)
  /\ Goto(a, "finish")
  /\ UNCHANGED <<mkbp, mkbp_event_wake_mask, deferred, events_to_add,
                 skip_interrupt, my_id, poll, asleep, polling, owed>>

\* Mutant of Finish: it is not checked that this was the last activation.
Finish_any(a) ==
  /\ pc[a] = "finish"
  /\ IF interrupt = "INACTIVE_TO_ACTIVE"
     THEN /\ interrupt' = IF rv[a] THEN "ACTIVE" ELSE "INACTIVE"
          /\ Goto(a, "schedule")
     ELSE Goto(a, "idle") /\ UNCHANGED interrupt
  /\ my_id' = [my_id EXCEPT ![a] = 0] /\ rv' = [rv EXCEPT ![a] = FALSE]
  /\ UNCHANGED <<events, interrupt_id, failed_attempts, mkbp_event_wake_mask,
                 deferred, events_to_add, skip_interrupt, poll, ap, owed,
                 raised>>

\* "If this was the last interrupt to the AP, update state"
Finish(a) ==
  /\ pc[a] = "finish"
  /\ IF interrupt = "INACTIVE_TO_ACTIVE" /\ my_id[a] = interrupt_id
     THEN /\ interrupt' = IF rv[a] THEN "ACTIVE" ELSE "INACTIVE"
          /\ Goto(a, "schedule")
     ELSE Goto(a, "idle") /\ UNCHANGED interrupt
  /\ my_id' = [my_id EXCEPT ![a] = 0] /\ rv' = [rv EXCEPT ![a] = FALSE]
  /\ UNCHANGED <<events, interrupt_id, failed_attempts, mkbp_event_wake_mask,
                 deferred, events_to_add, skip_interrupt, poll, ap, owed,
                 raised>>

\* hook_call_deferred(&force_mkbp_if_events_data, SECOND)
Schedule(a) ==
  /\ pc[a] = "schedule"
  /\ deferred' = TRUE
  /\ Goto(a, "idle")
  /\ UNCHANGED <<mkbp, mkbp_event_wake_mask, locals, poll, ap, owed, raised>>

-----------------------------------------------------------------------------
(* force_mkbp_if_events()                                                  *)

CallDeferred ==
  /\ pc[HOOKS] = "idle" /\ deferred
  /\ deferred' = FALSE
  /\ Goto(HOOKS, "force")
  /\ UNCHANGED <<mkbp, mkbp_event_wake_mask, locals, poll, ap, owed, raised>>

\* Mutant of force_mkbp_if_events: the attempts are not counted anew for the
\* events to come.
force_no_reset ==
  /\ pc[HOOKS] = "force"
  /\ IF interrupt = "ACTIVE"
     THEN /\ interrupt' = "INACTIVE" /\ raised' = FALSE
          /\ failed_attempts' = failed_attempts + 1
          /\ Goto(HOOKS, IF failed_attempts + 1 < 3 THEN "activate" ELSE "idle")
     ELSE /\ Goto(HOOKS, IF interrupt = "INACTIVE" THEN "activate" ELSE "idle")
          /\ UNCHANGED <<interrupt, failed_attempts, raised>>
  /\ UNCHANGED <<events, interrupt_id, mkbp_event_wake_mask, deferred, locals,
                 poll, ap, owed>>

\* Inactive: "EC failed to send MKBP interrupt to AP", send it again without
\* limits.  Active: "AP failed to respond", send it again up to 3 times.
force_mkbp_if_events ==
  /\ pc[HOOKS] = "force"
  /\ CASE interrupt = "INACTIVE" ->
            /\ Goto(HOOKS, "activate")
            /\ UNCHANGED <<interrupt, failed_attempts, raised>>
       [] interrupt = "ACTIVE" ->
            /\ interrupt' = "INACTIVE" /\ raised' = FALSE
            /\ IF failed_attempts + 1 < 3
               THEN /\ failed_attempts' = failed_attempts + 1
                    /\ Goto(HOOKS, "activate")
               ELSE /\ failed_attempts' = 0
                    /\ Goto(HOOKS, "idle")
       [] OTHER ->
            /\ Goto(HOOKS, "idle")
            /\ UNCHANGED <<interrupt, failed_attempts, raised>>
  /\ UNCHANGED <<events, interrupt_id, mkbp_event_wake_mask, deferred, locals,
                 poll, ap, owed>>

\* activate_mkbp_with_events(0)
ForceActivate == pc[HOOKS] = "activate" /\ Enter(HOOKS, {})

-----------------------------------------------------------------------------
(* The AP                                                                  *)

\* It reacts to the interrupt and polls until it is told there is no more.
React ==
  /\ line /\ ~polling
  /\ polling' = TRUE /\ asleep' = FALSE /\ line' = GPIO
  /\ UNCHANGED <<mkbp, mkbp_event_wake_mask, deferred, pc, locals, poll,
                 failures, owed, raised>>

\* It misses an interrupt.
Miss ==
  /\ line /\ ~GPIO /\ failures < FAILURES
  /\ line' = FALSE /\ failures' = failures + 1
  /\ UNCHANGED <<mkbp, mkbp_event_wake_mask, deferred, pc, locals, poll, asleep,
                 polling, owed, raised>>

Suspend ==
  /\ SLEEPS /\ ~asleep /\ ~polling
  /\ asleep' = TRUE
  /\ UNCHANGED <<mkbp, mkbp_event_wake_mask, deferred, pc, locals, poll, line,
                 polling, failures, owed, raised>>

\* It wakes up for another reason.
Resume ==
  /\ asleep
  /\ asleep' = FALSE
  /\ UNCHANGED <<mkbp, mkbp_event_wake_mask, deferred, pc, locals, poll, line,
                 polling, failures, owed, raised>>

-----------------------------------------------------------------------------
(* The host command task                                                   *)

\* EC_CMD_MKBP_WAKE_MASK
hc_mkbp_wake_mask(mask) ==
  /\ hc = "idle" /\ ~asleep
  /\ mkbp_event_wake_mask' = mask
  /\ UNCHANGED <<mkbp, deferred, pc, locals, poll, ap, owed, raised>>

\* EC_CMD_GET_NEXT_EVENT
mkbp_get_next_event ==
  /\ hc = "idle" /\ polling
  /\ hc' = "take"
  /\ UNCHANGED <<mkbp, mkbp_event_wake_mask, deferred, pc, locals, last, evt,
                 ap, owed, raised>>

\* How far a search that starts at `from' is from event e.
Distance(e, from) == (e + EC_MKBP_EVENT_COUNT - from) % EC_MKBP_EVENT_COUNT

\* Mutant of IsNext: the search starts at the event returned last.
IsNext_same(e, S, from) ==
  \A f \in S : Distance(e, from - 1) <= Distance(f, from - 1)

\* e is the event of S that the search finds first.
IsNext(e, S, from) == \A f \in S : Distance(e, from) <= Distance(f, from)

\* take_event_if_set(), round-robin, in a critical section.
Take ==
  /\ hc = "take"
  /\ IF events = {}
     THEN /\ hc' = "empty"
          /\ UNCHANGED <<events, last, evt>>
     ELSE /\ \E e \in events :
               /\ IsNext(e, events, last)
               /\ evt' = e
               /\ events' = events \ {e}
               /\ last' = e + 1
          /\ hc' = "data"
  /\ UNCHANGED <<interrupt, interrupt_id, failed_attempts, mkbp_event_wake_mask,
                 deferred, pc, locals, ap, owed, raised>>

\* src->get_data(): the data; an error, as when the keyboard FIFO is empty; or
\* busy, when the first element of the FIFO belongs to another event, which
\* then is pending.  Without a source the AP gets an error at once and stops
\* polling.
GetData ==
  /\ hc = "data"
  /\ \/ /\ evt \in Sources
        /\ hc' = "more" /\ owed' = owed \ {evt} /\ evt' = 0
        /\ UNCHANGED <<polling, failures>>
     \/ /\ evt \in Sources /\ failures < FAILURES
        /\ hc' = "error" /\ owed' = owed \ {evt} /\ evt' = 0
        /\ failures' = failures + 1
        /\ UNCHANGED polling
     \/ /\ evt \in Sources /\ events # {}
        /\ hc' = "repost"
        /\ UNCHANGED <<owed, evt, polling, failures>>
     \/ /\ evt \notin Sources
        /\ hc' = "idle" /\ owed' = owed \ {evt} /\ evt' = 0
        /\ polling' = FALSE
        /\ UNCHANGED failures
  /\ UNCHANGED <<mkbp, mkbp_event_wake_mask, deferred, pc, locals, last, asleep,
                 line, raised>>

\* -EC_ERROR_BUSY: state.events |= BIT(evt), and the loop goes on.
Repost ==
  /\ hc = "repost"
  /\ events' = events \cup {evt} /\ evt' = 0
  /\ hc' = "take"
  /\ UNCHANGED <<interrupt, interrupt_id, failed_attempts, mkbp_event_wake_mask,
                 deferred, pc, locals, last, ap, owed, raised>>

\* Mutant of set_inactive_if_no_events: no look at the events, which may have
\* been set since they were found empty.
set_inactive_anyway ==
  /\ hc \in {"empty", "more", "error"}
  /\ interrupt' = "INACTIVE" /\ failed_attempts' = 0
  /\ line' = (line /\ ~GPIO) /\ raised' = FALSE
  /\ hc' = "cancel"
  /\ UNCHANGED <<events, interrupt_id, mkbp_event_wake_mask, deferred, pc,
                 locals, last, evt, asleep, polling, failures, owed>>

\* The critical section of set_inactive_if_no_events(), called when no event
\* was found, or after one was: the AP is told that there is no more, or
\* else the search is resumed, or the answer says that there is more.  After
\* an error of get_data() the answer is EC_RES_ERROR, and the AP stops polling
\* though there may be more.
set_inactive_if_no_events ==
  /\ hc \in {"empty", "more", "error"}
  /\ IF events = {}
     THEN /\ interrupt' = "INACTIVE" /\ failed_attempts' = 0
          /\ line' = (line /\ ~GPIO) /\ raised' = FALSE
          /\ hc' = "cancel"
          /\ UNCHANGED polling
     ELSE /\ hc' = IF hc = "empty" THEN "take" ELSE "idle"
          /\ polling' = IF hc = "error" THEN FALSE ELSE polling
          /\ UNCHANGED <<interrupt, failed_attempts, line, raised>>
  /\ UNCHANGED <<events, interrupt_id, mkbp_event_wake_mask, deferred, pc,
                 locals, last, evt, asleep, failures, owed>>

\* "Cancel our safety net since the events were cleared", and answer the AP.
CancelDeferred ==
  /\ hc = "cancel"
  /\ deferred' = FALSE
  /\ hc' = "idle" /\ polling' = FALSE
  /\ UNCHANGED <<mkbp, mkbp_event_wake_mask, pc, locals, last, evt, asleep,
                 line, failures, owed, raised>>

-----------------------------------------------------------------------------
activate_mkbp_with_events(a) ==
  Add(a) \/ Raise(a) \/ Finish(a) \/ Schedule(a)

HostCommand ==
  \/ mkbp_get_next_event \/ Take \/ GetData \/ Repost
  \/ set_inactive_if_no_events \/ CancelDeferred

Next ==
  \/ \E s \in Senders, e \in Types : mkbp_send_event(s, e)
  \/ \E a \in Activators : activate_mkbp_with_events(a)
  \/ CallDeferred \/ force_mkbp_if_events \/ ForceActivate
  \/ HostCommand
  \/ \E mask \in WakeMasks : hc_mkbp_wake_mask(mask)
  \/ React \/ Miss \/ Suspend \/ Resume

Spec == Init /\ [][Next]_vars

\* Every task gets to run, and the AP reacts to the interrupts it sees; data
\* that is not ready now is ready some time.
FairSpec ==
  /\ Spec
  /\ \A a \in Activators : WF_vars(activate_mkbp_with_events(a))
  /\ WF_vars(CallDeferred \/ force_mkbp_if_events \/ ForceActivate)
  /\ WF_vars(HostCommand) /\ WF_vars(React)
  /\ \A e \in Types : SF_vars(GetData /\ evt = e /\ hc' = "more")

-----------------------------------------------------------------------------
(* Properties                                                              *)

\* An activation under way is some task's: the interrupt never stays between
\* inactive and active, where no event would activate it any more.
TransitionOwned ==
  interrupt = "INACTIVE_TO_ACTIVE" =>
    \E a \in Activators :
      pc[a] \in {"raise", "finish"} /\ my_id[a] = interrupt_id

\* "The active state represents that a rising edge interrupt has already been
\* sent to the AP": sent for this activation, not for an earlier one that the
\* AP has answered meanwhile.
ActiveMeansRaised == interrupt = "ACTIVE" => raised

\* "We do this in a round-robin way to make sure no event gets starved": no
\* event is passed over for ever, since every search that finds another one
\* ends closer to it.
NoStarvation ==
  [][\A e \in events \cap events' :
       hc = "take" /\ hc' = "data" =>
         Distance(e, last)' < Distance(e, last)]_vars

\* As long as no interrupt is lost and get_next_event returns no error, an event
\* the AP is to be told of is fetched by it, whenever the deferred call comes
\* and whatever it finds.  An error, for an event without a source or of its
\* get_data(), ends the AP's polling: the events left then may wait for ever,
\* their interrupt being active and its deferred call cancelled.
EventFetched ==
  [](failures = 0 /\ events \subseteq Sources) =>
    \A e \in Types : e \in owed ~> e \notin owed

\* force_mkbp_if_events() has given up on the events there are.
GivenUp == interrupt = "INACTIVE" /\ failed_attempts = 0

\* "This is the deferred function that ensures that we attempt to set the MKBP
\* interrupt again if there was a failure in the system (EC or AP) and the AP
\* never called get_next_event": while an event waits for the AP, and nobody
\* is at work on it, the deferred call is pending.  It does not hold: the
\* host command task may cancel a call that was requested for an event sent
\* after it found none; and a repeated interrupt, which adds no event, is
\* never found worth waking a sleeping AP.
SafetyNet ==
  /\ owed # {} /\ ~polling /\ hc = "idle" /\ ~GivenUp
  /\ \A a \in Activators : pc[a] = "idle"
  => deferred
=============================================================================
