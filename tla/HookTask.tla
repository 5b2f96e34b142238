------------------------------ MODULE HookTask ------------------------------
(***************************************************************************)
(* hook_task() as a whole: it calls the HOOK_INIT hooks (HookNotify),      *)
(* enables the other tasks and enters its loop (Hooks).  What the routines *)
(* of HOOK_INIT request is what is requested before the loop's first step. *)
(***************************************************************************)
EXTENDS Hooks, HookNotify

VARIABLES
  boot,   \* how far hook_task() has come: "init", "enable" or "loop"
  table,  \* the priorities in hook_list[HOOK_INIT]
  called  \* the routines called, in this order

startup == <<boot, table, called>>

StartInit ==
  /\ Init
  /\ boot = "init" /\ called = <<>>
  /\ \E count \in 0 .. HOOKS : table \in [1 .. count -> Prios]

\* hook_notify(HOOK_INIT)
CallInit ==
  /\ boot = "init" /\ boot' = "enable"
  /\ called' = hook_notify(table)
  /\ UNCHANGED <<vars, table>>

\* task_enable_all_tasks(), and on into the loop.
EnableTasks ==
  /\ boot = "enable" /\ boot' = "loop"
  /\ table' = <<>> /\ called' = <<>>
  /\ UNCHANGED vars

\* A step of the loop, or of the tasks that run beside it.
InLoop(action) == boot = "loop" /\ action /\ UNCHANGED startup

StartNext == CallInit \/ EnableTasks \/ InLoop(Next)

StartSpec ==
  /\ StartInit /\ [][StartNext]_<<vars, startup>>
  /\ WF_<<vars, startup>>(CallInit \/ EnableTasks)
  /\ WF_<<vars, startup>>(InLoop(Tick))
  /\ WF_<<vars, startup>>(InLoop(hook_task))

-----------------------------------------------------------------------------
(* Properties                                                              *)

\* "Call all the hooks in priority order": when hook_notify() has ended, it has
\* called every routine of the table exactly once, none before one of higher
\* priority, and equals in the order of the linker.
NotifiesInOrder ==
  boot = "enable" =>
    /\ DOMAIN called = DOMAIN table
    /\ {called[j] : j \in DOMAIN called} = DOMAIN table
    /\ \A j, k \in DOMAIN called : j < k =>
         \/ table[called[j]] < table[called[k]]
         \/ table[called[j]] = table[called[k]] /\ called[j] < called[k]
=============================================================================
