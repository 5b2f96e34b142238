------------------------------ MODULE MCTasks ------------------------------
(* Instances of Tasks for TLC.                                             *)
EXTENDS Tasks

\* Every client uses the functions fs.
AllCall(fs) == [t \in TaskId |-> IF t = TASK_ID_IDLE THEN {} ELSE fs]

\* Clients that do nothing but lock and unlock.
LockCalls == AllCall({"mutex"})

\* The hook task sends events, the other client waits for them in every way.
WaitCalls ==
  [t \in TaskId |->
    CASE t = TASK_ID_IDLE -> {}
      [] t = TASK_ID_HOOKS -> {"set", "mutex", "enable"}
      [] OTHER -> {"wait", "wait_timed", "mask_timed", "usleep", "mutex"}]

AnyCustomEvent == {{e} : e \in CustomEvents}
=============================================================================
