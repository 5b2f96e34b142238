----------------------------- MODULE HookNotify -----------------------------
(***************************************************************************)
(* hook_notify() in common/hooks.c: the routines registered for a type of  *)
(* hook, which the linker puts side by side in no particular order, are    *)
(* called in the order of their priorities, without a sorted copy.         *)
(***************************************************************************)
LOCAL INSTANCE Naturals
LOCAL INSTANCE Sequences
LOCAL INSTANCE FiniteSetsExt

CONSTANTS
  HOOK_PRIO_FIRST, HOOK_PRIO_LAST,
  HOOKS      \* bound: the largest number of routines of a type

Prios == HOOK_PRIO_FIRST .. HOOK_PRIO_LAST

ASSUME NotifyAssumption ==
  /\ HOOK_PRIO_FIRST \in Nat \ {0} /\ HOOK_PRIO_LAST \in Nat
  /\ HOOK_PRIO_FIRST <= HOOK_PRIO_LAST /\ HOOKS \in Nat

\* "Find the lowest remaining priority".  `table' holds the priorities of the
\* routines in hook_list[type], in the order of the linker.
NextPrio(table, last_prio) ==
  Min({HOOK_PRIO_LAST + 1}
        \cup {p \in Prios : p > last_prio /\ \E k \in DOMAIN table : table[k] = p})

\* Mutant of OfPrio: the search stops at the first routine of the priority.
OfPrio_first(table, prio) ==
  LET found == {k \in DOMAIN table : table[k] = prio}
  IN  IF found = {} THEN <<>> ELSE <<Min(found)>>

\* "Call all the hooks with that priority"
OfPrio(table, prio) ==
  SelectSeq([k \in DOMAIN table |-> k], LAMBDA k : table[k] = prio)

\* The routines in the order they are called.  The loop counts calls: a pass
\* that finds no priority left, with calls to make, would be repeated for ever
\* (the value <<0>>).
hook_notify(table) ==
  LET passes[last_prio \in 0 .. HOOK_PRIO_LAST + 1, count \in 0 .. HOOKS] ==
        IF count >= Len(table) THEN <<>>
        ELSE IF last_prio > HOOK_PRIO_LAST THEN <<0>>
        ELSE LET prio == NextPrio(table, last_prio)
                 now_called == OfPrio(table, prio)
             IN  now_called \o passes[prio, count + Len(now_called)]
  IN  passes[HOOK_PRIO_FIRST - 1, 0]
=============================================================================
