------------------------------ MODULE Rollback ------------------------------
(***************************************************************************)
(* common/rollback.c: the minimum version of the RW image and a secret,    *)
(* kept in two regions of the flash that are written in turn, and the      *)
(* tasks of the RO image that update them: rwsig_task() (common/rwsig.c),  *)
(* the hook task, which adds entropy for the host, and the console.        *)
(*                                                                         *)
(* The configuration is that of the fingerprint boards: with               *)
(* CONFIG_ROLLBACK_MPU_PROTECT a region is read, and erased and written,   *)
(* with the interrupts disabled; with CONFIG_RNG the host asks for entropy.*)
(* The power may fail between any two words of the flash.                  *)
(***************************************************************************)
EXTENDS Integers

CONSTANTS
  VERSION,   \* bound: the largest version
  Images,    \* the versions of the RW images that are started
  ADDITIONS, \* bound: how often entropy is added
  UPDATES,   \* bound: the largest id
  COMMANDS   \* bound: the console commands in a row

ASSUME RollbackAssumption ==
  /\ VERSION \in Nat /\ ADDITIONS \in Nat /\ UPDATES \in Nat
  /\ COMMANDS \in Nat /\ Images \subseteq 0 .. VERSION

ROLLBACK_REGIONS == 2
Regions == 0 .. ROLLBACK_REGIONS - 1

\* The tasks that update, in the order of their priorities (ec.tasklist).
Tasks == 1 .. 3
RWSIG == 1
HOOKS == 2
CONSOLE == 3

\* struct rollback_data.  The secret is the set of the additions it is made
\* of; erased words are -1.
Fields == {"id", "version", "secret", "cookie"}
Erased == [id |-> -1, version |-> -1, secret |-> {-1}, cookie |-> FALSE]
Data == [id : -1 .. UPDATES, version : -1 .. VERSION,
         secret : SUBSET ({-1} \cup 1 .. ADDITIONS), cookie : BOOLEAN]

VARIABLES
  region,               \* the flash
  protected,            \* EC_FLASH_PROTECT_ROLLBACK_NOW
  loc,                  \* each task's place and locals in rollback_update()
  verified,             \* rwsig_task() has done its work since the boot
  add_entropy_action, add_entropy_rv,
  deferred,             \* add_entropy_deferred() is to be called
  additions, commands,  \* number of additions and of commands so far
  mark,                 \* history: the first addition of a request to reset
  overlapped            \* history: an update was based on data read before
                        \* another update landed

request == <<add_entropy_action, add_entropy_rv, deferred, mark>>
bounds == <<additions, commands>>
vars == <<region, protected, loc, verified, request, bounds,
          overlapped>>

Idle == [pc |-> "idle", next |-> 0, entropy |-> 0, repeat |-> 0, at |-> 0,
         best |-> -1, max_id |-> -1, data |-> Erased, stale |-> FALSE]

Locals ==
  [pc : {"idle", "again", "check", "scan", "fetch", "erase", "write"},
   next : -1 .. VERSION, entropy : 0 .. ADDITIONS, repeat : Regions,
   at : 0 .. ROLLBACK_REGIONS, best : Regions \cup {-1}, max_id : -1 .. UPDATES,
   data : Data, stale : BOOLEAN]

TypeOK ==
  /\ region \in [Regions -> Data]
  /\ protected \in BOOLEAN /\ verified \in BOOLEAN /\ deferred \in BOOLEAN
  /\ overlapped \in BOOLEAN
  /\ loc \in [Tasks -> Locals]
  /\ add_entropy_action \in {"ASYNC", "RESET_ASYNC"}
  /\ add_entropy_rv \in {"UNAVAILABLE", "BUSY", "SUCCESS", "ERROR"}
  /\ additions \in 0 .. ADDITIONS /\ commands \in 0 .. COMMANDS
  /\ mark \in 0 .. ADDITIONS + 1

\* The flashed image (firmware_image.S): region 0 valid with id 0, the lowest
\* version and no secret yet, region 1 erased.
Init ==
  /\ region = [r \in Regions |->
       IF r = 0 THEN [id |-> 0, version |-> 0, secret |-> {}, cookie |-> TRUE]
       ELSE Erased]
  /\ protected = FALSE /\ verified = FALSE /\ deferred = FALSE
  /\ loc = [u \in Tasks |-> Idle]
  /\ add_entropy_action = "ASYNC" /\ add_entropy_rv = "UNAVAILABLE"
  /\ additions = 0 /\ commands = 0 /\ mark = 0
  /\ overlapped = FALSE

\* Between unlock_rollback() and lock_rollback() the interrupts are disabled.
Unlocked(u) == loc[u].pc \in {"erase", "write"}

\* u is the task that executes.
Runs(u) ==
  /\ \A w \in Tasks : w > u => loc[w].pc = "idle"
  /\ \A w \in Tasks \ {u} : ~Unlocked(w)

Goto(u, label) == loc' = [loc EXCEPT ![u].pc = label]

-----------------------------------------------------------------------------
(* rollback_update()                                                       *)

\* Mutant of Repeat: a reset adds entropy only once.
Repeat_once == 0

\* "If asked to reset the old secret, just add entropy multiple times"
Repeat ==
  IF add_entropy_action = "RESET_ASYNC" THEN ROLLBACK_REGIONS - 1 ELSE 0

\* Mutant of Failed: a failed update leaves the request pending.
Failed_busy(u) == add_entropy_rv

\* add_entropy_rv once an update of task u has failed.
Failed(u) == IF u = HOOKS THEN "ERROR" ELSE add_entropy_rv

\* It returns an error to its caller.
Fail(u) ==
  /\ loc' = [loc EXCEPT ![u] = Idle]
  /\ add_entropy_rv' = Failed(u)
  /\ UNCHANGED <<add_entropy_action, deferred, mark>>

\* It returns success.  The hook task repeats the addition, or has the result
\* for the host.
Succeed(u) ==
  /\ IF u = HOOKS /\ loc[u].repeat > 0
     THEN /\ loc' = [loc EXCEPT ![u] =
                       [Idle EXCEPT !.pc = "again", !.repeat = loc[u].repeat - 1]]
          /\ UNCHANGED add_entropy_rv
     ELSE /\ loc' = [loc EXCEPT ![u] = Idle]
          /\ add_entropy_rv' = IF u = HOOKS THEN "SUCCESS" ELSE add_entropy_rv
  /\ UNCHANGED <<add_entropy_action, deferred, mark>>

\* Its beginning: refuse if the regions are protected, or look for the latest.
rollback_update(u, next_min_version, entropy) ==
  IF protected
  THEN Fail(u) /\ UNCHANGED additions
  ELSE /\ loc' = [loc EXCEPT ![u] =
                    [Idle EXCEPT !.pc = "scan", !.next = next_min_version,
                                 !.entropy = entropy,
                                 !.repeat = loc[u].repeat]]
       /\ additions' = IF entropy = 0 THEN additions ELSE entropy
       /\ UNCHANGED request

rollback_update_version(u, v) == rollback_update(u, v, 0)

\* rollback_update(-1, data, len)
rollback_add_entropy(u) ==
  additions < ADDITIONS /\ rollback_update(u, -1, additions + 1)

\* One turn of the loop of get_latest_rollback(), for an update or for
\* rwsig_check_signature() ("check"); flash_read() may fail.
Scan(u) ==
  /\ Runs(u) /\ loc[u].pc \in {"check", "scan"}
  /\ loc[u].at < ROLLBACK_REGIONS
  /\ LET r == loc[u].at
         better == /\ region[r].cookie
                   /\ region[r].id > loc[u].max_id
     IN  \/ /\ loc' = [loc EXCEPT
                         ![u].at = r + 1,
                         ![u].best = IF better THEN r ELSE @,
                         ![u].max_id = IF better THEN region[r].id ELSE @]
            /\ UNCHANGED request
         \/ Fail(u)
  /\ UNCHANGED <<region, protected, verified, bounds, overlapped>>

\* The latest region is read again, which may fail too.  (When none is valid
\* `data' is left uninitialised: AlwaysReadable shows that this does not come
\* up.)
Fetch(u) ==
  /\ Runs(u) /\ loc[u].pc \in {"check", "scan"}
  /\ loc[u].at = ROLLBACK_REGIONS /\ loc[u].best \in Regions
  /\ \/ /\ loc[u].pc = "scan"
        /\ loc' = [loc EXCEPT ![u].pc = "fetch", ![u].max_id = -1, ![u].at = 0,
                              ![u].data = region[loc[u].best]]
        /\ UNCHANGED <<request, additions>>
     \/ /\ loc[u].pc = "check"
        /\ region[loc[u].best].version >= 0
        /\ loc[u].next > region[loc[u].best].version
        /\ rollback_update_version(u, loc[u].next)
     \/ Fail(u) /\ UNCHANGED additions
  /\ UNCHANGED <<region, protected, verified, commands, overlapped>>

\* Mutant of NextId: the id is kept.
NextId_same(data) == data.id

NextId(data) == data.id + 1

\* Mutant of Target: there is always a next region.
Target_next(r) == r + 1

\* "Use the other region."
Target(r) == (r + 1) % ROLLBACK_REGIONS

\* Mutant of Decreases: every version is accepted.
Decreases_never(next, data) == FALSE

\* "Do not accept to decrease the value."
Decreases(next, data) == next < data.version

\* Entropy is added with the current version, or with a higher one.
NewVersion(u) ==
  IF loc[u].entropy # 0 /\ loc[u].next < loc[u].data.version
  THEN loc[u].data.version ELSE loc[u].next

NewBlock(u) ==
  [id |-> NextId(loc[u].data), version |-> NewVersion(u),
   secret |-> loc[u].data.secret \cup ({loc[u].entropy} \ {0}), cookie |-> TRUE]

\* unlock_rollback(), and on to flash_erase().  What the tasks that were
\* preempted in their updates have read becomes stale.
StartWrite(u) ==
  /\ loc' = [w \in Tasks |->
       IF w = u
       THEN [Idle EXCEPT !.pc = "erase", !.repeat = loc[u].repeat,
                         !.best = Target(loc[u].best), !.data = NewBlock(u)]
       ELSE [loc[w] EXCEPT !.stale = @ \/ loc[w].pc \in {"scan", "fetch"}]]
  /\ UNCHANGED request

\* The decision whether to write.  add_entropy() and the check that the region
\* may be overwritten can fail; at the bound on the ids nothing else is
\* considered.
Decide(u) ==
  /\ Runs(u) /\ loc[u].pc = "fetch"
  /\ LET refused == Decreases(NewVersion(u), loc[u].data)
         needless == loc[u].entropy = 0 /\ loc[u].next = loc[u].data.version
     IN  \/ refused /\ Fail(u)
         \/ needless /\ Succeed(u)
         \/ ~refused /\ ~needless /\ Fail(u)
         \/ ~refused /\ ~needless /\ loc[u].data.id # UPDATES /\ StartWrite(u)
  /\ overlapped' = loc[u].stale
  /\ UNCHANGED <<region, protected, verified, bounds>>

Set(r, field, data) ==
  region' = [region EXCEPT ![r] = [@ EXCEPT ![field] = data[field]]]

\* flash_erase(): the words are erased, in any order; it may fail half-way.
Erase(u) ==
  /\ loc[u].pc = "erase"
  /\ LET r == loc[u].best IN
       \/ \E f \in Fields : /\ region[r][f] # Erased[f]
                            /\ Set(r, f, Erased)
                            /\ UNCHANGED <<loc, request>>
       \/ /\ region[r] = Erased
          /\ Goto(u, "write")
          /\ UNCHANGED <<region, request>>
       \/ Fail(u) /\ UNCHANGED region
  /\ UNCHANGED <<protected, verified, bounds, overlapped>>

\* Mutant of IsNextField: the cookie comes first.
IsNextField_cookie(r, f) ==
  f = IF ~region[r].cookie THEN "cookie" ELSE
      IF region[r].id = -1 THEN "id" ELSE
      IF region[r].version = -1 THEN "version" ELSE "secret"

\* The words are written in the order of the structure: "cookie must always
\* be last, as it validates the rest of the data".
IsNextField(r, f) ==
  f = IF region[r].id = -1 THEN "id" ELSE
      IF region[r].version = -1 THEN "version" ELSE
      IF region[r].secret = {-1} THEN "secret" ELSE "cookie"

\* flash_write(), which may fail half-way, and lock_rollback().
Write(u) ==
  /\ loc[u].pc = "write"
  /\ LET r == loc[u].best
         data == loc[u].data
     IN  \/ /\ region[r] # data
            /\ \E f \in Fields : IsNextField(r, f) /\ Set(r, f, data)
            /\ UNCHANGED <<loc, request>>
         \/ /\ region[r] = data
            /\ Succeed(u)
            /\ UNCHANGED region
         \/ region[r] # data /\ Fail(u) /\ UNCHANGED region
  /\ UNCHANGED <<protected, verified, bounds, overlapped>>

-----------------------------------------------------------------------------
(* The callers                                                             *)

\* rwsig_task(): the RW image has version v; its signature is right.
rwsig_check_signature(v) ==
  /\ Runs(RWSIG) /\ loc[RWSIG].pc = "idle" /\ ~verified
  /\ verified' = TRUE
  /\ loc' = [loc EXCEPT ![RWSIG] = [Idle EXCEPT !.pc = "check", !.next = v]]
  /\ UNCHANGED <<region, protected, request, bounds, overlapped>>

\* ADD_ENTROPY_ASYNC and ADD_ENTROPY_RESET_ASYNC.
hc_rollback_add_entropy(action) ==
  /\ \A u \in Tasks : ~Unlocked(u)
  /\ add_entropy_rv # "BUSY"
  /\ add_entropy_action' = action /\ add_entropy_rv' = "BUSY"
  /\ deferred' = TRUE /\ mark' = 0
  /\ UNCHANGED <<region, protected, loc, verified, bounds, overlapped>>

add_entropy_deferred ==
  /\ Runs(HOOKS) /\ loc[HOOKS].pc = "idle" /\ deferred
  /\ deferred' = FALSE
  /\ mark' = IF add_entropy_action = "RESET_ASYNC" THEN additions + 1 ELSE 0
  /\ loc' = [loc EXCEPT ![HOOKS] = [Idle EXCEPT !.pc = "again",
                                                !.repeat = Repeat]]
  /\ UNCHANGED <<region, protected, verified, add_entropy_action,
                 add_entropy_rv, bounds, overlapped>>

\* One turn of its loop; it has no bound on the additions, here it fails.
Again ==
  /\ Runs(HOOKS) /\ loc[HOOKS].pc = "again"
  /\ \/ rollback_add_entropy(HOOKS)
     \/ additions = ADDITIONS /\ Fail(HOOKS) /\ UNCHANGED additions
  /\ UNCHANGED <<region, protected, verified, commands, overlapped>>

\* The commands rollbackupdate and rollbackaddent.
command_rollback(v) ==
  /\ Runs(CONSOLE) /\ loc[CONSOLE].pc = "idle" /\ commands < COMMANDS
  /\ commands' = commands + 1
  /\ rollback_update_version(CONSOLE, v) \/ rollback_add_entropy(CONSOLE)
  /\ UNCHANGED <<region, protected, verified, overlapped>>

\* flash_set_protect(), as rwsig_jump_now() and the host call it.
Protect(b) ==
  /\ \A u \in Tasks : ~Unlocked(u)
  /\ protected' = b
  /\ UNCHANGED <<region, loc, verified, request, bounds,
                 overlapped>>

\* The power fails, or the system is reset.
Reboot ==
  /\ loc' = [u \in Tasks |-> Idle]
  /\ verified' = FALSE /\ deferred' = FALSE /\ mark' = 0
  /\ add_entropy_action' = "ASYNC" /\ add_entropy_rv' = "UNAVAILABLE"
  /\ UNCHANGED <<region, protected, bounds, overlapped>>

Step(u) == Scan(u) \/ Fetch(u) \/ Decide(u) \/ Erase(u) \/ Write(u)

Behaviour ==
  \/ \E u \in Tasks : Step(u)
  \/ \E v \in Images : rwsig_check_signature(v)
  \/ \E v \in 0 .. VERSION : command_rollback(v)
  \/ \E action \in {"ASYNC", "RESET_ASYNC"} : hc_rollback_add_entropy(action)
  \/ add_entropy_deferred \/ Again
  \/ \E b \in BOOLEAN : Protect(b)
  \/ Reboot

\* Behaviours are followed until an update overlaps with another.
Next ==
  \/ ~overlapped /\ Behaviour
  \/ overlapped /\ UNCHANGED vars

Spec == Init /\ [][Next]_vars

\* The processor executes: while a task is within an update, or the hook task
\* has a deferred call to make, some task goes on.
FairSpec ==
  /\ Spec
  /\ WF_vars(/\ ~overlapped
             /\ (\E u \in Tasks : Step(u)) \/ add_entropy_deferred \/ Again)

-----------------------------------------------------------------------------
(* Properties                                                              *)

\* The region get_latest_rollback() would find, and what is in effect.
IsLatest(r) ==
  /\ region[r].cookie /\ region[r].id > -1
  /\ \A s \in Regions : region[s].cookie => region[s].id <= region[r].id

InEffect == region[CHOOSE r \in Regions : IsLatest(r)]

\* At every moment of every update, and after a power failure at that moment,
\* there is a latest region and it is complete: never one that is half erased
\* or half written, although both regions carry the cookie most of the time.
\* (The exception is an update that overlapped with another: there is no lock
\* around the read and the write, and a task that was preempted in between
\* erases a region that has become the latest.)
AlwaysReadable ==
  ~overlapped =>
    /\ \E r \in Regions : IsLatest(r)
    /\ InEffect.version >= 0 /\ -1 \notin InEffect.secret

\* "Do not accept to decrease the value": neither an update, nor a power
\* failure within one, takes the minimum version back or drops entropy; up to
\* an update on stale data, of a task that another one preempted between the
\* read and the write, which undoes what that one wrote.
NeverDecreases ==
  [][~overlapped' =>
       /\ InEffect.version <= InEffect'.version
       /\ InEffect.secret \subseteq InEffect'.secret]_vars

\* A block that is written to the end, so that success is returned, is in
\* effect; and it stays so, by NeverDecreases.
SuccessInEffect ==
  \A u \in Tasks :
    loc[u].pc = "write" /\ region[loc[u].best] = loc[u].data =>
      InEffect = loc[u].data

\* "If asked to reset the old secret, just add entropy multiple times, which
\* will ping-pong between the blocks": once the host is told that the reset
\* succeeded, neither region holds the old secret any more.
OldSecretGone ==
  ~overlapped /\ add_entropy_rv = "SUCCESS"
    /\ add_entropy_action = "RESET_ASYNC" =>
      \A r \in Regions :
        region[r].secret = {-1} \/ \E n \in region[r].secret : n >= mark

\* The host that asked for entropy is not told "busy" for ever.
RequestAnswered ==
  add_entropy_rv = "BUSY" ~> add_entropy_rv # "BUSY" \/ overlapped
=============================================================================
