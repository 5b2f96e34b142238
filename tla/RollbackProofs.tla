--------------------------- MODULE RollbackProofs ---------------------------
(***************************************************************************)
(* Proofs about Rollback, for every number of versions, additions, ids and *)
(* commands.                                                               *)
(***************************************************************************)
EXTENDS Rollback, TLAPS

-----------------------------------------------------------------------------
(* The inductive invariant                                                 *)

\* A block that was written to the end.
Complete(d) ==
  d.cookie /\ d.id >= 0 /\ d.version >= 0 /\ -1 \notin d.secret

Other(r) == 1 - r

\* Region r is in effect, and no other one compares equal.
Latest(r) ==
  /\ Complete(region[r])
  /\ region[Other(r)].cookie => region[Other(r)].id < region[r].id

\* What get_latest_rollback() has found of the regions it has read.
ScanOK(u) ==
  /\ \/ loc[u].best = -1 /\ loc[u].max_id = -1
     \/ /\ loc[u].best \in Regions /\ region[loc[u].best].cookie
        /\ loc[u].max_id = region[loc[u].best].id /\ loc[u].max_id > -1
  /\ \A r \in Regions :
       r < loc[u].at /\ region[r].cookie => region[r].id <= loc[u].max_id

FetchOK(u) ==
  /\ loc[u].best \in Regions
  /\ Latest(loc[u].best) /\ loc[u].data = region[loc[u].best]

\* The block to be written follows the one in the other region.
Follows(d, e) ==
  /\ Complete(d) /\ d.id > e.id /\ d.version >= e.version
  /\ e.secret \subseteq d.secret

EraseOK(u) ==
  /\ loc[u].best \in Regions
  /\ Latest(Other(loc[u].best))
  /\ Follows(loc[u].data, region[Other(loc[u].best)])

\* The words of the target are those of the new block or still erased, and it
\* is valid only when it is complete.
WriteOK(u) ==
  LET new == region[loc[u].best] IN
  /\ loc[u].best \in Regions
  /\ Complete(region[Other(loc[u].best)])
  /\ Follows(loc[u].data, region[Other(loc[u].best)])
  /\ new.id \in {-1, loc[u].data.id} /\ new.version \in {-1, loc[u].data.version}
  /\ new.secret \in {{-1}, loc[u].data.secret}
  /\ new.cookie => new = loc[u].data

UpdateOK(u) ==
  /\ loc[u].pc = "scan" /\ ~loc[u].stale => ScanOK(u)
  /\ loc[u].pc = "fetch" /\ ~loc[u].stale => FetchOK(u)
  /\ loc[u].pc = "erase" => EraseOK(u)
  /\ loc[u].pc = "write" => WriteOK(u)

\* While a task erases and writes, whatever another has read is stale.
Exclusive ==
  \A u, w \in Tasks :
    Unlocked(u) /\ u # w =>
      ~Unlocked(w) /\ (loc[w].pc \in {"scan", "fetch"} => loc[w].stale)

RegionsOK == \E r \in Regions : Latest(r)

UpdatesOK ==
  IF overlapped THEN \A u \in Tasks : loc[u].pc # "write"
  ELSE Exclusive /\ \A u \in Tasks : UpdateOK(u)

\* The secret has an addition of the request at hand.
Fresh(secret) == \E n \in secret : n >= mark

\* The host's request to reset the secret: the hook task is at its first
\* addition, or the block in effect has one already.
RequestOK ==
  LET l == loc[HOOKS] IN
  /\ l.pc \in {"scan", "fetch"} => l.entropy >= mark
  /\ l.pc \in {"erase", "write"} => Fresh(l.data.secret)
  /\ l.pc \in {"again", "scan", "fetch"} /\ l.repeat = 0 => Fresh(InEffect.secret)
  /\ l.pc \in {"erase", "write"} /\ l.repeat = 0 =>
       Fresh(region[Other(l.best)].secret)

ResetOK ==
  LET l == loc[HOOKS] IN
  /\ l.pc # "check"
  /\ l.pc # "idle" => add_entropy_rv = "BUSY" /\ ~deferred
  /\ deferred => add_entropy_rv = "BUSY"
  /\ mark <= additions + 1
  /\ l.pc \in {"scan", "fetch"} => l.entropy > 0
  /\ add_entropy_action = "RESET_ASYNC" => RequestOK

IInv == TypeOK /\ RegionsOK /\ UpdatesOK

ResetInv == ~overlapped => ResetOK /\ OldSecretGone

-----------------------------------------------------------------------------
(* Type correctness                                                        *)

LEMMA ErasedIsData == Erased \in Data
  BY RollbackAssumption DEF Erased, Data

LEMMA IdleIsLocal == Idle \in Locals
  BY RollbackAssumption, ErasedIsData
  DEF Idle, Locals, Regions, ROLLBACK_REGIONS

\* rollback_update() returns, or begins, with locals of the right type.
LEMMA FailTyped ==
  ASSUME TypeOK, NEW u \in Tasks, Fail(u)
  PROVE  /\ loc' \in [Tasks -> Locals]
         /\ add_entropy_rv' \in {"UNAVAILABLE", "BUSY", "SUCCESS", "ERROR"}
         /\ UNCHANGED <<add_entropy_action, deferred, mark>>
  BY IdleIsLocal DEF TypeOK, Fail, Failed

LEMMA SucceedTyped ==
  ASSUME TypeOK, NEW u \in Tasks, Succeed(u)
  PROVE  /\ loc' \in [Tasks -> Locals]
         /\ add_entropy_rv' \in {"UNAVAILABLE", "BUSY", "SUCCESS", "ERROR"}
         /\ UNCHANGED <<add_entropy_action, deferred, mark>>
  <1>1. CASE u = HOOKS /\ loc[u].repeat > 0
    <2>1. loc[u].repeat - 1 \in Regions
      BY <1>1 DEF TypeOK, Locals, Regions, ROLLBACK_REGIONS
    <2>2. [Idle EXCEPT !.pc = "again", !.repeat = loc[u].repeat - 1] \in Locals
      BY <2>1, IdleIsLocal DEF Locals
    <2> QED  BY <1>1, <2>2 DEF TypeOK, Succeed
  <1>2. CASE ~(u = HOOKS /\ loc[u].repeat > 0)
    BY <1>2, IdleIsLocal DEF TypeOK, Succeed
  <1> QED  BY <1>1, <1>2

LEMMA UpdateTyped ==
  ASSUME TypeOK, NEW u \in Tasks, NEW v \in -1 .. VERSION,
         NEW e \in 0 .. ADDITIONS, rollback_update(u, v, e)
  PROVE  /\ loc' \in [Tasks -> Locals]
         /\ add_entropy_rv' \in {"UNAVAILABLE", "BUSY", "SUCCESS", "ERROR"}
         /\ UNCHANGED <<add_entropy_action, deferred, mark>>
         /\ additions' \in 0 .. ADDITIONS
  <1>1. CASE protected
    BY <1>1, FailTyped DEF TypeOK, rollback_update
  <1>2. CASE ~protected
    <2>1. [Idle EXCEPT !.pc = "scan", !.next = v, !.entropy = e,
                       !.repeat = loc[u].repeat] \in Locals
      BY IdleIsLocal DEF TypeOK, Locals
    <2> QED  BY <1>2, <2>1 DEF TypeOK, rollback_update, request
  <1> QED  BY <1>1, <1>2

\* Changes of the locals within their types.
LEMMA LocalScans ==
  ASSUME NEW l \in Locals, NEW at \in 0 .. ROLLBACK_REGIONS,
         NEW best \in Regions \cup {-1}, NEW id \in -1 .. UPDATES
  PROVE  [l EXCEPT !.at = at, !.best = best, !.max_id = id] \in Locals
  BY DEF Locals

LEMMA LocalFetches ==
  ASSUME NEW l \in Locals, NEW at \in 0 .. ROLLBACK_REGIONS,
         NEW id \in -1 .. UPDATES, NEW d \in Data
  PROVE  [l EXCEPT !.pc = "fetch", !.max_id = id, !.at = at, !.data = d]
           \in Locals
  BY DEF Locals

LEMMA LocalErases ==
  ASSUME NEW l \in Locals, NEW r \in Regions, NEW best \in Regions \cup {-1},
         NEW d \in Data
  PROVE  [l EXCEPT !.pc = "erase", !.repeat = r, !.best = best, !.data = d]
           \in Locals
  BY DEF Locals

LEMMA LocalStales ==
  ASSUME NEW l \in Locals, NEW b \in BOOLEAN
  PROVE  [l EXCEPT !.stale = b] \in Locals
  BY DEF Locals

LEMMA ScanTyped ==
  ASSUME TypeOK, NEW u \in Tasks, Scan(u)
  PROVE  TypeOK'
  <1> DEFINE r == loc[u].at
             better == region[r].cookie /\ region[r].id > loc[u].max_id
             best == IF better THEN r ELSE loc[u].best
             id == IF better THEN region[r].id ELSE loc[u].max_id
             l == [loc[u] EXCEPT !.at = r + 1, !.best = best, !.max_id = id]
  <1> SUFFICES ASSUME ~Fail(u) PROVE TypeOK'
    BY FailTyped DEF TypeOK, Scan, bounds
  <1>1. r \in Regions /\ r + 1 \in 0 .. ROLLBACK_REGIONS
    BY DEF TypeOK, Scan, Locals, Regions, ROLLBACK_REGIONS
  <1>2. region[r] \in Data /\ region[r].id \in -1 .. UPDATES
    BY <1>1 DEF TypeOK, Data
  <1>3. l \in Locals
    <2>1. loc[u] \in Locals
      BY DEF TypeOK
    <2>2. loc[u].best \in Regions \cup {-1} /\ loc[u].max_id \in -1 .. UPDATES
      BY <2>1 DEF Locals
    <2>3. best \in Regions \cup {-1} /\ id \in -1 .. UPDATES
      BY <1>1, <1>2, <2>2
    <2> HIDE DEF best, id
    <2> QED  BY <1>1, <2>1, <2>3, LocalScans
  <1>4. loc' = [loc EXCEPT ![u] = l]
    BY DEF Scan, TypeOK
  <1> QED  BY <1>3, <1>4 DEF TypeOK, Scan, request, bounds

LEMMA ScanChanges ==
  ASSUME TypeOK, NEW u \in Tasks, Scan(u), ~Fail(u)
  PROVE  /\ loc'[u].pc = loc[u].pc /\ loc'[u].entropy = loc[u].entropy
         /\ loc'[u].repeat = loc[u].repeat
  <1> DEFINE r == loc[u].at
             better == region[r].cookie /\ region[r].id > loc[u].max_id
             best == IF better THEN r ELSE loc[u].best
             id == IF better THEN region[r].id ELSE loc[u].max_id
  <1>1. loc[u] \in Locals
    BY DEF TypeOK
  <1>2. loc' = [loc EXCEPT ![u] =
                  [loc[u] EXCEPT !.at = r + 1, !.best = best, !.max_id = id]]
    BY DEF Scan, TypeOK
  <1> HIDE DEF best, id, r
  <1>3. loc'[u] = [loc[u] EXCEPT !.at = r + 1, !.best = best, !.max_id = id]
    BY <1>2 DEF TypeOK
  <1> QED  BY <1>1, <1>3 DEF Locals

LEMMA FetchTyped ==
  ASSUME TypeOK, NEW u \in Tasks, Fetch(u)
  PROVE  TypeOK'
  <1> SUFFICES ASSUME ~(Fail(u) /\ UNCHANGED additions) PROVE TypeOK'
    BY FailTyped DEF TypeOK, Fetch
  <1>1. CASE loc[u].pc = "scan"
    <2> DEFINE l == [loc[u] EXCEPT !.pc = "fetch", !.max_id = -1, !.at = 0,
                                   !.data = region[loc[u].best]]
    <2>1. region[loc[u].best] \in Data
      BY DEF Fetch, TypeOK
    <2>2. -1 \in -1 .. UPDATES /\ 0 \in 0 .. ROLLBACK_REGIONS
      BY RollbackAssumption DEF ROLLBACK_REGIONS
    <2> HIDE DEF l
    <2>3. l \in Locals
      <3>1. loc[u] \in Locals
        BY DEF TypeOK
      <3> QED  BY <2>1, <2>2, <3>1, LocalFetches DEF l
    <2>4. loc' = [loc EXCEPT ![u] = l]
      BY <1>1 DEF Fetch, TypeOK, l
    <2> QED  BY <1>1, <2>3, <2>4 DEF Fetch, TypeOK, request
  <1>2. CASE loc[u].pc # "scan"
    <2>1. loc[u].next \in -1 .. VERSION /\ 0 \in 0 .. ADDITIONS
      BY RollbackAssumption DEF TypeOK, Locals
    <2>2. rollback_update(u, loc[u].next, 0)
      BY <1>2, Zenon DEF Fetch, rollback_update_version
    <2> QED  BY <2>1, <2>2, UpdateTyped, <1>2 DEF Fetch, TypeOK
  <1> QED  BY <1>1, <1>2

LEMMA DecideTyped ==
  ASSUME TypeOK, NEW u \in Tasks, Decide(u)
  PROVE  TypeOK'
  <1> USE DEF TypeOK
  <1>4. overlapped' \in BOOLEAN
    BY DEF Decide, Locals
  <1>1. CASE Fail(u)
    BY <1>1, <1>4, FailTyped DEF Decide, bounds
  <1>2. CASE Succeed(u)
    BY <1>2, <1>4, SucceedTyped DEF Decide, bounds
  <1>3. CASE StartWrite(u) /\ loc[u].data.id # UPDATES
    <2>1. loc[u] \in Locals /\ loc[u].data \in Data
      BY DEF Locals
    <2>2. Target(loc[u].best) \in Regions
      BY <2>1 DEF Locals, Regions, ROLLBACK_REGIONS, Target
    <2>3. NextId(loc[u].data) \in -1 .. UPDATES
      BY <1>3, <2>1, RollbackAssumption DEF Data, NextId
    <2>4. NewVersion(u) \in -1 .. VERSION
      BY <2>1 DEF NewVersion, Data, Locals
    <2>5. loc[u].data.secret \cup ({loc[u].entropy} \ {0})
            \subseteq {-1} \cup 1 .. ADDITIONS
      BY <2>1, RollbackAssumption DEF Locals, Data
    <2>6. NewBlock(u) \in Data
      BY <2>3, <2>4, <2>5 DEF NewBlock, Data
    <2>7. [Idle EXCEPT !.pc = "erase", !.repeat = loc[u].repeat,
                       !.best = Target(loc[u].best), !.data = NewBlock(u)]
            \in Locals
      <3>1. loc[u].repeat \in Regions
        BY <2>1 DEF Locals
      <3> QED  BY <2>2, <2>6, <3>1, IdleIsLocal, LocalErases
    <2>8. ASSUME NEW w \in Tasks
          PROVE  [loc[w] EXCEPT !.stale = @ \/ loc[w].pc \in {"scan", "fetch"}]
                   \in Locals
      <3>1. loc[w] \in Locals /\ loc[w].stale \in BOOLEAN
        BY DEF Locals
      <3>2. (loc[w].stale \/ loc[w].pc \in {"scan", "fetch"}) \in BOOLEAN
        BY <3>1
      <3> QED  BY <3>1, <3>2, LocalStales
    <2>9. loc' \in [Tasks -> Locals]
      BY <1>3, <2>7, <2>8 DEF StartWrite
    <2> QED  BY <1>3, <1>4, <2>9 DEF Decide, StartWrite, request, bounds
  <1> QED  BY <1>1, <1>2, <1>3 DEF Decide

\* One word of a region is erased or written.
LEMMA SetTyped ==
  ASSUME TypeOK, NEW r \in Regions \cup {-1}, NEW f \in Fields, NEW d \in Data,
         Set(r, f, d)
  PROVE  region' \in [Regions -> Data]
  <1>0. CASE r \notin Regions
    BY <1>0 DEF TypeOK, Set
  <1> SUFFICES ASSUME r \in Regions, region[r] \in Data PROVE region' \in [Regions -> Data]
    BY <1>0 DEF TypeOK
  <1>1. [region[r] EXCEPT ![f] = d[f]] \in Data
    <2>1. CASE f = "id"
      BY <2>1 DEF Data
    <2>2. CASE f = "version"
      BY <2>2 DEF Data
    <2>3. CASE f = "secret"
      BY <2>3 DEF Data
    <2>4. CASE f = "cookie"
      BY <2>4 DEF Data
    <2> QED  BY <2>1, <2>2, <2>3, <2>4 DEF Fields
  <1> QED  BY <1>1 DEF TypeOK, Set

LEMMA EraseTyped ==
  ASSUME TypeOK, NEW u \in Tasks, Erase(u)
  PROVE  TypeOK'
  <1> USE DEF TypeOK
  <1>0. loc[u].best \in Regions \cup {-1}
    BY DEF Locals
  <1>1. CASE /\ \E f \in Fields : Set(loc[u].best, f, Erased)
             /\ UNCHANGED <<loc, request>>
    <2>1. region' \in [Regions -> Data]
      BY <1>0, <1>1, SetTyped, ErasedIsData
    <2> QED  BY <1>1, <2>1 DEF Erase, request, bounds
  <1>2. CASE Goto(u, "write") /\ UNCHANGED <<region, request>>
    <2>1. [loc[u] EXCEPT !.pc = "write"] \in Locals
      BY DEF Locals
    <2> QED  BY <1>2, <2>1 DEF Erase, Goto, request, bounds
  <1>3. CASE Fail(u) /\ UNCHANGED region
    BY <1>3, FailTyped DEF Erase, bounds
  <1> QED  BY <1>1, <1>2, <1>3 DEF Erase

LEMMA WriteTyped ==
  ASSUME TypeOK, NEW u \in Tasks, Write(u)
  PROVE  TypeOK'
  <1> USE DEF TypeOK
  <1>0. loc[u].best \in Regions \cup {-1} /\ loc[u].data \in Data
    BY DEF Locals
  <1>1. CASE /\ \E f \in Fields : Set(loc[u].best, f, loc[u].data)
             /\ UNCHANGED <<loc, request>>
    <2>1. region' \in [Regions -> Data]
      BY <1>0, <1>1, SetTyped
    <2> QED  BY <1>1, <2>1 DEF Write, request, bounds
  <1>2. CASE Succeed(u) /\ UNCHANGED region
    BY <1>2, SucceedTyped DEF Write, bounds
  <1>3. CASE Fail(u) /\ UNCHANGED region
    BY <1>3, FailTyped DEF Write, bounds
  <1> QED  BY <1>1, <1>2, <1>3 DEF Write

LEMMA TypeStep == TypeOK /\ [Next]_vars => TypeOK'
  <1> SUFFICES ASSUME TypeOK, [Next]_vars PROVE TypeOK'
    OBVIOUS
  <1> USE DEF TypeOK
  <1>1. CASE UNCHANGED vars
    BY <1>1 DEF vars, request, bounds
  <1>2. ASSUME NEW u \in Tasks, Step(u) PROVE TypeOK'
    BY <1>2, ScanTyped, FetchTyped, DecideTyped, EraseTyped, WriteTyped DEF Step
  <1>3. ASSUME NEW v \in Images, rwsig_check_signature(v) PROVE TypeOK'
    <2>1. v \in -1 .. VERSION
      BY RollbackAssumption
    <2>2. [Idle EXCEPT !.pc = "check", !.next = v] \in Locals
      BY <2>1, IdleIsLocal DEF Locals
    <2> QED  BY <1>3, <2>2 DEF rwsig_check_signature, request, bounds
  <1>4. ASSUME NEW v \in 0 .. VERSION, command_rollback(v) PROVE TypeOK'
    <2>1. CONSOLE \in Tasks /\ v \in -1 .. VERSION /\ -1 \in -1 .. VERSION
      BY RollbackAssumption DEF CONSOLE, Tasks
    <2>2. commands' \in 0 .. COMMANDS
      BY <1>4, RollbackAssumption DEF command_rollback
    <2>3. CASE rollback_update(CONSOLE, v, 0)
      <3>1. 0 \in 0 .. ADDITIONS
        BY RollbackAssumption
      <3> HIDE DEF TypeOK
      <3>2. /\ loc' \in [Tasks -> Locals]
            /\ add_entropy_rv' \in {"UNAVAILABLE", "BUSY", "SUCCESS", "ERROR"}
            /\ UNCHANGED <<add_entropy_action, deferred, mark>>
            /\ additions' \in 0 .. ADDITIONS
        BY <2>1, <2>3, <3>1, UpdateTyped
      <3> QED  BY <1>4, <2>2, <3>2 DEF command_rollback, TypeOK
    <2>4. CASE rollback_add_entropy(CONSOLE)
      <3>1. additions + 1 \in 0 .. ADDITIONS
        BY <2>4, RollbackAssumption DEF rollback_add_entropy
      <3> QED
        BY <1>4, <2>1, <2>2, <2>4, <3>1, UpdateTyped
        DEF command_rollback, rollback_add_entropy
    <2> QED  BY <1>4, <2>3, <2>4 DEF command_rollback, rollback_update_version
  <1>5. ASSUME NEW action \in {"ASYNC", "RESET_ASYNC"},
               hc_rollback_add_entropy(action)
        PROVE  TypeOK'
    BY <1>5, RollbackAssumption DEF hc_rollback_add_entropy, bounds
  <1>6. CASE add_entropy_deferred
    <2>1. Repeat \in Regions /\ HOOKS \in Tasks
      BY DEF Repeat, Regions, ROLLBACK_REGIONS, HOOKS, Tasks
    <2>2. [Idle EXCEPT !.pc = "again", !.repeat = Repeat] \in Locals
      BY <2>1, IdleIsLocal DEF Locals
    <2>3. mark' \in 0 .. ADDITIONS + 1
      BY <1>6, RollbackAssumption DEF add_entropy_deferred
    <2> QED  BY <1>6, <2>1, <2>2, <2>3 DEF add_entropy_deferred, bounds
  <1>7. CASE Again
    <2>1. HOOKS \in Tasks /\ -1 \in -1 .. VERSION
      BY RollbackAssumption DEF HOOKS, Tasks
    <2>2. CASE Fail(HOOKS) /\ UNCHANGED additions
      BY <1>7, <2>1, <2>2, FailTyped DEF Again
    <2>3. CASE rollback_add_entropy(HOOKS)
      <3>1. additions + 1 \in 0 .. ADDITIONS
        BY <2>3, RollbackAssumption DEF rollback_add_entropy
      <3> QED
        BY <1>7, <2>1, <2>3, <3>1, UpdateTyped DEF Again, rollback_add_entropy
    <2> QED  BY <1>7, <2>2, <2>3 DEF Again
  <1>8. ASSUME NEW b \in BOOLEAN, Protect(b) PROVE TypeOK'
    BY <1>8 DEF Protect, request, bounds
  <1>9. CASE Reboot
    <2>1. 0 \in 0 .. ADDITIONS + 1
      BY RollbackAssumption
    <2> QED  BY <1>9, <2>1, IdleIsLocal DEF Reboot, bounds
  <1> QED
    BY <1>1, <1>2, <1>3, <1>4, <1>5, <1>6, <1>7, <1>8, <1>9 DEF Next, Behaviour

LEMMA TypeInit == Init => TypeOK
  <1>1. [id |-> 0, version |-> 0, secret |-> {}, cookie |-> TRUE] \in Data
    BY RollbackAssumption DEF Data
  <1>2. 0 \in 0 .. ADDITIONS /\ 0 \in 0 .. COMMANDS /\ 0 \in 0 .. ADDITIONS + 1
    BY RollbackAssumption
  <1> QED
    BY <1>1, <1>2, ErasedIsData, IdleIsLocal DEF Init, TypeOK

\* Every word of the flash and every local of rollback_update() keeps its type:
\* no id beyond the bound, no region but the two, no locals left over.
THEOREM RollbackTypeCorrect == Spec => []TypeOK
  BY TypeInit, TypeStep, PTL DEF Spec

-----------------------------------------------------------------------------
(* The regions                                                             *)

LEMMA OtherRegion ==
  ASSUME NEW r \in Regions
  PROVE  /\ Other(r) \in Regions /\ Other(r) # r /\ Other(Other(r)) = r
         /\ Target(r) = Other(r)
         /\ \A s \in Regions : s = r \/ s = Other(r)
  BY DEF Other, Target, Regions, ROLLBACK_REGIONS

LEMMA RegionTyped ==
  ASSUME TypeOK, NEW r \in Regions
  PROVE  /\ region[r] \in Data /\ region[r].id \in Int /\ region[r].version \in Int
         /\ region[r].cookie \in BOOLEAN
  BY DEF TypeOK, Data

\* get_latest_rollback() finds the region that is in effect and no other one.
LEMMA LatestUnique ==
  ASSUME TypeOK, NEW r \in Regions, Latest(r)
  PROVE  \A s \in Regions : IsLatest(s) <=> s = r
  <1>1. IsLatest(r)
    BY OtherRegion, RegionTyped DEF Latest, Complete, IsLatest
  <1>2. ~IsLatest(Other(r))
    BY OtherRegion, RegionTyped DEF Latest, Complete, IsLatest
  <1> QED  BY <1>1, <1>2, OtherRegion

LEMMA LatestInEffect ==
  ASSUME TypeOK, NEW r \in Regions, Latest(r)
  PROVE  InEffect = region[r]
  <1>1. (CHOOSE s \in Regions : IsLatest(s)) = r
    BY LatestUnique
  <1> QED  BY <1>1 DEF InEffect

-----------------------------------------------------------------------------
(* The updates                                                             *)

LEMMA UpdateKept ==
  ASSUME NEW w \in Tasks, UpdateOK(w), region' = region, loc'[w] = loc[w]
  PROVE  UpdateOK(w)'
  BY DEF UpdateOK, ScanOK, FetchOK, EraseOK, WriteOK, Latest

\* What the steps do to the locals.
LEMMA FailLocals ==
  ASSUME TypeOK, NEW u \in Tasks, Fail(u)
  PROVE  loc'[u].pc = "idle" /\ \A w \in Tasks \ {u} : loc'[w] = loc[w]
  BY DEF Fail, TypeOK, Idle

LEMMA SucceedLocals ==
  ASSUME TypeOK, NEW u \in Tasks, Succeed(u)
  PROVE  /\ loc'[u].pc \in {"idle", "again"}
         /\ \A w \in Tasks \ {u} : loc'[w] = loc[w]
  <1>1. CASE u = HOOKS /\ loc[u].repeat > 0
    <2>1. loc' = [loc EXCEPT ![u] =
                    [Idle EXCEPT !.pc = "again", !.repeat = loc[u].repeat - 1]]
      BY <1>1 DEF Succeed
    <2> QED  BY <2>1 DEF TypeOK, Idle
  <1>2. CASE ~(u = HOOKS /\ loc[u].repeat > 0)
    <2>1. loc' = [loc EXCEPT ![u] = Idle]
      BY <1>2 DEF Succeed
    <2> QED  BY <2>1 DEF TypeOK, Idle
  <1> QED  BY <1>1, <1>2

SameUpdate(w) ==
  /\ loc'[w].pc = loc[w].pc /\ loc'[w].entropy = loc[w].entropy
  /\ loc'[w].repeat = loc[w].repeat /\ loc'[w].best = loc[w].best
  /\ loc'[w].data = loc[w].data

LEMMA StaleLocal ==
  ASSUME NEW l \in Locals, NEW b
  PROVE  LET m == [l EXCEPT !.stale = b] IN
         /\ m.pc = l.pc /\ m.entropy = l.entropy /\ m.repeat = l.repeat
         /\ m.best = l.best /\ m.data = l.data /\ m.stale = b
  BY DEF Locals

LEMMA StartWriteLocals ==
  ASSUME TypeOK, NEW u \in Tasks, StartWrite(u)
  PROVE  /\ loc'[u].pc = "erase" /\ loc'[u].best = Target(loc[u].best)
         /\ loc'[u].data = NewBlock(u) /\ loc'[u].repeat = loc[u].repeat
         /\ \A w \in Tasks \ {u} :
              /\ loc'[w].pc = loc[w].pc
              /\ loc[w].pc \in {"scan", "fetch"} => loc'[w].stale
         /\ \A w \in Tasks \ {u} : SameUpdate(w)
  <1>1. /\ loc'[u] = [Idle EXCEPT !.pc = "erase", !.repeat = loc[u].repeat,
                         !.best = Target(loc[u].best), !.data = NewBlock(u)]
        /\ \A w \in Tasks \ {u} : loc'[w] =
             [loc[w] EXCEPT !.stale = @ \/ loc[w].pc \in {"scan", "fetch"}]
    BY DEF StartWrite
  <1>2. ASSUME NEW w \in Tasks \ {u}
        PROVE  /\ SameUpdate(w)
               /\ loc[w].pc \in {"scan", "fetch"} => loc'[w].stale
    <2> DEFINE b == loc[w].stale \/ loc[w].pc \in {"scan", "fetch"}
    <2>1. loc[w] \in Locals /\ loc'[w] = [loc[w] EXCEPT !.stale = b]
      BY <1>1 DEF TypeOK
    <2>2. loc[w].pc \in {"scan", "fetch"} => b
      OBVIOUS
    <2> HIDE DEF b
    <2> QED  BY <2>1, <2>2, StaleLocal DEF SameUpdate
  <1>3. /\ loc'[u].pc = "erase" /\ loc'[u].best = Target(loc[u].best)
        /\ loc'[u].data = NewBlock(u) /\ loc'[u].repeat = loc[u].repeat
    BY <1>1 DEF Idle
  <1> QED  BY <1>2, <1>3 DEF SameUpdate

\* A step of u outside the flash, which leaves the other tasks alone.
LEMMA LocalStep ==
  ASSUME TypeOK, UpdatesOK, ~overlapped, NEW u \in Tasks,
         UNCHANGED <<region, overlapped>>,
         \A w \in Tasks \ {u} : loc'[w] = loc[w],
         ~Unlocked(u)', UpdateOK(u)',
         loc'[u].pc \in {"scan", "fetch"} =>
           loc'[u].stale \/ \A w \in Tasks \ {u} : ~Unlocked(w)
  PROVE  UpdatesOK'
  <1>1. ~overlapped' /\ Exclusive /\ \A w \in Tasks : UpdateOK(w)
    BY DEF UpdatesOK
  <1>2. \A w \in Tasks : UpdateOK(w)'
    BY <1>1, UpdateKept
  <1>3. Exclusive'
    BY <1>1 DEF Exclusive, Unlocked
  <1> QED  BY <1>1, <1>2, <1>3 DEF UpdatesOK

\* The task leaves rollback_update().
LEMMA FailKeeps ==
  ASSUME TypeOK, UpdatesOK, ~overlapped, NEW u \in Tasks, Fail(u),
         UNCHANGED <<region, overlapped>>
  PROVE  UpdatesOK'
  BY FailLocals, LocalStep DEF Unlocked, UpdateOK

LEMMA SucceedKeeps ==
  ASSUME TypeOK, UpdatesOK, ~overlapped, NEW u \in Tasks, Succeed(u),
         UNCHANGED <<region, overlapped>>
  PROVE  UpdatesOK'
  BY SucceedLocals, LocalStep DEF Unlocked, UpdateOK

\* It enters it, and has read nothing yet.
LEMMA UpdateKeeps ==
  ASSUME TypeOK, UpdatesOK, ~overlapped, NEW u \in Tasks, NEW v, NEW e,
         rollback_update(u, v, e), Runs(u), UNCHANGED <<region, overlapped>>
  PROVE  UpdatesOK'
  <1>1. CASE protected
    BY <1>1, FailKeeps DEF rollback_update
  <1>2. CASE ~protected
    <2>1. /\ loc'[u].pc = "scan" /\ loc'[u].best = -1 /\ loc'[u].max_id = -1
          /\ loc'[u].at = 0
          /\ \A w \in Tasks \ {u} : loc'[w] = loc[w]
      <3>1. loc \in [Tasks -> Locals]
        BY DEF TypeOK
      <3>2. loc' = [loc EXCEPT ![u] =
                      [Idle EXCEPT !.pc = "scan", !.next = v, !.entropy = e,
                                   !.repeat = loc[u].repeat]]
        BY <1>2 DEF rollback_update
      <3>3. /\ loc'[u] = [Idle EXCEPT !.pc = "scan", !.next = v, !.entropy = e,
                                      !.repeat = loc[u].repeat]
            /\ \A w \in Tasks \ {u} : loc'[w] = loc[w]
        BY <3>1, <3>2
      <3> QED  BY <3>3 DEF Idle
    <2>2. ScanOK(u)'
      BY <2>1 DEF ScanOK, Regions
    <2>3. UpdateOK(u)' /\ ~Unlocked(u)'
      BY <2>1, <2>2 DEF UpdateOK, Unlocked
    <2>4. \A w \in Tasks \ {u} : ~Unlocked(w)
      BY DEF Runs
    <2> QED  BY <2>1, <2>3, <2>4, LocalStep
  <1> QED  BY <1>1, <1>2

LEMMA ScanKeeps ==
  ASSUME TypeOK, UpdatesOK, ~overlapped, NEW u \in Tasks, Scan(u)
  PROVE  UpdatesOK'
  <1> DEFINE r == loc[u].at
             better == region[r].cookie /\ region[r].id > loc[u].max_id
  <1> SUFFICES ASSUME ~Fail(u) PROVE UpdatesOK'
    BY FailKeeps DEF Scan
  <1>1. /\ loc'[u].at = r + 1
        /\ loc'[u].best = IF better THEN r ELSE loc[u].best
        /\ loc'[u].max_id = IF better THEN region[r].id ELSE loc[u].max_id
        /\ loc'[u].pc = loc[u].pc /\ loc'[u].stale = loc[u].stale
        /\ \A w \in Tasks \ {u} : loc'[w] = loc[w]
    BY DEF Scan, TypeOK, Locals
  <1>2. r \in Regions /\ loc[u].max_id \in Int
    BY DEF Scan, TypeOK, Locals, Regions, ROLLBACK_REGIONS
  <1>3. region' = region /\ overlapped' = overlapped
    BY DEF Scan
  <1>4. UpdateOK(u)'
    <2>1. SUFFICES ASSUME loc[u].pc = "scan", ~loc[u].stale PROVE ScanOK(u)'
      BY <1>1 DEF UpdateOK, Scan
    <2>2. ScanOK(u)
      BY <2>1 DEF UpdatesOK, UpdateOK
    <2>3. \A s \in Regions : region[s].id \in Int /\ region[s].id >= -1
      BY DEF TypeOK, Data
    <2>4. \A s \in Regions : s < r + 1 => s < r \/ s = r
      BY <1>2 DEF Regions, ROLLBACK_REGIONS
    <2>5. CASE better
      BY <1>1, <1>2, <1>3, <2>2, <2>3, <2>4, <2>5 DEF ScanOK
    <2>6. CASE ~better
      BY <1>1, <1>2, <1>3, <2>2, <2>3, <2>4, <2>6 DEF ScanOK
    <2> QED  BY <2>5, <2>6, Zenon
  <1>5. \A w \in Tasks \ {u} : ~Unlocked(w)
    BY DEF Scan, Runs
  <1>6. ~Unlocked(u)'
    BY <1>1 DEF Scan, Unlocked
  <1> HIDE DEF better, r
  <1> QED  BY <1>1, <1>3, <1>4, <1>5, <1>6, LocalStep

LEMMA FetchKeeps ==
  ASSUME TypeOK, RegionsOK, UpdatesOK, ~overlapped, NEW u \in Tasks, Fetch(u)
  PROVE  UpdatesOK'
  <1>0. region' = region /\ overlapped' = overlapped
    BY DEF Fetch
  <1> SUFFICES ASSUME ~Fail(u) PROVE UpdatesOK'
    BY <1>0, FailKeeps
  <1>1. CASE loc[u].pc = "scan"
    <2>1. /\ loc'[u].pc = "fetch" /\ loc'[u].best = loc[u].best
          /\ loc'[u].data = region[loc[u].best] /\ loc'[u].stale = loc[u].stale
          /\ \A w \in Tasks \ {u} : loc'[w] = loc[w]
      BY <1>1 DEF Fetch, TypeOK, Locals
    <2>2. UpdateOK(u)'
      <3>1. SUFFICES ASSUME ~loc[u].stale PROVE Latest(loc[u].best)
        BY <1>0, <2>1 DEF UpdateOK, FetchOK, Latest, Fetch
      <3>2. ScanOK(u) /\ loc[u].best \in Regions /\ loc[u].at = ROLLBACK_REGIONS
        BY <1>1, <3>1 DEF UpdatesOK, UpdateOK, Fetch
      <3>3. /\ region[loc[u].best].cookie /\ region[loc[u].best].id > -1
            /\ \A s \in Regions :
                 region[s].cookie => region[s].id <= region[loc[u].best].id
        BY <3>2 DEF ScanOK, Regions, ROLLBACK_REGIONS
      <3>4. PICK r \in Regions : Latest(r)
        BY DEF RegionsOK
      <3>5. r = loc[u].best
        BY <3>2, <3>3, <3>4, LatestUnique DEF IsLatest
      <3> QED  BY <3>4, <3>5
    <2> QED  BY <1>0, <2>1, <2>2, LocalStep DEF Fetch, Runs, Unlocked
  <1>2. CASE loc[u].pc # "scan"
    <2>1. rollback_update(u, loc[u].next, 0) /\ Runs(u)
      BY <1>2, Zenon DEF Fetch, rollback_update_version
    <2> QED  BY <1>0, <1>2, <2>1, UpdateKeeps DEF Fetch
  <1> QED  BY <1>1, <1>2

LEMMA DecideKeeps ==
  ASSUME TypeOK, RegionsOK, UpdatesOK, ~overlapped, NEW u \in Tasks, Decide(u)
  PROVE  UpdatesOK'
  <1>0. region' = region /\ overlapped' = loc[u].stale
    BY DEF Decide
  <1>1. Exclusive /\ \A w \in Tasks : UpdateOK(w)
    BY DEF UpdatesOK
  <1>2. \A w \in Tasks : ~Unlocked(w)
    BY DEF Decide, Runs, Unlocked
  <1>3. CASE loc[u].stale
    <2>1. \A w \in Tasks : loc'[w].pc # "write"
      BY <1>2, FailLocals, SucceedLocals, StartWriteLocals DEF Decide, Unlocked
    <2> QED  BY <1>0, <1>3, <2>1 DEF UpdatesOK
  <1>4. CASE ~loc[u].stale
    <2>0. overlapped' = overlapped
      BY <1>0, <1>4 DEF TypeOK, Locals
    <2>1. CASE Fail(u)
      BY <1>0, <2>0, <2>1, FailKeeps
    <2>2. CASE Succeed(u)
      BY <1>0, <2>0, <2>2, SucceedKeeps
    <2>3. CASE StartWrite(u) /\ ~Decreases(NewVersion(u), loc[u].data)
      <3> DEFINE l == loc[u].best
      <3>1. l \in Regions /\ Latest(l) /\ loc[u].data = region[l]
        BY <1>1, <1>4 DEF Decide, UpdateOK, FetchOK
      <3>2. /\ loc'[u].pc = "erase" /\ loc'[u].best = Other(l)
            /\ loc'[u].data = NewBlock(u)
        BY <2>3, <3>1, StartWriteLocals, OtherRegion
      <3>3. Follows(NewBlock(u), region[l])
        <4>1. /\ NewVersion(u) \in Int /\ region[l].version \in Int
              /\ region[l].id \in Int
          BY <3>1, RegionTyped DEF NewVersion, TypeOK, Locals
        <4>2. NewVersion(u) >= region[l].version
          BY <2>3, <3>1, <4>1 DEF Decreases
        <4>3. -1 \notin loc[u].data.secret \cup ({loc[u].entropy} \ {0})
          BY <3>1 DEF Latest, Complete, TypeOK, Locals
        <4> QED
          BY <3>1, <4>1, <4>2, <4>3
          DEF Follows, Complete, NewBlock, NextId, Latest
      <3>4. UpdateOK(u)'
        BY <1>0, <3>1, <3>2, <3>3, OtherRegion DEF UpdateOK, EraseOK, Latest
      <3>5. \A w \in Tasks \ {u} :
              /\ loc'[w].pc \notin {"erase", "write"}
              /\ loc'[w].pc \in {"scan", "fetch"} => loc'[w].stale
        BY <1>2, <2>3, StartWriteLocals DEF Unlocked
      <3>6. \A w \in Tasks : UpdateOK(w)'
        BY <3>4, <3>5 DEF UpdateOK
      <3>7. Exclusive'
        BY <3>5 DEF Exclusive, Unlocked
      <3> QED  BY <2>0, <3>6, <3>7 DEF UpdatesOK
    <2> QED  BY <2>1, <2>2, <2>3 DEF Decide
  <1> QED  BY <1>3, <1>4

\* A step of u that erases or writes leaves nothing to be shown of the others.
LEMMA FlashStep ==
  ASSUME UpdatesOK, ~overlapped, NEW u \in Tasks, Unlocked(u), UpdateOK(u)',
         Unlocked(u)', overlapped' = overlapped,
         \A w \in Tasks \ {u} : loc'[w] = loc[w]
  PROVE  UpdatesOK'
  <1>1. Exclusive /\ ~overlapped'
    BY DEF UpdatesOK
  <1>2. \A w \in Tasks \ {u} :
          /\ loc'[w].pc \notin {"erase", "write"}
          /\ loc'[w].pc \in {"scan", "fetch"} => loc'[w].stale
    BY <1>1 DEF Exclusive, Unlocked
  <1>3. \A w \in Tasks : UpdateOK(w)'
    BY <1>2 DEF UpdateOK
  <1>4. Exclusive'
    BY <1>2 DEF Exclusive, Unlocked
  <1> QED  BY <1>1, <1>3, <1>4 DEF UpdatesOK

\* One word of region r changes and nothing else.
LEMMA SetChanges ==
  ASSUME TypeOK, NEW r \in Regions, NEW f \in Fields, NEW d \in Data, Set(r, f, d)
  PROVE  /\ region'[Other(r)] = region[Other(r)]
         /\ region'[r].id = IF f = "id" THEN d.id ELSE region[r].id
         /\ region'[r].version = IF f = "version" THEN d.version ELSE region[r].version
         /\ region'[r].secret = IF f = "secret" THEN d.secret ELSE region[r].secret
         /\ region'[r].cookie = IF f = "cookie" THEN d.cookie ELSE region[r].cookie
  <1>1. /\ region[r] \in Data /\ region[Other(r)] \in Data
        /\ region'[r] = [region[r] EXCEPT ![f] = d[f]]
        /\ region'[Other(r)] = region[Other(r)]
    BY OtherRegion DEF TypeOK, Set
  <1>2. CASE f = "id"
    BY <1>1, <1>2 DEF Data
  <1>3. CASE f = "version"
    BY <1>1, <1>3 DEF Data
  <1>4. CASE f = "secret"
    BY <1>1, <1>4 DEF Data
  <1>5. CASE f = "cookie"
    BY <1>1, <1>5 DEF Data
  <1> QED  BY <1>2, <1>3, <1>4, <1>5 DEF Fields

LEMMA EraseKeeps ==
  ASSUME TypeOK, RegionsOK, UpdatesOK, ~overlapped, NEW u \in Tasks, Erase(u)
  PROVE  UpdatesOK' /\ RegionsOK'
  <1>0. EraseOK(u) /\ loc[u].best \in Regions
    BY DEF UpdatesOK, UpdateOK, Erase, EraseOK
  <1> PICK r \in Regions : r = loc[u].best
    BY <1>0
  <1> PICK s \in Regions : s = Other(r) /\ Other(s) = r
    BY OtherRegion
  <1>1. /\ Complete(region[s]) /\ region[s].id \in Int /\ region[r].id \in Int
        /\ region[r].cookie \in BOOLEAN
        /\ region[r].cookie => region[r].id < region[s].id
        /\ Follows(loc[u].data, region[s])
    BY <1>0, RegionTyped DEF EraseOK, Latest
  <1>2. ASSUME NEW f \in Fields, Set(r, f, Erased), UNCHANGED loc
        PROVE  UpdatesOK' /\ RegionsOK'
    <2>1. /\ region'[s] = region[s]
          /\ region'[r].id = IF f = "id" THEN -1 ELSE region[r].id
          /\ region'[r].cookie = IF f = "cookie" THEN FALSE ELSE region[r].cookie
      <3>1. Erased \in Data /\ Erased.id = -1 /\ Erased.cookie = FALSE
        BY ErasedIsData DEF Erased
      <3>2. /\ region'[Other(r)] = region[Other(r)]
            /\ region'[r].id = IF f = "id" THEN Erased.id ELSE region[r].id
            /\ region'[r].cookie =
                 IF f = "cookie" THEN Erased.cookie ELSE region[r].cookie
        BY <1>2, <3>1, SetChanges
      <3> QED  BY <3>1, <3>2
    <2>2. region'[r].cookie => region'[r].id < region'[s].id
      <3>1. CASE f = "id"
        BY <1>1, <2>1, <3>1 DEF Complete
      <3>2. CASE f = "cookie"
        BY <2>1, <3>2
      <3>3. CASE f \notin {"id", "cookie"}
        BY <1>1, <2>1, <3>3
      <3> QED  BY <3>1, <3>2, <3>3
    <2>3. Latest(s)'
      BY <1>1, <2>1, <2>2 DEF Latest
    <2>4. EraseOK(u)'
      <3>1. loc'[u].best = r /\ Other(loc'[u].best) = s /\ loc'[u].data = loc[u].data
        BY <1>2
      <3> QED  BY <1>1, <2>1, <2>3, <3>1 DEF EraseOK
    <2>5. UpdatesOK'
      BY <1>2, <2>4, FlashStep DEF Erase, Unlocked, UpdateOK
    <2>6. RegionsOK'
      BY <2>3 DEF RegionsOK
    <2> QED  BY <2>5, <2>6
  <1>3. ASSUME region[r] = Erased, Goto(u, "write"), UNCHANGED region
        PROVE  UpdatesOK' /\ RegionsOK'
    <2>1. /\ loc'[u].pc = "write" /\ loc'[u].best = r /\ loc'[u].data = loc[u].data
          /\ \A w \in Tasks \ {u} : loc'[w] = loc[w]
      BY <1>3 DEF Goto, TypeOK, Locals
    <2>2. WriteOK(u)'
      BY <1>1, <1>3, <2>1 DEF WriteOK, Erased
    <2>3. UpdatesOK'
      BY <2>1, <2>2, FlashStep DEF Erase, Unlocked, UpdateOK
    <2> QED  BY <1>3, <2>3 DEF RegionsOK, Latest
  <1>4. ASSUME Fail(u), UNCHANGED region
        PROVE  UpdatesOK' /\ RegionsOK'
    BY <1>4, FailKeeps DEF Erase, RegionsOK, Latest
  <1> QED  BY <1>2, <1>3, <1>4 DEF Erase

\* While the target has no cookie the other region is the latest; with its last
\* word, the cookie, the target becomes the latest.
WrittenIsLatest(u) ==
  \E r \in Regions :
    /\ Latest(r)
    /\ r = IF region[loc[u].best].cookie THEN loc[u].best ELSE Other(loc[u].best)

WrittenAreLatest == \A u \in Tasks : WriteOK(u) => WrittenIsLatest(u)

LEMMA WrittenLatest == TypeOK => WrittenAreLatest
  <1> SUFFICES ASSUME NEW u \in Tasks, TypeOK, WriteOK(u)
               PROVE  WrittenIsLatest(u)
    BY DEF WrittenAreLatest
  <1> PICK r \in Regions : r = loc[u].best
    BY DEF WriteOK
  <1> PICK s \in Regions : s = Other(r) /\ Other(s) = r
    BY OtherRegion
  <1>1. /\ Complete(region[s]) /\ region[s].id \in Int /\ region[r].id \in Int
        /\ Follows(loc[u].data, region[s])
        /\ region[r].cookie => region[r] = loc[u].data
    BY RegionTyped DEF WriteOK
  <1>2. IF region[r].cookie THEN Latest(r) ELSE Latest(s)
    BY <1>1 DEF Latest, Follows
  <1> QED  BY <1>2 DEF WrittenIsLatest

LEMMA WriteKeeps ==
  ASSUME TypeOK, RegionsOK, UpdatesOK, ~overlapped, NEW u \in Tasks, Write(u)
  PROVE  UpdatesOK' /\ RegionsOK'
  <1>0. WriteOK(u) /\ loc[u].best \in Regions /\ loc[u].data \in Data
    BY DEF UpdatesOK, UpdateOK, Write, WriteOK, TypeOK, Locals
  <1> PICK r \in Regions : r = loc[u].best
    BY <1>0
  <1> PICK s \in Regions : s = Other(r) /\ Other(s) = r
    BY OtherRegion
  <1>1. ASSUME NEW f \in Fields, IsNextField(r, f), region[r] # loc[u].data,
               Set(r, f, loc[u].data), UNCHANGED loc
        PROVE  UpdatesOK' /\ RegionsOK'
    <2> DEFINE d == loc[u].data
    <2>1. /\ region'[s] = region[s]
          /\ region'[r].id = IF f = "id" THEN d.id ELSE region[r].id
          /\ region'[r].version =
               IF f = "version" THEN d.version ELSE region[r].version
          /\ region'[r].secret = IF f = "secret" THEN d.secret ELSE region[r].secret
          /\ region'[r].cookie = IF f = "cookie" THEN d.cookie ELSE region[r].cookie
      BY <1>0, <1>1, SetChanges
    <2>2. region'[r].cookie => region'[r] = d
      <3>1. SUFFICES ASSUME f = "cookie" PROVE region'[r] = d
        BY <1>0, <1>1, <2>1 DEF WriteOK
      <3>2. region[r].id # -1 /\ region[r].version # -1 /\ region[r].secret # {-1}
        BY <1>1, <3>1 DEF IsNextField
      <3>3. region[r].id = d.id /\ region[r].version = d.version
            /\ region[r].secret = d.secret
        BY <1>0, <3>2 DEF WriteOK
      <3>4. region'[r] \in Data /\ d \in Data
        BY <1>0, <1>1, SetTyped
      <3> QED  BY <2>1, <3>1, <3>3, <3>4 DEF Data
    <2>3. WriteOK(u)'
      BY <1>0, <1>1, <2>1, <2>2 DEF WriteOK
    <2>4. UpdatesOK'
      BY <1>1, <2>3, FlashStep DEF Write, Unlocked, UpdateOK
    <2>5. TypeOK'
      BY WriteTyped
    <2>6. WrittenIsLatest(u)'
      <3>1. WrittenAreLatest'
        BY <2>5, WrittenLatest, PTL
      <3> QED  BY <2>3, <3>1 DEF WrittenAreLatest
    <2>7. RegionsOK'
      BY <2>6 DEF WrittenIsLatest, RegionsOK
    <2> QED  BY <2>4, <2>7
  <1>2. ASSUME Succeed(u), UNCHANGED region
        PROVE  UpdatesOK' /\ RegionsOK'
    BY <1>2, SucceedKeeps DEF Write, RegionsOK, Latest
  <1>3. ASSUME Fail(u), UNCHANGED region
        PROVE  UpdatesOK' /\ RegionsOK'
    BY <1>3, FailKeeps DEF Write, RegionsOK, Latest
  <1> QED  BY <1>1, <1>2, <1>3 DEF Write

LEMMA InvInit == Init => IInv
  <1> SUFFICES ASSUME Init PROVE RegionsOK /\ UpdatesOK
    BY TypeInit DEF IInv
  <1>1. \A u \in Tasks : loc[u].pc = "idle"
    BY DEF Init, Idle
  <1>2. /\ region[0] = [id |-> 0, version |-> 0, secret |-> {}, cookie |-> TRUE]
        /\ region[1] = Erased /\ Other(0) = 1 /\ 0 \in Regions
    BY DEF Init, Regions, ROLLBACK_REGIONS, Other
  <1>3. Latest(0)
    BY <1>2 DEF Latest, Complete, Erased
  <1>4. RegionsOK
    BY <1>2, <1>3 DEF RegionsOK
  <1>5. ~overlapped
    BY DEF Init
  <1>6. UpdatesOK
    BY <1>1, <1>5 DEF UpdatesOK, Exclusive, Unlocked, UpdateOK
  <1> QED  BY <1>4, <1>6

LEMMA InvStep == IInv /\ [Next]_vars => IInv'
  <1> SUFFICES ASSUME TypeOK, RegionsOK, UpdatesOK, [Next]_vars
               PROVE  RegionsOK' /\ UpdatesOK'
    BY TypeStep DEF IInv
  <1>0. ASSUME UNCHANGED <<region, loc, overlapped>>
        PROVE  RegionsOK' /\ UpdatesOK'
    <2>1. RegionsOK' /\ (Exclusive => Exclusive')
      BY <1>0 DEF RegionsOK, Latest, Exclusive, Unlocked
    <2>2. \A w \in Tasks : UpdateOK(w) => UpdateOK(w)'
      BY <1>0, UpdateKept
    <2> QED  BY <1>0, <2>1, <2>2 DEF UpdatesOK
  <1>1. CASE UNCHANGED vars
    BY <1>0, <1>1 DEF vars
  <1> SUFFICES ASSUME ~overlapped, Behaviour PROVE RegionsOK' /\ UpdatesOK'
    BY <1>1 DEF Next
  <1>2. region' = region => RegionsOK'
    BY DEF RegionsOK, Latest
  <1>3. ASSUME NEW u \in Tasks, Step(u) PROVE RegionsOK' /\ UpdatesOK'
    <2>1. CASE Scan(u)
      <3>1. region' = region
        BY <2>1, Zenon DEF Scan
      <3> QED  BY <1>2, <2>1, <3>1, ScanKeeps
    <2>2. CASE Fetch(u)
      <3>1. region' = region
        BY <2>2, Zenon DEF Fetch
      <3> QED  BY <1>2, <2>2, <3>1, FetchKeeps
    <2>3. CASE Decide(u)
      <3>1. region' = region
        BY <2>3, Zenon DEF Decide
      <3> QED  BY <1>2, <2>3, <3>1, DecideKeeps
    <2> QED  BY <1>3, <2>1, <2>2, <2>3, EraseKeeps, WriteKeeps DEF Step
  <1>4. ASSUME NEW u \in Tasks, UNCHANGED <<region, overlapped>>,
               loc'[u].pc \in {"idle", "again", "check"},
               \A w \in Tasks \ {u} : loc'[w] = loc[w]
        PROVE  RegionsOK' /\ UpdatesOK'
    BY <1>2, <1>4, LocalStep DEF Unlocked, UpdateOK
  <1>5. ASSUME NEW v \in Images, rwsig_check_signature(v)
        PROVE  RegionsOK' /\ UpdatesOK'
    <2>1. RWSIG \in Tasks /\ loc'[RWSIG].pc = "check"
          /\ \A w \in Tasks \ {RWSIG} : loc'[w] = loc[w]
      BY <1>5 DEF rwsig_check_signature, TypeOK, Idle, RWSIG, Tasks
    <2> QED  BY <1>4, <1>5, <2>1 DEF rwsig_check_signature
  <1>6. ASSUME NEW v \in 0 .. VERSION, command_rollback(v)
        PROVE  RegionsOK' /\ UpdatesOK'
    BY <1>2, <1>6, UpdateKeeps
    DEF command_rollback, rollback_update_version, rollback_add_entropy, CONSOLE,
        Tasks
  <1>7. ASSUME NEW action \in {"ASYNC", "RESET_ASYNC"},
               hc_rollback_add_entropy(action)
        PROVE  RegionsOK' /\ UpdatesOK'
    BY <1>0, <1>7 DEF hc_rollback_add_entropy
  <1>8. CASE add_entropy_deferred
    <2>1. HOOKS \in Tasks /\ loc'[HOOKS].pc = "again"
          /\ \A w \in Tasks \ {HOOKS} : loc'[w] = loc[w]
      BY <1>8 DEF add_entropy_deferred, TypeOK, Idle, HOOKS, Tasks
    <2> QED  BY <1>4, <1>8, <2>1 DEF add_entropy_deferred
  <1>9. CASE Again
    <2>1. HOOKS \in Tasks
      BY DEF HOOKS, Tasks
    <2> QED
      BY <1>2, <1>9, <2>1, FailKeeps, UpdateKeeps DEF Again, rollback_add_entropy
  <1>10. ASSUME NEW b \in BOOLEAN, Protect(b) PROVE RegionsOK' /\ UpdatesOK'
    BY <1>0, <1>10 DEF Protect
  <1>11. CASE Reboot
    <2>1. ~overlapped' /\ \A u \in Tasks : loc'[u].pc = "idle"
      BY <1>11 DEF Reboot, Idle
    <2>2. UpdatesOK'
      BY <2>1 DEF UpdatesOK, Exclusive, Unlocked, UpdateOK
    <2> QED  BY <1>2, <1>11, <2>2 DEF Reboot
  <1> QED
    BY <1>3, <1>5, <1>6, <1>7, <1>8, <1>9, <1>10, <1>11 DEF Behaviour

\* The inductive invariant holds: there is a latest region, and every update
\* under way is consistent with it.
THEOREM RollbackInvariance == Spec => []IInv
  BY InvInit, InvStep, PTL DEF Spec

-----------------------------------------------------------------------------
(* The properties                                                          *)

LatestIsInEffect == \A r \in Regions : Latest(r) => InEffect = region[r]

LEMMA InvInEffect == IInv => LatestIsInEffect
  BY LatestInEffect DEF IInv, LatestIsInEffect

\* At every moment of every update, and after a power failure at that moment,
\* get_latest_rollback() finds a region, and a complete one.
THEOREM Readable == Spec => []AlwaysReadable
  <1>1. IInv => AlwaysReadable
    <2> SUFFICES ASSUME IInv
                 PROVE  /\ \E r \in Regions : IsLatest(r)
                        /\ InEffect.version >= 0 /\ -1 \notin InEffect.secret
      BY DEF AlwaysReadable
    <2>1. PICK r \in Regions : Latest(r)
      BY DEF IInv, RegionsOK
    <2>2. IsLatest(r) /\ InEffect = region[r]
      BY <2>1, LatestUnique, LatestInEffect DEF IInv
    <2> QED  BY <2>1, <2>2 DEF Latest, Complete
  <1> QED  BY <1>1, RollbackInvariance, PTL

\* Whenever flash_write() has written the last word, so that rollback_update()
\* is about to return success, the new block is the one in effect.
THEOREM SuccessTakesEffect == Spec => []SuccessInEffect
  <1>1. IInv => SuccessInEffect
    <2> SUFFICES ASSUME IInv, NEW u \in Tasks, loc[u].pc = "write",
                        region[loc[u].best] = loc[u].data
                 PROVE  InEffect = loc[u].data
      BY DEF SuccessInEffect
    <2>1. TypeOK /\ WriteOK(u)
      BY DEF IInv, UpdatesOK, UpdateOK
    <2>2. region[loc[u].best].cookie
      BY <2>1 DEF WriteOK, Follows, Complete
    <2>3. loc[u].best \in Regions /\ Latest(loc[u].best)
      BY <2>1, <2>2, WrittenLatest DEF WrittenAreLatest, WrittenIsLatest
    <2> QED  BY <2>1, <2>3, LatestInEffect
  <1> QED  BY <1>1, RollbackInvariance, PTL

\* What is in effect after a step follows what was in effect before it.
Advances ==
  /\ InEffect.version <= InEffect'.version
  /\ InEffect.secret \subseteq InEffect'.secret

LEMMA EraseAdvances ==
  ASSUME IInv, IInv', ~overlapped, NEW u \in Tasks, Erase(u)
  PROVE  region' = region \/ InEffect' = InEffect
  <1> SUFFICES ASSUME NEW f \in Fields, Set(loc[u].best, f, Erased), UNCHANGED loc
               PROVE  InEffect' = InEffect
    BY DEF Erase
  <1>0. TypeOK /\ LatestIsInEffect /\ LatestIsInEffect'
    BY InvInEffect, PTL DEF IInv
  <1>1. EraseOK(u)
    BY DEF IInv, UpdatesOK, UpdateOK, Erase
  <1>2. EraseOK(u)'
    BY DEF IInv, UpdatesOK, UpdateOK, Erase
  <1> PICK s \in Regions : s = Other(loc[u].best)
    BY <1>1, OtherRegion DEF EraseOK
  <1>3. Latest(s) /\ Latest(s)'
    BY <1>1, <1>2 DEF EraseOK
  <1>4. region'[s] = region[s]
    BY <1>0, <1>1, SetChanges, ErasedIsData DEF EraseOK
  <1> QED  BY <1>0, <1>3, <1>4 DEF LatestIsInEffect

LEMMA WriteAdvances ==
  ASSUME IInv, IInv', ~overlapped, NEW u \in Tasks, Write(u)
  PROVE  region' = region \/ Advances
  <1> SUFFICES ASSUME NEW f \in Fields, Set(loc[u].best, f, loc[u].data),
                      region[loc[u].best] # loc[u].data, UNCHANGED loc
               PROVE  Advances
    BY DEF Write
  <1>0. TypeOK /\ LatestIsInEffect /\ LatestIsInEffect' /\ TypeOK'
    BY InvInEffect, PTL DEF IInv
  <1>1. WriteOK(u) /\ WrittenIsLatest(u)
    BY WrittenLatest DEF IInv, UpdatesOK, UpdateOK, Write, WrittenAreLatest
  <1>2. WriteOK(u)' /\ WrittenIsLatest(u)'
    <2>1. WrittenAreLatest'
      BY <1>0, WrittenLatest, PTL
    <2> QED  BY <2>1 DEF IInv, UpdatesOK, UpdateOK, Write, WrittenAreLatest
  <1> PICK r \in Regions : r = loc[u].best
    BY <1>1 DEF WriteOK
  <1> PICK s \in Regions : s = Other(r)
    BY OtherRegion
  <1>3. region'[s] = region[s]
    BY <1>0, SetChanges DEF TypeOK, Locals
  <1>4. InEffect = region[s]
    <2>1. ~region[r].cookie
      BY <1>1 DEF WriteOK
    <2> QED  BY <1>0, <1>1, <2>1 DEF WrittenIsLatest, LatestIsInEffect
  <1>5. InEffect' \in {region[s], loc[u].data}
    <2>1. CASE region'[r].cookie
      <3>1. region'[r] = loc[u].data
        BY <1>2, <2>1 DEF WriteOK
      <3>2. Latest(r)'
        BY <1>2, <2>1 DEF WrittenIsLatest
      <3> QED  BY <1>0, <3>1, <3>2 DEF LatestIsInEffect
    <2>2. CASE ~region'[r].cookie
      <3>1. Latest(s)'
        BY <1>2, <2>2 DEF WrittenIsLatest
      <3> QED  BY <1>0, <1>3, <3>1 DEF LatestIsInEffect
    <2> QED  BY <2>1, <2>2
  <1>6. Follows(loc[u].data, region[s]) /\ region[s].version \in Int
        /\ loc[u].data.version \in Int
    BY <1>0, <1>1, RegionTyped DEF WriteOK, TypeOK, Locals, Data
  <1> QED  BY <1>4, <1>5, <1>6 DEF Advances, Follows

LEMMA NextAdvances == IInv /\ IInv' /\ [Next]_vars => Advances
  <1> SUFFICES ASSUME IInv, IInv', [Next]_vars PROVE Advances
    OBVIOUS
  <1>0. PICK r \in Regions : Latest(r)
    BY DEF IInv, RegionsOK
  <1>1. InEffect.version \in Int
    BY <1>0, RegionTyped, InvInEffect DEF IInv, LatestIsInEffect
  <1>2. ASSUME InEffect' = InEffect PROVE Advances
    BY <1>1, <1>2 DEF Advances
  <1>3. region' = region => InEffect' = InEffect
    BY DEF InEffect, IsLatest
  <1>4. CASE overlapped \/ UNCHANGED vars
    BY <1>2, <1>3, <1>4 DEF Next, vars
  <1>5. ASSUME ~overlapped, NEW u \in Tasks, Step(u) PROVE Advances
    BY <1>2, <1>3, <1>5, EraseAdvances, WriteAdvances
    DEF Step, Scan, Fetch, Decide
  <1>6. ASSUME ~overlapped, Behaviour, \A u \in Tasks : ~Step(u) PROVE Advances
    BY <1>2, <1>3, <1>6
    DEF Behaviour, rwsig_check_signature, command_rollback,
        hc_rollback_add_entropy, add_entropy_deferred, Again, Protect, Reboot
  <1> QED  BY <1>4, <1>5, <1>6 DEF Next

\* "Do not accept to decrease the value": up to the first update that was made
\* on stale data, and not including it, no step of an update, no failure and
\* no reboot takes the minimum version in effect back or drops entropy.  That
\* update does: it has compared with what it read before another one wrote.
THEOREM VersionsAdvance == Spec => NeverDecreases
  <1>1. IInv /\ IInv' /\ [Next]_vars => [~overlapped' => Advances]_vars
    BY NextAdvances
  <1> QED
    BY <1>1, RollbackInvariance, PTL DEF Spec, NeverDecreases, Advances

-----------------------------------------------------------------------------
(* The reset of the secret                                                 *)

LEMMA StaysBelow ==
  ASSUME NEW x \in Int, NEW y \in {x, x + 1}, NEW n \in Int, n <= x + 1
  PROVE  n <= y + 1
  OBVIOUS

LEMMA ZeroBelow ==
  ASSUME NEW x \in 0 .. ADDITIONS, NEW m, m = 0
  PROVE  m <= x + 1
  BY RollbackAssumption

\* A step that leaves the request alone: the hook task is where it was, and
\* what is in effect has grown at most.
LEMMA RequestKept ==
  ASSUME TypeOK, TypeOK', ResetOK, SameUpdate(HOOKS), Advances,
         UNCHANGED <<add_entropy_action, add_entropy_rv, deferred, mark>>,
         additions' \in {additions, additions + 1},
         Unlocked(HOOKS) =>
           region'[Other(loc[HOOKS].best)] = region[Other(loc[HOOKS].best)]
  PROVE  ResetOK'
  <1>1. additions \in Int /\ additions' \in Int /\ mark \in Int
    BY DEF TypeOK
  <1>2. RequestOK => RequestOK'
    BY DEF RequestOK, SameUpdate, Advances, Fresh, Unlocked
  <1>3. mark' <= additions' + 1
    <2>1. mark <= additions + 1 /\ mark' = mark
      BY DEF ResetOK
    <2> QED  BY <1>1, <2>1, StaysBelow
  <1>4. /\ loc'[HOOKS].pc = loc[HOOKS].pc /\ loc'[HOOKS].entropy = loc[HOOKS].entropy
        /\ UNCHANGED <<add_entropy_action, add_entropy_rv, deferred>>
    BY DEF SameUpdate
  <1> HIDE DEF SameUpdate
  <1> QED  BY <1>2, <1>3, <1>4 DEF ResetOK

LEMMA SameLocals ==
  ASSUME NEW u \in Tasks, loc'[u] = loc[u] PROVE SameUpdate(u)
  BY DEF SameUpdate

\* What is written or erased after a reset has nothing of the old secret.
LEMMA SecretsKept ==
  ASSUME IInv, ~overlapped, NEW u \in Tasks, Erase(u) \/ Write(u),
         OldSecretGone, UNCHANGED <<add_entropy_action, add_entropy_rv, mark>>
  PROVE  OldSecretGone'
  <1> SUFFICES ASSUME \A r \in Regions : region[r].secret = {-1}
                                         \/ Fresh(region[r].secret)
               PROVE  \A r \in Regions : region'[r].secret = {-1}
                                         \/ Fresh(region'[r].secret)
    BY DEF OldSecretGone, Fresh, Erase, Write
  <1>0. TypeOK
    BY DEF IInv
  <1>1. CASE region' = region
    BY <1>1
  <1>2. ASSUME Erase(u), NEW f \in Fields, Set(loc[u].best, f, Erased)
        PROVE  \A r \in Regions : region'[r].secret = {-1} \/ Fresh(region'[r].secret)
    <2> PICK r \in Regions : r = loc[u].best
      BY <1>2 DEF IInv, UpdatesOK, UpdateOK, Erase, EraseOK
    <2>1. /\ region'[Other(r)] = region[Other(r)]
          /\ region'[r].secret \in {{-1}, region[r].secret}
      BY <1>0, <1>2, SetChanges, ErasedIsData DEF Erased
    <2> QED  BY <2>1, OtherRegion
  <1>3. ASSUME Write(u), NEW f \in Fields, Set(loc[u].best, f, loc[u].data)
        PROVE  \A r \in Regions : region'[r].secret = {-1} \/ Fresh(region'[r].secret)
    <2>0. WriteOK(u) /\ loc[u].data \in Data
      BY <1>0, <1>3 DEF IInv, UpdatesOK, UpdateOK, Write, TypeOK, Locals
    <2> PICK r \in Regions : r = loc[u].best
      BY <2>0 DEF WriteOK
    <2>1. /\ region'[Other(r)] = region[Other(r)]
          /\ region'[r].secret \in {loc[u].data.secret, region[r].secret}
      BY <1>0, <1>3, <2>0, SetChanges
    <2>2. Fresh(region[Other(r)].secret)
      BY <2>0, OtherRegion DEF WriteOK, Complete
    <2>3. Fresh(loc[u].data.secret)
      BY <2>0, <2>2 DEF WriteOK, Follows, Fresh
    <2> QED  BY <2>1, <2>3, OtherRegion
  <1> QED  BY <1>1, <1>2, <1>3 DEF Erase, Write

\* The hook task's update fails.
LEMMA HookFails ==
  ASSUME TypeOK, ResetOK, loc[HOOKS].pc # "idle", Fail(HOOKS), additions' = additions
  PROVE  ResetOK' /\ OldSecretGone'
  <1>1. /\ loc'[HOOKS].pc = "idle" /\ add_entropy_rv' = "ERROR"
        /\ UNCHANGED <<add_entropy_action, deferred, mark>>
    BY FailLocals DEF Fail, Failed, HOOKS, Tasks
  <1>2. ~deferred /\ mark <= additions + 1
    BY DEF ResetOK
  <1>3. ResetOK'
    BY <1>1, <1>2 DEF ResetOK, RequestOK
  <1> QED  BY <1>1, <1>3 DEF OldSecretGone

\* A step of the hook task's own update.
LEMMA HookStep ==
  ASSUME IInv, IInv', Advances, ~overlapped, ~overlapped', ResetOK, OldSecretGone,
         Step(HOOKS)
  PROVE  ResetOK' /\ OldSecretGone'
  <1>0. /\ HOOKS \in Tasks /\ TypeOK /\ TypeOK' /\ loc[HOOKS] \in Locals
        /\ loc'[HOOKS] \in Locals
    BY DEF HOOKS, Tasks, IInv, TypeOK
  <1>1. ASSUME Fail(HOOKS), additions' = additions
        PROVE  ResetOK' /\ OldSecretGone'
    BY <1>0, <1>1, HookFails DEF Step, Scan, Fetch, Decide, Erase, Write
  <1>7. ASSUME loc[HOOKS].pc = "scan", loc'[HOOKS].pc \in {"scan", "fetch"},
               loc'[HOOKS].entropy = loc[HOOKS].entropy,
               loc'[HOOKS].repeat = loc[HOOKS].repeat,
               UNCHANGED <<region, add_entropy_action, add_entropy_rv, deferred,
                           mark, additions>>
        PROVE  ResetOK' /\ OldSecretGone'
    <2>1. InEffect' = InEffect
      BY <1>7 DEF InEffect, IsLatest
    <2>2. RequestOK => RequestOK'
      BY <1>7, <2>1 DEF RequestOK, Fresh
    <2>3. ResetOK'
      BY <1>7, <2>2 DEF ResetOK
    <2> QED  BY <1>7, <2>3 DEF OldSecretGone
  <1>2. CASE Scan(HOOKS)
    <2> SUFFICES ASSUME ~Fail(HOOKS) PROVE ResetOK' /\ OldSecretGone'
      BY <1>1, <1>2 DEF Scan, bounds
    <2>0. loc[HOOKS].pc = "scan"
      BY <1>2 DEF Scan, ResetOK
    <2>1. /\ loc'[HOOKS].pc = "scan" /\ loc'[HOOKS].entropy = loc[HOOKS].entropy
          /\ loc'[HOOKS].repeat = loc[HOOKS].repeat
      BY <1>0, <1>2, <2>0, ScanChanges
    <2>2. UNCHANGED <<region, add_entropy_action, add_entropy_rv, deferred, mark,
                      additions>>
      <3>1. UNCHANGED <<region, request, bounds>>
        BY <1>2 DEF Scan
      <3> QED  BY <3>1 DEF request, bounds
    <2> QED  BY <1>7, <2>0, <2>1, <2>2
  <1>3. CASE Fetch(HOOKS)
    <2> SUFFICES ASSUME ~(Fail(HOOKS) /\ additions' = additions)
                 PROVE  ResetOK' /\ OldSecretGone'
      BY <1>1
    <2>0. loc[HOOKS].pc = "scan"
      BY <1>3 DEF Fetch, ResetOK
    <2>1. /\ loc'[HOOKS].pc = "fetch" /\ loc'[HOOKS].entropy = loc[HOOKS].entropy
          /\ loc'[HOOKS].repeat = loc[HOOKS].repeat
      BY <1>0, <1>3, <2>0 DEF Fetch, TypeOK, Locals
    <2>2. UNCHANGED <<region, add_entropy_action, add_entropy_rv, deferred, mark,
                      additions>>
      BY <1>3, <2>0 DEF Fetch, request
    <2> QED  BY <1>7, <2>0, <2>1, <2>2
  <1>4. CASE Decide(HOOKS)
    <2>0. /\ loc[HOOKS].pc = "fetch" /\ loc[HOOKS].entropy > 0 /\ ~loc[HOOKS].stale
          /\ UNCHANGED <<region, additions>>
      BY <1>4 DEF Decide, bounds, ResetOK
    <2>1. CASE Fail(HOOKS)
      BY <1>1, <2>0, <2>1
    <2>2. CASE StartWrite(HOOKS)
      <3>1. /\ FetchOK(HOOKS) /\ loc[HOOKS].best \in Regions
            /\ InEffect = loc[HOOKS].data
        BY <1>0, <2>0, LatestInEffect DEF IInv, UpdatesOK, UpdateOK, FetchOK
      <3>2. /\ loc'[HOOKS].pc = "erase" /\ loc'[HOOKS].best = Other(loc[HOOKS].best)
            /\ loc'[HOOKS].data.secret =
                 loc[HOOKS].data.secret \cup {loc[HOOKS].entropy}
            /\ loc'[HOOKS].repeat = loc[HOOKS].repeat
        <4>1. loc[HOOKS].entropy # 0
          BY <1>0, <2>0 DEF Locals
        <4>2. NewBlock(HOOKS).secret = loc[HOOKS].data.secret \cup {loc[HOOKS].entropy}
          BY <4>1 DEF NewBlock
        <4> QED
          BY <1>0, <2>2, <3>1, <4>2, StartWriteLocals, OtherRegion
      <3>3. UNCHANGED <<add_entropy_action, add_entropy_rv, deferred, mark>>
        BY <2>2 DEF StartWrite, request
      <3>4. region'[Other(loc'[HOOKS].best)].secret = InEffect.secret
        BY <2>0, <3>1, <3>2, OtherRegion DEF FetchOK
      <3>5. RequestOK => RequestOK'
        BY <2>0, <3>2, <3>3, <3>4 DEF RequestOK, Fresh
      <3>6. ResetOK'
        BY <2>0, <3>2, <3>3, <3>5 DEF ResetOK
      <3> QED  BY <2>0, <3>3, <3>6 DEF OldSecretGone
    <2>3. loc[HOOKS].entropy # 0
      BY <1>0, <2>0 DEF Locals
    <2> QED  BY <1>4, <2>1, <2>2, <2>3 DEF Decide
  <1>5. CASE Erase(HOOKS)
    <2>0. loc[HOOKS].pc = "erase" /\ UNCHANGED additions
      BY <1>5 DEF Erase, bounds
    <2>1. CASE Fail(HOOKS)
      BY <1>1, <2>0, <2>1
    <2>2. ASSUME NEW f \in Fields, Set(loc[HOOKS].best, f, Erased),
                 UNCHANGED <<loc, request>>
          PROVE  ResetOK' /\ OldSecretGone'
      <3>1. region'[Other(loc[HOOKS].best)] = region[Other(loc[HOOKS].best)]
        BY <1>0, <2>0, <2>2, SetChanges, ErasedIsData
        DEF IInv, UpdatesOK, UpdateOK, EraseOK
      <3>2. SameUpdate(HOOKS) /\ OldSecretGone'
        BY <1>0, <1>5, <2>2, SecretsKept DEF SameUpdate, request
      <3> QED  BY <1>0, <2>0, <2>2, <3>1, <3>2, RequestKept DEF request
    <2>3. ASSUME Goto(HOOKS, "write"), UNCHANGED <<region, request>>
          PROVE  ResetOK' /\ OldSecretGone'
      <3>1. /\ loc'[HOOKS].pc = "write" /\ loc'[HOOKS].data = loc[HOOKS].data
            /\ loc'[HOOKS].repeat = loc[HOOKS].repeat
            /\ loc'[HOOKS].best = loc[HOOKS].best
        BY <1>0, <2>3 DEF Goto, TypeOK, Locals
      <3>2. UNCHANGED <<region, add_entropy_action, add_entropy_rv, deferred, mark>>
        BY <2>3 DEF request
      <3>3. RequestOK => RequestOK'
        BY <2>0, <3>1, <3>2 DEF RequestOK, Fresh
      <3>4. ResetOK'
        BY <2>0, <3>1, <3>2, <3>3 DEF ResetOK
      <3> QED  BY <3>2, <3>4 DEF OldSecretGone
    <2> QED  BY <1>5, <2>1, <2>2, <2>3 DEF Erase
  <1>6. CASE Write(HOOKS)
    <2>0. loc[HOOKS].pc = "write" /\ UNCHANGED additions
      BY <1>6 DEF Write, bounds
    <2>1. CASE Fail(HOOKS)
      BY <1>1, <2>0, <2>1
    <2>2. ASSUME NEW f \in Fields, Set(loc[HOOKS].best, f, loc[HOOKS].data),
                 UNCHANGED <<loc, request>>
          PROVE  ResetOK' /\ OldSecretGone'
      <3>1. region'[Other(loc[HOOKS].best)] = region[Other(loc[HOOKS].best)]
        BY <1>0, <2>0, <2>2, SetChanges
        DEF IInv, UpdatesOK, UpdateOK, WriteOK, Locals
      <3>2. SameUpdate(HOOKS) /\ OldSecretGone'
        BY <1>0, <1>6, <2>2, SecretsKept DEF SameUpdate, request
      <3> QED  BY <1>0, <2>0, <2>2, <3>1, <3>2, RequestKept DEF request
    <2>3. ASSUME Succeed(HOOKS), region[loc[HOOKS].best] = loc[HOOKS].data,
                 UNCHANGED region
          PROVE  ResetOK' /\ OldSecretGone'
      <3>0. /\ UNCHANGED <<add_entropy_action, deferred, mark, additions>>
            /\ ~deferred /\ add_entropy_rv = "BUSY" /\ mark <= additions + 1
            /\ add_entropy_action = "RESET_ASYNC" => RequestOK
        BY <2>0, <2>3 DEF Succeed, ResetOK
      <3>1. WriteOK(HOOKS) /\ loc[HOOKS].best \in Regions
        BY <1>0, <2>0 DEF IInv, UpdatesOK, UpdateOK, WriteOK
      <3>2. InEffect' = loc[HOOKS].data
        <4>1. region[loc[HOOKS].best].cookie
          BY <2>3, <3>1 DEF WriteOK, Follows, Complete
        <4>2. Latest(loc[HOOKS].best)
          BY <1>0, <3>1, <4>1, WrittenLatest DEF WrittenAreLatest, WrittenIsLatest
        <4>3. InEffect = region[loc[HOOKS].best]
          BY <1>0, <3>1, <4>2, LatestInEffect
        <4> QED  BY <2>3, <4>3 DEF InEffect, IsLatest
      <3>3. CASE loc[HOOKS].repeat > 0
        <4>1. loc'[HOOKS].pc = "again" /\ add_entropy_rv' = "BUSY"
          BY <1>0, <2>3, <3>0, <3>3 DEF Succeed, TypeOK, Idle
        <4>2. RequestOK => RequestOK'
          BY <2>0, <3>0, <3>2, <4>1 DEF RequestOK, Fresh
        <4>3. ResetOK'
          BY <3>0, <4>1, <4>2 DEF ResetOK
        <4> QED  BY <4>1, <4>3 DEF OldSecretGone
      <3>4. CASE loc[HOOKS].repeat = 0
        <4>1. loc'[HOOKS].pc = "idle"
          BY <1>0, <2>3, <3>4 DEF Succeed, TypeOK, Idle
        <4>2. ResetOK'
          BY <3>0, <4>1 DEF ResetOK, RequestOK
        <4>3. add_entropy_action = "RESET_ASYNC" =>
                \A r \in Regions : Fresh(region[r].secret)
          BY <2>0, <2>3, <3>0, <3>1, <3>4, OtherRegion DEF RequestOK
        <4>4. OldSecretGone'
          BY <2>3, <3>0, <4>3 DEF OldSecretGone, Fresh
        <4> QED  BY <4>2, <4>4
      <3>5. loc[HOOKS].repeat \in {0, 1}
        BY <1>0 DEF Locals, Regions, ROLLBACK_REGIONS
      <3> QED  BY <3>3, <3>4, <3>5
    <2> QED  BY <1>6, <2>1, <2>2, <2>3 DEF Write
  <1> QED  BY <1>2, <1>3, <1>4, <1>5, <1>6 DEF Step

\* A step outside the flash that leaves the request alone.
LEMMA RequestStep ==
  ASSUME IInv, IInv', Advances, ResetOK, OldSecretGone, ~overlapped, ~overlapped',
         SameUpdate(HOOKS), region' = region,
         UNCHANGED <<add_entropy_action, add_entropy_rv, deferred, mark>>,
         additions' \in {additions, additions + 1}
  PROVE  ResetOK' /\ OldSecretGone'
  <1>1. ResetOK'
    BY RequestKept DEF IInv
  <1> QED  BY <1>1 DEF OldSecretGone

\* A step of the update of another task.
LEMMA OtherStep ==
  ASSUME IInv, IInv', Advances, ~overlapped, ~overlapped', ResetOK, OldSecretGone,
         NEW u \in Tasks \ {HOOKS}, Step(u)
  PROVE  ResetOK' /\ OldSecretGone'
  <1>0. TypeOK /\ TypeOK' /\ HOOKS \in Tasks \ {u} /\ u \in Tasks
    BY DEF IInv, HOOKS, Tasks
  <1>1. ASSUME Fail(u) PROVE SameUpdate(HOOKS) /\ UNCHANGED request
    BY <1>0, <1>1, FailLocals, SameLocals DEF Fail, Failed, request
  <1>2. ASSUME Succeed(u) PROVE SameUpdate(HOOKS) /\ UNCHANGED request
    BY <1>0, <1>2, SucceedLocals, SameLocals DEF Succeed, request
  <1>3. CASE Scan(u)
    <2>1. UNCHANGED <<region, additions>>
      BY <1>3 DEF Scan, bounds
    <2>2. SameUpdate(HOOKS) /\ UNCHANGED request
      <3>1. CASE Fail(u)
        BY <1>1, <3>1
      <3>2. CASE ~Fail(u)
        BY <1>0, <1>3, <3>2, SameLocals DEF Scan, TypeOK
      <3> QED  BY <3>1, <3>2
    <2> QED  BY <2>1, <2>2, RequestStep DEF request
  <1>4. CASE Fetch(u)
    <2>1. UNCHANGED <<region, additions>>
      BY <1>4 DEF Fetch, rollback_update_version, rollback_update
    <2>2. SameUpdate(HOOKS) /\ UNCHANGED request
      <3>1. CASE Fail(u)
        BY <1>1, <3>1
      <3>2. CASE ~Fail(u)
        BY <1>0, <1>4, <3>2, SameLocals
        DEF Fetch, rollback_update_version, rollback_update, TypeOK
      <3> QED  BY <3>1, <3>2
    <2> QED  BY <2>1, <2>2, RequestStep DEF request
  <1>5. CASE Decide(u)
    <2>1. UNCHANGED <<region, additions>>
      BY <1>5 DEF Decide, bounds
    <2>2. SameUpdate(HOOKS) /\ UNCHANGED request
      <3>1. ASSUME StartWrite(u) PROVE SameUpdate(HOOKS) /\ UNCHANGED request
        BY <1>0, <3>1, StartWriteLocals DEF StartWrite
      <3> QED  BY <1>1, <1>2, <1>5, <3>1 DEF Decide
    <2> QED  BY <2>1, <2>2, RequestStep DEF request
  <1>6. CASE Erase(u) \/ Write(u)
    <2>1. UNCHANGED additions /\ Unlocked(u)
      BY <1>6 DEF Erase, Write, bounds, Unlocked
    <2>2. SameUpdate(HOOKS) /\ UNCHANGED request
      <3>1. ASSUME Goto(u, "write") PROVE loc'[HOOKS] = loc[HOOKS]
        BY <1>0, <3>1 DEF Goto, TypeOK
      <3> QED  BY <1>0, <1>1, <1>2, <1>6, <3>1, SameLocals DEF Erase, Write
    <2>3. ~Unlocked(HOOKS)
      BY <1>0, <2>1 DEF IInv, UpdatesOK, Exclusive
    <2>4. ResetOK'
      BY <1>0, <2>1, <2>2, <2>3, RequestKept DEF request
    <2> QED  BY <1>6, <2>2, <2>4, SecretsKept DEF request
  <1> QED  BY <1>3, <1>4, <1>5, <1>6 DEF Step

\* The hook task calls rollback_add_entropy().
LEMMA AgainStep ==
  ASSUME IInv, IInv', ResetOK, ~overlapped, Again
  PROVE  ResetOK' /\ OldSecretGone'
  <1>0. TypeOK /\ HOOKS \in Tasks /\ loc[HOOKS].pc = "again"
    BY DEF IInv, HOOKS, Tasks, Again
  <1>1. CASE Fail(HOOKS) /\ additions' = additions
    BY <1>0, <1>1, HookFails
  <1>2. CASE ~(Fail(HOOKS) /\ additions' = additions)
    <2>1. additions \in Nat /\ mark \in Nat
      BY <1>0, RollbackAssumption DEF TypeOK
    <2>2. additions + 1 # 0 /\ additions + 1 > 0
      BY <2>1
    <2>3. ~protected
      BY <1>2 DEF Again, rollback_add_entropy, rollback_update
    <2>4. /\ loc'[HOOKS].pc = "scan" /\ loc'[HOOKS].entropy = additions + 1
          /\ loc'[HOOKS].repeat = loc[HOOKS].repeat
          /\ additions' = additions + 1
          /\ UNCHANGED <<region, add_entropy_action, add_entropy_rv, deferred, mark>>
      <3>1. /\ loc' = [loc EXCEPT ![HOOKS] =
                          [Idle EXCEPT !.pc = "scan", !.next = -1,
                                       !.entropy = additions + 1,
                                       !.repeat = loc[HOOKS].repeat]]
            /\ additions' = additions + 1 /\ UNCHANGED request
        BY <1>2, <2>2, <2>3 DEF Again, rollback_add_entropy, rollback_update
      <3>2. loc'[HOOKS] = [Idle EXCEPT !.pc = "scan", !.next = -1,
                                       !.entropy = additions + 1,
                                       !.repeat = loc[HOOKS].repeat]
        BY <1>0, <3>1 DEF TypeOK
      <3>3. region' = region
        BY <1>2, Zenon DEF Again
      <3>4. /\ loc'[HOOKS].pc = "scan" /\ loc'[HOOKS].entropy = additions + 1
            /\ loc'[HOOKS].repeat = loc[HOOKS].repeat
        BY <3>2 DEF Idle
      <3>5. UNCHANGED <<add_entropy_action, add_entropy_rv, deferred, mark>>
        BY <3>1 DEF request
      <3> QED  BY <3>1, <3>3, <3>4, <3>5
    <2>5. mark <= additions + 1 /\ ~deferred /\ add_entropy_rv = "BUSY"
      BY <1>0 DEF ResetOK
    <2>6. mark <= additions' + 1
      BY <2>1, <2>4, <2>5, StaysBelow
    <2>7. loc'[HOOKS].entropy >= mark
      BY <2>1, <2>4, <2>5
    <2>8. InEffect' = InEffect
      BY <2>4 DEF InEffect, IsLatest
    <2>9. RequestOK => RequestOK'
      BY <1>0, <2>4, <2>7, <2>8 DEF RequestOK, Fresh
    <2>10. ResetOK'
      BY <2>2, <2>4, <2>5, <2>6, <2>9 DEF ResetOK
    <2> QED  BY <2>4, <2>5, <2>10 DEF OldSecretGone
  <1> QED  BY <1>1, <1>2

LEMMA ResetStep == IInv /\ IInv' /\ ResetInv /\ [Next]_vars => ResetInv'
  <1> SUFFICES ASSUME IInv, IInv', ResetInv, [Next]_vars, ~overlapped'
               PROVE  ResetOK' /\ OldSecretGone'
    BY DEF ResetInv
  <1>0. TypeOK /\ TypeOK' /\ Advances /\ HOOKS \in Tasks
    BY NextAdvances DEF IInv, HOOKS, Tasks
  <1>1. ~overlapped
    BY DEF Next, vars
  <1>2. ResetOK /\ OldSecretGone
    BY <1>1 DEF ResetInv
  <1>3. CASE UNCHANGED vars
    BY <1>0, <1>1, <1>2, <1>3, RequestStep, SameLocals DEF vars, request, bounds
  <1>4. ASSUME NEW u \in Tasks, Step(u) PROVE ResetOK' /\ OldSecretGone'
    BY <1>0, <1>1, <1>2, <1>4, HookStep, OtherStep
  <1>5. ASSUME NEW v \in Images, rwsig_check_signature(v)
        PROVE  ResetOK' /\ OldSecretGone'
    <2>1. loc'[HOOKS] = loc[HOOKS]
      BY <1>0, <1>5 DEF rwsig_check_signature, TypeOK, HOOKS, RWSIG
    <2> QED
      BY <1>0, <1>1, <1>2, <1>5, <2>1, RequestStep, SameLocals
      DEF rwsig_check_signature, request, bounds
  <1>6. ASSUME NEW v \in 0 .. VERSION, command_rollback(v)
        PROVE  ResetOK' /\ OldSecretGone'
    <2>1. additions' \in {additions, additions + 1} /\ region' = region
      BY <1>6 DEF command_rollback, rollback_update_version, rollback_add_entropy,
                  rollback_update
    <2>2. loc'[HOOKS] = loc[HOOKS] /\ UNCHANGED request
      BY <1>0, <1>6
      DEF command_rollback, rollback_update_version, rollback_add_entropy,
          rollback_update, Fail, Failed, request, TypeOK, HOOKS, CONSOLE
    <2> QED
      BY <1>0, <1>1, <1>2, <2>1, <2>2, RequestStep, SameLocals DEF request
  <1>7. ASSUME NEW action \in {"ASYNC", "RESET_ASYNC"},
               hc_rollback_add_entropy(action)
        PROVE  ResetOK' /\ OldSecretGone'
    <2>1. loc'[HOOKS].pc = "idle"
      BY <1>2, <1>7 DEF hc_rollback_add_entropy, ResetOK
    <2>2. mark' <= additions' + 1
      <3>1. mark' = 0 /\ additions' \in 0 .. ADDITIONS
        BY <1>0, <1>7 DEF hc_rollback_add_entropy, TypeOK
      <3> QED  BY <3>1, ZeroBelow
    <2>3. add_entropy_rv' = "BUSY"
      BY <1>7 DEF hc_rollback_add_entropy
    <2>4. ResetOK'
      BY <2>1, <2>2, <2>3 DEF ResetOK, RequestOK
    <2> QED  BY <2>3, <2>4 DEF OldSecretGone
  <1>8. CASE add_entropy_deferred
    <2>1. /\ loc'[HOOKS].pc = "again" /\ loc'[HOOKS].repeat = Repeat
          /\ deferred' = FALSE
          /\ UNCHANGED <<add_entropy_action, add_entropy_rv, additions>>
      BY <1>0, <1>8 DEF add_entropy_deferred, TypeOK, Idle, bounds
    <2>2. mark' <= additions' + 1
      <3>1. mark' \in {0, additions + 1} /\ additions \in 0 .. ADDITIONS
        BY <1>0, <1>8 DEF add_entropy_deferred, TypeOK
      <3> QED  BY <2>1, <3>1, RollbackAssumption
    <2>3. add_entropy_rv' = "BUSY"
      BY <1>2, <1>8, <2>1 DEF add_entropy_deferred, ResetOK
    <2>4. add_entropy_action' = "RESET_ASYNC" => RequestOK'
      BY <2>1 DEF RequestOK, Repeat, ROLLBACK_REGIONS
    <2>5. ResetOK'
      BY <2>1, <2>2, <2>3, <2>4 DEF ResetOK
    <2> QED  BY <2>3, <2>5 DEF OldSecretGone
  <1>9. CASE Again
    BY <1>1, <1>2, <1>9, AgainStep
  <1>10. ASSUME NEW b \in BOOLEAN, Protect(b) PROVE ResetOK' /\ OldSecretGone'
    BY <1>0, <1>1, <1>2, <1>10, RequestStep, SameLocals
    DEF Protect, request, bounds
  <1>11. CASE Reboot
    <2>1. /\ loc'[HOOKS].pc = "idle" /\ deferred' = FALSE
          /\ add_entropy_rv' = "UNAVAILABLE"
      BY <1>0, <1>11 DEF Reboot, Idle
    <2>2. mark' <= additions' + 1
      <3>1. mark' = 0 /\ additions' \in 0 .. ADDITIONS
        BY <1>0, <1>11 DEF Reboot, TypeOK
      <3> QED  BY <3>1, ZeroBelow
    <2>3. ResetOK'
      BY <2>1, <2>2 DEF ResetOK, RequestOK
    <2> QED  BY <2>1, <2>3 DEF OldSecretGone
  <1> QED
    BY <1>1, <1>3, <1>4, <1>5, <1>6, <1>7, <1>8, <1>9, <1>10, <1>11
    DEF Next, Behaviour

LEMMA ResetInit == Init => ResetInv
  <1> SUFFICES ASSUME Init PROVE ResetOK /\ OldSecretGone
    BY DEF ResetInv
  <1>1. loc[HOOKS].pc = "idle"
    BY DEF Init, HOOKS, Tasks, Idle
  <1> QED  BY <1>1 DEF Init, ResetOK, RequestOK, OldSecretGone

\* When the host is told that the reset of the secret succeeded, the block it
\* wanted to be rid of is in neither region: the two additions of
\* add_entropy_deferred() went to one region each, whatever rwsig_task() and
\* the console wrote in between.
THEOREM ResetForgets == Spec => []OldSecretGone
  <1>1. IInv /\ IInv' /\ ResetInv /\ [Next]_vars => ResetInv'
    BY ResetStep
  <1>2. Init => ResetInv
    BY ResetInit
  <1>3. ResetInv => OldSecretGone
    BY DEF ResetInv, OldSecretGone
  <1> QED  BY <1>1, <1>2, <1>3, RollbackInvariance, PTL DEF Spec
=============================================================================
