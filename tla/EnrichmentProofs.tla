-------------------------- MODULE EnrichmentProofs --------------------------
(***************************************************************************)
(* A success is never downgraded and a text never lost, for any number of   *)
(* overlapping tasks, functions, levels and identities.                     *)
(***************************************************************************)
EXTENDS Enrichment, TLAPS

\* No task has started and no row is stored.
LEMMA InitInv == Init => Inv
BY BoundsAssumption
DEF Init, Inv, TypeOK, OkHasItsContent, OkHasItsKey, NoOrphans, RowsHeldOnce,
    DraftsRespectRows, RunsAreLoaded, NoDraftsAfterDelete, NoRows, Missing, Row,
    Versions

\* The conjuncts about rows and drafts, which most steps leave alone.
LEMMA RowsUnchanged ==
    ASSUME Inv, UNCHANGED <<rows, draft, exists>>
    PROVE  /\ OkHasItsContent' /\ OkHasItsKey' /\ NoOrphans' /\ RowsHeldOnce'
           /\ DraftsRespectRows' /\ NoDraftsAfterDelete'
BY DEF Inv, OkHasItsContent, OkHasItsKey, NoOrphans, RowsHeldOnce, DraftsRespectRows,
       NoDraftsAfterDelete

\* Leaving a run drops its draft: what is said of the other drafts stays.
LEMMA LeaveTypes ==
    ASSUME Inv, NEW t \in Tasks, NEW n \in {"queued", "ended"}, Leave(t, n)
    PROVE  /\ state' \in [Tasks -> {"unsent", "queued", "reading", "writing", "ended"}]
           /\ key' \in [Tasks -> 0 .. MaxVersion]
           /\ todo' \in [Tasks -> SUBSET (Nat \X Functions)]
           /\ failed' \in SUBSET Tasks
           /\ draft' \in [Tasks -> [Functions -> Row]]
           /\ draft'[t] = NoRows
           /\ \A q \in Tasks \ {t} : draft'[q] = draft[q]
           /\ RunsAreLoaded'
<1>1. NoRows \in [Functions -> Row]
  BY BoundsAssumption DEF NoRows, Missing, Row
<1>2. 0 \in 0 .. MaxVersion /\ {} \in SUBSET (Nat \X Functions)
  BY BoundsAssumption
<1>3. RunsAreLoaded'
  BY DEF Leave, Inv, TypeOK, RunsAreLoaded
<1> QED
  BY <1>1, <1>2, <1>3 DEF Leave, Inv, TypeOK

\* A rolled back run.
LEMMA RollbackInv ==
    ASSUME Inv, NEW t \in Tasks, NEW n \in {"queued", "ended"}, Leave(t, n),
           retries' \in [Tasks -> 0 .. MAX_RETRIES], faults' \in 0 .. MaxFaults,
           UNCHANGED <<contextVars, rows>>
    PROVE  Inv'
<1>1. TypeOK'
  BY LeaveTypes DEF contextVars, Inv, TypeOK
<1>2. \A q \in Tasks : \A f \in Functions :
        draft'[q][f] # Missing => q # t /\ draft'[q][f] = draft[q][f]
  BY LeaveTypes DEF NoRows
<1>3. OkHasItsContent' /\ OkHasItsKey' /\ NoOrphans'
  BY DEF contextVars, Inv, OkHasItsContent, OkHasItsKey, NoOrphans
<1>4. RowsHeldOnce'
  BY <1>2 DEF Inv, RowsHeldOnce
<1>5. DraftsRespectRows'
  BY <1>2 DEF Inv, DraftsRespectRows
<1>6. NoDraftsAfterDelete'
  BY LeaveTypes DEF contextVars, Inv, NoDraftsAfterDelete
<1> QED
  BY <1>1, <1>3, <1>4, <1>5, <1>6, LeaveTypes DEF Inv

\* A committed run: its rows replace the ones it respects, and nobody else
\* holds them.
LEMMA CommitInv ==
    ASSUME Inv, NEW t \in Tasks, NEW n \in {"queued", "ended"}, Leave(t, n),
           state[t] = "writing", CommitRows(t),
           retries' \in [Tasks -> 0 .. MAX_RETRIES], faults' \in 0 .. MaxFaults,
           UNCHANGED contextVars
    PROVE  Inv'
<1>1. \A f \in Functions :
        rows'[f] = IF draft[t][f] = Missing THEN rows[f] ELSE draft[t][f]
  BY DEF CommitRows
<1>2. TypeOK'
  <2>1. rows' \in [Functions -> Row]
    BY DEF CommitRows, Inv, TypeOK
  <2> QED
    BY <2>1, LeaveTypes DEF contextVars, Inv, TypeOK
<1>3. \A q \in Tasks : \A f \in Functions :
        draft'[q][f] # Missing =>
            q # t /\ draft'[q][f] = draft[q][f] /\ draft[t][f] = Missing
  BY LeaveTypes DEF NoRows, Inv, RowsHeldOnce
<1>4. OkHasItsContent' /\ OkHasItsKey'
  BY <1>1 DEF Inv, OkHasItsContent, OkHasItsKey, DraftsRespectRows
<1>5. NoOrphans'
  <2>1. ASSUME ~exists' PROVE rows' = NoRows
    BY <2>1 DEF contextVars, Inv, NoOrphans, NoDraftsAfterDelete, CommitRows, NoRows
  <2> QED
    BY <2>1 DEF NoOrphans, Inv, TypeOK
<1>6. RowsHeldOnce'
  BY <1>3 DEF Inv, RowsHeldOnce
<1>7. DraftsRespectRows'
  BY <1>1, <1>3 DEF Inv, DraftsRespectRows
<1>8. NoDraftsAfterDelete'
  BY LeaveTypes DEF contextVars, Inv, NoDraftsAfterDelete
<1> QED
  BY <1>2, <1>4, <1>5, <1>6, <1>7, <1>8, LeaveTypes DEF Inv

\* A retry and the end of a task are both ways to leave a run.
LEMMA AgainLeaves ==
    ASSUME Inv, NEW t \in Tasks, Again(t) \/ End(t)
    PROVE  /\ \E n \in {"queued", "ended"} : Leave(t, n)
           /\ retries' \in [Tasks -> 0 .. MAX_RETRIES]
<1>1. retries \in [Tasks -> 0 .. MAX_RETRIES]
  BY DEF Inv, TypeOK
<1>2. CASE End(t)
  BY <1>1, <1>2 DEF End
<1>3. CASE retries[t] < MAX_RETRIES /\ Leave(t, "queued")
           /\ retries' = [retries EXCEPT ![t] = @ + 1]
  BY <1>1, <1>3, BoundsAssumption
<1> QED
  BY <1>2, <1>3 DEF Again

\* Faults are counted up to their bound.
LEMMA FaultTypes ==
    ASSUME Inv, Fault \/ UNCHANGED faults
    PROVE  faults' \in 0 .. MaxFaults
BY BoundsAssumption DEF Inv, TypeOK, Fault

\* An upsert holds a row nobody holds, and what it drafts respects that row.
LEMMA StoreInv ==
    ASSUME Inv, NEW t \in Tasks, Store(t)
    PROVE  Inv'
<1>1. PICK p \in todo[t] : /\ StoreRow(t, p[2])
                           /\ todo' = [todo EXCEPT ![t] = @ \ {p}]
  BY DEF Store
<1> DEFINE f == p[2]
<1>2. f \in Functions
  BY <1>1 DEF Inv, TypeOK
<1>3. PICK r : /\ r \in {Success(rows[f], key[t]), Failure(rows[f], key[t])}
               /\ draft' = [draft EXCEPT ![t][f] = r]
  BY <1>1 DEF StoreRow
<1>4. key[t] \in 1 .. MaxVersion /\ rows[f] \in Row
  BY <1>2 DEF Store, Inv, TypeOK, RunsAreLoaded
<1>5. /\ r \in Row /\ r # Missing
      /\ r.status = "ok" => r.key # 0 /\ r.content = r.key
      /\ Cached(rows[f], r.key) => r.status = "ok"
      /\ rows[f].content # 0 => r.content # 0
  <2>1. CASE r = Success(rows[f], key[t])
    BY <1>4, <2>1, BoundsAssumption DEF Success, Row, Missing
  <2>2. CASE r = Failure(rows[f], key[t]) /\ Cached(rows[f], key[t])
    BY <1>2, <1>4, <2>2 DEF Failure, Cached, Row, Missing, Inv, OkHasItsContent
  <2>3. CASE r = Failure(rows[f], key[t]) /\ ~Cached(rows[f], key[t])
    <3>1. r = [status |-> "failed", key |-> key[t], content |-> rows[f].content]
      BY <1>4, <2>3 DEF Failure, Row
    <3> QED
      BY <1>4, <2>3, <3>1, BoundsAssumption DEF Cached, Row, Missing
  <2> QED
    BY <1>3, <2>1, <2>2, <2>3
<1>6. \A q \in Tasks : \A g \in Functions :
        draft'[q][g] = IF q = t /\ g = f THEN r ELSE draft[q][g]
  BY <1>2, <1>3 DEF Inv, TypeOK
<1>7. TypeOK'
  <2>1. draft' \in [Tasks -> [Functions -> Row]]
    BY <1>2, <1>3, <1>5 DEF Inv, TypeOK
  <2>2. todo' \in [Tasks -> SUBSET (Nat \X Functions)] /\ failed' \in SUBSET Tasks
    BY <1>1 DEF StoreRow, Inv, TypeOK
  <2> QED
    BY <2>1, <2>2 DEF Store, contextVars, Inv, TypeOK
<1>8. OkHasItsContent' /\ OkHasItsKey' /\ NoOrphans' /\ NoDraftsAfterDelete'
  BY DEF Store, contextVars, Inv, OkHasItsContent, OkHasItsKey, NoOrphans, NoDraftsAfterDelete
<1>9. RowsHeldOnce'
  <2>1. \A q \in Tasks \ {t} : draft[q][f] = Missing
    BY <1>1 DEF StoreRow, Locked
  <2> QED
    BY <1>6, <2>1 DEF Inv, RowsHeldOnce
<1>10. DraftsRespectRows'
  BY <1>5, <1>6 DEF Store, Inv, DraftsRespectRows
<1>11. RunsAreLoaded'
  <2>1. \A q \in Tasks : q # t => draft'[q] = draft[q]
    BY <1>3 DEF Inv, TypeOK
  <2> QED
    BY <2>1 DEF Store, Inv, RunsAreLoaded
<1> QED
  BY <1>7, <1>8, <1>9, <1>10, <1>11 DEF Inv

\* The steps of a task that neither store nor leave.
LEMMA PrepareInv ==
    ASSUME Inv, NEW t \in Tasks, Enqueue(t) \/ LoadFinding(t) \/ ReadRows(t)
    PROVE  Inv'
<1>1. UNCHANGED <<rows, draft, exists>>
  BY DEF Enqueue, LoadFinding, ReadRows, contextVars
<1>2. TypeOK'
  <2>1. CASE Enqueue(t)
    BY <2>1 DEF Enqueue, contextVars, Inv, TypeOK
  <2>2. CASE LoadFinding(t)
    <3>1. FunctionsForLevel(level) \in SUBSET (Nat \X Functions)
      BY LevelsAssumption DEF FunctionsForLevel, Inv, TypeOK
    <3>2. version \in 0 .. MaxVersion
      BY BoundsAssumption DEF Versions, Inv, TypeOK
    <3> QED
      BY <2>2, <3>1, <3>2 DEF LoadFinding, contextVars, Inv, TypeOK
  <2>3. CASE ReadRows(t)
    <3>1. Due(t) \in SUBSET (Nat \X Functions)
      BY DEF Due, Inv, TypeOK
    <3> QED
      BY <2>3, <3>1 DEF ReadRows, contextVars, Inv, TypeOK
  <2> QED
    BY <2>1, <2>2, <2>3
<1>3. RunsAreLoaded'
  <2>1. version # 0
    BY BoundsAssumption DEF Versions, Inv, TypeOK
  <2> QED
    BY <2>1 DEF Enqueue, LoadFinding, ReadRows, Inv, TypeOK, RunsAreLoaded
<1> QED
  BY <1>1, <1>2, <1>3, RowsUnchanged DEF Inv

\* The API beside the tasks.
LEMMA ApiInv ==
    ASSUME Inv,
           EditVulnerability \/ DeleteVulnerability \/ ChangeLevel \/ ToggleSwitch
    PROVE  Inv'
<1>1. NoRows \in [Functions -> Row]
  BY BoundsAssumption DEF NoRows, Missing, Row
<1>2. RunsAreLoaded'
  BY DEF EditVulnerability, DeleteVulnerability, ChangeLevel, ToggleSwitch, runVars,
         Inv, RunsAreLoaded
<1>3. CASE DeleteVulnerability
  <2>1. TypeOK'
    BY <1>1, <1>3 DEF DeleteVulnerability, runVars, Inv, TypeOK
  <2>2. \A t \in Tasks : draft'[t] = NoRows
    BY <1>3 DEF DeleteVulnerability, runVars
  <2>3. /\ OkHasItsContent' /\ OkHasItsKey' /\ NoOrphans' /\ NoDraftsAfterDelete'
        /\ RowsHeldOnce' /\ DraftsRespectRows'
    BY <1>3, <2>2
    DEF DeleteVulnerability, NoRows, Missing, OkHasItsContent, OkHasItsKey, NoOrphans,
        NoDraftsAfterDelete, RowsHeldOnce, DraftsRespectRows
  <2> QED
    BY <1>2, <2>1, <2>3 DEF Inv
<1>4. CASE EditVulnerability \/ ChangeLevel \/ ToggleSwitch
  <2>1. UNCHANGED <<rows, draft, exists>>
    BY <1>4 DEF EditVulnerability, ChangeLevel, ToggleSwitch, runVars
  <2>2. TypeOK'
    BY <1>4 DEF EditVulnerability, ChangeLevel, ToggleSwitch, runVars, Inv, TypeOK
  <2> QED
    BY <1>2, <2>1, <2>2, RowsUnchanged DEF Inv
<1> QED
  BY <1>3, <1>4

\* Every other step of a task leaves its run.
LEMMA LeavingSteps ==
    ASSUME Inv, NEW t \in Tasks,
           \/ Ignore(t) \/ StoreRefused(t) \/ CommitRun(t) \/ DeadlockDetected(t)
           \/ RunRaises(t) \/ Killed(t)
    PROVE  /\ \E n \in {"queued", "ended"} : Leave(t, n)
           /\ retries' \in [Tasks -> 0 .. MAX_RETRIES]
           /\ faults' \in 0 .. MaxFaults
           /\ UNCHANGED contextVars
           /\ UNCHANGED rows \/ (state[t] = "writing" /\ CommitRows(t))
<1>1. CASE Killed(t)
  <2>1. retries' \in [Tasks -> 0 .. MAX_RETRIES]
    BY <1>1 DEF Killed, Inv, TypeOK
  <2> QED
    BY <1>1, <2>1, FaultTypes DEF Killed
<1>2. CASE Ignore(t) \/ StoreRefused(t) \/ CommitRun(t) \/ DeadlockDetected(t)
           \/ RunRaises(t)
  <2>1. Again(t) \/ End(t)
    BY <1>2 DEF Ignore, StoreRefused, CommitRun, DeadlockDetected, RunRaises
  <2>2. Fault \/ UNCHANGED faults
    BY <1>2 DEF Ignore, StoreRefused, CommitRun, DeadlockDetected, RunRaises
  <2>3. UNCHANGED contextVars
    BY <1>2 DEF Ignore, StoreRefused, CommitRun, DeadlockDetected, RunRaises
  <2>4. UNCHANGED rows \/ (state[t] = "writing" /\ CommitRows(t))
    BY <1>2 DEF Ignore, StoreRefused, CommitRun, DeadlockDetected, RunRaises
  <2> QED
    BY <2>1, <2>2, <2>3, <2>4, AgainLeaves, FaultTypes
<1> QED
  BY <1>1, <1>2

\* Every step keeps the invariant.
LEMMA NextInv == Inv /\ [Next]_vars => Inv'
<1> SUFFICES ASSUME Inv, [Next]_vars PROVE Inv'
  OBVIOUS
<1>1. ASSUME NEW t \in Tasks, Enqueue(t) \/ LoadFinding(t) \/ ReadRows(t)
      PROVE  Inv'
  BY <1>1, PrepareInv
<1>2. ASSUME NEW t \in Tasks, Store(t) PROVE Inv'
  BY <1>2, StoreInv
<1>3. ASSUME NEW t \in Tasks,
             \/ Ignore(t) \/ StoreRefused(t) \/ CommitRun(t) \/ DeadlockDetected(t)
             \/ RunRaises(t) \/ Killed(t)
      PROVE  Inv'
  BY <1>3, LeavingSteps, RollbackInv, CommitInv
<1>4. CASE EditVulnerability \/ DeleteVulnerability \/ ChangeLevel \/ ToggleSwitch
  BY <1>4, ApiInv
<1>5. CASE UNCHANGED vars
  <2>1. TypeOK' /\ RunsAreLoaded'
    BY <1>5 DEF vars, contextVars, runVars, Inv, TypeOK, RunsAreLoaded
  <2>2. UNCHANGED <<rows, draft, exists>>
    BY <1>5 DEF vars, contextVars, runVars
  <2> QED
    BY <2>1, <2>2, RowsUnchanged DEF Inv
<1> QED
  BY <1>1, <1>2, <1>3, <1>4, <1>5 DEF Next, Step

\* The invariant holds in every reachable state.
THEOREM Invariance == Spec => []Inv
BY InitInv, NextInv, PTL DEF Spec

\* enrich_vulnerability: a cache hit returns a text written for that identity.
THEOREM CacheIsRight == Spec => []OkHasItsContent
<1>1. Inv => OkHasItsContent
  BY DEF Inv
<1> QED
  BY <1>1, Invariance, PTL

\* The foreign key and its cascade: no row outlives its vulnerability.
THEOREM NoRowOutlives == Spec => []NoOrphans
<1>1. Inv => NoOrphans
  BY DEF Inv
<1> QED
  BY <1>1, Invariance, PTL

\* Rows change by commits and by the deletion only.
LEMMA RowSteps ==
    ASSUME Inv, [Next]_vars
    PROVE  \/ UNCHANGED rows
           \/ \E t \in Tasks : CommitRows(t)
           \/ rows' = NoRows /\ ~exists'
<1>1. ASSUME NEW t \in Tasks, Enqueue(t) \/ LoadFinding(t) \/ ReadRows(t) \/ Store(t)
      PROVE  UNCHANGED rows
  BY <1>1 DEF Enqueue, LoadFinding, ReadRows, Store
<1>2. ASSUME NEW t \in Tasks,
             \/ Ignore(t) \/ StoreRefused(t) \/ CommitRun(t) \/ DeadlockDetected(t)
             \/ RunRaises(t) \/ Killed(t)
      PROVE  UNCHANGED rows \/ CommitRows(t)
  BY <1>2, LeavingSteps
<1>3. CASE EditVulnerability \/ DeleteVulnerability \/ ChangeLevel \/ ToggleSwitch
  BY <1>3 DEF EditVulnerability, DeleteVulnerability, ChangeLevel, ToggleSwitch
<1>4. CASE UNCHANGED vars
  BY <1>4 DEF vars
<1> QED
  BY <1>1, <1>2, <1>3, <1>4 DEF Next, Step

\* The guard of the upsert in enrich_vulnerability: a late failure does not
\* downgrade an identical success.
THEOREM SuccessIsKept == Spec => NoDowngrade
<1> DEFINE Kept == \A f \in Functions :
        rows[f].status = "ok" /\ rows'[f].key = rows[f].key => rows'[f].status = "ok"
<1>1. Inv /\ [Next]_vars => [Kept]_vars
  <2> SUFFICES ASSUME Inv, [Next]_vars, NEW f \in Functions, rows[f].status = "ok",
                      rows'[f].key = rows[f].key
               PROVE  rows'[f].status = "ok"
    OBVIOUS
  <2>1. ASSUME NEW t \in Tasks, CommitRows(t) PROVE rows'[f].status = "ok"
    BY <2>1 DEF CommitRows, Inv, DraftsRespectRows, Cached
  <2>2. rows' # NoRows
    BY DEF Inv, OkHasItsKey, NoRows, Missing
  <2> QED
    BY <2>1, <2>2, RowSteps
<1> QED
  BY <1>1, Invariance, PTL DEF Spec, NoDowngrade, Kept

\* Failures retain previous content.
THEOREM TextIsKept == Spec => ContentKept
<1> DEFINE Kept == \A f \in Functions :
        rows[f].content # 0 => rows'[f].content # 0 \/ ~exists'
<1>1. Inv /\ [Next]_vars => [Kept]_vars
  <2> SUFFICES ASSUME Inv, [Next]_vars, NEW f \in Functions, rows[f].content # 0
               PROVE  rows'[f].content # 0 \/ ~exists'
    OBVIOUS
  <2>1. ASSUME NEW t \in Tasks, CommitRows(t) PROVE rows'[f].content # 0
    BY <2>1 DEF CommitRows, Inv, DraftsRespectRows
  <2> QED
    BY <2>1, RowSteps
<1> QED
  BY <1>1, Invariance, PTL DEF Spec, ContentKept, Kept
=============================================================================
