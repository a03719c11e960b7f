----------------------------- MODULE Enrichment -----------------------------
(***************************************************************************)
(* The LLM enrichment of one vulnerability: overlapping Celery tasks read   *)
(* the finding and its rows, call the provider and store one row per        *)
(* function in a transaction of their own.  A version stands for a cache    *)
(* identity (input hash, prompt version and model); the finding can go back *)
(* to an earlier one.  A text is known by the version it was written for.   *)
(***************************************************************************)
EXTENDS Naturals, Sequences

CONSTANTS
    Functions,
    Levels,            \* values of the tenant's ai_enrichment_level
    LEVEL_FUNCTIONS,   \* level -> its functions, in order
    Tasks,             \* enrichment.vulnerability messages
    MaxVersion,        \* bound: cache identities
    MAX_RETRIES,       \* 3 in the code
    MaxFaults          \* bound: exceptions and killed worker processes

ASSUME LevelsAssumption == LEVEL_FUNCTIONS \in [Levels -> Seq(Functions)]
ASSUME BoundsAssumption ==
    MaxVersion \in Nat \ {0} /\ MAX_RETRIES \in Nat /\ MaxFaults \in Nat

VARIABLES
    exists,    \* the vulnerability has not been deleted
    version,   \* its cache identity
    level,     \* ai_enrichment_level of its tenant
    enabled,   \* ENRICHMENT_ENABLED
    rows,      \* function -> committed row of vulnerability_enrichments
    state,     \* task -> where it is
    retries,   \* task -> self.request.retries
    key,       \* task -> the version it loaded
    todo,      \* task -> functions its run has still to store, with their places
    failed,    \* tasks whose run has a failed function
    draft,     \* task -> function -> uncommitted row, Missing when there is none
    faults

contextVars == <<exists, version, level, enabled>>
runVars == <<state, retries, key, todo, failed, draft>>
vars == <<contextVars, rows, runVars, faults>>

Versions == 1 .. MaxVersion

\* key and content 0: NULL.
Row == [status : {"missing", "ok", "failed"}, key : 0 .. MaxVersion,
        content : 0 .. MaxVersion]
Missing == [status |-> "missing", key |-> 0, content |-> 0]
NoRows == [f \in Functions |-> Missing]

Init ==
    /\ exists = TRUE /\ enabled = TRUE
    /\ version = 1
    /\ level \in Levels
    /\ rows = NoRows
    /\ state = [t \in Tasks |-> "unsent"]
    /\ retries = [t \in Tasks |-> 0]
    /\ key = [t \in Tasks |-> 0]
    /\ todo = [t \in Tasks |-> {}]
    /\ failed = {}
    /\ draft = [t \in Tasks |-> NoRows]
    /\ faults = 0

Fault == faults < MaxFaults /\ faults' = faults + 1

\* An identical success is stored.
Cached(row, k) == row.status = "ok" /\ row.key = k

\* The row is inserted or updated by another task that has not committed.
Locked(t, f) == \E q \in Tasks \ {t} : draft[q][f] # Missing

-----------------------------------------------------------------------------
(* Leaving a run: the transaction is over, committed or rolled back *)

Leave(t, next) ==
    /\ state' = [state EXCEPT ![t] = next]
    /\ key' = [key EXCEPT ![t] = 0]
    /\ todo' = [todo EXCEPT ![t] = {}]
    /\ failed' = failed \ {t}
    /\ draft' = [draft EXCEPT ![t] = NoRows]

End(t) == Leave(t, "ended") /\ UNCHANGED retries

\* Mutant: the retry is sent with a fresh count.
AgainUncounted(t) ==
    \/ retries[t] < MAX_RETRIES /\ Leave(t, "queued") /\ UNCHANGED retries
    \/ retries[t] >= MAX_RETRIES /\ End(t)

\* self.retry, or the error of the last attempt.
Again(t) ==
    \/ /\ retries[t] < MAX_RETRIES
       /\ Leave(t, "queued")
       /\ retries' = [retries EXCEPT ![t] = @ + 1]
    \/ retries[t] >= MAX_RETRIES /\ End(t)

-----------------------------------------------------------------------------
(* enqueue_enrichment and _enrich *)

Enqueue(t) ==
    /\ state[t] = "unsent" /\ enabled /\ exists
    /\ state' = [state EXCEPT ![t] = "queued"]
    /\ UNCHANGED <<contextVars, rows, retries, key, todo, failed, draft, faults>>

\* The switch is off, or the vulnerability is gone.
Ignore(t) ==
    /\ state[t] = "queued" /\ ~(enabled /\ exists)
    /\ End(t)
    /\ UNCHANGED <<contextVars, rows, faults>>

\* functions_for_level
FunctionsForLevel(l) ==
    {<<i, LEVEL_FUNCTIONS[l][i]>> : i \in DOMAIN LEVEL_FUNCTIONS[l]}

LoadFinding(t) ==
    /\ state[t] = "queued" /\ enabled /\ exists
    /\ state' = [state EXCEPT ![t] = "reading"]
    /\ key' = [key EXCEPT ![t] = version]
    /\ todo' = [todo EXCEPT ![t] = FunctionsForLevel(level)]
    /\ UNCHANGED <<contextVars, rows, retries, failed, draft, faults>>

\* due_functions
Due(t) == {p \in todo[t] : ~Cached(rows[p[2]], key[t])}

ReadRows(t) ==
    /\ state[t] = "reading"
    /\ state' = [state EXCEPT ![t] = "writing"]
    /\ todo' = [todo EXCEPT ![t] = Due(t)]
    /\ UNCHANGED <<contextVars, rows, retries, key, failed, draft, faults>>

\* Mutant: a conflict keeps the stored text.
SuccessKeepsContent(row, k) ==
    [status |-> "ok", key |-> k, content |-> IF row.content = 0 THEN k ELSE row.content]

\* The upsert of a checked text.
Success(row, k) == [status |-> "ok", key |-> k, content |-> k]

\* Mutant: no guard on the update.
FailureUnguarded(row, k) == [row EXCEPT !.status = "failed", !.key = k]

\* Mutant: the update writes the NULL content too.
FailureErases(row, k) ==
    IF Cached(row, k) THEN row
    ELSE [row EXCEPT !.status = "failed", !.key = k, !.content = 0]

\* The upsert of budget_exceeded, provider_error or empty_output: it leaves the
\* stored text alone, and everything when an identical success is stored.
Failure(row, k) ==
    IF Cached(row, k) THEN row ELSE [row EXCEPT !.status = "failed", !.key = k]

IsNext(t, p) == p \in todo[t] /\ \A q \in todo[t] : p[1] <= q[1]

\* The statement waits for the row, then judges it as it is committed.
StoreRow(t, f) ==
    /\ ~Locked(t, f)
    /\ \/ /\ draft' = [draft EXCEPT ![t][f] = Success(rows[f], key[t])]
          /\ UNCHANGED failed
       \/ /\ draft' = [draft EXCEPT ![t][f] = Failure(rows[f], key[t])]
          /\ failed' = failed \cup {t}

Store(t) ==
    /\ state[t] = "writing" /\ exists
    /\ \E p \in todo[t] :
        /\ IsNext(t, p)
        /\ StoreRow(t, p[2])
        /\ todo' = [todo EXCEPT ![t] = @ \ {p}]
    /\ UNCHANGED <<contextVars, rows, state, retries, key, faults>>

\* The foreign key refuses a row for a deleted vulnerability.
StoreRefused(t) ==
    /\ state[t] = "writing" /\ todo[t] # {} /\ ~exists
    /\ Again(t)
    /\ UNCHANGED <<contextVars, rows, faults>>

CommitRows(t) ==
    rows' = [f \in Functions |-> IF draft[t][f] = Missing THEN rows[f] ELSE draft[t][f]]

CommitRun(t) ==
    /\ state[t] = "writing" /\ todo[t] = {}
    /\ CommitRows(t)
    /\ IF t \in failed THEN Again(t) ELSE End(t)
    /\ UNCHANGED <<contextVars, faults>>

-----------------------------------------------------------------------------
(* What interrupts a run *)

\* A database error or the soft limit; one that hits COMMIT in flight may find
\* it applied.
RunRaises(t) ==
    /\ state[t] \in {"reading", "writing"}
    /\ Fault
    /\ (state[t] = "writing" /\ todo[t] = {} /\ CommitRows(t)) \/ UNCHANGED rows
    /\ Again(t)
    /\ UNCHANGED contextVars

WaitsFor(t, q) ==
    /\ state[t] = "writing" /\ t # q
    /\ \E p \in todo[t] : IsNext(t, p) /\ draft[q][p[2]] # Missing

\* Runs that started under different levels store in different orders, and
\* PostgreSQL ends a cycle of two of them with deadlock_detected.
DeadlockDetected(t) ==
    /\ \E q \in Tasks : WaitsFor(t, q) /\ WaitsFor(q, t)
    /\ Again(t)
    /\ UNCHANGED <<contextVars, rows, faults>>

\* The worker process is lost or passes the hard limit; with late
\* acknowledgement the message may come back.
Killed(t) ==
    /\ state[t] \in {"reading", "writing"}
    /\ Fault
    /\ Leave(t, "queued") \/ Leave(t, "ended")
    /\ UNCHANGED <<contextVars, rows, retries>>

-----------------------------------------------------------------------------
(* The API beside the tasks *)

EditVulnerability ==
    /\ exists
    /\ version' \in Versions \ {version}
    /\ UNCHANGED <<exists, level, enabled, rows, runVars, faults>>

\* Mutant: the rows stay behind.
DeleteKeepsRows ==
    /\ exists
    /\ \A t \in Tasks : draft[t] = NoRows
    /\ exists' = FALSE
    /\ UNCHANGED <<version, level, enabled, rows, runVars, faults>>

\* DELETE cascades to the rows; it waits for every uncommitted one, whose
\* foreign key holds the vulnerability or which the cascade has to remove.
DeleteVulnerability ==
    /\ exists
    /\ \A t \in Tasks : draft[t] = NoRows
    /\ exists' = FALSE
    /\ rows' = NoRows
    /\ UNCHANGED <<version, level, enabled, runVars, faults>>

\* No endpoint writes ai_enrichment_level; an operator does.
ChangeLevel ==
    /\ level' \in Levels \ {level}
    /\ UNCHANGED <<exists, version, enabled, rows, runVars, faults>>

ToggleSwitch ==
    /\ enabled' = ~enabled
    /\ UNCHANGED <<exists, version, level, rows, runVars, faults>>

Step(t) ==
    \/ Ignore(t) \/ LoadFinding(t) \/ ReadRows(t) \/ Store(t) \/ StoreRefused(t)
    \/ CommitRun(t) \/ DeadlockDetected(t)

Next ==
    \/ \E t \in Tasks : Enqueue(t) \/ Step(t) \/ RunRaises(t) \/ Killed(t)
    \/ EditVulnerability \/ DeleteVulnerability \/ ChangeLevel \/ ToggleSwitch

Spec == Init /\ [][Next]_vars

\* A worker takes a queued message and goes on with its run whenever it can.
FairSpec == Spec /\ \A t \in Tasks : WF_vars(Step(t))

-----------------------------------------------------------------------------
(* Properties *)

TypeOK ==
    /\ exists \in BOOLEAN /\ enabled \in BOOLEAN
    /\ version \in Versions
    /\ level \in Levels
    /\ rows \in [Functions -> Row]
    /\ state \in [Tasks -> {"unsent", "queued", "reading", "writing", "ended"}]
    /\ retries \in [Tasks -> 0 .. MAX_RETRIES]
    /\ key \in [Tasks -> 0 .. MaxVersion]
    /\ todo \in [Tasks -> SUBSET (Nat \X Functions)]
    /\ failed \in SUBSET Tasks
    /\ draft \in [Tasks -> [Functions -> Row]]
    /\ faults \in 0 .. MaxFaults

\* The text of a successful row was written for the identity the row claims,
\* so that skipping it as a cache hit is right.
OkHasItsContent ==
    \A f \in Functions : rows[f].status = "ok" => rows[f].content = rows[f].key

\* A deleted vulnerability has no rows, whichever runs were in flight.
NoOrphans == exists \/ rows = NoRows

\* "A conditional upsert prevents a late failure from downgrading an identical
\* concurrent ok row": no step turns a success into a failure of the same
\* identity.
NoDowngrade ==
    [][\A f \in Functions :
        rows[f].status = "ok" /\ rows'[f].key = rows[f].key => rows'[f].status = "ok"]_vars

\* "Failures retain previous content": a stored text is replaced by another one
\* or deleted with its vulnerability, and never lost to a failing run.
ContentKept ==
    [][\A f \in Functions :
        rows[f].content # 0 => rows'[f].content # 0 \/ ~exists']_vars

\* Whatever the provider answers, a task stops retrying.
TaskEnds == \A t \in Tasks : state[t] = "queued" ~> state[t] = "ended"

-----------------------------------------------------------------------------
(* The inductive invariant *)

\* A success has an identity.
OkHasItsKey == \A f \in Functions : rows[f].status = "ok" => rows[f].key # 0

\* Two uncommitted runs never hold the same row.
RowsHeldOnce ==
    \A t, q \in Tasks : \A f \in Functions :
        draft[t][f] # Missing /\ draft[q][f] # Missing => t = q

\* What a run is going to commit respects the row it will replace.
DraftsRespectRows ==
    \A t \in Tasks : \A f \in Functions : draft[t][f] # Missing =>
        /\ draft[t][f].status = "ok" =>
                draft[t][f].key # 0 /\ draft[t][f].content = draft[t][f].key
        /\ Cached(rows[f], draft[t][f].key) => draft[t][f].status = "ok"
        /\ rows[f].content # 0 => draft[t][f].content # 0

\* A run has loaded the vulnerability, and only a run writes.
RunsAreLoaded ==
    \A t \in Tasks :
        /\ state[t] \in {"reading", "writing"} => key[t] # 0
        /\ state[t] # "writing" => draft[t] = NoRows

NoDraftsAfterDelete == exists \/ \A t \in Tasks : draft[t] = NoRows

Inv ==
    /\ TypeOK /\ OkHasItsContent /\ OkHasItsKey /\ NoOrphans
    /\ RowsHeldOnce /\ DraftsRespectRows /\ RunsAreLoaded /\ NoDraftsAfterDelete
=============================================================================
