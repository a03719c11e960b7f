----------------------------- MODULE Inventory -----------------------------
(***************************************************************************)
(* Assets, scan definitions, vulnerabilities and reports of one tenant under *)
(* concurrent POST, PATCH and DELETE.  The four services share one shape: a  *)
(* row is read without a lock, judged, flushed, committed, and its event is  *)
(* published after the commit.  A row is reduced to two columns that belong  *)
(* together:                                                                 *)
(*     asset          asset_type and value                                   *)
(*     scan           scan_type and config                                   *)
(*     vulnerability  status and closed_at                                   *)
(*     report         status and generated_at                                *)
(***************************************************************************)
EXTENDS Naturals, FiniteSets

CONSTANTS
    Rows,
    KindOf,          \* row -> its table
    ParentOf,        \* row -> the row its foreign key names, None for an asset
    InitiallyLive,   \* rows that exist at the start
    InitialColumns,  \* their columns
    Requests,        \* each is one HTTP request
    None

Kinds == {"asset", "scan", "vulnerability", "report"}

ASSUME TreeAssumption ==
    /\ KindOf \in [Rows -> Kinds]
    /\ ParentOf \in [Rows -> Rows \cup {None}]
    /\ None \notin Rows
    /\ \A x \in Rows : ParentOf[x] = None <=> KindOf[x] = "asset"
    /\ \A x \in Rows : KindOf[x] \in {"scan", "report"} => KindOf[ParentOf[x]] = "asset"
    /\ \A x \in Rows : KindOf[x] = "vulnerability" => KindOf[ParentOf[x]] = "scan"
VARIABLES
    live,      \* row -> "absent", "live" or "deleted", as committed
    col,       \* row -> its committed columns
    pc,        \* request -> where it is
    op,        \* request -> what it does
    row,       \* request -> the row it does it to
    ask,       \* request -> columns its body names
    new,       \* request -> the columns it is going to commit
    changed,   \* request -> columns its UPDATE sets
    stale,     \* requests whose row was committed by others after they read it
    mixed,     \* rows written by a stale request
    event      \* what was published last, None before

requestVars == <<pc, op, row, ask, new, changed>>
vars == <<live, col, requestVars, stale, mixed, event>>

Columns == {"a", "b"}

\* The values a column takes, and the pairs the services regard as consistent.
ValuesA == [asset |-> {"ip", "hostname"}, scan |-> {"discovery", "web"},
            vulnerability |-> {"open", "fixed", "accepted_risk"},
            report |-> {"pending", "completed"}]
ValuesB == [asset |-> {"address", "name"}, scan |-> {"discover", "assume_up", "paths"},
            vulnerability |-> {"null", "set"}, report |-> {"null", "set"}]
Pair(a, b) == [a |-> a, b |-> b]
Pairs(k) == [a : ValuesA[k], b : ValuesB[k]]

\* _validate_asset_value: an address is a valid hostname too.
FittingAssets ==
    {Pair("ip", "address"), Pair("hostname", "address"), Pair("hostname", "name")}

\* _validate_scan_config: each type has its own key set; host_discovery is a Boolean.
FittingScans ==
    {Pair("discovery", "discover"), Pair("discovery", "assume_up"), Pair("web", "paths")}

Fitting ==
    [asset |-> FittingAssets, scan |-> FittingScans,
     vulnerability |-> {Pair("open", "null"), Pair("fixed", "set"),
                        Pair("accepted_risk", "set")},
     report |-> Pairs("report")]
Fits(x, c) == c \in Fitting[KindOf[x]]

NoPair == Pair("unset", "unset")

\* What a PATCH body may name; closed_at is the server's.
Asks(k) ==
    [a : ValuesA[k] \cup {"unset"},
     b : IF k = "vulnerability" THEN {"unset"} ELSE ValuesB[k] \cup {"unset"}]

AnyPair == [a : (UNION {ValuesA[k] : k \in Kinds}) \cup {"unset"},
            b : (UNION {ValuesB[k] : k \in Kinds}) \cup {"unset"}]

ASSUME InitialAssumption ==
    /\ InitiallyLive \subseteq Rows
    /\ \A x \in InitiallyLive : ParentOf[x] \in InitiallyLive \cup {None}
    /\ \A x \in InitiallyLive : Fits(x, InitialColumns[x])
    /\ \A x, y \in InitiallyLive :
        /\ KindOf[x] = "asset" /\ KindOf[y] = "asset"
        /\ InitialColumns[x] = InitialColumns[y]
        => x = y

Init ==
    /\ live = [x \in Rows |-> IF x \in InitiallyLive THEN "live" ELSE "absent"]
    /\ col = [x \in Rows |-> IF x \in InitiallyLive THEN InitialColumns[x] ELSE NoPair]
    /\ pc = [r \in Requests |-> "idle"]
    /\ op = [r \in Requests |-> "none"]
    /\ row = [r \in Requests |-> None]
    /\ ask = [r \in Requests |-> NoPair]
    /\ new = [r \in Requests |-> NoPair]
    /\ changed = [r \in Requests |-> {}]
    /\ stale = {} /\ mixed = {} /\ event = None

Goto(r, label) == pc' = [pc EXCEPT ![r] = label]

\* Nothing is left to write.
Flushed(r) ==
    /\ ask' = [ask EXCEPT ![r] = NoPair]
    /\ new' = [new EXCEPT ![r] = NoPair]

\* The response is sent and the session closed.
End(r) ==
    /\ Goto(r, "done")
    /\ Flushed(r)
    /\ op' = [op EXCEPT ![r] = "none"]
    /\ row' = [row EXCEPT ![r] = None]
    /\ changed' = [changed EXCEPT ![r] = {}]
    /\ stale' = stale \ {r}

-----------------------------------------------------------------------------
(* Locks of the uncommitted statements *)

LiveRows(kind) == {x \in Rows : KindOf[x] = kind /\ live[x] = "live"}
Parent(x) == ParentOf[x]
ParentLive(x) == Parent(x) # None => live[Parent(x)] = "live"
Subtree(x) ==
    {y \in Rows : \/ y = x
                  \/ Parent(y) = x
                  \/ Parent(y) \in Rows /\ Parent(Parent(y)) = x}

Holds(q, x) ==
    /\ pc[q] = "committing"
    /\ \/ op[q] = "patch" /\ row[q] = x /\ changed[q] # {}
       \/ op[q] = "delete" /\ x \in Subtree(row[q])

\* An inserted row holds its parent against deletion.
KeyShares(q, x) == pc[q] = "committing" /\ op[q] = "create" /\ Parent(row[q]) = x

\* An UPDATE of an asset sets columns of a unique constraint and so conflicts
\* with key shares; the other tables' UPDATEs do not.
BlocksInsert(q, x) == Holds(q, x) /\ (op[q] = "delete" \/ KindOf[x] = "asset")
BlocksUpdate(q, x) == Holds(q, x) \/ (KeyShares(q, x) /\ KindOf[x] = "asset")
BlocksDelete(q, x) == \E y \in Subtree(x) : Holds(q, y) \/ KeyShares(q, y)

\* Mutant: the constraint is a SELECT, which does not see uncommitted rows.
DuplicateCommittedOnly(r, x, c) == FALSE

\* uq_assets_tenant_type_value: a duplicate is refused, a possible one is waited for.
Duplicate(x, c) ==
    /\ KindOf[x] = "asset"
    /\ \E y \in Rows \ {x} : KindOf[y] = "asset" /\ live[y] = "live" /\ col[y] = c
DuplicatePending(r, x, c) ==
    /\ KindOf[x] = "asset"
    /\ \E q \in Requests \ {r} :
        /\ pc[q] = "committing" /\ row[q] # x /\ KindOf[row[q]] = "asset"
        /\ new[q] = c \/ (Holds(q, row[q]) /\ col[row[q]] = c)

-----------------------------------------------------------------------------
(* The request reads and judges; a 404 or 422 changes nothing *)

Begin(r, o, x, p, c, ch) ==
    /\ pc[r] = "idle"
    /\ Goto(r, "flushing")
    /\ op' = [op EXCEPT ![r] = o]
    /\ row' = [row EXCEPT ![r] = x]
    /\ ask' = [ask EXCEPT ![r] = p]
    /\ new' = [new EXCEPT ![r] = c]
    /\ changed' = [changed EXCEPT ![r] = ch]
    /\ UNCHANGED <<live, col, stale, mixed, event>>

\* A new row has a fresh id and a parent that resolves.
CreateRow(r, kind, c) ==
    \E x \in Rows :
        /\ KindOf[x] = kind /\ live[x] = "absent" /\ ParentLive(x)
        /\ \A q \in Requests : row[q] # x
        /\ Begin(r, "create", x, c, c, {})

CreateAsset(r) == \E c \in FittingAssets : CreateRow(r, "asset", c)
CreateScan(r) == \E c \in FittingScans : CreateRow(r, "scan", c)
CreateVulnerability(r) == CreateRow(r, "vulnerability", Pair("open", "null"))
CreateReport(r) == CreateRow(r, "report", Pair("pending", "null"))

\* exclude_unset, then column by column.
Overwritten(c, p) ==
    Pair(IF p.a = "unset" THEN c.a ELSE p.a, IF p.b = "unset" THEN c.b ELSE p.b)

Differing(c, d) == {k \in Columns : c[k] # d[k]}

\* The value, sent or stored, is validated against the effective type.
UpdateAsset(r) ==
    \E x \in LiveRows("asset") : \E p \in Asks("asset") :
        LET c == Overwritten(col[x], p)
        IN  /\ c \in FittingAssets
            /\ Begin(r, "patch", x, p, c, Differing(col[x], c))

UpdateScan(r) ==
    \E x \in LiveRows("scan") : \E p \in Asks("scan") :
        LET c == Overwritten(col[x], p)
        IN  /\ c \in FittingScans
            /\ Begin(r, "patch", x, p, c, Differing(col[x], c))

\* Leaving open stamps closed_at and reopening clears it; func.now() is sent
\* whatever closed_at was.
UpdateVulnerability(r) ==
    \E x \in LiveRows("vulnerability") : \E p \in Asks("vulnerability") :
        LET status == Overwritten(col[x], p).a
            closing == col[x].a = "open" /\ status # "open"
            c == Pair(status, IF closing THEN "set"
                              ELSE IF status = "open" /\ col[x].a # "open" THEN "null"
                              ELSE col[x].b)
        IN  Begin(r, "patch", x, p, c,
                  Differing(col[x], c) \cup IF closing THEN {"b"} ELSE {})

UpdateReport(r) ==
    \E x \in LiveRows("report") : \E p \in Asks("report") :
        LET c == Overwritten(col[x], p)
        IN  Begin(r, "patch", x, p, c, Differing(col[x], c))

DeleteRow(r, kind) ==
    \E x \in LiveRows(kind) : Begin(r, "delete", x, NoPair, NoPair, {})

DeleteAsset(r) == DeleteRow(r, "asset")
DeleteScan(r) == DeleteRow(r, "scan")
DeleteVulnerability(r) == DeleteRow(r, "vulnerability")
DeleteReport(r) == DeleteRow(r, "report")

-----------------------------------------------------------------------------
(* flush, commit and publish *)

Insert(r) ==
    LET x == row[r]
    IN  /\ pc[r] = "flushing" /\ op[r] = "create"
        /\ ParentLive(x)
        /\ ~Duplicate(x, new[r]) /\ ~DuplicatePending(r, x, new[r])
        /\ \A q \in Requests : ~BlocksInsert(q, Parent(x))
        /\ Goto(r, "committing")
        /\ UNCHANGED <<live, col, op, row, ask, new, changed, stale, mixed, event>>

\* Mutant: the UPDATE sets every column, as the request read or changed it.
WrittenAsRead(r) == new[r]

\* The UPDATE sets the columns the ORM saw change, on the row as it is now.
Written(r) ==
    Pair(IF "a" \in changed[r] THEN new[r].a ELSE col[row[r]].a,
         IF "b" \in changed[r] THEN new[r].b ELSE col[row[r]].b)

Update(r) ==
    LET x == row[r]
    IN  /\ pc[r] = "flushing" /\ op[r] = "patch" /\ changed[r] # {}
        /\ live[x] = "live"
        /\ \A q \in Requests : ~BlocksUpdate(q, x)
        /\ ~Duplicate(x, Written(r)) /\ ~DuplicatePending(r, x, Written(r))
        /\ new' = [new EXCEPT ![r] = Written(r)]
        /\ Goto(r, "committing")
        /\ UNCHANGED <<live, col, op, row, ask, changed, stale, mixed, event>>

NothingToUpdate(r) ==
    /\ pc[r] = "flushing" /\ op[r] = "patch" /\ changed[r] = {}
    /\ Goto(r, "committing")
    /\ Flushed(r)
    /\ UNCHANGED <<live, col, op, row, changed, stale, mixed, event>>

\* A DELETE that matches no row is only warned about.
Delete(r) ==
    /\ pc[r] = "flushing" /\ op[r] = "delete"
    /\ \A q \in Requests : ~BlocksDelete(q, row[r])
    /\ Goto(r, "committing")
    /\ UNCHANGED <<live, col, op, row, ask, new, changed, stale, mixed, event>>

\* The foreign key or the unique constraint is violated, or the UPDATE matches
\* no row.
Refuse(r) ==
    LET x == row[r]
    IN  /\ pc[r] = "flushing"
        /\ \/ /\ op[r] = "create"
              /\ \/ ~ParentLive(x)
                 \/ Duplicate(x, new[r]) /\ ~DuplicatePending(r, x, new[r])
           \/ /\ op[r] = "patch" /\ changed[r] # {}
              /\ \/ live[x] # "live"
                 \/ Duplicate(x, Written(r)) /\ ~DuplicatePending(r, x, Written(r))
        /\ End(r)
        /\ UNCHANGED <<live, col, mixed, event>>

\* Requests that have read x and not written yet.
Readers(r, X) ==
    {q \in Requests \ {r} : pc[q] = "flushing" /\ op[q] = "patch" /\ row[q] \in X}

\* Mutant: the foreign keys do not cascade to grandchildren.
CommitDeleteShallow(r) ==
    /\ op[r] = "delete"
    /\ live' = [x \in Rows |->
                  IF (x = row[r] \/ Parent(x) = row[r]) /\ live[x] = "live"
                  THEN "deleted" ELSE live[x]]
    /\ UNCHANGED <<col, stale, mixed>>

CommitCreate(r) ==
    /\ op[r] = "create"
    /\ live' = [live EXCEPT ![row[r]] = "live"]
    /\ col' = [col EXCEPT ![row[r]] = new[r]]
    /\ UNCHANGED <<stale, mixed>>

CommitPatch(r) ==
    /\ op[r] = "patch"
    /\ IF changed[r] = {} THEN UNCHANGED <<col, stale, mixed>>
       ELSE /\ col' = [col EXCEPT ![row[r]] = new[r]]
            /\ stale' = stale \cup Readers(r, {row[r]})
            /\ mixed' = IF r \in stale THEN mixed \cup {row[r]} ELSE mixed
    /\ UNCHANGED live

CommitDelete(r) ==
    /\ op[r] = "delete"
    /\ live' = [x \in Rows |->
                  IF x \in Subtree(row[r]) /\ live[x] = "live" THEN "deleted" ELSE live[x]]
    /\ UNCHANGED <<col, stale, mixed>>

Commit(r) ==
    /\ pc[r] = "committing"
    /\ CommitCreate(r) \/ CommitPatch(r) \/ CommitDelete(r)
    /\ Goto(r, "publishing")
    /\ Flushed(r)
    /\ UNCHANGED <<op, row, changed, event>>

\* Mutant: the event goes out with the flush.
PublishEarly(r) ==
    /\ pc[r] \in {"committing", "publishing"}
    /\ event' = <<op[r], row[r]>>
    /\ End(r)
    /\ UNCHANGED <<live, col, mixed>>

\* update_asset publishes a PATCH that changed nothing too.
Publish(r) ==
    /\ pc[r] = "publishing"
    /\ event' = IF op[r] = "patch" /\ changed[r] = {} /\ KindOf[row[r]] # "asset"
                THEN event ELSE <<op[r], row[r]>>
    /\ End(r)
    /\ UNCHANGED <<live, col, mixed>>

\* The transaction is rolled back, or the event of a committed change is lost.
Abort(r) ==
    /\ pc[r] \in {"flushing", "committing", "publishing"}
    /\ End(r)
    /\ UNCHANGED <<live, col, mixed, event>>

Next ==
    \E r \in Requests :
        \/ CreateAsset(r) \/ CreateScan(r) \/ CreateVulnerability(r) \/ CreateReport(r)
        \/ UpdateAsset(r) \/ UpdateScan(r) \/ UpdateVulnerability(r) \/ UpdateReport(r)
        \/ DeleteAsset(r) \/ DeleteScan(r) \/ DeleteVulnerability(r) \/ DeleteReport(r)
        \/ Insert(r) \/ Update(r) \/ NothingToUpdate(r) \/ Delete(r) \/ Refuse(r)
        \/ Commit(r) \/ Publish(r) \/ Abort(r)

Spec == Init /\ [][Next]_vars

-----------------------------------------------------------------------------
(* Properties *)

TypeOK ==
    /\ live \in [Rows -> {"absent", "live", "deleted"}]
    /\ \A x \in Rows : col[x] \in Pairs(KindOf[x]) \/ (live[x] = "absent" /\ col[x] = NoPair)
    /\ pc \in [Requests -> {"idle", "flushing", "committing", "publishing", "done"}]
    /\ op \in [Requests -> {"none", "create", "patch", "delete"}]
    /\ row \in [Requests -> Rows \cup {None}]
    /\ ask \in [Requests -> AnyPair] /\ new \in [Requests -> AnyPair]
    /\ changed \in [Requests -> SUBSET Columns]
    /\ stale \subseteq Requests /\ mixed \subseteq Rows
    /\ event \in ({"create", "patch", "delete"} \X Rows) \cup {None}

\* scans/service.py: the effective (type, config) pair is validated, "so a partially
\* edited scan can never be persisted in a combination its type does not allow".
\* Does not hold: of two PATCHes that have read one row, one writes the type and the
\* other the configuration, each judged with what the other replaces.
ScanConfigFits == \A x \in LiveRows("scan") : Fits(x, col[x])

\* PATCHes of one row that overlap do not undo each other: a commit changes no column
\* that its body did not name, closed_at apart, which the server sets.
Named(r, x, k) == ask[r][k] # "unset" \/ (KindOf[x] = "vulnerability" /\ k = "b")
OnlyNamedChange ==
    \A x \in Rows : live[x] = "live" =>
        \A k \in Columns : col[x][k] # col'[x][k] =>
            \E r \in Requests : pc[r] = "committing" /\ row[r] = x /\ Named(r, x, k)
NoLostUpdate == [][OnlyNamedChange]_vars

\* fk_scans_asset_tenant, fk_vulnerabilities_scan_tenant, fk_reports_asset_tenant:
\* a parent resolved before the INSERT and deleted meanwhile leaves no orphan.
NoOrphans ==
    \A x \in Rows : live[x] = "live" => ParentLive(x)

\* uq_assets_tenant_type_value: concurrent POSTs and PATCHes never leave two
\* equal assets, although each column may be written by another request.
UniqueAssets ==
    \A x, y \in Rows :
        /\ KindOf[x] = "asset" /\ KindOf[y] = "asset"
        /\ live[x] = "live" /\ live[y] = "live" /\ col[x] = col[y]
        => x = y

\* "A failed commit publishes nothing": an event tells of a committed change,
\* and a deletion is not announced of a row that is still there.
EventsFollowCommits ==
    event # None =>
        /\ live[event[2]] # "absent"
        /\ event[1] = "delete" => live[event[2]] = "deleted"
=============================================================================
