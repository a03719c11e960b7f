--------------------------- MODULE InventoryProofs ---------------------------
(***************************************************************************)
(* For any rows, foreign keys and concurrent requests: no orphan, no two     *)
(* equal assets, no PATCH that undoes another's column, no row whose columns  *)
(* disagree unless a stale request wrote it, and no event of a change that    *)
(* was not committed.                                                         *)
(***************************************************************************)
EXTENDS Inventory, TLAPS

Types ==
    /\ live \in [Rows -> {"absent", "live", "deleted"}]
    /\ col \in [Rows -> AnyPair]
    /\ pc \in [Requests -> {"idle", "flushing", "committing", "publishing", "done"}]
    /\ op \in [Requests -> {"none", "create", "patch", "delete"}]
    /\ row \in [Requests -> Rows \cup {None}]
    /\ new \in [Requests -> AnyPair]
    /\ changed \in [Requests -> SUBSET Columns]
    /\ stale \subseteq Requests
    /\ event \in ({"create", "patch", "delete"} \X Rows) \cup {None}

Writing(r) == pc[r] \in {"flushing", "committing"}

\* A request in progress has a row; what it inserts nobody else has seen, what it
\* changes exists, and what it says it has deleted is gone.
RowsOfRequests == \A r \in Requests :
    /\ Writing(r) \/ pc[r] = "publishing" => row[r] \in Rows /\ op[r] # "none"
    /\ Writing(r) /\ op[r] = "create" =>
        /\ live[row[r]] = "absent"
        /\ \A q \in Requests \ {r} : row[q] # row[r]
    /\ Writing(r) /\ op[r] # "create" => live[row[r]] # "absent"
    /\ pc[r] = "publishing" =>
        /\ live[row[r]] # "absent"
        /\ op[r] = "delete" => live[row[r]] = "deleted"

LifeInv == Types /\ RowsOfRequests /\ EventsFollowCommits

\* An uncommitted child has a parent that no uncommitted DELETE takes away.
ParentsHeld == \A r \in Requests :
    pc[r] = "committing" /\ op[r] = "create" =>
        /\ ParentLive(row[r])
        /\ \A q \in Requests : pc[q] = "committing" /\ op[q] = "delete" =>
               Parent(row[r]) \notin Subtree(row[q])

TreeInv == ParentsHeld /\ NoOrphans

\* An uncommitted INSERT or UPDATE of an asset.
WritesAsset(r) ==
    /\ pc[r] = "committing" /\ KindOf[row[r]] = "asset"
    /\ op[r] = "create" \/ (op[r] = "patch" /\ changed[r] # {})

\* Two of them are at different assets and values, and no committed asset has
\* either value.
AssetsDiffer == \A r \in Requests : WritesAsset(r) =>
    /\ ~Duplicate(row[r], new[r])
    /\ \A q \in Requests \ {r} : WritesAsset(q) => row[q] # row[r] /\ new[q] # new[r]

AssetInv == AssetsDiffer /\ UniqueAssets

\* What a request is going to write was judged together with the columns it leaves
\* alone, which are still the ones it read unless it is stale.
Judged == \A r \in Requests :
    /\ Writing(r) /\ op[r] = "create" => Fits(row[r], new[r])
    /\ pc[r] = "flushing" /\ op[r] = "patch" /\ r \notin stale =>
        /\ "a" \notin changed[r] => new[r].a = col[row[r]].a
        /\ "b" \notin changed[r] => new[r].b = col[row[r]].b
    /\ Writing(r) /\ op[r] = "patch" /\ r \notin stale
       /\ (pc[r] = "committing" => changed[r] # {}) =>
        Fits(row[r], new[r]) \/ row[r] \in mixed

\* The columns of a row fit each other unless a stale request has written it.
FreshPairsFit == \A x \in Rows : live[x] = "live" => Fits(x, col[x]) \/ x \in mixed

PairInv == Judged /\ FreshPairsFit

-----------------------------------------------------------------------------
(* Columns *)

\* Every pair the services accept, store or are asked for is one of AnyPair.
LEMMA PairsKnown ==
    /\ NoPair \in AnyPair
    /\ \A k \in Kinds : \A c \in Fitting[k] : c \in AnyPair
    /\ \A k \in Kinds : \A p \in Asks(k) : p \in AnyPair
<1> DEFINE SA == (UNION {ValuesA[k] : k \in Kinds}) \cup {"unset"}
           SB == (UNION {ValuesB[k] : k \in Kinds}) \cup {"unset"}
<1>1. AnyPair = [a : SA, b : SB]
  BY DEF AnyPair
<1>2. "unset" \in SA /\ "unset" \in SB
  OBVIOUS
<1>3. \A k \in Kinds : ValuesA[k] \subseteq SA /\ ValuesB[k] \subseteq SB
  OBVIOUS
<1> HIDE DEF SA, SB
<1>4. NoPair \in AnyPair
  BY <1>1, <1>2 DEF NoPair, Pair
<1>5. \A k \in Kinds : \A p \in Asks(k) : p \in AnyPair
  <2> TAKE k \in Kinds
  <2> TAKE p \in Asks(k)
  <2>1. p \in [a : ValuesA[k] \cup {"unset"}, b : ValuesB[k] \cup {"unset"}]
    BY DEF Asks
  <2>2. p.a \in SA /\ p.b \in SB /\ p = [a |-> p.a, b |-> p.b]
    BY <1>2, <1>3, <2>1
  <2> QED
    BY <1>1, <2>2
<1>6. \A k \in Kinds : Fitting[k] \subseteq Pairs(k)
  <2>1. FittingAssets \subseteq Pairs("asset")
    BY DEF FittingAssets, Pairs, Pair, ValuesA, ValuesB
  <2>2. FittingScans \subseteq Pairs("scan")
    BY DEF FittingScans, Pairs, Pair, ValuesA, ValuesB
  <2>3. Fitting["vulnerability"] \subseteq Pairs("vulnerability")
    BY DEF Fitting, Pairs, Pair, ValuesA, ValuesB
  <2> QED
    BY <2>1, <2>2, <2>3 DEF Kinds, Fitting
<1>7. \A k \in Kinds : Pairs(k) \subseteq AnyPair
  BY <1>1, <1>3 DEF Pairs
<1> QED
  BY <1>4, <1>5, <1>6, <1>7

\* A pair is its two columns.
LEMMA PairIsColumns ==
    /\ \A c \in AnyPair : c = Pair(c.a, c.b)
    /\ \A c, d \in AnyPair : Pair(c.a, d.b) \in AnyPair
<1> DEFINE SA == (UNION {ValuesA[k] : k \in Kinds}) \cup {"unset"}
           SB == (UNION {ValuesB[k] : k \in Kinds}) \cup {"unset"}
<1>1. AnyPair = [a : SA, b : SB]
  BY DEF AnyPair
<1> HIDE DEF SA, SB
<1> QED
  BY <1>1 DEF Pair

LEMMA OverwrittenKnown ==
    ASSUME NEW c \in AnyPair, NEW p \in AnyPair
    PROVE  Overwritten(c, p) \in AnyPair
BY PairIsColumns DEF Overwritten

\* The columns outside Differing agree.
LEMMA DifferingColumns ==
    ASSUME NEW c, NEW d
    PROVE  /\ Differing(c, d) \subseteq Columns
           /\ "a" \notin Differing(c, d) => d.a = c.a
           /\ "b" \notin Differing(c, d) => d.b = c.b
BY DEF Differing, Columns

\* closed_at follows the status.
LEMMA ClosedFollowsStatus ==
    ASSUME NEW c \in Fitting["vulnerability"], NEW p \in Asks("vulnerability"),
           NEW status, status = Overwritten(c, p).a
    PROVE  Pair(status, IF c.a = "open" /\ status # "open" THEN "set"
                        ELSE IF status = "open" /\ c.a # "open" THEN "null"
                        ELSE c.b) \in Fitting["vulnerability"]
<1>1. /\ c.a \in {"open", "fixed", "accepted_risk"}
      /\ c.b = IF c.a = "open" THEN "null" ELSE "set"
  BY DEF Fitting, Pair
<1>2. p.a \in {"open", "fixed", "accepted_risk", "unset"}
  BY DEF Asks, ValuesA
<1>3. status \in {"open", "fixed", "accepted_risk"}
  BY <1>1, <1>2 DEF Overwritten, Pair
<1> QED
  BY <1>1, <1>3 DEF Fitting, Pair

LEMMA ReportStaysReport ==
    ASSUME NEW c \in Fitting["report"], NEW p \in Asks("report")
    PROVE  Overwritten(c, p) \in Fitting["report"]
BY DEF Fitting, Pairs, Asks, Overwritten, Pair, ValuesA, ValuesB

-----------------------------------------------------------------------------
(* What a step of each phase does, whatever the table *)

\* A request has read and judged.
Opens(r, o, x, c, ch) ==
    /\ pc[r] = "idle" /\ pc' = [pc EXCEPT ![r] = "flushing"]
    /\ op' = [op EXCEPT ![r] = o]
    /\ row' = [row EXCEPT ![r] = x]
    /\ new' = [new EXCEPT ![r] = c]
    /\ changed' = [changed EXCEPT ![r] = ch]
    /\ UNCHANGED <<live, col, stale, mixed, event>>
    /\ o = "create" =>
        live[x] = "absent" /\ Fits(x, c) /\ \A q \in Requests : row[q] # x
    /\ o # "create" => live[x] = "live"
    /\ o = "patch" =>
        /\ "a" \notin ch => c.a = col[x].a
        /\ "b" \notin ch => c.b = col[x].b
        /\ Fits(x, c) \/ x \in mixed

Reads(r) ==
    \/ CreateAsset(r) \/ CreateScan(r) \/ CreateVulnerability(r) \/ CreateReport(r)
    \/ UpdateAsset(r) \/ UpdateScan(r) \/ UpdateVulnerability(r) \/ UpdateReport(r)
    \/ DeleteAsset(r) \/ DeleteScan(r) \/ DeleteVulnerability(r) \/ DeleteReport(r)

Opened(r) ==
    \E o \in {"create", "patch", "delete"} : \E x \in Rows : \E c \in AnyPair :
        \E ch \in SUBSET Columns : Opens(r, o, x, c, ch)

LEMMA CreateOpens ==
    ASSUME NEW r \in Requests, NEW k \in Kinds, NEW c \in Fitting[k], CreateRow(r, k, c)
    PROVE  Opened(r)
<1>1. PICK x \in Rows :
        /\ KindOf[x] = k /\ live[x] = "absent"
        /\ \A q \in Requests : row[q] # x
        /\ Begin(r, "create", x, c, c, {})
  BY DEF CreateRow
<1>2. c \in AnyPair /\ Fits(x, c)
  BY <1>1, PairsKnown DEF Fits
<1>3. Opens(r, "create", x, c, {})
  BY <1>1, <1>2 DEF Opens, Begin, Goto
<1> QED
  BY <1>2, <1>3 DEF Opened

LEMMA DeleteOpens ==
    ASSUME NEW r \in Requests, NEW k \in Kinds, DeleteRow(r, k)
    PROVE  Opened(r)
<1>1. PICK x \in Rows : live[x] = "live" /\ Begin(r, "delete", x, NoPair, NoPair, {})
  BY DEF DeleteRow, LiveRows
<1>2. Opens(r, "delete", x, NoPair, {})
  BY <1>1 DEF Opens, Begin, Goto
<1> QED
  BY <1>2, PairsKnown DEF Opened

\* A PATCH, of a pair the service accepts or of a row that was mixed before.
LEMMA PatchOpens ==
    ASSUME NEW r \in Requests, NEW x \in Rows, live[x] = "live", NEW p,
           NEW c \in AnyPair, NEW ch \in SUBSET Columns,
           Differing(col[x], c) \subseteq ch, Begin(r, "patch", x, p, c, ch),
           Fits(x, c) \/ x \in mixed
    PROVE  Opened(r)
<1>1. /\ "a" \notin ch => c.a = col[x].a
      /\ "b" \notin ch => c.b = col[x].b
  BY DifferingColumns
<1>2. Opens(r, "patch", x, c, ch)
  BY <1>1 DEF Opens, Begin, Goto
<1> QED
  BY <1>2 DEF Opened

LEMMA ReadsOpens ==
    ASSUME Types, FreshPairsFit, NEW r \in Requests, Reads(r)
    PROVE  Opened(r)
<1> USE DEF Kinds
<1>1. CASE CreateAsset(r) \/ CreateScan(r) \/ CreateVulnerability(r) \/ CreateReport(r)
  <2>1. /\ Fitting["asset"] = FittingAssets /\ Fitting["scan"] = FittingScans
        /\ Pair("open", "null") \in Fitting["vulnerability"]
        /\ Pair("pending", "null") \in Fitting["report"]
    BY DEF Fitting, Pairs, Pair, ValuesA, ValuesB
  <2> QED
    BY <1>1, <2>1, CreateOpens
       DEF CreateAsset, CreateScan, CreateVulnerability, CreateReport
<1>2. CASE DeleteAsset(r) \/ DeleteScan(r) \/ DeleteVulnerability(r) \/ DeleteReport(r)
  BY <1>2, DeleteOpens DEF DeleteAsset, DeleteScan, DeleteVulnerability, DeleteReport
<1>3. CASE UpdateAsset(r) \/ UpdateScan(r)
  <2>1. PICK k \in {"asset", "scan"} : \E x \in LiveRows(k), p \in Asks(k) :
            /\ Overwritten(col[x], p) \in Fitting[k]
            /\ Begin(r, "patch", x, p, Overwritten(col[x], p),
                     Differing(col[x], Overwritten(col[x], p)))
    BY <1>3 DEF UpdateAsset, UpdateScan, Fitting
  <2>2. PICK x \in Rows, p \in Asks(k) :
            /\ KindOf[x] = k /\ live[x] = "live"
            /\ Overwritten(col[x], p) \in Fitting[k]
            /\ Begin(r, "patch", x, p, Overwritten(col[x], p),
                     Differing(col[x], Overwritten(col[x], p)))
    BY <2>1 DEF LiveRows
  <2>3. Overwritten(col[x], p) \in AnyPair /\ Fits(x, Overwritten(col[x], p))
    BY <2>2, PairsKnown DEF Fits
  <2> QED
    BY <2>2, <2>3, PatchOpens, DifferingColumns
<1>4. CASE UpdateVulnerability(r)
  <2> DEFINE status(x, p) == Overwritten(col[x], p).a
             closing(x, p) == col[x].a = "open" /\ status(x, p) # "open"
             c(x, p) == Pair(status(x, p), IF closing(x, p) THEN "set"
                              ELSE IF status(x, p) = "open" /\ col[x].a # "open" THEN "null"
                              ELSE col[x].b)
             ch(x, p) == Differing(col[x], c(x, p)) \cup IF closing(x, p) THEN {"b"} ELSE {}
  <2>1. PICK x \in Rows, p \in Asks("vulnerability") :
            /\ KindOf[x] = "vulnerability" /\ live[x] = "live"
            /\ Begin(r, "patch", x, p, c(x, p), ch(x, p))
    BY <1>4 DEF UpdateVulnerability, LiveRows
  <2>2. Differing(col[x], c(x, p)) \subseteq ch(x, p) /\ ch(x, p) \in SUBSET Columns
    <3>1. Differing(col[x], c(x, p)) \subseteq Columns /\ "b" \in Columns
      BY DifferingColumns DEF Columns
    <3> QED
      BY <3>1
  <2>3. Fits(x, c(x, p)) \/ x \in mixed
    BY <2>1, ClosedFollowsStatus DEF FreshPairsFit, Fits
  <2>4. c(x, p) \in AnyPair
    <3>1. col[x] \in AnyPair /\ p \in AnyPair
      BY PairsKnown DEF Types
    <3>2. Overwritten(col[x], p) \in AnyPair
      BY <3>1, OverwrittenKnown
    <3>3. \E d \in AnyPair : d.b = "set"
      BY PairsKnown DEF Fitting, Pair
    <3>4. \E d \in AnyPair : d.b = "null"
      BY PairsKnown DEF Fitting, Pair
    <3> QED
      BY <3>1, <3>2, <3>3, <3>4, PairIsColumns
  <2> HIDE DEF c, ch
  <2> QED
    BY <2>1, <2>2, <2>3, <2>4, PatchOpens
<1>5. CASE UpdateReport(r)
  <2>1. PICK x \in Rows, p \in Asks("report") :
            /\ KindOf[x] = "report" /\ live[x] = "live"
            /\ Begin(r, "patch", x, p, Overwritten(col[x], p),
                     Differing(col[x], Overwritten(col[x], p)))
    BY <1>5 DEF UpdateReport, LiveRows
  <2>2. Overwritten(col[x], p) \in AnyPair
    BY PairsKnown, OverwrittenKnown DEF Types
  <2>3. Fits(x, Overwritten(col[x], p)) \/ x \in mixed
    BY <2>1, ReportStaysReport DEF FreshPairsFit, Fits
  <2> QED
    BY <2>1, <2>2, <2>3, PatchOpens, DifferingColumns
<1> QED
  BY <1>1, <1>2, <1>3, <1>4, <1>5 DEF Reads

\* The statement is executed.
Flushes(r) == Insert(r) \/ Update(r) \/ NothingToUpdate(r) \/ Delete(r)

LEMMA FlushKeeps ==
    ASSUME Types, RowsOfRequests, NEW r \in Requests, Flushes(r)
    PROVE  /\ pc[r] = "flushing" /\ pc' = [pc EXCEPT ![r] = "committing"]
           /\ UNCHANGED <<live, col, op, row, changed, stale, mixed, event>>
           /\ new' \in [Requests -> AnyPair]
           /\ \A q \in Requests \ {r} : new'[q] = new[q]
           /\ op[r] \in {"create", "delete"} => new'[r] = new[r]
           /\ op[r] = "patch" /\ changed[r] # {} => new'[r] = Written(r)
<1>1. row[r] \in Rows
  BY DEF Flushes, Insert, Update, NothingToUpdate, Delete, RowsOfRequests, Writing
<1>2. Written(r) \in AnyPair
  <2>1. new[r] \in AnyPair /\ col[row[r]] \in AnyPair
    BY <1>1 DEF Types
  <2> QED
    BY <2>1, PairIsColumns DEF Written
<1>3. CASE Insert(r) \/ Delete(r)
  BY <1>3 DEF Insert, Delete, Goto, Types
<1>4. CASE Update(r)
  BY <1>2, <1>4 DEF Update, Goto, Types
<1>5. CASE NothingToUpdate(r)
  BY <1>5, PairsKnown DEF NothingToUpdate, Flushed, Goto, Types
<1> QED
  BY <1>3, <1>4, <1>5 DEF Flushes

\* What the end of one request leaves to the others.
LEMMA EndKeeps ==
    ASSUME Types, NEW r \in Requests, End(r)
    PROVE  /\ pc'[r] = "done"
           /\ \A q \in Requests \ {r} :
                  /\ pc'[q] = pc[q] /\ op'[q] = op[q] /\ row'[q] = row[q]
                  /\ new'[q] = new[q] /\ changed'[q] = changed[q]
                  /\ q \in stale' <=> q \in stale
           /\ row'[r] = None
           /\ pc' \in [Requests -> {"idle", "flushing", "committing", "publishing", "done"}]
           /\ op' \in [Requests -> {"none", "create", "patch", "delete"}]
           /\ row' \in [Requests -> Rows \cup {None}]
           /\ new' \in [Requests -> AnyPair]
           /\ changed' \in [Requests -> SUBSET Columns]
           /\ stale' \subseteq Requests
BY PairsKnown DEF Types, End, Flushed, Goto

\* A request is answered: it is refused, has published or is aborted.
Ends(r) == Refuse(r) \/ Publish(r) \/ Abort(r)

LEMMA NextPhases ==
    ASSUME Types, FreshPairsFit, Next
    PROVE  \E r \in Requests : Opened(r) \/ Flushes(r) \/ Commit(r) \/ Ends(r)
BY ReadsOpens DEF Next, Reads, Flushes, Ends

\* What a COMMIT does to the requests,
LEMMA CommitKeeps ==
    ASSUME Types, RowsOfRequests, NEW r \in Requests, Commit(r)
    PROVE  /\ pc[r] = "committing" /\ row[r] \in Rows
           /\ op[r] \in {"create", "patch", "delete"}
           /\ pc' \in [Requests -> {"idle", "flushing", "committing", "publishing", "done"}]
           /\ pc'[r] = "publishing"
           /\ \A q \in Requests \ {r} : pc'[q] = pc[q] /\ new'[q] = new[q]
           /\ new' \in [Requests -> AnyPair]
           /\ op' = op /\ row' = row /\ changed' = changed /\ event' = event
<1>1. pc[r] = "committing" /\ row[r] \in Rows /\ op[r] \in {"create", "patch", "delete"}
  BY DEF Commit, RowsOfRequests, Writing, CommitCreate, CommitPatch, CommitDelete
<1> QED
  BY <1>1, PairsKnown DEF Commit, Flushed, Goto, Types

\* and to the tables.
LEMMA CommitWrites ==
    ASSUME Types, RowsOfRequests, NEW r \in Requests, Commit(r)
    PROVE  /\ live' \in [Rows -> {"absent", "live", "deleted"}]
           /\ col' \in [Rows -> AnyPair]
           /\ stale' \subseteq Requests
           /\ op[r] = "create" => \A x \in Rows :
                 /\ live'[x] = IF x = row[r] THEN "live" ELSE live[x]
                 /\ col'[x] = IF x = row[r] THEN new[r] ELSE col[x]
           /\ op[r] = "patch" => live' = live
           /\ op[r] # "patch" \/ changed[r] = {} => stale' = stale /\ mixed' = mixed
           /\ op[r] = "patch" /\ changed[r] = {} => col' = col
           /\ op[r] = "patch" /\ changed[r] # {} =>
                 /\ \A x \in Rows : col'[x] = IF x = row[r] THEN new[r] ELSE col[x]
                 /\ stale' = stale \cup Readers(r, {row[r]})
                 /\ mixed' = IF r \in stale THEN mixed \cup {row[r]} ELSE mixed
           /\ op[r] = "delete" => \A x \in Rows :
                 /\ live'[x] = IF x \in Subtree(row[r]) /\ live[x] = "live"
                               THEN "deleted" ELSE live[x]
                 /\ col'[x] = col[x]
<1>1. row[r] \in Rows /\ op[r] \in {"create", "patch", "delete"}
  BY CommitKeeps
<1>2. CASE op[r] = "create"
  BY <1>1, <1>2 DEF Commit, CommitCreate, CommitPatch, CommitDelete, Types
<1>3. CASE op[r] = "patch"
  BY <1>1, <1>3 DEF Commit, CommitCreate, CommitPatch, CommitDelete, Types, Readers
<1>4. CASE op[r] = "delete"
  BY <1>1, <1>4 DEF Commit, CommitCreate, CommitPatch, CommitDelete, Types
<1> QED
  BY <1>1, <1>2, <1>3, <1>4

-----------------------------------------------------------------------------
(* Rows and events *)

LEMMA LifeInit == Init => LifeInv
<1> SUFFICES ASSUME Init PROVE LifeInv
  OBVIOUS
<1>1. \A x \in InitiallyLive : InitialColumns[x] \in AnyPair
  BY InitialAssumption, TreeAssumption, PairsKnown DEF Fits
<1>2. Types
  BY <1>1, PairsKnown DEF Init, Types
<1> QED
  BY <1>2 DEF LifeInv, Init, RowsOfRequests, Writing, EventsFollowCommits

\* No row that exists disappears, and none that was deleted comes back.
RowsStay == \A x \in Rows :
    /\ live[x] # "absent" => live'[x] # "absent"
    /\ live[x] = "deleted" => live'[x] = "deleted"

LEMMA EventsStay ==
    ASSUME Types, EventsFollowCommits, RowsStay, UNCHANGED event
    PROVE  EventsFollowCommits'
BY DEF Types, EventsFollowCommits, RowsStay

LEMMA OpenLife ==
    ASSUME LifeInv, NEW r \in Requests, Opened(r)
    PROVE  LifeInv'
<1>1. PICK o \in {"create", "patch", "delete"}, x \in Rows, c \in AnyPair,
           ch \in SUBSET Columns : Opens(r, o, x, c, ch)
  BY DEF Opened
<1>2. Types'
  BY <1>1 DEF LifeInv, Types, Opens
<1>3. RowsOfRequests'
  BY <1>1, TreeAssumption DEF LifeInv, Types, RowsOfRequests, Writing, Opens
<1>4. EventsFollowCommits'
  BY <1>1 DEF LifeInv, Opens, EventsFollowCommits
<1> QED
  BY <1>2, <1>3, <1>4 DEF LifeInv

LEMMA FlushLife ==
    ASSUME LifeInv, NEW r \in Requests, Flushes(r)
    PROVE  LifeInv'
BY FlushKeeps DEF LifeInv, Types, RowsOfRequests, Writing, EventsFollowCommits

LEMMA CommitLife ==
    ASSUME LifeInv, NEW r \in Requests, Commit(r)
    PROVE  LifeInv' /\ RowsStay
<1> USE DEF LifeInv
<1> DEFINE x == row[r]
<1>1. /\ pc[r] = "committing" /\ x \in Rows /\ op[r] \in {"create", "patch", "delete"}
      /\ pc'[r] = "publishing" /\ \A q \in Requests \ {r} : pc'[q] = pc[q]
      /\ op' = op /\ row' = row
  BY CommitKeeps
<1>2. \A y \in Rows :
        /\ op[r] = "create" => live'[y] = IF y = x THEN "live" ELSE live[y]
        /\ op[r] = "patch" => live'[y] = live[y]
        /\ op[r] = "delete" => live'[y] = IF y \in Subtree(x) /\ live[y] = "live"
                                          THEN "deleted" ELSE live[y]
  BY CommitWrites
<1>3. /\ op[r] = "create" => live[x] = "absent" /\ \A q \in Requests \ {r} : row[q] # x
      /\ op[r] # "create" => live[x] # "absent"
  BY <1>1 DEF RowsOfRequests, Writing
<1>4. x \in Subtree(x)
  BY <1>1 DEF Subtree
<1>5. \A y \in Rows : live[y] \in {"absent", "live", "deleted"}
  BY DEF Types
<1>6. RowsStay
  BY <1>1, <1>2, <1>3 DEF RowsStay
<1>7. live'[x] # "absent" /\ (op[r] = "delete" => live'[x] = "deleted")
  BY <1>1, <1>2, <1>3, <1>4, <1>5
<1>8. ASSUME NEW q \in Requests \ {r}, Writing(q), op[q] = "create"
      PROVE  live'[row[q]] = "absent"
  <2>1. row[q] \in Rows /\ live[row[q]] = "absent" /\ row[q] # x
    BY <1>8 DEF RowsOfRequests
  <2> QED
    BY <1>1, <1>2, <2>1
<1> HIDE DEF x
<1>9. RowsOfRequests'
  BY <1>1, <1>6, <1>7, <1>8 DEF RowsOfRequests, Writing, RowsStay, x
<1>10. Types'
  <2>1. /\ pc' \in [Requests -> {"idle", "flushing", "committing", "publishing", "done"}]
        /\ new' \in [Requests -> AnyPair]
        /\ op' = op /\ row' = row /\ changed' = changed /\ event' = event
    BY CommitKeeps
  <2>2. /\ live' \in [Rows -> {"absent", "live", "deleted"}]
        /\ col' \in [Rows -> AnyPair] /\ stale' \subseteq Requests
    BY CommitWrites
  <2> QED
    BY <2>1, <2>2 DEF Types
<1>11. EventsFollowCommits'
  BY <1>6, CommitKeeps, EventsStay
<1> QED
  BY <1>6, <1>9, <1>10, <1>11

LEMMA EndLife ==
    ASSUME LifeInv, NEW r \in Requests, Ends(r)
    PROVE  LifeInv' /\ End(r) /\ UNCHANGED <<live, col, mixed>>
<1> USE DEF LifeInv
<1>1. End(r) /\ UNCHANGED <<live, col, mixed>>
  BY DEF Ends, Refuse, Publish, Abort
<1>2. RowsOfRequests'
  <2>1. \A q \in Requests \ {r} : row[q] = row'[q] /\ pc[q] = pc'[q] /\ op[q] = op'[q]
    BY <1>1, EndKeeps
  <2>2. pc'[r] = "done" /\ row'[r] = None
    BY <1>1, EndKeeps
  <2> QED
    BY <1>1, <2>1, <2>2, TreeAssumption DEF RowsOfRequests, Writing
<1>3. CASE Publish(r)
  <2>1. /\ row[r] \in Rows /\ op[r] \in {"create", "patch", "delete"}
        /\ live[row[r]] # "absent" /\ (op[r] = "delete" => live[row[r]] = "deleted")
    BY <1>3 DEF Publish, RowsOfRequests, Types
  <2>2. event' = event \/ event' = <<op[r], row[r]>>
    BY <1>3 DEF Publish
  <2>3. EventsFollowCommits'
    BY <1>1, <2>1, <2>2 DEF EventsFollowCommits
  <2>4. event' \in ({"create", "patch", "delete"} \X Rows) \cup {None}
    BY <2>1, <2>2 DEF Types
  <2> QED
    BY <1>1, <1>2, <2>3, <2>4, EndKeeps DEF Types
<1>4. CASE Refuse(r) \/ Abort(r)
  <2>1. UNCHANGED event
    BY <1>4 DEF Refuse, Abort
  <2> QED
    BY <1>1, <1>2, <2>1, EndKeeps DEF Types, EventsFollowCommits
<1> QED
  BY <1>1, <1>3, <1>4 DEF Ends

-----------------------------------------------------------------------------
(* Foreign keys *)

\* ON DELETE CASCADE reaches every descendant: the tables nest three deep.
LEMMA SubtreeClosed ==
    ASSUME NEW x \in Rows, NEW y \in Rows, Parent(y) \in Subtree(x)
    PROVE  y \in Subtree(x)
<1>1. Parent(y) \in Rows
  BY DEF Subtree
<1>2. \/ Parent(y) = x \/ Parent(Parent(y)) = x
      \/ Parent(Parent(y)) \in Rows /\ Parent(Parent(Parent(y))) = x
  BY DEF Subtree
<1>3. CASE Parent(Parent(y)) \in Rows /\ Parent(Parent(Parent(y))) = x
  <2>1. KindOf[y] \in Kinds /\ KindOf[y] # "asset"
    BY <1>1, TreeAssumption DEF Parent
  <2>2. KindOf[Parent(y)] \in {"asset", "scan"}
    BY <2>1, TreeAssumption DEF Parent, Kinds
  <2>3. KindOf[Parent(y)] = "scan"
    BY <1>1, <1>3, <2>2, TreeAssumption DEF Parent
  <2>4. KindOf[Parent(Parent(y))] = "asset"
    BY <1>1, <2>3, TreeAssumption DEF Parent
  <2>5. Parent(Parent(Parent(y))) = None
    BY <1>3, <2>4, TreeAssumption DEF Parent
  <2> QED
    BY <1>3, <2>5, TreeAssumption
<1> QED
  BY <1>1, <1>2, <1>3 DEF Subtree

LEMMA ParentKnown ==
    ASSUME NEW x \in Rows
    PROVE  Parent(x) \in Rows \cup {None}
BY TreeAssumption DEF Parent

LEMMA TreeInit == Init => TreeInv
BY InitialAssumption, TreeAssumption
   DEF Init, TreeInv, ParentsHeld, NoOrphans, ParentLive, Parent

LEMMA FlushTree ==
    ASSUME LifeInv, TreeInv, NEW r \in Requests, Flushes(r)
    PROVE  TreeInv'
<1> USE DEF LifeInv, TreeInv
<1>1. /\ pc[r] = "flushing" /\ pc'[r] = "committing"
      /\ \A q \in Requests \ {r} : pc'[q] = pc[q]
      /\ live' = live /\ op' = op /\ row' = row
  <2>1. pc[r] = "flushing" /\ pc' = [pc EXCEPT ![r] = "committing"]
        /\ live' = live /\ op' = op /\ row' = row
    BY FlushKeeps
  <2> QED
    BY <2>1 DEF Types
<1>2. ASSUME op[r] = "create"
      PROVE  /\ ParentLive(row[r])
             /\ \A q \in Requests : pc[q] = "committing" /\ op[q] = "delete" =>
                    Parent(row[r]) \notin Subtree(row[q])
  <2>1. Insert(r)
    BY <1>2 DEF Flushes, Update, NothingToUpdate, Delete
  <2> QED
    BY <2>1 DEF Insert, BlocksInsert, Holds
<1>3. ASSUME op[r] = "delete", NEW q \in Requests, pc[q] = "committing", op[q] = "create"
      PROVE  Parent(row[q]) \notin Subtree(row[r])
  <2>1. Delete(r)
    BY <1>3 DEF Flushes, Update, NothingToUpdate, Insert
  <2> QED
    BY <1>3, <2>1 DEF Delete, BlocksDelete, KeyShares
<1>4. ParentsHeld'
  <2> SUFFICES ASSUME NEW q \in Requests, pc'[q] = "committing", op[q] = "create"
               PROVE  /\ ParentLive(row[q])
                      /\ \A p \in Requests : pc'[p] = "committing" /\ op[p] = "delete" =>
                             Parent(row[q]) \notin Subtree(row[p])
    BY <1>1 DEF ParentsHeld, ParentLive, Parent, Subtree
  <2>1. CASE q = r
    BY <1>1, <1>2, <2>1
  <2>2. CASE q # r
    BY <1>1, <1>3, <2>2 DEF ParentsHeld
  <2> QED
    BY <2>1, <2>2
<1> QED
  BY <1>1, <1>4 DEF NoOrphans, ParentLive, Parent

LEMMA CommitTree ==
    ASSUME LifeInv, TreeInv, NEW r \in Requests, Commit(r)
    PROVE  TreeInv'
<1> USE DEF LifeInv, TreeInv
<1>1. /\ pc[r] = "committing" /\ row[r] \in Rows /\ op[r] \in {"create", "patch", "delete"}
      /\ pc'[r] = "publishing" /\ \A q \in Requests \ {r} : pc'[q] = pc[q]
      /\ op' = op /\ row' = row
  BY CommitKeeps
<1>2. \A y \in Rows :
        /\ op[r] = "create" => live'[y] = IF y = row[r] THEN "live" ELSE live[y]
        /\ op[r] = "patch" => live'[y] = live[y]
        /\ op[r] = "delete" => live'[y] = IF y \in Subtree(row[r]) /\ live[y] = "live"
                                          THEN "deleted" ELSE live[y]
  BY CommitWrites
\* A live parent stays live unless the DELETE reaches it.
<1>3. ASSUME NEW y \in Rows, ParentLive(y),
             op[r] = "delete" => Parent(y) \notin Subtree(row[r])
      PROVE  ParentLive(y)'
  BY <1>1, <1>2, <1>3, ParentKnown DEF ParentLive, Parent
<1>4. NoOrphans'
  <2> SUFFICES ASSUME NEW y \in Rows, live'[y] = "live" PROVE ParentLive(y)'
    BY DEF NoOrphans
  <2>1. CASE op[r] = "create" /\ y = row[r]
    BY <1>1, <1>3, <2>1 DEF ParentsHeld
  <2>2. CASE ~(op[r] = "create" /\ y = row[r])
    <3>1. live[y] = "live" /\ (op[r] = "delete" => y \notin Subtree(row[r]))
      BY <1>1, <1>2, <2>2
    <3>2. op[r] = "delete" => Parent(y) \notin Subtree(row[r])
      BY <1>1, <3>1, SubtreeClosed
    <3> QED
      BY <1>3, <3>1, <3>2 DEF NoOrphans
  <2> QED
    BY <2>1, <2>2
<1>5. ParentsHeld'
  <2> SUFFICES ASSUME NEW q \in Requests, pc'[q] = "committing", op[q] = "create"
               PROVE  /\ ParentLive(row[q])'
                      /\ \A p \in Requests : pc'[p] = "committing" /\ op[p] = "delete" =>
                             Parent(row[q]) \notin Subtree(row[p])
    BY <1>1 DEF ParentsHeld, ParentLive, Parent, Subtree
  <2>1. q # r /\ pc[q] = "committing" /\ row[q] \in Rows
    BY <1>1 DEF RowsOfRequests, Writing
  <2>2. ParentLive(row[q])
    BY <2>1 DEF ParentsHeld
  <2>3. op[r] = "delete" => Parent(row[q]) \notin Subtree(row[r])
    BY <1>1, <2>1 DEF ParentsHeld
  <2>4. ParentLive(row[q])'
    BY <1>1, <1>3, <2>1, <2>2, <2>3 DEF ParentLive, Parent
  <2> QED
    BY <1>1, <2>1, <2>4 DEF ParentsHeld
<1> QED
  BY <1>4, <1>5

LEMMA OtherTree ==
    ASSUME LifeInv, TreeInv, NEW r \in Requests, Opened(r) \/ Ends(r)
    PROVE  TreeInv'
<1> USE DEF LifeInv, TreeInv
<1>1. /\ pc'[r] # "committing" /\ live' = live
      /\ \A q \in Requests \ {r} : pc'[q] = pc[q] /\ op'[q] = op[q] /\ row'[q] = row[q]
  <2>1. CASE Opened(r)
    BY <2>1 DEF Opened, Opens, Types
  <2>2. CASE Ends(r)
    <3>1. End(r) /\ live' = live
      BY <2>2, EndLife
    <3> QED
      BY <3>1, EndKeeps
  <2> QED
    BY <2>1, <2>2
<1>2. ParentsHeld'
  <2> SUFFICES ASSUME NEW q \in Requests, pc'[q] = "committing", op'[q] = "create"
               PROVE  /\ ParentLive(row'[q])
                      /\ \A p \in Requests : pc'[p] = "committing" /\ op'[p] = "delete" =>
                             Parent(row'[q]) \notin Subtree(row'[p])
    BY <1>1 DEF ParentsHeld, ParentLive, Parent, Subtree
  <2> QED
    BY <1>1 DEF ParentsHeld
<1> QED
  BY <1>1, <1>2 DEF NoOrphans, ParentLive, Parent

-----------------------------------------------------------------------------
(* The unique constraint of assets *)

LEMMA AssetInit == Init => AssetInv
BY InitialAssumption
   DEF Init, AssetInv, AssetsDiffer, WritesAsset, UniqueAssets

LEMMA FlushAssets ==
    ASSUME LifeInv, AssetInv, NEW r \in Requests, Flushes(r)
    PROVE  AssetInv'
<1> USE DEF LifeInv, AssetInv
<1>1. /\ pc[r] = "flushing" /\ pc' = [pc EXCEPT ![r] = "committing"]
      /\ live' = live /\ col' = col /\ op' = op /\ row' = row /\ changed' = changed
      /\ \A q \in Requests \ {r} : new'[q] = new[q]
      /\ op[r] \in {"create", "delete"} => new'[r] = new[r]
      /\ op[r] = "patch" /\ changed[r] # {} => new'[r] = Written(r)
  BY FlushKeeps
<1>2. pc'[r] = "committing" /\ \A q \in Requests \ {r} : pc'[q] = pc[q]
  BY <1>1 DEF Types
<1>3. row[r] \in Rows
  BY <1>1 DEF RowsOfRequests, Writing
\* The index entry of r is compared with every entry that is there or may be.
<1>4. ASSUME KindOf[row[r]] = "asset",
             op[r] = "create" \/ (op[r] = "patch" /\ changed[r] # {})
      PROVE  /\ ~Duplicate(row[r], new'[r])
             /\ \A q \in Requests \ {r} :
                    WritesAsset(q) => row[q] # row[r] /\ new[q] # new'[r]
  <2>1. ~Duplicate(row[r], new'[r]) /\ ~DuplicatePending(r, row[r], new'[r])
    BY <1>1, <1>4 DEF Flushes, Insert, Update, NothingToUpdate, Delete
  <2>2. ASSUME NEW q \in Requests \ {r}, WritesAsset(q) PROVE row[q] # row[r]
    <3>1. CASE op[r] = "create"
      BY <1>1, <2>2, <3>1 DEF RowsOfRequests, Writing
    <3>2. CASE op[q] = "create"
      BY <2>2, <3>2 DEF RowsOfRequests, Writing, WritesAsset
    <3>3. CASE op[r] # "create" /\ op[q] # "create"
      <4>1. Update(r) /\ op[q] = "patch" /\ changed[q] # {} /\ pc[q] = "committing"
        BY <1>4, <2>2, <3>3 DEF Flushes, Insert, NothingToUpdate, Delete, WritesAsset
      <4> QED
        BY <4>1 DEF Update, BlocksUpdate, Holds
    <3> QED
      BY <3>1, <3>2, <3>3
  <2>3. ASSUME NEW q \in Requests \ {r}, WritesAsset(q) PROVE new[q] # new'[r]
    BY <1>4, <2>1, <2>2, <2>3 DEF DuplicatePending, WritesAsset
  <2> QED
    BY <2>1, <2>2, <2>3
<1>5. AssetsDiffer'
  <2>1. \A q \in Requests \ {r} : WritesAsset(q)' <=> WritesAsset(q)
    BY <1>1, <1>2 DEF WritesAsset
  <2>2. WritesAsset(r)' =>
            /\ KindOf[row[r]] = "asset"
            /\ op[r] = "create" \/ (op[r] = "patch" /\ changed[r] # {})
    BY <1>1 DEF WritesAsset
  <2>3. \A q \in Requests : Duplicate(row[q], new[q])' <=> Duplicate(row[q], new'[q])
    BY <1>1 DEF Duplicate
  <2> QED
    BY <1>1, <1>4, <2>1, <2>2, <2>3 DEF AssetsDiffer
<1> QED
  BY <1>1, <1>5 DEF UniqueAssets

LEMMA CommitAssets ==
    ASSUME LifeInv, AssetInv, NEW r \in Requests, Commit(r)
    PROVE  AssetInv'
<1> USE DEF LifeInv, AssetInv
<1>1. /\ pc[r] = "committing" /\ row[r] \in Rows /\ op[r] \in {"create", "patch", "delete"}
      /\ pc'[r] = "publishing"
      /\ \A q \in Requests \ {r} : pc'[q] = pc[q] /\ new'[q] = new[q]
      /\ op' = op /\ row' = row /\ changed' = changed
  BY CommitKeeps
\* An asset that is live afterwards was so, with the same columns, or r wrote it.
<1>2. ASSUME NEW y \in Rows, KindOf[y] = "asset", live'[y] = "live"
      PROVE  \/ y = row[r] /\ WritesAsset(r) /\ col'[y] = new[r]
             \/ live[y] = "live" /\ col'[y] = col[y]
  <2>1. CASE op[r] = "create"
    <3>1. /\ live'[y] = IF y = row[r] THEN "live" ELSE live[y]
          /\ col'[y] = IF y = row[r] THEN new[r] ELSE col[y]
      BY <2>1, CommitWrites
    <3> QED
      BY <1>1, <1>2, <2>1, <3>1 DEF WritesAsset
  <2>2. CASE op[r] = "patch" /\ changed[r] = {}
    <3>1. live' = live /\ col' = col
      BY <2>2, CommitWrites
    <3> QED
      BY <1>2, <3>1
  <2>3. CASE op[r] = "patch" /\ changed[r] # {}
    <3>1. live' = live /\ col'[y] = IF y = row[r] THEN new[r] ELSE col[y]
      BY <2>3, CommitWrites
    <3> QED
      BY <1>1, <1>2, <2>3, <3>1 DEF WritesAsset
  <2>4. CASE op[r] = "delete"
    <3>1. /\ live'[y] = "live" => live[y] = "live"
          /\ col'[y] = col[y]
      BY <2>4, CommitWrites
    <3> QED
      BY <1>2, <3>1
  <2> QED
    BY <1>1, <2>1, <2>2, <2>3, <2>4
<1>3. UniqueAssets'
  <2> SUFFICES ASSUME NEW x \in Rows, NEW y \in Rows,
                      KindOf[x] = "asset", KindOf[y] = "asset",
                      live'[x] = "live", live'[y] = "live", col'[x] = col'[y]
               PROVE  x = y
    BY DEF UniqueAssets
  <2>1. WritesAsset(r) => \A z \in Rows \ {row[r]} :
            KindOf[z] = "asset" /\ live[z] = "live" => col[z] # new[r]
    BY DEF AssetsDiffer, Duplicate, WritesAsset
  <2>2. live[x] = "live" /\ live[y] = "live" /\ col[x] = col[y] => x = y
    BY DEF UniqueAssets
  <2> QED
    BY <1>2, <2>1, <2>2
<1>4. AssetsDiffer'
  <2> SUFFICES ASSUME NEW q \in Requests, WritesAsset(q)'
               PROVE  /\ ~Duplicate(row[q], new[q])'
                      /\ \A p \in Requests \ {q} : WritesAsset(p)' =>
                             row'[p] # row'[q] /\ new'[p] # new'[q]
    BY DEF AssetsDiffer
  <2>1. ASSUME NEW p \in Requests, WritesAsset(p)'
        PROVE  p # r /\ WritesAsset(p) /\ new'[p] = new[p]
    BY <1>1, <2>1 DEF WritesAsset
  <2>2. q # r /\ WritesAsset(q) /\ new'[q] = new[q]
    BY <2>1
  <2>3. ASSUME NEW y \in Rows \ {row[q]}, KindOf[y] = "asset", live'[y] = "live"
        PROVE  col'[y] # new[q]
    BY <1>2, <2>2, <2>3 DEF AssetsDiffer, Duplicate, WritesAsset
  <2>4. ~Duplicate(row[q], new[q])'
    BY <1>1, <2>2, <2>3 DEF Duplicate
  <2> QED
    BY <1>1, <2>1, <2>2, <2>4 DEF AssetsDiffer
<1> QED
  BY <1>3, <1>4

LEMMA OtherAssets ==
    ASSUME LifeInv, AssetInv, NEW r \in Requests, Opened(r) \/ Ends(r)
    PROVE  AssetInv'
<1> USE DEF LifeInv, AssetInv
<1>1. /\ pc'[r] # "committing" /\ live' = live /\ col' = col
      /\ \A q \in Requests \ {r} :
             /\ pc'[q] = pc[q] /\ op'[q] = op[q] /\ row'[q] = row[q]
             /\ new'[q] = new[q] /\ changed'[q] = changed[q]
  <2>1. CASE Opened(r)
    BY <2>1 DEF Opened, Opens, Types
  <2>2. CASE Ends(r)
    <3>1. End(r) /\ live' = live /\ col' = col
      BY <2>2, EndLife
    <3> QED
      BY <3>1, EndKeeps
  <2> QED
    BY <2>1, <2>2
<1>2. ~WritesAsset(r)' /\ \A q \in Requests \ {r} : WritesAsset(q)' <=> WritesAsset(q)
  BY <1>1 DEF WritesAsset
<1>3. \A q \in Requests \ {r} : Duplicate(row[q], new[q])' <=> Duplicate(row[q], new[q])
  BY <1>1 DEF Duplicate
<1>4. AssetsDiffer'
  BY <1>1, <1>2, <1>3 DEF AssetsDiffer
<1> QED
  BY <1>1, <1>4 DEF UniqueAssets

-----------------------------------------------------------------------------
(* Columns that belong together *)

LEMMA PairInit == Init => PairInv
BY InitialAssumption DEF Init, PairInv, Judged, Writing, FreshPairsFit

LEMMA OpenPairs ==
    ASSUME LifeInv, PairInv, NEW r \in Requests, Opened(r)
    PROVE  PairInv'
<1> USE DEF LifeInv, PairInv
<1>1. PICK o \in {"create", "patch", "delete"}, x \in Rows, c \in AnyPair,
           ch \in SUBSET Columns : Opens(r, o, x, c, ch)
  BY DEF Opened
<1>2. /\ pc'[r] = "flushing" /\ op'[r] = o /\ row'[r] = x /\ new'[r] = c /\ changed'[r] = ch
      /\ \A q \in Requests \ {r} :
             /\ pc'[q] = pc[q] /\ op'[q] = op[q] /\ row'[q] = row[q]
             /\ new'[q] = new[q] /\ changed'[q] = changed[q]
      /\ live' = live /\ col' = col /\ stale' = stale /\ mixed' = mixed
  BY <1>1 DEF Opens, Types
<1>3. Judged'
  BY <1>1, <1>2 DEF Opens, Judged, Writing, Fits
<1> QED
  BY <1>2, <1>3 DEF FreshPairsFit, Fits

\* The UPDATE of a request that is not stale writes the pair that was judged.
LEMMA FreshWritesJudged ==
    ASSUME LifeInv, PairInv, NEW r \in Requests, pc[r] = "flushing", op[r] = "patch",
           r \notin stale
    PROVE  Written(r) = new[r]
<1>1. /\ "a" \notin changed[r] => new[r].a = col[row[r]].a
      /\ "b" \notin changed[r] => new[r].b = col[row[r]].b
  BY DEF PairInv, Judged
<1>2. new[r] = Pair(new[r].a, new[r].b)
  BY PairIsColumns DEF LifeInv, Types
<1>3. Written(r) = Pair(new[r].a, new[r].b)
  BY <1>1 DEF Written
<1> QED
  BY <1>2, <1>3

LEMMA FlushPairs ==
    ASSUME LifeInv, PairInv, NEW r \in Requests, Flushes(r)
    PROVE  PairInv'
<1> USE DEF LifeInv, PairInv
<1>1. /\ pc[r] = "flushing" /\ pc' = [pc EXCEPT ![r] = "committing"]
      /\ live' = live /\ col' = col /\ op' = op /\ row' = row /\ changed' = changed
      /\ stale' = stale /\ mixed' = mixed
      /\ \A q \in Requests \ {r} : new'[q] = new[q]
      /\ op[r] \in {"create", "delete"} => new'[r] = new[r]
      /\ op[r] = "patch" /\ changed[r] # {} => new'[r] = Written(r)
  BY FlushKeeps
<1>2. pc'[r] = "committing" /\ \A q \in Requests \ {r} : pc'[q] = pc[q]
  BY <1>1 DEF Types
<1>3. op[r] = "patch" /\ changed[r] # {} /\ r \notin stale => new'[r] = new[r]
  BY <1>1, FreshWritesJudged
<1>4. Judged'
  BY <1>1, <1>2, <1>3 DEF Judged, Writing, Fits
<1> QED
  BY <1>1, <1>4 DEF FreshPairsFit, Fits

LEMMA CommitPairs ==
    ASSUME LifeInv, PairInv, NEW r \in Requests, Commit(r)
    PROVE  PairInv'
<1> USE DEF LifeInv, PairInv
<1>1. /\ pc[r] = "committing" /\ row[r] \in Rows /\ op[r] \in {"create", "patch", "delete"}
      /\ pc'[r] = "publishing"
      /\ \A q \in Requests \ {r} : pc'[q] = pc[q] /\ new'[q] = new[q]
      /\ op' = op /\ row' = row /\ changed' = changed
  BY CommitKeeps
<1>2. stale \subseteq stale' /\ mixed \subseteq mixed'
  BY <1>1, CommitWrites
\* A row that r did not write keeps its columns.
<1>3. ASSUME NEW y \in Rows,
             y # row[r] \/ op[r] = "delete" \/ (op[r] = "patch" /\ changed[r] = {})
      PROVE  col'[y] = col[y] /\ (live'[y] = "live" => live[y] = "live")
  <2>1. CASE op[r] = "create"
    BY <1>3, <2>1, CommitWrites
  <2>2. CASE op[r] = "patch"
    BY <1>3, <2>2, CommitWrites
  <2>3. CASE op[r] = "delete"
    BY <2>3, CommitWrites
  <2> QED
    BY <1>1, <2>1, <2>2, <2>3
\* The row that r wrote has what r judged, unless r was stale.
<1>4. ASSUME op[r] = "create" \/ (op[r] = "patch" /\ changed[r] # {})
      PROVE  Fits(row[r], col'[row[r]]) \/ row[r] \in mixed'
  <2>1. col'[row[r]] = new[r]
    BY <1>1, <1>4, CommitWrites
  <2>2. CASE op[r] = "create"
    BY <1>1, <2>1, <2>2 DEF Judged, Writing
  <2>3. CASE op[r] = "patch" /\ r \in stale
    BY <1>4, <2>3, CommitWrites
  <2>4. CASE op[r] = "patch" /\ r \notin stale
    BY <1>1, <1>2, <1>4, <2>1, <2>4 DEF Judged, Writing
  <2> QED
    BY <1>4, <2>2, <2>3, <2>4
<1>5. FreshPairsFit'
  <2> SUFFICES ASSUME NEW y \in Rows, live'[y] = "live"
               PROVE  Fits(y, col'[y]) \/ y \in mixed'
    BY DEF FreshPairsFit, Fits
  <2> QED
    BY <1>1, <1>2, <1>3, <1>4 DEF FreshPairsFit
\* Whoever has read the row that r wrote and is still to write it is stale now.
<1>6. ASSUME NEW q \in Requests, pc'[q] = "flushing", op[q] = "patch", q \notin stale'
      PROVE  q # r /\ col'[row[q]] = col[row[q]]
  <2>1. q # r /\ pc[q] = "flushing" /\ row[q] \in Rows
    BY <1>1, <1>6 DEF RowsOfRequests, Writing
  <2>2. CASE op[r] = "create"
    <3>1. row[q] # row[r]
      BY <1>1, <2>1, <2>2 DEF RowsOfRequests, Writing
    <3> QED
      BY <1>3, <2>1, <3>1
  <2>3. CASE op[r] = "patch" /\ changed[r] # {}
    <3>1. stale' = stale \cup Readers(r, {row[r]})
      BY <2>3, CommitWrites
    <3>2. row[q] # row[r]
      BY <1>6, <2>1, <3>1 DEF Readers
    <3> QED
      BY <1>3, <2>1, <3>2
  <2> QED
    BY <1>1, <1>3, <2>1, <2>2, <2>3
<1>7. Judged'
  <2> SUFFICES ASSUME NEW q \in Requests \ {r}
               PROVE  /\ Writing(q) /\ op[q] = "create" => Fits(row[q], new[q])
                      /\ pc[q] = "flushing" /\ op[q] = "patch" /\ q \notin stale' =>
                          /\ "a" \notin changed[q] => new[q].a = col'[row[q]].a
                          /\ "b" \notin changed[q] => new[q].b = col'[row[q]].b
                      /\ Writing(q) /\ op[q] = "patch" /\ q \notin stale'
                         /\ (pc[q] = "committing" => changed[q] # {}) =>
                          Fits(row[q], new[q]) \/ row[q] \in mixed'
    BY <1>1 DEF Judged, Writing, Fits
  <2> QED
    BY <1>1, <1>2, <1>6 DEF Judged
<1> QED
  BY <1>5, <1>7

LEMMA EndPairs ==
    ASSUME LifeInv, PairInv, NEW r \in Requests, Ends(r)
    PROVE  PairInv'
<1> USE DEF LifeInv, PairInv
<1>1. End(r) /\ live' = live /\ col' = col /\ mixed' = mixed
  BY EndLife
<1>2. /\ pc'[r] = "done"
      /\ \A q \in Requests \ {r} :
             /\ pc'[q] = pc[q] /\ op'[q] = op[q] /\ row'[q] = row[q]
             /\ new'[q] = new[q] /\ changed'[q] = changed[q]
             /\ q \in stale' <=> q \in stale
  BY <1>1, EndKeeps
<1>3. Judged'
  BY <1>1, <1>2 DEF Judged, Writing, Fits
<1> QED
  BY <1>1, <1>3 DEF FreshPairsFit, Fits

-----------------------------------------------------------------------------
Inv == LifeInv /\ TreeInv /\ AssetInv /\ PairInv

LEMMA Inductive == Inv /\ [Next]_vars => Inv'
<1> SUFFICES ASSUME Inv, [Next]_vars PROVE Inv'
  OBVIOUS
<1>1. CASE Next
  <2>1. PICK r \in Requests : Opened(r) \/ Flushes(r) \/ Commit(r) \/ Ends(r)
    BY <1>1, NextPhases DEF Inv, LifeInv, PairInv
  <2>2. CASE Opened(r)
    BY <2>2, OpenLife, OtherTree, OtherAssets, OpenPairs DEF Inv
  <2>3. CASE Flushes(r)
    BY <2>3, FlushLife, FlushTree, FlushAssets, FlushPairs DEF Inv
  <2>4. CASE Commit(r)
    BY <2>4, CommitLife, CommitTree, CommitAssets, CommitPairs DEF Inv
  <2>5. CASE Ends(r)
    BY <2>5, EndLife, OtherTree, OtherAssets, EndPairs DEF Inv
  <2> QED
    BY <2>1, <2>2, <2>3, <2>4, <2>5
<1>2. CASE UNCHANGED vars
  <2> USE <1>2 DEF Inv, vars, requestVars
  <2>1. LifeInv'
    BY DEF LifeInv, Types, RowsOfRequests, Writing, EventsFollowCommits
  <2>2. TreeInv'
    BY DEF TreeInv, ParentsHeld, NoOrphans, ParentLive, Parent, Subtree
  <2>3. AssetInv'
    BY DEF AssetInv, AssetsDiffer, WritesAsset, Duplicate, UniqueAssets
  <2>4. PairInv'
    BY DEF PairInv, Judged, Writing, FreshPairsFit, Fits
  <2> QED
    BY <2>1, <2>2, <2>3, <2>4
<1> QED
  BY <1>1, <1>2

LEMMA Invariance == Spec => []Inv
<1>1. Init => Inv
  BY LifeInit, TreeInit, AssetInit, PairInit DEF Inv
<1> QED
  BY <1>1, Inductive, PTL DEF Spec

\* The foreign keys: whatever requests delete while others insert beneath, a live row
\* has a live parent, for any rows of the four tables.
THEOREM NothingOrphaned == Spec => []NoOrphans
<1>1. Inv => NoOrphans
  BY DEF Inv, TreeInv
<1> QED
  BY <1>1, Invariance, PTL

\* uq_assets_tenant_type_value: any number of concurrent POSTs and PATCHes leaves no
\* two live assets of one type and value.
THEOREM AssetsStayUnique == Spec => []UniqueAssets
<1>1. Inv => UniqueAssets
  BY DEF Inv, AssetInv
<1> QED
  BY <1>1, Invariance, PTL

\* The effective pair is what the services validate, and overlapping PATCHes are the one
\* way round it: the columns of a live row fit each other unless a PATCH that read it
\* before another's commit has written it, which ScanConfigFits shows to happen.
THEOREM OnlyStaleBreakPairs == Spec => []FreshPairsFit
<1>1. Inv => FreshPairsFit
  BY DEF Inv, PairInv
<1> QED
  BY <1>1, Invariance, PTL

-----------------------------------------------------------------------------
(* No lost update *)

Locks(r) == pc[r] = "committing" /\ op[r] = "patch" /\ changed[r] # {}

\* An UPDATE holds its row until the commit: nobody else writes the columns that it
\* leaves alone.
RowLocked == \A r \in Requests : Locks(r) =>
    /\ "a" \notin changed[r] => new[r].a = col[row[r]].a
    /\ "b" \notin changed[r] => new[r].b = col[row[r]].b
    /\ \A q \in Requests \ {r} : Locks(q) => row[q] # row[r]

\* It sets only columns that its body named.
Asked ==
    /\ ask \in [Requests -> AnyPair]
    /\ \A r \in Requests : Writing(r) /\ op[r] = "patch" =>
           \A k \in changed[r] : Named(r, row[r], k)

LEMMA LockedNext ==
    ASSUME LifeInv, RowLocked, NEW r \in Requests,
           Opened(r) \/ Flushes(r) \/ Commit(r) \/ Ends(r)
    PROVE  RowLocked'
<1> USE DEF LifeInv
<1>1. CASE Opened(r)
  <2>1. PICK o \in {"create", "patch", "delete"}, x \in Rows, c \in AnyPair,
             ch \in SUBSET Columns : Opens(r, o, x, c, ch)
    BY <1>1 DEF Opened
  <2>2. /\ pc'[r] = "flushing" /\ col' = col
        /\ \A q \in Requests \ {r} :
               /\ pc'[q] = pc[q] /\ op'[q] = op[q] /\ row'[q] = row[q]
               /\ new'[q] = new[q] /\ changed'[q] = changed[q]
    BY <2>1 DEF Opens, Types
  <2> QED
    BY <2>2 DEF RowLocked, Locks
<1>2. CASE Flushes(r)
  <2>1. /\ pc[r] = "flushing" /\ pc' = [pc EXCEPT ![r] = "committing"]
        /\ UNCHANGED <<col, op, row, changed>>
        /\ \A q \in Requests \ {r} : new'[q] = new[q]
        /\ op[r] = "patch" /\ changed[r] # {} => new'[r] = Written(r)
    BY <1>2, FlushKeeps
  <2>2. pc'[r] = "committing" /\ \A q \in Requests \ {r} : pc'[q] = pc[q]
    BY <2>1 DEF Types
  <2>3. op[r] = "patch" /\ changed[r] # {} =>
          \A q \in Requests \ {r} : Locks(q) => row[q] # row[r]
    BY <1>2 DEF Flushes, Insert, Update, NothingToUpdate, Delete, BlocksUpdate, Holds, Locks
  <2>4. /\ "a" \notin changed[r] => Written(r).a = col[row[r]].a
        /\ "b" \notin changed[r] => Written(r).b = col[row[r]].b
    BY DEF Written, Pair
  <2> QED
    BY <2>1, <2>2, <2>3, <2>4 DEF RowLocked, Locks
<1>3. CASE Commit(r)
  <2>1. /\ pc[r] = "committing" /\ row[r] \in Rows /\ op[r] \in {"create", "patch", "delete"}
        /\ pc'[r] = "publishing" /\ op' = op /\ row' = row /\ changed' = changed
        /\ \A q \in Requests \ {r} : pc'[q] = pc[q] /\ new'[q] = new[q]
    BY <1>3, CommitKeeps
  <2>2. ASSUME NEW q \in Requests \ {r}, Locks(q)
        PROVE  col'[row[q]] = col[row[q]]
    <3>1. row[q] \in Rows
      BY <2>2 DEF Locks, RowsOfRequests, Writing
    <3>2. CASE op[r] = "create"
      <4>1. row[q] # row[r]
        BY <2>1, <3>2 DEF RowsOfRequests, Writing
      <4> QED
        BY <1>3, <3>1, <3>2, <4>1, CommitWrites
    <3>3. CASE op[r] = "patch" /\ changed[r] # {}
      <4>1. row[q] # row[r]
        BY <2>1, <2>2, <3>3 DEF RowLocked, Locks
      <4> QED
        BY <1>3, <3>1, <3>3, <4>1, CommitWrites
    <3>4. CASE op[r] = "delete" \/ (op[r] = "patch" /\ changed[r] = {})
      BY <1>3, <3>1, <3>4, CommitWrites
    <3> QED
      BY <2>1, <3>2, <3>3, <3>4
  <2> QED
    BY <2>1, <2>2 DEF RowLocked, Locks
<1>4. CASE Ends(r)
  <2>1. /\ pc'[r] = "done" /\ col' = col
        /\ \A q \in Requests \ {r} :
               /\ pc'[q] = pc[q] /\ op'[q] = op[q] /\ row'[q] = row[q]
               /\ new'[q] = new[q] /\ changed'[q] = changed[q]
    BY <1>4, EndLife, EndKeeps
  <2> QED
    BY <2>1 DEF RowLocked, Locks
<1> QED
  BY <1>1, <1>2, <1>3, <1>4

LEMMA BeginAsks ==
    ASSUME Types, Asked, NEW r \in Requests, NEW o, NEW x \in Rows, NEW p \in AnyPair,
           NEW c, NEW ch, Begin(r, o, x, p, c, ch),
           o = "patch" =>
               \A k \in ch : p[k] # "unset" \/ (KindOf[x] = "vulnerability" /\ k = "b")
    PROVE  Asked'
<1>1. /\ op'[r] = o /\ row'[r] = x /\ changed'[r] = ch /\ ask'[r] = p
      /\ ask' \in [Requests -> AnyPair]
      /\ \A q \in Requests \ {r} :
             /\ pc'[q] = pc[q] /\ op'[q] = op[q] /\ row'[q] = row[q]
             /\ changed'[q] = changed[q] /\ ask'[q] = ask[q]
  BY DEF Begin, Goto, Types, Asked
<1> QED
  BY <1>1 DEF Asked, Writing, Named

\* A column differs after the body was applied only when the body named it.
LEMMA OverwrittenNamed ==
    ASSUME NEW c, NEW p, NEW k \in Differing(c, Overwritten(c, p))
    PROVE  p[k] # "unset"
BY DEF Differing, Overwritten, Pair, Columns

LEMMA ReadsAsk ==
    ASSUME Types, Asked, NEW r \in Requests, Reads(r)
    PROVE  Asked'
<1> USE DEF Kinds
<1>1. ASSUME NEW k \in Kinds, NEW c \in Fitting[k], CreateRow(r, k, c) PROVE Asked'
  BY <1>1, BeginAsks, PairsKnown DEF CreateRow
<1>2. ASSUME NEW k \in Kinds, DeleteRow(r, k) PROVE Asked'
  BY <1>2, BeginAsks, PairsKnown DEF DeleteRow, LiveRows
<1>3. CASE CreateAsset(r) \/ CreateScan(r) \/ CreateVulnerability(r) \/ CreateReport(r)
  <2>1. /\ Fitting["asset"] = FittingAssets /\ Fitting["scan"] = FittingScans
        /\ Pair("open", "null") \in Fitting["vulnerability"]
        /\ Pair("pending", "null") \in Fitting["report"]
    BY DEF Fitting, Pairs, Pair, ValuesA, ValuesB
  <2> QED
    BY <1>1, <1>3, <2>1 DEF CreateAsset, CreateScan, CreateVulnerability, CreateReport
<1>4. CASE DeleteAsset(r) \/ DeleteScan(r) \/ DeleteVulnerability(r) \/ DeleteReport(r)
  BY <1>2, <1>4 DEF DeleteAsset, DeleteScan, DeleteVulnerability, DeleteReport
<1>5. CASE UpdateAsset(r) \/ UpdateScan(r) \/ UpdateReport(r)
  <2>1. PICK k \in Kinds : \E x \in LiveRows(k), p \in Asks(k) :
            Begin(r, "patch", x, p, Overwritten(col[x], p),
                  Differing(col[x], Overwritten(col[x], p)))
    BY <1>5 DEF UpdateAsset, UpdateScan, UpdateReport
  <2>2. PICK x \in Rows, p \in AnyPair :
            Begin(r, "patch", x, p, Overwritten(col[x], p),
                  Differing(col[x], Overwritten(col[x], p)))
    BY <2>1, PairsKnown DEF LiveRows
  <2> QED
    BY <2>2, BeginAsks, OverwrittenNamed
<1>6. CASE UpdateVulnerability(r)
  <2> DEFINE status(x, p) == Overwritten(col[x], p).a
             closing(x, p) == col[x].a = "open" /\ status(x, p) # "open"
             c(x, p) == Pair(status(x, p), IF closing(x, p) THEN "set"
                              ELSE IF status(x, p) = "open" /\ col[x].a # "open" THEN "null"
                              ELSE col[x].b)
             ch(x, p) == Differing(col[x], c(x, p)) \cup IF closing(x, p) THEN {"b"} ELSE {}
  <2>1. PICK x \in Rows, p \in AnyPair :
            KindOf[x] = "vulnerability" /\ Begin(r, "patch", x, p, c(x, p), ch(x, p))
    BY <1>6, PairsKnown DEF UpdateVulnerability, LiveRows
  <2>2. ASSUME NEW k \in ch(x, p), k # "b" PROVE p[k] # "unset"
    BY <2>2 DEF Differing, Columns, Overwritten, Pair
  <2> HIDE DEF c, ch
  <2> QED
    BY <2>1, <2>2, BeginAsks
<1> QED
  BY <1>3, <1>4, <1>5, <1>6 DEF Reads

LEMMA AskedNext ==
    ASSUME LifeInv, Asked, NEW r \in Requests,
           Reads(r) \/ Flushes(r) \/ Commit(r) \/ Ends(r)
    PROVE  Asked'
<1> USE DEF LifeInv
<1>1. CASE Insert(r) \/ Update(r) \/ Delete(r)
  BY <1>1 DEF Insert, Update, Delete, Goto, Types, Asked, Writing, Named
<1>2. CASE NothingToUpdate(r)
  <2>1. /\ changed' = changed /\ changed[r] = {} /\ op' = op /\ row' = row
        /\ ask' \in [Requests -> AnyPair]
        /\ \A q \in Requests \ {r} : pc'[q] = pc[q] /\ ask'[q] = ask[q]
    BY <1>2, PairsKnown DEF NothingToUpdate, Flushed, Goto, Types, Asked
  <2> QED
    BY <2>1 DEF Asked, Writing, Named
<1>3. CASE Commit(r)
  <2>1. /\ pc'[r] = "publishing" /\ op' = op /\ row' = row /\ changed' = changed
        /\ ask' \in [Requests -> AnyPair]
        /\ \A q \in Requests \ {r} : pc'[q] = pc[q] /\ ask'[q] = ask[q]
    BY <1>3, PairsKnown DEF Commit, Flushed, Goto, Types, Asked
  <2> QED
    BY <2>1 DEF Asked, Writing, Named
<1>4. CASE Ends(r)
  <2>1. /\ pc'[r] = "done" /\ ask' \in [Requests -> AnyPair]
        /\ \A q \in Requests \ {r} :
               /\ pc'[q] = pc[q] /\ op'[q] = op[q] /\ row'[q] = row[q]
               /\ changed'[q] = changed[q] /\ ask'[q] = ask[q]
    BY <1>4, PairsKnown DEF Ends, Refuse, Publish, Abort, End, Flushed, Goto, Types, Asked
  <2> QED
    BY <2>1 DEF Asked, Writing, Named
<1> QED
  BY <1>1, <1>2, <1>3, <1>4, ReadsAsk DEF Flushes

LEMMA ChangesAreNamed ==
    ASSUME LifeInv, RowLocked, Asked, NEW r \in Requests, Commit(r)
    PROVE  OnlyNamedChange
<1> USE DEF LifeInv
<1>1. /\ pc[r] = "committing" /\ row[r] \in Rows /\ op[r] \in {"create", "patch", "delete"}
  BY CommitKeeps
<1> SUFFICES ASSUME NEW x \in Rows, live[x] = "live", NEW k \in Columns,
                    col[x][k] # col'[x][k]
             PROVE  row[r] = x /\ Named(r, x, k)
  BY <1>1 DEF OnlyNamedChange
<1>2. CASE op[r] = "create"
  <2>1. x # row[r]
    BY <1>1, <1>2 DEF RowsOfRequests, Writing
  <2> QED
    BY <1>2, <2>1, CommitWrites
<1>3. CASE op[r] = "patch" /\ changed[r] # {}
  <2>1. x = row[r] /\ col'[x] = new[r]
    BY <1>3, CommitWrites
  <2>2. /\ "a" \notin changed[r] => new[r].a = col[x].a
        /\ "b" \notin changed[r] => new[r].b = col[x].b
    BY <1>1, <1>3, <2>1 DEF RowLocked, Locks
  <2>3. k \in changed[r]
    BY <2>1, <2>2 DEF Columns
  <2> QED
    BY <1>1, <1>3, <2>1, <2>3 DEF Asked, Writing
<1>4. CASE op[r] = "delete" \/ (op[r] = "patch" /\ changed[r] = {})
  BY <1>4, CommitWrites
<1> QED
  BY <1>1, <1>2, <1>3, <1>4

\* The UPDATE of the changed columns, under the lock of its row: for any number of
\* overlapping PATCHes, a commit changes no column that its body did not name.
THEOREM UpdatesAreKept == Spec => NoLostUpdate
<1> DEFINE I == Inv /\ RowLocked /\ Asked
<1>1. Init => I
  <2>1. Init => RowLocked /\ Asked
    BY PairsKnown DEF Init, RowLocked, Locks, Asked, Writing
  <2> QED
    BY <2>1, LifeInit, TreeInit, AssetInit, PairInit DEF Inv
<1>2. ASSUME I, Next
      PROVE  RowLocked' /\ Asked' /\ OnlyNamedChange
  <2>1. PICK r \in Requests : Reads(r) \/ Flushes(r) \/ Commit(r) \/ Ends(r)
    BY <1>2 DEF Next, Reads, Flushes, Ends
  <2>2. LifeInv /\ FreshPairsFit /\ RowLocked /\ Asked
    BY <1>2 DEF Inv, PairInv
  <2>3. Reads(r) => Opened(r)
    BY <2>2, ReadsOpens DEF LifeInv
  <2>4. RowLocked' /\ Asked'
    BY <2>1, <2>2, <2>3, LockedNext, AskedNext
  <2>5. CASE Commit(r)
    BY <2>2, <2>4, <2>5, ChangesAreNamed
  <2>6. CASE ~Commit(r)
    <3>1. col' = col
      <4>1. CASE Reads(r)
        BY <2>3, <4>1 DEF Opened, Opens
      <4>2. CASE Flushes(r)
        BY <4>2 DEF Flushes, Insert, Update, NothingToUpdate, Delete
      <4>3. CASE Ends(r)
        BY <2>2, <4>3, EndLife
      <4> QED
        BY <2>1, <2>6, <4>1, <4>2, <4>3
    <3> QED
      BY <2>4, <3>1 DEF OnlyNamedChange
  <2> QED
    BY <2>5, <2>6
<1>3. ASSUME I, UNCHANGED vars
      PROVE  RowLocked' /\ Asked' /\ OnlyNamedChange
  BY <1>3 DEF vars, requestVars, RowLocked, Locks, Asked, Writing, Named, OnlyNamedChange
<1>4. I /\ [Next]_vars => I' /\ [OnlyNamedChange]_vars
  BY <1>2, <1>3, Inductive
<1> HIDE DEF I
<1> QED
  BY <1>1, <1>4, PTL DEF Spec, NoLostUpdate

\* publish_event comes after the commit: no event tells of a row that was never
\* inserted, nor of the deletion of one that is still there.
THEOREM EventsAreTrue == Spec => []EventsFollowCommits
<1>1. Inv => EventsFollowCommits
  BY DEF Inv, LifeInv
<1> QED
  BY <1>1, Invariance, PTL
=============================================================================
