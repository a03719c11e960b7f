------------------------------ MODULE ScanGraph ------------------------------
(* What one executor runs inside a claimed scan: the graph scan -> parse ->   *)
(* dedup -> persist of app/agents/scan_graph.py, with the target gate, the    *)
(* Nmap subprocess and its clean-up, the parser's refusals and the upsert of  *)
(* the findings.  The claim and the row's transitions are ScanExecution's;    *)
(* here the scan only ends, and its findings are committed or not.            *)
(*                                                                            *)
(* Around the graph: DNS answers as it likes or never; Nmap's process group,  *)
(* a leader and a descendant, writes, closes its pipes, exits, hangs or        *)
(* ignores SIGTERM; the watcher cancels at any await, more than once; the API  *)
(* stores a vulnerability of its own for the scan.                            *)
EXTENDS Integers, Sequences, SequencesExt

CONSTANTS
    Assets,            \* the asset of the scan, one of these records
    DnsAnswers,        \* sets of addresses a lookup may return
    Reports,           \* documents Nmap may print
    ManualKeys,        \* identities of vulnerabilities stored by the API
    MaxOutputBytes,    \* NMAP_MAX_OUTPUT_BYTES, in chunks
    MaxCancels,        \* bound: cancellations by the watcher
    None

SupportedTypes == {"ip", "subnet", "hostname", "domain", "web_app"}
VALID_SEVERITIES == {"critical", "high", "medium", "low", "info"}
Group == {"leader", "child"}

\* run_nmap refuses a cap that is not positive; only a subnet has two ends.
ASSUME OutputAssumption == MaxOutputBytes \in Nat \ {0}
ASSUME AssetsAssumption == \A a \in Assets : a.asset_type # "subnet" => a.last = None

\* An address is IPv4 or IPv6; a valid address or network has one.
ASSUME FamiliesAssumption ==
    /\ \A answer \in DnsAnswers : \A x \in answer : x.family \in {4, 6}
    /\ \A a \in Assets :
        /\ \A x \in {a.first, a.last} \ {None} : x.family \in {4, 6}
        /\ a.asset_type \in {"ip", "subnet"} /\ a.valid => a.first # None
ASSUME ReportsAssumption == \A r \in Reports : r.scripts \in Seq(Range(r.scripts))

VARIABLES
    demo,        \* settings.SCAN_DEMO_MODE
    asset,       \* the row read by _load_scan
    pc,          \* where the graph is
    addresses,   \* ScanTarget.addresses
    families,    \* address families still to scan
    proc,        \* the Nmap process group
    got,         \* bytes of stdout kept by the reader
    exc,         \* what run_nmap will raise after its clean-up
    documents,   \* nmap_documents
    seen,        \* identities read by upsert_findings
    rows,        \* committed vulnerabilities of the scan
    cancels,     \* cancellations sent by the watcher
    outcome      \* how the graph ended

graphVars == <<pc, addresses, families, documents, seen, rows, outcome>>
runVars == <<proc, got, exc>>
vars == <<demo, asset, graphVars, runVars, cancels>>

\* The processes alive, sent SIGKILL, deaf to SIGTERM and holding the pipes; whether
\* run_nmap's `process` is set; the bytes in the pipe and all that were written.
NoProcess == [alive |-> {}, doomed |-> {}, deaf |-> {}, holds |-> {}, returned |-> FALSE,
              pending |-> 0, written |-> 0, code |-> None]

Init ==
    /\ demo \in BOOLEAN
    /\ asset \in Assets
    /\ pc = "resolve"
    /\ addresses = {} /\ families = <<>>
    /\ proc = NoProcess /\ got = 0 /\ exc = None
    /\ documents = <<>> /\ seen = {} /\ rows = {}
    /\ cancels = 0 /\ outcome = None

---------------------------------------------------------------------------
(* The target gate.                                                          *)

\* Outside demo mode an address must be global; demo mode adds the private
\* ranges and takes the IPv6 transition forms away.
_allowed_address(a) ==
    IF demo THEN a.class \in {"global", "private"}
    ELSE a.class \in {"global", "transition"}

\* A network is global to Python unless both of its ends are not.
AllowedSubnet(first, last) ==
    IF demo THEN _allowed_address(first) /\ _allowed_address(last)
    ELSE _allowed_address(first) \/ _allowed_address(last)

End(result) ==
    /\ pc' = "end"
    /\ outcome' = result
    /\ UNCHANGED <<addresses, families, documents, seen, rows>>

\* split_by_family: IPv4 first, families without an address left out.
split_by_family(as) ==
    LET Of(f) == IF \E a \in as : a.family = f THEN <<f>> ELSE <<>>
    IN  Of(4) \o Of(6)

Scan(as) ==
    /\ pc' = "spawn"
    /\ addresses' = as
    /\ families' = split_by_family(as)
    /\ UNCHANGED <<documents, seen, rows, outcome>>

NeedsDns == asset.asset_type \in {"hostname", "domain", "web_app"} /\ asset.first = None

RejectedLiteral ==
    \/ asset.asset_type \notin SupportedTypes
    \/ ~asset.valid
    \/ asset.asset_type = "subnet" /\ asset.size > 256
    \/ asset.asset_type = "subnet" /\ ~AllowedSubnet(asset.first, asset.last)
    \/ asset.asset_type # "subnet" /\ asset.first # None /\ ~_allowed_address(asset.first)

\* Literals are judged at once; names go to the resolver.
ResolveTarget ==
    /\ pc = "resolve"
    /\ IF RejectedLiteral THEN End("target_rejected")
       ELSE IF NeedsDns
       THEN pc' = "dns" /\ UNCHANGED <<addresses, families, documents, seen, rows, outcome>>
       ELSE Scan({asset.first, asset.last} \ {None})
    /\ UNCHANGED <<demo, asset, runVars, cancels>>

\* One lookup; every address it returned must be allowed, or none is scanned.
DnsAnswer ==
    /\ pc = "dns"
    /\ \E answer \in DnsAnswers :
        IF answer = {} \/ \E a \in answer : ~_allowed_address(a)
        THEN End("target_rejected") ELSE Scan(answer)
    /\ UNCHANGED <<demo, asset, runVars, cancels>>

\* gaierror, or nothing within RESOLUTION_TIMEOUT_SECONDS.
DnsFails ==
    /\ pc = "dns"
    /\ End("target_unresolvable")
    /\ UNCHANGED <<demo, asset, runVars, cancels>>

---------------------------------------------------------------------------
(* run_nmap, once per family.                                                *)

\* nmap, setpriv or timeout missing, or not permitted: nothing was started.
SpawnFails ==
    /\ pc = "spawn"
    /\ End("nmap_not_found")
    /\ UNCHANGED <<demo, asset, runVars, cancels>>

\* A new session: the leader and what it forks share one process group and hold its
\* pipes.  create_subprocess_exec starts them before it is first suspended, to connect
\* the pipes; run_nmap does not have the process yet.
Spawn ==
    /\ pc = "spawn"
    /\ pc' = "starting"
    /\ \E deaf \in SUBSET Group :
        proc' = [NoProcess EXCEPT !.alive = Group, !.holds = Group, !.deaf = deaf]
    /\ got' = 0 /\ exc' = None
    /\ UNCHANGED <<demo, asset, addresses, families, documents, seen, rows, outcome,
                   cancels>>

SpawnReturns ==
    /\ pc = "starting" /\ pc' = "read"
    /\ proc' = [proc EXCEPT !.returned = TRUE]
    /\ UNCHANGED <<demo, asset, addresses, families, documents, seen, rows, outcome,
                   got, exc, cancels>>

\* Interrupted there, asyncio kills the leader alone and waits for it to exit;
\* run_nmap, which still has no process, has nothing to clean up.
CloseSpawn(reason) ==
    /\ pc' = "closing"
    /\ exc' = reason
    /\ proc' = [proc EXCEPT !.doomed = @ \cup ({"leader"} \cap proc.alive)]
    /\ UNCHANGED <<addresses, families, documents, seen, rows, outcome, got>>

LeaderExited == "leader" \notin proc.alive

SpawnClosed ==
    /\ pc = "closing" /\ LeaderExited
    /\ End(exc)
    /\ UNCHANGED <<demo, asset, runVars, cancels>>

\* Into the except clause, which first gathers the cancelled readers.
Raise(reason) ==
    /\ pc' = "unwind"
    /\ exc' = reason
    /\ UNCHANGED <<addresses, families, documents, seen, rows, outcome>>

\* stream.read(cap - len + 1): one byte more than fits is enough to know.
ReadStdout ==
    /\ pc = "read" /\ proc.pending > 0
    /\ \E n \in 1 .. Min({proc.pending, MaxOutputBytes - got + 1}) :
        /\ proc' = [proc EXCEPT !.pending = @ - n]
        /\ IF got + n > MaxOutputBytes
           THEN Raise("output_too_large") /\ UNCHANGED got
           ELSE got' = got + n /\ UNCHANGED <<exc, graphVars>>
    /\ UNCHANGED <<demo, asset, cancels>>

\* Mutant of Eof: the leader has exited.
EofOnExit == LeaderExited

\* End of file on the pipes: nobody holds them any more, which a process may outlive.
Eof == proc.holds = {} /\ proc.pending = 0

\* Both readers and process.wait() are done.  The exit status decides: 0 is a document, 124 and 126 are the supervisor's.
RunExits ==
    /\ pc = "read" /\ Eof /\ LeaderExited
    /\ IF proc.code # 0
       THEN Raise("nonzero_exit") /\ UNCHANGED <<proc, got>>
       ELSE /\ \E r \in Reports :
                documents' = Append(documents, [report |-> r, size |-> got,
                                                written |-> proc.written])
            /\ families' = Tail(families)
            /\ pc' = IF Len(families) = 1 THEN "parse" ELSE "spawn"
            /\ UNCHANGED <<addresses, seen, rows, outcome, runVars>>
    /\ UNCHANGED <<demo, asset, cancels>>

\* asyncio.timeout(NMAP_TIMEOUT_SECONDS) covers the spawn too; it also ends the wait
\* of a spawn that was cancelled, as that cancellation.
RunTimesOut ==
    /\ \/ pc = "starting" /\ CloseSpawn("timeout")
       \/ pc = "closing" /\ exc = "cancelled" /\ End("cancelled") /\ UNCHANGED runVars
       \/ pc = "read" /\ Raise("timeout") /\ UNCHANGED <<proc, got>>
    /\ UNCHANGED <<demo, asset, cancels>>

\* _cleanup, shielded: TERM, a grace period, KILL, another, and KILL in any case.
Step(from, to) ==
    /\ pc = from /\ pc' = to
    /\ UNCHANGED <<demo, asset, addresses, families, documents, seen, rows, outcome,
                   got, exc, cancels>>

ReadersGathered == Step("unwind", "term") /\ UNCHANGED proc

Kill == proc' = [proc EXCEPT !.doomed = @ \cup proc.alive]

CleanupTerm ==
    /\ Step("term", "grace")
    /\ proc' = [proc EXCEPT !.alive = @ \cap proc.deaf, !.holds = @ \cap proc.deaf,
                            !.code = IF "leader" \in proc.alive \ proc.deaf THEN 1 ELSE @]

\* process.wait(): it sees the leader only, and the drained pipes do not block it.
GraceEnds == Step("grace", "final") /\ LeaderExited /\ UNCHANGED proc
\* Mutant of GraceExpires: wait() without wait_for.
GraceWaits == Step("grace", "kill") /\ LeaderExited /\ UNCHANGED proc
GraceExpires == Step("grace", "kill") /\ UNCHANGED proc
CleanupKill == Step("kill", "killed") /\ Kill
KilledEnds == Step("killed", "final") /\ LeaderExited /\ UNCHANGED proc
KilledExpires == Step("killed", "final") /\ UNCHANGED proc

\* Mutant of FinalKill: the clean-up trusts that the leader took its children along.
NoFinalKill == UNCHANGED proc
FinalKill == Kill

\* The finally clause, and what run_nmap then raises: CancelledError passes
\* through run_agent_safely, the rest becomes the scan's failure reason.
CleanupEnds ==
    /\ pc = "final"
    /\ FinalKill
    /\ End(exc)
    /\ UNCHANGED <<demo, asset, got, exc, cancels>>

---------------------------------------------------------------------------
(* parse -> dedup -> persist.                                                *)

\* The scripts of a document that report a vulnerability.
Positives(i) ==
    {j \in DOMAIN documents[i].report.scripts : documents[i].report.scripts[j].vulnerable}

\* cvss_score: in tenths, clamped to the scale; None when none is printed.
Score(raw) == IF raw = None THEN None ELSE Min({100, Max({0, raw})})

severity_from_cvss(score) ==
    CASE score = None -> "medium"
      [] score # None /\ score >= 90 -> "critical"
      [] score # None /\ score >= 70 /\ score < 90 -> "high"
      [] score # None /\ score >= 40 /\ score < 70 -> "medium"
      [] score # None /\ score > 0 /\ score < 40 -> "low"
      [] OTHER -> "info"

\* extract_findings: what script j of document i yields.
Draft(i, j) ==
    LET script == documents[i].report.scripts[j]
    IN  [key |-> script.key, score |-> Score(script.raw),
         severity |-> severity_from_cvss(Score(script.raw))]

\* dedup_node: of the findings of one identity, in the order of the documents and
\* then of their scripts, the first.
Kept(i) ==
    {j \in Positives(i) : \A k \in 1 .. i : \A l \in Positives(k) :
        k < i \/ l < j => Draft(k, l).key # Draft(i, j).key}

\* One refused document refuses the scan: no partial result is kept.
Parse ==
    /\ pc = "parse"
    /\ IF \E i \in DOMAIN documents : documents[i].report.verdict # "ok"
       THEN End("parse_error")
       ELSE /\ pc' = "persist"
            /\ UNCHANGED <<addresses, families, documents, seen, rows, outcome>>
    /\ UNCHANGED <<demo, asset, runVars, cancels>>

\* upsert_findings reads what is stored for the scan ...
PersistReads ==
    /\ pc = "persist"
    /\ pc' = "commit"
    /\ seen' = {v.key : v \in rows}
    /\ UNCHANGED <<demo, asset, addresses, families, documents, rows, outcome, runVars,
                   cancels>>

\* ... and adds the rest; the executor commits them with the completed row.
Row(i, j) ==
    [source |-> "nmap", id |-> <<i, j>>, key |-> Draft(i, j).key,
     score |-> Draft(i, j).score, severity |-> Draft(i, j).severity]
NewRows(known) ==
    UNION {{Row(i, j) : j \in {l \in Kept(i) : Draft(i, l).key \notin known
                                  /\ Draft(i, l).severity \in VALID_SEVERITIES}} :
           i \in DOMAIN documents}

PersistCommits ==
    /\ pc = "commit"
    /\ rows' = rows \cup NewRows(seen)
    /\ pc' = "end" /\ outcome' = "completed"
    /\ UNCHANGED <<demo, asset, addresses, families, documents, seen, runVars, cancels>>

\* A statement raises: run_agent_safely reports internal_error and the executor
\* rolls back.
PersistFails ==
    /\ pc \in {"persist", "commit"}
    /\ End("internal_error")
    /\ UNCHANGED <<demo, asset, runVars, cancels>>

---------------------------------------------------------------------------
(* The surroundings.                                                         *)

\* Task.cancel() by the watcher, at an await; between two families there is none.
\* The clean-up swallows it.  The gathering of the readers before it does not, and
\* then nothing is cleaned up.
Cancel ==
    /\ pc \notin {"spawn", "end"} /\ cancels < MaxCancels
    /\ cancels' = cancels + 1
    /\ CASE pc = "starting" -> CloseSpawn("cancelled")
         [] pc = "read" -> Raise("cancelled") /\ UNCHANGED <<proc, got>>
         [] pc \in {"term", "grace", "kill", "killed", "final"} ->
                UNCHANGED <<graphVars, runVars>>
         [] OTHER -> End("cancelled") /\ UNCHANGED runVars
    /\ UNCHANGED <<demo, asset>>

\* The pipe holds a chunk or two; a full pipe blocks its writer.
NmapWrites ==
    /\ proc.holds \ proc.doomed # {} /\ proc.pending < 2 /\ proc.written <= MaxOutputBytes
    /\ proc' = [proc EXCEPT !.pending = @ + 1, !.written = @ + 1]
    /\ UNCHANGED <<demo, asset, graphVars, got, exc, cancels>>

NmapCloses ==
    /\ \E p \in proc.holds : proc' = [proc EXCEPT !.holds = @ \ {p}]
    /\ UNCHANGED <<demo, asset, graphVars, got, exc, cancels>>

NmapExits ==
    /\ \E p \in proc.alive, code \in {0, 1} :
        proc' = [proc EXCEPT !.alive = @ \ {p}, !.holds = @ \ {p},
                             !.code = IF p = "leader" THEN code ELSE @]
    /\ UNCHANGED <<demo, asset, graphVars, got, exc, cancels>>

\* _discard, while the clean-up waits.
Drain ==
    /\ pc \in {"grace", "kill", "killed"} /\ proc.pending > 0
    /\ proc' = [proc EXCEPT !.pending = 0]
    /\ UNCHANGED <<demo, asset, graphVars, got, exc, cancels>>

\* POST /vulnerabilities for the same scan.
CreateVulnerability ==
    /\ pc \in {"read", "persist", "commit"}
    /\ \E k \in ManualKeys :
        /\ \A v \in rows : v.key # k
        /\ rows' = rows \cup {[source |-> "api", id |-> <<>>, key |-> k, score |-> None,
                               severity |-> "low"]}
    /\ UNCHANGED <<demo, asset, pc, addresses, families, documents, seen, outcome,
                   runVars, cancels>>

Graph ==
    \/ ResolveTarget \/ DnsAnswer \/ DnsFails
    \/ SpawnFails \/ Spawn \/ SpawnReturns \/ SpawnClosed
    \/ ReadStdout \/ RunExits \/ RunTimesOut \/ ReadersGathered \/ CleanupTerm \/ GraceEnds
    \/ GraceExpires \/ CleanupKill \/ KilledEnds \/ KilledExpires \/ CleanupEnds
    \/ Parse \/ PersistReads \/ PersistCommits \/ PersistFails

Surroundings == Cancel \/ NmapWrites \/ NmapCloses \/ NmapExits \/ Drain \/ CreateVulnerability

Next == Graph \/ Surroundings

Spec == Init /\ [][Next]_vars

\* The event loop runs what is ready and its timers fire; neither Nmap nor the
\* resolver is assumed to do anything.  Nor is a killed process, but for the one wait
\* without a limit, of asyncio for the leader it has killed.
FairSpec ==
    /\ Spec
    /\ WF_vars(\/ ResolveTarget \/ Spawn \/ SpawnReturns \/ SpawnClosed
               \/ Parse \/ PersistReads \/ PersistCommits)
    /\ WF_vars(DnsFails) /\ WF_vars(RunTimesOut)
    /\ WF_vars(pc = "closing" /\ ~LeaderExited /\ NmapExits /\ LeaderExited')
    /\ WF_vars(\/ ReadersGathered \/ CleanupTerm \/ GraceExpires
               \/ CleanupKill \/ KilledExpires \/ CleanupEnds)

---------------------------------------------------------------------------
Stages == {"resolve", "dns", "spawn", "starting", "closing", "read", "unwind", "term",
           "grace", "kill", "killed", "final", "parse", "persist", "commit", "end"}
Running == {"starting", "closing", "read", "unwind", "term", "grace", "kill", "killed", "final"}
Outcomes == {"completed", "cancelled", "target_rejected", "target_unresolvable",
             "nmap_not_found", "output_too_large", "nonzero_exit", "timeout",
             "parse_error", "internal_error"}

TypeOK ==
    /\ demo \in BOOLEAN
    /\ asset \in Assets
    /\ pc \in Stages
    /\ families \in Seq({4, 6}) /\ Len(families) <= 2
    /\ proc.alive \subseteq Group /\ proc.holds \subseteq proc.alive
    /\ proc.doomed \subseteq Group /\ proc.returned \in BOOLEAN
    /\ proc.pending \in 0 .. 2 /\ proc.written \in 0 .. (MaxOutputBytes + 1)
    /\ proc.code \in {0, 1, None}
    /\ got \in 0 .. MaxOutputBytes
    /\ exc \in {None, "cancelled", "output_too_large", "nonzero_exit", "timeout"}
    /\ Len(documents) + Len(families) <= 2
    /\ \A v \in rows : v.severity \in VALID_SEVERITIES /\ v.score \in (0 .. 100) \cup {None}
    /\ cancels \in 0 .. MaxCancels
    /\ outcome \in Outcomes \cup {None}
    /\ (outcome = None) = (pc # "end")

Ended(results) == pc = "end" /\ outcome \in results
\* What was not sent SIGKILL.
Stray == proc.alive \ proc.doomed

\* run_nmap discards a run that failed with its whole process group, a descendant that
\* ignored SIGTERM and outlived the leader included.  A successful run leaves at most
\* a descendant that had let go of the pipes, a spawn that timed out before it
\* returned a descendant.  Only a cancelled scan can leave the leader: a cancellation
\* during the spawn, or after another before the clean-up has begun, reaches none,
\* which executor.py ("reaches the runner's cleanup") does not say.
FailedRunIsKilled ==
    /\ Ended({"output_too_large", "nonzero_exit", "timeout"}) /\ proc.returned => Stray = {}
    /\ pc \notin Running =>
        /\ "leader" \in Stray => Ended({"cancelled"})
        /\ Stray \cap proc.holds # {} => Ended({"cancelled", "timeout"})

\* No finding is stored twice, by two scripts of a run or by a run and the API,
\* unless the API stored it after upsert_findings had looked.
StoredOnce ==
    \A v, w \in rows :
        v.key = w.key /\ v # w =>
            "api" \in {v.source, w.source} /\ v.key \notin seen

\* A completed scan has one accepted document per address family, complete to the
\* last byte, and every finding in them is stored once; a scan that ended otherwise
\* stored none (executor.py: one commit, or a rollback).
CompletedIsWhole ==
    pc = "end" =>
        IF outcome = "completed"
        THEN /\ Len(documents) = Len(split_by_family(addresses))
             /\ \A i \in DOMAIN documents :
                    /\ documents[i].size = documents[i].written
                    /\ documents[i].report.verdict = "ok"
                    /\ \A j \in DOMAIN documents[i].report.scripts :
                        LET s == documents[i].report.scripts[j] IN
                        s.vulnerable => \E v \in rows : v.key = s.key
             /\ StoredOnce
        ELSE \A v \in rows : v.source # "nmap"

\* Every address that reaches Nmap is allowed, those that came from one DNS answer
\* with a forbidden one included.  Outside demo mode the gate asks
\* network.is_global, which does not promise it for both ends of a subnet.
OnlyAllowedScanned ==
    \A a \in addresses :
        _allowed_address(a) \/ (asset.asset_type = "subnet" /\ ~demo)

\* However DNS, Nmap or its descendants behave, the graph ends: every wait on them
\* has a limit of its own.
GraphEnds == <>(pc = "end")
=============================================================================
