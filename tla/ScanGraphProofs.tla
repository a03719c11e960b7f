-------------------------- MODULE ScanGraphProofs --------------------------
(***************************************************************************)
(* For any assets, DNS answers, reports, output cap and number of           *)
(* cancellations: a run that failed has its process group killed and none   *)
(* that keeps the pipes survives one that succeeded, no truncated document  *)
(* is kept, the findings of a run are stored only with a completed scan,    *)
(* and Nmap is given allowed addresses only.                                *)
(***************************************************************************)
EXTENDS ScanGraph, WellFoundedInduction, TLAPS

ProcType ==
    /\ proc \in [alive : SUBSET Group, doomed : SUBSET Group, deaf : SUBSET Group,
                 holds : SUBSET Group, returned : BOOLEAN, pending : Nat, written : Nat,
                 code : {0, 1, None}]
    /\ got \in Nat

\* Until it stops reading, the pipe holds what was written and not yet kept.
NothingSkipped == pc \in {"starting", "read"} => got + proc.pending = proc.written

Document == [report : Reports, size : Nat, written : Nat]

\* Every document that was accepted for parsing is complete to the last byte.
WholeDocuments ==
    /\ documents \in Seq(Document)
    /\ \A i \in 1 .. Len(documents) : documents[i].size = documents[i].written

\* The findings of a run are committed with the completed scan or not at all.
FindingsOfCompleted ==
    ~(pc = "end" /\ outcome = "completed") => \A v \in rows : v.source = "api"

Completed == pc = "end" /\ outcome = "completed"

\* One document for each family that was scanned, and the parser refused none.
AllDocuments ==
    /\ families \in Seq({4, 6})
    /\ pc \in Running \ {"starting", "read"} =>
           exc \in {"cancelled", "output_too_large", "nonzero_exit", "timeout"}
    /\ pc \in {"resolve", "dns"} => documents = <<>>
    /\ pc \in {"spawn"} \cup Running =>
           /\ Len(families) > 0
           /\ Len(documents) + Len(families) = Len(split_by_family(addresses))
    /\ pc \in {"parse", "persist", "commit"} \/ Completed =>
           Len(documents) = Len(split_by_family(addresses))
    /\ pc \in {"persist", "commit"} \/ Completed =>
           \A i \in DOMAIN documents : documents[i].report.verdict = "ok"

\* The API stores no identity twice; what upsert_findings has seen is stored; and a
\* completed scan has a row for every finding of its documents.
Stored ==
    /\ \A v, w \in rows : v.source = "api" /\ w.source = "api" /\ v.key = w.key => v = w
    /\ pc = "commit" => \A k \in seen : \E v \in rows : v.key = k
    /\ Completed => \A i \in DOMAIN documents : \A j \in Positives(i) :
           \E v \in rows : v.key = documents[i].report.scripts[j].key
    /\ StoredOnce

\* A spawn is closed because it was interrupted, before run_nmap had the process.
Interrupted ==
    /\ pc \in {"starting", "closing"} => ~proc.returned
    /\ pc = "closing" => exc \in {"cancelled", "timeout"}

RunInv == ProcType /\ FailedRunIsKilled /\ NothingSkipped /\ WholeDocuments /\ Interrupted

---------------------------------------------------------------------------
\* Min of the community modules, on two integers.
LEMMA MinOfTwo ==
    ASSUME NEW a \in Int, NEW b \in Int
    PROVE  Min({a, b}) \in Int /\ Min({a, b}) <= a
<1>1. \E x \in {a, b} : \A y \in {a, b} : x <= y
  OBVIOUS
<1>2. Min({a, b}) \in {a, b} /\ \A y \in {a, b} : Min({a, b}) <= y
  BY <1>1, Zenon DEF Min
<1> QED
  BY <1>2

LEMMA RunInit == Init => RunInv
BY DEF Init, RunInv, ProcType, FailedRunIsKilled, NothingSkipped, WholeDocuments,
       Interrupted, NoProcess, Running, Ended, Stray

\* Steps outside run_nmap: the group and the documents stay as they are, and a
\* stage that is not running is left for one that is not, without an outcome that
\* only run_nmap has.
LEMMA OutsideStep ==
    ASSUME RunInv, UNCHANGED <<runVars, documents>>,
           pc \notin Running \cup {"end"}, pc' \notin Running,
           pc' = "end" => outcome' \notin {"output_too_large", "nonzero_exit", "timeout"}
    PROVE  RunInv'
<1>1. ProcType' /\ WholeDocuments'
  BY DEF RunInv, ProcType, WholeDocuments, runVars
<1>2. NothingSkipped' /\ Interrupted'
  BY DEF NothingSkipped, Interrupted, Running
<1>3. "leader" \notin Stray' /\ Stray' \cap proc'.holds = {}
  BY DEF RunInv, FailedRunIsKilled, Ended, Stray, runVars
<1> QED
  BY <1>1, <1>2, <1>3 DEF RunInv, FailedRunIsKilled, Ended

LEMMA OutsideActions ==
    ASSUME RunInv,
           \/ ResolveTarget \/ DnsAnswer \/ DnsFails \/ SpawnFails
           \/ Parse \/ PersistReads \/ PersistCommits \/ PersistFails
    PROVE  RunInv'
<1>1. /\ UNCHANGED <<runVars, documents>> /\ pc \notin Running \cup {"end"}
      /\ pc' \notin Running
      /\ pc' = "end" => outcome' \notin {"output_too_large", "nonzero_exit", "timeout"}
  BY DEF ResolveTarget, DnsAnswer, DnsFails, SpawnFails, Parse, PersistReads,
         PersistCommits, PersistFails, End, Scan, Running, runVars
<1> QED
  BY <1>1, OutsideStep

LEMMA SpawnStep == ASSUME RunInv, Spawn PROVE RunInv'
<1> USE DEF RunInv
<1>1. PICK deaf \in SUBSET Group :
        proc' = [NoProcess EXCEPT !.alive = Group, !.holds = Group, !.deaf = deaf]
  BY DEF Spawn
<1>2. ProcType'
  BY <1>1 DEF Spawn, ProcType, NoProcess
<1>3. FailedRunIsKilled' /\ NothingSkipped' /\ Interrupted'
  BY <1>1 DEF Spawn, NoProcess, FailedRunIsKilled, NothingSkipped, Interrupted, Running, Ended
<1>4. WholeDocuments'
  BY DEF Spawn, WholeDocuments
<1> QED
  BY <1>2, <1>3, <1>4

LEMMA SpawnReturnsStep == ASSUME RunInv, SpawnReturns PROVE RunInv'
<1> USE DEF RunInv
<1>1. /\ pc' = "read" /\ UNCHANGED <<got, exc, documents>>
      /\ proc' = [proc EXCEPT !.returned = TRUE]
  BY DEF SpawnReturns
<1>2. ProcType' /\ proc'.pending = proc.pending /\ proc'.written = proc.written
  BY <1>1 DEF ProcType
<1>3. got + proc.pending = proc.written
  BY DEF SpawnReturns, NothingSkipped
<1> QED
  BY <1>1, <1>2, <1>3 DEF FailedRunIsKilled, NothingSkipped, WholeDocuments, Interrupted,
                          Running, Ended

\* A spawn that was interrupted ends with the leader gone.
LEMMA SpawnClosedStep == ASSUME RunInv, SpawnClosed PROVE RunInv'
<1> USE DEF RunInv
<1>1. UNCHANGED <<runVars, documents>> /\ pc = "closing" /\ pc' = "end"
      /\ outcome' = exc
  BY DEF SpawnClosed, End
<1>2. ProcType' /\ WholeDocuments' /\ Interrupted' /\ NothingSkipped'
  BY <1>1 DEF ProcType, WholeDocuments, Interrupted, NothingSkipped, runVars
<1>3. outcome' \in {"cancelled", "timeout"} /\ ~proc'.returned /\ "leader" \notin Stray'
  BY <1>1 DEF SpawnClosed, Interrupted, LeaderExited, Stray, runVars
<1>4. FailedRunIsKilled'
  BY <1>1, <1>3 DEF FailedRunIsKilled, Ended
<1> QED
  BY <1>2, <1>4

LEMMA CloseStep ==
    ASSUME RunInv, pc = "starting", NEW reason \in {"cancelled", "timeout"},
           CloseSpawn(reason)
    PROVE  RunInv'
<1> USE DEF RunInv
<1>1. /\ pc' = "closing" /\ exc' = reason /\ UNCHANGED <<got, documents>>
      /\ ~proc.returned
      /\ proc' = [proc EXCEPT !.doomed = @ \cup ({"leader"} \cap proc.alive)]
  BY DEF CloseSpawn, Interrupted
<1>2. ProcType'
  BY <1>1 DEF ProcType
<1> QED
  BY <1>1, <1>2 DEF FailedRunIsKilled, NothingSkipped, WholeDocuments, Interrupted,
                    Running, Ended

\* A cancelled scan ends with whatever processes it has.
LEMMA CancelledStep ==
    ASSUME RunInv, UNCHANGED <<runVars, documents>>, pc' = "end", outcome' = "cancelled"
    PROVE  RunInv'
BY DEF RunInv, ProcType, FailedRunIsKilled, NothingSkipped, WholeDocuments, Interrupted,
       Ended, runVars

\* What is taken out of the pipe is kept, or the run is over.
LEMMA ReadStep == ASSUME RunInv, ReadStdout PROVE RunInv'
<1> USE DEF RunInv
<1>1. PICK n \in 1 .. Min({proc.pending, MaxOutputBytes - got + 1}) :
        /\ proc' = [proc EXCEPT !.pending = @ - n]
        /\ IF got + n > MaxOutputBytes
           THEN Raise("output_too_large") /\ UNCHANGED got
           ELSE got' = got + n /\ UNCHANGED <<exc, graphVars>>
  BY DEF ReadStdout
<1>2. proc.pending \in Nat /\ got \in Nat /\ proc.written \in Nat
  BY DEF ProcType
<1>3. n \in Nat /\ n <= proc.pending
  BY <1>1, <1>2, MinOfTwo, OutputAssumption
<1>4. ProcType'
  BY <1>1, <1>2, <1>3 DEF ProcType, Raise
<1>5. pc' \in {"read", "unwind"} /\ UNCHANGED documents
  BY <1>1 DEF ReadStdout, Raise, graphVars
<1>6. proc'.pending = proc.pending - n /\ proc'.written = proc.written
  BY <1>1 DEF ProcType
<1>7. NothingSkipped'
  BY <1>1, <1>2, <1>3, <1>6 DEF NothingSkipped, Raise, ReadStdout
<1>8. FailedRunIsKilled' /\ WholeDocuments' /\ Interrupted'
  BY <1>5 DEF FailedRunIsKilled, WholeDocuments, Interrupted, Running, Ended
<1> QED
  BY <1>4, <1>7, <1>8

\* An accepted document comes from pipes that nobody holds and that are empty.
LEMMA ExitStep == ASSUME RunInv, RunExits PROVE RunInv'
<1> USE DEF RunInv
<1>1. CASE proc.code # 0
  BY <1>1 DEF RunExits, Raise, ProcType, FailedRunIsKilled, NothingSkipped,
              WholeDocuments, Interrupted, Running, Ended
<1>2. CASE proc.code = 0
  <2>1. PICK r \in Reports :
          documents' = Append(documents, [report |-> r, size |-> got,
                                          written |-> proc.written])
    BY <1>2 DEF RunExits
  <2>2. UNCHANGED runVars /\ pc' \in {"parse", "spawn"}
    BY <1>2 DEF RunExits
  <2>3. got = proc.written /\ got \in Nat /\ proc.written \in Nat
    BY DEF RunExits, Eof, NothingSkipped, ProcType
  <2>4. WholeDocuments'
    BY <2>1, <2>3 DEF WholeDocuments, Document
  <2>5. proc.holds = {} /\ "leader" \notin proc.alive
    BY DEF RunExits, Eof, LeaderExited
  <2>6. FailedRunIsKilled'
    BY <2>2, <2>5 DEF FailedRunIsKilled, Ended, Stray, runVars
  <2> QED
    BY <2>2, <2>4, <2>6 DEF ProcType, NothingSkipped, Interrupted, runVars
<1> QED
  BY <1>1, <1>2

LEMMA TimeoutStep == ASSUME RunInv, RunTimesOut PROVE RunInv'
<1> USE DEF RunInv
<1>1. CASE pc = "starting"
  BY <1>1, CloseStep DEF RunTimesOut
<1>2. CASE pc = "closing"
  <2>1. pc' = "end" /\ outcome' = "cancelled" /\ exc = "cancelled"
        /\ UNCHANGED <<runVars, documents>>
    BY <1>2 DEF RunTimesOut, End
  <2> QED
    BY <1>2, <2>1, CancelledStep
<1>3. CASE pc = "read"
  BY <1>3 DEF RunTimesOut, Raise, ProcType, FailedRunIsKilled, NothingSkipped,
              WholeDocuments, Interrupted, Running, Ended
<1> QED
  BY <1>1, <1>2, <1>3 DEF RunTimesOut

\* The clean-up stays in a running stage until its last KILL.
LEMMA CleanupStep ==
    ASSUME RunInv,
           \/ ReadersGathered \/ CleanupTerm \/ GraceEnds \/ GraceExpires
           \/ CleanupKill \/ KilledEnds \/ KilledExpires
    PROVE  RunInv'
<1> USE DEF RunInv
<1>1. /\ pc' \in {"term", "grace", "kill", "killed", "final"}
      /\ UNCHANGED <<documents, got>>
  BY DEF ReadersGathered, CleanupTerm, GraceEnds, GraceExpires, CleanupKill,
         KilledEnds, KilledExpires, Step
<1>2. ProcType'
  <2>1. CASE CleanupTerm
    BY <1>1, <2>1 DEF CleanupTerm, ProcType
  <2>2. CASE CleanupKill
    BY <1>1, <2>2 DEF CleanupKill, Kill, ProcType
  <2>3. CASE UNCHANGED proc
    BY <1>1, <2>3 DEF ProcType
  <2> QED
    BY <2>1, <2>2, <2>3 DEF ReadersGathered, GraceEnds, GraceExpires, KilledEnds,
                            KilledExpires
<1>3. FailedRunIsKilled' /\ NothingSkipped' /\ WholeDocuments' /\ Interrupted'
  BY <1>1 DEF FailedRunIsKilled, NothingSkipped, WholeDocuments, Interrupted, Running,
              Ended
<1> QED
  BY <1>2, <1>3

LEMMA CleanupLast == ASSUME RunInv, CleanupEnds PROVE RunInv'
<1> USE DEF RunInv
<1>1. /\ proc' = [proc EXCEPT !.doomed = @ \cup proc.alive]
      /\ pc' = "end"
      /\ UNCHANGED <<documents, got>>
  BY DEF CleanupEnds, FinalKill, Kill, End
<1>2. ProcType'
  BY <1>1 DEF ProcType
<1>3. Stray' = {}
  BY <1>1 DEF ProcType, Stray
<1>4. FailedRunIsKilled' /\ NothingSkipped' /\ WholeDocuments' /\ Interrupted'
  BY <1>1, <1>3 DEF FailedRunIsKilled, NothingSkipped, WholeDocuments, Interrupted
<1> QED
  BY <1>2, <1>4

\* A cancellation closes a spawn, starts the clean-up of a run, changes nothing inside
\* it, and ends the graph anywhere else.
LEMMA CancelStep == ASSUME RunInv, Cancel PROVE RunInv'
<1> USE DEF RunInv
<1>1. CASE pc = "starting"
  BY <1>1, CloseStep DEF Cancel
<1>2. CASE pc = "read"
  BY <1>2 DEF Cancel, Raise, ProcType, FailedRunIsKilled, NothingSkipped, WholeDocuments,
              Interrupted, Running, Ended
<1>3. CASE pc \in {"term", "grace", "kill", "killed", "final"}
  BY <1>3 DEF Cancel, graphVars, runVars, ProcType, FailedRunIsKilled, NothingSkipped,
              WholeDocuments, Interrupted, Running, Ended
<1>4. CASE pc \notin {"starting", "read", "term", "grace", "kill", "killed", "final"}
  <2>1. End("cancelled") /\ UNCHANGED runVars
    BY <1>4 DEF Cancel
  <2> QED
    BY <2>1, CancelledStep DEF End
<1> QED
  BY <1>1, <1>2, <1>3, <1>4

\* Nmap's processes write before they are doomed, and only ever disappear.
LEMMA NmapStep ==
    ASSUME RunInv, NmapWrites \/ NmapCloses \/ NmapExits \/ Drain
    PROVE  RunInv'
<1> USE DEF RunInv
<1>1. UNCHANGED <<documents, pc, outcome, exc, got>>
  BY DEF NmapWrites, NmapCloses, NmapExits, Drain, graphVars
<1>2. /\ ProcType'
      /\ proc'.alive \subseteq proc.alive /\ proc'.holds \subseteq proc.holds
      /\ proc'.doomed = proc.doomed /\ proc'.returned = proc.returned
      /\ pc \in {"starting", "read"} => got + proc'.pending = proc'.written
  <2>1. CASE NmapWrites
    <3>1. proc' = [proc EXCEPT !.pending = proc.pending + 1, !.written = proc.written + 1]
      BY <2>1 DEF NmapWrites
    <3>2. ProcType'
      <4>1. proc.pending + 1 \in Nat /\ proc.written + 1 \in Nat
        BY DEF ProcType
      <4> QED
        BY <1>1, <3>1, <4>1, Zenon DEF ProcType
    <3>3. /\ proc'.alive = proc.alive /\ proc'.doomed = proc.doomed
          /\ proc'.holds = proc.holds /\ proc'.returned = proc.returned
          /\ proc'.pending = proc.pending + 1 /\ proc'.written = proc.written + 1
      BY <3>1 DEF ProcType
    <3>4. pc \in {"starting", "read"} => got + proc'.pending = proc'.written
      BY <3>3 DEF ProcType, NothingSkipped
    <3> QED
      BY <3>2, <3>3, <3>4
  <2>2. CASE NmapExits
    <3>1. PICK p \in proc.alive, code \in {0, 1} :
            proc' = [proc EXCEPT !.alive = proc.alive \ {p}, !.holds = proc.holds \ {p},
                                 !.code = IF p = "leader" THEN code ELSE proc.code]
      BY <2>2 DEF NmapExits
    <3> QED
      BY <1>1, <3>1 DEF ProcType, NothingSkipped
  <2>3. CASE Drain
    <3>1. proc' = [proc EXCEPT !.pending = 0] /\ pc \notin {"starting", "read"}
      BY <2>3 DEF Drain
    <3> QED
      BY <1>1, <3>1 DEF ProcType
  <2>4. CASE NmapCloses
    <3>1. PICK p \in proc.holds : proc' = [proc EXCEPT !.holds = proc.holds \ {p}]
      BY <2>4 DEF NmapCloses
    <3> QED
      BY <1>1, <3>1 DEF ProcType, NothingSkipped
  <2> QED
    BY <2>1, <2>2, <2>3, <2>4
<1>3. FailedRunIsKilled'
  BY <1>1, <1>2 DEF FailedRunIsKilled, Ended, Stray
<1> QED
  BY <1>1, <1>2, <1>3 DEF NothingSkipped, WholeDocuments, Interrupted

LEMMA ApiStep == ASSUME RunInv, CreateVulnerability PROVE RunInv'
BY DEF RunInv, CreateVulnerability, runVars, ProcType, FailedRunIsKilled, NothingSkipped,
       WholeDocuments, Interrupted, Ended, Stray

LEMMA RunNext == RunInv /\ [Next]_vars => RunInv'
<1> SUFFICES ASSUME RunInv, [Next]_vars PROVE RunInv'
  OBVIOUS
<1>1. CASE Graph
  BY <1>1, OutsideActions, SpawnStep, SpawnReturnsStep, SpawnClosedStep, ReadStep,
     ExitStep, TimeoutStep, CleanupStep, CleanupLast DEF Graph
<1>2. CASE Surroundings
  BY <1>2, CancelStep, NmapStep, ApiStep DEF Surroundings
<1>3. CASE UNCHANGED vars
  BY <1>3 DEF vars, graphVars, runVars, RunInv, ProcType, FailedRunIsKilled,
              NothingSkipped, WholeDocuments, Interrupted, Ended, Stray
<1> QED
  BY <1>1, <1>2, <1>3 DEF Next

\* run_nmap (nmap/runner.py), however the group behaves, whatever it forks and whenever
\* the watcher cancels: once it has its process, a run that outgrew the cap, failed or
\* timed out ends with every process of the group dead or sent SIGKILL.  A run that
\* succeeded leaves no leader and nobody at its pipes.  What a cancelled scan leaves is
\* not bounded.
THEOREM FailedRunsAreKilled == Spec => []FailedRunIsKilled
<1>1. RunInv => FailedRunIsKilled
  BY DEF RunInv
<1> QED
  BY <1>1, RunInit, RunNext, PTL DEF Spec

\* Every document that reaches the parser holds all that Nmap wrote: the reader's
\* cap refuses a report, it never shortens one.
THEOREM DocumentsAreWhole == Spec => []WholeDocuments
<1>1. RunInv => WholeDocuments
  BY DEF RunInv
<1> QED
  BY <1>1, RunInit, RunNext, PTL DEF Spec

---------------------------------------------------------------------------
LEMMA FindingsNext == FindingsOfCompleted /\ [Next]_vars => FindingsOfCompleted'
<1> SUFFICES ASSUME FindingsOfCompleted, [Next]_vars PROVE FindingsOfCompleted'
  OBVIOUS
<1>1. CASE PersistCommits
  BY <1>1 DEF PersistCommits, FindingsOfCompleted
<1>2. CASE CreateVulnerability
  BY <1>2 DEF CreateVulnerability, FindingsOfCompleted
<1>3. CASE UNCHANGED <<pc, rows, outcome>>
  BY <1>3 DEF FindingsOfCompleted
<1>4. CASE UNCHANGED rows /\ pc # "end"
  BY <1>4 DEF FindingsOfCompleted
<1>5. CASE Graph
  BY <1>1, <1>4, <1>5
     DEF Graph, ResolveTarget, DnsAnswer, DnsFails, SpawnFails, Spawn,
         SpawnReturns, SpawnClosed, CloseSpawn, ReadStdout,
         RunExits, RunTimesOut, ReadersGathered, CleanupTerm, GraceEnds, GraceExpires,
         CleanupKill, KilledEnds, KilledExpires, CleanupEnds, Parse, PersistReads,
         PersistFails, End, Scan, Raise, Step, graphVars
<1>6. CASE Surroundings
  BY <1>2, <1>3, <1>4, <1>6
     DEF Surroundings, Cancel, CloseSpawn, NmapWrites, NmapCloses, NmapExits, Drain,
         End, Raise, graphVars
<1>7. CASE UNCHANGED vars
  BY <1>3, <1>7 DEF vars, graphVars
<1> QED
  BY <1>5, <1>6, <1>7 DEF Next

\* Until the scan has completed, and for ever when it ended otherwise, no finding of
\* Nmap is stored for it (executor.py: one commit, or a rollback).
THEOREM FindingsOnlyOfCompleted == Spec => []FindingsOfCompleted
<1>1. Init => FindingsOfCompleted
  BY DEF Init, FindingsOfCompleted
<1> QED
  BY <1>1, FindingsNext, PTL DEF Spec

---------------------------------------------------------------------------
GateInv == asset \in Assets /\ OnlyAllowedScanned

LEMMA GateNext == GateInv /\ [Next]_vars => GateInv'
<1> SUFFICES ASSUME GateInv, [Next]_vars PROVE GateInv'
  OBVIOUS
<1>1. UNCHANGED <<demo, asset>>
  BY DEF Next, Graph, Surroundings, ResolveTarget, DnsAnswer, DnsFails, SpawnFails,
         Spawn, SpawnReturns, SpawnClosed, CloseSpawn, ReadStdout, RunExits,
         RunTimesOut, ReadersGathered, CleanupTerm,
         GraceEnds, GraceExpires, CleanupKill, KilledEnds, KilledExpires, CleanupEnds,
         Parse, PersistReads, PersistCommits, PersistFails, Step, Cancel, NmapWrites,
         NmapCloses, NmapExits, Drain, CreateVulnerability, vars
<1>2. CASE UNCHANGED addresses
  BY <1>1, <1>2 DEF GateInv, OnlyAllowedScanned, _allowed_address
<1>3. CASE ResolveTarget
  <2>1. CASE RejectedLiteral \/ NeedsDns
    BY <1>2, <1>3, <2>1 DEF ResolveTarget, End
  <2>2. CASE ~RejectedLiteral /\ ~NeedsDns
    <3>1. addresses' = {asset.first, asset.last} \ {None}
      BY <1>3, <2>2 DEF ResolveTarget, Scan
    <3>2. \A a \in addresses' :
            _allowed_address(a) \/ (asset.asset_type = "subnet" /\ ~demo)
      <4>1. CASE asset.asset_type = "subnet" /\ demo
        BY <2>2, <3>1, <4>1 DEF RejectedLiteral, AllowedSubnet
      <4>2. CASE asset.asset_type # "subnet"
        BY <2>2, <3>1, <4>2, AssetsAssumption DEF RejectedLiteral, GateInv
      <4> QED
        BY <4>1, <4>2
    <3> QED
      BY <1>1, <3>2 DEF GateInv, OnlyAllowedScanned, _allowed_address
  <2> QED
    BY <2>1, <2>2
<1>4. CASE DnsAnswer
  <2>1. PICK answer \in DnsAnswers :
          IF answer = {} \/ \E a \in answer : ~_allowed_address(a)
          THEN End("target_rejected") ELSE Scan(answer)
    BY <1>4 DEF DnsAnswer
  <2>2. CASE \A a \in answer : _allowed_address(a)
    BY <1>1, <1>2, <2>1, <2>2
       DEF End, Scan, GateInv, OnlyAllowedScanned, _allowed_address
  <2>3. CASE \E a \in answer : ~_allowed_address(a)
    BY <1>2, <2>1, <2>3 DEF End
  <2> QED
    BY <2>2, <2>3
<1>5. CASE Graph
  BY <1>2, <1>3, <1>4, <1>5
     DEF Graph, DnsFails, SpawnFails, Spawn,
         SpawnReturns, SpawnClosed, CloseSpawn, ReadStdout, RunExits, RunTimesOut,
         ReadersGathered, CleanupTerm, GraceEnds, GraceExpires, CleanupKill, KilledEnds,
         KilledExpires, CleanupEnds, Parse, PersistReads, PersistCommits, PersistFails,
         End, Raise, Step, graphVars
<1>6. CASE Surroundings
  BY <1>2, <1>6
     DEF Surroundings, Cancel, CloseSpawn, NmapWrites, NmapCloses, NmapExits, Drain,
         CreateVulnerability,
         End, Raise, graphVars
<1>7. CASE UNCHANGED vars
  BY <1>2, <1>7 DEF vars, graphVars
<1> QED
  BY <1>5, <1>6, <1>7 DEF Next

\* The gate of nmap/targets.py: whatever DNS answers, every address that reaches
\* Nmap is allowed by itself; only a subnet outside demo mode is judged as a whole.
THEOREM OnlyAllowed == Spec => []OnlyAllowedScanned
<1>1. Init => GateInv
  BY DEF Init, GateInv, OnlyAllowedScanned
<1>2. GateInv => OnlyAllowedScanned
  BY DEF GateInv
<1> QED
  BY <1>1, <1>2, GateNext, PTL DEF Spec

---------------------------------------------------------------------------
(* A completed scan *)

LEMMA SplitFamilies ==
    ASSUME NEW as
    PROVE  /\ split_by_family(as) \in Seq({4, 6})
           /\ Len(split_by_family(as)) \in Nat
           /\ (\E a \in as : a.family \in {4, 6}) => Len(split_by_family(as)) > 0
<1> DEFINE Of(f) == IF \E a \in as : a.family = f THEN <<f>> ELSE <<>>
<1>1. split_by_family(as) = Of(4) \o Of(6)
  BY DEF split_by_family
<1>2. Of(4) \in Seq({4, 6}) /\ Of(6) \in Seq({4, 6})
  <2>1. <<>> \in Seq({4, 6}) /\ <<4>> \in Seq({4, 6}) /\ <<6>> \in Seq({4, 6})
    OBVIOUS
  <2> QED
    BY <2>1, Zenon
<1>3. (\E a \in as : a.family \in {4, 6}) => Len(Of(4)) = 1 \/ Len(Of(6)) = 1
  OBVIOUS
<1> HIDE DEF Of
<1>4. /\ Of(4) \o Of(6) \in Seq({4, 6})
      /\ Len(Of(4) \o Of(6)) = Len(Of(4)) + Len(Of(6))
      /\ Len(Of(4)) \in Nat /\ Len(Of(6)) \in Nat
  BY <1>2
<1>5. (\E a \in as : a.family \in {4, 6}) => Len(Of(4) \o Of(6)) > 0
  <2>1. \A m, n \in Nat : m = 1 \/ n = 1 => m + n > 0
    OBVIOUS
  <2> QED
    BY <1>3, <1>4, <2>1, Zenon
<1>6. Len(Of(4) \o Of(6)) \in Nat
  BY <1>4
<1> QED
  BY <1>1, <1>4, <1>5, <1>6, Zenon

\* The target is resolved before the first document.
LEMMA ResolveDocuments ==
    ASSUME GateInv, AllDocuments, ResolveTarget \/ DnsAnswer \/ DnsFails
    PROVE  AllDocuments'
<1> USE DEF AllDocuments
<1>1. documents = <<>> /\ UNCHANGED <<documents, exc>> /\ pc \in {"resolve", "dns"}
  BY DEF ResolveTarget, DnsAnswer, DnsFails, End, Scan, runVars
<1>2. ASSUME NEW as, Scan(as), \E a \in as : a.family \in {4, 6} PROVE AllDocuments'
  <2>1. /\ split_by_family(as) \in Seq({4, 6}) /\ Len(split_by_family(as)) > 0
        /\ Len(split_by_family(as)) \in Nat
    BY <1>2, SplitFamilies
  <2>2. /\ pc' = "spawn" /\ families' = split_by_family(as) /\ addresses' = as
        /\ outcome' = outcome
    BY <1>2 DEF Scan
  <2>3. Len(documents) = 0
    BY <1>1
  <2>4. Len(documents) + Len(split_by_family(as)) = Len(split_by_family(as))
    <3>1. \A n \in Nat : 0 + n = n
      OBVIOUS
    <3> QED
      BY <2>1, <2>3, <3>1, Zenon
  <2>5. Len(split_by_family(addresses))' = Len(split_by_family(as))
    BY <2>2
  <2> QED
    BY <1>1, <2>1, <2>2, <2>4, <2>5 DEF Completed, Running
<1>3. ASSUME NEW res, End(res), res # "completed" PROVE AllDocuments'
  BY <1>1, <1>3 DEF End, Completed, Running
<1>4. CASE pc' = "dns" /\ UNCHANGED families
  BY <1>1, <1>4 DEF Completed, Running
<1>5. CASE ResolveTarget
  <2>1. CASE RejectedLiteral \/ NeedsDns
    BY <1>3, <1>4, <1>5, <2>1 DEF ResolveTarget
  <2>2. CASE ~RejectedLiteral /\ ~NeedsDns
    <3>1. Scan({asset.first, asset.last} \ {None})
      BY <1>5, <2>2 DEF ResolveTarget
    <3>2. asset.first # None
      BY <2>2, FamiliesAssumption DEF RejectedLiteral, NeedsDns, SupportedTypes, GateInv
    <3>3. \E a \in {asset.first, asset.last} \ {None} : a.family \in {4, 6}
      BY <3>2, FamiliesAssumption DEF GateInv
    <3> QED
      BY <1>2, <3>1, <3>3
  <2> QED
    BY <2>1, <2>2
<1>6. CASE DnsAnswer
  <2>1. PICK answer \in DnsAnswers :
          IF answer = {} \/ \E a \in answer : ~_allowed_address(a)
          THEN End("target_rejected") ELSE Scan(answer)
    BY <1>6 DEF DnsAnswer
  <2>2. CASE answer = {} \/ \E a \in answer : ~_allowed_address(a)
    BY <1>3, <2>1, <2>2
  <2>3. CASE ~(answer = {} \/ \E a \in answer : ~_allowed_address(a))
    BY <1>2, <2>1, <2>3, FamiliesAssumption
  <2> QED
    BY <2>2, <2>3
<1>7. CASE DnsFails
  BY <1>3, <1>7 DEF DnsFails
<1> QED
  BY <1>5, <1>6, <1>7

LEMMA RunDocuments ==
    ASSUME RunInv, AllDocuments, RunExits
    PROVE  AllDocuments'
<1> USE DEF AllDocuments
<1>1. CASE proc.code # 0
  BY <1>1 DEF RunExits, Raise, Completed, Running
<1>2. CASE proc.code = 0
  <2>1. PICK r \in Reports :
          documents' = Append(documents, [report |-> r, size |-> got,
                                          written |-> proc.written])
    BY <1>2 DEF RunExits
  <2>2. /\ pc = "read" /\ families' = Tail(families) /\ addresses' = addresses
        /\ pc' = IF Len(families) = 1 THEN "parse" ELSE "spawn"
    BY <1>2 DEF RunExits
  <2>3. /\ Len(families) \in Nat /\ Len(families) > 0
        /\ Len(documents) + Len(families) = Len(split_by_family(addresses))
    BY <2>2 DEF Running
  <2>4. families' \in Seq({4, 6}) /\ Len(families') = Len(families) - 1
    BY <2>2, <2>3
  <2>5. Len(documents') = Len(documents) + 1 /\ Len(documents) \in Nat
    BY <2>1 DEF RunInv, WholeDocuments
  <2>6. Len(split_by_family(addresses))' = Len(split_by_family(addresses))
    BY <2>2
  <2>7. /\ Len(families) = 1 => Len(documents') = Len(split_by_family(addresses))
        /\ Len(families) # 1 =>
              /\ Len(families') > 0
              /\ Len(documents') + Len(families') = Len(split_by_family(addresses))
    <3>1. \A d, f \in Nat : f > 0 =>
            /\ f = 1 => d + 1 = d + f
            /\ f # 1 => f - 1 > 0 /\ (d + 1) + (f - 1) = d + f
      OBVIOUS
    <3> QED
      BY <2>3, <2>4, <2>5, <3>1, Zenon
  <2> QED
    BY <2>2, <2>4, <2>6, <2>7 DEF Completed, Running
<1> QED
  BY <1>1, <1>2

LEMMA OtherDocuments ==
    ASSUME RunInv, GateInv, AllDocuments, Next,
           ~(ResolveTarget \/ DnsAnswer \/ DnsFails \/ RunExits)
    PROVE  AllDocuments'
<1> USE DEF AllDocuments
<1>1. UNCHANGED <<addresses, families, documents>>
  BY DEF Next, Graph, Surroundings, SpawnFails, Spawn,
         SpawnReturns, SpawnClosed, CloseSpawn, ReadStdout, RunTimesOut,
         ReadersGathered, CleanupTerm, GraceEnds, GraceExpires, CleanupKill, KilledEnds,
         KilledExpires, CleanupEnds, Parse, PersistReads, PersistCommits, PersistFails,
         Cancel, NmapWrites, NmapCloses, NmapExits, Drain, CreateVulnerability,
         End, Raise, Step,
         graphVars
<1>2. CASE SpawnFails \/ PersistFails
  BY <1>1, <1>2 DEF SpawnFails, PersistFails, End, runVars, Completed, Running
<1>3. CASE Spawn \/ SpawnReturns
  BY <1>1, <1>3 DEF Spawn, SpawnReturns, Completed, Running
<1>11. CASE SpawnClosed \/ RunTimesOut
  BY <1>1, <1>11 DEF SpawnClosed, RunTimesOut, CloseSpawn, Raise, End, runVars, Completed,
                     Running
<1>4. CASE ReadStdout
  BY <1>1, <1>4 DEF ReadStdout, Raise, graphVars, Completed, Running
<1>5. CASE ReadersGathered \/ CleanupTerm \/ GraceEnds \/ GraceExpires \/ CleanupKill
           \/ KilledEnds \/ KilledExpires
  <2>1. /\ pc \in Running \ {"starting", "read"} /\ pc' \in Running \ {"starting", "read"}
        /\ UNCHANGED exc
    BY <1>5 DEF ReadersGathered, CleanupTerm, GraceEnds, GraceExpires, CleanupKill,
                KilledEnds, KilledExpires, Step, Running
  <2> QED
    BY <1>1, <2>1 DEF Completed, Running
<1>6. CASE CleanupEnds
  BY <1>1, <1>6 DEF CleanupEnds, End, Completed, Running
<1>7. CASE Parse
  BY <1>1, <1>7 DEF Parse, End, runVars, Completed, Running
<1>8. CASE PersistReads \/ PersistCommits
  BY <1>1, <1>8 DEF PersistReads, PersistCommits, runVars, Completed, Running
<1>9. CASE Cancel
  BY <1>1, <1>9 DEF Cancel, CloseSpawn, End, Raise, graphVars, runVars, Completed, Running
<1>10. CASE NmapWrites \/ NmapCloses \/ NmapExits \/ Drain \/ CreateVulnerability
  BY <1>1, <1>10 DEF NmapWrites, NmapCloses, NmapExits, Drain, CreateVulnerability,
                     graphVars, runVars,
                     Completed
<1> QED
  BY <1>2, <1>3, <1>4, <1>5, <1>6, <1>7, <1>8, <1>9, <1>10, <1>11
     DEF Next, Graph, Surroundings

LEMMA DocumentsNext ==
    RunInv /\ GateInv /\ AllDocuments /\ [Next]_vars => AllDocuments'
<1>1. ASSUME AllDocuments, UNCHANGED vars PROVE AllDocuments'
  BY <1>1 DEF AllDocuments, Completed, vars, graphVars, runVars
<1> QED
  BY <1>1, ResolveDocuments, RunDocuments, OtherDocuments

\* There is a least among any numbers.
LEMMA LeastExists ==
    ASSUME NEW S \in SUBSET Nat, S # {}
    PROVE  \E k \in S : \A j \in S : ~(j < k)
<1>1. PICK k \in S : \A j \in S : ~ (<<j, k>> \in OpToRel(<, Nat))
  BY NatLessThanWellFounded, WFMin
<1>2. ASSUME NEW j \in S PROVE ~(j < k)
  BY <1>1 DEF OpToRel
<1> QED
  BY <1>2

LEMMA PositivesAreNumbers ==
    ASSUME RunInv, NEW k \in DOMAIN documents
    PROVE  Positives(k) \subseteq Nat
<1>1. documents[k] \in Document
  BY DEF RunInv, WholeDocuments
<1>2. documents[k].report \in Reports
  BY <1>1 DEF Document
<1>3. documents[k].report.scripts \in Seq(Range(documents[k].report.scripts))
  BY <1>2, ReportsAssumption
<1>4. DOMAIN documents[k].report.scripts \subseteq Nat
  BY <1>3
<1> QED
  BY <1>4 DEF Positives

\* Every finding has a first one of its identity, which dedup_node keeps.
LEMMA FirstIsKept ==
    ASSUME RunInv, NEW i \in DOMAIN documents, NEW j \in Positives(i)
    PROVE  \E k \in DOMAIN documents : \E l \in Kept(k) : Draft(k, l).key = Draft(i, j).key
<1> DEFINE key == Draft(i, j).key
           L(k) == {l \in Positives(k) : Draft(k, l).key = key}
           K == {k \in DOMAIN documents : L(k) # {}}
<1>1. DOMAIN documents = 1 .. Len(documents) /\ Len(documents) \in Nat
  BY DEF RunInv, WholeDocuments
<1>2. \A k \in DOMAIN documents : Positives(k) \subseteq Nat
  BY PositivesAreNumbers
<1>3. K \in SUBSET Nat /\ K # {}
  BY <1>1
<1>4. PICK k \in K : \A m \in K : ~(m < k)
  <2> HIDE DEF K
  <2> QED
    BY <1>3, LeastExists
<1>5. L(k) \in SUBSET Nat /\ L(k) # {}
  BY <1>2, <1>4
<1>6. PICK l \in L(k) : \A m \in L(k) : ~(m < l)
  <2> HIDE DEF L
  <2> QED
    BY <1>5, LeastExists
<1>7. k \in DOMAIN documents /\ l \in Positives(k) /\ Draft(k, l).key = key
  BY <1>4, <1>6
<1>8. ASSUME NEW m \in 1 .. k, NEW n \in Positives(m), m < k \/ n < l
      PROVE  Draft(m, n).key # key
  <2>1. m \in DOMAIN documents /\ (m < k \/ m = k)
    BY <1>1, <1>7
  <2>2. CASE m < k
    BY <1>4, <2>1, <2>2
  <2>3. CASE m = k
    <3>1. n < l
      BY <1>1, <1>7, <1>8, <2>3
    <3> QED
      BY <1>6, <2>3, <3>1
  <2> QED
    BY <2>1, <2>2, <2>3
<1> HIDE DEF key, K, L
<1>9. l \in Kept(k)
  BY <1>7, <1>8 DEF Kept
<1> QED
  BY <1>7, <1>9 DEF key

\* A place is kept for one identity only.
LEMMA KeptOnce ==
    ASSUME RunInv, NEW i \in DOMAIN documents, NEW j \in Kept(i),
           NEW k \in DOMAIN documents, NEW l \in Kept(k),
           Draft(i, j).key = Draft(k, l).key
    PROVE  i = k /\ j = l
<1>1. i \in Nat /\ k \in Nat /\ i > 0 /\ k > 0
  BY DEF RunInv, WholeDocuments
<1>2. \A m \in DOMAIN documents : Positives(m) \subseteq Nat
  BY PositivesAreNumbers
<1>3. j \in Positives(i) /\ l \in Positives(k)
  BY DEF Kept
<1>4. j \in Nat /\ l \in Nat
  BY <1>2, <1>3
<1>5. ~(k < i) /\ ~(k = i /\ l < j)
  BY <1>1, <1>3 DEF Kept
<1>6. ~(i < k) /\ ~(i = k /\ j < l)
  BY <1>1, <1>3 DEF Kept
<1> QED
  BY <1>1, <1>4, <1>5, <1>6

\* Every draft passes the severity check.
LEMMA SeverityValid ==
    ASSUME NEW score
    PROVE  severity_from_cvss(score) \in VALID_SEVERITIES
BY Zenon DEF severity_from_cvss, VALID_SEVERITIES

LEMMA NewRowsAre ==
    ASSUME NEW known, NEW v
    PROVE  v \in NewRows(known) <=>
             \E i \in DOMAIN documents : \E j \in Kept(i) :
                 /\ Draft(i, j).key \notin known
                 /\ v = Row(i, j)
<1>1. \A i, j : Draft(i, j).severity \in VALID_SEVERITIES
  BY SeverityValid DEF Draft
<1> DEFINE G(i) == {Row(i, j) : j \in {l \in Kept(i) : Draft(i, l).key \notin known
                                  /\ Draft(i, l).severity \in VALID_SEVERITIES}}
<1>2. NewRows(known) = UNION {G(i) : i \in DOMAIN documents}
  BY DEF NewRows
<1>3. \A i : v \in G(i) <=> \E j \in Kept(i) : Draft(i, j).key \notin known /\ v = Row(i, j)
  BY <1>1
<1> HIDE DEF G
<1>4. v \in NewRows(known) <=> \E i \in DOMAIN documents : v \in G(i)
  BY <1>2
<1> QED
  BY <1>3, <1>4, Zenon

LEMMA CommitStores ==
    ASSUME RunInv, FindingsOfCompleted, Stored, PersistCommits
    PROVE  Stored'
<1>1. /\ pc = "commit" /\ pc' = "end" /\ rows' = rows \cup NewRows(seen)
      /\ documents' = documents /\ seen' = seen
  BY DEF PersistCommits
<1>2. \A v \in rows : v.source = "api"
  BY <1>1 DEF FindingsOfCompleted
<1>3. \A v \in NewRows(seen) : \E i \in DOMAIN documents : \E j \in Kept(i) :
        Draft(i, j).key \notin seen /\ v = Row(i, j)
  BY NewRowsAre
<1>4. \A i, j : Row(i, j).source = "nmap" /\ Row(i, j).key = Draft(i, j).key
  BY DEF Row
<1>5. \A v \in NewRows(seen) : v.source = "nmap" /\ v.key \notin seen
  BY <1>3, <1>4
<1>6. \A v, w \in NewRows(seen) : v.key = w.key => v = w
  <2> SUFFICES ASSUME NEW v \in NewRows(seen), NEW w \in NewRows(seen), v.key = w.key
               PROVE  v = w
    OBVIOUS
  <2>1. PICK i \in DOMAIN documents : \E j \in Kept(i) : v = Row(i, j)
    BY <1>3
  <2>2. PICK j \in Kept(i) : v = Row(i, j)
    BY <2>1
  <2>3. PICK k \in DOMAIN documents : \E l \in Kept(k) : w = Row(k, l)
    BY <1>3
  <2>4. PICK l \in Kept(k) : w = Row(k, l)
    BY <2>3
  <2>5. Draft(i, j).key = Draft(k, l).key
    BY <1>4, <2>2, <2>4
  <2>6. i = k /\ j = l
    BY <2>5, KeptOnce
  <2> QED
    BY <2>2, <2>4, <2>6
<1>7. \A v, w \in rows' : v.source = "api" /\ w.source = "api" /\ v.key = w.key => v = w
  BY <1>1, <1>5 DEF Stored
<1>8. StoredOnce'
  <2> SUFFICES ASSUME NEW v \in rows', NEW w \in rows', v.key = w.key, v # w
               PROVE  "api" \in {v.source, w.source} /\ v.key \notin seen
    BY <1>1 DEF StoredOnce
  <2>1. CASE v \in rows /\ w \in rows
    BY <1>2, <2>1 DEF Stored
  <2>2. CASE v \in NewRows(seen) /\ w \in NewRows(seen)
    BY <1>6, <2>2
  <2>3. CASE v \in rows /\ w \in NewRows(seen)
    BY <1>2, <1>5, <2>3
  <2>4. CASE v \in NewRows(seen) /\ w \in rows
    BY <1>2, <1>5, <2>4
  <2> QED
    BY <1>1, <2>1, <2>2, <2>3, <2>4
<1>9. ASSUME NEW i \in DOMAIN documents, NEW j \in Positives(i)
      PROVE  \E v \in rows' : v.key = documents[i].report.scripts[j].key
  <2>1. Draft(i, j).key = documents[i].report.scripts[j].key
    BY DEF Draft
  <2>2. CASE Draft(i, j).key \in seen
    <3>1. \E v \in rows : v.key = Draft(i, j).key
      BY <1>1, <2>2 DEF Stored
    <3> QED
      BY <1>1, <2>1, <3>1
  <2>3. CASE Draft(i, j).key \notin seen
    <3>1. PICK k \in DOMAIN documents : \E l \in Kept(k) : Draft(k, l).key = Draft(i, j).key
      BY FirstIsKept
    <3>2. PICK l \in Kept(k) : Draft(k, l).key = Draft(i, j).key
      BY <3>1
    <3>3. Row(k, l) \in NewRows(seen)
      BY <2>3, <3>2, NewRowsAre
    <3> QED
      BY <1>1, <1>4, <2>1, <3>2, <3>3
  <2> QED
    BY <2>2, <2>3
<1>10. \A i \in DOMAIN documents : Positives(i)' = Positives(i)
  BY <1>1 DEF Positives
<1> QED
  BY <1>1, <1>7, <1>8, <1>9, <1>10 DEF Stored, StoredOnce

LEMMA ApiStores ==
    ASSUME Stored, CreateVulnerability
    PROVE  Stored'
<1>1. PICK k \in ManualKeys :
        /\ \A v \in rows : v.key # k
        /\ rows' = rows \cup {[source |-> "api", id |-> <<>>, key |-> k, score |-> None,
                               severity |-> "low"]}
  BY DEF CreateVulnerability
<1>2. pc \in {"read", "persist", "commit"} /\ UNCHANGED <<pc, seen>>
  BY DEF CreateVulnerability
<1>3. PICK u : u.key = k /\ rows' = rows \cup {u}
  BY <1>1
<1>4. \A v, w \in rows' : v.key = w.key /\ v # w => v \in rows /\ w \in rows
  BY <1>1, <1>3
<1> QED
  BY <1>2, <1>3, <1>4 DEF Stored, StoredOnce, Completed

LEMMA StoredNext ==
    RunInv /\ FindingsOfCompleted /\ AllDocuments /\ Stored /\ [Next]_vars => Stored'
<1> SUFFICES ASSUME RunInv, FindingsOfCompleted, AllDocuments, Stored, [Next]_vars
             PROVE  Stored'
  OBVIOUS
<1>1. CASE PersistReads
  <2>1. /\ pc = "persist" /\ pc' = "commit" /\ rows' = rows
        /\ seen' = {v.key : v \in rows}
    BY <1>1 DEF PersistReads
  <2>2. \A v \in rows : v.source = "api"
    BY <2>1 DEF FindingsOfCompleted
  <2>3. \A v, w \in rows : v.key = w.key => v = w
    BY <2>2 DEF Stored
  <2>4. \A k \in seen' : \E v \in rows : v.key = k
    BY <2>1
  <2> QED
    BY <2>1, <2>3, <2>4 DEF Stored, StoredOnce, Completed
\* The other steps store nothing and do not complete the scan.
<1>2. CASE UNCHANGED <<rows, seen>> /\ pc' # "commit" /\ ~Completed'
  BY <1>2 DEF Stored, StoredOnce
<1>3. CASE UNCHANGED graphVars
  BY <1>3 DEF Stored, StoredOnce, Completed, Positives, graphVars
<1>4. CASE Graph /\ ~PersistReads /\ ~PersistCommits
  <2>1. UNCHANGED <<rows, seen>>
    BY <1>4 DEF Graph, ResolveTarget, DnsAnswer, DnsFails, SpawnFails, Spawn,
         SpawnReturns, SpawnClosed, CloseSpawn, ReadStdout,
         RunExits, RunTimesOut, ReadersGathered, CleanupTerm, GraceEnds, GraceExpires,
         CleanupKill, KilledEnds, KilledExpires, CleanupEnds, Parse,
         PersistFails, End, Scan, Raise, Step, graphVars
  <2>2. pc' # "commit"
    BY <1>4 DEF Graph, ResolveTarget, DnsAnswer, DnsFails, SpawnFails, Spawn,
         SpawnReturns, SpawnClosed, CloseSpawn, ReadStdout,
         RunExits, RunTimesOut, ReadersGathered, CleanupTerm, GraceEnds, GraceExpires,
         CleanupKill, KilledEnds, KilledExpires, CleanupEnds, Parse,
         PersistFails, End, Scan, Raise, Step, graphVars
  <2>3. ~Completed'
    <3>1. CASE CleanupEnds \/ SpawnClosed
      BY <3>1 DEF CleanupEnds, SpawnClosed, End, AllDocuments, Completed, Running
    <3>2. CASE ~CleanupEnds /\ ~SpawnClosed
      BY <1>4, <3>2
       DEF Graph, ResolveTarget, DnsAnswer, DnsFails, SpawnFails, Spawn,
         SpawnReturns, SpawnClosed, CloseSpawn, ReadStdout,
         RunExits, RunTimesOut, ReadersGathered, CleanupTerm, GraceEnds, GraceExpires,
         CleanupKill, KilledEnds, KilledExpires, Parse,
         PersistFails, End, Scan, Raise, Step, graphVars, Completed
    <3> QED
      BY <3>1, <3>2
  <2> QED
    BY <1>2, <2>1, <2>2, <2>3
<1>5. CASE Cancel
  BY <1>2, <1>3, <1>5 DEF Cancel, CloseSpawn, End, Raise, Completed
<1>6. CASE NmapWrites \/ NmapCloses \/ NmapExits \/ Drain \/ UNCHANGED vars
  BY <1>3, <1>6 DEF NmapWrites, NmapCloses, NmapExits, Drain, vars
<1> QED
  BY <1>1, <1>4, <1>5, <1>6, CommitStores, ApiStores DEF Next, Graph, Surroundings

\* scan_graph.py and executor.py: a completed scan has one whole, accepted document
\* for each address family and a row for every finding in them, each stored once; a
\* scan that ended otherwise stored none.
THEOREM CompletedWhole == Spec => []CompletedIsWhole
<1> DEFINE I == RunInv /\ GateInv /\ FindingsOfCompleted /\ AllDocuments /\ Stored
<1>1. Init => I
  <2>1. Init => AllDocuments
    BY DEF Init, AllDocuments, Completed, Running
  <2>2. Init => GateInv /\ FindingsOfCompleted /\ Stored
    BY DEF Init, GateInv, OnlyAllowedScanned, FindingsOfCompleted, Stored, StoredOnce,
           Completed
  <2> QED
    BY <2>1, <2>2, RunInit
<1>2. I /\ [Next]_vars => I'
  BY RunNext, GateNext, FindingsNext, DocumentsNext, StoredNext
<1>3. I => CompletedIsWhole
  <2> SUFFICES ASSUME I, pc = "end" PROVE CompletedIsWhole
    BY DEF CompletedIsWhole
  <2>1. CASE outcome = "completed"
    <3>1. Completed
      BY <2>1 DEF Completed
    <3>2. DOMAIN documents = 1 .. Len(documents)
      BY DEF RunInv, WholeDocuments
    <3>3. /\ Len(documents) = Len(split_by_family(addresses))
          /\ \A i \in DOMAIN documents : documents[i].report.verdict = "ok"
      BY <3>1 DEF AllDocuments
    <3>4. \A i \in DOMAIN documents : documents[i].size = documents[i].written
      BY <3>2 DEF RunInv, WholeDocuments
    <3>5. \A i \in DOMAIN documents : \A j \in DOMAIN documents[i].report.scripts :
            documents[i].report.scripts[j].vulnerable =>
              \E v \in rows : v.key = documents[i].report.scripts[j].key
      BY <3>1 DEF Stored, Positives
    <3> QED
      BY <2>1, <3>3, <3>4, <3>5 DEF CompletedIsWhole, Stored
  <2>2. CASE outcome # "completed"
    BY <2>2 DEF CompletedIsWhole, FindingsOfCompleted
  <2> QED
    BY <2>1, <2>2
<1> HIDE DEF I
<1> QED
  BY <1>1, <1>2, <1>3, PTL DEF Spec
=============================================================================
