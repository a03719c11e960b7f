------------------------------ MODULE ScanLife ------------------------------
(***************************************************************************)
(* What the scan service promises about one scan, whoever executes it: it   *)
(* is defined, queued once, started once, and ends once; its findings       *)
(* appear in the same step as its completion and disappear with the row.    *)
(***************************************************************************)
CONSTANT Scans

VARIABLES
    life,       \* where each scan is in its life
    findings    \* whether it shows findings of its run

Lives == {"absent", "defined", "queued", "running",
          "completed", "failed", "cancelled", "deleted"}

Open == {"defined", "queued", "running"}

Init ==
    /\ life = [s \in Scans |-> "absent"]
    /\ findings = [s \in Scans |-> FALSE]

Move(s, from, to) ==
    /\ life[s] \in from
    /\ life' = [life EXCEPT ![s] = to]

Define(s) == Move(s, {"absent"}, "defined") /\ UNCHANGED findings
Queue(s) == Move(s, {"defined"}, "queued") /\ UNCHANGED findings
Start(s) == Move(s, {"queued"}, "running") /\ UNCHANGED findings
Cancel(s) == Move(s, Open, "cancelled") /\ UNCHANGED findings

Complete(s, some) ==
    /\ Move(s, {"running"}, "completed")
    /\ findings' = [findings EXCEPT ![s] = some]

\* One statement of the reaper may fail several runs.
Fail(lost) ==
    /\ lost # {}
    /\ \A s \in lost : life[s] = "running"
    /\ life' = [s \in Scans |-> IF s \in lost THEN "failed" ELSE life[s]]
    /\ UNCHANGED findings

Delete(s) ==
    /\ Move(s, Lives \ {"absent", "deleted"}, "deleted")
    /\ findings' = [findings EXCEPT ![s] = FALSE]

Next ==
    \/ \E s \in Scans :
          \/ Define(s) \/ Queue(s) \/ Start(s) \/ Cancel(s) \/ Delete(s)
          \/ \E some \in BOOLEAN : Complete(s, some)
    \/ \E lost \in SUBSET Scans : Fail(lost)

Spec == Init /\ [][Next]_<<life, findings>>
=============================================================================
