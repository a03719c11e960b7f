----------------------------- MODULE MCDistLock -----------------------------
(* Instances of DistLock: two requests of one process and one of another. *)
EXTENDS DistLock

CONSTANTS r1, r2, r3, p1, p2

RequestsDef == {r1, r2, r3}
ProcessesDef == {p1, p2}
ProcessOfDef == [r \in RequestsDef |-> IF r = r3 THEN p2 ELSE p1]
=============================================================================
