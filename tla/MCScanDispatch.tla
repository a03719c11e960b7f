--------------------------- MODULE MCScanDispatch ---------------------------
(* One tenant with the default plan of one scan a day. *)
EXTENDS ScanDispatch

TheTenant == CHOOSE t \in Tenants : TRUE
OneTenant == [s \in Scans |-> TheTenant]
PlanLimit == [t \in Tenants |-> 1]
=============================================================================
