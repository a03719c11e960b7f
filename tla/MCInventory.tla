---------------------------- MODULE MCInventory ----------------------------
(* An asset with a scan and a closed finding; an asset, a scan, a finding and *)
(* a report that do not exist yet.                                            *)
EXTENDS Inventory, TLC

CONSTANTS a1, a2, s1, s2, v1, v2, p1

RowsDef == {a1, a2, s1, s2, v1, v2, p1}
KindOfDef ==
    (a1 :> "asset") @@ (a2 :> "asset") @@ (s1 :> "scan") @@ (s2 :> "scan")
    @@ (v1 :> "vulnerability") @@ (v2 :> "vulnerability") @@ (p1 :> "report")
ParentOfDef ==
    (a1 :> None) @@ (a2 :> None) @@ (s1 :> a1) @@ (s2 :> a1)
    @@ (v1 :> s1) @@ (v2 :> s1) @@ (p1 :> a1)
InitiallyLiveDef == {a1, s1, v1}
InitialColumnsDef ==
    (a1 :> Pair("hostname", "address")) @@ (s1 :> Pair("discovery", "discover"))
    @@ (v1 :> Pair("fixed", "set"))

Symmetry == Permutations(Requests)
=============================================================================
