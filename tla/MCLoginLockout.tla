--------------------------- MODULE MCLoginLockout ---------------------------
(* Two lockout steps, one account behind one address. *)
EXTENDS LoginLockout, TLC

TableDef == <<<<1, 1>>, <<2, 2>>>>

Symmetry == Permutations(Requests)
=============================================================================
