--------------------------- MODULE MCAuthSessions ---------------------------
(* Symmetry for checking AuthSessions: requests are alike, sessions are not. *)
EXTENDS AuthSessions, TLC

Symmetry == Permutations(Requests)
=============================================================================
