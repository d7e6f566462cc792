----------------------------- MODULE MCSessions -----------------------------
(* Finite instances of Sessions for TLC. *)
EXTENDS Sessions, TLC

Symmetry == Permutations(Requests)
=============================================================================
