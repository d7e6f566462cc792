----------------------------- MODULE MCInstalls -----------------------------
(* Finite instances of Installs for TLC. *)
EXTENDS Installs, TLC

Symmetry == Permutations(Installs) \cup Permutations(Requests)
=============================================================================
