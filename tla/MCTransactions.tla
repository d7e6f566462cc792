--------------------------- MODULE MCTransactions ---------------------------
(* Finite instances of Transactions for TLC. *)
EXTENDS Transactions, TLC

Symmetry == Permutations(Requests)
=============================================================================
