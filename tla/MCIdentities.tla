---------------------------- MODULE MCIdentities ----------------------------
(* A small instance of Identities for TLC.                                   *)
EXTENDS Identities
=============================================================================
