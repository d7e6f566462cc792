-------------------------------- MODULE Pool --------------------------------
(***************************************************************************)
(* pool-service: one pool of agent identities and who has claimed them.    *)
(*                                                                         *)
(* Every store call is one transaction, or one critical section of the     *)
(* in-memory store, so each operation here is atomic.  Identities are      *)
(* numbered in the order they are added; an id is never given twice.  That *)
(* the pool lists the persona is left open to the caller (a claim may be   *)
(* refused).                                                               *)
(***************************************************************************)
EXTENDS InstallIds, Naturals, FiniteSets

CONSTANTS
  NumIdentities,  \* identities that can be added (a bound)
  PoolSize        \* Pool.Size

Identities == 1..NumIdentities

ASSUME PoolAssumption == NumIdentities \in Nat /\ PoolSize \in Nat

VARIABLES
  pool,      \* whether the pool exists
  identity   \* the identities table

poolVars == <<pool, identity>>

Identity == [status: {"unborn", "available", "claimed", "revoked", "deleted"},
             claimedBy: Installs \cup {NoInstall}]

PoolTypeOK ==
  /\ pool \in BOOLEAN
  /\ identity \in [Identities -> Identity]
  /\ \A i \in Identities :
       identity[i].status = "claimed" <=> identity[i].claimedBy # NoInstall

Unclaimed(status) == [status |-> status, claimedBy |-> NoInstall]

PoolInit ==
  /\ pool = TRUE
  /\ identity = [i \in Identities |-> Unclaimed("unborn")]

InPool == {i \in Identities : identity[i].status \notin {"unborn", "deleted"}}
Available == {i \in Identities : identity[i].status = "available"}

\* The pool's row is locked while its identities are counted.
AddIdentity(i) ==
  /\ pool
  /\ identity[i].status = "unborn"
  /\ \A j \in Identities : j < i => identity[j].status # "unborn"
  /\ Cardinality(InPool) < PoolSize
  /\ identity' = [identity EXCEPT ![i] = Unclaimed("available")]
  /\ UNCHANGED pool

\* The oldest available identity, marked and returned in one statement.
ClaimIdentity(i, n) ==
  /\ i \in Available
  /\ \A j \in Available : i <= j
  /\ identity' = [identity EXCEPT ![i] = [status |-> "claimed", claimedBy |-> n]]
  /\ UNCHANGED pool

\* Mutant: the claim is not cleared.
ReleaseIdentityKeeps(i) ==
  /\ identity' = [identity EXCEPT ![i].status = IF @ = "claimed" THEN "available" ELSE @]
  /\ UNCHANGED pool

\* Mutant: a revoked identity can be released.
ReleaseIdentityRevoked(i) ==
  /\ identity' = [identity EXCEPT ![i] =
                    IF @.status = "deleted" THEN @ ELSE Unclaimed("available")]
  /\ UNCHANGED pool

\* Whoever asks; idempotent, and refused for a revoked identity.
ReleaseIdentity(i) ==
  /\ identity' = [identity EXCEPT ![i] =
                    IF @.status = "claimed" THEN Unclaimed("available") ELSE @]
  /\ UNCHANGED pool

RevokeIdentity(i) ==
  /\ i \in InPool
  /\ identity' = [identity EXCEPT ![i] = Unclaimed("revoked")]
  /\ UNCHANGED pool

\* The identities go with the pool, claimed or not.
DeletePool ==
  /\ pool
  /\ pool' = FALSE
  /\ identity' = [i \in Identities |->
       IF i \in InPool THEN Unclaimed("deleted") ELSE identity[i]]

\* A revoked identity is never handed out again, whatever releases are still
\* on their way from installs that held it (handleRelease answers 409).
IdentityRevocationFinal ==
  [][\A i \in Identities :
       identity[i].status = "revoked"
         => identity'[i].status \in {"revoked", "deleted"}]_poolVars
=============================================================================
