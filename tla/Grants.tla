------------------------------- MODULE Grants -------------------------------
(***************************************************************************)
(* grant-service: the record of every token pair the broker issued.        *)
(*                                                                         *)
(* A grant is known by the access token whose hash it holds, so the grant  *)
(* of token t is grant[t].  Grants are never deleted and revoked_at is set *)
(* once.  Expiry is derived when a grant is read and is not modelled: a    *)
(* revoked grant wins over an expired one.  The audit log is not modelled. *)
(***************************************************************************)
EXTENDS InstallIds, Naturals

CONSTANT NumTokens  \* token pairs that can be issued (a bound)

\* Token pairs are numbered in the order their grants are recorded.
Tokens == 1..NumTokens

VARIABLE grant  \* the grants table

Grant == [status: {"none", "active", "revoked"}, install: Installs \cup {NoInstall}]

GrantsTypeOK == grant \in [Tokens -> Grant]

GrantsInit == grant = [t \in Tokens |-> [status |-> "none", install |-> NoInstall]]

Recorded(t) == grant[t].status # "none"

CreateGrant(t, n) ==
  /\ ~Recorded(t)
  /\ \A u \in Tokens : u < t => Recorded(u)
  /\ grant' = [grant EXCEPT ![t] = [status |-> "active", install |-> n]]

\* The first revocation counts, a second changes nothing; no grant, no change.
RevokeGrant(t) ==
  grant' = [grant EXCEPT ![t].status = IF @ = "active" THEN "revoked" ELSE @]

GrantsOf(n) == {t \in Tokens : grant[t].install = n}

\* List, then revoke one by one, skipping those that fail.  A grant recorded
\* after the list was taken is missed; as revocations only add up, they are
\* made where the list is taken.
RevokeGrants(some) ==
  grant' = [t \in Tokens |->
    IF t \in some THEN [grant[t] EXCEPT !.status = "revoked"] ELSE grant[t]]
=============================================================================
