------------------------------ MODULE SingleUse ------------------------------
(***************************************************************************)
(* What the redemption of identity assertions promises a workspace, with   *)
(* nothing of how it is done: an assertion is let in while the workspace   *)
(* accepts its issuer, is paid for at most once until it expires, and buys *)
(* the one who paid at most one token, within the scopes accepted.         *)
(***************************************************************************)
EXTENDS Naturals, Sequences, FiniteSets

CONSTANTS Requests, Assertions, Tenants, Scopes

VARIABLES
  clock,
  expiry,    \* of the assertions there are
  accepted,  \* the scopes a workspace takes from an assertion, while it does
  guest,     \* requests that were let in, and those of them that paid
  paid,      \* assertions ever paid with
  token      \* the assertion each token was bought with, and its scopes

vars == <<clock, expiry, accepted, guest, paid, token>>

Nobody == [stage |-> "none"]
Refused == [upto |-> {}, ok |-> FALSE]
Guest == [stage : {"in", "paid"}, from : Assertions, upto : SUBSET Scopes]

Init ==
  /\ clock = 0 /\ paid = {} /\ token = <<>>
  /\ expiry \in [{} -> Nat]
  /\ accepted \in [Tenants \X Assertions -> [upto : SUBSET Scopes, ok : BOOLEAN]]
  /\ guest = [r \in Requests |-> Nobody]

(* Time passes, assertions appear, workspaces change their minds.            *)
World ==
  /\ clock' >= clock
  /\ \A a \in DOMAIN expiry : a \in DOMAIN expiry' /\ expiry'[a] = expiry[a]
  /\ UNCHANGED <<guest, paid, token>>

Admit(r, t, a) ==
  /\ guest[r] = Nobody /\ a \in DOMAIN expiry
  /\ accepted[t, a].ok
  /\ guest' = [guest EXCEPT ![r] = [stage |-> "in", from |-> a, upto |-> accepted[t, a].upto]]
  /\ UNCHANGED <<clock, expiry, accepted, paid, token>>

Pay(r) ==
  LET a == guest[r].from IN
  /\ guest[r].stage = "in"
  /\ a \notin paid \/ clock > expiry[a]
  /\ paid' = paid \cup {a}
  /\ guest' \in {[guest EXCEPT ![r].stage = "paid"], [guest EXCEPT ![r] = Nobody]}
  /\ UNCHANGED <<clock, expiry, accepted, token>>

Issue(r) ==
  /\ guest[r].stage = "paid"
  /\ \E scopes \in SUBSET guest[r].upto :
       token' = Append(token, [from |-> guest[r].from, scopes |-> scopes])
  /\ guest' = [guest EXCEPT ![r] = Nobody]
  /\ UNCHANGED <<clock, expiry, accepted, paid>>

Leave ==
  /\ \A r \in Requests : guest'[r] \in {guest[r], Nobody}
  /\ UNCHANGED <<clock, expiry, accepted, paid, token>>

Next ==
  \/ World
  \/ \E r \in Requests, t \in Tenants, a \in Assertions : Admit(r, t, a)
  \/ \E r \in Requests : Pay(r) \/ Issue(r)
  \/ Leave

Spec == Init /\ [][Next]_vars
=============================================================================
