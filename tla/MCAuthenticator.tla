-------------------------- MODULE MCAuthenticator --------------------------
(* Finite instances of Authenticator for TLC. *)
EXTENDS Authenticator, TLC

CONSTANTS u1, r1, r2, c1, c2

\* Two authenticators of one user: a text message, enrolled first, and a TOTP.
OneUser == {u1}
BothOfUser == [a \in Authenticators |-> u1]
SmsThenTotp == [a \in Authenticators |-> IF a = 1 THEN "sms" ELSE "totp"]
TotpFirst == {<<"totp", "sms">>}

Symmetry == Permutations(Requests) \cup Permutations(Challenges)
=============================================================================
