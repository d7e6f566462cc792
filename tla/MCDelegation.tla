---------------------------- MODULE MCDelegation ----------------------------
(* One workspace and one client of it.                                       *)
EXTENDS Delegation

OneWorkspace == [c \in Clients |-> CHOOSE t \in Tenants : TRUE]
OneClient == [s \in Subjects |-> CHOOSE c \in Clients : TRUE]
Unrestricted == {{}}

(* A revoked access token mints no assertion, as the comment on the deny     *)
(* list has it (idjag.go:137).                                               *)
RevokedMintNothing == [][DenyListHonoured]_vars
=============================================================================
