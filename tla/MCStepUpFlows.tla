--------------------------- MODULE MCStepUpFlows ---------------------------
(* A tenant whose flow denies risky requests after the challenge stage.      *)
EXTENDS StepUpFlows

CONSTANTS u1

Stage(type, gate) == [type |-> type, gate |-> gate]
LateDeny == <<Stage("risk-evaluation", "always"), Stage("authenticator-validate", "always"),
  Stage("deny", "risky"), Stage("user-login", "always")>>
FlowsResumed == {LateDeny}
Levels == {a \in Asked : a.rank > 0}
AdvisedHigh == {[rank |-> MaxRank, user |-> u1]}
============================================================================
