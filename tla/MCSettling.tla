----------------------------- MODULE MCSettling -----------------------------
(* What requests come to once the scheduler, the sweepers and the clocks do   *)
(* their part: the token store, the broker, the transaction-service, the      *)
(* step-up flows and the authenticator-service, each in an instance small     *)
(* enough for liveness.  A behaviour runs one of them, part; v1, v2, ...      *)
(* stand for the variables of that one, and Authenticator, which is extended, *)
(* keeps its own: state spaces add up and do not multiply.                    *)
EXTENDS MCAuthenticator

CONSTANTS l1, n1, s1, t1, none

VARIABLES part, v1, v2, v3, v4, v5, v6, v7, v8, v9, v10, v11, v12, v13, v14
values == <<v1, v2, v3, v4, v5, v6, v7, v8, v9, v10, v11, v12, v13, v14>>
all == <<part, values, vars>>

S == INSTANCE Sessions WITH
  Logins <- {l1}, NumTokens <- 4, Requests <- {r1}, SessionTTL <- 1,
  AccessTTL <- 1, RefreshTTL <- 2, CodeTTL <- 1, HandlerTime <- 1,
  MaxTime <- 4, StoreFails <- TRUE, NoLogin <- none,
  now <- v1, code <- v2, session <- v3, token <- v4, request <- v5,
  sold <- v6, successors <- v7, dead <- v8

I == INSTANCE Installs WITH
  Installs <- {n1}, Requests <- {r1, r2}, NumIdentities <- 1, PoolSize <- 1,
  NumTokens <- 2, NoInstall <- none, MaxMishaps <- 1,
  pool <- v1, identity <- v2, grant <- v3, code <- v4, install <- v5,
  token <- v6, handler <- v7, mishaps <- v8, killed <- v9

T == INSTANCE Transactions WITH
  NumTxns <- 1, Sessions <- {s1}, NoSession <- none, Requests <- {r1, r2},
  StaleAfter <- 0, MaxTime <- 1, MaxRejections <- 1, MaxMishaps <- 1,
  Miss <- "body", LoginRisks <- {"low", "high"},
  row <- v1, session <- v2, challenge <- v3, handler <- v4, now <- v5,
  mishaps <- v6, proved <- v7, missed <- v8

Stage(type, gate) == [type |-> type, gate |-> gate]
RiskAdaptive == <<Stage("risk-evaluation", "always"), Stage("deny", "risky"),
  Stage("authenticator-validate", "always"), Stage("user-login", "always")>>

F == INSTANCE StepUpFlows WITH
  Requests <- {r1}, Users <- {u1}, NoUser <- none, Txns <- {t1}, NoTxn <- none,
  NumFlows <- 2, NumChallenges <- 2, MaxRank <- 2, SmsRank <- 1,
  FlowDefs <- {RiskAdaptive}, FlowTTL <- 1, Freshness <- 0, LedgerTTL <- 1,
  MaxTime <- 2, MaxMishaps <- 1,
  AcrValues <- {[rank |-> 2, method |-> "none"], [rank |-> 0, method |-> "none"]},
  Advised <- {[rank |-> 2, user |-> u1]},
  now <- v1, parked <- v2, tracked <- v3, nextFlow <- v4, ledger <- v5,
  advice <- v6, challenge <- v7, passkey <- v8, request <- v9, mishaps <- v10,
  issued <- v11, minted <- v12, emitted <- v13, proved <- v14

Unused9 == v10 = 0 /\ v11 = 0 /\ v12 = 0 /\ v13 = 0 /\ v14 = 0
Unused8 == v9 = 0 /\ Unused9
Beyond9 == <<v10, v11, v12, v13, v14>>
Beyond8 == <<v9, Beyond9>>

AllZero ==
  /\ v1 = 0 /\ v2 = 0 /\ v3 = 0 /\ v4 = 0 /\ v5 = 0 /\ v6 = 0 /\ v7 = 0 /\ v8 = 0
  /\ Unused8
Others8 == <<part, Beyond8, vars>>
Others9 == <<part, Beyond9, vars>>

InitParts ==
  /\ Init
  /\ \/ part = "sessions" /\ S!Init /\ Unused8
     \/ part = "installs" /\ I!Init /\ Unused9
     \/ part = "transactions" /\ T!Init /\ Unused8
     \/ part = "flows" /\ F!Init
     \/ part = "challenges" /\ AllZero

NextParts ==
  \/ part = "sessions" /\ S!Next /\ UNCHANGED Others8
  \/ part = "installs" /\ I!Next /\ UNCHANGED Others9
  \/ part = "transactions" /\ T!Next /\ UNCHANGED Others8
  \/ part = "flows" /\ F!Next /\ UNCHANGED <<part, vars>>
  \/ part = "challenges" /\ Next /\ UNCHANGED <<part, values>>

(* The goroutines run (the Go scheduler, store calls that return, clients'   *)
(* timeouts), the sweepers' tickers fire, the token store's and the          *)
(* challenges' clocks tick: the fairness of each part, for the one part a    *)
(* behaviour runs.  Nothing is assumed of callers and of restarts.           *)
StepParts(r) ==
  \/ part = "sessions" /\ r = r1 /\ S!Step(r1) /\ UNCHANGED Others8
  \/ part = "installs" /\ I!Step(r) /\ UNCHANGED Others9
  \/ part = "transactions" /\ T!Step(r) /\ UNCHANGED Others8
  \/ part = "flows" /\ r = r1 /\ F!Step(r1) /\ UNCHANGED <<part, vars>>
  \/ part = "challenges" /\ r \in Requests /\ Step(r) /\ UNCHANGED <<part, values>>
Sweep ==
  \/ part = "sessions" /\ S!PurgeExpired /\ UNCHANGED Others8
  \/ part = "installs" /\ I!PurgeExpired /\ UNCHANGED Others9
  \/ part = "challenges" /\ PurgeExpired /\ UNCHANGED <<part, values>>
Clock ==
  \/ part = "sessions" /\ S!Tick /\ UNCHANGED Others8
  \/ part = "challenges" /\ Tick /\ UNCHANGED <<part, values>>

FairSpec ==
  /\ InitParts /\ [][NextParts]_all
  /\ \A r \in {r1, r2} : WF_all(StepParts(r))
  /\ WF_all(Sweep) /\ WF_all(Clock)

(* Every request of every part is answered, or dies with its process.        *)
Working(r) ==
  \/ part = "sessions" /\ r = r1 /\ v5[r1].step # "idle"
  \/ part = "installs" /\ I!Busy(r)
  \/ part = "transactions" /\ T!Busy(r)
  \/ part = "flows" /\ r = r1 /\ F!Busy(r1)
  \/ part = "challenges" /\ r \in Requests /\ request[r].step # "idle"
EveryRequestAnswered == \A r \in {r1, r2} : Working(r) ~> ~Working(r)

(* Codes nobody redeems, challenges nobody touches again and, at the broker, *)
(* rotated-out rows whose access token has expired do not stay, even when a  *)
(* refresh in flight inserts such a row once more (main.go:181-202,          *)
(* pgstorage.go:398-402).                                                    *)
Leftover ==
  \/ part = "sessions" /\ v2[l1].status = "pending"
  \/ part = "installs" /\ I!Stale
  \/ part = "challenges" /\ challenge[c1].status = "pending"
LeftoversGo == Leftover ~> ~Leftover

(* "So we always have a paper trail" (advice.go:52): without trouble, what   *)
(* an evaluation or a right response decided reaches the row.                *)
Unrecorded == part = "transactions" /\ T!Owed(1)
OutcomesRecorded ==
  Unrecorded ~> (~Unrecorded \/ (part = "transactions" /\ v6 # {}))
=============================================================================
