----------------------------- MODULE MCServices -----------------------------
(* The services that are model-checked side by side, each in an instance of   *)
(* its own.  A behaviour runs one of them, part, and v1, v2, ... stand for    *)
(* the variables of that one: state spaces add up and do not multiply.        *)
EXTENDS Naturals, Sequences, FiniteSets, TLC

CONSTANTS r1, r2, u1, t1, t2, c1, p1, e1, e2, i1, x1, l1, s1, none

VARIABLES
  part,
  v1, v2, v3, v4, v5, v6, v7, v8, v9, v10, v11, v12, v13, v14, v15, v16, v17
vars ==
  <<part, v1, v2, v3, v4, v5, v6, v7, v8, v9, v10, v11, v12, v13, v14, v15, v16,
    v17>>

A == INSTANCE Authenticator WITH
  Users <- {u1}, Challenges <- {c1}, Requests <- {r1},
  NumAuthenticators <- 2, UserOf <- <<u1, u1>>,
  MethodOf <- <<"sms", "totp">>, MethodLists <- {<<"totp", "sms">>},
  MaxChallengeAttempts <- 3, ChallengeTTL <- 5, ChallengeLimit <- 1,
  ChallengeWindow <- 2, LockoutThreshold <- 3, LockoutWindow <- 5,
  NoChallengeId <- none, MaxTime <- 6, now <- v1, enrolled <- v2,
  challenge <- v3, request <- v4, created <- v5, failures <- v6,
  lockedUntil <- v7, granted <- v8

B == INSTANCE Authenticator WITH
  Users <- {u1}, Challenges <- {c1}, Requests <- {r1, r2},
  NumAuthenticators <- 1, UserOf <- <<u1>>, MethodOf <- <<"sms">>,
  MethodLists <- {<<"totp", "sms">>}, MaxChallengeAttempts <- 2,
  ChallengeTTL <- 3, ChallengeLimit <- 1, ChallengeWindow <- 2,
  LockoutThreshold <- 2, LockoutWindow <- 3, NoChallengeId <- none,
  MaxTime <- 4, now <- v1, enrolled <- v2, challenge <- v3, request <- v4,
  created <- v5, failures <- v6, lockedUntil <- v7, granted <- v8

Stage(type, gate) == [type |-> type, gate |-> gate]
RiskAdaptive == <<Stage("risk-evaluation", "always"), Stage("deny", "risky"),
  Stage("authenticator-validate", "always"), Stage("user-login", "always")>>
TwoLevels == {[rank |-> 2, method |-> "none"], [rank |-> 1, method |-> "none"]}

F == INSTANCE StepUpFlows WITH
  Requests <- {r1, r2}, Users <- {u1}, NoUser <- none, Txns <- {t1},
  NoTxn <- none, NumFlows <- 2, NumChallenges <- 2, MaxRank <- 2,
  SmsRank <- 1, FlowDefs <- {RiskAdaptive}, FlowTTL <- 1, Freshness <- 0,
  LedgerTTL <- 1, MaxMishaps <- 1, MaxTime <- 2, AcrValues <- TwoLevels,
  Advised <- {[rank |-> 2, user |-> u1]}, now <- v1, parked <- v2,
  tracked <- v3, nextFlow <- v4, ledger <- v5, advice <- v6, challenge <- v7,
  passkey <- v8, request <- v9, mishaps <- v10, issued <- v11, minted <- v12,
  emitted <- v13, proved <- v14

D == INSTANCE Identities WITH
  Requests <- {r1, r2}, Phones <- {p1}, Emails <- {e1}, NoValue <- none,
  NumUsers <- 2, Reusable <- TRUE, MaxMishaps <- 1, Issuers <- {},
  NumFlows <- 2, NumStates <- 0, MaxOTP <- 1, email <- v1, owner <- v2,
  licence <- v3, flow <- v4, link <- v5, stale <- v6, texted <- v7,
  pending <- v8, request <- v9, mishaps <- v10, started <- v11, born <- v12,
  guesses <- v13, logins <- v14, bought <- v15, refused <- v16, freed <- v17

E == INSTANCE Identities WITH
  Requests <- {r1, r2}, Phones <- {p1}, Emails <- {e1}, NoValue <- none,
  NumUsers <- 1, Reusable <- TRUE, MaxMishaps <- 1, Issuers <- {},
  NumFlows <- 1, NumStates <- 1, MaxOTP <- 2, email <- v1, owner <- v2,
  licence <- v3, flow <- v4, link <- v5, stale <- v6, texted <- v7,
  pending <- v8, request <- v9, mishaps <- v10, started <- v11, born <- v12,
  guesses <- v13, logins <- v14, bought <- v15, refused <- v16, freed <- v17

G == INSTANCE Identities WITH
  Requests <- {r1, r2}, Phones <- {p1}, Emails <- {e1}, NoValue <- none,
  NumUsers <- 2, Reusable <- TRUE, MaxMishaps <- 1, Issuers <- {i1},
  NumFlows <- 0, NumStates <- 1, MaxOTP <- 1, email <- v1, owner <- v2,
  licence <- v3, flow <- v4, link <- v5, stale <- v6, texted <- v7,
  pending <- v8, request <- v9, mishaps <- v10, started <- v11, born <- v12,
  guesses <- v13, logins <- v14, bought <- v15, refused <- v16, freed <- v17

W == INSTANCE Workspaces WITH
  Emails <- {e1, e2}, Nobody <- none, Founder <- e1, NumSessions <- 3,
  MaxMishaps <- 1, Requests <- {r1, r2}, Tenants <- {t1},
  EndUsers <- {<<t1, e1>>}, Founded <- {}, AdminEmails <- {e1},
  RootEmails <- {}, tenant <- v1, user <- v2, client <- v3, session <- v4,
  picking <- v5, staff <- v6, request <- v7, mishaps <- v8

O == INSTANCE Workspaces WITH
  Emails <- {e1, e2}, Nobody <- none, Founder <- e1, NumSessions <- 3,
  MaxMishaps <- 1, Requests <- {r1}, Tenants <- {t1, t2}, EndUsers <- {},
  Founded <- {t1, t2}, AdminEmails <- {}, RootEmails <- {e2}, tenant <- v1,
  user <- v2, client <- v3, session <- v4, picking <- v5, staff <- v6,
  request <- v7, mishaps <- v8

K == INSTANCE Consoles WITH
  Requests <- {r1, r2}, DevTenant <- "ten_dev", MaxMishaps <- 1,
  Tenants <- {t1}, Emails <- {e1, e2}, ClientIds <- {c1}, Uris <- {"u"},
  NumFlows <- 0, Settings <- {}, TypeNames <- {}, States <- {},
  Ops <- {"secret", "uris"}, MaxMade <- 2, MaxSecrets <- 2, owner <- v1,
  settings <- v2, types <- v3, flow <- v4, nextFlow <- v5, client <- v6,
  nextMade <- v7, nextSecret <- v8, developer <- v9, remembered <- v10,
  trip <- v11, request <- v12, mishaps <- v13, shown <- v14, exchanged <- v15

L == INSTANCE Consoles WITH
  Requests <- {r1, r2}, DevTenant <- "ten_dev", MaxMishaps <- 1,
  Tenants <- {t1, t2}, Emails <- {e1}, ClientIds <- {}, Uris <- {},
  NumFlows <- 2, Settings <- {}, TypeNames <- {}, States <- {},
  Ops <- {"create", "save", "enable", "disable", "delete"}, MaxMade <- 0,
  MaxSecrets <- 0, owner <- v1, settings <- v2, types <- v3, flow <- v4,
  nextFlow <- v5, client <- v6, nextMade <- v7, nextSecret <- v8,
  developer <- v9, remembered <- v10, trip <- v11, request <- v12,
  mishaps <- v13, shown <- v14, exchanged <- v15

M == INSTANCE Consoles WITH
  Requests <- {r1, r2}, DevTenant <- "ten_dev", MaxMishaps <- 1,
  Tenants <- {t1}, Emails <- {e1, e2}, ClientIds <- {c1}, Uris <- {"u"},
  NumFlows <- 0, Settings <- {"fido"}, TypeNames <- {"payment"},
  States <- {x1}, Ops <- {"set", "clear", "define", "undefine"},
  MaxMade <- 1, MaxSecrets <- 0, owner <- v1, settings <- v2, types <- v3,
  flow <- v4, nextFlow <- v5, client <- v6, nextMade <- v7, nextSecret <- v8,
  developer <- v9, remembered <- v10, trip <- v11, request <- v12,
  mishaps <- v13, shown <- v14, exchanged <- v15

I == INSTANCE Delegation WITH
  Tenants <- {t1}, Clients <- {c1}, TenantOf <- [c \in {c1} |-> t1],
  Scopes <- {"r", "w"}, TTL <- 1, Leeway <- 1, MaxMishaps <- 1,
  Requests <- {r1}, Subjects <- {u1, e1}, IdTokens <- {e1},
  ClientOf <- [s \in {u1, e1} |-> c1], Resources <- {x1}, Here <- x1,
  Issuers <- {i1}, Self <- i1, Caps <- {{}, {"r"}}, NumAssertions <- 1,
  NumSessions <- 3, NumKeys <- 1, MaxEdits <- 1, MaxTime <- 2, server <- v1,
  idp <- v2, published <- v3, cached <- v4, subject <- v5, assertion <- v6,
  used <- v7, session <- v8, token <- v9, now <- v10, request <- v11,
  edits <- v12, mishaps <- v13, burned <- v14

J == INSTANCE Delegation WITH
  Tenants <- {t1}, Clients <- {c1}, TenantOf <- [c \in {c1} |-> t1],
  Scopes <- {"r", "w"}, TTL <- 1, Leeway <- 1, MaxMishaps <- 1,
  Requests <- {r1, r2}, Subjects <- {}, IdTokens <- {}, ClientOf <- <<>>,
  Resources <- {}, Here <- x1, Issuers <- {i1}, Self <- none,
  Caps <- {{"r"}, {"r", "w"}}, NumAssertions <- 1, NumSessions <- 3,
  NumKeys <- 2, MaxEdits <- 1, MaxTime <- 2, server <- v1, idp <- v2,
  published <- v3, cached <- v4, subject <- v5, assertion <- v6, used <- v7,
  session <- v8, token <- v9, now <- v10, request <- v11, edits <- v12,
  mishaps <- v13, burned <- v14

V == INSTANCE Verifications WITH
  Requests <- {r1, r2}, Tenants <- {t1, t2}, NumVerifications <- 2, TTL <- 0,
  ProofTTL <- 0, Strict <- TRUE, NumKeys <- 2, MaxMishaps <- 1, MaxTime <- 1,
  row <- v1, opened <- v2, published <- v3, cached <- v4, accepted <- v5,
  now <- v6, request <- v7, mishaps <- v8

S == INSTANCE Sessions WITH
  Logins <- {l1}, NumTokens <- 4, Requests <- {r1}, SessionTTL <- 1,
  AccessTTL <- 1, RefreshTTL <- 2, CodeTTL <- 1, HandlerTime <- 1,
  MaxTime <- 4, StoreFails <- TRUE, NoLogin <- none,
  now <- v1, code <- v2, session <- v3, token <- v4, request <- v5,
  sold <- v6, successors <- v7, dead <- v8

T == INSTANCE Transactions WITH
  NumTxns <- 1, Sessions <- {s1}, NoSession <- none, Requests <- {r1, r2},
  StaleAfter <- 0, MaxTime <- 1, MaxRejections <- 1, MaxMishaps <- 1,
  Miss <- "body", LoginRisks <- {"low", "high"},
  row <- v1, session <- v2, challenge <- v3, handler <- v4, now <- v5,
  mishaps <- v6, proved <- v7, missed <- v8

(* The instances meet what the proofs ask of the constants.                  *)
ASSUME InstancesOK ==
  /\ I!ConstantsOK /\ J!ConstantsOK /\ V!ConstantsOK
  /\ F!ConstantsOK /\ F!DeniesInTime
  /\ D!ConstantsOK /\ E!ConstantsOK /\ G!ConstantsOK
  /\ W!ConstantsOK /\ O!ConstantsOK
  /\ K!ConstantsOK /\ L!ConstantsOK /\ M!ConstantsOK
  /\ none \notin {c1, l1, s1}

Beyond8 ==
  <<v9, v10, v11, v12, v13, v14, v15, v16, v17>>
Beyond14 ==
  <<v15, v16, v17>>
Beyond15 ==
  <<v16, v17>>
Unused15 == v16 = 0 /\ v17 = 0
Unused14 == v15 = 0 /\ Unused15
Unused8 == v9 = 0 /\ v10 = 0 /\ v11 = 0 /\ v12 = 0 /\ v13 = 0 /\ v14 = 0 /\ Unused14

Init ==
  \/ part = "challenges" /\ A!Init /\ Unused8
  \/ part = "verifies" /\ B!Init /\ Unused8
  \/ part = "flows" /\ F!Init /\ Unused14
  \/ part = "phones" /\ D!Init
  \/ part = "links" /\ E!Init
  \/ part = "licences" /\ G!Init
  \/ part = "signups" /\ W!Init /\ Unused8
  \/ part = "owners" /\ O!Init /\ Unused8
  \/ part = "clients" /\ K!Init /\ Unused15
  \/ part = "journeys" /\ L!Init /\ Unused15
  \/ part = "rows" /\ M!Init /\ Unused15
  \/ part = "exchanges" /\ I!Init /\ Unused14
  \/ part = "redeems" /\ J!Init /\ Unused14
  \/ part = "proofs" /\ V!Init /\ Unused8
  \/ part = "tokens" /\ S!Init /\ Unused8
  \/ part = "decisions" /\ T!Init /\ Unused8

Next ==
  \/ part = "challenges" /\ A!Next /\ UNCHANGED <<part, Beyond8>>
  \/ part = "verifies" /\ B!Next /\ UNCHANGED <<part, Beyond8>>
  \/ part = "flows" /\ F!Next /\ UNCHANGED <<part, Beyond14>>
  \/ part = "phones" /\ D!Next /\ UNCHANGED part
  \/ part = "links" /\ E!Next /\ UNCHANGED part
  \/ part = "licences" /\ G!Next /\ UNCHANGED part
  \/ part = "signups" /\ W!Next /\ UNCHANGED <<part, Beyond8>>
  \/ part = "owners" /\ O!Next /\ UNCHANGED <<part, Beyond8>>
  \/ part = "clients" /\ K!Next /\ UNCHANGED <<part, Beyond15>>
  \/ part = "journeys" /\ L!Next /\ UNCHANGED <<part, Beyond15>>
  \/ part = "rows" /\ M!Next /\ UNCHANGED <<part, Beyond15>>
  \/ part = "exchanges" /\ I!Next /\ UNCHANGED <<part, Beyond14>>
  \/ part = "redeems" /\ J!Next /\ UNCHANGED <<part, Beyond14>>
  \/ part = "proofs" /\ V!Next /\ UNCHANGED <<part, Beyond8>>
  \/ part = "tokens" /\ S!Next /\ UNCHANGED <<part, Beyond8>>
  \/ part = "decisions" /\ T!Next /\ UNCHANGED <<part, Beyond8>>

Spec == Init /\ [][Next]_vars
Symmetry == Permutations({r1, r2})

(* Each part keeps the types of its variables.                               *)
TypesOK ==
  /\ part = "challenges" => A!TypeOK
  /\ part = "verifies" => B!TypeOK
  /\ part = "flows" => F!TypeOK
  /\ part = "phones" => D!TypeOK
  /\ part = "links" => E!TypeOK
  /\ part = "licences" => G!TypeOK
  /\ part = "signups" => W!TypeOK
  /\ part = "owners" => O!TypeOK
  /\ part = "clients" => K!TypeOK
  /\ part = "journeys" => L!TypeOK
  /\ part = "rows" => M!TypeOK
  /\ part = "exchanges" => I!TypeOK
  /\ part = "redeems" => J!TypeOK
  /\ part = "proofs" => V!TypeOK
  /\ part = "tokens" => S!TypeOK
  /\ part = "decisions" => T!TypeOK

(* One request at a time, the attempts on a row are the vendor's refusals    *)
(* exactly, and a completed or failed challenge stays for the audit trail.   *)
AttemptsAccounted == part = "challenges" => A!AttemptsExact /\ A!AuditTrailKept

(* One request at a time a terminal status is final (challenges.go:205) and  *)
(* two failures are never closer than the backoff allows (abuse.go:219).     *)
VerdictsStand == [][part = "challenges" => A!TerminalKept /\ A!FailuresApart]_vars

(* Whatever verifications overlap, failures on record and `verified: true`   *)
(* answers pass MaxChallengeAttempts by no more than the requests that read  *)
(* the row before the limit was reached (challenges.go:285-320).             *)
VerdictsBounded == part = "verifies" => B!VerdictsBounded

(* A challenge answered `verified: true`, or out of attempts, is never open  *)
(* for verification again, whatever overwrites its status later.             *)
SpentIsClosed == part = "verifies" => B!SpentIsClosed

(* No write of a handler that read the row earlier reopens a challenge or    *)
(* brings back one the sweeper deleted (UpdateChallenge, PurgeExpired).      *)
NeverReopened == [][part = "verifies" => B!AllStayClosed]_vars

(* Every code /authorize mints carries an acr that was earned by a right     *)
(* response, belongs to its transaction's advice, and is not for a request   *)
(* that a deny stage refuses.                                                *)
EveryCodeWarranted ==
  [][part = "flows" => F!MintsEarned /\ F!MintsWithinAdvice /\ F!MintsUnbarred]_vars

(* A transaction completes once, with a code the user holds, and is reported *)
(* once, however many flows carry it (completeAdviceTransaction).            *)
CompletedOnce == part = "flows" => F!CompletedOnce /\ F!CompletionBacked

(* A parked flow mints one code and is listed until then (stepup_tracker.go), *)
(* a social state nonce opens one session.                                   *)
TicketsSpentOnce ==
  /\ part = "flows" => F!SingleTicket /\ F!Mirrors
  /\ part = "links" => E!StateBuysOne
  /\ part = "licences" => G!StateBuysOne

(* Sign-ups racing by one number end in one account (resolveUser).           *)
OneAccountPerNumber == part = "phones" => D!OneAccountPerNumber

(* No account is left without a way in when an anchor is refused.            *)
NoStrandedUser == part = "phones" => D!NoStrandedUser

(* Wrong codes per flow are bounded by phoneMaxOTP.                          *)
GuessesBounded == part = "links" => E!GuessesBounded

(* What the consoles write, end or hand over is within the right its sender  *)
(* had while the request ran, and a deactivation sticks (currentOwner,       *)
(* currentAdmin, ensureStaff).                                               *)
WritesEntitled ==
  /\ [][part = "signups" => W!RegistryEntitled /\ W!SessionsEntitled /\ W!DeactivationSticks]_vars
  /\ [][part = "owners" => O!RegistryEntitled /\ O!SessionsEntitled /\ O!DeactivationSticks]_vars
  /\ [][part = "clients" => K!ClientsEntitled]_vars
  /\ [][part = "journeys" => L!RowsEntitled]_vars
  /\ [][part = "rows" => M!RowsEntitled /\ M!ClientsEntitled]_vars

(* A workspace has its owner's user and its client, a session its user, and  *)
(* no workspace two enabled flows (ProvisionTenant, UpsertFlow).             *)
WorkspacesWhole ==
  /\ part = "signups" => W!SignedUpWhole
  /\ part = "owners" => O!SignedUpWhole
  /\ part = "journeys" => L!OneEnabledFlow

(* A pick buys one session, a round trip one exchange, and the secret shown  *)
(* last is the one that opens (OwnerSelect, takeOIDCFlow, RegenerateSecret). *)
UsedOnce ==
  /\ part = "owners" => O!PickBuysOne
  /\ part = "clients" => K!LastShownOpens
  /\ part = "rows" => M!TripExchangedOnce

(* Whatever is edited or revoked meanwhile, an identity assertion is for the *)
(* client of its token, a server and scopes offered at some moment of the    *)
(* request; a token declared as an access token is one, and stood when the   *)
(* request began (handleTokenExchange).                                      *)
DelegationsEntitled ==
  [][/\ part = "exchanges" => I!DelegationsEntitled
     /\ part = "redeems" => J!DelegationsEntitled]_vars

(* Redemption by the jti table, the trust registry and the key cache does    *)
(* what SingleUse promises: paid once until the assertion expires, while its *)
(* issuer is trusted, for one token within assertion and cap.                *)
Promise == INSTANCE SingleUse WITH
  Requests <- {r1, r2}, Assertions <- {1}, Tenants <- {t1}, Scopes <- {"r", "w"},
  clock <- IF part = "redeems" THEN J!Clock ELSE 0,
  expiry <- IF part = "redeems" THEN J!Lives ELSE <<>>,
  accepted <- IF part = "redeems" THEN J!Accepted ELSE [ta \in {t1} \X {1} |-> J!Nothing],
  guest <- IF part = "redeems" THEN J!Guests ELSE [r \in {r1, r2} |-> J!NoGuest],
  paid <- IF part = "redeems" THEN J!Burned ELSE {},
  token <- IF part = "redeems" THEN J!Tokens ELSE <<>>
RedemptionsSingleUse == Promise!Spec

(* One request at a time: a replayed family stays dead, a usable token has   *)
(* its session, and what an invalidation froze issues and changes nothing.   *)
TokensMatchSessions == part = "tokens" => S!FamilyDead /\ S!GoodTokenHasSession
InvalidatedIsDead == [][part = "tokens" => S!IssuedForValid /\ S!StaysFrozen]_vars

(* One verification at a time, every rejection is in the history; and a      *)
(* decision stays grounded when the session's tier goes stale.               *)
TrailComplete == part = "decisions" => T!TrailComplete /\ T!DecisionsGrounded

(* The outcome of an identity verification is final, and the proof accepted  *)
(* for a workspace is one a wallet gave for its own request (SubmitResponse, *)
(* HTTPMDLProofVerifier).                                                    *)
ProofsStand ==
  /\ [](part = "proofs" => V!ProofsBacked)
  /\ [][part = "proofs" => V!OutcomeKept]_vars

=============================================================================
