--------------------------- MODULE ServicesProofs ---------------------------
(***************************************************************************)
(* The properties of the run services, as theorems of MCServices: for each *)
(* value of its model values they say what the run checks on one.          *)
(*                                                                         *)
(* Nothing about a component is proved here.  The theorems about the       *)
(* components, proved for every value of their constants, are instantiated *)
(* with the constants and variables of a part (AP for A, FP for F, ...),   *)
(* and for each part c with instance X and proofs XP:                      *)
(*                                                                         *)
(*   Same<Part>    X and XP define the same initial states, steps and      *)
(*                 properties: both are the same module, with the same     *)
(*                 substitutions;                                          *)
(*   <Part>Assumed the assumptions of the component hold, where the module *)
(*                 states them with ASSUME (the others are InstancesOK);   *)
(*   <Part>Run     a behaviour stays out of part c, or stays in it and is  *)
(*                 one of XP!Spec;                                         *)
(*   <Part>Keep    what XP proves, about the behaviours of MCServices.     *)
(***************************************************************************)
EXTENDS MCServices, FiniteSetTheorems, TLAPS

\* A behaviour runs one part: it never changes to another.
LEMMA PartStays == [Next]_vars => part' = part
BY DEF Next, vars

-----------------------------------------------------------------------------
AP == INSTANCE AuthenticatorProofs WITH
  challenge <- v3, ChallengeLimit <- 1, Challenges <- {c1},
  ChallengeTTL <- 5, ChallengeWindow <- 2, created <- v5, enrolled <- v2,
  failures <- v6, granted <- v8, lockedUntil <- v7, LockoutThreshold <- 3,
  LockoutWindow <- 5, MaxChallengeAttempts <- 3, MaxTime <- 6,
  MethodLists <- {<<"totp", "sms">>}, MethodOf <- <<"sms", "totp">>,
  NoChallengeId <- none, now <- v1, NumAuthenticators <- 2, request <- v4,
  Requests <- {r1}, UserOf <- <<u1, u1>>, Users <- {u1}

LEMMA SameChallenges ==
  /\ (A!Init <=> AP!Init)
  /\ (A!Next <=> AP!Next)
  /\ A!vars = AP!vars
  /\ (A!TypeOK <=> AP!TypeOK)
  /\ (A!AttemptsExact <=> AP!AttemptsExact)
  /\ (A!AuditTrailKept <=> AP!AuditTrailKept)
  /\ (A!TerminalKept <=> AP!TerminalKept)
  /\ (A!FailuresApart <=> AP!FailuresApart)
BY Zenon DEF
  A!Time, AP!Time, A!Log, AP!Log, A!EmptyLog, AP!EmptyLog, A!Pruned,
  AP!Pruned, A!Counted, AP!Counted, A!Allowed, AP!Allowed, A!AfterAllow,
  AP!AfterAllow, A!OldestCounted, AP!OldestCounted, A!RetryAfter,
  AP!RetryAfter, A!FoldFunction, AP!FoldFunction, A!FoldFunctionOnSet,
  AP!FoldFunctionOnSet, A!MapThenFoldSet, AP!MapThenFoldSet, A!IsFiniteSet,
  AP!IsFiniteSet, A!Authenticators, AP!Authenticators, A!vars, AP!vars,
  A!tables, AP!tables, A!limits, AP!limits, A!Terminal, AP!Terminal, A!Stored,
  AP!Stored, A!Statuses, AP!Statuses, A!Row, AP!Row, A!NoRow, AP!NoRow,
  A!Steps, AP!Steps, A!Handler, AP!Handler, A!Idle, AP!Idle, A!TypeOK,
  AP!TypeOK, A!Init, AP!Init, A!Enroll, AP!Enroll, A!DisableAuthenticator,
  AP!DisableAuthenticator, A!Candidates, AP!Candidates, A!SelectAuthenticator,
  AP!SelectAuthenticator, A!Locked, AP!Locked, A!PruneLock, AP!PruneLock,
  A!RecordFailure, AP!RecordFailure, A!BackingOff, AP!BackingOff, A!Becomes,
  AP!Becomes, A!Answer, AP!Answer, A!CreateGate, AP!CreateGate, A!NewRow,
  AP!NewRow, A!CreateSelect, AP!CreateSelect, A!CreateDispatch,
  AP!CreateDispatch, A!CreatePut, AP!CreatePut, A!VerifyGet, AP!VerifyGet,
  A!Proceed, AP!Proceed, A!VerifyGate, AP!VerifyGate, A!UpdateChallenge,
  AP!UpdateChallenge, A!VerifyExpire, AP!VerifyExpire, A!VerifyAdapter,
  AP!VerifyAdapter, A!Failed, AP!Failed, A!VerifyRecord, AP!VerifyRecord,
  A!VerifyCount, AP!VerifyCount, A!StoreError, AP!StoreError, A!Purgeable,
  AP!Purgeable, A!PurgeExpired, AP!PurgeExpired, A!Restart, AP!Restart,
  A!Tick, AP!Tick, A!Step, AP!Step, A!Next, AP!Next, A!TerminalKept,
  AP!TerminalKept, A!AttemptsExact, AP!AttemptsExact, A!AuditTrailKept,
  AP!AuditTrailKept, A!FailuresApart, AP!FailuresApart

\* The part of challenges meets the assumptions of Authenticator.
LEMMA ChallengesAssumed ==
  /\ AP!MaxTimeAssumption /\ AP!CountsAssumption /\ AP!RequestsAssumption
  /\ AP!EnrolmentAssumption /\ AP!OneAtATime
<1>1. AP!MaxTimeAssumption /\ AP!CountsAssumption
  BY DEF AP!MaxTimeAssumption, AP!CountsAssumption
<1>2. AP!RequestsAssumption
  <2>1. IsFiniteSet({r1})
    BY FS_Singleton
  <2>2. AP!IsFiniteSet({r1})
    BY <2>1, Zenon DEF AP!IsFiniteSet, IsFiniteSet
  <2> QED
    BY <2>2 DEF AP!RequestsAssumption
<1>3. AP!EnrolmentAssumption
  BY InstancesOK DEF InstancesOK, AP!EnrolmentAssumption, AP!Authenticators
<1>4. AP!OneAtATime
  BY DEF AP!OneAtATime
<1> QED
  BY <1>1, <1>2, <1>3, <1>4

LEMMA ChallengesRun ==
  Spec => []~(part = "challenges") \/ ([](part = "challenges") /\ AP!Spec)
<1>1. Init => ~(part = "challenges") \/ (part = "challenges" /\ AP!Init)
  BY SameChallenges DEF Init
<1>2. part = "challenges" /\ [Next]_vars => (part = "challenges")' /\
              [AP!Next]_AP!vars
  BY SameChallenges DEF Next, vars, AP!vars
<1>3. ~(part = "challenges") /\ [Next]_vars => (~(part = "challenges"))'
  BY PartStays
<1> QED
  BY <1>1, <1>2, <1>3, PTL DEF Spec, AP!Spec

LEMMA ChallengesKeep ==
  Spec => /\ [](part = "challenges" => A!TypeOK /\ A!AttemptsExact /\
                A!AuditTrailKept)
          /\ [][part = "challenges" => A!TerminalKept /\ A!FailuresApart]_vars
<1>1. /\ (AP!Spec => []AP!TypeOK)
      /\ (AP!Spec => []AP!AttemptsExact)
      /\ (AP!Spec => []AP!AuditTrailKept)
      /\ (AP!Spec => AP!TerminalIsFinal)
      /\ (AP!Spec => AP!BackoffRespected)
  BY AP!TypeCorrect, AP!Accounted, AP!Audited, AP!TerminalForGood, AP!Backoff,
     ChallengesAssumed
<1>2. part = "challenges" /\ [Next]_vars /\ [AP!TerminalKept]_AP!vars /\
              [AP!FailuresApart]_AP!vars
        => [part = "challenges" => A!TerminalKept /\ A!FailuresApart]_vars
  BY SameChallenges DEF Next, vars, AP!vars, Beyond8
<1>3. AP!TypeOK /\ AP!AttemptsExact /\ AP!AuditTrailKept
        => (part = "challenges" => A!TypeOK /\ A!AttemptsExact /\
                      A!AuditTrailKept)
  BY SameChallenges
<1> QED
  BY ChallengesRun, <1>1, <1>2, <1>3, PTL
     DEF Spec, AP!TerminalIsFinal, AP!BackoffRespected

\* One request at a time, the attempts on a row are the vendor's refusals
\* exactly, and a completed or failed challenge stays for the audit trail
\* (Verify, PurgeExpired).
THEOREM AttemptsAccountedFor == Spec => []AttemptsAccounted
BY ChallengesKeep, PTL DEF AttemptsAccounted

\* One request at a time, a terminal status is final (challenges.go:205) and
\* two failures are never closer than the backoff allows (abuse.go:219).
THEOREM VerdictsFinal == Spec => VerdictsStand
BY ChallengesKeep, PTL DEF VerdictsStand

-----------------------------------------------------------------------------
BP == INSTANCE AuthenticatorProofs WITH
  challenge <- v3, ChallengeLimit <- 1, Challenges <- {c1},
  ChallengeTTL <- 3, ChallengeWindow <- 2, created <- v5, enrolled <- v2,
  failures <- v6, granted <- v8, lockedUntil <- v7, LockoutThreshold <- 2,
  LockoutWindow <- 3, MaxChallengeAttempts <- 2, MaxTime <- 4,
  MethodLists <- {<<"totp", "sms">>}, MethodOf <- <<"sms">>,
  NoChallengeId <- none, now <- v1, NumAuthenticators <- 1, request <- v4,
  Requests <- {r1, r2}, UserOf <- <<u1>>, Users <- {u1}

LEMMA SameVerifies ==
  /\ (B!Init <=> BP!Init)
  /\ (B!Next <=> BP!Next)
  /\ B!vars = BP!vars
  /\ (B!TypeOK <=> BP!TypeOK)
  /\ (B!VerdictsBounded <=> BP!VerdictsBounded)
  /\ (B!SpentIsClosed <=> BP!SpentIsClosed)
  /\ (B!AllStayClosed <=> BP!AllStayClosed)
BY Zenon DEF
  B!Time, BP!Time, B!Log, BP!Log, B!EmptyLog, BP!EmptyLog, B!Pruned,
  BP!Pruned, B!Counted, BP!Counted, B!Allowed, BP!Allowed, B!AfterAllow,
  BP!AfterAllow, B!OldestCounted, BP!OldestCounted, B!RetryAfter,
  BP!RetryAfter, B!FoldFunction, BP!FoldFunction, B!FoldFunctionOnSet,
  BP!FoldFunctionOnSet, B!MapThenFoldSet, BP!MapThenFoldSet, B!Cardinality,
  BP!Cardinality, B!IsFiniteSet, BP!IsFiniteSet, B!Authenticators,
  BP!Authenticators, B!vars, BP!vars, B!tables, BP!tables, B!limits,
  BP!limits, B!Terminal, BP!Terminal, B!Stored, BP!Stored, B!Statuses,
  BP!Statuses, B!Row, BP!Row, B!NoRow, BP!NoRow, B!Steps, BP!Steps, B!Handler,
  BP!Handler, B!Idle, BP!Idle, B!TypeOK, BP!TypeOK, B!Init, BP!Init, B!Enroll,
  BP!Enroll, B!DisableAuthenticator, BP!DisableAuthenticator, B!Candidates,
  BP!Candidates, B!SelectAuthenticator, BP!SelectAuthenticator, B!Locked,
  BP!Locked, B!PruneLock, BP!PruneLock, B!RecordFailure, BP!RecordFailure,
  B!BackingOff, BP!BackingOff, B!Becomes, BP!Becomes, B!Answer, BP!Answer,
  B!CreateGate, BP!CreateGate, B!NewRow, BP!NewRow, B!CreateSelect,
  BP!CreateSelect, B!CreateDispatch, BP!CreateDispatch, B!CreatePut,
  BP!CreatePut, B!VerifyGet, BP!VerifyGet, B!Proceed, BP!Proceed,
  B!VerifyGate, BP!VerifyGate, B!UpdateChallenge, BP!UpdateChallenge,
  B!VerifyExpire, BP!VerifyExpire, B!VerifyAdapter, BP!VerifyAdapter,
  B!Failed, BP!Failed, B!VerifyRecord, BP!VerifyRecord, B!VerifyCount,
  BP!VerifyCount, B!StoreError, BP!StoreError, B!Purgeable, BP!Purgeable,
  B!PurgeExpired, BP!PurgeExpired, B!Restart, BP!Restart, B!Tick, BP!Tick,
  B!Step, BP!Step, B!Next, BP!Next, B!VerdictsBounded, BP!VerdictsBounded,
  B!SpentIsClosed, BP!SpentIsClosed, B!StaysClosed, BP!StaysClosed,
  B!AllStayClosed, BP!AllStayClosed

LEMMA VerifiesAssumed ==
  /\ BP!MaxTimeAssumption /\ BP!CountsAssumption /\ BP!RequestsAssumption
  /\ BP!EnrolmentAssumption
<1>1. BP!MaxTimeAssumption /\ BP!CountsAssumption
  BY DEF BP!MaxTimeAssumption, BP!CountsAssumption
<1>2. BP!RequestsAssumption
  <2>1. IsFiniteSet({r1} \cup {r2})
    BY FS_Singleton, FS_AddElement, Zenon
  <2>2. {r1} \cup {r2} = {r1, r2}
    OBVIOUS
  <2>3. BP!IsFiniteSet({r1, r2})
    BY <2>1, <2>2, Zenon DEF BP!IsFiniteSet, IsFiniteSet
  <2> QED
    BY <2>3 DEF BP!RequestsAssumption
<1>3. BP!EnrolmentAssumption
  BY InstancesOK DEF InstancesOK, BP!EnrolmentAssumption, BP!Authenticators
<1> QED
  BY <1>1, <1>2, <1>3

LEMMA VerifiesRun ==
  Spec => []~(part = "verifies") \/ ([](part = "verifies") /\ BP!Spec)
<1>1. Init => ~(part = "verifies") \/ (part = "verifies" /\ BP!Init)
  BY SameVerifies DEF Init
<1>2. part = "verifies" /\ [Next]_vars => (part = "verifies")' /\
              [BP!Next]_BP!vars
  BY SameVerifies DEF Next, vars, BP!vars
<1>3. ~(part = "verifies") /\ [Next]_vars => (~(part = "verifies"))'
  BY PartStays
<1> QED
  BY <1>1, <1>2, <1>3, PTL DEF Spec, BP!Spec

LEMMA VerifiesKeep ==
  Spec => /\ [](part = "verifies" => B!TypeOK /\ B!VerdictsBounded /\
                B!SpentIsClosed)
          /\ [][part = "verifies" => B!AllStayClosed]_vars
<1>1. /\ (BP!Spec => []BP!TypeOK)
      /\ (BP!Spec => []BP!VerdictsBounded)
      /\ (BP!Spec => []BP!SpentIsClosed)
      /\ (BP!Spec => BP!NeverReopened)
  BY BP!TypeCorrect, BP!Bounded, BP!Closed, BP!NotReopened, VerifiesAssumed
<1>2. part = "verifies" /\ [Next]_vars /\ [BP!AllStayClosed]_BP!vars
        => [part = "verifies" => B!AllStayClosed]_vars
  BY SameVerifies DEF Next, vars, BP!vars, Beyond8
<1>3. BP!TypeOK /\ BP!VerdictsBounded /\ BP!SpentIsClosed
        => (part = "verifies" => B!TypeOK /\ B!VerdictsBounded /\
                      B!SpentIsClosed)
  BY SameVerifies
<1> QED
  BY VerifiesRun, <1>1, <1>2, <1>3, PTL
     DEF Spec, BP!NeverReopened

\* Whatever verifications overlap, failures on record and answers `verified:
\* true` pass MaxChallengeAttempts by no more than the requests in flight
\* (challenges.go:285-320).
THEOREM VerdictsAreBounded == Spec => []VerdictsBounded
BY VerifiesKeep, PTL DEF VerdictsBounded

\* A challenge answered `verified: true`, or out of attempts, is never open
\* for verification again, whatever overwrites its status later (Verify).
THEOREM SpentStaysClosed == Spec => []SpentIsClosed
BY VerifiesKeep, PTL DEF SpentIsClosed

\* No write of a handler that read the row earlier reopens a challenge or
\* brings back one the sweeper deleted (UpdateChallenge, PurgeExpired).
THEOREM NoneIsReopened == Spec => NeverReopened
BY VerifiesKeep, PTL DEF NeverReopened

-----------------------------------------------------------------------------
SP == INSTANCE SessionsProofs WITH
  AccessTTL <- 1, code <- v2, CodeTTL <- 1, dead <- v8, HandlerTime <- 1,
  Logins <- {l1}, MaxTime <- 4, NoLogin <- none, now <- v1, NumTokens <- 4,
  RefreshTTL <- 2, request <- v5, Requests <- {r1}, session <- v3,
  SessionTTL <- 1, sold <- v6, StoreFails <- TRUE, successors <- v7,
  token <- v4

LEMMA SameTokens ==
  /\ (S!Init <=> SP!Init)
  /\ (S!Next <=> SP!Next)
  /\ S!vars = SP!vars
  /\ (S!TypeOK <=> SP!TypeOK)
  /\ (S!FamilyDead <=> SP!FamilyDead)
  /\ (S!GoodTokenHasSession <=> SP!GoodTokenHasSession)
  /\ (S!IssuedForValid <=> SP!IssuedForValid)
  /\ (S!StaysFrozen <=> SP!StaysFrozen)
BY Zenon DEF
  S!Tokens, SP!Tokens, S!vars, SP!vars, S!tables, SP!tables, S!history,
  SP!history, S!Code, SP!Code, S!Session, SP!Session, S!Token, SP!Token,
  S!NoSession, SP!NoSession, S!NoToken, SP!NoToken, S!SessionSteps,
  SP!SessionSteps, S!Issuing, SP!Issuing, S!Steps, SP!Steps, S!Handler,
  SP!Handler, S!Idle, SP!Idle, S!TypeOK, SP!TypeOK, S!Init, SP!Init, S!Found,
  SP!Found, S!Honoured, SP!Honoured, S!Becomes, SP!Becomes, S!Answer,
  SP!Answer, S!Proceed, SP!Proceed, S!Busy, SP!Busy, S!Room, SP!Room, S!Fresh,
  SP!Fresh, S!PutAuthCode, SP!PutAuthCode, S!ConsumeAuthCode,
  SP!ConsumeAuthCode, S!CodeExpired, SP!CodeExpired, S!CodeConsume,
  SP!CodeConsume, S!NewSession, SP!NewSession, S!CodeSession, SP!CodeSession,
  S!PutToken, SP!PutToken, S!IssueAccess, SP!IssueAccess, S!IssueRefresh,
  SP!IssueRefresh, S!RefreshGet, SP!RefreshGet, S!RevokeTokenFamily,
  SP!RevokeTokenFamily, S!RefreshReplay, SP!RefreshReplay, S!RefreshSession,
  SP!RefreshSession, S!UpdateSession, SP!UpdateSession, S!Prolonged,
  SP!Prolonged, S!RefreshExtend, SP!RefreshExtend, S!RevokeTokenByHash,
  SP!RevokeTokenByHash, S!RefreshRotate, SP!RefreshRotate, S!Revoke,
  SP!Revoke, S!SessionGet, SP!SessionGet, S!CreateSession, SP!CreateSession,
  S!Rewritten, SP!Rewritten, S!SessionWrite, SP!SessionWrite, S!StoreError,
  SP!StoreError, S!CodePurgeable, SP!CodePurgeable, S!TokenPurgeable,
  SP!TokenPurgeable, S!SessionPurgeable, SP!SessionPurgeable, S!PurgeCodes,
  SP!PurgeCodes, S!PurgeExpired, SP!PurgeExpired, S!Restart, SP!Restart,
  S!Tick, SP!Tick, S!Step, SP!Step, S!Next, SP!Next, S!FamilyDead,
  SP!FamilyDead, S!IssuedForValid, SP!IssuedForValid, S!StaysFrozen,
  SP!StaysFrozen, S!GoodTokenHasSession, SP!GoodTokenHasSession,
  S!Cardinality, SP!Cardinality, S!IsFiniteSet, SP!IsFiniteSet

\* So do those of tokens and decisions those of Sessions and Transactions.
LEMMA TokensAssumed ==
  /\ SP!TimesAssumption /\ SP!HandlerAssumption /\ SP!NamesAssumption
  /\ SP!OneAtATime
<1>1. SP!TimesAssumption /\ SP!HandlerAssumption
  BY DEF SP!TimesAssumption, SP!HandlerAssumption
<1>2. SP!NamesAssumption
  <2>1. IsFiniteSet({r1})
    BY FS_Singleton
  <2>2. SP!IsFiniteSet({r1})
    BY <2>1, Zenon DEF SP!IsFiniteSet, IsFiniteSet
  <2> QED
    BY <2>2, InstancesOK DEF InstancesOK, SP!NamesAssumption
<1>3. SP!OneAtATime
  BY DEF SP!OneAtATime
<1> QED
  BY <1>1, <1>2, <1>3

LEMMA TokensRun ==
  Spec => []~(part = "tokens") \/ ([](part = "tokens") /\ SP!Spec)
<1>1. Init => ~(part = "tokens") \/ (part = "tokens" /\ SP!Init)
  BY SameTokens DEF Init
<1>2. part = "tokens" /\ [Next]_vars => (part = "tokens")' /\ [SP!Next]_SP!vars
  BY SameTokens DEF Next, vars, SP!vars
<1>3. ~(part = "tokens") /\ [Next]_vars => (~(part = "tokens"))'
  BY PartStays
<1> QED
  BY <1>1, <1>2, <1>3, PTL DEF Spec, SP!Spec

LEMMA TokensKeep ==
  Spec => /\ [](part = "tokens" => S!TypeOK /\ S!FamilyDead /\
                S!GoodTokenHasSession)
          /\ [][part = "tokens" => S!IssuedForValid /\ S!StaysFrozen]_vars
<1>1. /\ (SP!Spec => []SP!TypeOK)
      /\ (SP!Spec => []SP!FamilyDead)
      /\ (SP!Spec => []SP!GoodTokenHasSession)
      /\ (SP!Spec => SP!NoIssueAfterInvalidate)
      /\ (SP!Spec => SP!FrozenOnceInvalidated)
  BY SP!TypeCorrect, SP!FamiliesDie, SP!SessionsOutlast,
     SP!NothingForInvalidated, SP!Frozen, TokensAssumed
<1>2. part = "tokens" /\ [Next]_vars /\ [SP!IssuedForValid]_SP!vars /\
              [SP!StaysFrozen]_SP!vars
        => [part = "tokens" => S!IssuedForValid /\ S!StaysFrozen]_vars
  BY SameTokens DEF Next, vars, SP!vars, Beyond8
<1>3. SP!TypeOK /\ SP!FamilyDead /\ SP!GoodTokenHasSession
        => (part = "tokens" => S!TypeOK /\ S!FamilyDead /\
                      S!GoodTokenHasSession)
  BY SameTokens
<1> QED
  BY TokensRun, <1>1, <1>2, <1>3, PTL
     DEF Spec, SP!NoIssueAfterInvalidate, SP!FrozenOnceInvalidated

\* One request at a time, a replayed family stays dead and a refresh token
\* that is good has its session (RevokeTokenFamily, PurgeExpired).
THEOREM TokensHaveSessions == Spec => []TokensMatchSessions
BY TokensKeep, PTL DEF TokensMatchSessions

\* One request at a time, an invalidated session issues no token and nothing
\* writes to it but the sweeper (handleRefreshGrant, sessions.go:99).
THEOREM InvalidatedForGood == Spec => InvalidatedIsDead
BY TokensKeep, PTL DEF InvalidatedIsDead

-----------------------------------------------------------------------------
TP == INSTANCE TransactionsProofs WITH
  challenge <- v3, handler <- v4, LoginRisks <- {"low", "high"},
  MaxMishaps <- 1, MaxRejections <- 1, MaxTime <- 1, mishaps <- v6,
  Miss <- "body", missed <- v8, NoSession <- none, now <- v5, NumTxns <- 1,
  proved <- v7, Requests <- {r1, r2}, row <- v1, session <- v2,
  Sessions <- {s1}, StaleAfter <- 0

LEMMA SameDecisions ==
  /\ (T!Init <=> TP!Init)
  /\ (T!Next <=> TP!Next)
  /\ T!vars = TP!vars
  /\ (T!TypeOK <=> TP!TypeOK)
  /\ (T!TrailComplete <=> TP!TrailComplete)
  /\ (T!DecisionsGrounded <=> TP!DecisionsGrounded)
BY Zenon DEF
  T!vars, TP!vars, T!Txns, TP!Txns, T!TxnId, TP!TxnId, T!SessionId,
  TP!SessionId, T!Time, TP!Time, T!Trouble, TP!Trouble, T!Tiers, TP!Tiers,
  T!Decisions, TP!Decisions, T!Steps, TP!Steps, T!Row, TP!Row, T!Session,
  TP!Session, T!Handler, TP!Handler, T!TypeOK, TP!TypeOK, T!NoRow, TP!NoRow,
  T!Login, TP!Login, T!Serving, TP!Serving, T!Idle, TP!Idle, T!Init, TP!Init,
  T!Busy, TP!Busy, T!At, TP!At, T!Becomes, TP!Becomes, T!Goes, TP!Goes,
  T!Answers, TP!Answers, T!Suffer, TP!Suffer, T!Begins, TP!Begins, T!Decides,
  TP!Decides, T!MarkError, TP!MarkError, T!Create, TP!Create, T!Persist,
  TP!Persist, T!Advice, TP!Advice, T!AdviceRisk, TP!AdviceRisk,
  T!CreateChallenge, TP!CreateChallenge, T!Awaits, TP!Awaits, T!StepUpVerify,
  TP!StepUpVerify, T!VerifyGate, TP!VerifyGate, T!Satisfied, TP!Satisfied,
  T!Verified, TP!Verified, T!Rejected, TP!Rejected, T!MayMiss, TP!MayMiss,
  T!VerifyChallenge, TP!VerifyChallenge, T!AppendHistory, TP!AppendHistory,
  T!Reject, TP!Reject, T!SessionLive, TP!SessionLive, T!ReadSession,
  TP!ReadSession, T!UpdateSession, TP!UpdateSession, T!Upgrade, TP!Upgrade,
  T!Promote, TP!Promote, T!SessionRead, TP!SessionRead, T!SessionWrite,
  TP!SessionWrite, T!PurgeSession, TP!PurgeSession, T!Authorize, TP!Authorize,
  T!Stale, TP!Stale, T!Verdict, TP!Verdict, T!Judged, TP!Judged, T!GetSession,
  TP!GetSession, T!Reevaluate, TP!Reevaluate, T!Crash, TP!Crash, T!Tick,
  TP!Tick, T!Step, TP!Step, T!Next, TP!Next, T!DecisionsGrounded,
  TP!DecisionsGrounded, T!Rejecting, TP!Rejecting, T!TrailComplete,
  TP!TrailComplete, T!Cardinality, TP!Cardinality

LEMMA DecisionsAssumed == TP!TransactionsAssumption
BY InstancesOK DEF InstancesOK, TP!TransactionsAssumption

LEMMA DecisionsRun ==
  Spec => []~(part = "decisions") \/ ([](part = "decisions") /\ TP!Spec)
<1>1. Init => ~(part = "decisions") \/ (part = "decisions" /\ TP!Init)
  BY SameDecisions DEF Init
<1>2. part = "decisions" /\ [Next]_vars => (part = "decisions")' /\
              [TP!Next]_TP!vars
  BY SameDecisions DEF Next, vars, TP!vars
<1>3. ~(part = "decisions") /\ [Next]_vars => (~(part = "decisions"))'
  BY PartStays
<1> QED
  BY <1>1, <1>2, <1>3, PTL DEF Spec, TP!Spec

LEMMA DecisionsKeep ==
  Spec => [](part = "decisions" => T!TypeOK /\ T!TrailComplete /\
                T!DecisionsGrounded)
<1>1. /\ (TP!Spec => []TP!TypeOK)
      /\ (TP!Spec => []TP!TrailComplete)
      /\ (TP!Spec => []TP!DecisionsGrounded)
  BY TP!TypeCorrect, TP!Trailed, TP!Grounded, DecisionsAssumed
<1>2. TP!TypeOK /\ TP!TrailComplete /\ TP!DecisionsGrounded
        => (part = "decisions" => T!TypeOK /\ T!TrailComplete /\
                      T!DecisionsGrounded)
  BY SameDecisions
<1> QED
  BY DecisionsRun, <1>1, <1>2, PTL

\* Every rejection of a response is in the transaction's history, and a
\* decision to allow rests on the tier or on a challenge answered rightly
\* (StepUpVerify, AppendHistory).
THEOREM TrailsComplete == Spec => []TrailComplete
BY DecisionsKeep, PTL DEF TrailComplete

-----------------------------------------------------------------------------
FP == INSTANCE StepUpFlowsProofs WITH
  AcrValues <- TwoLevels, advice <- v6,
  Advised <- {[rank |-> 2, user |-> u1]}, challenge <- v7, emitted <- v13,
  FlowDefs <- {RiskAdaptive}, FlowTTL <- 1, Freshness <- 0, issued <- v11,
  ledger <- v5, LedgerTTL <- 1, MaxMishaps <- 1, MaxRank <- 2, MaxTime <- 2,
  minted <- v12, mishaps <- v10, nextFlow <- v4, NoTxn <- none,
  NoUser <- none, now <- v1, NumChallenges <- 2, NumFlows <- 2, parked <- v2,
  passkey <- v8, proved <- v14, request <- v9, Requests <- {r1, r2},
  SmsRank <- 1, tracked <- v3, Txns <- {t1}, Users <- {u1}

LEMMA SameFlows ==
  /\ (F!Init <=> FP!Init)
  /\ (F!Next <=> FP!Next)
  /\ F!vars = FP!vars
  /\ (F!TypeOK <=> FP!TypeOK)
  /\ (F!CompletedOnce <=> FP!CompletedOnce)
  /\ (F!CompletionBacked <=> FP!CompletionBacked)
  /\ (F!SingleTicket <=> FP!SingleTicket)
  /\ (F!Mirrors <=> FP!Mirrors)
  /\ (F!MintsEarned <=> FP!MintsEarned)
  /\ (F!MintsWithinAdvice <=> FP!MintsWithinAdvice)
  /\ (F!MintsUnbarred <=> FP!MintsUnbarred)
  /\ (F!ConstantsOK <=> FP!ConstantsOK)
  /\ (F!DeniesInTime <=> FP!DeniesInTime)
BY Zenon DEF
  F!FlowIds, FP!FlowIds, F!ChallengeIds, FP!ChallengeIds, F!Ranks, FP!Ranks,
  F!StageTypes, FP!StageTypes, F!Gates, FP!Gates, F!Asked, FP!Asked,
  F!LevelMethod, FP!LevelMethod, F!Effective, FP!Effective, F!ConstantsOK,
  FP!ConstantsOK, F!RefusedAt, FP!RefusedAt, F!vars, FP!vars, F!Memory,
  FP!Memory, F!History, FP!History, F!Pending, FP!Pending, F!NoFlow,
  FP!NoFlow, F!Handler, FP!Handler, F!Idle, FP!Idle, F!Busy, FP!Busy, F!Go,
  FP!Go, F!Answer, FP!Answer, F!At, FP!At, F!Goto, FP!Goto, F!Calm, FP!Calm,
  F!Trouble, FP!Trouble, F!Overlaps, FP!Overlaps, F!Live, FP!Live, F!NoAdvice,
  FP!NoAdvice, F!Advise, FP!Advise, F!AdviceAllows, FP!AdviceAllows,
  F!DeniesRisky, FP!DeniesRisky, F!DeniesInTime, FP!DeniesInTime, F!Room,
  FP!Room, F!Authorize, FP!Authorize, F!Runs, FP!Runs, F!Advance, FP!Advance,
  F!Skip, FP!Skip, F!StageIs, FP!StageIs, F!RiskEvaluation, FP!RiskEvaluation,
  F!Deny, FP!Deny, F!Remembered, FP!Remembered, F!Achieved, FP!Achieved,
  F!AchievedWithin, FP!AchievedWithin, F!Satisfied, FP!Satisfied, F!Leave,
  FP!Leave, F!AuthenticatorValidate, FP!AuthenticatorValidate, F!PeerFails,
  FP!PeerFails, F!List, FP!List, F!Unborn, FP!Unborn, F!CreateChallenge,
  FP!CreateChallenge, F!Store, FP!Store, F!Park, FP!Park, F!Track, FP!Track,
  F!HasFlow, FP!HasFlow, F!Resume, FP!Resume, F!Verify, FP!Verify, F!Arrive,
  FP!Arrive, F!Raise, FP!Raise, F!RightResponse, FP!RightResponse,
  F!WrongResponse, FP!WrongResponse, F!DropFlow, FP!DropFlow, F!Untrack,
  FP!Untrack, F!Record, FP!Record, F!Minting, FP!Minting, F!Mint, FP!Mint,
  F!MintFails, FP!MintFails, F!Open, FP!Open, F!Complete, FP!Complete,
  F!RegisterFinish, FP!RegisterFinish, F!FinishRegistration,
  FP!FinishRegistration, F!Repark, FP!Repark, F!ChallengeExpires,
  FP!ChallengeExpires, F!DisablePasskey, FP!DisablePasskey, F!Tick, FP!Tick,
  F!Restart, FP!Restart, F!Init, FP!Init, F!CallFails, FP!CallFails, F!Step,
  FP!Step, F!Start, FP!Start, F!Environment, FP!Environment, F!Next, FP!Next,
  F!TypeOK, FP!TypeOK, F!Earned, FP!Earned, F!MintsEarned, FP!MintsEarned,
  F!WithinAdvice, FP!WithinAdvice, F!MintsWithinAdvice, FP!MintsWithinAdvice,
  F!CompletedOnce, FP!CompletedOnce, F!CompletionBacked, FP!CompletionBacked,
  F!SingleTicket, FP!SingleTicket, F!Mirrors, FP!Mirrors, F!Unbarred,
  FP!Unbarred, F!MintsUnbarred, FP!MintsUnbarred, F!Cardinality,
  FP!Cardinality

LEMMA FlowsRun ==
  Spec => []~(part = "flows") \/ ([](part = "flows") /\ FP!Spec)
<1>1. Init => ~(part = "flows") \/ (part = "flows" /\ FP!Init)
  BY SameFlows DEF Init
<1>2. part = "flows" /\ [Next]_vars => (part = "flows")' /\ [FP!Next]_FP!vars
  BY SameFlows DEF Next, vars, FP!vars
<1>3. ~(part = "flows") /\ [Next]_vars => (~(part = "flows"))'
  BY PartStays
<1> QED
  BY <1>1, <1>2, <1>3, PTL DEF Spec, FP!Spec

LEMMA FlowsKeep ==
  Spec => /\ [](part = "flows" => F!TypeOK /\ F!CompletedOnce /\
                F!CompletionBacked /\ F!SingleTicket /\ F!Mirrors)
          /\ [][part = "flows" => F!MintsEarned /\ F!MintsWithinAdvice /\
                        F!MintsUnbarred]_vars
<1>1. /\ (FP!Spec => []FP!TypeOK)
      /\ (FP!Spec => [](FP!CompletedOnce /\ FP!CompletionBacked))
      /\ (FP!Spec => FP!AcrEarned /\ FP!BoundToAdvice)
      /\ (FP!Spec => FP!DenialHonoured)
      /\ (FP!Spec => []FP!SingleTicket)
      /\ (FP!Spec => []FP!Mirrors)
  BY FP!TypeCorrect, FP!CompletesOnce, FP!CodesWarranted, FP!DeniedForGood,
     FP!OneTicket, FP!MirrorsHold, InstancesOK, SameFlows DEF InstancesOK
<1>2. part = "flows" /\ [Next]_vars /\ [FP!MintsEarned]_FP!vars /\
              [FP!MintsWithinAdvice]_FP!vars /\ [FP!MintsUnbarred]_FP!vars
        => [part = "flows" => F!MintsEarned /\ F!MintsWithinAdvice /\
                      F!MintsUnbarred]_vars
  BY SameFlows DEF Next, vars, FP!vars, Beyond14
<1>3. FP!TypeOK /\ FP!CompletedOnce /\ FP!CompletionBacked /\
              FP!SingleTicket /\ FP!Mirrors
        => (part = "flows" => F!TypeOK /\ F!CompletedOnce /\
                      F!CompletionBacked /\ F!SingleTicket /\ F!Mirrors)
  BY SameFlows
<1> QED
  BY FlowsRun, <1>1, <1>2, <1>3, PTL
     DEF Spec, FP!AcrEarned, FP!BoundToAdvice, FP!DenialHonoured

\* Every code /authorize mints carries an acr earned by a right response,
\* within its transaction's advice, for no request a deny stage refuses
\* (AchievedACR).
THEOREM CodesHaveWarrants == Spec => EveryCodeWarranted
BY FlowsKeep, PTL DEF EveryCodeWarranted

\* A transaction completes once, with a code its user holds, however many
\* flows carry it (completeAdviceTransaction).
THEOREM TransactionsCompleteOnce == Spec => []CompletedOnce
BY FlowsKeep, PTL DEF CompletedOnce

-----------------------------------------------------------------------------
GP == INSTANCE IdentitiesProofs WITH
  accepted <- v5, assertion <- v6, born <- v12, bought <- v15, burned <- v14,
  cached <- v4, Caps <- {{"r"}, {"r", "w"}}, ClientOf <- <<>>,
  Clients <- {c1}, clock <- v6, DIssuers <- {i1}, DMaxMishaps <- 1,
  DRequests <- {r1, r2}, edits <- v12, email <- v1, Emails <- {e1},
  errand <- v11, flow <- v4, freed <- v17, guesses <- v13, held <- v4,
  Here <- x1, idp <- v2, IdTokens <- {}, Issuers <- {i1}, Leeway <- 1,
  licence <- v3, link <- v5, logins <- v14, MaxEdits <- 1, MaxMishaps <- 1,
  MaxOTP <- 1, MaxTime <- 2, mishaps <- v10, NoValue <- none, now <- v10,
  NumAssertions <- 1, NumFlows <- 0, NumKeys <- 2, NumSessions <- 3,
  NumStates <- 1, NumUsers <- 2, NumVerifications <- 2, opened <- v2,
  owner <- v2, pending <- v8, Phones <- {p1}, ProofTTL <- 0, published <- v3,
  refused <- v16, request <- v9, Requests <- {r1, r2}, Resources <- {},
  Reusable <- TRUE, row <- v1, Scopes <- {"r", "w"}, Self <- none,
  server <- v1, session <- v8, setbacks <- v13, signing <- v3, stale <- v6,
  started <- v11, Strict <- TRUE, subject <- v5, Subjects <- {},
  submission <- v7, TenantOf <- [c \in {c1} |-> t1], Tenants <- {t1},
  texted <- v7, token <- v9, trouble <- v8, TTL <- 1, used <- v7,
  VMaxMishaps <- 1, VMaxTime <- 1, VNumKeys <- 2, VRequests <- {r1, r2},
  VTenants <- {t1, t2}, VTTL <- 0

LEMMA SameLicences ==
  /\ (G!Init <=> GP!Init)
  /\ (G!Next <=> GP!Next)
  /\ G!vars = GP!vars
  /\ (G!TypeOK <=> GP!TypeOK)
  /\ (G!StateBuysOne <=> GP!StateBuysOne)
  /\ (G!ConstantsOK <=> GP!ConstantsOK)
BY Zenon DEF
  G!Users, GP!Users, G!Nobody, GP!Nobody, G!FlowIds, GP!FlowIds, G!States,
  GP!States, G!ConstantsOK, GP!ConstantsOK, G!vars, GP!vars, G!Rows, GP!Rows,
  G!Memory, GP!Memory, G!History, GP!History, G!NoFlow, GP!NoFlow, G!Flow,
  GP!Flow, G!Values, GP!Values, G!Handler, GP!Handler, G!Idle, GP!Idle,
  G!Blank, GP!Blank, G!Busy, GP!Busy, G!At, GP!At, G!Go, GP!Go, G!Answer,
  GP!Answer, G!Goto, GP!Goto, G!Calm, GP!Calm, G!Trouble, GP!Trouble,
  G!Overlaps, GP!Overlaps, G!Begin, GP!Begin, G!Exists, GP!Exists,
  G!UsersWith, GP!UsersWith, G!Collides, GP!Collides, G!Held, GP!Held,
  G!NewUser, GP!NewUser, G!Submit, GP!Submit, G!Has, GP!Has, G!Verify,
  GP!Verify, G!CheckCode, GP!CheckCode, G!Miss, GP!Miss, G!Hit, GP!Hit,
  G!Anchor, GP!Anchor, G!Load, GP!Load, G!Create, GP!Create, G!Bind, GP!Bind,
  G!BindFails, GP!BindFails, G!Rollback, GP!Rollback, G!OpenSession,
  GP!OpenSession, G!SocialAuthorize, GP!SocialAuthorize, G!Callback,
  GP!Callback, G!Profile, GP!Profile, G!ByEmail, GP!ByEmail, G!HasLink,
  GP!HasLink, G!OnLink, GP!OnLink, G!LinkStart, GP!LinkStart, G!LinkCallback,
  GP!LinkCallback, G!Skip, GP!Skip, G!PutLink, GP!PutLink, G!LinkLoad,
  GP!LinkLoad, G!Written, GP!Written, G!WriteUser, GP!WriteUser, G!LinkWrite,
  GP!LinkWrite, G!DropLink, GP!DropLink, G!CreateUser, GP!CreateUser, G!Patch,
  GP!Patch, G!PatchWrite, GP!PatchWrite, G!DeleteUser, GP!DeleteUser,
  G!SetUserPhone, GP!SetUserPhone, G!Clear, GP!Clear, G!ClearFails,
  GP!ClearFails, G!Set, GP!Set, G!RemoveIdentity, GP!RemoveIdentity,
  G!RecordMDL, GP!RecordMDL, G!ClearLicence, GP!ClearLicence,
  G!ClearLicenceFails, GP!ClearLicenceFails, G!StoreLicence, GP!StoreLicence,
  G!StoreFails, GP!StoreFails, G!Expire, GP!Expire, G!Restart, GP!Restart,
  G!Init, GP!Init, G!Step, GP!Step, G!Start, GP!Start, G!Environment,
  GP!Environment, G!Next, GP!Next, G!TypeOK, GP!TypeOK, G!StateBuysOne,
  GP!StateBuysOne, G!Cardinality, GP!Cardinality

LEMMA LicencesRun ==
  Spec => []~(part = "licences") \/ ([](part = "licences") /\ GP!Spec)
<1>1. Init => ~(part = "licences") \/ (part = "licences" /\ GP!Init)
  BY SameLicences DEF Init
<1>2. part = "licences" /\ [Next]_vars => (part = "licences")' /\
              [GP!Next]_GP!vars
  BY SameLicences DEF Next, vars, GP!vars
<1>3. ~(part = "licences") /\ [Next]_vars => (~(part = "licences"))'
  BY PartStays
<1> QED
  BY <1>1, <1>2, <1>3, PTL DEF Spec, GP!Spec

LEMMA LicencesKeep ==
  Spec => [](part = "licences" => G!TypeOK /\ G!StateBuysOne)
<1>1. /\ (GP!Spec => []GP!TypeOK)
      /\ (GP!Spec => []GP!StateBuysOne)
  BY GP!TypeCorrect, GP!NonceBuysOne, InstancesOK, SameLicences DEF InstancesOK
<1>2. GP!TypeOK /\ GP!StateBuysOne
        => (part = "licences" => G!TypeOK /\ G!StateBuysOne)
  BY SameLicences
<1> QED
  BY LicencesRun, <1>1, <1>2, PTL

-----------------------------------------------------------------------------
EP == INSTANCE IdentitiesProofs WITH
  accepted <- v5, assertion <- v6, born <- v12, bought <- v15, burned <- v14,
  cached <- v4, Caps <- {{"r"}, {"r", "w"}}, ClientOf <- <<>>,
  Clients <- {c1}, clock <- v6, DIssuers <- {i1}, DMaxMishaps <- 1,
  DRequests <- {r1, r2}, edits <- v12, email <- v1, Emails <- {e1},
  errand <- v11, flow <- v4, freed <- v17, guesses <- v13, held <- v4,
  Here <- x1, idp <- v2, IdTokens <- {}, Issuers <- {}, Leeway <- 1,
  licence <- v3, link <- v5, logins <- v14, MaxEdits <- 1, MaxMishaps <- 1,
  MaxOTP <- 2, MaxTime <- 2, mishaps <- v10, NoValue <- none, now <- v10,
  NumAssertions <- 1, NumFlows <- 1, NumKeys <- 2, NumSessions <- 3,
  NumStates <- 1, NumUsers <- 1, NumVerifications <- 2, opened <- v2,
  owner <- v2, pending <- v8, Phones <- {p1}, ProofTTL <- 0, published <- v3,
  refused <- v16, request <- v9, Requests <- {r1, r2}, Resources <- {},
  Reusable <- TRUE, row <- v1, Scopes <- {"r", "w"}, Self <- none,
  server <- v1, session <- v8, setbacks <- v13, signing <- v3, stale <- v6,
  started <- v11, Strict <- TRUE, subject <- v5, Subjects <- {},
  submission <- v7, TenantOf <- [c \in {c1} |-> t1], Tenants <- {t1},
  texted <- v7, token <- v9, trouble <- v8, TTL <- 1, used <- v7,
  VMaxMishaps <- 1, VMaxTime <- 1, VNumKeys <- 2, VRequests <- {r1, r2},
  VTenants <- {t1, t2}, VTTL <- 0

LEMMA SameLinks ==
  /\ (E!Init <=> EP!Init)
  /\ (E!Next <=> EP!Next)
  /\ E!vars = EP!vars
  /\ (E!TypeOK <=> EP!TypeOK)
  /\ (E!StateBuysOne <=> EP!StateBuysOne)
  /\ (E!GuessesBounded <=> EP!GuessesBounded)
  /\ (E!ConstantsOK <=> EP!ConstantsOK)
BY Zenon DEF
  E!Users, EP!Users, E!Nobody, EP!Nobody, E!FlowIds, EP!FlowIds, E!States,
  EP!States, E!ConstantsOK, EP!ConstantsOK, E!vars, EP!vars, E!Rows, EP!Rows,
  E!Memory, EP!Memory, E!History, EP!History, E!NoFlow, EP!NoFlow, E!Flow,
  EP!Flow, E!Values, EP!Values, E!Handler, EP!Handler, E!Idle, EP!Idle,
  E!Blank, EP!Blank, E!Busy, EP!Busy, E!At, EP!At, E!Go, EP!Go, E!Answer,
  EP!Answer, E!Goto, EP!Goto, E!Calm, EP!Calm, E!Trouble, EP!Trouble,
  E!Overlaps, EP!Overlaps, E!Begin, EP!Begin, E!Exists, EP!Exists,
  E!UsersWith, EP!UsersWith, E!Collides, EP!Collides, E!Held, EP!Held,
  E!NewUser, EP!NewUser, E!Submit, EP!Submit, E!Has, EP!Has, E!Verify,
  EP!Verify, E!CheckCode, EP!CheckCode, E!Miss, EP!Miss, E!Hit, EP!Hit,
  E!Anchor, EP!Anchor, E!Load, EP!Load, E!Create, EP!Create, E!Bind, EP!Bind,
  E!BindFails, EP!BindFails, E!Rollback, EP!Rollback, E!OpenSession,
  EP!OpenSession, E!SocialAuthorize, EP!SocialAuthorize, E!Callback,
  EP!Callback, E!Profile, EP!Profile, E!ByEmail, EP!ByEmail, E!HasLink,
  EP!HasLink, E!OnLink, EP!OnLink, E!LinkStart, EP!LinkStart, E!LinkCallback,
  EP!LinkCallback, E!Skip, EP!Skip, E!PutLink, EP!PutLink, E!LinkLoad,
  EP!LinkLoad, E!Written, EP!Written, E!WriteUser, EP!WriteUser, E!LinkWrite,
  EP!LinkWrite, E!DropLink, EP!DropLink, E!CreateUser, EP!CreateUser, E!Patch,
  EP!Patch, E!PatchWrite, EP!PatchWrite, E!DeleteUser, EP!DeleteUser,
  E!SetUserPhone, EP!SetUserPhone, E!Clear, EP!Clear, E!ClearFails,
  EP!ClearFails, E!Set, EP!Set, E!RemoveIdentity, EP!RemoveIdentity,
  E!RecordMDL, EP!RecordMDL, E!ClearLicence, EP!ClearLicence,
  E!ClearLicenceFails, EP!ClearLicenceFails, E!StoreLicence, EP!StoreLicence,
  E!StoreFails, EP!StoreFails, E!Expire, EP!Expire, E!Restart, EP!Restart,
  E!Init, EP!Init, E!Step, EP!Step, E!Start, EP!Start, E!Environment,
  EP!Environment, E!Next, EP!Next, E!TypeOK, EP!TypeOK, E!GuessesBounded,
  EP!GuessesBounded, E!StateBuysOne, EP!StateBuysOne, E!Cardinality,
  EP!Cardinality

LEMMA LinksRun ==
  Spec => []~(part = "links") \/ ([](part = "links") /\ EP!Spec)
<1>1. Init => ~(part = "links") \/ (part = "links" /\ EP!Init)
  BY SameLinks DEF Init
<1>2. part = "links" /\ [Next]_vars => (part = "links")' /\ [EP!Next]_EP!vars
  BY SameLinks DEF Next, vars, EP!vars
<1>3. ~(part = "links") /\ [Next]_vars => (~(part = "links"))'
  BY PartStays
<1> QED
  BY <1>1, <1>2, <1>3, PTL DEF Spec, EP!Spec

LEMMA LinksKeep ==
  Spec => [](part = "links" => E!TypeOK /\ E!StateBuysOne /\ E!GuessesBounded)
<1>1. /\ (EP!Spec => []EP!TypeOK)
      /\ (EP!Spec => []EP!StateBuysOne)
      /\ (EP!Spec => []EP!GuessesBounded)
  BY EP!TypeCorrect, EP!NonceBuysOne, EP!GuessesLimited, InstancesOK,
     SameLinks DEF InstancesOK
<1>2. EP!TypeOK /\ EP!StateBuysOne /\ EP!GuessesBounded
        => (part = "links" => E!TypeOK /\ E!StateBuysOne /\ E!GuessesBounded)
  BY SameLinks
<1> QED
  BY LinksRun, <1>1, <1>2, PTL

\* Wrong codes per flow are bounded by phoneMaxOTP (otp.go).
THEOREM GuessesAreBounded == Spec => []GuessesBounded
BY LinksKeep, PTL DEF GuessesBounded

\* A parked flow mints one code and is listed until then (stepup_tracker.go),
\* a social state nonce opens one session.
THEOREM TicketsBuyOnce == Spec => []TicketsSpentOnce
BY FlowsKeep, LinksKeep, LicencesKeep, PTL DEF TicketsSpentOnce

LEMMA SameRedeems ==
  /\ (J!Init <=> EP!D!Init)
  /\ (J!Next <=> EP!D!Next)
  /\ J!vars = EP!D!vars
  /\ (J!TypeOK <=> EP!D!TypeOK)
  /\ (J!DelegationsEntitled <=> EP!D!DelegationsEntitled)
  /\ (J!ConstantsOK <=> EP!D!ConstantsOK)
BY Zenon DEF
  J!ConstantsOK, EP!D!ConstantsOK, J!vars, EP!D!vars, J!Registries,
  EP!D!Registries, J!Keyring, EP!D!Keyring, J!Redeemed, EP!D!Redeemed,
  J!Entry, EP!D!Entry, J!NoEntry, EP!D!NoEntry, J!NoKey, EP!D!NoKey, J!Made,
  EP!D!Made, J!Kinds, EP!D!Kinds, J!Assertion, EP!D!Assertion, J!Declarable,
  EP!D!Declarable, J!Exchange, EP!D!Exchange, J!Redemption, EP!D!Redemption,
  J!Handler, EP!D!Handler, J!Idle, EP!D!Idle, J!Busy, EP!D!Busy, J!Go,
  EP!D!Go, J!Answer, EP!D!Answer, J!At, EP!D!At, J!Goto, EP!D!Goto, J!Calm,
  EP!D!Calm, J!Trouble, EP!D!Trouble, J!Arrive, EP!D!Arrive, J!Verifies,
  EP!D!Verifies, J!SameClient, EP!D!SameClient, J!Offered, EP!D!Offered,
  J!TokenExchange, EP!D!TokenExchange, J!NotDenied, EP!D!NotDenied,
  J!GetTokenByHash, EP!D!GetTokenByHash, J!ScopesOk, EP!D!ScopesOk,
  J!GrantedScopes, EP!D!GrantedScopes, J!Enabled, EP!D!Enabled,
  J!AuthorizedMCPServer, EP!D!AuthorizedMCPServer, J!Sign, EP!D!Sign,
  J!SignTyped, EP!D!SignTyped, J!Foreign, EP!D!Foreign, J!RotateKey,
  EP!D!RotateKey, J!JWTBearer, EP!D!JWTBearer, J!Trusts, EP!D!Trusts,
  J!TrustedIDP, EP!D!TrustedIDP, J!Fetch, EP!D!Fetch, J!Keys, EP!D!Keys,
  J!Refetch, EP!D!Refetch, J!Valid, EP!D!Valid, J!MeantFor, EP!D!MeantFor,
  J!Check, EP!D!Check, J!Swept, EP!D!Swept, J!NarrowOk, EP!D!NarrowOk,
  J!Narrowed, EP!D!Narrowed, J!IntersectScopes, EP!D!IntersectScopes,
  J!RedeemIDJAGJTI, EP!D!RedeemIDJAGJTI, J!CreateSession, EP!D!CreateSession,
  J!PutToken, EP!D!PutToken, J!Fails, EP!D!Fails, J!Edit, EP!D!Edit, J!Noted,
  EP!D!Noted, J!Created, EP!D!Created, J!Toggled, EP!D!Toggled, J!Deleted,
  EP!D!Deleted, J!EditServers, EP!D!EditServers, J!CreateMCPServer,
  EP!D!CreateMCPServer, J!ToggleMCPServer, EP!D!ToggleMCPServer,
  J!DeleteMCPServer, EP!D!DeleteMCPServer, J!EditIDPs, EP!D!EditIDPs,
  J!CreateTrustedIDP, EP!D!CreateTrustedIDP, J!ToggleTrustedIDP,
  EP!D!ToggleTrustedIDP, J!DeleteTrustedIDP, EP!D!DeleteTrustedIDP,
  J!RevokeSubject, EP!D!RevokeSubject, J!SubjectLapses, EP!D!SubjectLapses,
  J!Tick, EP!D!Tick, J!Restart, EP!D!Restart, J!Init, EP!D!Init, J!Step,
  EP!D!Step, J!Next, EP!D!Next, J!TypeOK, EP!D!TypeOK, J!New, EP!D!New,
  J!SignedBy, EP!D!SignedBy, J!DelegationsEntitled, EP!D!DelegationsEntitled,
  J!Cardinality, EP!D!Cardinality

LEMMA RedeemsRun ==
  Spec => []~(part = "redeems") \/ ([](part = "redeems") /\ EP!D!Spec)
<1>1. Init => ~(part = "redeems") \/ (part = "redeems" /\ EP!D!Init)
  BY SameRedeems DEF Init
<1>2. part = "redeems" /\ [Next]_vars => (part = "redeems")' /\
              [EP!D!Next]_EP!D!vars
  BY SameRedeems DEF Next, vars, EP!D!vars
<1>3. ~(part = "redeems") /\ [Next]_vars => (~(part = "redeems"))'
  BY PartStays
<1> QED
  BY <1>1, <1>2, <1>3, PTL DEF Spec, EP!D!Spec

LEMMA RedeemsKeep ==
  Spec => /\ [](part = "redeems" => J!TypeOK)
          /\ [][part = "redeems" => J!DelegationsEntitled]_vars
<1>1. /\ (EP!D!Spec => []EP!D!TypeOK)
      /\ (EP!D!Spec => [][EP!D!DelegationsEntitled]_EP!D!vars)
  BY EP!DTypeCorrect, EP!Entitled, InstancesOK, SameRedeems DEF InstancesOK
<1>2. part = "redeems" /\ [Next]_vars /\ [EP!D!DelegationsEntitled]_EP!D!vars
        => [part = "redeems" => J!DelegationsEntitled]_vars
  BY SameRedeems DEF Next, vars, EP!D!vars, Beyond14
<1>3. EP!D!TypeOK
        => (part = "redeems" => J!TypeOK)
  BY SameRedeems
<1> QED
  BY RedeemsRun, <1>1, <1>2, <1>3, PTL
     DEF Spec

\* What the promise is told of a part is what the proofs tell theirs.
LEMMA MirrorsAgree ==
  /\ J!Clock = EP!D!Clock /\ (J!Clock)' = (EP!D!Clock)'
  /\ J!Lives = EP!D!Lives /\ (J!Lives)' = (EP!D!Lives)'
  /\ J!Accepted = EP!D!Accepted /\ (J!Accepted)' = (EP!D!Accepted)'
  /\ J!Guests = EP!D!Guests /\ (J!Guests)' = (EP!D!Guests)'
  /\ J!Burned = EP!D!Burned /\ (J!Burned)' = (EP!D!Burned)'
  /\ J!Tokens = EP!D!Tokens /\ (J!Tokens)' = (EP!D!Tokens)'
BY Zenon DEF
  J!NoEntry, EP!D!NoEntry, J!Made, EP!D!Made, J!Idle, EP!D!Idle, J!Busy,
  EP!D!Busy, J!Clock, EP!D!Clock, J!Burned, EP!D!Burned, J!Tokens,
  EP!D!Tokens, J!Nothing, EP!D!Nothing, J!NoGuest, EP!D!NoGuest, J!Lives,
  EP!D!Lives, J!Allowed, EP!D!Allowed, J!Accepted, EP!D!Accepted, J!Guests,
  EP!D!Guests

\* While the part is redeems, the two instances of SingleUse are one.
LEMMA RedeemsPromised ==
  /\ part = "redeems" /\ EP!Promise!Init => Promise!Init
  /\ part = "redeems" /\ (part = "redeems")' /\
                [EP!Promise!Next]_EP!Promise!vars
       => [Promise!Next]_Promise!vars
<1>1. 1..1 = {1}
  OBVIOUS
<1>2. ASSUME part = "redeems", EP!Promise!Init PROVE Promise!Init
  BY <1>1, <1>2, MirrorsAgree
     DEF Promise!Init, EP!Promise!Init, Promise!Nobody, EP!Promise!Nobody
<1>3. ASSUME part = "redeems", (part = "redeems")', EP!Promise!World
      PROVE  Promise!World
  BY <1>3, MirrorsAgree DEF Promise!World, EP!Promise!World
<1>4. ASSUME part = "redeems", (part = "redeems")', NEW r \in {r1, r2},
              NEW t \in {t1},
             NEW a \in {1}, EP!Promise!Admit(r, t, a)
      PROVE  Promise!Admit(r, t, a)
  BY <1>4, MirrorsAgree
     DEF Promise!Admit, EP!Promise!Admit, Promise!Nobody, EP!Promise!Nobody
<1>5. ASSUME part = "redeems", (part = "redeems")', NEW r \in {r1, r2},
              EP!Promise!Pay(r)
      PROVE  Promise!Pay(r)
  BY <1>5, MirrorsAgree
     DEF Promise!Pay, EP!Promise!Pay, Promise!Nobody, EP!Promise!Nobody
<1>6. ASSUME part = "redeems", (part = "redeems")', NEW r \in {r1, r2},
              EP!Promise!Issue(r)
      PROVE  Promise!Issue(r)
  BY <1>6, MirrorsAgree
     DEF Promise!Issue, EP!Promise!Issue, Promise!Nobody, EP!Promise!Nobody
<1>7. ASSUME part = "redeems", (part = "redeems")', EP!Promise!Leave
      PROVE  Promise!Leave
  BY <1>7, MirrorsAgree
     DEF Promise!Leave, EP!Promise!Leave, Promise!Nobody, EP!Promise!Nobody
<1>8. ASSUME part = "redeems", (part = "redeems")', UNCHANGED EP!Promise!vars
      PROVE  UNCHANGED Promise!vars
  BY <1>8, MirrorsAgree DEF Promise!vars, EP!Promise!vars
<1> QED
  BY <1>1, <1>2, <1>3, <1>4, <1>5, <1>6, <1>7, <1>8 DEF Promise!Next,
     EP!Promise!Next

\* In any other part there is nothing to promise.
LEMMA ElsewhereIdle ==
  /\ ~(part = "redeems") => Promise!Init
  /\ ~(part = "redeems") /\ (~(part = "redeems"))' =>
                [Promise!Next]_Promise!vars
<1>1. <<>> \in [{} -> Nat]
  OBVIOUS
<1>2. [ta \in {t1} \X {1} |-> J!Nothing]
        \in [{t1} \X {1} -> [upto : SUBSET {"r", "w"}, ok : BOOLEAN]]
  BY DEF J!Nothing
<1>3. ~(part = "redeems") => Promise!Init
  BY <1>1, <1>2 DEF Promise!Init, Promise!Nobody, J!NoGuest
<1>4. ~(part = "redeems") /\ (~(part = "redeems"))' => UNCHANGED Promise!vars
  BY DEF Promise!vars, J!Nothing, J!NoGuest
<1> QED
  BY <1>3, <1>4

\* Redemption by the jti table, the trust registry and the key cache does what
\* SingleUse promises, crashes, rotations and policy edits in between included
\* (RedeemIDJAGJTI, trustedIDP).
THEOREM RedeemedOnce == Spec => RedemptionsSingleUse
<1>1. EP!D!Spec => EP!RedemptionsSingleUse
  BY EP!SingleUseKept, InstancesOK, SameRedeems DEF InstancesOK
<1>2. part = "redeems" /\ [Next]_vars => (part = "redeems")'
  BY PartStays
<1>3. ~(part = "redeems") /\ [Next]_vars => (~(part = "redeems"))'
  BY PartStays
<1> QED
  BY RedeemsRun, RedeemsPromised, ElsewhereIdle, <1>1, <1>2, <1>3, PTL
     DEF Spec, RedemptionsSingleUse, EP!RedemptionsSingleUse, Promise!Spec,
                   EP!Promise!Spec

-----------------------------------------------------------------------------
DP == INSTANCE IdentitiesProofs WITH
  accepted <- v5, assertion <- v6, born <- v12, bought <- v15, burned <- v14,
  cached <- v4, Caps <- {{}, {"r"}}, ClientOf <- [s \in {u1, e1} |-> c1],
  Clients <- {c1}, clock <- v6, DIssuers <- {i1}, DMaxMishaps <- 1,
  DRequests <- {r1}, edits <- v12, email <- v1, Emails <- {e1},
  errand <- v11, flow <- v4, freed <- v17, guesses <- v13, held <- v4,
  Here <- x1, idp <- v2, IdTokens <- {e1}, Issuers <- {}, Leeway <- 1,
  licence <- v3, link <- v5, logins <- v14, MaxEdits <- 1, MaxMishaps <- 1,
  MaxOTP <- 1, MaxTime <- 2, mishaps <- v10, NoValue <- none, now <- v10,
  NumAssertions <- 1, NumFlows <- 2, NumKeys <- 1, NumSessions <- 3,
  NumStates <- 0, NumUsers <- 2, NumVerifications <- 2, opened <- v2,
  owner <- v2, pending <- v8, Phones <- {p1}, ProofTTL <- 0, published <- v3,
  refused <- v16, request <- v9, Requests <- {r1, r2}, Resources <- {x1},
  Reusable <- TRUE, row <- v1, Scopes <- {"r", "w"}, Self <- i1,
  server <- v1, session <- v8, setbacks <- v13, signing <- v3, stale <- v6,
  started <- v11, Strict <- TRUE, subject <- v5, Subjects <- {u1, e1},
  submission <- v7, TenantOf <- [c \in {c1} |-> t1], Tenants <- {t1},
  texted <- v7, token <- v9, trouble <- v8, TTL <- 1, used <- v7,
  VMaxMishaps <- 1, VMaxTime <- 1, VNumKeys <- 2, VRequests <- {r1, r2},
  VTenants <- {t1, t2}, VTTL <- 0

LEMMA SamePhones ==
  /\ (D!Init <=> DP!Init)
  /\ (D!Next <=> DP!Next)
  /\ D!vars = DP!vars
  /\ (D!TypeOK <=> DP!TypeOK)
  /\ (D!OneAccountPerNumber <=> DP!OneAccountPerNumber)
  /\ (D!NoStrandedUser <=> DP!NoStrandedUser)
  /\ (D!ConstantsOK <=> DP!ConstantsOK)
BY Zenon DEF
  D!Users, DP!Users, D!Nobody, DP!Nobody, D!FlowIds, DP!FlowIds, D!States,
  DP!States, D!ConstantsOK, DP!ConstantsOK, D!vars, DP!vars, D!Rows, DP!Rows,
  D!Memory, DP!Memory, D!History, DP!History, D!NoFlow, DP!NoFlow, D!Flow,
  DP!Flow, D!Values, DP!Values, D!Handler, DP!Handler, D!Idle, DP!Idle,
  D!Blank, DP!Blank, D!Busy, DP!Busy, D!At, DP!At, D!Go, DP!Go, D!Answer,
  DP!Answer, D!Goto, DP!Goto, D!Calm, DP!Calm, D!Trouble, DP!Trouble,
  D!Overlaps, DP!Overlaps, D!Begin, DP!Begin, D!Exists, DP!Exists,
  D!UsersWith, DP!UsersWith, D!Collides, DP!Collides, D!Held, DP!Held,
  D!NewUser, DP!NewUser, D!Submit, DP!Submit, D!Has, DP!Has, D!Verify,
  DP!Verify, D!CheckCode, DP!CheckCode, D!Miss, DP!Miss, D!Hit, DP!Hit,
  D!Anchor, DP!Anchor, D!Load, DP!Load, D!Create, DP!Create, D!Bind, DP!Bind,
  D!BindFails, DP!BindFails, D!Rollback, DP!Rollback, D!OpenSession,
  DP!OpenSession, D!SocialAuthorize, DP!SocialAuthorize, D!Callback,
  DP!Callback, D!Profile, DP!Profile, D!ByEmail, DP!ByEmail, D!HasLink,
  DP!HasLink, D!OnLink, DP!OnLink, D!LinkStart, DP!LinkStart, D!LinkCallback,
  DP!LinkCallback, D!Skip, DP!Skip, D!PutLink, DP!PutLink, D!LinkLoad,
  DP!LinkLoad, D!Written, DP!Written, D!WriteUser, DP!WriteUser, D!LinkWrite,
  DP!LinkWrite, D!DropLink, DP!DropLink, D!CreateUser, DP!CreateUser, D!Patch,
  DP!Patch, D!PatchWrite, DP!PatchWrite, D!DeleteUser, DP!DeleteUser,
  D!SetUserPhone, DP!SetUserPhone, D!Clear, DP!Clear, D!ClearFails,
  DP!ClearFails, D!Set, DP!Set, D!RemoveIdentity, DP!RemoveIdentity,
  D!RecordMDL, DP!RecordMDL, D!ClearLicence, DP!ClearLicence,
  D!ClearLicenceFails, DP!ClearLicenceFails, D!StoreLicence, DP!StoreLicence,
  D!StoreFails, DP!StoreFails, D!Expire, DP!Expire, D!Restart, DP!Restart,
  D!Init, DP!Init, D!Step, DP!Step, D!Start, DP!Start, D!Environment,
  DP!Environment, D!Next, DP!Next, D!TypeOK, DP!TypeOK, D!OneAccountPerNumber,
  DP!OneAccountPerNumber, D!Reachable, DP!Reachable, D!InHand, DP!InHand,
  D!NoStrandedUser, DP!NoStrandedUser, D!Cardinality, DP!Cardinality

LEMMA PhonesRun ==
  Spec => []~(part = "phones") \/ ([](part = "phones") /\ DP!Spec)
<1>1. Init => ~(part = "phones") \/ (part = "phones" /\ DP!Init)
  BY SamePhones DEF Init
<1>2. part = "phones" /\ [Next]_vars => (part = "phones")' /\ [DP!Next]_DP!vars
  BY SamePhones DEF Next, vars, DP!vars
<1>3. ~(part = "phones") /\ [Next]_vars => (~(part = "phones"))'
  BY PartStays
<1> QED
  BY <1>1, <1>2, <1>3, PTL DEF Spec, DP!Spec

LEMMA PhonesKeep ==
  Spec => [](part = "phones" => D!TypeOK /\ D!OneAccountPerNumber /\
                D!NoStrandedUser)
<1>1. /\ (DP!Spec => []DP!TypeOK)
      /\ (DP!Spec => []DP!OneAccountPerNumber)
      /\ (DP!Spec => []DP!NoStrandedUser)
  BY DP!TypeCorrect, DP!OneAccount, DP!NobodyStranded, InstancesOK,
     SamePhones DEF InstancesOK
<1>2. DP!TypeOK /\ DP!OneAccountPerNumber /\ DP!NoStrandedUser
        => (part = "phones" => D!TypeOK /\ D!OneAccountPerNumber /\
                      D!NoStrandedUser)
  BY SamePhones
<1> QED
  BY PhonesRun, <1>1, <1>2, PTL

\* Sign-ups racing by one number end in one account (resolveUser).
THEOREM NumbersHaveOneAccount == Spec => []OneAccountPerNumber
BY PhonesKeep, PTL DEF OneAccountPerNumber

\* No account is left without a way in when an anchor is refused
\* (resolveUser).
THEOREM NobodyIsStranded == Spec => []NoStrandedUser
BY PhonesKeep, PTL DEF NoStrandedUser

LEMMA SameExchanges ==
  /\ (I!Init <=> DP!D!Init)
  /\ (I!Next <=> DP!D!Next)
  /\ I!vars = DP!D!vars
  /\ (I!TypeOK <=> DP!D!TypeOK)
  /\ (I!DelegationsEntitled <=> DP!D!DelegationsEntitled)
  /\ (I!ConstantsOK <=> DP!D!ConstantsOK)
BY Zenon DEF
  I!ConstantsOK, DP!D!ConstantsOK, I!vars, DP!D!vars, I!Registries,
  DP!D!Registries, I!Keyring, DP!D!Keyring, I!Redeemed, DP!D!Redeemed,
  I!Entry, DP!D!Entry, I!NoEntry, DP!D!NoEntry, I!NoKey, DP!D!NoKey, I!Made,
  DP!D!Made, I!Kinds, DP!D!Kinds, I!Assertion, DP!D!Assertion, I!Declarable,
  DP!D!Declarable, I!Exchange, DP!D!Exchange, I!Redemption, DP!D!Redemption,
  I!Handler, DP!D!Handler, I!Idle, DP!D!Idle, I!Busy, DP!D!Busy, I!Go,
  DP!D!Go, I!Answer, DP!D!Answer, I!At, DP!D!At, I!Goto, DP!D!Goto, I!Calm,
  DP!D!Calm, I!Trouble, DP!D!Trouble, I!Arrive, DP!D!Arrive, I!Verifies,
  DP!D!Verifies, I!SameClient, DP!D!SameClient, I!Offered, DP!D!Offered,
  I!TokenExchange, DP!D!TokenExchange, I!NotDenied, DP!D!NotDenied,
  I!GetTokenByHash, DP!D!GetTokenByHash, I!ScopesOk, DP!D!ScopesOk,
  I!GrantedScopes, DP!D!GrantedScopes, I!Enabled, DP!D!Enabled,
  I!AuthorizedMCPServer, DP!D!AuthorizedMCPServer, I!Sign, DP!D!Sign,
  I!SignTyped, DP!D!SignTyped, I!Foreign, DP!D!Foreign, I!RotateKey,
  DP!D!RotateKey, I!JWTBearer, DP!D!JWTBearer, I!Trusts, DP!D!Trusts,
  I!TrustedIDP, DP!D!TrustedIDP, I!Fetch, DP!D!Fetch, I!Keys, DP!D!Keys,
  I!Refetch, DP!D!Refetch, I!Valid, DP!D!Valid, I!MeantFor, DP!D!MeantFor,
  I!Check, DP!D!Check, I!Swept, DP!D!Swept, I!NarrowOk, DP!D!NarrowOk,
  I!Narrowed, DP!D!Narrowed, I!IntersectScopes, DP!D!IntersectScopes,
  I!RedeemIDJAGJTI, DP!D!RedeemIDJAGJTI, I!CreateSession, DP!D!CreateSession,
  I!PutToken, DP!D!PutToken, I!Fails, DP!D!Fails, I!Edit, DP!D!Edit, I!Noted,
  DP!D!Noted, I!Created, DP!D!Created, I!Toggled, DP!D!Toggled, I!Deleted,
  DP!D!Deleted, I!EditServers, DP!D!EditServers, I!CreateMCPServer,
  DP!D!CreateMCPServer, I!ToggleMCPServer, DP!D!ToggleMCPServer,
  I!DeleteMCPServer, DP!D!DeleteMCPServer, I!EditIDPs, DP!D!EditIDPs,
  I!CreateTrustedIDP, DP!D!CreateTrustedIDP, I!ToggleTrustedIDP,
  DP!D!ToggleTrustedIDP, I!DeleteTrustedIDP, DP!D!DeleteTrustedIDP,
  I!RevokeSubject, DP!D!RevokeSubject, I!SubjectLapses, DP!D!SubjectLapses,
  I!Tick, DP!D!Tick, I!Restart, DP!D!Restart, I!Init, DP!D!Init, I!Step,
  DP!D!Step, I!Next, DP!D!Next, I!TypeOK, DP!D!TypeOK, I!New, DP!D!New,
  I!SignedBy, DP!D!SignedBy, I!DelegationsEntitled, DP!D!DelegationsEntitled,
  I!Cardinality, DP!D!Cardinality

LEMMA ExchangesRun ==
  Spec => []~(part = "exchanges") \/ ([](part = "exchanges") /\ DP!D!Spec)
<1>1. Init => ~(part = "exchanges") \/ (part = "exchanges" /\ DP!D!Init)
  BY SameExchanges DEF Init
<1>2. part = "exchanges" /\ [Next]_vars => (part = "exchanges")' /\
              [DP!D!Next]_DP!D!vars
  BY SameExchanges DEF Next, vars, DP!D!vars
<1>3. ~(part = "exchanges") /\ [Next]_vars => (~(part = "exchanges"))'
  BY PartStays
<1> QED
  BY <1>1, <1>2, <1>3, PTL DEF Spec, DP!D!Spec

LEMMA ExchangesKeep ==
  Spec => /\ [](part = "exchanges" => I!TypeOK)
          /\ [][part = "exchanges" => I!DelegationsEntitled]_vars
<1>1. /\ (DP!D!Spec => []DP!D!TypeOK)
      /\ (DP!D!Spec => [][DP!D!DelegationsEntitled]_DP!D!vars)
  BY DP!DTypeCorrect, DP!Entitled, InstancesOK, SameExchanges DEF InstancesOK
<1>2. part = "exchanges" /\ [Next]_vars /\ [DP!D!DelegationsEntitled]_DP!D!vars
        => [part = "exchanges" => I!DelegationsEntitled]_vars
  BY SameExchanges DEF Next, vars, DP!D!vars, Beyond14
<1>3. DP!D!TypeOK
        => (part = "exchanges" => I!TypeOK)
  BY SameExchanges
<1> QED
  BY ExchangesRun, <1>1, <1>2, <1>3, PTL
     DEF Spec

\* Whatever is edited or revoked meanwhile, an identity assertion is for the
\* client of its token, a server and scopes offered at some moment of the
\* request; a token declared as an access token is one, and stood when the
\* request began (handleTokenExchange).
THEOREM AssertionsEntitled == Spec => DelegationsEntitled
BY ExchangesKeep, RedeemsKeep, PTL DEF DelegationsEntitled

LEMMA SameProofs ==
  /\ (V!Init <=> DP!V!Init)
  /\ (V!Next <=> DP!V!Next)
  /\ V!vars = DP!V!vars
  /\ (V!TypeOK <=> DP!V!TypeOK)
  /\ (V!ProofsBacked <=> DP!V!ProofsBacked)
  /\ (V!OutcomeKept <=> DP!V!OutcomeKept)
  /\ (V!ConstantsOK <=> DP!V!ConstantsOK)
BY Zenon DEF
  V!ConstantsOK, DP!V!ConstantsOK, V!vars, DP!V!vars, V!Authn, DP!V!Authn,
  V!Ids, DP!V!Ids, V!Settled, DP!V!Settled, V!Gone, DP!V!Gone, V!NoProof,
  DP!V!NoProof, V!NoKey, DP!V!NoKey, V!Kinds, DP!V!Kinds, V!Answers,
  DP!V!Answers, V!Proof, DP!V!Proof, V!Row, DP!V!Row, V!Submission,
  DP!V!Submission, V!Polling, DP!V!Polling, V!Handler, DP!V!Handler, V!Idle,
  DP!V!Idle, V!Busy, DP!V!Busy, V!Go, DP!V!Go, V!Answer, DP!V!Answer, V!At,
  DP!V!At, V!Calm, DP!V!Calm, V!Mixed, DP!V!Mixed, V!Trouble, DP!V!Trouble,
  V!Overlapping, DP!V!Overlapping, V!Arrive, DP!V!Arrive,
  V!CreateVerification, DP!V!CreateVerification, V!GetByToken,
  DP!V!GetByToken, V!OID4VPRequest, DP!V!OID4VPRequest, V!ChainOk,
  DP!V!ChainOk, V!DeviceOk, DP!V!DeviceOk, V!VerifyDeviceResponse,
  DP!V!VerifyDeviceResponse, V!MintProof, DP!V!MintProof, V!SubmitResponse,
  DP!V!SubmitResponse, V!Updated, DP!V!Updated, V!Update, DP!V!Update,
  V!PurgeExpired, DP!V!PurgeExpired, V!Poll, DP!V!Poll, V!Fetch, DP!V!Fetch,
  V!Keys, DP!V!Keys, V!Refetch, DP!V!Refetch, V!Valid, DP!V!Valid, V!MeantFor,
  DP!V!MeantFor, V!VerifyProof, DP!V!VerifyProof, V!FetchFails,
  DP!V!FetchFails, V!RestartId, DP!V!RestartId, V!RestartAuthn,
  DP!V!RestartAuthn, V!Tick, DP!V!Tick, V!Init, DP!V!Init, V!Sent, DP!V!Sent,
  V!Resting, DP!V!Resting, V!Pending, DP!V!Pending, V!Next, DP!V!Next,
  V!TypeOK, DP!V!TypeOK, V!OutcomeKept, DP!V!OutcomeKept, V!ProofsBacked,
  DP!V!ProofsBacked, V!Cardinality, DP!V!Cardinality

LEMMA ProofsRun ==
  Spec => []~(part = "proofs") \/ ([](part = "proofs") /\ DP!V!Spec)
<1>1. Init => ~(part = "proofs") \/ (part = "proofs" /\ DP!V!Init)
  BY SameProofs DEF Init
<1>2. part = "proofs" /\ [Next]_vars => (part = "proofs")' /\
              [DP!V!Next]_DP!V!vars
  BY SameProofs DEF Next, vars, DP!V!vars
<1>3. ~(part = "proofs") /\ [Next]_vars => (~(part = "proofs"))'
  BY PartStays
<1> QED
  BY <1>1, <1>2, <1>3, PTL DEF Spec, DP!V!Spec

LEMMA ProofsKeep ==
  Spec => /\ [](part = "proofs" => V!TypeOK /\ V!ProofsBacked)
          /\ [][part = "proofs" => V!OutcomeKept]_vars
<1>1. /\ (DP!V!Spec => []DP!V!TypeOK)
      /\ (DP!V!Spec => DP!ProofsStand)
  BY DP!VTypeCorrect, DP!Proven, InstancesOK, SameProofs DEF InstancesOK
<1>2. part = "proofs" /\ [Next]_vars /\ [DP!V!OutcomeKept]_DP!V!vars
        => [part = "proofs" => V!OutcomeKept]_vars
  BY SameProofs DEF Next, vars, DP!V!vars, Beyond8
<1>3. DP!V!TypeOK /\ DP!V!ProofsBacked
        => (part = "proofs" => V!TypeOK /\ V!ProofsBacked)
  BY SameProofs
<1> QED
  BY ProofsRun, <1>1, <1>2, <1>3, PTL
     DEF Spec, DP!ProofsStand

\* The outcome of an identity verification is final, and a proof accepted for
\* a workspace is one a wallet gave for its request (SubmitResponse,
\* HTTPMDLProofVerifier).
THEOREM VerificationsStand == Spec => ProofsStand
BY ProofsKeep, PTL DEF ProofsStand

-----------------------------------------------------------------------------
OP == INSTANCE WorkspacesProofs WITH
  AdminEmails <- {}, app <- v6, client <- v3, ClientIds <- {}, demand <- v12,
  developer <- v9, DevTenant <- "ten_dev", Emails <- {e1, e2},
  EndUsers <- {}, exchanged <- v15, flow <- v4, Founded <- {t1, t2},
  Founder <- e1, MaxMade <- 0, MaxMishaps <- 1, MaxSecrets <- 0,
  mishaps <- v8, nextFlow <- v5, nextMade <- v7, nextSecret <- v8,
  Nobody <- none, NumFlows <- 2, NumSessions <- 3, OEmails <- {e1},
  OMaxMishaps <- 1, Ops <- {"create", "save", "enable", "disable", "delete"},
  ORequests <- {r1, r2}, OTenants <- {t1, t2}, owner <- v1, picking <- v5,
  remembered <- v10, request <- v7, Requests <- {r1}, RootEmails <- {e2},
  session <- v4, Settings <- {}, settings <- v2, shown <- v14, staff <- v6,
  States <- {}, tenant <- v1, Tenants <- {t1, t2}, trip <- v11,
  trouble <- v13, TypeNames <- {}, types <- v3, Uris <- {}, user <- v2

LEMMA SameOwners ==
  /\ (O!Init <=> OP!Init)
  /\ (O!Next <=> OP!Next)
  /\ O!vars = OP!vars
  /\ (O!TypeOK <=> OP!TypeOK)
  /\ (O!SignedUpWhole <=> OP!SignedUpWhole)
  /\ (O!PickBuysOne <=> OP!PickBuysOne)
  /\ (O!RegistryEntitled <=> OP!RegistryEntitled)
  /\ (O!SessionsEntitled <=> OP!SessionsEntitled)
  /\ (O!DeactivationSticks <=> OP!DeactivationSticks)
  /\ (O!ConstantsOK <=> OP!ConstantsOK)
BY Zenon DEF
  O!Staging, OP!Staging, O!Roles, OP!Roles, O!OwnerOps, OP!OwnerOps,
  O!StaffOps, OP!StaffOps, O!SignInOps, OP!SignInOps, O!Kinds, OP!Kinds,
  O!ConstantsOK, OP!ConstantsOK, O!vars, OP!vars, O!Registry, OP!Registry,
  O!Rows, OP!Rows, O!NoTenant, OP!NoTenant, O!NoStaff, OP!NoStaff, O!Sessions,
  OP!Sessions, O!Session, OP!Session, O!Handler, OP!Handler, O!Idle, OP!Idle,
  O!Busy, OP!Busy, O!Go, OP!Go, O!Answer, OP!Answer, O!At, OP!At, O!Goto,
  OP!Goto, O!Calm, OP!Calm, O!Trouble, OP!Trouble, O!Overlaps, OP!Overlaps,
  O!Owned, OP!Owned, O!IsAllowed, OP!IsAllowed, O!IsAdmin, OP!IsAdmin,
  O!Minting, OP!Minting, O!Room, OP!Room, O!GoogleLeg, OP!GoogleLeg, O!Arrive,
  OP!Arrive, O!SignupCallback, OP!SignupCallback, O!OwnerCallback,
  OP!OwnerCallback, O!OwnerSelect, OP!OwnerSelect, O!OwnerRequest,
  OP!OwnerRequest, O!OwnsWorkspace, OP!OwnsWorkspace, O!CurrentOwner,
  OP!CurrentOwner, O!IsWorkspaceOwner, OP!IsWorkspaceOwner, O!InWorkspace,
  OP!InWorkspace, O!FindSession, OP!FindSession, O!Dropped, OP!Dropped,
  O!DropSession, OP!DropSession, O!SignupOwned, OP!SignupOwned, O!SigninOwned,
  OP!SigninOwned, O!SlugFree, OP!SlugFree, O!Entitle, OP!Entitle,
  O!Provisionable, OP!Provisionable, O!ProvisionTenant, OP!ProvisionTenant,
  O!ProvisionFails, OP!ProvisionFails, O!GetUserByEmail, OP!GetUserByEmail,
  O!FindUser, OP!FindUser, O!CreateUser, OP!CreateUser, O!MintOwnerSession,
  OP!MintOwnerSession, O!MintFails, OP!MintFails, O!StaffCallback,
  OP!StaffCallback, O!StaffLogout, OP!StaffLogout, O!StaffRequest,
  OP!StaffRequest, O!StaffActive, OP!StaffActive, O!HasPermission,
  OP!HasPermission, O!StaffRoles, OP!StaffRoles, O!SetTenantOwner,
  OP!SetTenantOwner, O!AssignFails, OP!AssignFails, O!Ensured, OP!Ensured,
  O!Booted, OP!Booted, O!Restart, OP!Restart, O!Demote, OP!Demote,
  O!StripRole, OP!StripRole, O!Lapse, OP!Lapse, O!Step, OP!Step, O!Begin,
  OP!Begin, O!Init, OP!Init, O!Next, OP!Next, O!TypeOK, OP!TypeOK,
  O!RegistryEntitled, OP!RegistryEntitled, O!SessionsEntitled,
  OP!SessionsEntitled, O!DeactivationSticks, OP!DeactivationSticks,
  O!SignedUpWhole, OP!SignedUpWhole, O!PickBuysOne, OP!PickBuysOne,
  O!Cardinality, OP!Cardinality, O!IsFiniteSet, OP!IsFiniteSet

LEMMA OwnersRun ==
  Spec => []~(part = "owners") \/ ([](part = "owners") /\ OP!Spec)
<1>1. Init => ~(part = "owners") \/ (part = "owners" /\ OP!Init)
  BY SameOwners DEF Init
<1>2. part = "owners" /\ [Next]_vars => (part = "owners")' /\ [OP!Next]_OP!vars
  BY SameOwners DEF Next, vars, OP!vars
<1>3. ~(part = "owners") /\ [Next]_vars => (~(part = "owners"))'
  BY PartStays
<1> QED
  BY <1>1, <1>2, <1>3, PTL DEF Spec, OP!Spec

LEMMA OwnersKeep ==
  Spec => /\ [](part = "owners" => O!TypeOK /\ O!SignedUpWhole /\
                O!PickBuysOne)
          /\ [][part = "owners" => O!RegistryEntitled /\
                        O!SessionsEntitled /\ O!DeactivationSticks]_vars
<1>1. OP!WInv => OP!TypeOK
  BY DEF OP!WInv
<1>2. /\ (OP!Spec => []OP!WInv)
      /\ (OP!Spec => []OP!SignedUpWhole)
      /\ (OP!Spec => []OP!PickBuysOne)
      /\ (OP!Spec => [][OP!RegistryEntitled]_OP!vars)
      /\ (OP!Spec => [][OP!SessionsEntitled]_OP!vars)
      /\ (OP!Spec => [][OP!DeactivationSticks]_OP!vars)
  BY OP!WorkspacesInvariant, OP!WorkspacesWhole, OP!PicksBuyOne,
     OP!WorkspacesChangeHands, OP!SessionsOfTheEntitled,
     OP!StaffStayDeactivated, InstancesOK, SameOwners DEF InstancesOK
<1>3. part = "owners" /\ [Next]_vars /\ [OP!RegistryEntitled]_OP!vars /\
              [OP!SessionsEntitled]_OP!vars /\ [OP!DeactivationSticks]_OP!vars
        => [part = "owners" => O!RegistryEntitled /\ O!SessionsEntitled /\
                      O!DeactivationSticks]_vars
  BY SameOwners DEF Next, vars, OP!vars, Beyond8
<1>4. OP!TypeOK /\ OP!SignedUpWhole /\ OP!PickBuysOne
        => (part = "owners" => O!TypeOK /\ O!SignedUpWhole /\ O!PickBuysOne)
  BY SameOwners
<1> QED
  BY OwnersRun, <1>1, <1>2, <1>3, <1>4, PTL
     DEF Spec

LEMMA SameJourneys ==
  /\ (L!Init <=> OP!O!Init)
  /\ (L!Next <=> OP!O!Next)
  /\ L!vars = OP!O!vars
  /\ (L!TypeOK <=> OP!O!TypeOK)
  /\ (L!OneEnabledFlow <=> OP!O!OneEnabledFlow)
  /\ (L!RowsEntitled <=> OP!O!RowsEntitled)
  /\ (L!ConstantsOK <=> OP!O!ConstantsOK)
BY Zenon DEF
  L!ClientOps, OP!O!ClientOps, L!FlowOps, OP!O!FlowOps, L!RowOps, OP!O!RowOps,
  L!FlowIds, OP!O!FlowIds, L!Kinds, OP!O!Kinds, L!ConstantsOK,
  OP!O!ConstantsOK, L!vars, OP!O!vars, L!Workspace, OP!O!Workspace, L!Clients,
  OP!O!Clients, L!Developers, OP!O!Developers, L!AllTenants, OP!O!AllTenants,
  L!Client, OP!O!Client, L!NoClient, OP!O!NoClient, L!Flow, OP!O!Flow,
  L!NoFlow, OP!O!NoFlow, L!Handler, OP!O!Handler, L!Idle, OP!O!Idle, L!Busy,
  OP!O!Busy, L!Go, OP!O!Go, L!Answer, OP!O!Answer, L!At, OP!O!At, L!Goto,
  OP!O!Goto, L!Calm, OP!O!Calm, L!Trouble, OP!O!Trouble, L!Overlaps,
  OP!O!Overlaps, L!Heard, OP!O!Heard, L!Unheard, OP!O!Unheard, L!OwnerRequest,
  OP!O!OwnerRequest, L!Owns, OP!O!Owns, L!CurrentOwner, OP!O!CurrentOwner,
  L!TenantClients, OP!O!TenantClients, L!Newest, OP!O!Newest, L!TenantClient,
  OP!O!TenantClient, L!Edited, OP!O!Edited, L!RegenerateSecret,
  OP!O!RegenerateSecret, L!UpdateClient, OP!O!UpdateClient, L!SetTenant,
  OP!O!SetTenant, L!EditSettings, OP!O!EditSettings, L!PutType, OP!O!PutType,
  L!EditTypes, OP!O!EditTypes, L!NewFlow, OP!O!NewFlow, L!OfTenant,
  OP!O!OfTenant, L!Enabling, OP!O!Enabling, L!GetFlow, OP!O!GetFlow,
  L!Upserted, OP!O!Upserted, L!UpsertFlow, OP!O!UpsertFlow, L!DeleteFlow,
  OP!O!DeleteFlow, L!StaffRegisterClient, OP!O!StaffRegisterClient,
  L!StaffDeleteClient, OP!O!StaffDeleteClient, L!Reassign, OP!O!Reassign,
  L!DevSignIn, OP!O!DevSignIn, L!DevLogout, OP!O!DevLogout, L!DevRegister,
  OP!O!DevRegister, L!IdFree, OP!O!IdFree, L!DevLookup, OP!O!DevLookup,
  L!DevPut, OP!O!DevPut, L!StartOIDC, OP!O!StartOIDC, L!TakeOIDCFlow,
  OP!O!TakeOIDCFlow, L!OIDCCallback, OP!O!OIDCCallback, L!ExchangeCode,
  OP!O!ExchangeCode, L!TripLapses, OP!O!TripLapses, L!Restart, OP!O!Restart,
  L!Args, OP!O!Args, L!Ids, OP!O!Ids, L!Init, OP!O!Init, L!Step, OP!O!Step,
  L!Next, OP!O!Next, L!TypeOK, OP!O!TypeOK, L!Acting, OP!O!Acting,
  L!RowsEntitled, OP!O!RowsEntitled, L!OneEnabledFlow, OP!O!OneEnabledFlow,
  L!Cardinality, OP!O!Cardinality

LEMMA JourneysRun ==
  Spec => []~(part = "journeys") \/ ([](part = "journeys") /\ OP!O!Spec)
<1>1. Init => ~(part = "journeys") \/ (part = "journeys" /\ OP!O!Init)
  BY SameJourneys DEF Init
<1>2. part = "journeys" /\ [Next]_vars => (part = "journeys")' /\
              [OP!O!Next]_OP!O!vars
  BY SameJourneys DEF Next, vars, OP!O!vars
<1>3. ~(part = "journeys") /\ [Next]_vars => (~(part = "journeys"))'
  BY PartStays
<1> QED
  BY <1>1, <1>2, <1>3, PTL DEF Spec, OP!O!Spec

LEMMA JourneysKeep ==
  Spec => /\ [](part = "journeys" => L!TypeOK /\ L!OneEnabledFlow)
          /\ [][part = "journeys" => L!RowsEntitled]_vars
<1>1. OP!CInv => OP!O!TypeOK
  BY DEF OP!CInv
<1>2. /\ (OP!O!Spec => []OP!CInv)
      /\ (OP!O!Spec => []OP!O!OneEnabledFlow)
      /\ (OP!O!Spec => [][OP!O!RowsEntitled]_OP!O!vars)
  BY OP!ConsolesInvariant, OP!FlowsOneEnabled, OP!RowsOfTheEntitled,
     InstancesOK, SameJourneys DEF InstancesOK
<1>3. part = "journeys" /\ [Next]_vars /\ [OP!O!RowsEntitled]_OP!O!vars
        => [part = "journeys" => L!RowsEntitled]_vars
  BY SameJourneys DEF Next, vars, OP!O!vars, Beyond15
<1>4. OP!O!TypeOK /\ OP!O!OneEnabledFlow
        => (part = "journeys" => L!TypeOK /\ L!OneEnabledFlow)
  BY SameJourneys
<1> QED
  BY JourneysRun, <1>1, <1>2, <1>3, <1>4, PTL
     DEF Spec

-----------------------------------------------------------------------------
WP == INSTANCE WorkspacesProofs WITH
  AdminEmails <- {e1}, app <- v6, client <- v3, ClientIds <- {c1},
  demand <- v12, developer <- v9, DevTenant <- "ten_dev", Emails <- {e1, e2},
  EndUsers <- {<<t1, e1>>}, exchanged <- v15, flow <- v4, Founded <- {},
  Founder <- e1, MaxMade <- 2, MaxMishaps <- 1, MaxSecrets <- 2,
  mishaps <- v8, nextFlow <- v5, nextMade <- v7, nextSecret <- v8,
  Nobody <- none, NumFlows <- 0, NumSessions <- 3, OEmails <- {e1, e2},
  OMaxMishaps <- 1, Ops <- {"secret", "uris"}, ORequests <- {r1, r2},
  OTenants <- {t1}, owner <- v1, picking <- v5, remembered <- v10,
  request <- v7, Requests <- {r1, r2}, RootEmails <- {}, session <- v4,
  Settings <- {}, settings <- v2, shown <- v14, staff <- v6, States <- {},
  tenant <- v1, Tenants <- {t1}, trip <- v11, trouble <- v13,
  TypeNames <- {}, types <- v3, Uris <- {"u"}, user <- v2

LEMMA SameSignups ==
  /\ (W!Init <=> WP!Init)
  /\ (W!Next <=> WP!Next)
  /\ W!vars = WP!vars
  /\ (W!TypeOK <=> WP!TypeOK)
  /\ (W!SignedUpWhole <=> WP!SignedUpWhole)
  /\ (W!RegistryEntitled <=> WP!RegistryEntitled)
  /\ (W!SessionsEntitled <=> WP!SessionsEntitled)
  /\ (W!DeactivationSticks <=> WP!DeactivationSticks)
  /\ (W!ConstantsOK <=> WP!ConstantsOK)
BY Zenon DEF
  W!Staging, WP!Staging, W!Roles, WP!Roles, W!OwnerOps, WP!OwnerOps,
  W!StaffOps, WP!StaffOps, W!SignInOps, WP!SignInOps, W!Kinds, WP!Kinds,
  W!ConstantsOK, WP!ConstantsOK, W!vars, WP!vars, W!Registry, WP!Registry,
  W!Rows, WP!Rows, W!NoTenant, WP!NoTenant, W!NoStaff, WP!NoStaff, W!Sessions,
  WP!Sessions, W!Session, WP!Session, W!Handler, WP!Handler, W!Idle, WP!Idle,
  W!Busy, WP!Busy, W!Go, WP!Go, W!Answer, WP!Answer, W!At, WP!At, W!Goto,
  WP!Goto, W!Calm, WP!Calm, W!Trouble, WP!Trouble, W!Overlaps, WP!Overlaps,
  W!Owned, WP!Owned, W!IsAllowed, WP!IsAllowed, W!IsAdmin, WP!IsAdmin,
  W!Minting, WP!Minting, W!Room, WP!Room, W!GoogleLeg, WP!GoogleLeg, W!Arrive,
  WP!Arrive, W!SignupCallback, WP!SignupCallback, W!OwnerCallback,
  WP!OwnerCallback, W!OwnerSelect, WP!OwnerSelect, W!OwnerRequest,
  WP!OwnerRequest, W!OwnsWorkspace, WP!OwnsWorkspace, W!CurrentOwner,
  WP!CurrentOwner, W!IsWorkspaceOwner, WP!IsWorkspaceOwner, W!InWorkspace,
  WP!InWorkspace, W!FindSession, WP!FindSession, W!Dropped, WP!Dropped,
  W!DropSession, WP!DropSession, W!SignupOwned, WP!SignupOwned, W!SigninOwned,
  WP!SigninOwned, W!SlugFree, WP!SlugFree, W!Entitle, WP!Entitle,
  W!Provisionable, WP!Provisionable, W!ProvisionTenant, WP!ProvisionTenant,
  W!ProvisionFails, WP!ProvisionFails, W!GetUserByEmail, WP!GetUserByEmail,
  W!FindUser, WP!FindUser, W!CreateUser, WP!CreateUser, W!MintOwnerSession,
  WP!MintOwnerSession, W!MintFails, WP!MintFails, W!StaffCallback,
  WP!StaffCallback, W!StaffLogout, WP!StaffLogout, W!StaffRequest,
  WP!StaffRequest, W!StaffActive, WP!StaffActive, W!HasPermission,
  WP!HasPermission, W!StaffRoles, WP!StaffRoles, W!SetTenantOwner,
  WP!SetTenantOwner, W!AssignFails, WP!AssignFails, W!Ensured, WP!Ensured,
  W!Booted, WP!Booted, W!Restart, WP!Restart, W!Demote, WP!Demote,
  W!StripRole, WP!StripRole, W!Lapse, WP!Lapse, W!Step, WP!Step, W!Begin,
  WP!Begin, W!Init, WP!Init, W!Next, WP!Next, W!TypeOK, WP!TypeOK,
  W!RegistryEntitled, WP!RegistryEntitled, W!SessionsEntitled,
  WP!SessionsEntitled, W!DeactivationSticks, WP!DeactivationSticks,
  W!SignedUpWhole, WP!SignedUpWhole, W!Cardinality, WP!Cardinality,
  W!IsFiniteSet, WP!IsFiniteSet

LEMMA SignupsRun ==
  Spec => []~(part = "signups") \/ ([](part = "signups") /\ WP!Spec)
<1>1. Init => ~(part = "signups") \/ (part = "signups" /\ WP!Init)
  BY SameSignups DEF Init
<1>2. part = "signups" /\ [Next]_vars => (part = "signups")' /\
              [WP!Next]_WP!vars
  BY SameSignups DEF Next, vars, WP!vars
<1>3. ~(part = "signups") /\ [Next]_vars => (~(part = "signups"))'
  BY PartStays
<1> QED
  BY <1>1, <1>2, <1>3, PTL DEF Spec, WP!Spec

LEMMA SignupsKeep ==
  Spec => /\ [](part = "signups" => W!TypeOK /\ W!SignedUpWhole)
          /\ [][part = "signups" => W!RegistryEntitled /\
                        W!SessionsEntitled /\ W!DeactivationSticks]_vars
<1>1. WP!WInv => WP!TypeOK
  BY DEF WP!WInv
<1>2. /\ (WP!Spec => []WP!WInv)
      /\ (WP!Spec => []WP!SignedUpWhole)
      /\ (WP!Spec => [][WP!RegistryEntitled]_WP!vars)
      /\ (WP!Spec => [][WP!SessionsEntitled]_WP!vars)
      /\ (WP!Spec => [][WP!DeactivationSticks]_WP!vars)
  BY WP!WorkspacesInvariant, WP!WorkspacesWhole, WP!WorkspacesChangeHands,
     WP!SessionsOfTheEntitled, WP!StaffStayDeactivated, InstancesOK,
     SameSignups DEF InstancesOK
<1>3. part = "signups" /\ [Next]_vars /\ [WP!RegistryEntitled]_WP!vars /\
              [WP!SessionsEntitled]_WP!vars /\ [WP!DeactivationSticks]_WP!vars
        => [part = "signups" => W!RegistryEntitled /\ W!SessionsEntitled /\
                      W!DeactivationSticks]_vars
  BY SameSignups DEF Next, vars, WP!vars, Beyond8
<1>4. WP!TypeOK /\ WP!SignedUpWhole
        => (part = "signups" => W!TypeOK /\ W!SignedUpWhole)
  BY SameSignups
<1> QED
  BY SignupsRun, <1>1, <1>2, <1>3, <1>4, PTL
     DEF Spec

LEMMA SameClients ==
  /\ (K!Init <=> WP!O!Init)
  /\ (K!Next <=> WP!O!Next)
  /\ K!vars = WP!O!vars
  /\ (K!TypeOK <=> WP!O!TypeOK)
  /\ (K!LastShownOpens <=> WP!O!LastShownOpens)
  /\ (K!ClientsEntitled <=> WP!O!ClientsEntitled)
  /\ (K!ConstantsOK <=> WP!O!ConstantsOK)
BY Zenon DEF
  K!ClientOps, WP!O!ClientOps, K!FlowOps, WP!O!FlowOps, K!RowOps, WP!O!RowOps,
  K!FlowIds, WP!O!FlowIds, K!Kinds, WP!O!Kinds, K!ConstantsOK,
  WP!O!ConstantsOK, K!vars, WP!O!vars, K!Workspace, WP!O!Workspace, K!Clients,
  WP!O!Clients, K!Developers, WP!O!Developers, K!AllTenants, WP!O!AllTenants,
  K!Client, WP!O!Client, K!NoClient, WP!O!NoClient, K!Flow, WP!O!Flow,
  K!NoFlow, WP!O!NoFlow, K!Handler, WP!O!Handler, K!Idle, WP!O!Idle, K!Busy,
  WP!O!Busy, K!Go, WP!O!Go, K!Answer, WP!O!Answer, K!At, WP!O!At, K!Goto,
  WP!O!Goto, K!Does, WP!O!Does, K!Calm, WP!O!Calm, K!Trouble, WP!O!Trouble,
  K!Overlaps, WP!O!Overlaps, K!Heard, WP!O!Heard, K!Unheard, WP!O!Unheard,
  K!OwnerRequest, WP!O!OwnerRequest, K!Owns, WP!O!Owns, K!CurrentOwner,
  WP!O!CurrentOwner, K!TenantClients, WP!O!TenantClients, K!Newest,
  WP!O!Newest, K!TenantClient, WP!O!TenantClient, K!Edited, WP!O!Edited,
  K!RegenerateSecret, WP!O!RegenerateSecret, K!UpdateClient,
  WP!O!UpdateClient, K!SetTenant, WP!O!SetTenant, K!EditSettings,
  WP!O!EditSettings, K!PutType, WP!O!PutType, K!EditTypes, WP!O!EditTypes,
  K!NewFlow, WP!O!NewFlow, K!OfTenant, WP!O!OfTenant, K!Enabling,
  WP!O!Enabling, K!GetFlow, WP!O!GetFlow, K!Upserted, WP!O!Upserted,
  K!UpsertFlow, WP!O!UpsertFlow, K!DeleteFlow, WP!O!DeleteFlow,
  K!StaffRegisterClient, WP!O!StaffRegisterClient, K!StaffDeleteClient,
  WP!O!StaffDeleteClient, K!Reassign, WP!O!Reassign, K!DevSignIn,
  WP!O!DevSignIn, K!DevLogout, WP!O!DevLogout, K!DevRegister,
  WP!O!DevRegister, K!IdFree, WP!O!IdFree, K!DevLookup, WP!O!DevLookup,
  K!DevPut, WP!O!DevPut, K!StartOIDC, WP!O!StartOIDC, K!TakeOIDCFlow,
  WP!O!TakeOIDCFlow, K!OIDCCallback, WP!O!OIDCCallback, K!ExchangeCode,
  WP!O!ExchangeCode, K!TripLapses, WP!O!TripLapses, K!Restart, WP!O!Restart,
  K!Args, WP!O!Args, K!Ids, WP!O!Ids, K!Init, WP!O!Init, K!Step, WP!O!Step,
  K!Next, WP!O!Next, K!TypeOK, WP!O!TypeOK, K!Acting, WP!O!Acting,
  K!ClientsEntitled, WP!O!ClientsEntitled, K!LastShownOpens,
  WP!O!LastShownOpens, K!Cardinality, WP!O!Cardinality

LEMMA ClientsRun ==
  Spec => []~(part = "clients") \/ ([](part = "clients") /\ WP!O!Spec)
<1>1. Init => ~(part = "clients") \/ (part = "clients" /\ WP!O!Init)
  BY SameClients DEF Init
<1>2. part = "clients" /\ [Next]_vars => (part = "clients")' /\
              [WP!O!Next]_WP!O!vars
  BY SameClients DEF Next, vars, WP!O!vars
<1>3. ~(part = "clients") /\ [Next]_vars => (~(part = "clients"))'
  BY PartStays
<1> QED
  BY <1>1, <1>2, <1>3, PTL DEF Spec, WP!O!Spec

LEMMA ClientsKeep ==
  Spec => /\ [](part = "clients" => K!TypeOK /\ K!LastShownOpens)
          /\ [][part = "clients" => K!ClientsEntitled]_vars
<1>1. WP!CInv => WP!O!TypeOK
  BY DEF WP!CInv
<1>2. /\ (WP!O!Spec => []WP!CInv)
      /\ (WP!O!Spec => []WP!O!LastShownOpens)
      /\ (WP!O!Spec => [][WP!O!ClientsEntitled]_WP!O!vars)
  BY WP!ConsolesInvariant, WP!ShownSecretsOpen, WP!ClientsOfTheEntitled,
     InstancesOK, SameClients DEF InstancesOK
<1>3. part = "clients" /\ [Next]_vars /\ [WP!O!ClientsEntitled]_WP!O!vars
        => [part = "clients" => K!ClientsEntitled]_vars
  BY SameClients DEF Next, vars, WP!O!vars, Beyond15
<1>4. WP!O!TypeOK /\ WP!O!LastShownOpens
        => (part = "clients" => K!TypeOK /\ K!LastShownOpens)
  BY SameClients
<1> QED
  BY ClientsRun, <1>1, <1>2, <1>3, <1>4, PTL
     DEF Spec

-----------------------------------------------------------------------------
MP == INSTANCE WorkspacesProofs WITH
  AdminEmails <- {}, app <- v6, client <- v3, ClientIds <- {c1},
  demand <- v12, developer <- v9, DevTenant <- "ten_dev", Emails <- {e1, e2},
  EndUsers <- {}, exchanged <- v15, flow <- v4, Founded <- {t1, t2},
  Founder <- e1, MaxMade <- 1, MaxMishaps <- 1, MaxSecrets <- 0,
  mishaps <- v8, nextFlow <- v5, nextMade <- v7, nextSecret <- v8,
  Nobody <- none, NumFlows <- 0, NumSessions <- 3, OEmails <- {e1, e2},
  OMaxMishaps <- 1, Ops <- {"set", "clear", "define", "undefine"},
  ORequests <- {r1, r2}, OTenants <- {t1}, owner <- v1, picking <- v5,
  remembered <- v10, request <- v7, Requests <- {r1}, RootEmails <- {e2},
  session <- v4, Settings <- {"fido"}, settings <- v2, shown <- v14,
  staff <- v6, States <- {x1}, tenant <- v1, Tenants <- {t1, t2},
  trip <- v11, trouble <- v13, TypeNames <- {"payment"}, types <- v3,
  Uris <- {"u"}, user <- v2

LEMMA SameRows ==
  /\ (M!Init <=> MP!O!Init)
  /\ (M!Next <=> MP!O!Next)
  /\ M!vars = MP!O!vars
  /\ (M!TypeOK <=> MP!O!TypeOK)
  /\ (M!TripExchangedOnce <=> MP!O!TripExchangedOnce)
  /\ (M!RowsEntitled <=> MP!O!RowsEntitled)
  /\ (M!ClientsEntitled <=> MP!O!ClientsEntitled)
  /\ (M!ConstantsOK <=> MP!O!ConstantsOK)
BY Zenon DEF
  M!ClientOps, MP!O!ClientOps, M!FlowOps, MP!O!FlowOps, M!RowOps, MP!O!RowOps,
  M!FlowIds, MP!O!FlowIds, M!Kinds, MP!O!Kinds, M!ConstantsOK,
  MP!O!ConstantsOK, M!vars, MP!O!vars, M!Workspace, MP!O!Workspace, M!Clients,
  MP!O!Clients, M!Developers, MP!O!Developers, M!AllTenants, MP!O!AllTenants,
  M!Client, MP!O!Client, M!NoClient, MP!O!NoClient, M!Flow, MP!O!Flow,
  M!NoFlow, MP!O!NoFlow, M!Handler, MP!O!Handler, M!Idle, MP!O!Idle, M!Busy,
  MP!O!Busy, M!Go, MP!O!Go, M!Answer, MP!O!Answer, M!At, MP!O!At, M!Goto,
  MP!O!Goto, M!Does, MP!O!Does, M!Calm, MP!O!Calm, M!Trouble, MP!O!Trouble,
  M!Overlaps, MP!O!Overlaps, M!Heard, MP!O!Heard, M!Unheard, MP!O!Unheard,
  M!OwnerRequest, MP!O!OwnerRequest, M!Owns, MP!O!Owns, M!CurrentOwner,
  MP!O!CurrentOwner, M!TenantClients, MP!O!TenantClients, M!Newest,
  MP!O!Newest, M!TenantClient, MP!O!TenantClient, M!Edited, MP!O!Edited,
  M!RegenerateSecret, MP!O!RegenerateSecret, M!UpdateClient,
  MP!O!UpdateClient, M!SetTenant, MP!O!SetTenant, M!EditSettings,
  MP!O!EditSettings, M!PutType, MP!O!PutType, M!EditTypes, MP!O!EditTypes,
  M!NewFlow, MP!O!NewFlow, M!OfTenant, MP!O!OfTenant, M!Enabling,
  MP!O!Enabling, M!GetFlow, MP!O!GetFlow, M!Upserted, MP!O!Upserted,
  M!UpsertFlow, MP!O!UpsertFlow, M!DeleteFlow, MP!O!DeleteFlow,
  M!StaffRegisterClient, MP!O!StaffRegisterClient, M!StaffDeleteClient,
  MP!O!StaffDeleteClient, M!Reassign, MP!O!Reassign, M!DevSignIn,
  MP!O!DevSignIn, M!DevLogout, MP!O!DevLogout, M!DevRegister,
  MP!O!DevRegister, M!IdFree, MP!O!IdFree, M!DevLookup, MP!O!DevLookup,
  M!DevPut, MP!O!DevPut, M!StartOIDC, MP!O!StartOIDC, M!TakeOIDCFlow,
  MP!O!TakeOIDCFlow, M!OIDCCallback, MP!O!OIDCCallback, M!ExchangeCode,
  MP!O!ExchangeCode, M!TripLapses, MP!O!TripLapses, M!Restart, MP!O!Restart,
  M!Args, MP!O!Args, M!Ids, MP!O!Ids, M!Init, MP!O!Init, M!Step, MP!O!Step,
  M!Next, MP!O!Next, M!TypeOK, MP!O!TypeOK, M!Acting, MP!O!Acting,
  M!RowsEntitled, MP!O!RowsEntitled, M!ClientsEntitled, MP!O!ClientsEntitled,
  M!TripExchangedOnce, MP!O!TripExchangedOnce, M!Cardinality, MP!O!Cardinality

LEMMA RowsRun ==
  Spec => []~(part = "rows") \/ ([](part = "rows") /\ MP!O!Spec)
<1>1. Init => ~(part = "rows") \/ (part = "rows" /\ MP!O!Init)
  BY SameRows DEF Init
<1>2. part = "rows" /\ [Next]_vars => (part = "rows")' /\ [MP!O!Next]_MP!O!vars
  BY SameRows DEF Next, vars, MP!O!vars
<1>3. ~(part = "rows") /\ [Next]_vars => (~(part = "rows"))'
  BY PartStays
<1> QED
  BY <1>1, <1>2, <1>3, PTL DEF Spec, MP!O!Spec

LEMMA RowsKeep ==
  Spec => /\ [](part = "rows" => M!TypeOK /\ M!TripExchangedOnce)
          /\ [][part = "rows" => M!RowsEntitled /\ M!ClientsEntitled]_vars
<1>1. MP!CInv => MP!O!TypeOK
  BY DEF MP!CInv
<1>2. /\ (MP!O!Spec => []MP!CInv)
      /\ (MP!O!Spec => []MP!O!TripExchangedOnce)
      /\ (MP!O!Spec => [][MP!O!RowsEntitled]_MP!O!vars)
      /\ (MP!O!Spec => [][MP!O!ClientsEntitled]_MP!O!vars)
  BY MP!ConsolesInvariant, MP!TripsExchangedOnce, MP!RowsOfTheEntitled,
     MP!ClientsOfTheEntitled, InstancesOK, SameRows DEF InstancesOK
<1>3. part = "rows" /\ [Next]_vars /\ [MP!O!RowsEntitled]_MP!O!vars /\
              [MP!O!ClientsEntitled]_MP!O!vars
        => [part = "rows" => M!RowsEntitled /\ M!ClientsEntitled]_vars
  BY SameRows DEF Next, vars, MP!O!vars, Beyond15
<1>4. MP!O!TypeOK /\ MP!O!TripExchangedOnce
        => (part = "rows" => M!TypeOK /\ M!TripExchangedOnce)
  BY SameRows
<1> QED
  BY RowsRun, <1>1, <1>2, <1>3, <1>4, PTL
     DEF Spec

\* What the consoles write, end or hand over is within the right its sender
\* had while the request ran, and a deactivation sticks (currentOwner,
\* currentAdmin, ensureStaff).
THEOREM WritesAreEntitled == Spec => WritesEntitled
BY SignupsKeep, OwnersKeep, ClientsKeep, JourneysKeep, RowsKeep, PTL DEF
   WritesEntitled

\* A signed-up workspace has its owner's user and its client, a session its
\* user, and no workspace two enabled flows (ProvisionTenant, UpsertFlow).
THEOREM WorkspacesAreWhole == Spec => []WorkspacesWhole
BY SignupsKeep, OwnersKeep, JourneysKeep, PTL DEF WorkspacesWhole

\* A pick buys one session, a round trip one exchange, and the secret shown
\* last is the one that opens (OwnerSelect, takeOIDCFlow, RegenerateSecret).
THEOREM EachUsedOnce == Spec => []UsedOnce
BY OwnersKeep, ClientsKeep, RowsKeep, PTL DEF UsedOnce

\* Every part keeps the types of its variables: the tables' rows and the
\* handlers' locals never leave their domains.
THEOREM TypesCorrect == Spec => []TypesOK
<1> DEFINE Access == /\ part = "challenges" => A!TypeOK
                     /\ part = "verifies" => B!TypeOK
                     /\ part = "flows" => F!TypeOK
                     /\ part = "tokens" => S!TypeOK
                     /\ part = "decisions" => T!TypeOK
           Identity == /\ part = "phones" => D!TypeOK
                       /\ part = "links" => E!TypeOK
                       /\ part = "licences" => G!TypeOK
                       /\ part = "exchanges" => I!TypeOK
                       /\ part = "redeems" => J!TypeOK
                       /\ part = "proofs" => V!TypeOK
           Console == /\ part = "signups" => W!TypeOK
                      /\ part = "owners" => O!TypeOK
                      /\ part = "clients" => K!TypeOK
                      /\ part = "journeys" => L!TypeOK
                      /\ part = "rows" => M!TypeOK
<1>1. Spec => []Access
  BY ChallengesKeep, VerifiesKeep, FlowsKeep, TokensKeep, DecisionsKeep, PTL
<1>2. Spec => []Identity
  BY PhonesKeep, LinksKeep, LicencesKeep, ExchangesKeep, RedeemsKeep,
     ProofsKeep, PTL
<1>3. Spec => []Console
  BY SignupsKeep, OwnersKeep, ClientsKeep, JourneysKeep, RowsKeep, PTL
<1>4. Access /\ Identity /\ Console => TypesOK
  BY DEF TypesOK
<1> HIDE DEF Access, Identity, Console
<1> QED
  BY <1>1, <1>2, <1>3, <1>4, PTL
=============================================================================
