------------------------ MODULE AuthenticatorProofs ------------------------
(***************************************************************************)
(* Theorems about Authenticator, for every value of its constants:         *)
(*                                                                         *)
(*   TypeCorrect      Spec => []TypeOK                                     *)
(*   Bounded          Spec => []VerdictsBounded                            *)
(*   Closed           Spec => []SpentIsClosed                              *)
(*   NotReopened      Spec => NeverReopened                                *)
(*                                                                         *)
(* The last three rest on one inductive invariant.  Its heart is Budget:   *)
(* the verifications that can still be recorded on a challenge are those   *)
(* of the handlers InFlight, which read the row while it was pending; once *)
(* the row has left `pending` nobody joins them.                           *)
(*                                                                         *)
(* And, while verifications do not overlap (OneAtATime; when they do, the  *)
(* run auth_terminal overwrites a terminal status):                        *)
(*                                                                         *)
(*   Accounted        Spec => []AttemptsExact                              *)
(*   Audited          Spec => []AuditTrailKept                             *)
(*   TerminalForGood  Spec => TerminalIsFinal                              *)
(*   Backoff          Spec => BackoffRespected                             *)
(*                                                                         *)
(* from a second one, SoloInv: the row a handler decided on is the row it  *)
(* writes, unless the sweeper took it.                                     *)
(***************************************************************************)
EXTENDS Authenticator, FiniteSetTheorems, WellFoundedInduction, TLAPS

-----------------------------------------------------------------------------
(* The limiter *)

\* The oldest counted event exists and has not left the window.
LEMMA OldestInWindow ==
  ASSUME NEW log \in Log, NEW window \in Nat \ {0}, now \in Time
  PROVE  /\ OldestCounted(log, window, now) \in Time
         /\ OldestCounted(log, window, now) + window > now
  <1> DEFINE events == {t \in Time : Pruned(log, window, now)[t] > 0} \cup {now}
  <1>1. events \subseteq Nat /\ events # {}
    BY MaxTimeAssumption DEF Time
  <1>2. PICK t \in events : \A s \in events : ~(<<s, t>> \in OpToRel(<, Nat))
    <2>1. IsWellFoundedOn(OpToRel(<, Nat), Nat)
      BY NatLessThanWellFounded
    <2> HIDE DEF events
    <2> QED BY <1>1, <2>1, WFMin
  <1>3. \A s \in events : t <= s
    <2> SUFFICES ASSUME NEW s \in events PROVE t <= s
      OBVIOUS
    <2>1. s \in Nat /\ t \in Nat
      BY <1>1
    <2>2. ~(s < t)
      BY <1>2, <2>1 DEF OpToRel
    <2> QED BY <2>1, <2>2
  <1>4. OldestCounted(log, window, now) \in events
    BY <1>3 DEF OldestCounted
  <1>5. \A s \in events : s \in Time /\ s + window > now
    BY MaxTimeAssumption DEF Pruned, Time, Log
  <1> QED BY <1>4, <1>5

\* What the limiter leaves behind is a log.
LEMMA LogClosed ==
  ASSUME NEW log \in Log, NEW limit, NEW window \in Nat, now \in Time
  PROVE  AfterAllow(log, limit, window, now) \in Log
  BY DEF AfterAllow, Pruned, Log, Time

\* RetryAfter never goes below zero (ratex's retry hint).
LEMMA RetryAfterIsNat ==
  ASSUME NEW log \in Log, NEW window \in Nat \ {0}, now \in Time
  PROVE  RetryAfter(log, window, now) \in Nat
  BY OldestInWindow, MaxTimeAssumption DEF RetryAfter, Time

-----------------------------------------------------------------------------
(* Type correctness *)

\* The empty tables are well typed.
LEMMA InitTypeOK == Init => TypeOK
  BY MaxTimeAssumption
  DEF Init, TypeOK, NoRow, Row, Statuses, Stored, Terminal, Handler, Idle,
      Steps, Log, EmptyLog, Time

\* So are the records that stand for nothing.
LEMMA NullRecords ==
  Idle \in Handler /\ NoRow("unborn") \in Row /\ NoRow("purged") \in Row
  <1>1. NoRow("unborn") \in Row /\ NoRow("purged") \in Row
    BY DEF NoRow, Row, Statuses, Stored, Terminal
  <1>2. "idle" \in Steps
    BY DEF Steps
  <1> QED BY <1>1, <1>2 DEF Idle, Handler

\* What the actions make of a handler is a handler.
LEMMA RecordTypes ==
  /\ \A h \in Handler, s \in Steps : [h EXCEPT !.step = s] \in Handler
  /\ \A h \in Handler, s \in Steps, w \in Row :
       [h EXCEPT !.step = s, !.row = w] \in Handler
  /\ \A h \in Handler, s \in Steps, v \in BOOLEAN :
       [h EXCEPT !.step = s, !.verdict = v] \in Handler
  /\ \A h \in Handler, s \in Steps, c \in Challenges, w \in Row :
       [h EXCEPT !.step = s, !.id = c, !.row = w] \in Handler
  BY DEF Handler

\* A handler that moves on stays well typed.
LEMMA BecomesTypeOK ==
  ASSUME TypeOK, NEW r \in Requests, NEW h \in Handler, Becomes(r, h)
  PROVE  request' \in [Requests -> Handler]
  BY DEF TypeOK, Becomes

\* So does one that answers.
LEMMA AnswerTypeOK ==
  ASSUME TypeOK, NEW r \in Requests, Answer(r)
  PROVE  request' \in [Requests -> Handler]
  BY NullRecords, BecomesTypeOK DEF Answer

\* Forgetting a lock that has passed keeps the lockout table's type (Lockout.Locked).
LEMMA PruneLockTypeOK ==
  ASSUME TypeOK, NEW u, PruneLock(u)
  PROVE  lockedUntil' \in [Users -> Nat]
  BY DEF TypeOK, PruneLock

\* The actions of Create.
LEMMA CreateTypeOK ==
  ASSUME TypeOK, NEW r \in Requests
  PROVE  /\ \A u \in Users, m \in MethodLists : CreateGate(r, u, m) => TypeOK'
         /\ \A c \in Challenges : CreateSelect(r, c) => TypeOK'
         /\ CreateDispatch(r) => TypeOK'
         /\ CreatePut(r) => TypeOK'
  <1> DEFINE q == request[r]
  <1>0. q \in Handler /\ q.row \in Row
    BY DEF TypeOK, Handler
  <1>1. ASSUME NEW u \in Users, NEW m \in MethodLists, CreateGate(r, u, m)
        PROVE  TypeOK'
    <2>1. AfterAllow(created[u], ChallengeLimit, ChallengeWindow, now) \in Log
      BY LogClosed, CountsAssumption DEF TypeOK
    <2>2. [Idle EXCEPT !.step = "select", !.user = u, !.methods = m] \in Handler
      BY NullRecords DEF Idle, Handler, Steps
    <2>3. request' \in [Requests -> Handler]
      BY <1>1, <2>2, BecomesTypeOK DEF CreateGate, TypeOK
    <2> QED BY <1>1, <2>1, <2>3, PruneLockTypeOK DEF CreateGate, TypeOK, tables
  <1>2. ASSUME NEW c \in Challenges, CreateSelect(r, c) PROVE TypeOK'
    <2>1. \A a \in Authenticators : NewRow(q.user, a) \in Row
      <3>1. NoRow("pending") \in Row
        BY DEF NoRow, Row, Statuses, Stored
      <3>2. q.user \in Users \cup {NoChallengeId} /\ now + ChallengeTTL \in Nat
        BY <1>0, MaxTimeAssumption, CountsAssumption DEF Handler, TypeOK, Time
      <3> QED BY <3>1, <3>2 DEF NewRow, Row
    <2>2. \A a \in Authenticators :
            [q EXCEPT !.step = "dispatch", !.id = c, !.row = NewRow(q.user, a)]
              \in Handler
      BY <1>0, <2>1, RecordTypes DEF Steps
    <2>3. request' \in [Requests -> Handler]
      BY <1>2, <2>2, BecomesTypeOK, AnswerTypeOK DEF CreateSelect
    <2> QED BY <1>2, <2>3 DEF CreateSelect, TypeOK, tables, limits
  <1>3. ASSUME CreateDispatch(r) PROVE TypeOK'
    <2>1. [q EXCEPT !.step = "put"] \in Handler
      BY <1>0, RecordTypes DEF Steps
    <2>2. request' \in [Requests -> Handler]
      BY <1>3, <2>1, BecomesTypeOK, AnswerTypeOK DEF CreateDispatch
    <2> QED BY <1>3, <2>2 DEF CreateDispatch, TypeOK, tables, limits
  <1>4. ASSUME CreatePut(r) PROVE TypeOK'
    BY <1>0, <1>4, AnswerTypeOK DEF CreatePut, TypeOK, limits
  <1> QED BY <1>1, <1>2, <1>3, <1>4

\* The actions of Verify, and a failing store.
LEMMA VerifyTypeOK ==
  ASSUME TypeOK, NEW r \in Requests
  PROVE  /\ \A c \in Challenges : VerifyGet(r, c) => TypeOK'
         /\ VerifyGate(r) => TypeOK'
         /\ VerifyExpire(r) => TypeOK'
         /\ VerifyAdapter(r) => TypeOK'
         /\ VerifyRecord(r) => TypeOK'
         /\ VerifyCount(r) => TypeOK'
         /\ StoreError(r) => TypeOK'
  <1> DEFINE q == request[r]
  <1>0. q \in Handler
    BY DEF TypeOK
  <1>1. ASSUME NEW c \in Challenges, VerifyGet(r, c) PROVE TypeOK'
    <2>1. [Idle EXCEPT !.step = "gate", !.id = c, !.row = challenge[c],
                       !.user = challenge[c].user] \in Handler
      <3>1. challenge[c] \in Row /\ challenge[c].user \in Users \cup {NoChallengeId}
        BY DEF TypeOK, Row
      <3> QED BY <3>1, NullRecords DEF Idle, Handler, Steps
    <2>2. request' \in [Requests -> Handler]
      BY <1>1, <2>1, BecomesTypeOK DEF VerifyGet
    <2> QED BY <1>1, <2>2 DEF VerifyGet, TypeOK, tables, limits
  <1>2. ASSUME VerifyGate(r) PROVE TypeOK'
    <2>1. \A s \in Steps : [q EXCEPT !.step = s, !.row = NoRow("unborn")] \in Handler
      BY <1>0, NullRecords, RecordTypes
    <2>2. request' \in [Requests -> Handler]
      BY <1>2, <2>1, BecomesTypeOK, AnswerTypeOK DEF VerifyGate, Proceed, Steps
    <2>3. lockedUntil' \in [Users -> Nat]
      BY <1>2, PruneLockTypeOK DEF VerifyGate
    <2> QED BY <1>2, <2>2, <2>3 DEF VerifyGate, TypeOK, tables
  <1>3. ASSUME VerifyExpire(r) PROVE TypeOK'
    <2>1. \A w \in Row : [w EXCEPT !.status = "expired"] \in Row
      BY DEF Row, Statuses, Stored, Terminal
    <2>2. challenge' \in [Challenges -> Row]
      BY <1>3, <2>1 DEF VerifyExpire, UpdateChallenge, TypeOK
    <2> QED BY <1>3, <2>2, AnswerTypeOK DEF VerifyExpire, TypeOK, limits
  <1>4. ASSUME VerifyAdapter(r) PROVE TypeOK'
    <2>1. \A v \in BOOLEAN : [q EXCEPT !.step = "record", !.verdict = v] \in Handler
      BY <1>0, RecordTypes DEF Steps
    <2>2. request' \in [Requests -> Handler]
      BY <1>4, <2>1, BecomesTypeOK, AnswerTypeOK DEF VerifyAdapter
    <2> QED BY <1>4, <2>2 DEF VerifyAdapter, TypeOK, tables, limits
  <1>5. ASSUME VerifyRecord(r) PROVE TypeOK'
    <2>1. [q EXCEPT !.step = "count"] \in Handler
      BY <1>0, RecordTypes DEF Steps
    <2>2. request' \in [Requests -> Handler]
      BY <1>5, <2>1, BecomesTypeOK, AnswerTypeOK DEF VerifyRecord
    <2>3. \A w \in Row : [w EXCEPT !.status = "completed"] \in Row /\ Failed(w) \in Row
      <3>1. now \in Nat
        BY MaxTimeAssumption DEF TypeOK, Time
      <3>2. "completed" \in Statuses /\ "failed" \in Statuses
        BY DEF Statuses, Stored, Terminal
      <3> TAKE w \in Row
      <3> DEFINE n == w.attempts + 1
      <3>3. n \in Nat /\ w.status \in Statuses
        BY DEF Row
      <3>4. \A st \in Statuses :
              [w EXCEPT !.attempts = n, !.lastAttemptAt = now, !.status = st] \in Row
        BY <3>1, <3>3 DEF Row
      <3>5. [w EXCEPT !.status = "completed"] \in Row
        BY <3>2 DEF Row
      <3> QED BY <3>2, <3>3, <3>4, <3>5 DEF Failed
    <2>4. challenge' \in [Challenges -> Row]
      BY <1>5, <2>3 DEF VerifyRecord, UpdateChallenge, TypeOK
    <2>5. granted' \in [Challenges -> Nat]
      <3>1. \/ granted' = [granted EXCEPT ![q.id] = @ + 1]
            \/ granted' = [granted EXCEPT ![q.id] = @]
        BY <1>5 DEF VerifyRecord
      <3> QED BY <3>1 DEF TypeOK
    <2> QED BY <1>5, <2>2, <2>4, <2>5 DEF VerifyRecord, TypeOK, limits
  <1>6. ASSUME VerifyCount(r) PROVE TypeOK'
    <2> DEFINE u == q.user
    <2>1. failures' \in [Users -> Log]
      <3>1. u \in Users =>
              AfterAllow(failures[u], LockoutThreshold - 1, LockoutWindow, now) \in Log
        BY LogClosed, CountsAssumption DEF TypeOK
      <3> QED BY <1>6, <3>1 DEF VerifyCount, RecordFailure, TypeOK
    <2>2. lockedUntil' \in [Users -> Nat]
      <3>1. u \in Users => RetryAfter(failures[u], LockoutWindow, now) \in Nat
        BY RetryAfterIsNat, CountsAssumption DEF TypeOK
      <3>2. now \in Nat /\ LockoutWindow \in Nat
        BY MaxTimeAssumption, CountsAssumption DEF TypeOK, Time
      <3>3. \/ lockedUntil' = lockedUntil
            \/ lockedUntil' = [lockedUntil EXCEPT ![u] = now + LockoutWindow]
            \/ lockedUntil' = [lockedUntil EXCEPT ![u] =
                 now + RetryAfter(failures[u], LockoutWindow, now)]
        BY <1>6 DEF VerifyCount, RecordFailure
      <3> HIDE DEF u
      <3> QED BY <3>1, <3>2, <3>3 DEF TypeOK
    <2> QED BY <1>6, <2>1, <2>2, AnswerTypeOK DEF VerifyCount, TypeOK, tables
  <1>7. ASSUME StoreError(r) PROVE TypeOK'
    BY <1>7, AnswerTypeOK DEF StoreError, TypeOK, tables, limits
  <1> QED BY <1>1, <1>2, <1>3, <1>4, <1>5, <1>6, <1>7

\* Every step keeps the types.
LEMMA NextTypeOK == TypeOK /\ [Next]_vars => TypeOK'
  <1> SUFFICES ASSUME TypeOK, [Next]_vars PROVE TypeOK'
    OBVIOUS
  <1>1. ASSUME NEW a \in Authenticators, Enroll(a) \/ DisableAuthenticator(a)
        PROVE  TypeOK'
    BY <1>1 DEF Enroll, DisableAuthenticator, TypeOK, limits
  <1>2. CASE PurgeExpired
    BY <1>2, NullRecords DEF PurgeExpired, TypeOK, limits
  <1>3. CASE Restart
    <2>1. EmptyLog \in Log
      BY DEF EmptyLog, Log
    <2> QED BY <1>3, <2>1, NullRecords DEF Restart, TypeOK, tables
  <1>4. CASE Tick
    BY <1>4, MaxTimeAssumption DEF Tick, TypeOK, Time, tables, limits
  <1>5. CASE UNCHANGED vars
    BY <1>5 DEF vars, TypeOK
  <1> QED
    BY <1>1, <1>2, <1>3, <1>4, <1>5, CreateTypeOK, VerifyTypeOK DEF Next, Step

\* Every variable keeps its type: in particular a lock is never in the past
\* of instant 0 (RetryAfter of a denied call is not negative).
THEOREM TypeCorrect == Spec => []TypeOK
  BY InitTypeOK, NextTypeOK, PTL DEF Spec

-----------------------------------------------------------------------------
(* The inductive invariant *)

\* A handler that is about to insert a row works on an id nobody else knows.
Creators ==
  \A r \in Requests :
    request[r].step \in {"dispatch", "put"} =>
      /\ request[r].id \in Challenges
      /\ challenge[request[r].id].status = "unborn"
      /\ request[r].row.status = "pending" /\ request[r].row.attempts = 0
      /\ \A s \in Requests : request[s].id = request[r].id => s = r

\* A handler past VerifyGet works on a row that was once inserted.
Verifiers ==
  \A r \in Requests :
    /\ request[r].step \in {"idle", "select"} => request[r].id = NoChallengeId
    /\ request[r].step \in {"gate", "expire", "adapter", "record", "count"} =>
         /\ request[r].id \in Challenges
         /\ challenge[request[r].id].status # "unborn"

\* An id nobody has inserted has no history; a pending challenge has neither
\* been granted nor used up.
Open ==
  \A c \in Challenges :
    /\ challenge[c].status = "unborn" =>
         challenge[c].attempts = 0 /\ granted[c] = 0
    /\ challenge[c].status = "pending" =>
         challenge[c].attempts < MaxChallengeAttempts /\ granted[c] = 0

\* The handlers that may still record a verification of c.
Flying(h, c) ==
  /\ h.id = c
  /\ h.step \in {"adapter", "record"} \/ (h.step = "gate" /\ h.row.status = "pending")

InFlight(c) == {r \in Requests : Flying(request[r], c)}

\* Verifications on record and in flight stay within the bound.
Budget ==
  \A c \in Challenges :
    challenge[c].attempts + granted[c] + Cardinality(InFlight(c))
      <= (MaxChallengeAttempts - 1) + Cardinality(Requests)

IInv == TypeOK /\ Creators /\ Verifiers /\ Open /\ Budget

\* The invariant holds of the empty tables.
LEMMA InitIInv == Init => IInv
  <1> SUFFICES ASSUME Init PROVE IInv
    OBVIOUS
  <1>1. TypeOK
    BY InitTypeOK
  <1>2. Creators /\ Verifiers /\ Open
    BY DEF Init, Idle, NoRow, Creators, Verifiers, Open
  <1>3. Budget
    <2> SUFFICES ASSUME NEW c \in Challenges
                 PROVE  challenge[c].attempts + granted[c] + Cardinality(InFlight(c))
                          <= (MaxChallengeAttempts - 1) + Cardinality(Requests)
      BY DEF Budget
    <2>1. InFlight(c) = {}
      <3>1. \A r \in Requests : request[r].step = "idle"
        BY DEF Init, Idle
      <3> QED BY <3>1 DEF InFlight, Flying
    <2>2. Cardinality(InFlight(c)) = 0
      BY <2>1, FS_EmptySet
    <2>3. challenge[c].attempts = 0 /\ granted[c] = 0
      BY DEF Init, NoRow
    <2>4. Cardinality(Requests) \in Nat
      BY RequestsAssumption, FS_CardinalityType
    <2> QED BY <2>2, <2>3, <2>4, CountsAssumption
  <1> QED BY <1>1, <1>2, <1>3 DEF IInv

\* Requests is finite, so InFlight is, and it is no larger.
LEMMA InFlightFinite ==
  ASSUME NEW c
  PROVE  /\ Cardinality(Requests) \in Nat
         /\ IsFiniteSet(InFlight(c)) /\ Cardinality(InFlight(c)) \in Nat
         /\ Cardinality(InFlight(c)) <= Cardinality(Requests)
  <1>1. InFlight(c) \subseteq Requests
    BY DEF InFlight
  <1> QED BY <1>1, RequestsAssumption, FS_Subset, FS_CardinalityType

\* The handlers in flight after a step are no more than the requests.
LEMMA InFlightFiniteNext ==
  ASSUME NEW c
  PROVE  /\ IsFiniteSet(InFlight(c)') /\ Cardinality(InFlight(c)') \in Nat
         /\ Cardinality(InFlight(c)') <= Cardinality(Requests)
  <1>1. InFlight(c)' \subseteq Requests
    BY DEF InFlight
  <1> QED BY <1>1, RequestsAssumption, FS_Subset, FS_CardinalityType

BudgetOf(c) ==
  challenge[c].attempts + granted[c] + Cardinality(InFlight(c))
    <= (MaxChallengeAttempts - 1) + Cardinality(Requests)

\* What is counted per challenge are numbers.
LEMMA CountsTyped ==
  ASSUME TypeOK, NEW c \in Challenges
  PROVE  challenge[c].attempts \in Nat /\ granted[c] \in Nat
  BY DEF TypeOK, Row

\* A step that records nothing on c and lets nobody join InFlight(c).
LEMMA BudgetKept ==
  ASSUME TypeOK, TypeOK', NEW c \in Challenges, BudgetOf(c),
         InFlight(c)' \subseteq InFlight(c),
         challenge'[c].attempts <= challenge[c].attempts,
         granted'[c] = granted[c]
  PROVE  BudgetOf(c)'
  <1>1. Cardinality(InFlight(c)') <= Cardinality(InFlight(c))
    BY InFlightFinite, FS_Subset
  <1>2. /\ challenge[c].attempts \in Nat /\ granted[c] \in Nat
        /\ challenge'[c].attempts \in Nat
    BY DEF TypeOK, Row
  <1> QED
    BY <1>1, <1>2, InFlightFinite, InFlightFiniteNext, CountsAssumption DEF BudgetOf

\* While c is open, everybody may be in flight.
LEMMA BudgetOpen ==
  ASSUME TypeOK', NEW c \in Challenges, granted'[c] = 0,
         challenge'[c].attempts < MaxChallengeAttempts
  PROVE  BudgetOf(c)'
  <1>1. challenge'[c].attempts \in Nat
    BY DEF TypeOK, Row
  <1> QED
    BY <1>1, InFlightFinite, InFlightFiniteNext, CountsAssumption DEF BudgetOf

\* A handler in flight records its verification, and is in flight no more.
LEMMA BudgetSpent ==
  ASSUME TypeOK, TypeOK', NEW c \in Challenges, BudgetOf(c),
         NEW r \in InFlight(c), InFlight(c)' \subseteq InFlight(c) \ {r},
         challenge'[c].attempts + granted'[c] <= challenge[c].attempts + granted[c] + 1
  PROVE  BudgetOf(c)'
  <1>1. Cardinality(InFlight(c) \ {r}) = Cardinality(InFlight(c)) - 1
    BY InFlightFinite, FS_RemoveElement
  <1>2. Cardinality(InFlight(c)') <= Cardinality(InFlight(c) \ {r})
    BY InFlightFinite, FS_RemoveElement, FS_Subset
  <1>3. /\ challenge[c].attempts \in Nat /\ granted[c] \in Nat
        /\ challenge'[c].attempts \in Nat /\ granted'[c] \in Nat
    BY DEF TypeOK, Row
  <1> QED
    BY <1>1, <1>2, <1>3, InFlightFinite, InFlightFiniteNext, CountsAssumption
    DEF BudgetOf

-----------------------------------------------------------------------------
(* The invariant is inductive *)

\* A step that leaves the tables alone and at most lets handlers answer.
LEMMA AnswerKeeps ==
  ASSUME IInv, TypeOK', challenge' = challenge, granted' = granted,
         \A r \in Requests : request'[r] \in {request[r], Idle}
  PROVE  IInv'
  <1>1. Idle.step = "idle" /\ Idle.id = NoChallengeId
    BY DEF Idle
  <1>2. Creators'
    BY <1>1, EnrolmentAssumption DEF IInv, Creators
  <1>3. Verifiers'
    BY <1>1 DEF IInv, Verifiers
  <1>4. Open'
    BY DEF IInv, Open
  <1>5. Budget'
    <2> SUFFICES ASSUME NEW c \in Challenges PROVE BudgetOf(c)'
      BY DEF Budget, BudgetOf
    <2>1. InFlight(c)' \subseteq InFlight(c)
      BY <1>1 DEF InFlight, Flying
    <2>2. BudgetOf(c) /\ TypeOK
      BY DEF IInv, Budget, BudgetOf
    <2>3. challenge[c].attempts \in Nat
      BY <2>2, CountsTyped
    <2> QED BY <2>1, <2>2, <2>3, BudgetKept
  <1> QED BY <1>2, <1>3, <1>4, <1>5 DEF IInv

\* A step of a handler that leaves the tables alone: h is what it becomes.
LEMMA HandlerKeeps ==
  ASSUME IInv, TypeOK', challenge' = challenge, granted' = granted,
         NEW r \in Requests, NEW h \in Handler, Becomes(r, h),
         h.id = request[r].id \/ (request[r].step = "idle" /\ h.id \in Challenges),
         h.step \in {"idle", "select"} => h.id = NoChallengeId,
         h.step = "put" => request[r].step = "dispatch" /\ h.row = request[r].row,
         h.step # "dispatch",
         h.step \in {"gate", "expire", "adapter", "record", "count"} =>
           h.id \in Challenges /\ challenge[h.id].status # "unborn",
         \A c \in Challenges :
           challenge[c].status # "pending" /\ Flying(h, c) => Flying(request[r], c)
  PROVE  IInv'
  <1>1. /\ request'[r] = h
        /\ \A s \in Requests : s # r => request'[s] = request[s]
    BY DEF IInv, TypeOK, Becomes
  <1>2. Creators'
    <2> SUFFICES ASSUME NEW s \in Requests, request'[s].step \in {"dispatch", "put"}
                 PROVE  /\ request'[s].id \in Challenges
                        /\ challenge[request'[s].id].status = "unborn"
                        /\ request'[s].row.status = "pending"
                        /\ request'[s].row.attempts = 0
                        /\ \A t \in Requests :
                             request'[t].id = request'[s].id => t = s
      BY DEF Creators
    <2>1. /\ request[s].step \in {"dispatch", "put"}
          /\ request'[s].id = request[s].id /\ request'[s].row = request[s].row
      BY <1>1 DEF IInv, Creators, Verifiers
    <2>2. \A t \in Requests : request'[t].id = request[s].id => t = s
      <3>1. ASSUME r # s PROVE request'[r].id # request[s].id
        <4>1. request[r].id # request[s].id /\ request[s].id \in Challenges
          BY <2>1, <3>1 DEF IInv, Creators
        <4>2. request[s].id # h.id \/ h.step \notin {"idle", "select"}
          BY <4>1, EnrolmentAssumption
        <4>3. challenge[request[s].id].status = "unborn"
          BY <2>1 DEF IInv, Creators
        <4>4. h.step \in Steps
          BY DEF Handler
        <4> QED BY <1>1, <4>1, <4>2, <4>3, <4>4 DEF Steps
      <3> QED BY <1>1, <2>1, <3>1 DEF IInv, Creators
    <2> QED BY <2>1, <2>2 DEF IInv, Creators
  <1>3. Verifiers'
    BY <1>1 DEF IInv, Verifiers
  <1>4. Open'
    BY DEF IInv, Open
  <1>5. Budget'
    <2> SUFFICES ASSUME NEW c \in Challenges PROVE BudgetOf(c)'
      BY DEF Budget, BudgetOf
    <2>1. CASE challenge[c].status = "pending"
      BY <2>1, BudgetOpen DEF IInv, Open
    <2>2. CASE challenge[c].status # "pending"
      <3>1. InFlight(c)' \subseteq InFlight(c)
        BY <1>1, <2>2 DEF InFlight
      <3>2. BudgetOf(c) /\ TypeOK
        BY DEF IInv, Budget, BudgetOf
      <3>3. challenge[c].attempts \in Nat
        BY <3>2, CountsTyped
      <3> QED BY <3>1, <3>2, <3>3, BudgetKept
    <2> QED BY <2>1, <2>2
  <1> QED BY <1>2, <1>3, <1>4, <1>5 DEF IInv

\* A step that changes rows but inserts none.
LEMMA RowsKeep ==
  ASSUME IInv,
         \A c \in Challenges :
           challenge'[c].status = "unborn" <=> challenge[c].status = "unborn",
         \A r \in Requests :
           \/ request'[r] \in {request[r], Idle}
           \/ /\ request[r].step = "record" /\ request'[r].step = "count"
              /\ request'[r].id = request[r].id
  PROVE  Creators' /\ Verifiers'
  <1>1. Idle.step = "idle" /\ Idle.id = NoChallengeId
    BY DEF Idle
  <1>2. Verifiers'
    BY <1>1 DEF IInv, Verifiers
  <1>3. Creators'
    BY <1>1, EnrolmentAssumption DEF IInv, Creators
  <1> QED BY <1>2, <1>3

\* Create picks an authenticator and keeps the invariant.
LEMMA CreateSelectIInv ==
  ASSUME IInv, TypeOK', NEW r \in Requests, NEW c \in Challenges, CreateSelect(r, c)
  PROVE  IInv'
  <1>1. CASE Answer(r)
    BY <1>1, AnswerKeeps DEF CreateSelect, Answer, Becomes, tables, IInv, TypeOK
  <1>2. ASSUME NEW a \in Authenticators,
               Becomes(r, [request[r] EXCEPT !.step = "dispatch", !.id = c,
                             !.row = NewRow(request[r].user, a)]),
               challenge[c].status = "unborn",
               \A s \in Requests : request[s].id # c
        PROVE  IInv'
    <2>1. challenge' = challenge /\ granted' = granted
      BY DEF CreateSelect, tables
    <2>2. /\ request'[r].step = "dispatch" /\ request'[r].id = c
          /\ request'[r].row = NewRow(request[r].user, a)
          /\ \A s \in Requests : s # r => request'[s] = request[s]
      BY <1>2 DEF IInv, TypeOK, Becomes, Handler
    <2>3. NewRow(request[r].user, a).status = "pending"
          /\ NewRow(request[r].user, a).attempts = 0
      BY DEF NewRow, NoRow
    <2>4. Creators'
      BY <1>2, <2>1, <2>2, <2>3 DEF IInv, Creators
    <2>5. Verifiers'
      BY <2>1, <2>2 DEF IInv, Verifiers
    <2>6. Open'
      BY <2>1 DEF IInv, Open
    <2>7. Budget'
      <3> SUFFICES ASSUME NEW d \in Challenges PROVE BudgetOf(d)'
        BY DEF Budget, BudgetOf
      <3>1. InFlight(d)' \subseteq InFlight(d)
        BY <2>2 DEF InFlight, Flying
      <3>2. BudgetOf(d) /\ TypeOK
        BY DEF IInv, Budget, BudgetOf
      <3>3. challenge[d].attempts \in Nat
        BY <3>2, CountsTyped
      <3> QED BY <2>1, <3>1, <3>2, <3>3, BudgetKept
    <2> QED BY <2>4, <2>5, <2>6, <2>7 DEF IInv
  <1> QED BY <1>1, <1>2 DEF CreateSelect

\* Create stores the row and keeps the invariant.
LEMMA CreatePutIInv ==
  ASSUME IInv, TypeOK', NEW r \in Requests, CreatePut(r)
  PROVE  IInv'
  <1> DEFINE c == request[r].id
  <1>1. /\ c \in Challenges /\ challenge[c].status = "unborn"
        /\ request[r].row.status = "pending" /\ request[r].row.attempts = 0
        /\ \A s \in Requests : request[s].id = c => s = r
        /\ granted[c] = 0
    BY DEF IInv, Creators, Open, CreatePut
  <1>2. /\ challenge'[c] = request[r].row
        /\ \A d \in Challenges : d # c => challenge'[d] = challenge[d]
        /\ granted' = granted
        /\ request'[r] = Idle
        /\ \A s \in Requests : s # r => request'[s] = request[s]
    BY <1>1 DEF CreatePut, Answer, Becomes, IInv, TypeOK
  <1>3. Idle.step = "idle" /\ Idle.id = NoChallengeId
    BY DEF Idle
  <1> HIDE DEF c
  <1>4. Creators'
    BY <1>1, <1>2, <1>3, EnrolmentAssumption DEF IInv, Creators
  <1>5. Verifiers'
    BY <1>1, <1>2, <1>3 DEF IInv, Verifiers
  <1>6. Open'
    BY <1>1, <1>2, CountsAssumption DEF IInv, Open
  <1>7. Budget'
    <2> SUFFICES ASSUME NEW d \in Challenges PROVE BudgetOf(d)'
      BY DEF Budget, BudgetOf
    <2>1. CASE d = c
      BY <1>1, <1>2, <2>1, BudgetOpen, CountsAssumption
    <2>2. CASE d # c
      <3>1. InFlight(d)' \subseteq InFlight(d)
        BY <1>2, <1>3 DEF InFlight, Flying
      <3>2. BudgetOf(d) /\ TypeOK
        BY DEF IInv, Budget, BudgetOf
      <3>3. challenge[d].attempts \in Nat
        BY <3>2, CountsTyped
      <3> QED BY <1>2, <2>2, <3>1, <3>2, <3>3, BudgetKept
    <2> QED BY <2>1, <2>2
  <1> QED BY <1>4, <1>5, <1>6, <1>7 DEF IInv

\* The create handlers' moves that touch no row.
LEMMA CreateHandlerIInv ==
  ASSUME IInv, TypeOK', NEW r \in Requests
  PROVE  /\ \A u \in Users, m \in MethodLists : CreateGate(r, u, m) => IInv'
         /\ CreateDispatch(r) => IInv'
  <1>0. TypeOK /\ request[r] \in Handler
    BY DEF IInv, TypeOK
  <1>1. ASSUME NEW u \in Users, NEW m \in MethodLists, CreateGate(r, u, m)
        PROVE  IInv'
    <2> DEFINE h == [Idle EXCEPT !.step = "select", !.user = u, !.methods = m]
    <2>1. h \in Handler
      BY NullRecords DEF Idle, Handler, Steps
    <2>2. h.step = "select" /\ h.id = NoChallengeId
      BY DEF Idle
    <2>3. request[r].id = NoChallengeId
      BY <1>1 DEF CreateGate, IInv, Verifiers
    <2>4. challenge' = challenge /\ granted' = granted
      BY <1>1 DEF CreateGate, tables
    <2>5. CASE UNCHANGED request
      BY <2>4, <2>5, AnswerKeeps
    <2>6. CASE Becomes(r, h)
      <3> HIDE DEF h
      <3>1. \A c \in Challenges : ~Flying(h, c)
        BY <2>2 DEF Flying
      <3> QED BY <2>1, <2>2, <2>3, <2>4, <2>6, <3>1, HandlerKeeps
    <2> QED BY <1>1, <2>5, <2>6 DEF CreateGate
  <1>2. ASSUME CreateDispatch(r) PROVE IInv'
    <2> DEFINE h == [request[r] EXCEPT !.step = "put"]
    <2>1. h \in Handler
      BY <1>0, RecordTypes DEF Steps
    <2>2. h.step = "put" /\ h.id = request[r].id /\ h.row = request[r].row
      BY <1>0 DEF Handler
    <2>3. challenge' = challenge /\ granted' = granted
      BY <1>2 DEF CreateDispatch, tables
    <2>4. CASE Answer(r)
      BY <1>0, <2>3, <2>4, AnswerKeeps DEF Answer, Becomes, TypeOK
    <2>5. CASE Becomes(r, h)
      <3> HIDE DEF h
      <3>1. \A c \in Challenges : ~Flying(h, c)
        BY <2>2 DEF Flying
      <3>2. request[r].step = "dispatch"
        BY <1>2 DEF CreateDispatch
      <3> QED BY <2>1, <2>2, <2>3, <2>5, <3>1, <3>2, HandlerKeeps
    <2> QED BY <1>2, <2>4, <2>5 DEF CreateDispatch
  <1> QED BY <1>1, <1>2

\* The verify handlers' moves that touch no row.
LEMMA VerifyHandlerIInv ==
  ASSUME IInv, TypeOK', NEW r \in Requests
  PROVE  /\ \A c \in Challenges : VerifyGet(r, c) => IInv'
         /\ VerifyGate(r) => IInv'
         /\ VerifyAdapter(r) => IInv'
  <1>0. TypeOK /\ request[r] \in Handler
    BY DEF IInv, TypeOK
  <1>1. ASSUME NEW c \in Challenges, VerifyGet(r, c) PROVE IInv'
    <2> DEFINE h == [Idle EXCEPT !.step = "gate", !.id = c, !.row = challenge[c],
                                 !.user = challenge[c].user]
    <2>0. challenge[c] \in Row /\ challenge[c].user \in Users \cup {NoChallengeId}
      BY <1>0 DEF TypeOK, Row
    <2>1. h \in Handler
      BY <2>0, NullRecords DEF Idle, Handler, Steps
    <2>2. h.step = "gate" /\ h.id = c /\ h.row = challenge[c]
      BY DEF Idle
    <2>3. challenge' = challenge /\ granted' = granted /\ Becomes(r, h)
      BY <1>1 DEF VerifyGet, tables
    <2>4. request[r].step = "idle" /\ challenge[c].status # "unborn"
      BY <1>1 DEF VerifyGet, Stored, Terminal
    <2> HIDE DEF h
    <2>5. \A d \in Challenges : challenge[d].status # "pending" => ~Flying(h, d)
      BY <2>2 DEF Flying
    <2> QED BY <2>1, <2>2, <2>3, <2>4, <2>5, HandlerKeeps
  <1>2. ASSUME VerifyGate(r) PROVE IInv'
    <2>1. challenge' = challenge /\ granted' = granted
      BY <1>2 DEF VerifyGate, tables
    <2>2. CASE Answer(r)
      BY <1>0, <2>1, <2>2, AnswerKeeps DEF Answer, Becomes, TypeOK
    <2>3. ASSUME NEW st \in {"expire", "adapter"}, Proceed(r, st),
                 request[r].row.status = "pending"
          PROVE  IInv'
      <3> DEFINE h == [request[r] EXCEPT !.step = st, !.row = NoRow("unborn")]
      <3>1. h \in Handler
        BY <1>0, NullRecords, RecordTypes DEF Steps
      <3>2. h.step = st /\ h.id = request[r].id
        BY <1>0 DEF Handler
      <3>3. Becomes(r, h)
        BY <2>3 DEF Proceed
      <3> HIDE DEF h
      <3>4. request[r].step = "gate"
        BY <1>2 DEF VerifyGate
      <3>5. h.id \in Challenges /\ challenge[h.id].status # "unborn"
        BY <3>2, <3>4 DEF IInv, Verifiers
      <3>6. \A d \in Challenges : Flying(h, d) => Flying(request[r], d)
        BY <2>3, <3>2, <3>4 DEF Flying
      <3> QED BY <2>1, <3>1, <3>2, <3>3, <3>4, <3>5, <3>6, HandlerKeeps
    <2> QED BY <1>2, <2>2, <2>3 DEF VerifyGate
  <1>3. ASSUME VerifyAdapter(r) PROVE IInv'
    <2>1. challenge' = challenge /\ granted' = granted
      BY <1>3 DEF VerifyAdapter, tables
    <2>2. CASE Answer(r)
      BY <1>0, <2>1, <2>2, AnswerKeeps DEF Answer, Becomes, TypeOK
    <2>3. ASSUME NEW v \in BOOLEAN,
                 Becomes(r, [request[r] EXCEPT !.step = "record", !.verdict = v])
          PROVE  IInv'
      <3> DEFINE h == [request[r] EXCEPT !.step = "record", !.verdict = v]
      <3>1. h \in Handler
        BY <1>0, RecordTypes DEF Steps
      <3>2. h.step = "record" /\ h.id = request[r].id
        BY <1>0 DEF Handler
      <3>3. Becomes(r, h)
        BY <2>3
      <3> HIDE DEF h
      <3>4. request[r].step = "adapter"
        BY <1>3 DEF VerifyAdapter
      <3>5. h.id \in Challenges /\ challenge[h.id].status # "unborn"
        BY <3>2, <3>4 DEF IInv, Verifiers
      <3>6. \A d \in Challenges : Flying(h, d) => Flying(request[r], d)
        BY <3>2, <3>4 DEF Flying
      <3> QED BY <2>1, <3>1, <3>2, <3>3, <3>4, <3>5, <3>6, HandlerKeeps
    <2> QED BY <1>3, <2>2, <2>3 DEF VerifyAdapter
  <1> QED BY <1>1, <1>2, <1>3

\* Verify's lazy expiry keeps the invariant.
LEMMA VerifyExpireIInv ==
  ASSUME IInv, TypeOK', NEW r \in Requests, VerifyExpire(r)
  PROVE  IInv'
  <1> DEFINE c == request[r].id
  <1>1. c \in Challenges /\ challenge[c].status # "unborn"
    BY DEF VerifyExpire, IInv, Verifiers
  <1>2. /\ \A d \in Challenges :
             \/ challenge'[d] = challenge[d]
             \/ /\ challenge[d].status # "unborn"
                /\ challenge'[d].status = "expired"
                /\ challenge'[d].attempts = challenge[d].attempts
        /\ granted' = granted
        /\ \A s \in Requests : request'[s] \in {request[s], Idle}
    BY <1>1
    DEF VerifyExpire, UpdateChallenge, Answer, Becomes, IInv, TypeOK, Row
  <1> HIDE DEF c
  <1>3. Creators' /\ Verifiers'
    BY <1>2, RowsKeep
  <1>4. Open'
    BY <1>2 DEF IInv, Open
  <1>5. Budget'
    <2> SUFFICES ASSUME NEW d \in Challenges PROVE BudgetOf(d)'
      BY DEF Budget, BudgetOf
    <2>1. InFlight(d)' \subseteq InFlight(d)
      <3>1. Idle.step = "idle"
        BY DEF Idle
      <3> QED BY <1>2, <3>1 DEF InFlight, Flying
    <2>2. BudgetOf(d) /\ TypeOK
      BY DEF IInv, Budget, BudgetOf
    <2>3. challenge[d].attempts \in Nat
      BY <2>2, CountsTyped
    <2> QED BY <1>2, <2>1, <2>2, <2>3, BudgetKept
  <1> QED BY <1>3, <1>4, <1>5 DEF IInv

\* The sweeper keeps the invariant.
LEMMA PurgeIInv ==
  ASSUME IInv, TypeOK', PurgeExpired
  PROVE  IInv'
  <1>1. /\ \A d \in Challenges :
             \/ challenge'[d] = challenge[d]
             \/ /\ challenge[d].status \in {"pending", "expired"}
                /\ challenge'[d].status = "purged"
                /\ challenge'[d].attempts = 0
        /\ granted' = granted
        /\ \A s \in Requests : request'[s] = request[s]
    BY DEF PurgeExpired, Purgeable, NoRow, IInv, TypeOK
  <1>2. Creators' /\ Verifiers'
    BY <1>1, RowsKeep
  <1>3. Open'
    BY <1>1 DEF IInv, Open
  <1>4. Budget'
    <2> SUFFICES ASSUME NEW d \in Challenges PROVE BudgetOf(d)'
      BY DEF Budget, BudgetOf
    <2>1. InFlight(d)' \subseteq InFlight(d)
      BY <1>1 DEF InFlight
    <2>2. BudgetOf(d) /\ TypeOK
      BY DEF IInv, Budget, BudgetOf
    <2>3. challenge[d].attempts \in Nat
      BY <2>2, CountsTyped
    <2>4. challenge'[d].attempts <= challenge[d].attempts
      BY <1>1, <2>3
    <2> QED BY <1>1, <2>1, <2>2, <2>4, BudgetKept
  <1> QED BY <1>2, <1>3, <1>4 DEF IInv

\* What recording a verification does to each row: nothing; or it completes
\* it; or it adds a failure, which closes the row if it was the last allowed.
LEMMA RecordEffect ==
  ASSUME IInv, NEW r \in Requests, VerifyRecord(r)
  PROVE  /\ request[r].id \in Challenges
         /\ \A d \in Challenges :
              \/ challenge'[d] = challenge[d] /\ granted'[d] = granted[d]
              \/ /\ d = request[r].id /\ challenge[d].status \in Stored
                 /\ challenge'[d].status = "completed"
                 /\ challenge'[d].attempts = challenge[d].attempts
                 /\ granted'[d] = granted[d] + 1
              \/ /\ d = request[r].id /\ challenge[d].status \in Stored
                 /\ challenge'[d].attempts = challenge[d].attempts + 1
                 /\ granted'[d] = granted[d]
                 /\ challenge'[d].status \in {"failed", challenge[d].status}
                 /\ challenge'[d].status = "pending" =>
                      challenge'[d].attempts < MaxChallengeAttempts
         /\ \A s \in Requests :
              \/ request'[s] \in {request[s], Idle}
              \/ /\ request[s].step = "record" /\ request'[s].step = "count"
                 /\ request'[s].id = request[s].id
         /\ request[r].step = "record"
         /\ request'[r].step \in {"idle", "count"}
         /\ \A s \in Requests : s # r => request'[s] = request[s]
  <1> DEFINE c == request[r].id
             ok == request[r].verdict
             hit == challenge[c].status \in Stored
  <1>0. TypeOK /\ request[r] \in Handler /\ request[r].step = "record"
    BY DEF IInv, TypeOK, VerifyRecord
  <1>1. c \in Challenges
    BY <1>0 DEF IInv, Verifiers
  <1>2. challenge[c] \in Row /\ granted[c] \in Nat
    BY <1>0, <1>1 DEF TypeOK
  <1>3. /\ Failed(challenge[c]).attempts = challenge[c].attempts + 1
        /\ Failed(challenge[c]).status \in {"failed", challenge[c].status}
        /\ Failed(challenge[c]).status = "pending" =>
             challenge[c].attempts + 1 < MaxChallengeAttempts
    <2>1. challenge[c].attempts + 1 \in Nat
      BY <1>2 DEF Row
    <2>2. challenge[c].attempts + 1 >= MaxChallengeAttempts
            => Failed(challenge[c]).status = "failed"
      BY <1>2 DEF Failed, Row
    <2>3. /\ Failed(challenge[c]).attempts = challenge[c].attempts + 1
          /\ Failed(challenge[c]).status \in {"failed", challenge[c].status}
      BY <1>2 DEF Failed, Row
    <2> QED BY <2>1, <2>2, <2>3, CountsAssumption
  <1>4. [challenge[c] EXCEPT !.status = "completed"].status = "completed"
        /\ [challenge[c] EXCEPT !.status = "completed"].attempts = challenge[c].attempts
    BY <1>2 DEF Row
  <1>5. /\ UpdateChallenge(c, IF ok THEN [challenge[c] EXCEPT !.status = "completed"]
                              ELSE Failed(challenge[c]))
        /\ granted' = [granted EXCEPT ![c] = IF ok /\ hit THEN @ + 1 ELSE @]
        /\ IF hit /\ ~ok THEN Becomes(r, [request[r] EXCEPT !.step = "count"])
           ELSE Answer(r)
    BY DEF VerifyRecord
  <1>6. ok \in BOOLEAN
    BY <1>0 DEF Handler
  <1>7. \A s \in Requests : s # r => request'[s] = request[s]
    BY <1>0, <1>5 DEF Becomes, Answer, TypeOK
  <1>8. \/ request'[r] = Idle
        \/ request'[r] = [request[r] EXCEPT !.step = "count"]
    BY <1>0, <1>5 DEF Becomes, Answer, TypeOK
  <1>9. [request[r] EXCEPT !.step = "count"].step = "count"
        /\ [request[r] EXCEPT !.step = "count"].id = c /\ Idle.step = "idle"
    BY <1>0 DEF Handler, Idle
  <1>10. \A d \in Challenges :
           d # c => challenge'[d] = challenge[d] /\ granted'[d] = granted[d]
    BY <1>0, <1>5 DEF UpdateChallenge, TypeOK
  <1>14. \A s \in Requests :
           \/ request'[s] \in {request[s], Idle}
           \/ /\ request[s].step = "record" /\ request'[s].step = "count"
              /\ request'[s].id = request[s].id
    BY <1>0, <1>7, <1>8, <1>9
  <1>15. request'[r].step \in {"idle", "count"}
    BY <1>8, <1>9
  <1>11. CASE ~hit
    <2>1. challenge'[c] = challenge[c] /\ granted'[c] = granted[c]
      BY <1>0, <1>1, <1>5, <1>11 DEF UpdateChallenge, TypeOK
    <2> QED BY <1>0, <1>1, <1>7, <1>10, <1>14, <1>15, <2>1
  <1>12. CASE hit /\ ok
    <2>1. /\ challenge'[c] = [challenge[c] EXCEPT !.status = "completed"]
          /\ granted'[c] = granted[c] + 1
      BY <1>0, <1>1, <1>5, <1>12 DEF UpdateChallenge, TypeOK
    <2>2. challenge[c].status \in Stored
      BY <1>12
    <2>3. /\ challenge'[c].status = "completed"
          /\ challenge'[c].attempts = challenge[c].attempts
          /\ granted'[c] = granted[c] + 1
      BY <1>4, <2>1
    <2> QED BY <1>0, <1>1, <1>7, <1>10, <1>14, <1>15, <2>2, <2>3
  <1>13. CASE hit /\ ~ok
    <2>1. challenge'[c] = Failed(challenge[c]) /\ granted'[c] = granted[c]
      BY <1>0, <1>1, <1>5, <1>13 DEF UpdateChallenge, TypeOK
    <2>2. challenge[c].status \in Stored
      BY <1>13
    <2>3. /\ challenge'[c].attempts = challenge[c].attempts + 1
          /\ granted'[c] = granted[c]
          /\ challenge'[c].status \in {"failed", challenge[c].status}
          /\ challenge'[c].status = "pending" =>
               challenge'[c].attempts < MaxChallengeAttempts
      BY <1>3, <2>1
    <2> QED BY <1>0, <1>1, <1>7, <1>10, <1>14, <1>15, <2>2, <2>3
  <1> QED BY <1>6, <1>11, <1>12, <1>13

\* Verify's write of the row, the one step that counts an attempt, keeps it.
LEMMA VerifyRecordIInv ==
  ASSUME IInv, TypeOK', NEW r \in Requests, VerifyRecord(r)
  PROVE  IInv'
  <1>0. TypeOK
    BY DEF IInv
  <1>1. Creators' /\ Verifiers'
    BY RecordEffect, RowsKeep DEF Stored, Terminal
  <1>2. Open'
    <2> SUFFICES ASSUME NEW d \in Challenges
                 PROVE  /\ challenge'[d].status = "unborn" =>
                             challenge'[d].attempts = 0 /\ granted'[d] = 0
                        /\ challenge'[d].status = "pending" =>
                             challenge'[d].attempts < MaxChallengeAttempts
                             /\ granted'[d] = 0
      BY DEF Open
    <2> QED BY RecordEffect DEF IInv, Open, Stored, Terminal
  <1>3. Budget'
    <2> SUFFICES ASSUME NEW d \in Challenges PROVE BudgetOf(d)'
      BY DEF Budget, BudgetOf
    <2>1. BudgetOf(d)
      BY DEF IInv, Budget, BudgetOf
    <2>2. challenge[d].attempts \in Nat /\ granted[d] \in Nat
      BY <1>0, CountsTyped
    <2>3. InFlight(d)' \subseteq InFlight(d)
      <3>1. Idle.step = "idle"
        BY DEF Idle
      <3> QED BY RecordEffect, <3>1 DEF InFlight, Flying
    <2>4. CASE d # request[r].id
      <3>1. challenge'[d] = challenge[d] /\ granted'[d] = granted[d]
        BY <2>4, RecordEffect
      <3> QED BY <1>0, <2>1, <2>2, <2>3, <3>1, BudgetKept
    <2>5. CASE d = request[r].id
      <3>1. r \in InFlight(d) /\ r \notin InFlight(d)'
        BY <2>5, RecordEffect DEF InFlight, Flying
      <3>2. challenge'[d].attempts + granted'[d]
              <= challenge[d].attempts + granted[d] + 1
        BY <2>2, RecordEffect
      <3> QED BY <1>0, <2>1, <2>3, <3>1, <3>2, BudgetSpent
    <2> QED BY <2>4, <2>5
  <1> QED BY <1>1, <1>2, <1>3 DEF IInv

\* Every step keeps the invariant.
LEMMA NextIInv == IInv /\ [Next]_vars => IInv'
  <1> SUFFICES ASSUME IInv, [Next]_vars PROVE IInv'
    OBVIOUS
  <1>0. TypeOK'
    BY NextTypeOK DEF IInv
  <1>1. ASSUME NEW a \in Authenticators, Enroll(a) \/ DisableAuthenticator(a)
        PROVE  IInv'
    BY <1>0, <1>1, AnswerKeeps DEF Enroll, DisableAuthenticator
  <1>2. ASSUME NEW r \in Requests, VerifyCount(r) \/ StoreError(r) PROVE IInv'
    BY <1>0, <1>2, AnswerKeeps
    DEF VerifyCount, StoreError, Answer, Becomes, tables, IInv, TypeOK
  <1>3. CASE Restart
    BY <1>0, <1>3, AnswerKeeps DEF Restart, tables
  <1>4. CASE Tick
    BY <1>0, <1>4, AnswerKeeps DEF Tick, tables
  <1>5. CASE UNCHANGED vars
    BY <1>0, <1>5, AnswerKeeps DEF vars
  <1> QED
    BY <1>0, <1>1, <1>2, <1>3, <1>4, <1>5, CreateHandlerIInv, CreateSelectIInv,
       CreatePutIInv, VerifyHandlerIInv, VerifyExpireIInv, VerifyRecordIInv, PurgeIInv
    DEF Next, Step

\* The inductive invariant holds of every behaviour of the service.
THEOREM IInvHolds == Spec => []IInv
  BY InitIInv, NextIInv, PTL DEF Spec

-----------------------------------------------------------------------------
(* What follows *)

\* Whatever the interleaving of Verify's store calls, a challenge takes no
\* more verdicts than its attempts allow plus one per overlapping request.
THEOREM Bounded == Spec => []VerdictsBounded
  <1>1. ASSUME IInv PROVE VerdictsBounded
    <2> SUFFICES ASSUME NEW c \in Challenges
                 PROVE  challenge[c].attempts + granted[c]
                          <= (MaxChallengeAttempts - 1) + Cardinality(Requests)
      BY DEF VerdictsBounded
    <2>1. challenge[c].attempts \in Nat /\ granted[c] \in Nat
      BY <1>1, CountsTyped DEF IInv
    <2> QED
      BY <1>1, <2>1, InFlightFinite, CountsAssumption DEF IInv, Budget
  <1> QED BY <1>1, IInvHolds, PTL

\* UpdateChallenge never leaves a challenge pending that was granted or has
\* used up its attempts.
THEOREM Closed == Spec => []SpentIsClosed
  <1>1. ASSUME IInv PROVE SpentIsClosed
    <2>1. ASSUME NEW c \in Challenges
          PROVE  /\ challenge[c].status = "pending" =>
                      granted[c] = 0 /\ challenge[c].attempts < MaxChallengeAttempts
                 /\ challenge[c].attempts \in Nat /\ granted[c] \in Nat
      BY <1>1, CountsTyped DEF IInv, Open
    <2> QED BY <2>1, CountsAssumption DEF SpentIsClosed
  <1> QED BY <1>1, IInvHolds, PTL

\* Only an insert makes a row pending, and only on an id without a row; an
\* UpdateChallenge that misses writes nothing.
THEOREM NotReopened == Spec => NeverReopened
  <1>1. ASSUME IInv, Next, NEW c \in Challenges PROVE StaysClosed(c)
    <2>0. TypeOK
      BY <1>1 DEF IInv
    <2>1. CASE challenge' = challenge
      BY <2>1 DEF StaysClosed
    <2>2. ASSUME NEW r \in Requests, CreatePut(r) PROVE StaysClosed(c)
      <3>1. challenge[request[r].id].status = "unborn"
        BY <1>1, <2>2 DEF CreatePut, IInv, Creators
      <3>2. c # request[r].id => challenge'[c] = challenge[c]
        BY <1>1, <2>0, <2>2 DEF CreatePut, TypeOK
      <3> QED BY <3>1, <3>2 DEF StaysClosed
    <2>3. ASSUME NEW r \in Requests, VerifyExpire(r) PROVE StaysClosed(c)
      <3>1. \/ challenge'[c] = challenge[c]
            \/ challenge[c].status \in Stored /\ challenge'[c].status = "expired"
        BY <1>1, <2>0, <2>3 DEF VerifyExpire, UpdateChallenge, TypeOK, Row
      <3> QED BY <3>1 DEF StaysClosed, Stored, Terminal
    <2>4. ASSUME NEW r \in Requests, VerifyRecord(r) PROVE StaysClosed(c)
      BY <1>1, <2>4, RecordEffect DEF StaysClosed, Stored, Terminal
    <2>5. CASE PurgeExpired
      BY <1>1, <2>0, <2>5 DEF PurgeExpired, Purgeable, NoRow, TypeOK, StaysClosed
    <2> QED
      BY <1>1, <2>1, <2>2, <2>3, <2>4, <2>5
      DEF Next, Step, Enroll, DisableAuthenticator, CreateGate, CreateSelect,
          CreateDispatch, VerifyGet, VerifyGate, VerifyAdapter, VerifyCount,
          StoreError, Restart, Tick, tables
  <1>2. ASSUME IInv, [Next]_vars
        PROVE  [AllStayClosed]_vars
    BY <1>1, <1>2 DEF AllStayClosed
  <1> QED BY <1>2, IInvHolds, PTL DEF Spec, NeverReopened

-----------------------------------------------------------------------------
(* One verification at a time *)

\* No two requests overlap.
OneAtATime == \A r, s \in Requests : r = s

\* A challenge is failed when its attempts are used up and not before, and one
\* that was answered `verified: true`, once, stays completed.
Exact ==
  \A c \in Challenges :
    /\ challenge[c].attempts <= MaxChallengeAttempts
    /\ challenge[c].status = "failed" <=> challenge[c].attempts = MaxChallengeAttempts
    /\ granted[c] <= 1
    /\ granted[c] > 0 => challenge[c].status = "completed"

\* The row of a swept challenge is gone, its attempts with it.
SweptRows == \A c \in Challenges : challenge[c].status = "purged" => challenge[c].attempts = 0

\* The row a handler decides on is the row there is, unless the sweeper took
\* it; from its gate on the challenge is pending or swept, and out of backoff.
Fit(h) ==
  /\ h.step = "gate" => challenge[h.id] = h.row \/ challenge[h.id].status = "purged"
  /\ h.step \in {"expire", "adapter", "record"} =>
       challenge[h.id].status \in {"pending", "purged"}
  /\ h.step \in {"adapter", "record"} => ~BackingOff(challenge[h.id])

HandlersFit == \A r \in Requests : Fit(request[r])

SoloInv == Exact /\ SweptRows /\ HandlersFit

\* The invariant holds of the empty tables.
LEMMA InitSolo == Init => SoloInv
  BY CountsAssumption DEF Init, SoloInv, Exact, SweptRows, HandlersFit, Fit, NoRow, Idle

\* A handler with nothing to verify fits.
LEMMA OthersFit ==
  ASSUME NEW h, h.step \notin {"gate", "expire", "adapter", "record"}
  PROVE  Fit(h)'
  BY DEF Fit

\* There is one handler to look at.
LEMMA OneHandler ==
  ASSUME OneAtATime, NEW r \in Requests, NEW h, request'[r] = h, Fit(h)'
  PROVE  HandlersFit'
  <1>1. \A q \in Requests : request'[q] = h
    BY DEF OneAtATime
  <1> QED BY <1>1 DEF HandlersFit

\* A handler that answers fits.
LEMMA AnsweredFits ==
  ASSUME OneAtATime, TypeOK, NEW r \in Requests, Answer(r)
  PROVE  HandlersFit'
  <1>1. request'[r] = Idle
    BY DEF Answer, Becomes, TypeOK
  <1>2. PICK h : h = Idle
    OBVIOUS
  <1>3. h.step = "idle"
    BY <1>2 DEF Idle
  <1> QED BY <1>1, <1>2, <1>3, OthersFit, OneHandler

\* What a handler becomes.
LEMMA BecomesIs ==
  ASSUME TypeOK, NEW r \in Requests, NEW h, Becomes(r, h)
  PROVE  request'[r] = h
  BY DEF TypeOK, Becomes

\* Rows left alone are exact still.
LEMMA ExactKept ==
  ASSUME SoloInv, challenge' = challenge, granted' = granted
  PROVE  Exact' /\ SweptRows'
  BY DEF SoloInv, Exact, SweptRows

\* Steps that change neither rows nor handlers nor the clock.
LEMMA NothingMoves ==
  ASSUME SoloInv, UNCHANGED <<now, challenge, granted, request>>
  PROVE  SoloInv'
  <1>1. HandlersFit'
    BY DEF SoloInv, HandlersFit, Fit, BackingOff
  <1> QED BY <1>1, ExactKept DEF SoloInv

\* Create, up to the insert.
LEMMA CreateSolo ==
  ASSUME OneAtATime, IInv, SoloInv, NEW r \in Requests,
         \/ \E u \in Users, m \in MethodLists : CreateGate(r, u, m)
         \/ \E c \in Challenges : CreateSelect(r, c)
         \/ CreateDispatch(r)
  PROVE  SoloInv'
  <1>0. TypeOK /\ request[r] \in Handler
    BY DEF IInv, TypeOK
  <1>1. UNCHANGED <<now, challenge, granted>>
    BY DEF CreateGate, CreateSelect, CreateDispatch, tables
  <1>2. Exact' /\ SweptRows'
    BY <1>1, ExactKept
  <1>3. ASSUME NEW u \in Users, NEW m \in MethodLists, CreateGate(r, u, m)
        PROVE  SoloInv'
    <2>1. CASE UNCHANGED request
      BY <1>1, <2>1, NothingMoves
    <2>2. CASE Becomes(r, [Idle EXCEPT !.step = "select", !.user = u, !.methods = m])
      <3>1. PICK h : h = [Idle EXCEPT !.step = "select", !.user = u, !.methods = m]
        OBVIOUS
      <3>2. h.step = "select"
        BY <3>1 DEF Idle
      <3> QED BY <1>0, <1>2, <2>2, <3>1, <3>2, BecomesIs, OthersFit, OneHandler DEF SoloInv
    <2> QED BY <1>3, <2>1, <2>2 DEF CreateGate
  <1>4. ASSUME NEW c \in Challenges, CreateSelect(r, c) PROVE SoloInv'
    <2>1. CASE Answer(r)
      BY <1>0, <1>2, <2>1, AnsweredFits DEF SoloInv
    <2>2. ASSUME NEW w, Becomes(r, [request[r] EXCEPT !.step = "dispatch", !.id = c,
                                                      !.row = w])
          PROVE  SoloInv'
      <3>1. PICK h : h = [request[r] EXCEPT !.step = "dispatch", !.id = c, !.row = w]
        OBVIOUS
      <3>2. h.step = "dispatch"
        BY <1>0, <3>1 DEF Handler
      <3> QED BY <1>0, <1>2, <2>2, <3>1, <3>2, BecomesIs, OthersFit, OneHandler DEF SoloInv
    <2> QED BY <1>4, <2>1, <2>2 DEF CreateSelect
  <1>5. CASE CreateDispatch(r)
    <2>1. CASE Answer(r)
      BY <1>0, <1>2, <2>1, AnsweredFits DEF SoloInv
    <2>2. CASE Becomes(r, [request[r] EXCEPT !.step = "put"])
      <3>1. PICK h : h = [request[r] EXCEPT !.step = "put"]
        OBVIOUS
      <3>2. h.step = "put"
        BY <1>0, <3>1 DEF Handler
      <3> QED BY <1>0, <1>2, <2>2, <3>1, <3>2, BecomesIs, OthersFit, OneHandler DEF SoloInv
    <2> QED BY <1>5, <2>1, <2>2 DEF CreateDispatch
  <1> QED BY <1>3, <1>4, <1>5

\* The insert.
LEMMA CreatePutSolo ==
  ASSUME OneAtATime, IInv, SoloInv, NEW r \in Requests, CreatePut(r)
  PROVE  SoloInv'
  <1>0. TypeOK
    BY DEF IInv
  <1>1. PICK c : c = request[r].id
    OBVIOUS
  <1>2. /\ c \in Challenges /\ request[r].row.status = "pending"
        /\ request[r].row.attempts = 0 /\ granted[c] = 0
    BY <1>1 DEF IInv, Creators, Open, CreatePut
  <1>3. /\ challenge'[c] = request[r].row /\ granted' = granted /\ Answer(r)
        /\ \A d \in Challenges : d # c => challenge'[d] = challenge[d]
    BY <1>0, <1>1, <1>2 DEF CreatePut, TypeOK
  <1>4. Exact' /\ SweptRows'
    BY <1>2, <1>3, CountsAssumption DEF SoloInv, Exact, SweptRows
  <1> QED BY <1>0, <1>3, <1>4, AnsweredFits DEF SoloInv

\* Verify, up to the vendor's verdict.
LEMMA VerifySolo ==
  ASSUME OneAtATime, IInv, SoloInv, NEW r \in Requests,
         \/ \E c \in Challenges : VerifyGet(r, c)
         \/ VerifyGate(r) \/ VerifyAdapter(r)
  PROVE  SoloInv'
  <1>0. TypeOK /\ request[r] \in Handler
    BY DEF IInv, TypeOK
  <1>1. UNCHANGED <<now, challenge, granted>>
    BY DEF VerifyGet, VerifyGate, VerifyAdapter, tables
  <1>2. Exact' /\ SweptRows'
    BY <1>1, ExactKept
  <1>3. PICK g : g = request[r]
    OBVIOUS
  <1>4. Fit(g)
    BY <1>3 DEF SoloInv, HandlersFit
  <1>5. ASSUME NEW c \in Challenges, VerifyGet(r, c) PROVE SoloInv'
    <2>1. PICK h : h = [Idle EXCEPT !.step = "gate", !.id = c, !.row = challenge[c],
                                    !.user = challenge[c].user]
      OBVIOUS
    <2>2. h.step = "gate" /\ h.id = c /\ h.row = challenge[c]
      BY <2>1 DEF Idle
    <2>3. request'[r] = h
      BY <1>0, <1>5, <2>1, BecomesIs DEF VerifyGet
    <2>4. Fit(h)'
      BY <1>1, <2>2 DEF Fit
    <2> QED BY <1>2, <2>3, <2>4, OneHandler DEF SoloInv
  <1>6. CASE VerifyGate(r)
    <2>1. CASE Answer(r)
      BY <1>0, <1>2, <2>1, AnsweredFits DEF SoloInv
    <2>2. ASSUME NEW st \in {"expire", "adapter"}, Proceed(r, st),
                 g.row.status = "pending", st = "adapter" => ~BackingOff(g.row)
          PROVE  SoloInv'
      <3>1. PICK h : h = [g EXCEPT !.step = st, !.row = NoRow("unborn")]
        OBVIOUS
      <3>2. h.step = st /\ h.id = g.id
        BY <1>0, <1>3, <3>1 DEF Handler
      <3>3. request'[r] = h
        BY <1>0, <1>3, <2>2, <3>1, BecomesIs DEF Proceed
      <3>4. g.step = "gate" /\ g.id \in Challenges
        BY <1>3, <1>6 DEF VerifyGate, IInv, Verifiers
      <3>5. PICK w : w = challenge[g.id]
        OBVIOUS
      <3>6. w = g.row \/ w.status = "purged"
        BY <1>4, <3>4, <3>5 DEF Fit
      <3>7. w.status = "purged" => w.attempts = 0
        BY <3>4, <3>5 DEF SoloInv, SweptRows
      <3>8. w.status \in {"pending", "purged"} /\ (st = "adapter" => ~BackingOff(w))
        BY <2>2, <3>6, <3>7 DEF BackingOff
      <3>9. Fit(h)'
        BY <1>1, <3>2, <3>5, <3>8 DEF Fit, BackingOff
      <3> QED BY <1>2, <3>3, <3>9, OneHandler DEF SoloInv
    <2> QED BY <1>3, <1>6, <2>1, <2>2 DEF VerifyGate
  <1>7. CASE VerifyAdapter(r)
    <2>1. CASE Answer(r)
      BY <1>0, <1>2, <2>1, AnsweredFits DEF SoloInv
    <2>2. ASSUME NEW v \in BOOLEAN,
                 Becomes(r, [g EXCEPT !.step = "record", !.verdict = v])
          PROVE  SoloInv'
      <3>1. PICK h : h = [g EXCEPT !.step = "record", !.verdict = v]
        OBVIOUS
      <3>2. h.step = "record" /\ h.id = g.id /\ g.step = "adapter"
        BY <1>0, <1>3, <1>7, <3>1 DEF Handler, VerifyAdapter
      <3>3. request'[r] = h
        BY <1>0, <2>2, <3>1, BecomesIs
      <3>4. Fit(h)'
        BY <1>1, <1>4, <3>2 DEF Fit, BackingOff
      <3> QED BY <1>2, <3>3, <3>4, OneHandler DEF SoloInv
    <2> QED BY <1>3, <1>7, <2>1, <2>2 DEF VerifyAdapter
  <1> QED BY <1>5, <1>6, <1>7

\* UpdateChallenge writes at most the one row.
LEMMA Updated ==
  ASSUME TypeOK, NEW c \in Challenges, NEW w, UpdateChallenge(c, w)
  PROVE  /\ challenge'[c] = IF challenge[c].status \in Stored THEN w ELSE challenge[c]
         /\ \A d \in Challenges : d # c => challenge'[d] = challenge[d]
  BY DEF UpdateChallenge, TypeOK

\* The lazy flip finds the challenge pending, or swept.
LEMMA VerifyExpireDoes ==
  ASSUME IInv, SoloInv, NEW r \in Requests, VerifyExpire(r)
  PROVE  \A d \in Challenges :
           \/ challenge'[d] = challenge[d]
           \/ /\ challenge[d].status = "pending"
              /\ challenge'[d].status = "expired"
              /\ challenge'[d].attempts = challenge[d].attempts
  <1>0. TypeOK
    BY DEF IInv
  <1>1. PICK c : c = request[r].id
    OBVIOUS
  <1>2. c \in Challenges /\ challenge[c].status \in {"pending", "purged"}
    BY <1>1 DEF VerifyExpire, IInv, Verifiers, SoloInv, HandlersFit, Fit
  <1>3. challenge[c] \in Row
    BY <1>0, <1>2 DEF TypeOK
  <1>4. PICK w : w = [challenge[c] EXCEPT !.status = "expired"]
    OBVIOUS
  <1>5. w.status = "expired" /\ w.attempts = challenge[c].attempts
    BY <1>3, <1>4 DEF Row
  <1>6. UpdateChallenge(c, w)
    BY <1>1, <1>4 DEF VerifyExpire
  <1> QED BY <1>0, <1>2, <1>5, <1>6, Updated DEF Stored, Terminal

\* The lazy flip.
LEMMA VerifyExpireSolo ==
  ASSUME OneAtATime, IInv, SoloInv, NEW r \in Requests, VerifyExpire(r)
  PROVE  SoloInv'
  <1>0. TypeOK /\ granted' = granted /\ Answer(r)
    BY DEF IInv, VerifyExpire
  <1>1. \A d \in Challenges : granted[d] \in Nat /\ challenge[d].attempts \in Nat
    BY <1>0, CountsTyped
  <1>2. Exact'
    <2> SUFFICES ASSUME NEW d \in Challenges
                 PROVE  /\ challenge'[d].attempts <= MaxChallengeAttempts
                        /\ challenge'[d].status = "failed"
                             <=> challenge'[d].attempts = MaxChallengeAttempts
                        /\ granted'[d] <= 1
                        /\ granted'[d] > 0 => challenge'[d].status = "completed"
      BY DEF Exact
    <2>1. CASE challenge'[d] = challenge[d]
      BY <1>0, <2>1 DEF SoloInv, Exact
    <2>2. CASE /\ challenge[d].status = "pending"
               /\ challenge'[d].status = "expired"
               /\ challenge'[d].attempts = challenge[d].attempts
      BY <1>0, <1>1, <2>2 DEF SoloInv, Exact
    <2> QED BY <2>1, <2>2, VerifyExpireDoes
  <1>3. SweptRows'
    BY VerifyExpireDoes DEF SoloInv, SweptRows
  <1> QED BY <1>0, <1>2, <1>3, AnsweredFits DEF SoloInv

\* The mutator finds the challenge pending and out of backoff, or swept; a
\* failure more closes it exactly when it was the last.
LEMMA VerifyRecordDoes ==
  ASSUME IInv, SoloInv, NEW r \in Requests, VerifyRecord(r)
  PROVE  \A d \in Challenges :
           \/ challenge'[d] = challenge[d] /\ granted'[d] = granted[d]
           \/ /\ challenge[d].status = "pending" /\ granted[d] = 0
              /\ challenge[d].attempts < MaxChallengeAttempts
              /\ \/ /\ challenge'[d].status = "completed"
                    /\ challenge'[d].attempts = challenge[d].attempts
                    /\ granted'[d] = 1
                 \/ /\ challenge'[d].attempts = challenge[d].attempts + 1
                    /\ challenge'[d].lastAttemptAt = now
                    /\ challenge'[d].status =
                         IF challenge[d].attempts + 1 >= MaxChallengeAttempts
                         THEN "failed" ELSE "pending"
                    /\ granted'[d] = 0
                    /\ ~BackingOff(challenge[d])
  <1>0. TypeOK
    BY DEF IInv
  <1>1. PICK h : h = request[r]
    OBVIOUS
  <1>2. PICK c : c = h.id
    OBVIOUS
  <1>3. /\ h \in Handler /\ h.step = "record" /\ c \in Challenges /\ Fit(h)
        /\ h.verdict \in BOOLEAN
    BY <1>1, <1>2 DEF VerifyRecord, IInv, TypeOK, Verifiers, SoloInv, HandlersFit, Handler
  <1>4. PICK w : w = challenge[c]
    OBVIOUS
  <1>5. w \in Row /\ w.status \in {"pending", "purged"} /\ ~BackingOff(w)
    BY <1>0, <1>2, <1>3, <1>4 DEF Fit, TypeOK
  <1>6. /\ UpdateChallenge(c, IF h.verdict THEN [w EXCEPT !.status = "completed"]
                              ELSE Failed(w))
        /\ granted' = [granted EXCEPT ![c] =
                         IF h.verdict /\ w.status \in Stored THEN @ + 1 ELSE @]
    BY <1>1, <1>2, <1>4 DEF VerifyRecord
  <1>7. \A d \in Challenges :
          d # c => challenge'[d] = challenge[d] /\ granted'[d] = granted[d]
    BY <1>0, <1>3, <1>6, Updated DEF TypeOK
  <1>8. w.status = "pending" => granted[c] = 0 /\ w.attempts < MaxChallengeAttempts
    BY <1>3, <1>4 DEF IInv, Open
  <1>9. CASE w.status = "purged"
    <2>1. challenge'[c] = w /\ granted'[c] = granted[c]
      BY <1>0, <1>3, <1>4, <1>6, <1>9, Updated DEF Stored, Terminal, TypeOK
    <2> QED BY <1>4, <1>7, <2>1
  <1>10. CASE w.status = "pending" /\ h.verdict
    <2>1. challenge'[c] = [w EXCEPT !.status = "completed"]
      BY <1>0, <1>3, <1>4, <1>6, <1>10, Updated DEF Stored
    <2>2. challenge'[c].status = "completed" /\ challenge'[c].attempts = w.attempts
      BY <1>5, <2>1 DEF Row
    <2>3. granted'[c] = 1
      BY <1>0, <1>3, <1>6, <1>8, <1>10 DEF TypeOK, Stored
    <2> QED BY <1>4, <1>7, <1>8, <1>10, <2>2, <2>3
  <1>11. CASE w.status = "pending" /\ ~h.verdict
    <2>1. challenge'[c] = Failed(w)
      BY <1>0, <1>3, <1>4, <1>6, <1>11, Updated DEF Stored
    <2>2. /\ Failed(w).attempts = w.attempts + 1 /\ Failed(w).lastAttemptAt = now
          /\ Failed(w).status = IF w.attempts + 1 >= MaxChallengeAttempts
                                THEN "failed" ELSE w.status
      BY <1>5 DEF Failed, Row
    <2>3. granted'[c] = 0
      BY <1>0, <1>3, <1>6, <1>8, <1>11 DEF TypeOK
    <2> QED BY <1>4, <1>5, <1>7, <1>8, <1>11, <2>1, <2>2, <2>3
  <1> QED BY <1>3, <1>5, <1>9, <1>10, <1>11

\* The mutator's write.
LEMMA VerifyRecordSolo ==
  ASSUME OneAtATime, IInv, SoloInv, NEW r \in Requests, VerifyRecord(r)
  PROVE  SoloInv'
  <1>0. TypeOK
    BY DEF IInv
  <1>1. \A d \in Challenges : granted[d] \in Nat /\ challenge[d].attempts \in Nat
    BY <1>0, CountsTyped
  <1>2. Exact'
    <2> SUFFICES ASSUME NEW d \in Challenges
                 PROVE  /\ challenge'[d].attempts <= MaxChallengeAttempts
                        /\ challenge'[d].status = "failed"
                             <=> challenge'[d].attempts = MaxChallengeAttempts
                        /\ granted'[d] <= 1
                        /\ granted'[d] > 0 => challenge'[d].status = "completed"
      BY DEF Exact
    <2>1. CASE challenge'[d] = challenge[d] /\ granted'[d] = granted[d]
      BY <2>1 DEF SoloInv, Exact
    <2>2. CASE ~(challenge'[d] = challenge[d] /\ granted'[d] = granted[d])
      BY <1>1, <2>2, VerifyRecordDoes, CountsAssumption
    <2> QED BY <2>1, <2>2
  <1>3. SweptRows'
    <2> SUFFICES ASSUME NEW d \in Challenges, challenge'[d].status = "purged"
                 PROVE  challenge'[d].attempts = 0
      BY DEF SweptRows
    <2>1. challenge'[d] = challenge[d]
      BY VerifyRecordDoes
    <2> QED BY <2>1 DEF SoloInv, SweptRows
  <1>4. HandlersFit'
    <2>1. \A s \in Requests : request'[s].step \in {"idle", "count"}
      BY RecordEffect DEF OneAtATime
    <2> QED BY <2>1 DEF HandlersFit, Fit
  <1> QED BY <1>2, <1>3, <1>4 DEF SoloInv

\* The rest of the handlers' steps.
LEMMA OtherStepsSolo ==
  ASSUME OneAtATime, IInv, SoloInv, NEW r \in Requests, VerifyCount(r) \/ StoreError(r)
  PROVE  SoloInv'
  <1>1. TypeOK /\ challenge' = challenge /\ granted' = granted /\ Answer(r)
    BY DEF IInv, VerifyCount, StoreError, tables
  <1> QED BY <1>1, ExactKept, AnsweredFits DEF SoloInv

\* The sweeper takes no row that counts.
LEMMA PurgeSolo ==
  ASSUME OneAtATime, IInv, SoloInv, PurgeExpired
  PROVE  SoloInv'
  <1>1. /\ \A d \in Challenges :
             \/ challenge'[d] = challenge[d]
             \/ /\ challenge[d].status \in {"pending", "expired"}
                /\ challenge'[d].status = "purged" /\ challenge'[d].attempts = 0
        /\ granted' = granted /\ now' = now /\ request' = request
    BY DEF PurgeExpired, Purgeable, NoRow, IInv, TypeOK
  <1>2. Exact' /\ SweptRows'
    BY <1>1, CountsAssumption DEF SoloInv, Exact, SweptRows
  <1>3. HandlersFit'
    <2> SUFFICES ASSUME NEW r \in Requests PROVE Fit(request[r])'
      BY <1>1 DEF HandlersFit
    <2>1. PICK h : h = request[r] /\ h = request'[r]
      BY <1>1
    <2>2. Fit(h)
      BY <2>1 DEF SoloInv, HandlersFit
    <2>3. h.step \in {"gate", "expire", "adapter", "record"} => h.id \in Challenges
      BY <2>1 DEF IInv, Verifiers
    <2>4. Fit(h)'
      BY <1>1, <2>2, <2>3 DEF Fit, BackingOff
    <2> QED BY <2>1, <2>4
  <1> QED BY <1>2, <1>3 DEF SoloInv

\* Time only takes a challenge further out of backoff.
LEMMA TickSolo ==
  ASSUME OneAtATime, IInv, SoloInv, Tick
  PROVE  SoloInv'
  <1>1. challenge' = challenge /\ granted' = granted /\ request' = request
        /\ now' = now + 1
    BY DEF Tick, tables
  <1>2. HandlersFit'
    <2> SUFFICES ASSUME NEW r \in Requests PROVE Fit(request[r])'
      BY <1>1 DEF HandlersFit
    <2>1. PICK h : h = request[r] /\ h = request'[r]
      BY <1>1
    <2>2. Fit(h)
      BY <2>1 DEF SoloInv, HandlersFit
    <2>3. ASSUME NEW w \in Row, ~BackingOff(w) PROVE ~BackingOff(w)'
      <3>1. now \in Nat /\ w.attempts \in Nat /\ w.lastAttemptAt \in Nat
        BY MaxTimeAssumption DEF IInv, TypeOK, Time, Row
      <3> QED BY <1>1, <2>3, <3>1 DEF BackingOff
    <2>4. PICK w : w = challenge[h.id] /\ w = challenge'[h.id]
      BY <1>1
    <2>5. h.step \in {"adapter", "record"} => w \in Row
      BY <2>1, <2>4 DEF IInv, TypeOK, Verifiers
    <2>6. h.step \in {"adapter", "record"} => ~BackingOff(w)'
      BY <2>2, <2>3, <2>4, <2>5 DEF Fit
    <2>7. Fit(h)'
      BY <1>1, <2>2, <2>4, <2>6 DEF Fit, BackingOff
    <2> QED BY <2>1, <2>7
  <1> QED BY <1>1, <1>2, ExactKept DEF SoloInv

\* Every step keeps the invariant of one verification at a time.
LEMMA NextSolo == OneAtATime /\ IInv /\ SoloInv /\ [Next]_vars => SoloInv'
  <1> SUFFICES ASSUME OneAtATime, IInv, SoloInv, [Next]_vars PROVE SoloInv'
    OBVIOUS
  <1>1. CASE \/ \E a \in Authenticators : Enroll(a) \/ DisableAuthenticator(a)
             \/ UNCHANGED vars
    BY <1>1, NothingMoves DEF Enroll, DisableAuthenticator, vars
  <1>2. CASE Restart
    <2>1. \A r \in Requests : request'[r].step = "idle"
      BY <1>2 DEF Restart, Idle
    <2> QED BY <1>2, <2>1, ExactKept DEF Restart, tables, SoloInv, HandlersFit, Fit
  <1> QED
    BY <1>1, <1>2, CreateSolo, CreatePutSolo, VerifySolo, VerifyExpireSolo,
       VerifyRecordSolo, OtherStepsSolo, PurgeSolo, TickSolo
    DEF Next, Step

\* While verifications do not overlap the invariant holds of every behaviour.
THEOREM SoloHolds ==
  ASSUME OneAtATime
  PROVE  Spec => []SoloInv
  <1>1. IInv /\ SoloInv /\ [Next]_vars => SoloInv'
    BY NextSolo
  <1> QED BY <1>1, InitSolo, IInvHolds, PTL DEF Spec

\* At most MaxChallengeAttempts failures are recorded, `failed` is the state
\* after the last, and a challenge verifies at most once (Verify's mutator), as
\* long as verifications do not overlap.
THEOREM Accounted ==
  ASSUME OneAtATime
  PROVE  Spec => []AttemptsExact
  <1>1. SoloInv => AttemptsExact
    BY DEF SoloInv, Exact, AttemptsExact
  <1> QED BY <1>1, SoloHolds, PTL

\* The row of a granted challenge is never swept (PurgeExpired keeps completed
\* rows), as long as no overlapping verification expires it first.
THEOREM Audited ==
  ASSUME OneAtATime
  PROVE  Spec => []AuditTrailKept
  <1>1. SoloInv => AuditTrailKept
    BY DEF SoloInv, Exact, AuditTrailKept, Stored, Terminal
  <1> QED BY <1>1, SoloHolds, PTL

\* What a step may do to a challenge once it is decided, or has failed before.
LEMMA StepsAreFinal == IInv /\ SoloInv /\ [Next]_vars => TerminalKept /\ FailuresApart
  <1> SUFFICES ASSUME IInv, SoloInv, [Next]_vars, NEW c \in Challenges
               PROVE  /\ challenge[c].status \in Terminal
                           => challenge'[c].status \in {challenge[c].status}
                                \cup (IF challenge[c].status = "expired" THEN {"purged"}
                                      ELSE {})
                      /\ challenge'[c].attempts > challenge[c].attempts
                           /\ challenge[c].attempts > 0
                           => challenge'[c].lastAttemptAt
                                >= challenge[c].lastAttemptAt + 2 ^ challenge[c].attempts
    BY DEF TerminalKept, FailuresApart
  <1>0. TypeOK
    BY DEF IInv
  <1>1. challenge[c].attempts \in Nat /\ challenge[c].lastAttemptAt \in Nat /\ now \in Nat
    BY <1>0, MaxTimeAssumption DEF TypeOK, Row, Time
  <1>2. CASE challenge'[c] = challenge[c]
    BY <1>1, <1>2
  <1>3. ASSUME NEW r \in Requests, CreatePut(r) PROVE challenge'[c] = challenge[c]
               \/ /\ challenge[c].status = "unborn" /\ challenge[c].attempts = 0
    <2>1. PICK d : d = request[r].id
      OBVIOUS
    <2>2. d \in Challenges /\ challenge[d].status = "unborn"
      BY <1>3, <2>1 DEF CreatePut, IInv, Creators
    <2>3. d # c => challenge'[c] = challenge[c]
      BY <1>0, <1>3, <2>1 DEF CreatePut, TypeOK
    <2> QED BY <2>2, <2>3 DEF IInv, Open
  <1>4. ASSUME NEW r \in Requests, VerifyExpire(r)
        PROVE  \/ challenge'[c] = challenge[c]
               \/ /\ challenge[c].status = "pending"
                  /\ challenge'[c].attempts = challenge[c].attempts
    BY <1>4, VerifyExpireDoes
  <1>5. ASSUME NEW r \in Requests, VerifyRecord(r)
        PROVE  \/ challenge'[c] = challenge[c]
               \/ /\ challenge[c].status = "pending"
                  /\ \/ challenge'[c].attempts = challenge[c].attempts
                     \/ /\ challenge'[c].lastAttemptAt = now
                        /\ ~BackingOff(challenge[c])
    BY <1>5, VerifyRecordDoes
  <1>6. CASE PurgeExpired
    BY <1>0, <1>1, <1>6 DEF PurgeExpired, Purgeable, NoRow, TypeOK, Terminal
  <1>7. CASE challenge[c].status = "unborn" /\ challenge[c].attempts = 0
    BY <1>7 DEF Terminal
  <1>8. CASE /\ challenge[c].status = "pending"
             /\ challenge'[c].attempts = challenge[c].attempts
    BY <1>1, <1>8 DEF Terminal
  <1>9. CASE /\ challenge[c].status = "pending"
             /\ challenge'[c].lastAttemptAt = now /\ ~BackingOff(challenge[c])
    BY <1>1, <1>9 DEF Terminal, BackingOff
  <1>10. CASE challenge' = challenge
    BY <1>2, <1>10
  <1>11. ASSUME NEW r \in Requests, CreatePut(r) \/ VerifyExpire(r) \/ VerifyRecord(r)
         PROVE  \/ challenge'[c] = challenge[c]
                \/ challenge[c].status = "unborn" /\ challenge[c].attempts = 0
                \/ /\ challenge[c].status = "pending"
                   /\ challenge'[c].attempts = challenge[c].attempts
                \/ /\ challenge[c].status = "pending"
                   /\ challenge'[c].lastAttemptAt = now /\ ~BackingOff(challenge[c])
    BY <1>3, <1>4, <1>5, <1>11
  <1>12. CASE \E r \in Requests : CreatePut(r) \/ VerifyExpire(r) \/ VerifyRecord(r)
    BY <1>2, <1>7, <1>8, <1>9, <1>11, <1>12
  <1> QED
    BY <1>6, <1>10, <1>12
    DEF Next, Step, Enroll, DisableAuthenticator, CreateGate, CreateSelect,
        CreateDispatch, VerifyGet, VerifyGate, VerifyAdapter, VerifyCount, StoreError,
        Restart, Tick, tables, vars

\* A terminal status changes only by the sweeper deleting an expired row
\* (UpdateChallenge), as long as verifications do not overlap.
THEOREM TerminalForGood ==
  ASSUME OneAtATime
  PROVE  Spec => TerminalIsFinal
  <1>1. IInv /\ SoloInv /\ [Next]_vars => [TerminalKept]_vars
    BY StepsAreFinal
  <1> QED BY <1>1, IInvHolds, SoloHolds, PTL DEF Spec, TerminalIsFinal

\* Two failures on record are at least the backoff of the first apart
\* (backoffRemaining), as long as verifications do not overlap.
THEOREM Backoff ==
  ASSUME OneAtATime
  PROVE  Spec => BackoffRespected
  <1>1. IInv /\ SoloInv /\ [Next]_vars => [FailuresApart]_vars
    BY StepsAreFinal
  <1> QED BY <1>1, IInvHolds, SoloHolds, PTL DEF Spec, BackoffRespected

====
