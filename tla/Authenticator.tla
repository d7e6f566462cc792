--------------------------- MODULE Authenticator ---------------------------
(***************************************************************************)
(* authenticator-service: enrolment of authenticators and the life of a    *)
(* challenge, for one tenant and one replica.                              *)
(*                                                                         *)
(* A request is a handler goroutine.  Handlers hold no lock from one store *)
(* call to the next, so each handler is a sequence of actions, one per     *)
(* store call, limiter call or vendor call, and any other handler, the     *)
(* sweeper and the clock may run in between:                               *)
(*                                                                         *)
(*   Create:  CreateGate  CreateSelect  CreateDispatch  CreatePut          *)
(*   Verify:  VerifyGet  VerifyGate ( VerifyExpire                         *)
(*              | VerifyAdapter  VerifyRecord  VerifyCount )               *)
(*                                                                         *)
(* The store (Store and PGStorage have the same contract) and the lockout  *)
(* are each atomic per call.  Answers to the client are not state; an      *)
(* answered request is idle again.  Vendors (Twilio, WebAuthn, the stubs)  *)
(* answer in any way and after any delay.                                  *)
(***************************************************************************)
EXTENDS RateLimit, FiniteSets, Sequences

CONSTANTS
  Users,                \* users of the tenant: the keys of the limiters
  Challenges,           \* challenge ids (a bound: uuids never run out)
  Requests,             \* requests the service runs at once (a bound)
  NumAuthenticators,    \* authenticators that can be enrolled (a bound)
  UserOf,               \* the user each authenticator is enrolled for
  MethodOf,             \* the method each authenticator is enrolled with
  MethodLists,          \* the preference lists callers pass to Create
  MaxChallengeAttempts, \* failed verifications before `failed`
  ChallengeTTL,         \* life of a challenge
  ChallengeLimit,       \* CHALLENGE_RATE_LIMIT: challenges per window ...
  ChallengeWindow,
  LockoutThreshold,     \* LOCKOUT_THRESHOLD: failures per window ...
  LockoutWindow,
  NoChallengeId         \* the id an idle request works on

\* Authenticators are numbered in the order they were enrolled, which is the
\* order of their CreatedAt.
Authenticators == 1..NumAuthenticators

ASSUME CountsAssumption ==
  /\ NumAuthenticators \in Nat
  /\ MaxChallengeAttempts \in Nat \ {0}
  /\ ChallengeTTL \in Nat \ {0}
  /\ ChallengeLimit \in Nat \ {0} /\ ChallengeWindow \in Nat \ {0}
  /\ LockoutThreshold \in Nat \ {0} /\ LockoutWindow \in Nat \ {0}

ASSUME RequestsAssumption == IsFiniteSet(Requests) /\ Requests # {}

ASSUME EnrolmentAssumption ==
  /\ UserOf \in [Authenticators -> Users]
  /\ NoChallengeId \notin Challenges

VARIABLES
  now,          \* the clock (store.Now)
  enrolled,     \* per authenticator: "absent", "active" or "disabled"
  challenge,    \* the challenges table
  request,      \* the handler goroutines
  created,      \* the log of the challenge-creation limiter, per user
  failures,     \* the log of the lockout's failure counter, per user
  lockedUntil,  \* Lockout.lockedUntil: 0 when the user has no entry
  granted       \* history: `verified: true` answers given per challenge

vars == <<now, enrolled, challenge, request, created, failures, lockedUntil,
          granted>>

tables == <<enrolled, challenge, granted>>
limits == <<created, failures, lockedUntil>>

-----------------------------------------------------------------------------
(* Records.  "unborn" is an id no row has used yet, "purged" one whose row  *)
(* the sweeper deleted; a lookup misses in both cases.                      *)

Terminal == {"completed", "failed", "expired"}
Stored == {"pending"} \cup Terminal
Statuses == Stored \cup {"unborn", "purged"}

Row == [status: Statuses, user: Users \cup {NoChallengeId},
        authr: Authenticators \cup {0}, attempts: Nat, expiresAt: Nat,
        lastAttemptAt: Nat]

NoRow(status) ==
  [status |-> status, user |-> NoChallengeId, authr |-> 0, attempts |-> 0,
   expiresAt |-> 0, lastAttemptAt |-> 0]

Steps == {"idle", "select", "dispatch", "put",
          "gate", "expire", "adapter", "record", "count"}

\* A handler's locals: the row it read (or is about to write), the id of the
\* challenge it works on, the caller's user and methods, the vendor's verdict.
Handler == [step: Steps, id: Challenges \cup {NoChallengeId}, row: Row,
            user: Users \cup {NoChallengeId}, methods: MethodLists \cup {<<>>},
            verdict: BOOLEAN]

Idle == [step |-> "idle", id |-> NoChallengeId, row |-> NoRow("unborn"),
         user |-> NoChallengeId, methods |-> <<>>, verdict |-> FALSE]

TypeOK ==
  /\ now \in Time
  /\ enrolled \in [Authenticators -> {"absent", "active", "disabled"}]
  /\ challenge \in [Challenges -> Row]
  /\ request \in [Requests -> Handler]
  /\ created \in [Users -> Log]
  /\ failures \in [Users -> Log]
  /\ lockedUntil \in [Users -> Nat]
  /\ granted \in [Challenges -> Nat]

Init ==
  /\ now = 0
  /\ enrolled = [a \in Authenticators |-> "absent"]
  /\ challenge = [c \in Challenges |-> NoRow("unborn")]
  /\ request = [r \in Requests |-> Idle]
  /\ created = [u \in Users |-> EmptyLog]
  /\ failures = [u \in Users |-> EmptyLog]
  /\ lockedUntil = [u \in Users |-> 0]
  /\ granted = [c \in Challenges |-> 0]

-----------------------------------------------------------------------------
(* Authenticators *)

\* POST /v1/authenticators, and the last step of a passkey registration.
Enroll(a) ==
  /\ enrolled[a] = "absent"
  /\ \A b \in Authenticators : b < a => enrolled[b] # "absent"
  /\ enrolled' = [enrolled EXCEPT ![a] = "active"]
  /\ UNCHANGED <<now, challenge, granted, request, limits>>

\* DELETE /v1/authenticators/{id}
DisableAuthenticator(a) ==
  /\ enrolled[a] = "active"
  /\ enrolled' = [enrolled EXCEPT ![a] = "disabled"]
  /\ UNCHANGED <<now, challenge, granted, request, limits>>

\* What ListActiveAuthenticators returns for a user, of one method.
Candidates(u, m) ==
  {a \in Authenticators :
     enrolled[a] = "active" /\ UserOf[a] = u /\ MethodOf[a] = m}

\* a is the oldest active authenticator of the first method in the caller's
\* list that has one.
SelectAuthenticator(u, methods, a) ==
  \E i \in DOMAIN methods :
    /\ a \in Candidates(u, methods[i])
    /\ \A b \in Candidates(u, methods[i]) : a <= b
    /\ \A j \in 1..(i - 1) : Candidates(u, methods[j]) = {}

-----------------------------------------------------------------------------
(* Account lockout and backoff *)

Locked(u) == now < lockedUntil[u]

\* Locked deletes the entry it finds expired.
PruneLock(u) ==
  lockedUntil' = [lockedUntil EXCEPT ![u] = IF Locked(u) THEN @ ELSE 0]

\* RecordFailure: the counter is sized threshold - 1, so the failure it
\* denies is the threshold-th; with threshold 1 there is no counter and
\* every failure locks for the whole window.
RecordFailure(u) ==
  LET limit == LockoutThreshold - 1
      trips == limit = 0 \/ ~Allowed(failures[u], limit, LockoutWindow, now)
      lock  == IF limit = 0 THEN LockoutWindow
               ELSE RetryAfter(failures[u], LockoutWindow, now)
  IN  /\ failures' = IF limit = 0 THEN failures
                     ELSE [failures EXCEPT ![u] =
                             AfterAllow(@, limit, LockoutWindow, now)]
      /\ lockedUntil' = IF trips THEN [lockedUntil EXCEPT ![u] = now + lock]
                        ELSE lockedUntil

\* Mutant: linear instead of exponential backoff.
BackingOffLinear(row) ==
  row.attempts > 0 /\ now < row.lastAttemptAt + row.attempts

\* backoffRemaining > 0, decided on the row the handler read.
BackingOff(row) ==
  row.attempts > 0 /\ now < row.lastAttemptAt + 2 ^ row.attempts

-----------------------------------------------------------------------------
(* POST /v1/challenges *)

\* The handler goes on with other locals; or answers, and is gone.
Becomes(r, handler) == request' = [request EXCEPT ![r] = handler]
Answer(r) == Becomes(r, Idle)

\* The lockout check, then the creation limiter: a locked-out caller does not
\* use up a slot.
CreateGate(r, u, methods) ==
  /\ request[r].step = "idle"
  /\ PruneLock(u)
  /\ \/ /\ Locked(u)
        /\ UNCHANGED <<created, request>>
     \/ /\ ~Locked(u)
        /\ created' = [created EXCEPT ![u] =
                         AfterAllow(@, ChallengeLimit, ChallengeWindow, now)]
        /\ IF Allowed(created[u], ChallengeLimit, ChallengeWindow, now)
           THEN Becomes(r, [Idle EXCEPT !.step = "select", !.user = u,
                                        !.methods = methods])
           ELSE UNCHANGED request
  /\ UNCHANGED <<now, tables, failures>>

NewRow(u, a) ==
  [NoRow("pending") EXCEPT !.user = u, !.authr = a,
                           !.expiresAt = now + ChallengeTTL]

\* Pick the authenticator and stamp the challenge: its life starts here,
\* before the vendor is called.  now + ChallengeTTL <= MaxTime is the bound
\* on the clock.
CreateSelect(r, c) ==
  LET q == request[r]
  IN  /\ q.step = "select"
      /\ \/ \E a \in Authenticators :
              /\ SelectAuthenticator(q.user, q.methods, a)
              /\ challenge[c].status = "unborn"
              /\ \A s \in Requests : request[s].id # c
              /\ now + ChallengeTTL <= MaxTime
              /\ Becomes(r, [q EXCEPT !.step = "dispatch", !.id = c,
                                      !.row = NewRow(q.user, a)])
         \/ /\ \A a \in Authenticators : ~SelectAuthenticator(q.user, q.methods, a)
            /\ Answer(r)
      /\ UNCHANGED <<now, tables, limits>>

\* The vendor sends the prompt, or the handler answers 409, 422 or 502.
CreateDispatch(r) ==
  /\ request[r].step = "dispatch"
  /\ \/ Becomes(r, [request[r] EXCEPT !.step = "put"])
     \/ Answer(r)
  /\ UNCHANGED <<now, tables, limits>>

CreatePut(r) ==
  /\ request[r].step = "put"
  /\ challenge' = [challenge EXCEPT ![request[r].id] = request[r].row]
  /\ Answer(r)
  /\ UNCHANGED <<now, enrolled, granted, limits>>

-----------------------------------------------------------------------------
(* POST /v1/challenges/{id}/verify *)

\* GetChallenge.  A miss is answered 404.
VerifyGet(r, c) ==
  /\ request[r].step = "idle"
  /\ challenge[c].status \in Stored
  /\ Becomes(r, [Idle EXCEPT !.step = "gate", !.id = c, !.row = challenge[c],
                             !.user = challenge[c].user])
  /\ UNCHANGED <<now, tables, limits>>

\* No step after the gate looks at the row that was read.
Proceed(r, step) ==
  Becomes(r, [request[r] EXCEPT !.step = step, !.row = NoRow("unborn")])

\* Mutant: the terminal-status check is gone.
VerifyGateNoStatusCheck(r) ==
  LET row == request[r].row
  IN  /\ request[r].step = "gate"
      /\ PruneLock(row.user)
      /\ IF Locked(row.user) \/ BackingOff(row) THEN Answer(r)
         ELSE Proceed(r, IF now >= row.expiresAt THEN "expire" ELSE "adapter")
      /\ UNCHANGED <<now, tables, created, failures>>

\* Mutant: the branch that answers 410 to a terminal challenge is lost.
VerifyGateSilentOnTerminal(r) ==
  LET row == request[r].row
  IN  /\ request[r].step = "gate" /\ row.status = "pending"
      /\ PruneLock(row.user)
      /\ IF Locked(row.user) \/ BackingOff(row) THEN Answer(r)
         ELSE Proceed(r, IF now >= row.expiresAt THEN "expire" ELSE "adapter")
      /\ UNCHANGED <<now, tables, created, failures>>

\* The checks before the vendor is called, in the code's order, all on the
\* row that VerifyGet read: lockout (423), status (410), expiry (flip, 410),
\* backoff (429).
VerifyGate(r) ==
  LET row == request[r].row
  IN  /\ request[r].step = "gate"
      /\ PruneLock(row.user)
      /\ \/ /\ Locked(row.user) \/ row.status # "pending"
            /\ Answer(r)
         \/ /\ ~Locked(row.user) /\ row.status = "pending"
            /\ now >= row.expiresAt
            /\ Proceed(r, "expire")
         \/ /\ ~Locked(row.user) /\ row.status = "pending"
            /\ now < row.expiresAt
            /\ IF BackingOff(row) THEN Answer(r) ELSE Proceed(r, "adapter")
      /\ UNCHANGED <<now, tables, created, failures>>

\* Mutant: a miss inserts the row.
UpdateChallengeUpserts(c, mutated) ==
  challenge' = [challenge EXCEPT ![c] = mutated]

\* UpdateChallenge(tenant, id, mutator): a miss leaves the table alone.
UpdateChallenge(c, mutated) ==
  challenge' = [challenge EXCEPT ![c] = IF @.status \in Stored THEN mutated ELSE @]

\* The lazy flip to `expired`: whatever the row says by now.
VerifyExpire(r) ==
  LET c == request[r].id
  IN  /\ request[r].step = "expire"
      /\ UpdateChallenge(c, [challenge[c] EXCEPT !.status = "expired"])
      /\ Answer(r)
      /\ UNCHANGED <<now, enrolled, granted, limits>>

\* The vendor says yes or no; if it fails the handler answers 502 and no
\* attempt is used up.
VerifyAdapter(r) ==
  /\ request[r].step = "adapter"
  /\ \/ \E verdict \in BOOLEAN :
          Becomes(r, [request[r] EXCEPT !.step = "record", !.verdict = verdict])
     \/ Answer(r)
  /\ UNCHANGED <<now, tables, limits>>

\* Mutant: one attempt too many.
FailedOffByOne(row) ==
  [row EXCEPT !.attempts = @ + 1, !.lastAttemptAt = now,
              !.status = IF row.attempts + 1 > MaxChallengeAttempts
                         THEN "failed" ELSE @]

\* The row after one failed verification.
Failed(row) ==
  [row EXCEPT !.attempts = @ + 1, !.lastAttemptAt = now,
              !.status = IF row.attempts + 1 >= MaxChallengeAttempts
                         THEN "failed" ELSE @]

\* The mutator runs on the row as it is now, which need not be the row the
\* gate decided on.  A purged row is a 404, whatever the vendor said.
VerifyRecord(r) ==
  LET c  == request[r].id
      ok == request[r].verdict
      hit == challenge[c].status \in Stored
  IN  /\ request[r].step = "record"
      /\ UpdateChallenge(c, IF ok THEN [challenge[c] EXCEPT !.status = "completed"]
                            ELSE Failed(challenge[c]))
      /\ granted' = [granted EXCEPT ![c] = IF ok /\ hit THEN @ + 1 ELSE @]
      /\ IF hit /\ ~ok
         THEN Becomes(r, [request[r] EXCEPT !.step = "count"])
         ELSE Answer(r)
      /\ UNCHANGED <<now, enrolled, limits>>

\* The failure is on record: count it towards the account lockout.
VerifyCount(r) ==
  /\ request[r].step = "count"
  /\ RecordFailure(request[r].user)
  /\ Answer(r)
  /\ UNCHANGED <<now, tables, created>>

\* A store call fails: the handler answers 500 (410 for the flip, whose
\* failure is only logged) and the table is as it was.
StoreError(r) ==
  /\ request[r].step \in {"select", "put", "expire", "record"}
  /\ Answer(r)
  /\ UNCHANGED <<now, tables, limits>>

-----------------------------------------------------------------------------
(* The background, and the process *)

\* Mutant: every row past its time, whatever became of it.
PurgeableByAge(row) == row.status \in Stored /\ now >= row.expiresAt

\* Mutant: only rows already flipped to `expired`.
PurgeableOnlyFlipped(row) == row.status = "expired"

\* PurgeExpired: expired rows, and pending ones past their time.
Purgeable(row) ==
  row.status = "expired" \/ (row.status = "pending" /\ now >= row.expiresAt)

PurgeExpired ==
  /\ \E c \in Challenges : Purgeable(challenge[c])
  /\ challenge' = [c \in Challenges |->
       IF Purgeable(challenge[c]) THEN NoRow("purged") ELSE challenge[c]]
  /\ UNCHANGED <<now, enrolled, granted, request, limits>>

\* The process stops and starts again.  Tables are in Postgres; handlers and
\* the in-memory limiters are lost.
Restart ==
  /\ request' = [r \in Requests |-> Idle]
  /\ created' = [u \in Users |-> EmptyLog]
  /\ failures' = [u \in Users |-> EmptyLog]
  /\ lockedUntil' = [u \in Users |-> 0]
  /\ UNCHANGED <<now, tables>>

Tick ==
  /\ now < MaxTime
  /\ now' = now + 1
  /\ UNCHANGED <<tables, request, limits>>

\* The steps of a request already accepted.
Step(r) ==
  \/ \E c \in Challenges : CreateSelect(r, c)
  \/ CreateDispatch(r) \/ CreatePut(r)
  \/ VerifyGate(r) \/ VerifyExpire(r) \/ VerifyAdapter(r)
  \/ VerifyRecord(r) \/ VerifyCount(r) \/ StoreError(r)

Next ==
  \/ \E a \in Authenticators : Enroll(a) \/ DisableAuthenticator(a)
  \/ \E r \in Requests :
       \/ \E u \in Users, m \in MethodLists : CreateGate(r, u, m)
       \/ \E c \in Challenges : VerifyGet(r, c)
       \/ Step(r)
  \/ PurgeExpired
  \/ Restart
  \/ Tick

Spec == Init /\ [][Next]_vars

-----------------------------------------------------------------------------
(* Properties, any number of requests at once *)

\* Failed verifications on record plus `verified: true` answers, per
\* challenge, never exceed what a challenge tolerates by more than the
\* requests that can overlap.  Verify reads the row, calls the vendor and
\* updates the row without looking at its status again, so the limit can be
\* overshot, but only by handlers that read `pending` before it was reached.
VerdictsBounded ==
  \A c \in Challenges :
    challenge[c].attempts + granted[c]
      <= (MaxChallengeAttempts - 1) + Cardinality(Requests)

\* A challenge that was answered `verified: true`, or that has used up its
\* attempts, is never again open for verification, whatever overwrote its
\* status since.
SpentIsClosed ==
  \A c \in Challenges :
    granted[c] > 0 \/ challenge[c].attempts >= MaxChallengeAttempts
      => challenge[c].status # "pending"

\* No step puts a challenge back to `pending`, and a purged row is not
\* written back by a handler that read it before the sweep.
StaysClosed(c) ==
  /\ challenge'[c].status = "pending" => challenge[c].status \in {"unborn", "pending"}
  /\ challenge[c].status = "purged" => challenge'[c] = challenge[c]

AllStayClosed == \A c \in Challenges : StaysClosed(c)
NeverReopened == [][AllStayClosed]_vars

-----------------------------------------------------------------------------
(* Properties, one verification at a time (Requests a singleton) *)

\* A terminal status is final: it changes only by the sweeper deleting an
\* expired row.
TerminalKept ==
  \A c \in Challenges :
    challenge[c].status \in Terminal
      => challenge'[c].status \in {challenge[c].status}
           \cup (IF challenge[c].status = "expired" THEN {"purged"} ELSE {})
TerminalIsFinal == [][TerminalKept]_vars

\* At most MaxChallengeAttempts failures are recorded, `failed` is exactly
\* the state after the last of them, and a challenge verifies at most once.
AttemptsExact ==
  \A c \in Challenges :
    /\ challenge[c].attempts <= MaxChallengeAttempts
    /\ challenge[c].status = "failed" <=> challenge[c].attempts = MaxChallengeAttempts
    /\ granted[c] <= 1

\* The row of a challenge that was answered `verified: true` is never swept:
\* PurgeExpired keeps completed rows as the audit trail of step-ups.
AuditTrailKept ==
  \A c \in Challenges : granted[c] > 0 => challenge[c].status \in Stored

\* Two failures on record are at least the backoff of the first apart.
FailuresApart ==
  \A c \in Challenges :
    LET old == challenge[c]  new == challenge'[c]
    IN  new.attempts > old.attempts /\ old.attempts > 0
          => new.lastAttemptAt >= old.lastAttemptAt + 2 ^ old.attempts
BackoffRespected == [][FailuresApart]_vars
=============================================================================
