# x-auth: a verification project

TLA+ models of the services under `src/services` and of the shared packages
they rest on, model-checked with TLC, with theorems checked by TLAPS.  The code
is the reference: every definition that models code is listed in
`PROJECT.json` under `map` with the lines it translates.

## 1. The system

Ten Go services over HTTP, each with a database of its own (PostgreSQL, or an
in-memory store with the same interface for development) and no shared
transaction between any two of them.  Inside a service a request is a
goroutine; the stores and limiters are atomic per call, and **no lock is held
from one store call to the next**, so a handler is a sequence of atomic steps
and the interesting behaviour is what other handlers, the background sweepers,
the clock and the peers do in between.

| Component | State it keeps | Operations | Talks to |
|---|---|---|---|
| authentication-service, OIDC core | sessions, auth codes, access and refresh tokens (by hash, in families) | authorize, token (code, refresh, assertion and exchange grants), revoke, userinfo, session create/refresh/upgrade/invalidate, sweeper | risk, broker's consumers, CAEP transmitter |
| authentication-service, executor and step-up | enabled flow of a tenant; parked step-up flows, ledger and tracker in memory; advice calls | /authorize stage by stage, verify, passkey registration, mint, complete | authenticator-service, risk-service |
| authentication-service, sign-in | users, identity anchors; phone flows, social states and links in memory | submit, verify, link, callback, users API, mDL anchor | SMS vendor, Google, id-service |
| authentication-service, agent delegation | registered MCP servers, trusted issuers, their cached keys, redeemed `jti`s | token exchange, redemption, the owner's edits | other identity providers |
| authentication-service, posture | protection ledger, step-up tracker, monitoring | sensor events, policy decisions, CAEP SET emission | risk-service |
| authentication-service, consoles | tenants, owners' and staff's sessions, staff accounts, clients, flows, transaction types | sign-up, sign-in, hand-over, edits, developers' round trip | Google |
| authenticator-service | authenticators, challenges, per-user limiters, lockout | enrol, disable, create challenge, verify, passkey registration, sweeper | SMS, push and mail vendors |
| transaction-service | transactions | evaluate, step-up, authorize, advice | risk, authentication, authenticator |
| risk-service | signals, policies, device and session posture | score, evaluate, CAEP receiver | authentication (JWKS) |
| broker-service | installs, broker codes and tokens | install, authorize, token, refresh, revoke, userinfo, purge | pool, persona, grant |
| pool-service | identities and their claims | add, claim, release, revoke | persona |
| grant-service | grants, audit log | record, list, revoke, introspect | – |
| persona-service | personas | CRUD, paging | – |
| id-service | verification requests and mDL responses | request, submit, poll, sweeper | issuers' certificates |
| fido-service | MDS blob, attestation risk | refresh, lookup | the FIDO metadata service |
| pkg/* | limiter logs (ratex), key caches (jwtx), connection helpers | Allow, Verify, ... | Redis, JWKS endpoints |

### What is hard

* **Read, call out, write.**  A handler reads a row, calls a vendor or a peer,
  then updates the row it read.  Challenges (`challenges.go:224-320`), sessions
  (`sessions.go:98-202`), transactions (`stepup.go`), verifications
  (`id-service/service.go`), passkey counters (`webauthn.go:121`) all do it;
  they differ in what the write re-checks.
* **Single use.**  Auth codes, refresh tokens, parked flows, social states,
  `jti`s, registration sessions are consumed exactly once, by compare-and-set,
  delete-and-return or a mutex, or are not.
* **Families.**  Replay of a refresh token must take down everything descended
  from it, including what a request still in flight is about to insert.
* **Lazy expiry plus a sweeper.**  Each store expires rows on touch and deletes
  them in the background; what is kept as an audit trail must survive both.
* **Peers without transactions.**  An install claims an identity in pool,
  records a grant in grant, and writes a row in broker; each call can fail or be
  lost after the peer acted.
* **Limits.**  Sliding windows in memory, fixed windows in Redis, counters that
  restart with the process.

### What makes each component correct

* *Challenges*: attempts are bounded, a decided challenge stays decided, the
  audit trail is kept, a locked account is refused before any vendor is called,
  every request is answered.
* *Sessions and tokens*: a code buys one family; a replayed refresh token kills
  its family; nothing outlives or resurrects an invalidated session.
* *Installs*: an identity serves one live install; every token that can be used
  has a grant on record; revocation reaches grants and tokens and cannot be
  refreshed away; a failed handshake gives its identity back.
* *Transactions*: a step-up verified for one transaction authorises only that
  one, once; a decided transaction stays decided.
* *Step-up flows*: a minted code carries a level its user earned, within what
  the transaction's advice asked; a deny stage denies; a transaction completes
  once.
* *Sign-in*: a number names one account and no account is left without a way in;
  a one-time code, a link, a social state serve once.
* *Consoles*: what is written, shown or ended is within the right its sender had
  when the request was let in; a workspace is complete or absent.
* *Delegation*: an assertion is issued by policy, paid for once and buys one
  token within its scopes and the workspace's cap.
* *Verifications*: one outcome per request; a proof that is accepted was given
  for the accepting workspace's own request.
* *CAEP*: posture never goes back to an older event.
* *MDS*: a newer metadata blob is not replaced by an older one; fallbacks serve
  while degraded.

## 2. Plan

Order: the parts where several stores, peers or goroutines meet first, tables
that one statement writes last.

| # | Module | Composes | Status | Abstract statement it must meet |
|---|---|---|---|---|
| 1 | `RateLimit` | – | done | at most *limit* events per window |
| 2 | `Authenticator` | `RateLimit` | done, proved | a challenge is decided once, within its attempts |
| 3 | `Sessions` | – | done, proved | one code, one family; a dead family stays dead |
| 4 | `Installs` | `InstallIds`, `Pool`, `Grants` | done, proved | every live token has a recorded grant; an identity serves one install |
| 5 | `Transactions` | sessions and challenges as seen from outside | done, proved | an allow or a promotion goes back to a right response |
| 6 | `StepUpFlows` | executor, parked flows, ledger, advice, challenge outcomes | done, proved | a code's level was earned; a transaction completes once |
| 7 | `Identities` | phone flows, social states, links, users, anchors | done, proved | an anchor names one user; no account is left without a way in |
| 8 | `Workspaces`, `Consoles` | registry, owners, staff; clients, settings, flows | done, proved | what is written is within its sender's right |
| 9 | `Delegation` against `SingleUse` | registries, key caches, assertions, `jti`s | done, refinement proved | an assertion is paid for once and buys one token |
| 10 | `Verifications` | id-service's requests, the enrolment's verifier | done, proved | one outcome per request; a proof is for its own request |
| 11 | `MCServices`, `MCSettling` | 2–10, side by side | done; all of `MCServices` proved | – |
| 12 | `Posture` | CAEP transmitter with retries, receiver, device analyzer | left | posture never goes back to an older event |
| 13 | `Passkeys` | registration sessions, signature counter | left | a counter that goes back is noticed |
| 14 | `Metadata` | blob, cache, snapshot of fido-service | left | a newer blob is not replaced by an older one |
| 15 | `RiskScore` | pure aggregation of signals | left | the tier is monotone in each signal |

Refinements worth stating next: `Sessions` against a *family* (bought, alive,
dead) that hides tokens; `Installs` against a *binding* of identity to install.

Theorems left: every safety and action property that a run checks is proved; what
is left waits for models, namely the two refinements above and monotonicity in 12
and 14.

## 3. The modules

Conventions.  Each request the service runs at once is one element of
`Requests`; its record (`request[r]` or `handler[r]`) holds the Go function's
local variables: which call comes next, the row it read, the id it works on.
One action is one store, limiter or peer call together with all the code up to
the next one.  An answered request is `Idle` again; what it answered is not
state, unless a property needs it, in which case a history variable records it.
Time is a natural number that `Tick` moves; expiry is read lazily by handlers,
as in the code, and rows disappear only when the sweeper's action runs.
Definitions under a comment `Mutant: ...` are plausible slips of the definition
that follows them.  They are not part of the model; `PROJECT.json` uses them to
show that each property depends on the code it is about.

Most modules keep a history variable `mishaps`, the kinds of trouble a behaviour
has contained so far (overlapping requests, a failing store or peer, a restart, a
lost answer, ...), and `MaxMishaps` bounds how many kinds one behaviour mixes; a
property can then say exactly which trouble it does not survive.

### RateLimit, Authenticator (authenticator-service)

`RateLimit` is `ratex`'s in-memory sliding log: a log is the number of events at
each instant, `Pruned`, `Allowed`, `AfterAllow` and `RetryAfter` are the steps of
`Allow`.  `RetryAfter` is what the account lock is computed from, so what it
counts from matters: the oldest event that is still inside the window.

| Variable | Code |
|---|---|
| `enrolled` | `authenticators` table, by user and method |
| `challenge` | `challenges` table; `unborn` and `purged` rows are not in it |
| `created`, `failures`, `lockedUntil` | the two limiters and the lock map of `abuse.go`, in process memory: `Restart` empties them |
| `request` | goroutines in `Create` (`CreateGate` – `CreateSelect` – `CreateDispatch` – `CreatePut`) and `Verify` (`VerifyGet` – `VerifyGate` – `VerifyAdapter` – `VerifyRecord` or `VerifyCount`, or `VerifyExpire`) |
| `granted` | history: how often a challenge was answered `verified: true` |

`VerifyGet` takes a copy; `VerifyGate` decides on it (terminal, expired, locked,
backing off); `VerifyAdapter` is the vendor; `VerifyRecord` and `VerifyCount` go
through `UpdateChallenge`, which re-reads under the store's lock but, like
the code, re-checks nothing except that the row exists.

### Sessions (OIDC core of authentication-service)

| Variable | Code |
|---|---|
| `code` | `auth_codes`; redeemed means deleted |
| `session` | `sessions`, one per login: invalidated, expiry |
| `token` | `tokens`, access and refresh rows of a family |
| `request` | the code grant (`CodeConsume`, `CodeSession`, `IssueAccess`, `IssueRefresh`), the refresh grant (`RefreshGet`, then `RefreshReplay`, or `RefreshSession`, `RefreshExtend`, `RefreshRotate`, issue), the session API (`SessionGet`, `SessionWrite`) |
| `sold`, `successors`, `dead` | history: sessions per code, pairs per refresh token, families killed by replay |

`UpdateSession` writes the whole row its caller read; this is what
`InvalidatedStays` is about.  A store call may fail (`StoreFails`), a restart
forgets the requests and keeps the tables (PostgreSQL).  Left out: the risk
level and step-up flag of a session (they are in `Transactions`), the identity
of clients and PKCE (a check may fail at any time), the device analyzer's
revocation by session, and the tokens of the assertion grant (`Delegation`).
`PurgeExpired` is one action although the PostgreSQL store sends one statement
per table: no handler joins two of them.

### InstallIds, Pool, Grants, Installs (broker-service and its peers)

`Pool` and `Grants` are the peers' own state machines, each with its type
invariant and, for `Pool`, the property that revocation is final; `Installs`
extends both and adds broker's tables and handlers.  A handler's call of a peer
is the peer's action conjoined with the handler's step; the answer may be lost
(`"lost"`), which the client reports as a failure although the peer acted.

| Code | Actions |
|---|---|
| `/authorize` | `Authorize` (stores the code) |
| code grant | `CodeConsume`, `Create`Install, `Claim`, `RecordGrant`, `Finalize`, `StoreToken`; on failure `Compensate`, `Fail` |
| refresh grant | `RefreshGet`, `RefreshCheck`, `RerecordGrant`, `Rotate`; a rotated token goes to `ReplayRead`, `MarkRevoked`, `RevokeGrantsForInstall`, `ReleaseStuck`, `Release`, `DeleteTokensForInstall` |
| revoke endpoints | `Revoke`, `RevokeForward`; an administrator's `RevokeInstall` |
| sweeper | `PurgeExpired` |
| peers' own API | `PeerAdmin` |

Times are flags: a token may expire at any moment, since a persona's TTL may be
edited.

### Transactions (transaction-service)

`row` is the transactions table, with the number of rejections in its history;
`session` and `challenge` are the peers' tables as this service sees them.
`Advice` – `AdviceRisk` – `CreateChallenge` and `StepUpVerify` – `VerifyGate` –
`VerifyChallenge` – (`Reject` | `Upgrade` – `Promote` – `Satisfied`) and
`Authorize` – `GetSession` – `Reevaluate` are the three handlers; `SessionRead` and
`SessionWrite` are refreshes and invalidations that race them.  A transaction's
handler works on a copy and `Persist` writes all of it; `AppendHistory` alone
adds to what is stored.

`Miss` says how authenticator-service reports a wrong response.  `"status"` (a
401) is what it does (`challenges.go:349`); `"body"` is what `stepup.go` was
written for.  The run that refutes `MissIsSoft` uses the first; the others use
the second, since the first never reaches the retry path.  Theorems hold for both.

Not modelled: the fallback of `sessionStale` for a row without `updated_at`
(PostgreSQL always sets it), sessions born with the step-up flag.

### StepUpFlows (/authorize of authentication-service)

| Variable | Code |
|---|---|
| `parked`, `tracked`, `nextFlow` | the handlers' map of parked flows (`pendingAuthorize`), and when the step-up tracker saw each flow start |
| `ledger` | `ProtectionLedger`: the strongest rank a user reached, and when, in memory |
| `advice` | `advice_calls`: level, named user, who completed it |
| `challenge`, `passkey` | authenticator-service as seen from here: challenges with their status, whether the user has a passkey |
| `request` | one `/authorize` or verify in flight |
| `issued`, `minted`, `emitted`, `proved` | history: for whom codes were stored, codes per flow, events sent per transaction, the strongest level each user gave a right response for |

`Authorize` reads the advice and starts the tenant's enabled stage list; the
executor's stages are `RiskEvaluation`, `Deny`, `AuthenticatorValidate` and
`Mint` for user-login, `Skip` is a gate that is not met.  Validation either finds
the level in the ledger or goes `List` – `CreateChallenge` – `Park` – `Track`, or
parks for a passkey registration (`RegisterFinish`, `FinishRegistration`,
`Repark`).  `Verify` resumes a *copy* of the parked flow: `Arrive`, then
`RightResponse` or `WrongResponse`, `DropFlow`, `Untrack`, `Record`, `Mint`,
`Complete`.  The environment expires challenges, disables passkeys, moves the
clock and restarts the process, which loses the maps and keeps the tables.

### Identities (who a sign-in becomes)

`email`, `owner` and `licence` are the users table and the two kinds of identity
anchors of one tenant, unique as the migrations make them; `flow`, `link` and
`pending` are the in-memory maps of phone flows, Google links and social states,
`stale` what has expired in them, `texted` the codes the vendor sent.  Phone sign-in is `Submit`, `Verify`,
`CheckCode`, then `Miss` or `Hit` – `Anchor` – `Load` | `Create` – `Bind` (or
`BindFails` – `Rollback`) – `OpenSession`; the link, social, users-API,
owner's-console and mDL paths have their actions next to it and meet it in the
same tables.  The deletes ahead of a new anchor ignore a failed list or delete and
go on to the insert (`ClearFails`, `ClearLicenceFails`).  PostgreSQL's constraints are modelled: a whole-row update collides
on an email, an insert on an anchor.

### Workspaces, Consoles (the consoles)

`Workspaces` has the people: registry, owners' users, staff rows, sessions with
the staging tenants of the Google leg, and the pick cookie.  Every console
request is looked up (`CurrentOwner`, `StaffActive`, `StaffRoles`), then decides,
then writes, in separate calls; `rights` and `admin` in a request are history of
what the sender was entitled to while it ran.  `Restart` runs the staff seed
again.  `Consoles` has what they edit.  The two share only the registry's owner
column, which staff's assignment changes in `Workspaces` and `Reassign`, its
summary, at any moment in `Consoles`.

### Delegation, SingleUse (agent delegation)

`Delegation` has both registries, the tokens an exchange presents, the assertions
in circulation (this service's and foreign ones), the keys providers publish and
the keys this service has cached, the jti table and what redemptions wrote.
Exchange: `TokenExchange` – `GetTokenByHash` – `AuthorizedMCPServer` –
`SignTyped`; the kind of token the caller *declares*, and nothing about the token,
decides whether `GetTokenByHash` is among them, as in `idjag.go:93` and `:140`.  A
request's `stood` and `offers` are history: the token stood when it began, and the
scope lists under which its server has been enabled since.  Redemption: `JWTBearer` – `TrustedIDP` – `Keys` – `Check` (–
`Refetch` – `Check`) – `RedeemIDJAGJTI` – `CreateSession` – `PutToken`.  Owners
create, toggle and delete entries, providers rotate keys, tokens are revoked and
lapse, the process restarts.  `RedeemIDJAGJTI` includes the sweep the code does
in the same call.

`SingleUse` is the promise without the machinery: an assertion is let in while
the workspace accepts its issuer, is paid for at most once until it expires, and
buys whoever paid at most one token within what was accepted.  The refinement
mapping is part of `Delegation`: a guest is a request past `TrustedIDP` (`Guests`;
"paid" once the jti is burned), `Accepted` is the trust registry with the cap
applied to the assertion, `Burned` the jtis ever redeemed, `Lives` the
assertions' expiry, `Tokens` the access tokens.  `MCServices` instantiates it and
checks `Promise!Spec` as a property.

### Verifications (id-service and the enrolment that uses it)

`CreateVerification`, `OID4VPRequest`, the wallet's `SubmitResponse` – `Update`
and the sweeper are id-service; `Poll`, `Keys`, `Refetch`, `VerifyProof` are
authentication-service.  An answer is what it is, by choice: genuine, anchored,
authenticated by a device signature over some verification's transcript or by a
MAC.  A wallet only signs for a request object it was handed (`Sent`).  Both
processes restart; id-service may come back with a new key.

### MCServices, MCSettling (side by side)

Components that share no state are checked in one instance each, in one run:
`part` says which of them a behaviour runs, and `v1`, `v2`, ... stand for that
one's variables.  State spaces add up and do not multiply, and the run's
properties name the part they are about; `InstancesOK` has TLC evaluate the
theorems' hypotheses (`ConstantsOK`) on the instances, and that a null value is no
id.  `MCSettling` does the same with the fairness of five components, and asks
for liveness only; one of them is `Authenticator` itself, which it extends, so that
TLC evaluates the assumptions of `RateLimit` and `Authenticator` too.

## 4. What the runs check

| Run | Instance | Shows |
|---|---|---|
| `auth_terminal` | 2 requests, 1 challenge, 2 attempts, TTL 4, lockout at 2, clock to 5 | **violation**: a terminal status is overwritten by a slower verification |
| `exchange_declared` | 1 request, an access and an ID token, 1 edit | **violation**: a revoked access token declared as an ID token mints an assertion |
| `flows_resume` | 1 request, 1 user, a stage list that denies after the challenge | **violation**: the stages behind a challenge are not run |
| `enrol_issuer` | 2 accounts, 1 issuer | **violation**: the second licence of an issuer is refused |
| `installs_sequential` | 2 installs, 1 identity, 3 pairs, 1 kind of trouble | compensation, replay cascade, revocation, no leaked identity, a grant for every token |
| `installs_lifetime` | 2 installs, no trouble | **violation**: replay of a token of a revoked install releases another install's identity |
| `sessions_concurrent` | 1 login, 2 requests, 8 tokens, session TTL 1, other TTLs 0, clock to 2 | one code, one family; exchanges of one token bounded by the overlap; swept sessions stay swept |
| `sessions_resurrect` | 2 requests, 4 tokens | **violation**: a refresh undoes an invalidation |
| `transactions_overlap` | 2 transactions, 2 requests, 1 session, one minute, wrong responses to one transaction | decisions and promotions are grounded; decisions stay |
| `transactions_miss` | 1 transaction, 1 request, `Miss = "status"` | **violation**: one wrong response ends the transaction in error |
| `services` | the parts below | 21 properties, below |
| `settling` | sessions (1 request, 4 tokens, failing store, clock to 4), installs (2 requests, 2 pairs), transactions (2 requests, 1 transaction), flows (1 request, 2 flow ids), challenges (1 request, TTL 3, clock to 4); fair | every request answered; unredeemed codes, pending challenges and rotated-out broker rows go; outcomes recorded |

The parts of `services`:

| Part | Instance | Properties |
|---|---|---|
| challenges | `Authenticator`, 1 request, 2 authenticators, 3 attempts, TTL 5, lockout at 3, clock to 6 | `AttemptsAccounted`, `VerdictsStand`: attempts, backoff, audit trail and terminal states are exact when verifications do not overlap |
| verifies | `Authenticator`, 2 requests, 1 challenge, 2 attempts, TTL 3, lockout at 2, clock to 4 | `VerdictsBounded`, `SpentIsClosed`, `NeverReopened`: with overlapping verifications the attempt limit is overshot by the overlap at most, a spent challenge is closed, a swept row stays swept |
| flows | `StepUpFlows`, 2 requests, 1 user, 1 transaction, 2 flow ids, 2 challenges, levels 1 and 2, clock to 2 | `EveryCodeWarranted`, `CompletedOnce`, `TicketsSpentOnce` |
| phones | `Identities`, 2 requests, 1 number, 1 email, 2 accounts, 2 phone flows | `OneAccountPerNumber`, `NoStrandedUser` |
| links | `Identities`, 2 requests, 1 account, 1 phone flow with 2 guesses, 1 social sign-in | `GuessesBounded`, `TicketsSpentOnce` |
| licences | `Identities`, 2 requests, 1 issuer, 2 accounts, 1 social sign-in, no phone flow | `TicketsSpentOnce`, and the mDL actions |
| signups | `Workspaces`, 2 requests, 1 workspace not yet founded, 2 emails, 1 staff account | `WritesEntitled`, `WorkspacesWhole` |
| owners | `Workspaces`, 1 request, 2 workspaces of one owner, 1 break-glass account | `WritesEntitled`, `WorkspacesWhole`, `UsedOnce` |
| clients, journeys, rows | `Consoles`, 2 requests each: one client and its secret under edits and hand-over; two workspaces with two flows; settings, types and developers | `WritesEntitled`, `UsedOnce`, `WorkspacesWhole` |
| exchanges | `Delegation`, 1 request, an access and an ID token, this service trusted by itself, 1 edit | `DelegationsEntitled`: assertions are within what was offered during the request; declared access tokens stood |
| redeems | `Delegation`, 2 requests, 1 foreign issuer with 2 keys, 1 assertion, 1 edit, TTL 1, leeway 1, clock to 2 | `RedemptionsSingleUse` |
| proofs | `Verifications`, 2 requests, 2 workspaces, 2 verifications, 2 keys, strict trust | `ProofsStand` |
| tokens | `Sessions`, 1 request, 1 login, 4 tokens, failing store, TTLs 1 and 2, clock to 4 | `TokensMatchSessions`, `InvalidatedIsDead`: one request at a time, families die with a replay, good tokens have sessions, invalidated sessions issue and change nothing |
| decisions | `Transactions`, 2 requests, 1 transaction, 1 session, 1 rejection, clock to 1 | `TrailComplete`: complete trails, grounded decisions while the tier goes stale |

Every part also keeps its types (`TypesOK`).  All parts but challenges, verifies
and tokens allow one kind of trouble per behaviour (`MaxMishaps` 1).

Several properties are stated while requests do not overlap, or while no store
fails, because the code gives no more: `AttemptsAccounted`, `NoStrandedUser`,
`GuessesBounded`, `UsedOnce` but for its round trip, `TokensMatchSessions`,
`InvalidatedIsDead`, `TrailComplete`, the parked flows of `TicketsSpentOnce`.  They
do not catch the races at the same lines; where no other run shows one, its hazard
in `PROJECT.json` has a note and no property.

Why the bounds are enough.  Every handler touches one row per table and meets
others only through it, so two requests on one row already show each pair of
store calls in each order; what a third would add is counted by the theorems,
which hold for any number.  Two challenge attempts are the smallest number at
which one request can fail a challenge while another is between its read and its
write; three, one at a time, let the backoff grow once.  Eight tokens are four
pairs: two racing exchanges, each followed by another.  Two installs and one
identity are the smallest competition for a claim, three pairs a rotation and a
second generation.  Two flow ids let two parked requests carry one transaction;
two levels separate a fresh weak check from an older strong one.  Two accounts
and one number are a race of two sign-ups.  Two workspaces let an id of one be
used in the other.  One assertion and two requests are a race for one jti; two
keys a rotation behind a cache; TTL 1 with leeway 1 and a clock to 2 reach the
instants before, at and after expiry and inside the leeway.  One edit per
behaviour already falls between any two calls of a request.  Two verifications of
two workspaces are what an answer or a proof could be confused with.  TTLs are
the least that let each expiry fall before, between and after the steps of one
handler.  A session's TTL is at least a handler's time (`HandlerAssumption`): an
hour against a request timeout.

`CHECK_DEADLOCK FALSE` stands in every configuration because the clock and the
ids run out: the instance stops where the system goes on.  That no request is
stuck is checked as liveness instead (`EveryRequestAnswered`, `LeftoversGo`).

**Fairness.**  Weak fairness of each request's next step: the Go scheduler
runs every runnable goroutine, store calls return or fail, and every call of a
peer has a client timeout.  Weak fairness of the sweepers (a ticker started by
`main`) and of the clock.  Nothing is assumed of callers, users, administrators,
restarts or vendors' verdicts: no fairness on starting a request.

## 5. What is proved

Eight modules hold the theorems, in the order of the table.  `IdentitiesProofs`
and `WorkspacesProofs` hold those of further components, each an instance with
constants and variables of its own: `Verifications` (V) and `Delegation` (D) in the
first, `Consoles` (O) in the second.  They hold for every value of the constants,
any number of overlapping requests included, under the assumptions of section 5.1.
`ServicesProofs` applies them to the run `services`.

| Module | Theorem | Statement |
|---|---|---|
| `AuthenticatorProofs` | `TypeCorrect`, `Bounded`, `Closed`, `NotReopened` | types; verdicts within attempts + overlap − 1; spent challenges closed; nothing reopened |
| | `Accounted`, `Audited`, `TerminalForGood`, `Backoff` | one verification at a time: attempts are the refusals exactly; audit trail kept; terminal is final; failures are a backoff apart |
| `SessionsProofs` | `TypeCorrect`, `OneFamily`, `Exchanges`, `Swept` | types; one family per code; exchanges bounded by requests; swept sessions stay swept |
| | `FamiliesDie`, `SessionsOutlast`, `NothingForInvalidated`, `Frozen` | one request at a time: a replayed family is dead; a good token has its session; an invalidated session buys nothing and never changes |
| `InstallsProofs` | `TypeCorrect`, `GrantsRecorded`, `RevokedForGood` | types; each token has its recorded grant; a revoked identity never circulates again |
| | `NothingLeaks`, `ReplayKills`, `RevokedSticks` | a claimed identity has an owner; a replay takes its install along; a revoked install stays revoked, each under the kinds of trouble its property names |
| `TransactionsProofs` | `TypeCorrect`, `Grounded`, `Promoted`, `Final` | types; satisfied and allowed are grounded; promoted sessions are backed by a proof; a decision is final |
| | `Trailed` | while nothing overlaps or fails: each rejection is in the history |
| `StepUpFlowsProofs` | `TypeCorrect`, `CompletesOnce`, `CodesWarranted` | types; a transaction completes and is reported once; a code carries what its user proved, for whom and at the level the advice asks |
| | `DeniedForGood` | a denied request gets no code, in stage lists that deny before they challenge |
| | `OneTicket`, `MirrorsHold` | while nothing overlaps: one code per parked flow; the tracker lists what is parked |
| `IdentitiesProofs` | `TypeCorrect`, `OneAccount`, `NonceBuysOne` | types; one account per number; one session per state nonce |
| | `GuessesLimited`, `NobodyStranded` | while nothing overlaps: wrong codes within `phoneMaxOTP`; and, while nothing fails or is taken away, no account without a way in |
| | `VTypeCorrect`, `Proven` | types; an accepted proof was given for that request; settled stays settled, its outcome final while nothing overlaps |
| | `DTypeCorrect`, `Entitled`, `SingleUseKept` | types; an assertion is for its token's client and within one offer made during the request, and a token declared as an access token is one and stood when the request began; `Delegation` implements `SingleUse` |
| `WorkspacesProofs` | `WorkspacesWhole`, `PicksBuyOne` | a workspace has its owner's user and its client, a session its user; while nothing overlaps or fails a pick buys one session |
| | `WorkspacesChangeHands`, `SessionsOfTheEntitled`, `StaffStayDeactivated` | a workspace changes hands, a session is made or ended, only by who may; a deactivated staff row stays so, restarts included, but for the break-glass accounts |
| | `RowsOfTheEntitled`, `ClientsOfTheEntitled` | settings, types, flows and clients change only in workspaces their sender owned while the request ran |
| | `FlowsOneEnabled`, `ShownSecretsOpen`, `TripsExchangedOnce` | one enabled flow per workspace; while nothing overlaps the secret shown last opens; a round trip is exchanged once |
| `ServicesProofs` | 21 theorems | every property of the run `services`, by its name, for every value of the model values |

### 5.1 Assumptions

Bounds are naturals, null values are not ids, request sets are finite where they
are counted (`Authenticator`, `Sessions`, `Transactions`, `Workspaces`), limits the
code takes from constants are not zero, and `HandlerTime <= SessionTTL`.  The modules
that run in many instances (`StepUpFlows`, `Identities`, `Workspaces`, `Consoles`,
`Delegation`, `Verifications`) state them as `ConstantsOK` and the theorems take it
as hypothesis; `InstancesOK` in `MCServices` checks it of the instances.
`ServicesProofs` has no assumption but `InstancesOK`: it proves those of
`Authenticator`, `Sessions` and `Transactions` of its parts.  Three hypotheses say
more:

* `OneAtATime` (`Authenticator`, `Sessions`): there is one request.  It is needed:
  the runs `auth_terminal` and `sessions_resurrect` have two and refute what
  `TerminalForGood` and `Frozen` state.  The other modules have no such hypothesis:
  overlap is recorded in `mishaps` and the property itself excludes it, so that a
  behaviour may have any number of requests as long as none meets another.
* `DeniesInTime` (`StepUpFlows`): a stage list that denies after a risk
  evaluation has a deny stage behind every evaluation and ahead of every
  challenge and mint.  The order of the built-in risk-adaptive flow
  (`flow_build.go:126`) has it; an owner's own list need not, and `flows_resume`
  refutes `DenialHonoured` with one that has not.
* `MaxOTP` and the attempts of a challenge are at least 1.

### 5.2 The invariants, and why they are needed

None of these properties is inductive: each says something about a table,
and a handler in flight is about to write to that table.  The
strengthenings therefore speak about handlers:

* *Authenticator*, `IInv == TypeOK /\ Creators /\ Verifiers /\ Open /\ Budget`.
  What a creator holds is an unborn id nobody else has; what a verifier holds
  has been stored.  `Budget` charges every verifier past the gate one verdict
  in advance: verdicts on record plus verifiers in flight stay within the
  attempts plus the number of other requests, and the gate admits one only while
  the row is under its limit.  `SoloInv` adds what a lone verifier's copy says
  about its row: they are equal, so that its write is based on what is stored.
* *Sessions*, `IInv == TypeOK /\ Wired /\ Bought /\ Rotation`.  `Wired` says what
  row each step holds; `Bought` that a redeemer is alone on a code already gone;
  `Rotation` counts, per refresh token, exchanges made plus handlers that still
  carry it, and has it revoked before anything is issued against it, so that
  nobody new picks it up.  `SoloInv` orders times: a session outlives what was
  issued for it, the sweeper's grace included, and a dead family has no good
  token and no handler about to add one.
* *Installs*, `IInv == TypeOK /\ Numbered /\ Backed /\ Wired`.  `Wired` says what a
  handler has in hand: between `RecordGrant` and `StoreToken`, a recorded grant
  for the pair it is about to store.  It survives replays and sweeps in between
  because grants are revoked, never deleted.  `SInv` adds what the request being
  served still owes at each of its steps (an identity to give back, a cascade to finish), and
  that installs no request is about owe nothing.
* *Transactions*: a row is written whole only by its lone creator while it is
  pending, and later only by step-up handlers, whose copies carry the row's own
  tier, session and challenge; so whichever copy is written last, the facts the
  properties compare are the same.  `FInv`: whoever holds a settled transaction
  read it while it waited for its step-up, so an allow or a deny has no writer
  left.  `HInv`: a lone copy has its row's history, so a whole-row write drops no
  rejection.
* *StepUpFlows*, `FlInv`: the advice given, the strongest level a user proved and the
  codes stored only grow, so a pending authorization that is warranted when it is made,
  in a handler or parked, stays so; the ledger never credits more than was
  proved.  `DenyInv`: a request that a deny stage applies to has that stage still
  ahead, and is never parked.  `AloneInv`: a lone handler's flow is there until it
  is dropped and unminted until it mints; what is parked is tracked but between
  the two writes.
* *Identities*, `IdInv`: `Numbers` (a handler about to open a session by phone has
  the account its number is anchored to, or the number was taken away since), `Nonces` (a
  state nonce is unused, pending, with one callback, or spent), `Guesses` (a lone
  handler's copy has the count of its flow), `Homes` (an account without a way in
  is in the hands of the step that binds or removes it; a whole-row PATCH without
  an email is of an account with a number).
* *Delegation*, `DInv`: an assertion is never changed once made, and a jti recorded
  leaves the table only when its assertion has expired, so whoever recorded it is
  the only one to have paid with it.  What an exchange looked up may be edited
  under it, so the invariant relates it to the request's history: what is enabled
  now is among its offers (`Abreast`), and what it was granted is within one of
  them and, past the deny list, its token stood (`Vetted`).  For `SingleUseKept` every action is shown to be a step of `SingleUse`
  or to leave its variables alone.
* *Verifications*, `VInv`: a proof stands on the row it was minted for, and only
  pending rows are purged, so that a proof once read belongs to a verification that stays.
* *Workspaces*, `WInv == TypeOK /\ PickersOK /\ RoomKept /\ SignedUpWhole /\ Alone
  /\ Unspent` and `HandlerOK` of each handler.  A lookup is stale the moment it
  returns, so what a handler may rely on is history: a workspace it was found to
  own is among those its sender owned since the request began (`RightsOK`), the
  session it works on is still where it was (`PlacesOK`), and a staff account found
  active in a role was so when the request began, since these only shrink until
  the next seed (`StaffOK`).  `Unspent` is about picks of a lone handler: the
  staging session is live and unspent until the call that takes it.
* *Consoles*, `CInv == TypeOK /\ FlowsOK /\ TripsOK /\ AloneOK /\ LastShownOpens` and
  `OHandlerOK` of each handler.  What a handler read may be stale, but an upsert
  moves no row to another workspace and a delete has the workspace in its condition,
  so every write lands where its sender had the right.  Enabling a flow disables the
  others in the same statement (`FlowsOK`); the copy of a lone handler is what the
  table has (`AloneOK`), without which a stale whole-row write would bring back an
  older secret; a round trip is taken off by the call that sends it (`TripsOK`).

`ServicesProofs` proves nothing about a component again.  For each part it
instantiates the component's proofs with the part's constants and variables, shows
that both instances define the same initial states, steps and properties
(`Same...`), that the assumptions hold of the part (`...Assumed`), and that a
behaviour of `MCServices` stays out of the part or is a behaviour of its component
(`...Run`); what the component's theorems say then holds of it (`...Keep`).
`RedeemedOnce` carries the refinement of `SingleUse` over: in the part redeems the
mapping is that of `SingleUseKept`, in the other parts the promise stays in one
idle state.

Each proof about a component is one lemma per action, then the initial states, the next-state
relation and the temporal step.  In the larger modules every action is first
reduced to what it does to each table, and each part of the invariant has a lemma
on the moves it survives.  Cardinalities of handler sets are moved by lemmas on adding or removing
one element.  Every strengthening was model-checked before it was proved.

### 5.3 Only model-checked

* Liveness under fairness: `EveryRequestAnswered`, `LeftoversGo` and
  `OutcomesRecorded` of `settling`.
  Fairness needs ENABLED, which is out of the prover's reach.
* That the counterexamples of the seven violation runs exist.
* The instances: that the bounds of `MCServices` and its siblings are large enough
  for every action to fire, which TLC's coverage shows.

Every invariant and every action property that a passing run checks is a theorem:
those of the components' own runs in the component's proofs, those of `services` in
`ServicesProofs`.

## 6. Disagreements met

1. `challenges.go:293`: a slower verification overwrites a terminal status, of
   which `challenges.go:205` says it answers 410 at once (`auth_terminal`).
2. `otp.go:415` of authentication-service: a verified challenge mints the code
   itself, so the stages behind `authenticator-validate`, a deny gated on risk
   among them, do not run; `flowmodels.go:34` says the execution "re-enters the
   executor" (`flows_resume`).
3. `enroll_mdl.go:308`: the anchor of a licence has the issuer's trust anchor as
   its value and anchors are unique per tenant, so a second user with a licence of
   the same issuer is refused; `enroll_mdl.go:3` has the credential attached to
   their account (`enrol_issuer`).
4. `sessions.go:120`, also `Upgrade` and the refresh grant: a whole-row write
   undoes an invalidation that `sessions.go:99` wants respected
   (`sessions_resurrect`).
5. `oidc.go:644` of broker-service: a replay of a token of an install revoked
   before releases an identity that is bound to another install by then;
   `REQUIREMENTS.md:11` promises the binding for the install's lifetime
   (`installs_lifetime`).
6. `transaction-service/internal/clients.go:222`: the 401 of a wrong response becomes
   an error, so the "single miss" of `stepup.go:26` does flip the transaction
   (`transactions_miss`).
7. `idjag.go:140` of authentication-service: the deny list is read when the caller
   declares an access token (`subject_token_type`), and access and ID tokens share
   the `typ` that `idjag.go:129` checks; a revoked access token declared as an ID
   token therefore mints an assertion, although `idjag.go:137` wants that "a revoked
   session cannot still mint assertions" and `authentication-service/README.md:281`
   says that "access tokens additionally hit the revocation deny-list"
   (`exchange_declared`).

Met without a run of their own, in broker-service and authentication-service:

* `oidc.go:460` says a refresh token "lives for as long as its install is
  active"; `PurgeExpired` (`pgstorage.go:402`) deletes the row that carries it
  when its *access* token expires, rotated out or not, so an install that is idle
  for that long cannot refresh.  `LeftoversGo` asks for the sweep of rotated-out
  rows only, which is what `pgstorage.go:398` promises.  For the same reason a
  replay after the sweep is not recognised as one.
* `oidc.go:692` calls the stored rows the deny-list of install revocation; the
  administrator's cascade (`install.go:172`) does not delete them, and no route
  retries the half of a cascade that failed, as its comment has an operator do.
* A refresh still in flight can insert a pair into a family that a replay has
  just revoked (`oidc.go:714` of authentication-service); `FamilyDead` is
  therefore checked for requests that do not overlap.
* The jti of an assertion is forgotten at its expiry (`idjag_redemption.go:147`),
  while `jwtx.Verify` accepts the assertion for 30 s more; `SingleUse` therefore
  promises one payment up to the expiry only.  The table is keyed by jti alone,
  not by issuer and jti.  `authentication-service/README.md:298` still says that
  there is no tracking of jtis.
* `Update` of id-service has no condition on the status: of two answers judged at
  once the later one replaces outcome and proof.  `OutcomeKept` has this exception.
* Two wrong codes in flight count as one (`phone_login.go:296`), so guesses pass
  the number at which `phone_login.go:95` has the flow killed; and a failed update
  of the staging session leaves the pick cookie good for a second session
  (`signup_console.go:470`).  `GuessesBounded` and `PickBuysOne` exclude these.
* A flow that was read before its deletion is brought back by the upsert
  (`flows_console.go:251`).
* `ProvisionTenant` of the in-memory store overwrites a row that the
  registry synthesised for a tenant with users, PostgreSQL refuses it; PostgreSQL is modelled.
* Deleting a user leaves its anchors (`pgstorage.go:232`), so the number can
  neither sign in nor sign up again; a PATCH writes back the email it read
  (`users.go:166`).
* Revoking an install while its handshake is in flight is undone by `Finalize`
  (`oidc.go:427` of broker-service), or keeps the identity that was just bound
  (`install.go:208`); a claim whose answer is lost, or a stop between claim and
  finalize, leaves the identity claimed.  `NoLeak` and `RevocationSticks` exclude
  exactly these kinds of trouble, and nothing in the code reconciles them.
* A refresh token whose answer is lost has been rotated: the client's retry is a
  replay.  If the revocation of the old one fails, it is only logged
  (`oidc.go:705` of authentication-service).  After the sweep of a rotated
  token its replay is not recognised (`storage.go:991`).
* `authorize.go:109` of transaction-service dates the cached tier by the row's
  `updated_at`, which every refresh of the session moves; an invalidated session
  still authorises on its tier (`authorize.go:113`).

## 7. Not modelled

* *CAEP, device analyzer, monitoring*: posture is a choice of the risk stage.
  Left for `Posture`.
* *risk-service*: its tier and its "risky" are choices of the model that calls it.
* *Passkeys*: authenticator-service's ceremonies are a right or wrong response.
* *fido-service*, *persona-service*, dynamic registration, MCP facade: see the
  notes in `PROJECT.json`.
* *Within modelled components*: HTTP syntax, pages, validation of forms, logging
  and metrics, cryptography (a signature verifies or not, by choice), the Redis
  variant of the limiter, commits whose outcome PostgreSQL cannot report, the
  loss of `MemStorage` on restart (a development mode), PKCE and the identity of
  clients at the token endpoint, client and owner cookies (a session id stands for
  its holder).
