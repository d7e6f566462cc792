------------------------------ MODULE Sessions ------------------------------
(***************************************************************************)
(* authentication-service, the OIDC core: authorization codes, sessions and *)
(* token families.                                                         *)
(*                                                                         *)
(* A login is what one authorization code buys: one session and one family *)
(* of tokens.  The code grant and the refresh grant, the session API and   *)
(* the consoles' revoke are handler goroutines, modelled store call by     *)
(* store call:                                                             *)
(*                                                                         *)
(*   code grant:     CodeConsume  CodeSession  IssueAccess  IssueRefresh   *)
(*   refresh grant:  RefreshGet ( RefreshReplay                            *)
(*                     | RefreshSession  RefreshExtend  RefreshRotate      *)
(*                       IssueAccess  IssueRefresh )                       *)
(*   sessions:       SessionGet  SessionWrite                              *)
(*                                                                         *)
(* Every store call is atomic; between two of them anything else may run.  *)
(* UpdateSession writes the WHOLE row the handler read.  A session's risk  *)
(* level and step-up flag are not modelled: an upgrade is a write of the   *)
(* row as it was read.  Which client presents a code or a token, and its   *)
(* PKCE verifier, are left open: a check of theirs may fail at any time.   *)
(* Answers are not state; an answered request is idle again.               *)
(***************************************************************************)
EXTENDS Naturals, FiniteSets

CONSTANTS
  Logins,       \* authorization codes, each the start of a login (a bound)
  NumTokens,    \* tokens that can be issued (a bound)
  Requests,     \* requests the service runs at once (a bound)
  CodeTTL,      \* AuthCodeTTLSeconds
  SessionTTL,   \* SessionTTLSeconds
  AccessTTL,    \* AccessTokenTTLSeconds
  RefreshTTL,   \* RefreshTokenTTLSeconds
  HandlerTime,  \* how long a handler may take
  MaxTime,      \* the clock stops here (a bound)
  StoreFails,   \* whether the one write whose error is only logged may fail
  NoLogin       \* the login an idle request works on

\* Tokens are numbered in the order they are stored; 0 is no token.
Tokens == 1..NumTokens

ASSUME TimesAssumption ==
  /\ NumTokens \in Nat
  /\ CodeTTL \in Nat /\ SessionTTL \in Nat
  /\ AccessTTL \in Nat /\ RefreshTTL \in Nat
  /\ HandlerTime \in Nat /\ MaxTime \in Nat

\* Handlers take less than the life of a session (an hour).
ASSUME HandlerAssumption == HandlerTime <= SessionTTL

ASSUME NamesAssumption ==
  /\ IsFiniteSet(Requests)
  /\ StoreFails \in BOOLEAN
  /\ NoLogin \notin Logins

VARIABLES
  now,        \* the clock
  code,       \* the auth_codes table
  session,    \* the sessions table: the session each login starts
  token,      \* the tokens table
  request,    \* the handler goroutines
  sold,       \* history: sessions started per code
  successors, \* history: refresh tokens issued against each refresh token
  dead        \* history: families revoked because of a replay

vars == <<now, code, session, token, request, sold, successors, dead>>
tables == <<code, session, token>>
history == <<sold, successors, dead>>

-----------------------------------------------------------------------------
(* Records.  A swept row is gone from its table: its other fields are only  *)
(* what it last held, and no lookup sees them.                              *)

Code == [status: {"unborn", "pending", "gone"}, createdAt: Nat]

Session == [status: {"none", "stored", "swept"}, invalidated: BOOLEAN,
            expiresAt: Nat]

Token == [status: {"unborn", "stored", "swept"}, kind: {"access", "refresh"},
          login: Logins \cup {NoLogin}, revoked: BOOLEAN, expiresAt: Nat]

NoSession == [status |-> "none", invalidated |-> FALSE, expiresAt |-> 0]

NoToken == [status |-> "unborn", kind |-> "access", login |-> NoLogin,
            revoked |-> FALSE, expiresAt |-> 0]

SessionSteps == {"prolong", "upgrade", "invalidate"}
Issuing == {"access", "refresh"}
Steps == {"idle", "session", "replay", "load", "extend", "rotate"}
           \cup Issuing \cup SessionSteps

\* A handler's locals: the login and the refresh token it was given, the
\* session row it read, the instant issueTokenPair took, and when it began.
Handler == [step: Steps, login: Logins \cup {NoLogin}, parent: {0} \cup Tokens,
            row: Session, issuedAt: Nat, began: Nat]

Idle == [step |-> "idle", login |-> NoLogin, parent |-> 0, row |-> NoSession,
         issuedAt |-> 0, began |-> 0]

TypeOK ==
  /\ now \in Nat
  /\ code \in [Logins -> Code]
  /\ session \in [Logins -> Session]
  /\ token \in [Tokens -> Token]
  /\ request \in [Requests -> Handler]
  /\ sold \in [Logins -> Nat]
  /\ successors \in [Tokens -> Nat]
  /\ dead \subseteq Logins

Init ==
  /\ now = 0
  /\ code = [l \in Logins |-> [status |-> "unborn", createdAt |-> 0]]
  /\ session = [l \in Logins |-> NoSession]
  /\ token = [t \in Tokens |-> NoToken]
  /\ request = [r \in Requests |-> Idle]
  /\ sold = [l \in Logins |-> 0]
  /\ successors = [t \in Tokens |-> 0]
  /\ dead = {}

\* The rows a lookup finds, and the tokens the handlers honour.
Found(t) == token[t].status = "stored"
Honoured(t) == Found(t) /\ ~token[t].revoked /\ now <= token[t].expiresAt

-----------------------------------------------------------------------------
(* Handlers *)

Becomes(r, handler) == request' = [request EXCEPT ![r] = handler]
Answer(r) == Becomes(r, Idle)
Proceed(r, step) == Becomes(r, [request[r] EXCEPT !.step = step])

Busy == {r \in Requests : request[r].step # "idle"}

\* The bound on tokens: a request that may issue is only accepted while there
\* are tokens for it and for those already running.
Room == 2 * (Cardinality(Busy) + 1)
          <= Cardinality({t \in Tokens : token[t].status = "unborn"})

\* The next token to be stored.
Fresh(t) ==
  /\ token[t].status = "unborn"
  /\ \A u \in Tokens : u < t => token[u].status # "unborn"

\* mintCodeAndRedirect, the end of every way to sign in.  now + CodeTTL <
\* MaxTime is the bound on the clock.
PutAuthCode(l) ==
  /\ code[l].status = "unborn" /\ session[l].status = "none"
  /\ now + CodeTTL < MaxTime
  /\ code' = [code EXCEPT ![l] = [status |-> "pending", createdAt |-> now]]
  /\ UNCHANGED <<now, session, token, request, history>>

-----------------------------------------------------------------------------
(* POST /token, grant_type=authorization_code *)

\* Mutant: the code is read and not deleted.
ConsumeAuthCodeKeeps(l) == UNCHANGED code

\* ConsumeAuthCode: read and remove in one statement.
ConsumeAuthCode(l) == code' = [code EXCEPT ![l].status = "gone"]

CodeExpired(l) == now > code[l].createdAt + CodeTTL

\* The code is gone before anything about it is checked; the client, its
\* redirect_uri and its PKCE verifier may be the wrong ones.
CodeConsume(r, l) ==
  /\ request[r].step = "idle"
  /\ code[l].status = "pending"
  /\ Room
  /\ ConsumeAuthCode(l)
  /\ \/ Answer(r)
     \/ /\ ~CodeExpired(l)
        /\ Becomes(r, [Idle EXCEPT !.step = "session", !.login = l,
                                   !.began = now])
  /\ UNCHANGED <<now, session, token, history>>

NewSession == [status |-> "stored", invalidated |-> FALSE,
               expiresAt |-> now + SessionTTL]

\* A new session for the user of the code.
CodeSession(r) ==
  LET l == request[r].login
  IN  /\ request[r].step = "session"
      /\ session' = [session EXCEPT ![l] = NewSession]
      /\ sold' = [sold EXCEPT ![l] = @ + 1]
      /\ Proceed(r, "access")
      /\ UNCHANGED <<now, code, token, successors, dead>>

\* issueTokenPair.  Both expiries count from the instant it begins.
PutToken(t, kind, l, expiresAt) ==
  token' = [token EXCEPT ![t] =
    [status |-> "stored", kind |-> kind, login |-> l, revoked |-> FALSE,
     expiresAt |-> expiresAt]]

IssueAccess(r, t) ==
  /\ request[r].step = "access"
  /\ Fresh(t)
  /\ PutToken(t, "access", request[r].login, now + AccessTTL)
  /\ Becomes(r, [request[r] EXCEPT !.step = "refresh", !.issuedAt = now])
  /\ UNCHANGED <<now, code, session, history>>

IssueRefresh(r, t) ==
  /\ request[r].step = "refresh"
  /\ Fresh(t)
  /\ PutToken(t, "refresh", request[r].login, request[r].issuedAt + RefreshTTL)
  /\ successors' = [u \in Tokens |-> successors[u] +
                      IF u = request[r].parent THEN 1 ELSE 0]
  /\ Answer(r)
  /\ UNCHANGED <<now, code, session, sold, dead>>

-----------------------------------------------------------------------------
(* POST /token, grant_type=refresh_token *)

\* GetTokenByHash and the checks on the row, in the code's order: unknown,
\* revoked (a replay), expired, then the client's.  Unknown and expired are
\* answered at once and change nothing.
RefreshGet(r, t) ==
  /\ request[r].step = "idle"
  /\ token[t].status # "unborn" /\ token[t].kind = "refresh"
  /\ \/ /\ Found(t) /\ token[t].revoked
        /\ Becomes(r, [Idle EXCEPT !.step = "replay", !.login = token[t].login,
                                   !.parent = t, !.began = now])
     \/ /\ Honoured(t) /\ Room
        /\ Becomes(r, [Idle EXCEPT !.step = "load", !.login = token[t].login,
                                   !.parent = t, !.began = now])
  /\ UNCHANGED <<now, tables, history>>

\* Mutant: the access tokens of the family are left alone.
RevokeTokenFamilyRefreshOnly(l) ==
  token' = [t \in Tokens |->
    IF Found(t) /\ token[t].login = l /\ token[t].kind = "refresh"
    THEN [token[t] EXCEPT !.revoked = TRUE] ELSE token[t]]

\* RevokeTokenFamily: every token of the family there is now.
RevokeTokenFamily(l) ==
  token' = [t \in Tokens |->
    IF Found(t) /\ token[t].login = l
    THEN [token[t] EXCEPT !.revoked = TRUE] ELSE token[t]]

RefreshReplay(r) ==
  LET l == request[r].login
  IN  /\ request[r].step = "replay"
      /\ RevokeTokenFamily(l)
      /\ dead' = dead \cup {l}
      /\ Answer(r)
      /\ UNCHANGED <<now, code, session, sold, successors>>

\* Mutant: an invalidated session is good enough.
RefreshSessionUnchecked(r) ==
  LET s == session[request[r].login]
  IN  /\ request[r].step = "load"
      /\ IF s.status = "stored"
         THEN Becomes(r, [request[r] EXCEPT !.step = "extend", !.row = s])
         ELSE Answer(r)
      /\ UNCHANGED <<now, tables, history>>

\* Mutant: nothing is answered when the session is gone.
RefreshSessionSilent(r) ==
  LET s == session[request[r].login]
  IN  /\ request[r].step = "load"
      /\ s.status = "stored" /\ ~s.invalidated
      /\ Becomes(r, [request[r] EXCEPT !.step = "extend", !.row = s])
      /\ UNCHANGED <<now, tables, history>>

\* GetSession.  An expired session will do, an invalidated one will not.
RefreshSession(r) ==
  LET s == session[request[r].login]
  IN  /\ request[r].step = "load"
      /\ IF s.status = "stored" /\ ~s.invalidated
         THEN Becomes(r, [request[r] EXCEPT !.step = "extend", !.row = s])
         ELSE Answer(r)
      /\ UNCHANGED <<now, tables, history>>

\* Mutant: a miss inserts the row.
UpdateSessionUpserts(l, row) == session' = [session EXCEPT ![l] = row]

\* UpdateSession: all the columns, of a row that is still there.
UpdateSession(l, row) ==
  session' = [session EXCEPT ![l] = IF @.status = "stored" THEN row ELSE @]

\* Mutant: the wrong sign.
ProlongedBackwards(row) == [row EXCEPT !.expiresAt = now - SessionTTL]

Prolonged(row) == [row EXCEPT !.expiresAt = now + SessionTTL]

RefreshExtend(r) ==
  LET l == request[r].login
  IN  /\ request[r].step = "extend"
      /\ UpdateSession(l, Prolonged(request[r].row))
      /\ IF session[l].status = "stored"
         THEN Becomes(r, [request[r] EXCEPT !.step = "rotate", !.row = NoSession])
         ELSE Answer(r)
      /\ UNCHANGED <<now, code, token, history>>

\* Mutant: the old token is forgotten.
RevokeTokenByHashNot(t) == UNCHANGED token

\* RevokeTokenByHash; the row may be gone, which no caller minds.
RevokeTokenByHash(t) ==
  token' = [token EXCEPT ![t].revoked = @ \/ Found(t)]

\* Rotation.  If the store fails here it is only logged, and the new pair is
\* issued all the same.
RefreshRotate(r) ==
  /\ request[r].step = "rotate"
  /\ \/ RevokeTokenByHash(request[r].parent)
     \/ StoreFails /\ UNCHANGED token
  /\ Proceed(r, "access")
  /\ UNCHANGED <<now, code, session, history>>

\* POST /revoke, which touches the one token and not its family.
Revoke(t) ==
  /\ Found(t)
  /\ RevokeTokenByHash(t)
  /\ UNCHANGED <<now, code, session, request, history>>

-----------------------------------------------------------------------------
(* /v1/sessions/{id}/refresh, /upgrade and /invalidate, the consoles' logout *)
(* and revoke *)

\* Mutant: no check that the session is still valid.
SessionGetUnchecked(r, l, op) ==
  /\ request[r].step = "idle"
  /\ session[l].status = "stored"
  /\ Becomes(r, [Idle EXCEPT !.step = op, !.login = l, !.row = session[l],
                             !.began = now])
  /\ UNCHANGED <<now, tables, history>>

\* GetSession.  A miss is answered 404, an invalidated session 409 (204 when
\* invalidating).
SessionGet(r, l, op) ==
  /\ request[r].step = "idle"
  /\ session[l].status = "stored" /\ ~session[l].invalidated
  /\ Becomes(r, [Idle EXCEPT !.step = op, !.login = l, !.row = session[l],
                             !.began = now])
  /\ UNCHANGED <<now, tables, history>>

\* POST /v1/sessions, and the sign-in pages: a session no code started, which
\* has no tokens.
CreateSession(l) ==
  /\ code[l].status = "unborn" /\ session[l].status = "none"
  /\ session' = [session EXCEPT ![l] = NewSession]
  /\ UNCHANGED <<now, code, token, request, history>>

Rewritten(op, row) ==
  CASE op = "prolong"    -> Prolonged(row)
    [] op = "upgrade"    -> row
    [] op = "invalidate" -> [row EXCEPT !.invalidated = TRUE]

SessionWrite(r) ==
  /\ request[r].step \in SessionSteps
  /\ UpdateSession(request[r].login, Rewritten(request[r].step, request[r].row))
  /\ Answer(r)
  /\ UNCHANGED <<now, code, token, history>>

\* A store call fails: the handler answers an error (a failed family
\* revocation is only logged) and the tables are as they were.
StoreError(r) ==
  /\ request[r].step \notin {"idle", "rotate"}
  /\ Answer(r)
  /\ UNCHANGED <<now, tables, history>>

-----------------------------------------------------------------------------
(* The background, and the process *)

CodePurgeable(l) == code[l].status = "pending" /\ CodeExpired(l)
TokenPurgeable(t) == Found(t) /\ now > token[t].expiresAt

\* Mutant: no grace after a session's expiry.
SessionPurgeableAtOnce(l) ==
  session[l].status = "stored" /\ now > session[l].expiresAt

\* A session is kept for as long as a refresh token may need it.
SessionPurgeable(l) ==
  session[l].status = "stored" /\ now > session[l].expiresAt + RefreshTTL

\* Mutant: the sweeper forgets the codes.
PurgeCodesNever == UNCHANGED code

PurgeCodes ==
  code' = [l \in Logins |->
    IF CodePurgeable(l) THEN [code[l] EXCEPT !.status = "gone"] ELSE code[l]]

\* Under one lock in memory; one statement after the other, all with the same
\* instant, in Postgres.
PurgeExpired ==
  /\ \/ \E l \in Logins : CodePurgeable(l) \/ SessionPurgeable(l)
     \/ \E t \in Tokens : TokenPurgeable(t)
  /\ token' = [t \in Tokens |->
       IF TokenPurgeable(t) THEN [token[t] EXCEPT !.status = "swept"]
       ELSE token[t]]
  /\ PurgeCodes
  /\ session' = [l \in Logins |->
       IF SessionPurgeable(l) THEN [session[l] EXCEPT !.status = "swept"]
       ELSE session[l]]
  /\ UNCHANGED <<now, request, history>>

\* The process stops and starts again; the tables are in Postgres.
Restart ==
  /\ request' = [r \in Requests |-> Idle]
  /\ UNCHANGED <<now, tables, history>>

Tick ==
  /\ now < MaxTime
  /\ \A r \in Busy : now < request[r].began + HandlerTime
  /\ now' = now + 1
  /\ UNCHANGED <<tables, request, history>>

\* The steps of a request already accepted.
Step(r) ==
  \/ CodeSession(r)
  \/ \E t \in Tokens : IssueAccess(r, t) \/ IssueRefresh(r, t)
  \/ RefreshReplay(r) \/ RefreshSession(r) \/ RefreshExtend(r)
  \/ RefreshRotate(r)
  \/ SessionWrite(r)

Next ==
  \/ \E l \in Logins : PutAuthCode(l) \/ CreateSession(l)
  \/ \E r \in Requests :
       \/ \E l \in Logins : CodeConsume(r, l)
       \/ \E t \in Tokens : RefreshGet(r, t)
       \/ \E l \in Logins, op \in SessionSteps : SessionGet(r, l, op)
       \/ Step(r)
       \/ StoreError(r)
  \/ \E t \in Tokens : Revoke(t)
  \/ PurgeExpired
  \/ Restart
  \/ Tick

Spec == Init /\ [][Next]_vars

\* Goroutines run, the sweeper's ticker fires, time passes.  Nothing is
\* assumed of callers or of restarts.
Fairness ==
  /\ \A r \in Requests : WF_vars(Step(r))
  /\ WF_vars(PurgeExpired)
  /\ WF_vars(Tick)

FairSpec == Spec /\ Fairness

-----------------------------------------------------------------------------
(* Properties, any number of requests at once *)

\* A code starts at most one session, so at most one family, however many
\* requests present it at once (handleCodeGrant consumes it before anything
\* else): all that runs on it later descends from one exchange.
CodeBuysOneFamily == \A l \in Logins : sold[l] <= 1

\* A refresh token is exchanged by at most the requests that can overlap: the
\* grant reads the token and revokes it two store calls later, so everyone
\* who read it in between gets a pair; nobody who comes after the revocation
\* does.  (handleRefreshGrant; holds while the store does not fail.)
SuccessorsBounded ==
  ~StoreFails => \A t \in Tokens : successors[t] <= Cardinality(Requests)

\* No write brings back a session the sweeper took: a handler that read it
\* before and writes it after misses (UpdateSession).
StaysSwept ==
  \A l \in Logins : session[l].status = "swept" => session'[l].status = "swept"
SweptStays == [][StaysSwept]_vars

-----------------------------------------------------------------------------
(* Properties that hold while requests do not overlap, and the docs' claims  *)

\* Once a replay has revoked a family none of its tokens is accepted again,
\* be it refreshed or freshly issued (RevokeTokenFamily: "The ENTIRE family").
FamilyDead ==
  \A t \in Tokens : token[t].login \in dead => ~Honoured(t)

\* A token of an invalidated session buys nothing: no token is issued for it
\* (handleRefreshGrant's InvalidatedAt check).
IssuedForValid ==
  \A t \in Tokens :
    token[t].status = "unborn" /\ token'[t].status = "stored"
      => ~session[token'[t].login].invalidated
NoIssueAfterInvalidate == [][IssuedForValid]_vars

\* An invalidated session is frozen: nothing revives it, prolongs it or
\* writes to it, and in the end the sweeper takes it.
StaysFrozen ==
  \A l \in Logins :
    session[l].invalidated
      => session'[l] \in {session[l], [session[l] EXCEPT !.status = "swept"]}
FrozenOnceInvalidated == [][StaysFrozen]_vars

\* Whoever holds a refresh token that is still good has a session to refresh:
\* the sweeper's grace outlasts every token (PurgeExpired's rationale).
GoodTokenHasSession ==
  \A t \in Tokens :
    Honoured(t) /\ token[t].kind = "refresh"
      => session[token[t].login].status = "stored"

\* Refusing to refresh an invalidated session avoids resurrecting it
\* (sessions.go:99-100): invalidation is for good.
InvalidatedStays ==
  [][\A l \in Logins : session[l].invalidated => session'[l].invalidated]_vars

-----------------------------------------------------------------------------
(* Liveness *)

\* Every request that was accepted is answered (no handler waits for another
\* and every branch answers).
EveryRequestAnswered ==
  \A r \in Requests : request[r].step # "idle" ~> request[r].step = "idle"

\* A code that nobody redeems does not stay (only the sweeper removes it).
CodesSettle ==
  \A l \in Logins :
    code[l].status = "pending" ~> code[l].status = "gone"
=============================================================================
