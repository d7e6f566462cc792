--------------------------- MODULE SessionsProofs ---------------------------
(***************************************************************************)
(* Theorems about Sessions, for every value of its constants:              *)
(*                                                                         *)
(*   TypeCorrect            Spec => []TypeOK                               *)
(*   OneFamily              Spec => []CodeBuysOneFamily                    *)
(*   Exchanges              Spec => []SuccessorsBounded                    *)
(*   Swept                  Spec => SweptStays                             *)
(*                                                                         *)
(* They rest on one inductive invariant: Wired (what handlers and tokens   *)
(* point at exists), Bought (a code is in one place at a time: pending, in *)
(* the hands of one handler, or spent) and Budget (the exchanges of a      *)
(* refresh token still to come are those of the handlers that carry it,    *)
(* and nobody picks it up once it is revoked).                             *)
(*                                                                         *)
(* And, while requests do not overlap (OneAtATime; when they do, the run   *)
(* sessions_resurrect thaws a frozen session):                             *)
(*                                                                         *)
(*   FamiliesDie            Spec => []FamilyDead                           *)
(*   SessionsOutlast        Spec => []GoodTokenHasSession                  *)
(*   NothingForInvalidated  Spec => NoIssueAfterInvalidate                 *)
(*   Frozen                 Spec => FrozenOnceInvalidated                  *)
(*                                                                         *)
(* from a second one, SoloInv: the row a handler holds is the session's    *)
(* own, what it issues for is alive, valid and will last, and the session  *)
(* of a stored refresh token outlives it.                                  *)
(***************************************************************************)
EXTENDS Sessions, FiniteSetTheorems, TLAPS

-----------------------------------------------------------------------------
(* The inductive invariant *)

\* Handlers work on a login, tokens belong to one, and the token a handler
\* was given is one that was stored.
Wired ==
  /\ \A r \in Requests :
       /\ request[r].step # "idle" => request[r].login \in Logins
       /\ request[r].step \in {"replay", "load", "extend", "rotate"}
            => request[r].parent # 0
       /\ request[r].step = "session" => request[r].parent = 0
       /\ request[r].parent # 0 => token[request[r].parent].status # "unborn"
  /\ \A t \in Tokens : token[t].status # "unborn" => token[t].login \in Logins

\* Handler r is about to start a session for login l.
Redeems(r, l) == request[r].step = "session" /\ request[r].login = l

\* A code not consumed has bought nothing, and neither has one in the hands of
\* a handler, of which there is one.
Bought ==
  \A l \in Logins :
    /\ sold[l] <= 1
    /\ code[l].status # "gone" => sold[l] = 0
    /\ code[l].status = "pending" => session[l].status = "none"
    /\ \A r \in Requests : Redeems(r, l) =>
         /\ code[l].status = "gone"
         /\ sold[l] = 0
         /\ session[l].status = "none"
    /\ \A r, s \in Requests : Redeems(r, l) /\ Redeems(s, l) => r = s

\* A refresh token that can still be picked up.
Live(t) == token[t].status = "stored" /\ ~token[t].revoked

\* The handlers that will issue against t, or may.
Carries(h, t) == h.parent = t /\ h.step \in {"load", "extend", "rotate"} \cup Issuing
Carriers(t) == {r \in Requests : Carries(request[r], t)}

\* A token is revoked before anything is issued against it.
RevokedFirst(t) ==
  Live(t) => /\ successors[t] = 0
             /\ \A r \in Requests : Carries(request[r], t)
                                      => request[r].step \notin Issuing

Unborn(t) == token[t].status = "unborn" => successors[t] = 0

BudgetOf(t) == successors[t] + Cardinality(Carriers(t)) <= Cardinality(Requests)

Rotation ==
  ~StoreFails => \A t \in Tokens : RevokedFirst(t) /\ Unborn(t) /\ BudgetOf(t)

IInv == TypeOK /\ Wired /\ Bought /\ Rotation

-----------------------------------------------------------------------------
(* Type correctness *)

\* The empty tables are well typed.
LEMMA InitTypeOK == Init => TypeOK
  BY DEF Init, TypeOK, Code, Session, Token, NoSession, NoToken, Handler, Idle,
         Steps, SessionSteps, Issuing

\* So are the records that stand for nothing.
LEMMA NullRecords == Idle \in Handler /\ NoSession \in Session
  BY DEF Idle, Handler, NoSession, Session, Steps

\* What the actions make of a handler is a handler.
LEMMA RecordTypes ==
  /\ \A h \in Handler, s \in Steps : [h EXCEPT !.step = s] \in Handler
  /\ \A h \in Handler, s \in Steps, w \in Session :
       [h EXCEPT !.step = s, !.row = w] \in Handler
  /\ \A h \in Handler, s \in Steps, n \in Nat :
       [h EXCEPT !.step = s, !.issuedAt = n] \in Handler
  /\ \A h \in Handler, s \in Steps, l \in Logins, n \in Nat :
       [h EXCEPT !.step = s, !.login = l, !.began = n] \in Handler
  /\ \A h \in Handler, s \in Steps, l \in Logins, t \in Tokens, n \in Nat :
       [h EXCEPT !.step = s, !.login = l, !.parent = t, !.began = n] \in Handler
  /\ \A h \in Handler, s \in Steps, l \in Logins, w \in Session, n \in Nat :
       [h EXCEPT !.step = s, !.login = l, !.row = w, !.began = n] \in Handler
  BY DEF Handler

\* A handler that moves on stays well typed.
LEMMA BecomesTypeOK ==
  ASSUME TypeOK, NEW r \in Requests, NEW h \in Handler, Becomes(r, h)
  PROVE  request' \in [Requests -> Handler]
  BY DEF TypeOK, Becomes

\* So does one that answers.
LEMMA AnswerTypeOK ==
  ASSUME TypeOK, NEW r \in Requests, Answer(r)
  PROVE  request' \in [Requests -> Handler]
  BY NullRecords, BecomesTypeOK DEF Answer

\* And one that goes on to its next store call.
LEMMA ProceedTypeOK ==
  ASSUME TypeOK, NEW r \in Requests, NEW s \in Steps, Proceed(r, s)
  PROVE  request' \in [Requests -> Handler]
  <1>1. [request[r] EXCEPT !.step = s] \in Handler
    BY RecordTypes DEF TypeOK
  <1> QED BY <1>1, BecomesTypeOK DEF Proceed

\* The steps the actions name are steps.
LEMMA StepNames ==
  /\ {"idle", "session", "replay", "load", "extend", "rotate"} \subseteq Steps
  /\ Issuing \subseteq Steps /\ SessionSteps \subseteq Steps
  BY DEF Steps

\* A stored token is a token (PutToken).
LEMMA PutTokenTypeOK ==
  ASSUME TypeOK, NEW t \in Tokens, NEW k \in {"access", "refresh"},
         NEW l \in Logins, NEW n \in Nat, PutToken(t, k, l, n)
  PROVE  token' \in [Tokens -> Token]
  <1>1. [status |-> "stored", kind |-> k, login |-> l, revoked |-> FALSE,
         expiresAt |-> n] \in Token
    BY DEF Token
  <1> QED BY <1>1 DEF TypeOK, PutToken

\* A session row written back is a session (UpdateSession).
LEMMA UpdateSessionTypeOK ==
  ASSUME TypeOK, NEW l \in Logins, NEW w \in Session, UpdateSession(l, w)
  PROVE  session' \in [Logins -> Session]
  BY DEF TypeOK, UpdateSession

\* A session just started is a session.
LEMMA NewSessionTypeOK == TypeOK => NewSession \in Session
  BY TimesAssumption DEF TypeOK, NewSession, Session

\* Revoking a token leaves its other fields alone.
LEMMA RevokedToken ==
  ASSUME NEW k \in Token, NEW b \in BOOLEAN
  PROVE  /\ [k EXCEPT !.revoked = b] \in Token
         /\ [k EXCEPT !.revoked = b].status = k.status
         /\ [k EXCEPT !.revoked = b].login = k.login
         /\ [k EXCEPT !.revoked = b].revoked = b
  BY DEF Token

\* RevokeTokenByHash changes nothing but revoked_at, and the token is live no more.
LEMMA RevokeTypeOK ==
  ASSUME TypeOK, NEW t \in Tokens, RevokeTokenByHash(t)
  PROVE  /\ token' \in [Tokens -> Token]
         /\ \A u \in Tokens : /\ token'[u].status = token[u].status
                              /\ token'[u].login = token[u].login
                              /\ token[u].revoked => token'[u].revoked
         /\ ~Live(t)'
  <1>1. token[t] \in Token /\ token[t].revoked \in BOOLEAN
    BY DEF TypeOK, Token
  <1>2. PICK b \in BOOLEAN : /\ token' = [token EXCEPT ![t].revoked = b]
                             /\ token[t].revoked \/ Found(t) => b
    <2>1. (token[t].revoked \/ Found(t)) \in BOOLEAN
      BY <1>1 DEF Found
    <2>2. token' = [token EXCEPT ![t].revoked = token[t].revoked \/ Found(t)]
      BY DEF RevokeTokenByHash
    <2> QED BY <2>1, <2>2
  <1>3. token' = [token EXCEPT ![t] = [token[t] EXCEPT !.revoked = b]]
    BY <1>2 DEF TypeOK
  <1>4. token'[t] = [token[t] EXCEPT !.revoked = b]
    BY <1>3 DEF TypeOK
  <1>5. \A u \in Tokens : u # t => token'[u] = token[u]
    BY <1>3 DEF TypeOK
  <1>6. token' \in [Tokens -> Token]
    BY <1>1, <1>3, RevokedToken DEF TypeOK
  <1>7. token'[t].status = token[t].status /\ token'[t].login = token[t].login
        /\ token'[t].revoked = b
    BY <1>1, <1>4, RevokedToken
  <1> QED BY <1>2, <1>5, <1>6, <1>7 DEF Live, Found

\* RevokeTokenFamily changes nothing but revoked_at.
LEMMA RevokeFamilyTypeOK ==
  ASSUME TypeOK, NEW l, RevokeTokenFamily(l)
  PROVE  /\ token' \in [Tokens -> Token]
         /\ \A u \in Tokens : /\ token'[u].status = token[u].status
                              /\ token'[u].login = token[u].login
                              /\ token[u].revoked => token'[u].revoked
  <1>1. \A u \in Tokens :
          \/ token'[u] = token[u]
          \/ token'[u] = [token[u] EXCEPT !.revoked = TRUE]
    BY DEF RevokeTokenFamily
  <1>2. \A u \in Tokens : token[u] \in Token
    BY DEF TypeOK
  <1>3. DOMAIN token' = Tokens /\ token' = [u \in Tokens |-> token'[u]]
    BY DEF RevokeTokenFamily
  <1>4. \A u \in Tokens : /\ token'[u] \in Token
                          /\ token'[u].status = token[u].status
                          /\ token'[u].login = token[u].login
                          /\ token[u].revoked => token'[u].revoked
    BY <1>1, <1>2, RevokedToken
  <1> QED BY <1>3, <1>4

\* The code grant.
LEMMA CodeGrantTypeOK ==
  ASSUME TypeOK, Wired, NEW r \in Requests
  PROVE  /\ \A l \in Logins : CodeConsume(r, l) => TypeOK'
         /\ CodeSession(r) => TypeOK'
         /\ \A t \in Tokens : IssueAccess(r, t) \/ IssueRefresh(r, t) => TypeOK'
  <1>0. request[r] \in Handler /\ request[r].issuedAt \in Nat
    BY DEF TypeOK, Handler
  <1>1. ASSUME NEW l \in Logins, CodeConsume(r, l) PROVE TypeOK'
    <2>1. [Idle EXCEPT !.step = "session", !.login = l, !.began = now] \in Handler
      BY NullRecords, RecordTypes, StepNames DEF TypeOK
    <2>2. request' \in [Requests -> Handler]
      BY <1>1, <2>1, BecomesTypeOK, AnswerTypeOK DEF CodeConsume
    <2>3. code' \in [Logins -> Code]
      BY <1>1 DEF CodeConsume, ConsumeAuthCode, TypeOK, Code
    <2> QED BY <1>1, <2>2, <2>3 DEF CodeConsume, TypeOK, history
  <1>2. ASSUME CodeSession(r) PROVE TypeOK'
    <2>1. request' \in [Requests -> Handler]
      BY <1>2, ProceedTypeOK, StepNames DEF CodeSession, Issuing
    <2>0. request[r].login \in Logins
      BY <1>2 DEF CodeSession, Wired
    <2>2. session' \in [Logins -> Session]
      BY <1>2, <2>0, NewSessionTypeOK DEF CodeSession, TypeOK
    <2>3. sold' \in [Logins -> Nat]
      BY <1>2, <2>0 DEF CodeSession, TypeOK
    <2> QED BY <1>2, <2>1, <2>2, <2>3 DEF CodeSession, TypeOK
  <1>3. ASSUME NEW t \in Tokens, IssueAccess(r, t) PROVE TypeOK'
    <2>1. [request[r] EXCEPT !.step = "refresh", !.issuedAt = now] \in Handler
      BY <1>0, RecordTypes, StepNames DEF TypeOK, Issuing
    <2>2. request' \in [Requests -> Handler]
      BY <1>3, <2>1, BecomesTypeOK DEF IssueAccess
    <2>3. request[r].login \in Logins /\ now + AccessTTL \in Nat
      BY <1>3, TimesAssumption DEF IssueAccess, Wired, TypeOK
    <2>4. token' \in [Tokens -> Token]
      BY <1>3, <2>3, PutTokenTypeOK DEF IssueAccess
    <2> QED BY <1>3, <2>2, <2>4 DEF IssueAccess, TypeOK, history
  <1>4. ASSUME NEW t \in Tokens, IssueRefresh(r, t) PROVE TypeOK'
    <2>1. request' \in [Requests -> Handler]
      BY <1>4, AnswerTypeOK DEF IssueRefresh
    <2>2. request[r].login \in Logins /\ request[r].issuedAt + RefreshTTL \in Nat
      BY <1>0, <1>4, TimesAssumption DEF IssueRefresh, Wired
    <2>3. token' \in [Tokens -> Token]
      BY <1>4, <2>2, PutTokenTypeOK DEF IssueRefresh
    <2>4. successors' \in [Tokens -> Nat]
      BY <1>4 DEF IssueRefresh, TypeOK
    <2> QED BY <1>4, <2>1, <2>3, <2>4 DEF IssueRefresh, TypeOK
  <1> QED BY <1>1, <1>2, <1>3, <1>4

\* The refresh grant.
LEMMA RefreshGrantTypeOK ==
  ASSUME TypeOK, Wired, NEW r \in Requests
  PROVE  /\ \A t \in Tokens : RefreshGet(r, t) => TypeOK'
         /\ RefreshReplay(r) => TypeOK'
         /\ RefreshSession(r) => TypeOK'
         /\ RefreshExtend(r) => TypeOK'
         /\ RefreshRotate(r) => TypeOK'
  <1>0. request[r] \in Handler /\ request[r].row \in Session
    BY DEF TypeOK, Handler
  <1>1. ASSUME NEW t \in Tokens, RefreshGet(r, t) PROVE TypeOK'
    <2>1. token[t].login \in Logins
      BY <1>1 DEF RefreshGet, Wired
    <2>2. \A s \in {"replay", "load"} :
            [Idle EXCEPT !.step = s, !.login = token[t].login, !.parent = t,
                         !.began = now] \in Handler
      BY <2>1, NullRecords, RecordTypes, StepNames DEF TypeOK
    <2>3. request' \in [Requests -> Handler]
      BY <1>1, <2>2, BecomesTypeOK, AnswerTypeOK DEF RefreshGet
    <2> QED BY <1>1, <2>3 DEF RefreshGet, TypeOK, tables, history
  <1>2. ASSUME RefreshReplay(r) PROVE TypeOK'
    <2>1. request[r].login \in Logins /\ request[r].parent \in Tokens
          /\ token[request[r].parent].login \in Logins
      BY <1>0, <1>2 DEF RefreshReplay, Wired, Handler
    <2>2. request' \in [Requests -> Handler]
      BY <1>2, AnswerTypeOK DEF RefreshReplay
    <2>3. token' \in [Tokens -> Token]
      BY <1>2, RevokeFamilyTypeOK DEF RefreshReplay
    <2> QED BY <1>2, <2>1, <2>2, <2>3 DEF RefreshReplay, TypeOK
  <1>3. ASSUME RefreshSession(r) PROVE TypeOK'
    <2>1. session[request[r].login] \in Session
      BY <1>3 DEF RefreshSession, Wired, TypeOK
    <2>2. [request[r] EXCEPT !.step = "extend", !.row = session[request[r].login]]
            \in Handler
      BY <1>0, <2>1, RecordTypes, StepNames
    <2>3. request' \in [Requests -> Handler]
      BY <1>3, <2>2, BecomesTypeOK, AnswerTypeOK DEF RefreshSession
    <2> QED BY <1>3, <2>3 DEF RefreshSession, TypeOK, tables, history
  <1>4. ASSUME RefreshExtend(r) PROVE TypeOK'
    <2>1. request[r].login \in Logins /\ Prolonged(request[r].row) \in Session
      BY <1>0, <1>4, TimesAssumption
      DEF RefreshExtend, Wired, Prolonged, Session, TypeOK
    <2>2. session' \in [Logins -> Session]
      BY <1>4, <2>1, UpdateSessionTypeOK DEF RefreshExtend
    <2>3. [request[r] EXCEPT !.step = "rotate", !.row = NoSession] \in Handler
      BY <1>0, NullRecords, RecordTypes, StepNames
    <2>4. request' \in [Requests -> Handler]
      BY <1>4, <2>3, BecomesTypeOK, AnswerTypeOK DEF RefreshExtend
    <2> QED BY <1>4, <2>2, <2>4 DEF RefreshExtend, TypeOK, history
  <1>5. ASSUME RefreshRotate(r) PROVE TypeOK'
    <2>1. request[r].parent \in Tokens
      BY <1>0, <1>5 DEF RefreshRotate, Wired, Handler
    <2>2. token' \in [Tokens -> Token]
      BY <1>5, <2>1, RevokeTypeOK DEF RefreshRotate, TypeOK
    <2>3. request' \in [Requests -> Handler]
      BY <1>5, ProceedTypeOK, StepNames DEF RefreshRotate, Issuing
    <2> QED BY <1>5, <2>2, <2>3 DEF RefreshRotate, TypeOK, history
  <1> QED BY <1>1, <1>2, <1>3, <1>4, <1>5

\* The session API, the sweeper and the rest.
LEMMA SessionApiTypeOK ==
  ASSUME TypeOK, Wired, NEW r \in Requests
  PROVE  /\ \A l \in Logins, op \in SessionSteps : SessionGet(r, l, op) => TypeOK'
         /\ SessionWrite(r) => TypeOK'
         /\ StoreError(r) => TypeOK'
  <1>0. request[r] \in Handler /\ request[r].row \in Session
    BY DEF TypeOK, Handler
  <1>1. ASSUME NEW l \in Logins, NEW op \in SessionSteps, SessionGet(r, l, op)
        PROVE  TypeOK'
    <2>1. [Idle EXCEPT !.step = op, !.login = l, !.row = session[l],
                       !.began = now] \in Handler
      BY NullRecords, RecordTypes, StepNames DEF TypeOK
    <2>2. request' \in [Requests -> Handler]
      BY <1>1, <2>1, BecomesTypeOK DEF SessionGet
    <2> QED BY <1>1, <2>2 DEF SessionGet, TypeOK, tables, history
  <1>2. ASSUME SessionWrite(r) PROVE TypeOK'
    <2>1. Rewritten(request[r].step, request[r].row) \in Session
      <3>1. now + SessionTTL \in Nat
        BY TimesAssumption DEF TypeOK
      <3> QED
        BY <1>0, <1>2, <3>1
        DEF SessionWrite, SessionSteps, Rewritten, Prolonged, Session
    <2>2. request[r].login \in Logins
      BY <1>2 DEF SessionWrite, SessionSteps, Wired
    <2>3. session' \in [Logins -> Session]
      BY <1>2, <2>1, <2>2, UpdateSessionTypeOK DEF SessionWrite
    <2>4. request' \in [Requests -> Handler]
      BY <1>2, AnswerTypeOK DEF SessionWrite
    <2> QED BY <1>2, <2>3, <2>4 DEF SessionWrite, TypeOK, history
  <1>3. ASSUME StoreError(r) PROVE TypeOK'
    <2>1. request' \in [Requests -> Handler]
      BY <1>3, AnswerTypeOK DEF StoreError
    <2> QED BY <1>3, <2>1 DEF StoreError, TypeOK, tables, history
  <1> QED BY <1>1, <1>2, <1>3

\* What is not a request: new codes, sweeper, restart, clock.
LEMMA BackgroundTypeOK ==
  ASSUME TypeOK
  PROVE  /\ \A l \in Logins : PutAuthCode(l) \/ CreateSession(l) => TypeOK'
         /\ \A t \in Tokens : Revoke(t) => TypeOK'
         /\ PurgeExpired \/ Restart \/ Tick => TypeOK'
  <1>1. ASSUME NEW l \in Logins, PutAuthCode(l) PROVE TypeOK'
    BY <1>1 DEF PutAuthCode, TypeOK, Code, history
  <1>2. ASSUME NEW l \in Logins, CreateSession(l) PROVE TypeOK'
    <2>1. session' \in [Logins -> Session]
      BY <1>2, NewSessionTypeOK DEF CreateSession, TypeOK
    <2> QED BY <1>2, <2>1 DEF CreateSession, TypeOK, history
  <1>3. ASSUME NEW t \in Tokens, Revoke(t) PROVE TypeOK'
    <2>1. token' \in [Tokens -> Token]
      BY <1>3, RevokeTypeOK DEF Revoke
    <2> QED BY <1>3, <2>1 DEF Revoke, TypeOK, history
  <1>4. CASE PurgeExpired
    <2>1. token' \in [Tokens -> Token]
      BY <1>4 DEF PurgeExpired, TypeOK, Token
    <2>2. code' \in [Logins -> Code]
      BY <1>4 DEF PurgeExpired, PurgeCodes, TypeOK, Code
    <2>3. session' \in [Logins -> Session]
      BY <1>4 DEF PurgeExpired, TypeOK, Session
    <2> QED BY <1>4, <2>1, <2>2, <2>3 DEF PurgeExpired, TypeOK, history
  <1>5. CASE Restart
    BY <1>5, NullRecords DEF Restart, TypeOK, tables, history
  <1>6. CASE Tick
    BY <1>6 DEF Tick, TypeOK, tables, history
  <1> QED BY <1>1, <1>2, <1>3, <1>4, <1>5, <1>6

\* Every step keeps the types.
LEMMA NextTypeOK == TypeOK /\ Wired /\ [Next]_vars => TypeOK'
  <1> SUFFICES ASSUME TypeOK, Wired, [Next]_vars PROVE TypeOK'
    OBVIOUS
  <1>1. CASE UNCHANGED vars
    BY <1>1 DEF vars, TypeOK
  <1> QED
    BY <1>1, CodeGrantTypeOK, RefreshGrantTypeOK, SessionApiTypeOK,
       BackgroundTypeOK
    DEF Next, Step

-----------------------------------------------------------------------------
(* What a step may do, part by part *)

\* Tokens are never unborn again, never change hands, never live again.
TokenStep ==
  \A u \in Tokens :
    /\ token[u].status # "unborn" => /\ token'[u].status # "unborn"
                                     /\ token'[u].login = token[u].login
    /\ token'[u].status # "unborn" => token'[u].login \in Logins
    /\ Live(u)' => Live(u) \/ token[u].status = "unborn"

\* Codes and sessions move on without selling anything.
CodeStep ==
  \A l \in Logins :
    /\ sold'[l] = sold[l]
    /\ code'[l].status # "gone" => code[l].status # "gone"
    /\ code[l].status = "gone" => code'[l].status = "gone"
    /\ code'[l].status = "pending"
         => code[l].status = "pending" \/ session'[l].status = "none"
    /\ session[l].status = "none" /\ session'[l].status # "none"
         => code[l].status = "unborn" /\ code'[l].status = "unborn"

\* A handler's locals are in order, and it carries a token only if it did or
\* has just read it live.
InOrder(r) ==
  /\ request'[r].step # "idle" => request'[r].login \in Logins
  /\ request'[r].step \in {"replay", "load", "extend", "rotate"}
       => request'[r].parent # 0
  /\ request'[r].step = "session" => request'[r].parent = 0
  /\ request'[r].parent # 0 => token[request'[r].parent].status # "unborn"

CarriesOn(r) ==
  \A t \in Tokens : Carries(request'[r], t) =>
    \/ Live(t) /\ request'[r].step \notin Issuing
    \/ /\ Carries(request[r], t)
       /\ \/ request'[r].step \notin Issuing
          \/ request[r].step \in Issuing
          \/ StoreFails
          \/ ~Live(t)'

RequestStep ==
  \A r \in Requests : request'[r] = request[r] \/ (InOrder(r) /\ CarriesOn(r))

\* No handler begins to redeem a code.
RedeemStep ==
  \A r \in Requests : request'[r] = request[r] \/ request'[r].step # "session"

\* The three parts of the invariant, each from what a step may do.
LEMMA WiredKept ==
  ASSUME TypeOK, TypeOK', Wired, TokenStep, RequestStep
  PROVE  Wired'
  <1>0. \A r \in Requests : request'[r].parent \in {0} \cup Tokens
    BY DEF TypeOK, Handler
  <1>1. \A t \in Tokens : token'[t].status # "unborn" => token'[t].login \in Logins
    BY DEF TokenStep
  <1>2. \A r \in Requests :
          /\ request'[r].step # "idle" => request'[r].login \in Logins
          /\ request'[r].step \in {"replay", "load", "extend", "rotate"}
               => request'[r].parent # 0
          /\ request'[r].step = "session" => request'[r].parent = 0
    BY DEF RequestStep, InOrder, Wired
  <1>3. \A r \in Requests :
          request'[r].parent # 0 => token[request'[r].parent].status # "unborn"
    BY DEF RequestStep, InOrder, Wired
  <1>4. \A r \in Requests :
          request'[r].parent # 0 => token'[request'[r].parent].status # "unborn"
    BY <1>0, <1>3 DEF TokenStep
  <1> QED BY <1>1, <1>2, <1>4 DEF Wired

\* A step that sells no code and begins no redemption keeps Bought.
LEMMA BoughtKept ==
  ASSUME TypeOK, TypeOK', Bought, CodeStep, RedeemStep
  PROVE  Bought'
  <1>1. \A r \in Requests, l \in Logins : Redeems(r, l)' => Redeems(r, l)
    BY DEF RedeemStep, Redeems
  <1> SUFFICES ASSUME NEW l \in Logins
               PROVE  /\ sold'[l] <= 1
                      /\ code'[l].status # "gone" => sold'[l] = 0
                      /\ code'[l].status = "pending" => session'[l].status = "none"
                      /\ \A r \in Requests : Redeems(r, l)' =>
                           /\ code'[l].status = "gone"
                           /\ sold'[l] = 0
                           /\ session'[l].status = "none"
                      /\ \A r, s \in Requests : Redeems(r, l)' /\ Redeems(s, l)' => r = s
    BY DEF Bought
  <1>2. sold'[l] <= 1 /\ (code'[l].status # "gone" => sold'[l] = 0)
    BY DEF CodeStep, Bought
  <1>3. code'[l].status = "pending" => session'[l].status = "none"
    BY DEF CodeStep, Bought
  <1>4. ASSUME NEW r \in Requests, Redeems(r, l)'
        PROVE  code'[l].status = "gone" /\ sold'[l] = 0 /\ session'[l].status = "none"
    BY <1>1, <1>4 DEF CodeStep, Bought
  <1>5. \A r, s \in Requests : Redeems(r, l)' /\ Redeems(s, l)' => r = s
    BY <1>1 DEF Bought
  <1> QED BY <1>2, <1>3, <1>4, <1>5

\* The handlers that carry a token are no more than the requests.
LEMMA CarriersFinite ==
  ASSUME NEW t
  PROVE  /\ IsFiniteSet(Requests) /\ IsFiniteSet(Carriers(t))
         /\ Cardinality(Carriers(t)) \in Nat /\ Cardinality(Requests) \in Nat
         /\ Cardinality(Carriers(t)) <= Cardinality(Requests)
  BY NamesAssumption, FS_Subset, FS_CardinalityType DEF Carriers

\* The same after a step.
LEMMA CarriersFiniteNext ==
  ASSUME NEW t
  PROVE  /\ IsFiniteSet(Carriers(t)')
         /\ Cardinality(Carriers(t)') \in Nat
         /\ Cardinality(Carriers(t)') <= Cardinality(Requests)
  <1>1. Carriers(t)' \subseteq Requests
    BY DEF Carriers
  <1> QED BY <1>1, NamesAssumption, FS_Subset, FS_CardinalityType

\* A step that issues no refresh token keeps the budget: no one picks up a dead token.
LEMMA RotationKept ==
  ASSUME TypeOK, TypeOK', Wired, Rotation, TokenStep, RequestStep,
         successors' = successors
  PROVE  Rotation'
  <1> SUFFICES ASSUME ~StoreFails, NEW t \in Tokens
               PROVE  RevokedFirst(t)' /\ Unborn(t)' /\ BudgetOf(t)'
    BY DEF Rotation
  <1>0. RevokedFirst(t) /\ Unborn(t) /\ BudgetOf(t) /\ successors[t] \in Nat
    BY DEF Rotation, TypeOK
  <1>1. ASSUME token[t].status = "unborn"
        PROVE  successors[t] = 0 /\ \A r \in Requests : ~Carries(request'[r], t)
    <2>1. \A r \in Requests : ~Carries(request[r], t)
      BY <1>1 DEF Wired, Carries, Tokens
    <2>2. ~Live(t)
      BY <1>1 DEF Live
    <2> QED BY <1>0, <1>1, <2>1, <2>2 DEF RequestStep, CarriesOn, Unborn
  <1>2. Unborn(t)'
    BY <1>1 DEF Unborn, TokenStep
  <1>3. RevokedFirst(t)'
    <2> SUFFICES ASSUME Live(t)'
                 PROVE  /\ successors[t] = 0
                        /\ \A r \in Requests : Carries(request'[r], t)
                             => request'[r].step \notin Issuing
      BY DEF RevokedFirst
    <2>1. CASE token[t].status = "unborn"
      BY <1>1, <2>1
    <2>2. CASE Live(t)
      <3>1. successors[t] = 0
        BY <1>0, <2>2 DEF RevokedFirst
      <3>2. ASSUME NEW r \in Requests, Carries(request'[r], t)
            PROVE  request'[r].step \notin Issuing
        BY <1>0, <2>2, <3>2 DEF RevokedFirst, RequestStep, CarriesOn
      <3> QED BY <3>1, <3>2
    <2> QED BY <2>1, <2>2 DEF TokenStep
  <1>4. BudgetOf(t)'
    <2>1. CASE successors[t] = 0
      BY <2>1, CarriersFinite, CarriersFiniteNext DEF BudgetOf
    <2>2. CASE successors[t] # 0
      <3>1. ~Live(t)
        BY <1>0, <2>2 DEF RevokedFirst
      <3>2. Carriers(t)' \subseteq Carriers(t)
        BY <3>1 DEF Carriers, RequestStep, CarriesOn
      <3>3. Cardinality(Carriers(t)') <= Cardinality(Carriers(t))
        BY <3>2, CarriersFinite, FS_Subset
      <3> QED BY <1>0, <3>3, CarriersFinite, CarriersFiniteNext DEF BudgetOf
    <2> QED BY <2>1, <2>2
  <1> QED BY <1>2, <1>3, <1>4

\* The invariant is kept by every step that is none of the two that matter
\* (CodeConsume, CodeSession; IssueRefresh).
LEMMA IInvKept ==
  ASSUME IInv, TypeOK', TokenStep, CodeStep, RequestStep, RedeemStep,
         successors' = successors
  PROVE  IInv'
  BY WiredKept, BoughtKept, RotationKept DEF IInv

-----------------------------------------------------------------------------
(* The actions, part by part *)

\* Tokens left alone, or only revoked, take a TokenStep.
LEMMA TokenSame ==
  ASSUME Wired, token' = token
  PROVE  TokenStep
  BY DEF Wired, TokenStep, Live

\* Revoking is a TokenStep.
LEMMA TokenRevoked ==
  ASSUME TypeOK, Wired,
         \A u \in Tokens : /\ token'[u].status = token[u].status
                           /\ token'[u].login = token[u].login
                           /\ token[u].revoked => token'[u].revoked
  PROVE  TokenStep
  BY DEF Wired, TokenStep, Live

\* RevokeTokenByHash is one, and leaves the token dead.
LEMMA RevokedTokenStep ==
  ASSUME TypeOK, Wired, NEW t \in Tokens, RevokeTokenByHash(t)
  PROVE  TokenStep /\ ~Live(t)'
  <1>1. /\ \A u \in Tokens : /\ token'[u].status = token[u].status
                             /\ token'[u].login = token[u].login
                             /\ token[u].revoked => token'[u].revoked
        /\ ~Live(t)'
    BY RevokeTypeOK
  <1>2. TokenStep
    BY <1>1, TokenRevoked
  <1> QED BY <1>1, <1>2

\* Codes and sessions left alone take a CodeStep.
LEMMA CodeSame ==
  ASSUME code' = code, sold' = sold, session' = session
  PROVE  CodeStep
  BY DEF CodeStep

\* Writing a session row back is a CodeStep.
LEMMA SessionUpdated ==
  ASSUME TypeOK, code' = code, sold' = sold, NEW l \in Logins, NEW w,
         UpdateSession(l, w)
  PROVE  CodeStep
  <1>1. \A k \in Logins : session[k].status = "none" => session'[k].status = "none"
    BY DEF UpdateSession, TypeOK
  <1> QED BY <1>1 DEF CodeStep

\* Handlers left alone take a RequestStep.
LEMMA RequestSame ==
  ASSUME request' = request
  PROVE  RequestStep /\ RedeemStep
  BY DEF RequestStep, RedeemStep

\* One handler moving is a RequestStep if it is in order.
LEMMA Moved ==
  ASSUME TypeOK, NEW r \in Requests, NEW h, Becomes(r, h)
  PROVE  /\ request'[r] = h
         /\ InOrder(r) /\ CarriesOn(r) => RequestStep
         /\ h.step # "session" => RedeemStep
  <1>1. request'[r] = h /\ \A s \in Requests : s # r => request'[s] = request[s]
    BY DEF Becomes, TypeOK
  <1> QED BY <1>1 DEF RequestStep, RedeemStep

\* Answering always is.
LEMMA Answered ==
  ASSUME TypeOK, NEW r \in Requests, Answer(r)
  PROVE  RequestStep /\ RedeemStep /\ request'[r] = Idle
  <1>1. Idle.step = "idle" /\ Idle.parent = 0
    BY DEF Idle
  <1>2. request'[r] = Idle
    BY Moved DEF Answer
  <1>3. InOrder(r) /\ CarriesOn(r)
    BY <1>1, <1>2 DEF InOrder, CarriesOn, Carries, Issuing
  <1> QED BY <1>1, <1>2, <1>3, Moved DEF Answer

\* The fields of the handlers the actions make.
LEMMA Fields ==
  /\ \A h \in Handler, s \in Steps :
       LET k == [h EXCEPT !.step = s] IN
       k.step = s /\ k.login = h.login /\ k.parent = h.parent
  /\ \A h \in Handler, s \in Steps, w \in Session :
       LET k == [h EXCEPT !.step = s, !.row = w] IN
       k.step = s /\ k.login = h.login /\ k.parent = h.parent
  /\ \A h \in Handler, s \in Steps, n \in Nat :
       LET k == [h EXCEPT !.step = s, !.issuedAt = n] IN
       k.step = s /\ k.login = h.login /\ k.parent = h.parent
  /\ \A s \in Steps, l \in Logins, n \in Nat :
       LET k == [Idle EXCEPT !.step = s, !.login = l, !.began = n] IN
       k.step = s /\ k.login = l /\ k.parent = 0
  /\ \A s \in Steps, l \in Logins, t \in Tokens, n \in Nat :
       LET k == [Idle EXCEPT !.step = s, !.login = l, !.parent = t, !.began = n] IN
       k.step = s /\ k.login = l /\ k.parent = t
  /\ \A s \in Steps, l \in Logins, w \in Session, n \in Nat :
       LET k == [Idle EXCEPT !.step = s, !.login = l, !.row = w, !.began = n] IN
       k.step = s /\ k.login = l /\ k.parent = 0
  BY DEF Handler, Idle

\* The steps of the refresh grant up to the rotation.
LEMMA RefreshGetIInv ==
  ASSUME IInv, TypeOK', NEW r \in Requests, NEW t \in Tokens, RefreshGet(r, t)
  PROVE  IInv'
  <1>0. TypeOK /\ Wired /\ now \in Nat
    BY DEF IInv, TypeOK
  <1>1. TokenStep /\ CodeStep /\ successors' = successors
    BY <1>0, TokenSame, CodeSame DEF RefreshGet, tables, history
  <1>2. RequestStep /\ RedeemStep
    <2>1. ASSUME NEW s \in {"replay", "load"}, s = "load" => Live(t),
                 Becomes(r, [Idle EXCEPT !.step = s, !.login = token[t].login,
                                         !.parent = t, !.began = now])
          PROVE  RequestStep /\ RedeemStep
      <3> DEFINE k == [Idle EXCEPT !.step = s, !.login = token[t].login,
                                   !.parent = t, !.began = now]
      <3>1. token[t].login \in Logins /\ token[t].status # "unborn"
        BY <1>0 DEF RefreshGet, Wired
      <3>2. k.step = s /\ k.login = token[t].login /\ k.parent = t
        BY <1>0, <3>1, Fields, StepNames
      <3>3. request'[r] = k
        BY <1>0, <2>1, Moved
      <3> HIDE DEF k
      <3>4. InOrder(r)
        BY <3>1, <3>2, <3>3 DEF InOrder, Tokens
      <3>5. CarriesOn(r)
        BY <2>1, <3>2, <3>3 DEF CarriesOn, Carries, Issuing
      <3> QED BY <1>0, <2>1, <3>2, <3>4, <3>5, Moved DEF k
    <2> QED BY <2>1 DEF RefreshGet, Honoured, Found, Live
  <1> QED BY <1>1, <1>2, IInvKept

\* A handler goes from one step of the refresh grant, or of issueTokenPair, to
\* the next.
LEMMA GoesOn ==
  ASSUME TypeOK, Wired, NEW r \in Requests, NEW k, Becomes(r, k),
         k.login = request[r].login, k.parent = request[r].parent,
         \/ /\ k.step \in {"extend", "rotate"}
            /\ request[r].step \in {"load", "extend"}
         \/ /\ k.step \in Issuing
            /\ \/ request[r].step \in Issuing \cup {"session"}
               \/ /\ request[r].step = "rotate"
                  /\ \A t \in Tokens :
                       request[r].parent = t => StoreFails \/ ~Live(t)'
  PROVE  RequestStep /\ RedeemStep
  <1>1. request'[r] = k
    BY Moved
  <1>2. request[r].step # "idle" /\ k.step # "session"
    BY DEF Issuing
  <1>3. InOrder(r)
    BY <1>1, <1>2 DEF InOrder, Wired, Issuing
  <1>4. CarriesOn(r)
    <2> SUFFICES ASSUME NEW t \in Tokens, Carries(k, t)
                 PROVE  /\ Carries(request[r], t)
                        /\ \/ k.step \notin Issuing
                           \/ request[r].step \in Issuing
                           \/ StoreFails
                           \/ ~Live(t)'
      BY <1>1 DEF CarriesOn
    <2>1. request[r].parent = t /\ t # 0
      BY DEF Carries, Tokens
    <2>2. request[r].step # "session"
      BY <2>1 DEF Wired
    <2> QED BY <2>1, <2>2 DEF Carries, Issuing
  <1> QED BY <1>2, <1>3, <1>4, Moved

\* The steps of the refresh grant after the token is read keep the invariant.
LEMMA RefreshGrantIInv ==
  ASSUME IInv, TypeOK', NEW r \in Requests,
         RefreshReplay(r) \/ RefreshSession(r) \/ RefreshExtend(r) \/ RefreshRotate(r)
  PROVE  IInv'
  <1>0. /\ TypeOK /\ Wired
        /\ request[r] \in Handler
        /\ request[r].parent \in {0} \cup Tokens
    BY DEF IInv, TypeOK, Handler
  <1>1. CASE RefreshReplay(r)
    <2>1. TokenStep
      BY <1>0, <1>1, RevokeFamilyTypeOK, TokenRevoked DEF RefreshReplay
    <2>2. CodeStep /\ successors' = successors
      BY <1>1, CodeSame DEF RefreshReplay
    <2>3. RequestStep /\ RedeemStep
      BY <1>0, <1>1, Answered DEF RefreshReplay
    <2> QED BY <2>1, <2>2, <2>3, IInvKept
  <1>2. CASE RefreshSession(r)
    <2>1. TokenStep /\ CodeStep /\ successors' = successors
      BY <1>0, <1>2, TokenSame, CodeSame DEF RefreshSession, tables, history
    <2>2. RequestStep /\ RedeemStep
      <3> DEFINE k == [request[r] EXCEPT !.step = "extend",
                                         !.row = session[request[r].login]]
      <3>1. session[request[r].login] \in Session
        BY <1>0, <1>2 DEF RefreshSession, Wired, TypeOK
      <3>2. k.step = "extend" /\ k.login = request[r].login
            /\ k.parent = request[r].parent
        BY <1>0, <3>1, Fields, StepNames
      <3>3. CASE Answer(r)
        BY <1>0, <3>3, Answered
      <3>4. CASE Becomes(r, k)
        <4>1. request[r].step = "load"
          BY <1>2 DEF RefreshSession
        <4> HIDE DEF k
        <4> QED BY <1>0, <3>2, <3>4, <4>1, GoesOn
      <3> QED BY <1>2, <3>3, <3>4 DEF RefreshSession
    <2> QED BY <2>1, <2>2, IInvKept
  <1>3. CASE RefreshExtend(r)
    <2>1. TokenStep /\ successors' = successors
      BY <1>0, <1>3, TokenSame DEF RefreshExtend, history
    <2>2. CodeStep
      <3>1. request[r].login \in Logins
        BY <1>0, <1>3 DEF RefreshExtend, Wired
      <3> QED BY <1>0, <1>3, <3>1, SessionUpdated DEF RefreshExtend, history
    <2>3. RequestStep /\ RedeemStep
      <3> DEFINE k == [request[r] EXCEPT !.step = "rotate", !.row = NoSession]
      <3>1. k.step = "rotate" /\ k.login = request[r].login
            /\ k.parent = request[r].parent
        BY <1>0, NullRecords, Fields, StepNames
      <3>2. CASE Answer(r)
        BY <1>0, <3>2, Answered
      <3>3. CASE Becomes(r, k)
        <4>1. request[r].step = "extend"
          BY <1>3 DEF RefreshExtend
        <4> HIDE DEF k
        <4> QED BY <1>0, <3>1, <3>3, <4>1, GoesOn
      <3> QED BY <1>3, <3>2, <3>3 DEF RefreshExtend
    <2> QED BY <2>1, <2>2, <2>3, IInvKept
  <1>4. CASE RefreshRotate(r)
    <2>0. request[r].parent \in Tokens /\ request[r].step = "rotate"
      BY <1>0, <1>4 DEF RefreshRotate, Wired
    <2>1. /\ TokenStep
          /\ \A t \in Tokens : request[r].parent = t => StoreFails \/ ~Live(t)'
      <3>1. CASE RevokeTokenByHash(request[r].parent)
        BY <1>0, <2>0, <3>1, RevokedTokenStep
      <3>2. CASE StoreFails /\ UNCHANGED token
        BY <1>0, <3>2, TokenSame
      <3> QED BY <1>4, <3>1, <3>2 DEF RefreshRotate
    <2>2. CodeStep /\ successors' = successors
      BY <1>4, CodeSame DEF RefreshRotate, history
    <2>3. RequestStep /\ RedeemStep
      <3> DEFINE k == [request[r] EXCEPT !.step = "access"]
      <3>1. k.step = "access" /\ k.login = request[r].login
            /\ k.parent = request[r].parent
        BY <1>0, Fields, StepNames DEF Issuing
      <3>2. Becomes(r, k)
        BY <1>4 DEF RefreshRotate, Proceed
      <3> HIDE DEF k
      <3> QED BY <1>0, <2>0, <2>1, <3>1, <3>2, GoesOn DEF Issuing
    <2> QED BY <2>1, <2>2, <2>3, IInvKept
  <1> QED BY <1>1, <1>2, <1>3, <1>4

\* Storing a token where there was none.
LEMMA TokenPut ==
  ASSUME TypeOK, Wired, NEW t \in Tokens, Fresh(t), NEW kind,
         NEW l \in Logins, NEW n, PutToken(t, kind, l, n)
  PROVE  TokenStep
  <1>1. token'[t] = [status |-> "stored", kind |-> kind, login |-> l,
                     revoked |-> FALSE, expiresAt |-> n]
    BY DEF PutToken, TypeOK
  <1>2. \A u \in Tokens : u # t => token'[u] = token[u]
    BY DEF PutToken, TypeOK
  <1> QED BY <1>1, <1>2 DEF TokenStep, Fresh, Wired, Live

\* Storing the access token keeps the invariant.
LEMMA IssueAccessIInv ==
  ASSUME IInv, TypeOK', NEW r \in Requests, NEW t \in Tokens, IssueAccess(r, t)
  PROVE  IInv'
  <1>0. /\ TypeOK /\ Wired /\ now \in Nat
        /\ request[r] \in Handler
        /\ request[r].login \in Logins
    BY DEF IInv, TypeOK, IssueAccess, Wired
  <1>1. TokenStep
    BY <1>0, TokenPut DEF IssueAccess
  <1>2. CodeStep /\ successors' = successors
    BY CodeSame DEF IssueAccess, history
  <1>3. RequestStep /\ RedeemStep
    <2> DEFINE k == [request[r] EXCEPT !.step = "refresh", !.issuedAt = now]
    <2>1. k.step = "refresh" /\ k.login = request[r].login
          /\ k.parent = request[r].parent
      BY <1>0, Fields, StepNames DEF Issuing
    <2>2. Becomes(r, k) /\ request[r].step = "access"
      BY DEF IssueAccess
    <2> HIDE DEF k
    <2> QED BY <1>0, <2>1, <2>2, GoesOn DEF Issuing
  <1> QED BY <1>1, <1>2, <1>3, IInvKept

\* The one step that counts a successor: the handler carries its token no more.
LEMMA IssueRefreshIInv ==
  ASSUME IInv, TypeOK', NEW r \in Requests, NEW t \in Tokens, IssueRefresh(r, t)
  PROVE  IInv'
  <1>0. /\ TypeOK /\ Wired /\ Bought /\ Rotation
        /\ request[r] \in Handler
        /\ request[r].login \in Logins /\ request[r].step = "refresh"
    BY DEF IInv, TypeOK, IssueRefresh, Wired
  <1>1. TokenStep
    BY <1>0, TokenPut DEF IssueRefresh
  <1>2. CodeStep
    BY CodeSame DEF IssueRefresh
  <1>3. RequestStep /\ RedeemStep /\ request'[r] = Idle
    BY <1>0, Answered DEF IssueRefresh
  <1>4. Wired' /\ Bought'
    BY <1>0, <1>1, <1>2, <1>3, WiredKept, BoughtKept
  <1>5. Rotation'
    <2> SUFFICES ASSUME ~StoreFails, NEW u \in Tokens
                 PROVE  RevokedFirst(u)' /\ Unborn(u)' /\ BudgetOf(u)'
      BY DEF Rotation
    <2>0. RevokedFirst(u) /\ Unborn(u) /\ BudgetOf(u) /\ successors[u] \in Nat
      BY <1>0 DEF Rotation, TypeOK
    <2>1. \A s \in Requests : s # r => request'[s] = request[s]
      BY DEF IssueRefresh, Answer, Becomes
    <2>2. ~Carries(request'[r], u)
      BY <1>3 DEF Carries, Idle, Issuing
    <2>3. \A s \in Requests : Carries(request'[s], u) =>
            s # r /\ Carries(request[s], u) /\ request'[s] = request[s]
      BY <2>1, <2>2
    <2>4. CASE request[r].parent # u
      <3>1. successors'[u] = successors[u]
        BY <2>0, <2>4 DEF IssueRefresh
      <3>2. ASSUME Live(u)' PROVE Live(u) \/ token[u].status = "unborn"
        BY <1>1, <3>2 DEF TokenStep
      <3>3. token[u].status = "unborn" => \A s \in Requests : ~Carries(request[s], u)
        BY <1>0 DEF Wired, Carries, Tokens
      <3>4. RevokedFirst(u)' /\ Unborn(u)'
        <4>1. Unborn(u)'
          BY <1>1, <2>0, <3>1 DEF TokenStep, Unborn
        <4>2. RevokedFirst(u)'
          BY <2>0, <2>3, <3>1, <3>2, <3>3 DEF RevokedFirst, Unborn
        <4> QED BY <4>1, <4>2
      <3>5. Carriers(u)' \subseteq Carriers(u)
        BY <2>3 DEF Carriers
      <3>6. Cardinality(Carriers(u)') <= Cardinality(Carriers(u))
        BY <3>5, CarriersFinite, FS_Subset
      <3> QED BY <2>0, <3>1, <3>4, <3>6, CarriersFinite, CarriersFiniteNext DEF BudgetOf
    <2>5. CASE request[r].parent = u
      <3>1. Carries(request[r], u)
        BY <1>0, <2>5 DEF Carries, Issuing
      <3>2. ~Live(u) /\ token[u].status # "unborn"
        BY <1>0, <2>0, <2>5, <3>1 DEF RevokedFirst, Issuing, Wired, Tokens
      <3>3. RevokedFirst(u)' /\ Unborn(u)'
        BY <1>1, <3>2 DEF TokenStep, RevokedFirst, Unborn
      <3>4. successors'[u] = successors[u] + 1
        BY <2>0, <2>5 DEF IssueRefresh
      <3>5. Carriers(u)' \subseteq Carriers(u) \ {r}
        BY <2>3 DEF Carriers
      <3>6. r \in Carriers(u)
        BY <3>1 DEF Carriers
      <3>7. /\ Cardinality(Carriers(u) \ {r}) = Cardinality(Carriers(u)) - 1
            /\ IsFiniteSet(Carriers(u) \ {r})
        BY <3>6, CarriersFinite, FS_RemoveElement
      <3>8. Cardinality(Carriers(u)') <= Cardinality(Carriers(u)) - 1
        BY <3>5, <3>7, FS_Subset
      <3> QED BY <2>0, <3>3, <3>4, <3>8, CarriersFinite, CarriersFiniteNext DEF BudgetOf
    <2> QED BY <2>4, <2>5
  <1> QED BY <1>4, <1>5 DEF IInv

\* The code grant up to the session.
LEMMA CodeConsumeIInv ==
  ASSUME IInv, TypeOK', NEW r \in Requests, NEW l \in Logins, CodeConsume(r, l)
  PROVE  IInv'
  <1>0. TypeOK /\ Wired /\ Bought /\ Rotation /\ now \in Nat
    BY DEF IInv, TypeOK
  <1>1. /\ TokenStep /\ successors' = successors /\ sold' = sold
        /\ session' = session
    BY <1>0, TokenSame DEF CodeConsume, history
  <1>2. /\ code'[l].status = "gone"
        /\ \A k \in Logins : k # l => code'[k] = code[k]
        /\ \A k \in Logins : code[k].status = "gone" => code'[k].status = "gone"
    BY <1>0 DEF CodeConsume, ConsumeAuthCode, TypeOK, Code
  <1>3. sold[l] = 0 /\ session[l].status = "none"
        /\ \A s \in Requests : ~Redeems(s, l)
    BY <1>0 DEF CodeConsume, Bought
  <1>4. CASE Answer(r)
    <2>1. RequestStep /\ RedeemStep
      BY <1>0, <1>4, Answered
    <2>2. CodeStep
      BY <1>1, <1>2 DEF CodeStep
    <2> QED BY <1>1, <2>1, <2>2, IInvKept
  <1>5. CASE Becomes(r, [Idle EXCEPT !.step = "session", !.login = l, !.began = now])
    <2> DEFINE k == [Idle EXCEPT !.step = "session", !.login = l, !.began = now]
    <2>1. k.step = "session" /\ k.login = l /\ k.parent = 0
      BY <1>0, Fields, StepNames
    <2>2. request'[r] = k /\ \A s \in Requests : s # r => request'[s] = request[s]
      BY <1>0, <1>5 DEF Becomes, TypeOK
    <2> HIDE DEF k
    <2>3. RequestStep
      BY <2>1, <2>2 DEF RequestStep, InOrder, CarriesOn, Carries, Issuing
    <2>4. Wired' /\ Rotation'
      BY <1>0, <1>1, <2>3, WiredKept, RotationKept
    <2>5. \A s \in Requests, m \in Logins :
            Redeems(s, m)' => (s = r /\ m = l) \/ (s # r /\ m # l /\ Redeems(s, m))
      <3> SUFFICES ASSUME NEW s \in Requests, NEW m \in Logins, Redeems(s, m)'
                   PROVE  (s = r /\ m = l) \/ (s # r /\ m # l /\ Redeems(s, m))
        OBVIOUS
      <3>1. CASE s = r
        BY <2>1, <2>2, <3>1 DEF Redeems
      <3>2. CASE s # r
        <4>1. Redeems(s, m)
          BY <2>2, <3>2 DEF Redeems
        <4> QED BY <1>3, <3>2, <4>1
      <3> QED BY <3>1, <3>2
    <2>6. Bought'
      <3> SUFFICES ASSUME NEW m \in Logins
                   PROVE  /\ sold'[m] <= 1
                          /\ code'[m].status # "gone" => sold'[m] = 0
                          /\ code'[m].status = "pending" => session'[m].status = "none"
                          /\ \A s \in Requests : Redeems(s, m)' =>
                               /\ code'[m].status = "gone"
                               /\ sold'[m] = 0
                               /\ session'[m].status = "none"
                          /\ \A s, q \in Requests :
                               Redeems(s, m)' /\ Redeems(q, m)' => s = q
        BY DEF Bought
      <3>1. CASE m = l
        BY <1>1, <1>2, <1>3, <2>5, <3>1
      <3>2. CASE m # l
        <4>1. code'[m] = code[m] /\ sold'[m] = sold[m] /\ session'[m] = session[m]
          BY <1>1, <1>2, <3>2
        <4>2. \A s \in Requests : Redeems(s, m)' => Redeems(s, m)
          BY <2>5, <3>2
        <4> HIDE DEF Redeems
        <4> QED BY <1>0, <4>1, <4>2 DEF Bought
      <3> QED BY <3>1, <3>2
    <2> QED BY <2>4, <2>6 DEF IInv
  <1> QED BY <1>4, <1>5 DEF CodeConsume

\* The code grant's session is the one step that counts a sale.
LEMMA CodeSessionIInv ==
  ASSUME IInv, TypeOK', NEW r \in Requests, CodeSession(r)
  PROVE  IInv'
  <1> DEFINE l == request[r].login
             k == [request[r] EXCEPT !.step = "access"]
  <1>0. /\ TypeOK /\ Wired /\ Bought /\ Rotation
        /\ request[r] \in Handler /\ l \in Logins /\ request[r].step = "session"
    BY DEF IInv, TypeOK, CodeSession, Wired
  <1>1. TokenStep /\ successors' = successors /\ code' = code
    BY <1>0, TokenSame DEF CodeSession
  <1>2. k.step = "access" /\ k.login = l /\ k.parent = request[r].parent
    BY <1>0, Fields, StepNames DEF Issuing
  <1>3. Becomes(r, k)
    BY DEF CodeSession, Proceed
  <1>4. request'[r] = k /\ \A s \in Requests : s # r => request'[s] = request[s]
    BY <1>0, <1>3 DEF Becomes, TypeOK
  <1>5. RequestStep
    <2> HIDE DEF k, l
    <2> QED BY <1>0, <1>2, <1>3, GoesOn DEF Issuing, l
  <1>6. Wired' /\ Rotation'
    BY <1>0, <1>1, <1>5, WiredKept, RotationKept
  <1>7. /\ sold'[l] = sold[l] + 1 /\ sold[l] \in Nat
        /\ \A m \in Logins : m # l => sold'[m] = sold[m] /\ session'[m] = session[m]
    BY <1>0 DEF CodeSession, TypeOK
  <1>8. Redeems(r, l)
    BY <1>0 DEF Redeems
  <1>9. code[l].status = "gone" /\ sold[l] = 0
    BY <1>0, <1>8 DEF Bought
  <1>10. \A s \in Requests, m \in Logins :
           Redeems(s, m)' => m # l /\ Redeems(s, m)
    <2> SUFFICES ASSUME NEW s \in Requests, NEW m \in Logins, Redeems(s, m)'
                 PROVE  m # l /\ Redeems(s, m)
      OBVIOUS
    <2> HIDE DEF k, l
    <2>1. s # r
      BY <1>2, <1>4 DEF Redeems
    <2>2. Redeems(s, m)
      BY <1>4, <2>1 DEF Redeems
    <2>3. m # l
      BY <1>0, <1>8, <2>1, <2>2 DEF Bought
    <2> QED BY <2>2, <2>3
  <1>11. Bought'
    <2> SUFFICES ASSUME NEW m \in Logins
                 PROVE  /\ sold'[m] <= 1
                        /\ code'[m].status # "gone" => sold'[m] = 0
                        /\ code'[m].status = "pending" => session'[m].status = "none"
                        /\ \A s \in Requests : Redeems(s, m)' =>
                             /\ code'[m].status = "gone"
                             /\ sold'[m] = 0
                             /\ session'[m].status = "none"
                        /\ \A s, q \in Requests :
                             Redeems(s, m)' /\ Redeems(q, m)' => s = q
      BY DEF Bought
    <2> HIDE DEF k, l
    <2>1. CASE m = l
      BY <1>1, <1>7, <1>9, <1>10, <2>1
    <2>2. CASE m # l
      BY <1>0, <1>1, <1>7, <1>10, <2>2 DEF Bought
    <2> QED BY <2>1, <2>2
  <1> QED BY <1>6, <1>11 DEF IInv

\* The session API, and a failing store.
LEMMA SessionApiIInv ==
  ASSUME IInv, TypeOK', NEW r \in Requests,
         \/ \E l \in Logins, op \in SessionSteps : SessionGet(r, l, op)
         \/ SessionWrite(r) \/ StoreError(r)
  PROVE  IInv'
  <1>0. TypeOK /\ Wired /\ now \in Nat
    BY DEF IInv, TypeOK
  <1>1. ASSUME NEW l \in Logins, NEW op \in SessionSteps, SessionGet(r, l, op)
        PROVE  IInv'
    <2>1. TokenStep /\ CodeStep /\ successors' = successors
      BY <1>0, <1>1, TokenSame, CodeSame DEF SessionGet, tables, history
    <2>2. RequestStep /\ RedeemStep
      <3> DEFINE k == [Idle EXCEPT !.step = op, !.login = l, !.row = session[l],
                                   !.began = now]
      <3>1. session[l] \in Session
        BY <1>0 DEF TypeOK
      <3>2. k.step = op /\ k.login = l /\ k.parent = 0
        BY <1>0, <3>1, Fields, StepNames
      <3>3. Becomes(r, k)
        BY <1>1 DEF SessionGet
      <3> HIDE DEF k
      <3>4. request'[r] = k
        BY <1>0, <3>3, Moved
      <3>5. InOrder(r) /\ CarriesOn(r)
        BY <3>2, <3>4 DEF InOrder, CarriesOn, Carries, Issuing, SessionSteps, Tokens
      <3>6. k.step # "session"
        BY <3>2 DEF SessionSteps
      <3> QED BY <1>0, <3>3, <3>5, <3>6, Moved
    <2> QED BY <2>1, <2>2, IInvKept
  <1>2. CASE SessionWrite(r)
    <2>1. TokenStep /\ successors' = successors
      BY <1>0, <1>2, TokenSame DEF SessionWrite, history
    <2>2. CodeStep
      <3>1. request[r].login \in Logins
        BY <1>0, <1>2 DEF SessionWrite, SessionSteps, Wired
      <3> QED BY <1>0, <1>2, <3>1, SessionUpdated DEF SessionWrite, history
    <2>3. RequestStep /\ RedeemStep
      BY <1>0, <1>2, Answered DEF SessionWrite
    <2> QED BY <2>1, <2>2, <2>3, IInvKept
  <1>3. CASE StoreError(r)
    <2>1. TokenStep /\ CodeStep /\ successors' = successors
      BY <1>0, <1>3, TokenSame, CodeSame DEF StoreError, tables, history
    <2>2. RequestStep /\ RedeemStep
      BY <1>0, <1>3, Answered DEF StoreError
    <2> QED BY <2>1, <2>2, IInvKept
  <1> QED BY <1>1, <1>2, <1>3

\* New codes and sessions, a revoked token, the sweeper, a restart, the clock.
LEMMA BackgroundIInv ==
  ASSUME IInv, TypeOK',
         \/ \E l \in Logins : PutAuthCode(l) \/ CreateSession(l)
         \/ \E t \in Tokens : Revoke(t)
         \/ PurgeExpired \/ Restart \/ Tick
         \/ UNCHANGED vars
  PROVE  IInv'
  <1>0. TypeOK /\ Wired /\ Bought
    BY DEF IInv
  <1>1. ASSUME NEW l \in Logins, PutAuthCode(l) PROVE IInv'
    <2>1. TokenStep /\ RequestStep /\ RedeemStep /\ successors' = successors
      BY <1>0, <1>1, TokenSame, RequestSame DEF PutAuthCode, history
    <2>2. CodeStep
      BY <1>0, <1>1 DEF PutAuthCode, CodeStep, TypeOK, Code, history
    <2> QED BY <2>1, <2>2, IInvKept
  <1>2. ASSUME NEW l \in Logins, CreateSession(l) PROVE IInv'
    <2>1. TokenStep /\ RequestStep /\ RedeemStep /\ successors' = successors
      BY <1>0, <1>2, TokenSame, RequestSame DEF CreateSession, history
    <2>2. CodeStep
      BY <1>0, <1>2 DEF CreateSession, CodeStep, TypeOK, Code, history
    <2> QED BY <2>1, <2>2, IInvKept
  <1>3. ASSUME NEW t \in Tokens, Revoke(t) PROVE IInv'
    <2>1. TokenStep
      BY <1>0, <1>3, RevokedTokenStep DEF Revoke
    <2>2. CodeStep /\ RequestStep /\ RedeemStep /\ successors' = successors
      BY <1>3, CodeSame, RequestSame DEF Revoke, history
    <2> QED BY <2>1, <2>2, IInvKept
  <1>4. CASE PurgeExpired
    <2>1. \A t \in Tokens : \/ token'[t] = token[t]
                            \/ /\ token'[t] = [token[t] EXCEPT !.status = "swept"]
                               /\ token[t].status = "stored"
      BY <1>4 DEF PurgeExpired, TokenPurgeable, Found
    <2>2. TokenStep
      BY <1>0, <2>1 DEF TokenStep, Live, Wired, TypeOK, Token
    <2>3. \A l \in Logins : \/ code'[l] = code[l]
                            \/ code'[l].status = "gone"
      BY <1>0, <1>4 DEF PurgeExpired, PurgeCodes, TypeOK, Code
    <2>4. \A l \in Logins : \/ session'[l] = session[l]
                            \/ session[l].status = "stored"
      BY <1>4 DEF PurgeExpired, SessionPurgeable
    <2>5. CodeStep
      BY <1>0, <1>4, <2>3, <2>4 DEF PurgeExpired, CodeStep, Bought, history
    <2>6. RequestStep /\ RedeemStep /\ successors' = successors
      BY <1>4, RequestSame DEF PurgeExpired, history
    <2> QED BY <2>2, <2>5, <2>6, IInvKept
  <1>5. CASE Restart
    <2>1. TokenStep /\ CodeStep /\ successors' = successors
      BY <1>0, <1>5, TokenSame, CodeSame DEF Restart, tables, history
    <2>2. \A r \in Requests : request'[r] = Idle
      BY <1>5 DEF Restart
    <2>3. RequestStep /\ RedeemStep
      BY <2>2 DEF RequestStep, RedeemStep, InOrder, CarriesOn, Carries, Idle, Issuing
    <2> QED BY <2>1, <2>3, IInvKept
  <1>6. CASE Tick \/ UNCHANGED vars
    <2>1. /\ UNCHANGED <<code, session, token>> /\ UNCHANGED request
          /\ UNCHANGED <<sold, successors>>
      BY <1>6 DEF Tick, tables, history, vars
    <2>2. /\ TokenStep /\ CodeStep /\ successors' = successors
          /\ RequestStep /\ RedeemStep
      BY <1>0, <2>1, TokenSame, CodeSame, RequestSame
    <2> QED BY <2>2, IInvKept
  <1> QED BY <1>1, <1>2, <1>3, <1>4, <1>5, <1>6

-----------------------------------------------------------------------------
(* The theorems *)

\* The invariant holds of the empty tables.
LEMMA InitIInv == Init => IInv
  <1> SUFFICES ASSUME Init PROVE IInv
    OBVIOUS
  <1>1. TypeOK
    BY InitTypeOK
  <1>2. \A r \in Requests : request[r].step = "idle" /\ request[r].parent = 0
    BY DEF Init, Idle
  <1>3. \A t \in Tokens : token[t].status = "unborn" /\ successors[t] = 0
    BY DEF Init, NoToken
  <1>4. Wired
    BY <1>2, <1>3 DEF Wired
  <1>5. Bought
    BY <1>2 DEF Init, Bought, Redeems, NoSession
  <1>6. Rotation
    BY <1>2, <1>3, CarriersFinite
    DEF Rotation, RevokedFirst, Unborn, BudgetOf, Live
  <1> QED BY <1>1, <1>4, <1>5, <1>6 DEF IInv

\* Every step keeps the invariant.
LEMMA NextIInv == IInv /\ [Next]_vars => IInv'
  <1> SUFFICES ASSUME IInv, [Next]_vars PROVE IInv'
    OBVIOUS
  <1>1. TypeOK'
    BY NextTypeOK DEF IInv
  <1> QED
    BY <1>1, CodeConsumeIInv, CodeSessionIInv, IssueAccessIInv, IssueRefreshIInv,
       RefreshGetIInv, RefreshGrantIInv, SessionApiIInv, BackgroundIInv
    DEF Next, Step

\* The inductive invariant holds of every behaviour of the service.
THEOREM IInvHolds == Spec => []IInv
  BY InitIInv, NextIInv, PTL DEF Spec

\* The tables and the handlers' locals always have their types: in
\* particular every row a handler writes back is a session row.
THEOREM TypeCorrect == Spec => []TypeOK
  <1>1. IInv => TypeOK
    BY DEF IInv
  <1> QED BY <1>1, IInvHolds, PTL

\* A code buys one session and one family (handleCodeGrant consumes the code
\* before anything else), however many requests race for it.
THEOREM OneFamily == Spec => []CodeBuysOneFamily
  <1>1. IInv => CodeBuysOneFamily
    BY DEF IInv, Bought, CodeBuysOneFamily
  <1> QED BY <1>1, IInvHolds, PTL

\* A refresh token is exchanged at most once per request that can overlap
\* (handleRefreshGrant), as long as the store does not fail.
THEOREM Exchanges == Spec => []SuccessorsBounded
  <1>1. IInv => SuccessorsBounded
    <2> SUFFICES ASSUME IInv, ~StoreFails, NEW t \in Tokens
                 PROVE  successors[t] <= Cardinality(Requests)
      BY DEF SuccessorsBounded
    <2>1. BudgetOf(t) /\ successors[t] \in Nat
      BY DEF IInv, Rotation, TypeOK
    <2> QED BY <2>1, CarriersFinite DEF BudgetOf
  <1> QED BY <1>1, IInvHolds, PTL

\* No step touches a session that was swept.
LEMMA NextSwept == IInv /\ [Next]_vars => StaysSwept
  <1> SUFFICES ASSUME IInv, [Next]_vars, NEW l \in Logins,
                      session[l].status = "swept"
               PROVE  session'[l] = session[l]
    BY DEF StaysSwept
  <1>0. TypeOK /\ Wired /\ Bought
    BY DEF IInv
  <1>1. ASSUME NEW k \in Logins, CreateSession(k) PROVE session'[l] = session[l]
    BY <1>0, <1>1 DEF CreateSession, TypeOK
  <1>2. ASSUME NEW r \in Requests, CodeSession(r) PROVE session'[l] = session[l]
    <2>1. request[r].login \in Logins /\ Redeems(r, request[r].login)
      BY <1>0, <1>2 DEF CodeSession, Wired, Redeems
    <2>2. session[request[r].login].status = "none"
      BY <1>0, <2>1 DEF Bought
    <2> QED BY <1>0, <1>2, <2>2 DEF CodeSession, TypeOK
  <1>3. ASSUME NEW k \in Logins, NEW w, UpdateSession(k, w)
        PROVE  session'[l] = session[l]
    BY <1>0, <1>3 DEF UpdateSession, TypeOK
  <1>4. ASSUME NEW r \in Requests, RefreshExtend(r) \/ SessionWrite(r)
        PROVE  session'[l] = session[l]
    <2>1. request[r].login \in Logins
      BY <1>0, <1>4 DEF RefreshExtend, SessionWrite, SessionSteps, Wired
    <2> QED BY <1>3, <1>4, <2>1 DEF RefreshExtend, SessionWrite
  <1>5. CASE PurgeExpired
    BY <1>5 DEF PurgeExpired, SessionPurgeable
  <1>6. CASE session' = session
    BY <1>6
  <1> QED
    BY <1>1, <1>2, <1>4, <1>5, <1>6
    DEF Next, Step, PutAuthCode, CodeConsume, IssueAccess, IssueRefresh,
        RefreshGet, RefreshReplay, RefreshSession, RefreshRotate, SessionGet,
        StoreError, Revoke, Restart, Tick, tables, vars

\* A session the sweeper took is gone for good: the handlers that still hold
\* its row update nothing (UpdateSession), and no code starts it again.
THEOREM Swept == Spec => SweptStays
  <1>1. IInv /\ [Next]_vars => [StaysSwept]_vars
    BY NextSwept
  <1> QED BY <1>1, IInvHolds, PTL DEF Spec, SweptStays

-----------------------------------------------------------------------------
(* One request at a time *)

\* No two requests overlap.
OneAtATime == \A r, s \in Requests : r = s

\* The steps of a request that may still issue, and those that hold a row.
Granting == {"load", "extend", "rotate"} \cup Issuing
Holding == {"extend"} \cup SessionSteps

\* A session nobody started is not invalidated, none expires later than one
\* started now would, and one that was swept was of no use to any token.
SessionsInOrder ==
  \A l \in Logins :
    /\ session[l].status = "none" => ~session[l].invalidated
    /\ session[l].expiresAt <= now + SessionTTL
    /\ session[l].status = "swept" => session[l].expiresAt + RefreshTTL < now

\* Only a code that was sold has tokens, or a dead family.
Families ==
  /\ \A t \in Tokens : token[t].status # "unborn" => sold[token[t].login] # 0
  /\ \A l \in dead : sold[l] # 0

\* Every token of a dead family is revoked.
DeadRevoked ==
  \A t \in Tokens :
    token[t].status = "stored" /\ token[t].login \in dead => token[t].revoked

\* The session of a refresh token outlives it, the sweeper's grace included.
Grace ==
  \A t \in Tokens :
    token[t].status = "stored" /\ token[t].kind = "refresh" =>
      /\ session[token[t].login].status # "none"
      /\ token[t].expiresAt <= session[token[t].login].expiresAt + RefreshTTL

\* A handler h, its session being s: it began not long ago; it works on a
\* family that was started and is not dead; the row it holds is the session's,
\* unless the sweeper took it; what it issues for is valid, and will last.
InTime(h) == h.began <= now /\ now <= h.began + HandlerTime
OfLiveFamily(h) ==
  /\ h.step \in {"replay"} \cup Granting => sold[h.login] # 0
  /\ h.step \in Granting => h.login \notin dead
HoldsRow(h, s) ==
  h.step \in Holding => /\ h.row.status = "stored" /\ ~h.row.invalidated
                        /\ s = h.row \/ s.status = "swept"
IssuesForValid(h, s) ==
  /\ h.step \in Holding \cup {"rotate"} \cup Issuing => ~s.invalidated
  /\ h.step \in {"rotate"} \cup Issuing =>
       s.status = "stored" /\ h.began + SessionTTL <= s.expiresAt
  /\ h.step = "refresh" => h.issuedAt <= s.expiresAt

Sound(h, s) == OfLiveFamily(h) /\ HoldsRow(h, s) /\ IssuesForValid(h, s)
HandlersSound ==
  \A r \in Requests : request[r].step # "idle" =>
    InTime(request[r]) /\ Sound(request[r], session[request[r].login])

SoloInv == SessionsInOrder /\ Families /\ DeadRevoked /\ Grace /\ HandlersSound

\* All the fields of the handlers the actions make.
LEMMA AllFields ==
  /\ \A h \in Handler, s \in Steps :
       LET k == [h EXCEPT !.step = s] IN
       /\ k.step = s /\ k.login = h.login /\ k.row = h.row
       /\ k.began = h.began /\ k.issuedAt = h.issuedAt
  /\ \A h \in Handler, s \in Steps, w \in Session :
       LET k == [h EXCEPT !.step = s, !.row = w] IN
       k.step = s /\ k.login = h.login /\ k.row = w /\ k.began = h.began
  /\ \A h \in Handler, s \in Steps, n \in Nat :
       LET k == [h EXCEPT !.step = s, !.issuedAt = n] IN
       k.step = s /\ k.login = h.login /\ k.issuedAt = n /\ k.began = h.began
  /\ \A s \in Steps, l \in Logins, n \in Nat :
       LET k == [Idle EXCEPT !.step = s, !.login = l, !.began = n] IN
       k.step = s /\ k.login = l /\ k.began = n
  /\ \A s \in Steps, l \in Logins, t \in Tokens, n \in Nat :
       LET k == [Idle EXCEPT !.step = s, !.login = l, !.parent = t, !.began = n] IN
       k.step = s /\ k.login = l /\ k.began = n
  /\ \A s \in Steps, l \in Logins, w \in Session, n \in Nat :
       LET k == [Idle EXCEPT !.step = s, !.login = l, !.row = w, !.began = n] IN
       k.step = s /\ k.login = l /\ k.row = w /\ k.began = n
  BY DEF Handler, Idle

\* The tables left alone are in order still.
LEMMA TablesKept ==
  ASSUME SoloInv, UNCHANGED <<now, session, token>>, UNCHANGED <<sold, dead>>
  PROVE  SessionsInOrder' /\ Families' /\ DeadRevoked' /\ Grace'
  BY DEF SoloInv, SessionsInOrder, Families, DeadRevoked, Grace

\* There is one handler to look at.
LEMMA OneHandler ==
  ASSUME OneAtATime, NEW r \in Requests, NEW h, request'[r] = h,
         h.step # "idle" => InTime(h)' /\ Sound(h, session[h.login])'
  PROVE  HandlersSound'
  <1>1. \A q \in Requests : request'[q] = h
    BY DEF OneAtATime
  <1> QED BY <1>1 DEF HandlersSound

\* A handler that answers leaves nothing to look at.
LEMMA AnsweredSolo ==
  ASSUME OneAtATime, TypeOK, NEW r \in Requests, Answer(r)
  PROVE  HandlersSound'
  <1>1. request'[r] = Idle
    BY Answered
  <1>2. Idle.step = "idle"
    BY DEF Idle
  <1> QED BY <1>1, <1>2, OneHandler

\* What the invariants say of the handler that takes a step, and of its session.
LEMMA OfHandler ==
  ASSUME IInv, SoloInv, NEW r \in Requests, request[r].step # "idle"
  PROVE  /\ request[r] \in Handler /\ request[r].login \in Logins
         /\ request[r].row \in Session
         /\ request[r].began \in Nat /\ request[r].issuedAt \in Nat
         /\ session[request[r].login] \in Session
         /\ InTime(request[r])
         /\ Sound(request[r], session[request[r].login])
  BY DEF IInv, TypeOK, Wired, Handler, SoloInv, HandlersSound

\* A handler that has just begun is in time.
LEMMA JustBegun ==
  ASSUME TypeOK, NEW h, h.began = now, now' = now
  PROVE  InTime(h)'
  BY TimesAssumption DEF TypeOK, InTime

\* A handler that does not let time pass stays in time.
LEMMA StillInTime ==
  ASSUME NEW h, NEW k, InTime(h), k.began = h.began, now' = now
  PROVE  InTime(k)'
  BY DEF InTime

\* A refresh token is picked up while its family is alive.
LEMMA RefreshGetSolo ==
  ASSUME OneAtATime, IInv, SoloInv, NEW r \in Requests, NEW t \in Tokens,
         RefreshGet(r, t)
  PROVE  SoloInv'
  <1>0. TypeOK /\ Wired /\ now \in Nat
    BY DEF IInv, TypeOK
  <1>1. SessionsInOrder' /\ Families' /\ DeadRevoked' /\ Grace'
    BY TablesKept DEF RefreshGet, tables, history
  <1>2. ASSUME NEW s \in {"replay", "load"}, s = "load" => Honoured(t),
               Becomes(r, [Idle EXCEPT !.step = s, !.login = token[t].login,
                                       !.parent = t, !.began = now])
        PROVE  HandlersSound'
    <2>1. PICK k : k = [Idle EXCEPT !.step = s, !.login = token[t].login,
                                    !.parent = t, !.began = now]
      OBVIOUS
    <2>2. token[t].login \in Logins /\ token[t].status # "unborn"
      BY <1>0 DEF RefreshGet, Wired
    <2>3. k.step = s /\ k.login = token[t].login /\ k.began = now
      BY <1>0, <2>1, <2>2, AllFields, StepNames
    <2>4. request'[r] = k
      BY <1>0, <1>2, <2>1, Moved
    <2>5. InTime(k)'
      BY <1>0, <2>3, JustBegun DEF RefreshGet
    <2>6. sold'[k.login] # 0
      BY <2>2, <2>3 DEF SoloInv, Families, RefreshGet, history
    <2>7. s = "load" => k.login \notin dead'
      BY <1>2, <2>3 DEF SoloInv, DeadRevoked, RefreshGet, history, Honoured, Found
    <2>8. Sound(k, session[k.login])'
      BY <2>3, <2>6, <2>7
      DEF Sound, OfLiveFamily, HoldsRow, IssuesForValid, Granting, Holding, Issuing,
          SessionSteps
    <2> QED BY <2>4, <2>5, <2>8, OneHandler
  <1> QED BY <1>1, <1>2 DEF RefreshGet, SoloInv, Found

\* The session is read, and it is valid.
LEMMA RefreshSessionSolo ==
  ASSUME OneAtATime, IInv, SoloInv, NEW r \in Requests, RefreshSession(r)
  PROVE  SoloInv'
  <1>0. TypeOK
    BY DEF IInv
  <1>1. SessionsInOrder' /\ Families' /\ DeadRevoked' /\ Grace'
    BY TablesKept DEF RefreshSession, tables, history
  <1>2. PICK h : h = request[r]
    OBVIOUS
  <1>3. PICK s : s = session[h.login]
    OBVIOUS
  <1>4. /\ h \in Handler /\ h.step = "load" /\ s \in Session
        /\ InTime(h) /\ Sound(h, s)
    BY <1>2, <1>3, OfHandler DEF RefreshSession
  <1>5. CASE Answer(r)
    BY <1>0, <1>1, <1>5, AnsweredSolo DEF SoloInv
  <1>6. CASE /\ s.status = "stored" /\ ~s.invalidated
             /\ Becomes(r, [h EXCEPT !.step = "extend", !.row = s])
    <2>1. PICK k : k = [h EXCEPT !.step = "extend", !.row = s]
      OBVIOUS
    <2>2. k.step = "extend" /\ k.login = h.login /\ k.row = s /\ k.began = h.began
      BY <1>4, <2>1, AllFields, StepNames
    <2>3. request'[r] = k
      BY <1>0, <1>6, <2>1, Moved
    <2>4. InTime(k)'
      BY <1>4, <2>2, StillInTime DEF RefreshSession
    <2>5. session'[k.login] = s /\ sold' = sold /\ dead' = dead
      BY <1>3, <2>2 DEF RefreshSession, tables, history
    <2>6. Sound(k, session[k.login])'
      BY <1>4, <1>6, <2>2, <2>5
      DEF Sound, OfLiveFamily, HoldsRow, IssuesForValid, Granting, Holding, Issuing,
          SessionSteps
    <2> QED BY <1>1, <2>3, <2>4, <2>6, OneHandler DEF SoloInv
  <1> QED BY <1>2, <1>3, <1>5, <1>6 DEF RefreshSession

\* A request that takes a session row took a valid one.
LEMMA SessionGetSolo ==
  ASSUME OneAtATime, IInv, SoloInv, NEW r \in Requests, NEW l \in Logins,
         NEW op \in SessionSteps, SessionGet(r, l, op)
  PROVE  SoloInv'
  <1>0. TypeOK /\ now \in Nat
    BY DEF IInv, TypeOK
  <1>1. SessionsInOrder' /\ Families' /\ DeadRevoked' /\ Grace'
    BY TablesKept DEF SessionGet, tables, history
  <1>2. PICK s : s = session[l]
    OBVIOUS
  <1>3. s \in Session /\ s.status = "stored" /\ ~s.invalidated
    BY <1>0, <1>2 DEF TypeOK, SessionGet
  <1>4. PICK k : k = [Idle EXCEPT !.step = op, !.login = l, !.row = s, !.began = now]
    OBVIOUS
  <1>5. k.step = op /\ k.login = l /\ k.row = s /\ k.began = now
    BY <1>0, <1>3, <1>4, AllFields, StepNames
  <1>6. request'[r] = k
    BY <1>0, <1>2, <1>4, Moved DEF SessionGet
  <1>7. InTime(k)'
    BY <1>0, <1>5, JustBegun DEF SessionGet
  <1>8. session'[k.login] = s
    BY <1>2, <1>5 DEF SessionGet, tables
  <1>9. Sound(k, session[k.login])'
    BY <1>3, <1>5, <1>8
    DEF Sound, OfLiveFamily, HoldsRow, IssuesForValid, Granting, Holding, Issuing,
        SessionSteps
  <1> QED BY <1>1, <1>6, <1>7, <1>9, OneHandler DEF SoloInv

\* A code is consumed for a login that has no session.
LEMMA CodeConsumeSolo ==
  ASSUME OneAtATime, IInv, SoloInv, NEW r \in Requests, NEW l \in Logins,
         CodeConsume(r, l)
  PROVE  SoloInv'
  <1>0. TypeOK /\ now \in Nat
    BY DEF IInv, TypeOK
  <1>1. SessionsInOrder' /\ Families' /\ DeadRevoked' /\ Grace'
    BY TablesKept DEF CodeConsume, history
  <1>2. CASE Answer(r)
    BY <1>0, <1>1, <1>2, AnsweredSolo DEF SoloInv
  <1>3. CASE Becomes(r, [Idle EXCEPT !.step = "session", !.login = l, !.began = now])
    <2>1. PICK k : k = [Idle EXCEPT !.step = "session", !.login = l, !.began = now]
      OBVIOUS
    <2>2. k.step = "session" /\ k.login = l /\ k.began = now
      BY <1>0, <2>1, AllFields, StepNames
    <2>3. request'[r] = k
      BY <1>0, <1>3, <2>1, Moved
    <2>4. InTime(k)'
      BY <1>0, <2>2, JustBegun DEF CodeConsume
    <2>5. Sound(k, session[k.login])'
      BY <2>2
      DEF Sound, OfLiveFamily, HoldsRow, IssuesForValid, Granting, Holding, Issuing,
          SessionSteps
    <2> QED BY <1>1, <2>3, <2>4, <2>5, OneHandler DEF SoloInv
  <1> QED BY <1>2, <1>3 DEF CodeConsume

\* Revoking a token changes nothing else of it.
LEMMA RevokedKeeps ==
  ASSUME NEW k \in Token, NEW b \in BOOLEAN
  PROVE  /\ [k EXCEPT !.revoked = b].kind = k.kind
         /\ [k EXCEPT !.revoked = b].expiresAt = k.expiresAt
  BY DEF Token

\* Tokens that are at most revoked, and dead families revoked, are in order.
OnlyRevoked ==
  \A u \in Tokens :
    /\ token'[u].status = token[u].status
    /\ token'[u].kind = token[u].kind
    /\ token'[u].login = token[u].login
    /\ token'[u].expiresAt = token[u].expiresAt
    /\ token[u].revoked => token'[u].revoked

\* RevokeTokenByHash is such a step.
LEMMA ByHashOnlyRevokes ==
  ASSUME TypeOK, NEW t \in Tokens, RevokeTokenByHash(t)
  PROVE  OnlyRevoked
  <1>1. \A u \in Tokens : token[u] \in Token /\ token[u].revoked \in BOOLEAN
    BY DEF TypeOK, Token
  <1>2. PICK b \in BOOLEAN : /\ token' = [token EXCEPT ![t].revoked = b]
                             /\ token[t].revoked => b
    <2>1. (token[t].revoked \/ Found(t)) \in BOOLEAN
      BY <1>1 DEF Found
    <2>2. token' = [token EXCEPT ![t].revoked = token[t].revoked \/ Found(t)]
      BY DEF RevokeTokenByHash
    <2> QED BY <2>1, <2>2
  <1>3. token'[t] = [token[t] EXCEPT !.revoked = b]
    BY <1>2 DEF TypeOK
  <1>4. \A u \in Tokens : u # t => token'[u] = token[u]
    BY <1>2 DEF TypeOK
  <1>5. /\ token'[t].status = token[t].status /\ token'[t].kind = token[t].kind
        /\ token'[t].login = token[t].login
        /\ token'[t].expiresAt = token[t].expiresAt /\ token'[t].revoked = b
    BY <1>1, <1>3, RevokedToken, RevokedKeeps
  <1> QED BY <1>2, <1>4, <1>5 DEF OnlyRevoked

\* RevokeTokenFamily too, and it leaves none of the family alive.
LEMMA FamilyOnlyRevokes ==
  ASSUME TypeOK, NEW l, RevokeTokenFamily(l)
  PROVE  /\ OnlyRevoked
         /\ \A u \in Tokens :
              token[u].status = "stored" /\ token[u].login = l => token'[u].revoked
  <1>1. \A u \in Tokens : token[u] \in Token
    BY DEF TypeOK
  <1>2. \A u \in Tokens :
          \/ token'[u] = token[u] /\ ~(Found(u) /\ token[u].login = l)
          \/ token'[u] = [token[u] EXCEPT !.revoked = TRUE]
    BY DEF RevokeTokenFamily
  <1>3. \A u \in Tokens : [token[u] EXCEPT !.revoked = TRUE].revoked = TRUE
    BY <1>1, RevokedToken
  <1>4. OnlyRevoked
    BY <1>1, <1>2, <1>3, RevokedToken, RevokedKeeps DEF OnlyRevoked
  <1> QED BY <1>2, <1>3, <1>4 DEF Found

\* After such a step the tables are in order.
LEMMA RevokingKeeps ==
  ASSUME SoloInv, OnlyRevoked, now' = now, session' = session, sold' = sold,
         \A l \in dead' : sold[l] # 0,
         \A u \in Tokens : token[u].status = "stored" /\ token[u].login \in dead'
                             => token[u].login \in dead \/ token'[u].revoked
  PROVE  SessionsInOrder' /\ Families' /\ DeadRevoked' /\ Grace'
  <1>1. SessionsInOrder'
    BY DEF SoloInv, SessionsInOrder
  <1>2. Families'
    BY DEF SoloInv, Families, OnlyRevoked
  <1>3. DeadRevoked'
    BY DEF SoloInv, DeadRevoked, OnlyRevoked
  <1>4. Grace'
    BY DEF SoloInv, Grace, OnlyRevoked
  <1> QED BY <1>1, <1>2, <1>3, <1>4

\* A replay kills the family.
LEMMA RefreshReplaySolo ==
  ASSUME OneAtATime, IInv, SoloInv, NEW r \in Requests, RefreshReplay(r)
  PROVE  SoloInv'
  <1>0. TypeOK
    BY DEF IInv
  <1>1. PICK l : l = request[r].login
    OBVIOUS
  <1>2. sold[l] # 0
    BY <1>1, OfHandler DEF RefreshReplay, Sound, OfLiveFamily
  <1>3. /\ RevokeTokenFamily(l) /\ dead' = dead \cup {l}
        /\ UNCHANGED <<now, session, sold>> /\ Answer(r)
    BY <1>1 DEF RefreshReplay
  <1>4. \A m \in dead' : sold[m] # 0
    BY <1>2, <1>3 DEF SoloInv, Families
  <1>5. SessionsInOrder' /\ Families' /\ DeadRevoked' /\ Grace'
    BY <1>0, <1>3, <1>4, FamilyOnlyRevokes, RevokingKeeps
  <1> QED BY <1>0, <1>3, <1>5, AnsweredSolo DEF SoloInv

\* Rotation, or its failure, comes before a new pair.
LEMMA RefreshRotateSolo ==
  ASSUME OneAtATime, IInv, SoloInv, NEW r \in Requests, RefreshRotate(r)
  PROVE  SoloInv'
  <1>0. TypeOK /\ Wired
    BY DEF IInv
  <1>1. PICK h : h = request[r]
    OBVIOUS
  <1>2. PICK s : s = session[h.login]
    OBVIOUS
  <1>3. h \in Handler /\ h.step = "rotate" /\ InTime(h) /\ Sound(h, s)
    BY <1>1, <1>2, OfHandler DEF RefreshRotate
  <1>4. UNCHANGED <<now, session, sold, dead>> /\ Becomes(r, [h EXCEPT !.step = "access"])
    BY <1>1 DEF RefreshRotate, Proceed, history
  <1>5. OnlyRevoked
    <2>1. h.parent \in Tokens
      BY <1>0, <1>1, <1>3 DEF Wired, Handler
    <2> QED BY <1>0, <1>1, <2>1, ByHashOnlyRevokes DEF RefreshRotate, OnlyRevoked
  <1>6. SessionsInOrder' /\ Families' /\ DeadRevoked' /\ Grace'
    <2>1. dead' = dead /\ \A l \in dead : sold[l] # 0
      BY <1>4 DEF SoloInv, Families
    <2> QED BY <1>4, <1>5, <2>1, RevokingKeeps
  <1>7. PICK k : k = [h EXCEPT !.step = "access"]
    OBVIOUS
  <1>8. k.step = "access" /\ k.login = h.login /\ k.began = h.began
    BY <1>3, <1>7, AllFields, StepNames DEF Issuing
  <1>9. request'[r] = k
    BY <1>0, <1>4, <1>7, Moved
  <1>10. InTime(k)'
    BY <1>3, <1>4, <1>8, StillInTime
  <1>11. session'[k.login] = s /\ sold' = sold /\ dead' = dead
    BY <1>2, <1>4, <1>8
  <1>12. Sound(k, session[k.login])'
    BY <1>3, <1>8, <1>11
    DEF Sound, OfLiveFamily, HoldsRow, IssuesForValid, Granting, Holding, Issuing,
        SessionSteps
  <1> QED BY <1>6, <1>9, <1>10, <1>12, OneHandler DEF SoloInv

\* A handler that is left alone stays as it is.
LEMMA HandlersKept ==
  ASSUME OneAtATime, SoloInv, UNCHANGED <<now, session, request>>,
         UNCHANGED <<sold, dead>>
  PROVE  HandlersSound'
  BY DEF SoloInv, HandlersSound, InTime, Sound, OfLiveFamily, HoldsRow, IssuesForValid

\* POST /revoke.
LEMMA RevokeSolo ==
  ASSUME OneAtATime, IInv, SoloInv, NEW t \in Tokens, Revoke(t)
  PROVE  SoloInv'
  <1>0. TypeOK
    BY DEF IInv
  <1>1. UNCHANGED <<now, session, request>> /\ UNCHANGED <<sold, dead>>
    BY DEF Revoke, history
  <1>2. OnlyRevoked
    BY <1>0, ByHashOnlyRevokes DEF Revoke
  <1>3. dead' = dead /\ \A l \in dead : sold[l] # 0
    BY <1>1 DEF SoloInv, Families
  <1>4. SessionsInOrder' /\ Families' /\ DeadRevoked' /\ Grace'
    BY <1>1, <1>2, <1>3, RevokingKeeps
  <1> QED BY <1>1, <1>4, HandlersKept DEF SoloInv

\* A token put away, for a family that is sold and alive, and no longer than
\* its session can serve it.
LEMMA PutTokenKeeps ==
  ASSUME TypeOK, SoloInv, UNCHANGED <<now, session, sold, dead>>,
         NEW t \in Tokens, NEW kind \in {"access", "refresh"}, NEW l \in Logins,
         NEW n \in Nat, PutToken(t, kind, l, n), sold[l] # 0, l \notin dead,
         kind = "refresh" => /\ session[l].status # "none"
                             /\ n <= session[l].expiresAt + RefreshTTL
  PROVE  SessionsInOrder' /\ Families' /\ DeadRevoked' /\ Grace'
  <1>1. /\ token'[t].status = "stored" /\ token'[t].kind = kind
        /\ token'[t].login = l /\ token'[t].expiresAt = n
        /\ \A u \in Tokens : u # t => token'[u] = token[u]
    BY DEF PutToken, TypeOK
  <1>2. SessionsInOrder'
    BY DEF SoloInv, SessionsInOrder
  <1>3. Families'
    BY <1>1 DEF SoloInv, Families
  <1>4. DeadRevoked'
    BY <1>1 DEF SoloInv, DeadRevoked
  <1>5. Grace'
    BY <1>1 DEF SoloInv, Grace
  <1> QED BY <1>2, <1>3, <1>4, <1>5

\* The access token of a pair.
LEMMA IssueAccessSolo ==
  ASSUME OneAtATime, IInv, SoloInv, NEW r \in Requests, NEW t \in Tokens,
         IssueAccess(r, t)
  PROVE  SoloInv'
  <1>0. TypeOK /\ now \in Nat /\ now + AccessTTL \in Nat
    BY TimesAssumption DEF IInv, TypeOK
  <1>1. PICK h : h = request[r]
    OBVIOUS
  <1>2. PICK s : s = session[h.login]
    OBVIOUS
  <1>3. /\ h \in Handler /\ h.login \in Logins /\ h.step = "access"
        /\ h.began \in Nat /\ s \in Session /\ InTime(h) /\ Sound(h, s)
    BY <1>1, <1>2, OfHandler DEF IssueAccess
  <1>4. /\ UNCHANGED <<now, session, sold, dead>>
        /\ PutToken(t, "access", h.login, now + AccessTTL)
        /\ Becomes(r, [h EXCEPT !.step = "refresh", !.issuedAt = now])
    BY <1>1 DEF IssueAccess, history
  <1>5. sold[h.login] # 0 /\ h.login \notin dead
    BY <1>3 DEF Sound, OfLiveFamily, Granting, Issuing
  <1>6. SessionsInOrder' /\ Families' /\ DeadRevoked' /\ Grace'
    <2>1. "access" \in {"access", "refresh"} /\ "access" # "refresh"
      OBVIOUS
    <2> QED BY <1>0, <1>3, <1>4, <1>5, <2>1, PutTokenKeeps
  <1>7. PICK k : k = [h EXCEPT !.step = "refresh", !.issuedAt = now]
    OBVIOUS
  <1>8. k.step = "refresh" /\ k.login = h.login /\ k.began = h.began /\ k.issuedAt = now
    BY <1>0, <1>3, <1>7, AllFields, StepNames DEF Issuing
  <1>9. request'[r] = k
    BY <1>0, <1>4, <1>7, Moved
  <1>10. InTime(k)'
    BY <1>3, <1>4, <1>8, StillInTime
  <1>11. session'[k.login] = s /\ sold' = sold /\ dead' = dead
    BY <1>2, <1>4, <1>8
  <1>12. s.expiresAt \in Nat /\ h.began + SessionTTL <= s.expiresAt
    BY <1>3 DEF Sound, IssuesForValid, Issuing, Session
  <1>13. now <= s.expiresAt
    BY <1>0, <1>3, <1>12, TimesAssumption, HandlerAssumption DEF InTime
  <1>14. Sound(k, session[k.login])'
    BY <1>3, <1>8, <1>11, <1>13
    DEF Sound, OfLiveFamily, HoldsRow, IssuesForValid, Granting, Holding, Issuing,
        SessionSteps
  <1> QED BY <1>6, <1>9, <1>10, <1>14, OneHandler DEF SoloInv

\* And its refresh token.
LEMMA IssueRefreshSolo ==
  ASSUME OneAtATime, IInv, SoloInv, NEW r \in Requests, NEW t \in Tokens,
         IssueRefresh(r, t)
  PROVE  SoloInv'
  <1>0. TypeOK
    BY DEF IInv
  <1>1. PICK h : h = request[r]
    OBVIOUS
  <1>2. PICK s : s = session[h.login]
    OBVIOUS
  <1>3. /\ h.login \in Logins /\ h.step = "refresh" /\ h.issuedAt \in Nat
        /\ s \in Session /\ Sound(h, s)
    BY <1>1, <1>2, OfHandler DEF IssueRefresh
  <1>4. /\ UNCHANGED <<now, session, sold, dead>>
        /\ PutToken(t, "refresh", h.login, h.issuedAt + RefreshTTL) /\ Answer(r)
    BY <1>1 DEF IssueRefresh
  <1>5. sold[h.login] # 0 /\ h.login \notin dead
    BY <1>3 DEF Sound, OfLiveFamily, Granting, Issuing
  <1>6. h.issuedAt + RefreshTTL \in Nat
    BY <1>3, TimesAssumption
  <1>7. /\ s.status # "none" /\ s.expiresAt \in Nat
        /\ h.issuedAt <= s.expiresAt
    BY <1>3 DEF Sound, IssuesForValid, Issuing, Session
  <1>8. h.issuedAt + RefreshTTL <= s.expiresAt + RefreshTTL
    BY <1>3, <1>7, TimesAssumption
  <1>9. SessionsInOrder' /\ Families' /\ DeadRevoked' /\ Grace'
    BY <1>0, <1>2, <1>3, <1>4, <1>5, <1>6, <1>7, <1>8, PutTokenKeeps
  <1> QED BY <1>0, <1>4, <1>9, AnsweredSolo DEF SoloInv

\* A session started for a login that had none.
LEMMA StartedKeeps ==
  ASSUME TypeOK, Wired, SoloInv, UNCHANGED <<now, token, dead>>, NEW l \in Logins,
         session[l].status = "none", session' = [session EXCEPT ![l] = NewSession],
         \A m \in Logins : sold'[m] = sold[m] \/ sold'[m] = sold[m] + 1
  PROVE  SessionsInOrder' /\ Families' /\ DeadRevoked' /\ Grace'
  <1>1. /\ session'[l].status = "stored" /\ ~session'[l].invalidated
        /\ session'[l].expiresAt = now + SessionTTL
        /\ \A m \in Logins : m # l => session'[m] = session[m]
    BY DEF NewSession, TypeOK
  <1>2. SessionsInOrder'
    BY <1>1, TimesAssumption DEF SoloInv, SessionsInOrder, TypeOK
  <1>3. DeadRevoked'
    BY DEF SoloInv, DeadRevoked
  <1>4. Grace'
    BY <1>1 DEF SoloInv, Grace
  <1>5. Families'
    <2>1. \A m \in Logins : sold[m] \in Nat /\ (sold[m] # 0 => sold'[m] # 0)
      BY DEF TypeOK
    <2>2. \A u \in Tokens : token[u].status # "unborn" => token[u].login \in Logins
      BY DEF Wired
    <2>3. dead \subseteq Logins
      BY DEF TypeOK
    <2> QED BY <2>1, <2>2, <2>3 DEF SoloInv, Families
  <1> QED BY <1>2, <1>3, <1>4, <1>5

\* The code grant's session is new and valid.
LEMMA CodeSessionSolo ==
  ASSUME OneAtATime, IInv, SoloInv, NEW r \in Requests, CodeSession(r)
  PROVE  SoloInv'
  <1>0. TypeOK /\ Wired /\ Bought /\ now \in Nat
    BY DEF IInv, TypeOK
  <1>1. PICK h : h = request[r]
    OBVIOUS
  <1>2. PICK l : l = h.login
    OBVIOUS
  <1>3. /\ h \in Handler /\ l \in Logins /\ h.step = "session"
        /\ h.began \in Nat /\ InTime(h) /\ Sound(h, session[l])
    BY <1>1, <1>2, OfHandler DEF CodeSession
  <1>4. session[l].status = "none" /\ sold[l] = 0
    BY <1>0, <1>1, <1>2, <1>3 DEF Bought, Redeems
  <1>5. /\ UNCHANGED <<now, token, dead>>
        /\ session' = [session EXCEPT ![l] = NewSession]
        /\ sold' = [sold EXCEPT ![l] = @ + 1]
        /\ Becomes(r, [h EXCEPT !.step = "access"])
    BY <1>1, <1>2 DEF CodeSession, Proceed
  <1>6. /\ \A m \in Logins : sold'[m] = sold[m] \/ sold'[m] = sold[m] + 1
        /\ sold'[l] = 1
    BY <1>0, <1>3, <1>4, <1>5 DEF TypeOK
  <1>7. SessionsInOrder' /\ Families' /\ DeadRevoked' /\ Grace'
    BY <1>0, <1>3, <1>4, <1>5, <1>6, StartedKeeps
  <1>8. PICK k : k = [h EXCEPT !.step = "access"]
    OBVIOUS
  <1>9. k.step = "access" /\ k.login = l /\ k.began = h.began
    BY <1>2, <1>3, <1>8, AllFields, StepNames DEF Issuing
  <1>10. request'[r] = k
    BY <1>0, <1>5, <1>8, Moved
  <1>11. InTime(k)'
    BY <1>3, <1>5, <1>9, StillInTime
  <1>12. l \notin dead
    BY <1>4 DEF SoloInv, Families
  <1>13. /\ session'[l].status = "stored" /\ ~session'[l].invalidated
         /\ session'[l].expiresAt = now + SessionTTL
    BY <1>0, <1>3, <1>5 DEF NewSession, TypeOK
  <1>14. h.began + SessionTTL <= now + SessionTTL
    BY <1>0, <1>3, TimesAssumption DEF InTime
  <1>15. Sound(k, session[k.login])'
    BY <1>5, <1>6, <1>9, <1>12, <1>13, <1>14
    DEF Sound, OfLiveFamily, HoldsRow, IssuesForValid, Granting, Holding, Issuing,
        SessionSteps
  <1> QED BY <1>7, <1>10, <1>11, <1>15, OneHandler DEF SoloInv

\* The session API's session.
LEMMA CreateSessionSolo ==
  ASSUME OneAtATime, IInv, SoloInv, NEW l \in Logins, CreateSession(l)
  PROVE  SoloInv'
  <1>0. TypeOK /\ Wired /\ now \in Nat
    BY DEF IInv, TypeOK
  <1>1. /\ UNCHANGED <<now, token, dead>> /\ session[l].status = "none"
        /\ session' = [session EXCEPT ![l] = NewSession]
        /\ sold' = sold /\ request' = request
    BY DEF CreateSession, history
  <1>2. SessionsInOrder' /\ Families' /\ DeadRevoked' /\ Grace'
    BY <1>0, <1>1, StartedKeeps
  <1>3. \A m \in Logins : m # l => session'[m] = session[m]
    BY <1>0, <1>1 DEF TypeOK
  <1>4. ~session'[l].invalidated
    BY <1>0, <1>1 DEF TypeOK, NewSession
  <1>5. HandlersSound'
    <2> SUFFICES ASSUME NEW r \in Requests, request[r].step # "idle"
                 PROVE  InTime(request[r])' /\ Sound(request[r], session[request[r].login])'
      BY <1>1 DEF HandlersSound
    <2>1. PICK h : h = request[r] /\ h = request'[r]
      BY <1>1
    <2>2. h.login \in Logins /\ InTime(h) /\ Sound(h, session[h.login])
      BY <2>1, OfHandler
    <2>3. CASE h.login # l
      <3>1. InTime(h)' /\ Sound(h, session[h.login])'
        BY <1>1, <1>3, <2>2, <2>3 DEF InTime, Sound, OfLiveFamily, HoldsRow, IssuesForValid
      <3> QED BY <2>1, <3>1
    <2>4. CASE h.login = l
      <3>1. h.step \notin Holding \cup {"rotate"} \cup Issuing
        BY <1>1, <2>2, <2>4 DEF Sound, HoldsRow, IssuesForValid
      <3>2. h.step # "refresh"
        BY <3>1 DEF Issuing
      <3>3. InTime(h)' /\ Sound(h, session[h.login])'
        BY <1>1, <2>2, <3>1, <3>2 DEF InTime, Sound, OfLiveFamily, HoldsRow, IssuesForValid
      <3> QED BY <2>1, <3>3
    <2> QED BY <2>3, <2>4
  <1> QED BY <1>2, <1>5 DEF SoloInv

\* A row written back over itself, with the same or a later expiry.
LEMMA WrittenKeeps ==
  ASSUME TypeOK, SoloInv, UNCHANGED <<now, token, sold, dead>>, NEW l \in Logins,
         NEW w \in Session, UpdateSession(l, w),
         session[l].status = "stored" => /\ w.status = "stored"
                                         /\ session[l].expiresAt <= w.expiresAt
                                         /\ w.expiresAt <= now + SessionTTL
  PROVE  SessionsInOrder' /\ Families' /\ DeadRevoked' /\ Grace'
  <1>1. /\ session'[l] = IF session[l].status = "stored" THEN w ELSE session[l]
        /\ \A m \in Logins : m # l => session'[m] = session[m]
    BY DEF UpdateSession, TypeOK
  <1>2. SessionsInOrder'
    BY <1>1 DEF SoloInv, SessionsInOrder
  <1>3. DeadRevoked' /\ Families'
    BY DEF SoloInv, DeadRevoked, Families
  <1>4. Grace'
    <2> SUFFICES ASSUME NEW t \in Tokens, token[t].status = "stored",
                        token[t].kind = "refresh"
                 PROVE  /\ session'[token[t].login].status # "none"
                        /\ token[t].expiresAt
                             <= session'[token[t].login].expiresAt + RefreshTTL
      BY DEF Grace
    <2>1. /\ session[token[t].login].status # "none"
          /\ token[t].expiresAt <= session[token[t].login].expiresAt + RefreshTTL
      BY DEF SoloInv, Grace
    <2>2. CASE token[t].login # l \/ session[l].status # "stored"
      <3>1. session'[token[t].login] = session[token[t].login]
        BY <1>1, <2>2 DEF UpdateSession, TypeOK
      <3> QED BY <2>1, <3>1
    <2>3. CASE token[t].login = l /\ session[l].status = "stored"
      <3>1. session'[l] = w
        BY <1>1, <2>3
      <3>2. token[t].expiresAt \in Nat /\ session[l].expiresAt \in Nat /\ w.expiresAt \in Nat
        BY DEF TypeOK, Token, Session
      <3>3. token[t].expiresAt <= w.expiresAt + RefreshTTL
        BY <2>1, <2>3, <3>2, TimesAssumption
      <3> QED BY <2>3, <3>1, <3>3
    <2> QED BY <2>2, <2>3
  <1> QED BY <1>2, <1>3, <1>4

\* What the requests write over a row they hold, which is still the session's.
LEMMA HeldRow ==
  ASSUME now \in Nat, NEW s \in Session, s.status = "stored",
         s.expiresAt <= now + SessionTTL
  PROVE  \A op \in SessionSteps :
           LET w == Rewritten(op, s) IN
           /\ w \in Session /\ w.status = "stored"
           /\ s.expiresAt <= w.expiresAt /\ w.expiresAt <= now + SessionTTL
  <1>0. now + SessionTTL \in Nat /\ s.expiresAt \in Nat
    BY TimesAssumption DEF Session
  <1>1. LET w == [s EXCEPT !.expiresAt = now + SessionTTL] IN
        /\ w \in Session /\ w.status = "stored" /\ w.expiresAt = now + SessionTTL
    BY <1>0 DEF Session
  <1>2. LET w == [s EXCEPT !.invalidated = TRUE] IN
        /\ w \in Session /\ w.status = "stored" /\ w.expiresAt = s.expiresAt
    BY <1>0 DEF Session
  <1>3. Rewritten("prolong", s) = [s EXCEPT !.expiresAt = now + SessionTTL]
    BY DEF Rewritten, Prolonged
  <1>4. Rewritten("upgrade", s) = s
    BY DEF Rewritten
  <1>5. Rewritten("invalidate", s) = [s EXCEPT !.invalidated = TRUE]
    BY DEF Rewritten
  <1>6. SessionSteps = {"prolong", "upgrade", "invalidate"}
    BY DEF SessionSteps
  <1>7. s.expiresAt <= s.expiresAt /\ now + SessionTTL <= now + SessionTTL
    BY <1>0
  <1>8. LET w == Rewritten("prolong", s) IN
        /\ w \in Session /\ w.status = "stored"
        /\ s.expiresAt <= w.expiresAt /\ w.expiresAt <= now + SessionTTL
    BY <1>1, <1>3, <1>7
  <1>9. LET w == Rewritten("upgrade", s) IN
        /\ w \in Session /\ w.status = "stored"
        /\ s.expiresAt <= w.expiresAt /\ w.expiresAt <= now + SessionTTL
    BY <1>4, <1>7
  <1>10. LET w == Rewritten("invalidate", s) IN
        /\ w \in Session /\ w.status = "stored"
        /\ s.expiresAt <= w.expiresAt /\ w.expiresAt <= now + SessionTTL
    BY <1>2, <1>5, <1>7
  <1> QED BY <1>6, <1>8, <1>9, <1>10

\* The refresh grant prolongs the session it read.
LEMMA RefreshExtendSolo ==
  ASSUME OneAtATime, IInv, SoloInv, NEW r \in Requests, RefreshExtend(r)
  PROVE  SoloInv'
  <1>0. TypeOK /\ Wired /\ now \in Nat
    BY DEF IInv, TypeOK
  <1>1. PICK h : h = request[r]
    OBVIOUS
  <1>2. PICK l : l = h.login
    OBVIOUS
  <1>3. PICK s : s = session[l]
    OBVIOUS
  <1>4. /\ h \in Handler /\ l \in Logins /\ h.step = "extend" /\ h.row \in Session
        /\ h.began \in Nat /\ s \in Session /\ InTime(h) /\ Sound(h, s)
    BY <1>1, <1>2, <1>3, OfHandler DEF RefreshExtend
  <1>5. PICK w : w = Prolonged(h.row)
    OBVIOUS
  <1>6. s.expiresAt <= now + SessionTTL
    BY <1>3, <1>4 DEF SoloInv, SessionsInOrder
  <1>7. /\ w \in Session /\ w.expiresAt = now + SessionTTL
        /\ w.status = h.row.status /\ w.invalidated = h.row.invalidated
    BY <1>0, <1>4, <1>5, TimesAssumption DEF Prolonged, Session
  <1>8. h.row.status = "stored" /\ ~h.row.invalidated
    BY <1>4 DEF Sound, HoldsRow, Holding
  <1>9. /\ UNCHANGED <<now, token, sold, dead>> /\ UpdateSession(l, w)
        /\ \/ /\ s.status = "stored"
              /\ Becomes(r, [h EXCEPT !.step = "rotate", !.row = NoSession])
           \/ Answer(r)
    BY <1>1, <1>2, <1>3, <1>5 DEF RefreshExtend, history
  <1>10. now + SessionTTL <= now + SessionTTL
    BY <1>0, TimesAssumption
  <1>11. SessionsInOrder' /\ Families' /\ DeadRevoked' /\ Grace'
    BY <1>0, <1>3, <1>4, <1>6, <1>7, <1>8, <1>9, <1>10, WrittenKeeps
  <1>12. CASE Answer(r)
    BY <1>0, <1>11, <1>12, AnsweredSolo DEF SoloInv
  <1>13. CASE /\ s.status = "stored"
              /\ Becomes(r, [h EXCEPT !.step = "rotate", !.row = NoSession])
    <2>1. PICK k : k = [h EXCEPT !.step = "rotate", !.row = NoSession]
      OBVIOUS
    <2>2. k.step = "rotate" /\ k.login = l /\ k.began = h.began
      BY <1>2, <1>4, <2>1, NullRecords, AllFields, StepNames
    <2>3. request'[r] = k
      BY <1>0, <1>13, <2>1, Moved
    <2>4. InTime(k)'
      BY <1>4, <1>9, <2>2, StillInTime
    <2>5. session'[l] = w
      BY <1>0, <1>3, <1>4, <1>9, <1>13 DEF UpdateSession, TypeOK
    <2>6. h.began + SessionTTL <= w.expiresAt
      BY <1>0, <1>4, <1>7, TimesAssumption DEF InTime
    <2>7. k.step \notin Holding /\ k.step \in Granting /\ k.step # "refresh"
      BY <2>2 DEF Holding, Granting, SessionSteps
    <2>8. OfLiveFamily(k)'
      <3>1. sold[l] # 0 /\ l \notin dead
        BY <1>2, <1>4 DEF Sound, OfLiveFamily, Granting
      <3> QED BY <1>9, <2>2, <3>1 DEF OfLiveFamily
    <2>9. HoldsRow(k, w) /\ IssuesForValid(k, w)
      BY <1>7, <1>8, <2>2, <2>6, <2>7 DEF HoldsRow, IssuesForValid
    <2>10. Sound(k, session[k.login])'
      BY <2>2, <2>5, <2>8, <2>9 DEF Sound, HoldsRow, IssuesForValid
    <2> QED BY <1>11, <2>3, <2>4, <2>10, OneHandler DEF SoloInv
  <1> QED BY <1>9, <1>12, <1>13

\* The session API writes the row it read, as it changed it.
LEMMA SessionWriteSolo ==
  ASSUME OneAtATime, IInv, SoloInv, NEW r \in Requests, SessionWrite(r)
  PROVE  SoloInv'
  <1>0. TypeOK /\ Wired /\ now \in Nat
    BY DEF IInv, TypeOK
  <1>1. PICK h : h = request[r]
    OBVIOUS
  <1>2. PICK l : l = h.login
    OBVIOUS
  <1>3. PICK s : s = session[l]
    OBVIOUS
  <1>4. /\ h.step \in SessionSteps /\ h.step # "idle"
    BY <1>1 DEF SessionWrite, SessionSteps
  <1>5. /\ l \in Logins /\ s \in Session /\ Sound(h, s)
    BY <1>1, <1>2, <1>3, <1>4, OfHandler
  <1>6. s.expiresAt <= now + SessionTTL
    BY <1>3, <1>5 DEF SoloInv, SessionsInOrder
  <1>7. /\ UNCHANGED <<now, token, sold, dead>> /\ Answer(r)
        /\ UpdateSession(l, Rewritten(h.step, h.row))
    BY <1>1, <1>2 DEF SessionWrite, history
  <1>8. SessionsInOrder' /\ Families' /\ DeadRevoked' /\ Grace'
    <2>1. CASE s.status = "stored"
      <3>1. h.row = s
        BY <1>4, <1>5, <2>1 DEF Sound, HoldsRow, Holding
      <3>2. PICK w : w = Rewritten(h.step, s)
        OBVIOUS
      <3>3. /\ w \in Session /\ w.status = "stored"
            /\ s.expiresAt <= w.expiresAt /\ w.expiresAt <= now + SessionTTL
        BY <1>0, <1>4, <1>5, <1>6, <2>1, <3>2, HeldRow
      <3> QED BY <1>0, <1>3, <1>5, <1>7, <3>1, <3>2, <3>3, WrittenKeeps
    <2>2. CASE s.status # "stored"
      <3>1. session' = session
        BY <1>0, <1>3, <1>5, <1>7, <2>2 DEF UpdateSession, TypeOK
      <3> QED BY <1>7, <3>1, TablesKept
    <2> QED BY <2>1, <2>2
  <1> QED BY <1>0, <1>7, <1>8, AnsweredSolo DEF SoloInv

\* The sweeper takes no session a handler or a token still needs.
LEMMA PurgeSolo ==
  ASSUME OneAtATime, IInv, SoloInv, PurgeExpired
  PROVE  SoloInv'
  <1>0. TypeOK /\ Wired /\ now \in Nat
    BY DEF IInv, TypeOK
  <1>1. /\ now' = now /\ request' = request /\ sold' = sold /\ dead' = dead
    BY DEF PurgeExpired, history
  <1>2. \A l \in Logins :
          /\ session'[l].invalidated = session[l].invalidated
          /\ session'[l].expiresAt = session[l].expiresAt
          /\ \/ session'[l] = session[l]
             \/ session'[l].status = "swept" /\ SessionPurgeable(l)
    BY <1>0 DEF PurgeExpired, TypeOK, Session
  <1>3. \A u \in Tokens :
          /\ token'[u].login = token[u].login /\ token'[u].kind = token[u].kind
          /\ token'[u].revoked = token[u].revoked
          /\ token'[u].expiresAt = token[u].expiresAt
          /\ \/ token'[u] = token[u]
             \/ token'[u].status = "swept" /\ token[u].status = "stored"
    BY <1>0 DEF PurgeExpired, TypeOK, Token, TokenPurgeable, Found
  <1>4. SessionsInOrder'
    <2>1. ASSUME NEW l \in Logins
          PROVE  session[l].expiresAt \in Nat
                 /\ (SessionPurgeable(l) => session[l].expiresAt + RefreshTTL < now)
      BY <1>0, TimesAssumption DEF TypeOK, Session, SessionPurgeable
    <2> QED BY <1>1, <1>2, <2>1 DEF SoloInv, SessionsInOrder
  <1>5. Families' /\ DeadRevoked'
    BY <1>1, <1>3 DEF SoloInv, Families, DeadRevoked
  <1>6. Grace'
    <2> SUFFICES ASSUME NEW t \in Tokens, token'[t].status = "stored",
                        token'[t].kind = "refresh"
                 PROVE  /\ session'[token'[t].login].status # "none"
                        /\ token'[t].expiresAt
                             <= session'[token'[t].login].expiresAt + RefreshTTL
      BY DEF Grace
    <2>1. token'[t] = token[t] /\ token[t].login \in Logins
      BY <1>0, <1>3 DEF Wired
    <2> QED BY <1>2, <2>1 DEF SoloInv, Grace
  <1>7. HandlersSound'
    <2> SUFFICES ASSUME NEW r \in Requests, request[r].step # "idle"
                 PROVE  InTime(request[r])' /\ Sound(request[r], session[request[r].login])'
      BY <1>1 DEF HandlersSound
    <2>1. PICK h : h = request[r] /\ h = request'[r]
      BY <1>1
    <2>2. /\ h.login \in Logins /\ h.began \in Nat /\ InTime(h)
          /\ Sound(h, session[h.login])
      BY <2>1, OfHandler
    <2>3. PICK s : s = session[h.login]
      OBVIOUS
    <2>4. PICK w : w = session'[h.login]
      OBVIOUS
    <2>5. s.expiresAt \in Nat
      BY <1>0, <2>2, <2>3 DEF TypeOK, Session
    <2>6. h.step \in {"rotate"} \cup Issuing => ~SessionPurgeable(h.login)
      <3> SUFFICES ASSUME h.step \in {"rotate"} \cup Issuing
                   PROVE  now <= s.expiresAt + RefreshTTL
        BY <1>0, <2>3, <2>5, TimesAssumption DEF SessionPurgeable
      <3>1. h.began + SessionTTL <= s.expiresAt
        BY <2>2, <2>3 DEF Sound, IssuesForValid
      <3> QED
        BY <1>0, <2>2, <2>5, <3>1, TimesAssumption, HandlerAssumption DEF InTime
    <2>7. /\ w.invalidated = s.invalidated /\ w.expiresAt = s.expiresAt
          /\ w = s \/ (w.status = "swept" /\ h.step \notin {"rotate"} \cup Issuing)
      BY <1>2, <2>2, <2>3, <2>4, <2>6
    <2>8. InTime(h)'
      BY <1>1, <2>2 DEF InTime
    <2>9. OfLiveFamily(h)' /\ HoldsRow(h, w) /\ IssuesForValid(h, w)
      BY <1>1, <2>2, <2>3, <2>7
      DEF Sound, OfLiveFamily, HoldsRow, IssuesForValid, Issuing
    <2>10. Sound(h, session[h.login])'
      BY <2>4, <2>9 DEF Sound, HoldsRow, IssuesForValid
    <2> QED BY <2>1, <2>8, <2>10
  <1> QED BY <1>4, <1>5, <1>6, <1>7 DEF SoloInv

\* Time passes for handlers only within their limit.
LEMMA TickSolo ==
  ASSUME OneAtATime, IInv, SoloInv, Tick
  PROVE  SoloInv'
  <1>0. TypeOK /\ now \in Nat
    BY DEF IInv, TypeOK
  <1>1. /\ now' = now + 1 /\ UNCHANGED <<session, token>> /\ UNCHANGED request
        /\ UNCHANGED <<sold, dead>>
    BY DEF Tick, tables, history
  <1>2. SessionsInOrder'
    <2>1. \A l \in Logins : session[l].expiresAt \in Nat
      BY <1>0 DEF TypeOK, Session
    <2> QED BY <1>0, <1>1, <2>1, TimesAssumption DEF SoloInv, SessionsInOrder
  <1>3. Families' /\ DeadRevoked' /\ Grace'
    BY <1>1 DEF SoloInv, Families, DeadRevoked, Grace
  <1>4. HandlersSound'
    <2> SUFFICES ASSUME NEW r \in Requests, request[r].step # "idle"
                 PROVE  InTime(request[r])' /\ Sound(request[r], session[request[r].login])'
      BY <1>1 DEF HandlersSound
    <2>1. PICK h : h = request[r] /\ h = request'[r]
      BY <1>1
    <2>2. h.began \in Nat /\ InTime(h) /\ Sound(h, session[h.login])
      BY <2>1, OfHandler
    <2>3. now < h.began + HandlerTime
      BY <2>1 DEF Tick, Busy
    <2>4. InTime(h)'
      BY <1>0, <1>1, <2>2, <2>3, TimesAssumption DEF InTime
    <2>5. Sound(h, session[h.login])'
      BY <1>1, <2>2 DEF Sound, OfLiveFamily, HoldsRow, IssuesForValid
    <2> QED BY <2>1, <2>4, <2>5
  <1> QED BY <1>2, <1>3, <1>4 DEF SoloInv

\* Steps that touch none of it: a new code, a failing store, a restart.
LEMMA QuietSolo ==
  ASSUME OneAtATime, IInv, SoloInv,
         \/ \E l \in Logins : PutAuthCode(l)
         \/ \E r \in Requests : StoreError(r)
         \/ Restart \/ UNCHANGED vars
  PROVE  SoloInv'
  <1>0. TypeOK
    BY DEF IInv
  <1>1. UNCHANGED <<now, session, token>> /\ UNCHANGED <<sold, dead>>
    BY DEF PutAuthCode, StoreError, Restart, tables, history, vars
  <1>2. SessionsInOrder' /\ Families' /\ DeadRevoked' /\ Grace'
    BY <1>1, TablesKept
  <1>3. CASE UNCHANGED request
    BY <1>1, <1>2, <1>3, HandlersKept DEF SoloInv
  <1>4. ASSUME NEW r \in Requests, StoreError(r) PROVE SoloInv'
    BY <1>0, <1>2, <1>4, AnsweredSolo DEF StoreError, SoloInv
  <1>5. CASE Restart
    <2>1. \A r \in Requests : request'[r].step = "idle"
      BY <1>5 DEF Restart, Idle
    <2> QED BY <1>2, <2>1 DEF SoloInv, HandlersSound
  <1> QED BY <1>3, <1>4, <1>5 DEF PutAuthCode, vars

\* The empty tables are in order.
LEMMA InitSolo == Init => SoloInv
  <1> SUFFICES ASSUME Init PROVE SoloInv
    OBVIOUS
  <1>1. \A r \in Requests : request[r].step = "idle"
    BY DEF Init, Idle
  <1>2. \A t \in Tokens : token[t].status = "unborn"
    BY DEF Init, NoToken
  <1>3. \A l \in Logins : /\ session[l].status = "none" /\ ~session[l].invalidated
                          /\ session[l].expiresAt = 0
    BY DEF Init, NoSession
  <1>4. SessionsInOrder
    BY <1>3, TimesAssumption DEF Init, SessionsInOrder
  <1>5. Families /\ DeadRevoked /\ Grace /\ HandlersSound
    BY <1>1, <1>2 DEF Init, Families, DeadRevoked, Grace, HandlersSound
  <1> QED BY <1>4, <1>5 DEF SoloInv

\* Every step keeps the invariant of one request at a time.
LEMMA NextSolo == OneAtATime /\ IInv /\ SoloInv /\ [Next]_vars => SoloInv'
  BY RefreshGetSolo, RefreshSessionSolo, SessionGetSolo, CodeConsumeSolo,
     RefreshReplaySolo, RefreshRotateSolo, RevokeSolo, IssueAccessSolo,
     IssueRefreshSolo, CodeSessionSolo, CreateSessionSolo, RefreshExtendSolo,
     SessionWriteSolo, PurgeSolo, TickSolo, QuietSolo
  DEF Next, Step

\* While requests do not overlap the invariant holds of every behaviour.
THEOREM SoloHolds ==
  ASSUME OneAtATime
  PROVE  Spec => []SoloInv
  <1>1. Init => SoloInv
    BY InitSolo
  <1>2. IInv /\ SoloInv /\ [Next]_vars => SoloInv'
    BY NextSolo
  <1> QED BY <1>1, <1>2, IInvHolds, PTL DEF Spec

\* Once a replay has revoked a family none of its tokens is accepted again, as
\* long as requests do not overlap: what a family loses, RevokeTokenFamily finds
\* (handleRefreshGrant, "The ENTIRE family").
THEOREM FamiliesDie ==
  ASSUME OneAtATime
  PROVE  Spec => []FamilyDead
  <1>1. SoloInv => FamilyDead
    BY DEF SoloInv, DeadRevoked, FamilyDead, Honoured, Found
  <1> QED BY <1>1, SoloHolds, PTL

\* Whoever holds a refresh token that is still good has a session to refresh:
\* the sweeper's grace of RefreshTTL outlasts every token (PurgeExpired), as
\* long as requests do not overlap and a handler takes no longer than a session
\* lives.
THEOREM SessionsOutlast ==
  ASSUME OneAtATime
  PROVE  Spec => []GoodTokenHasSession
  <1>1. IInv /\ SoloInv => GoodTokenHasSession
    <2> SUFFICES ASSUME IInv, SoloInv, NEW t \in Tokens, Honoured(t),
                        token[t].kind = "refresh"
                 PROVE  session[token[t].login].status = "stored"
      BY DEF GoodTokenHasSession
    <2>1. PICK s : s = session[token[t].login]
      OBVIOUS
    <2>2. token[t].status = "stored" /\ now <= token[t].expiresAt
      BY DEF Honoured, Found
    <2>3. token[t].login \in Logins
      BY <2>2 DEF IInv, Wired
    <2>4. /\ s.status \in {"none", "stored", "swept"} /\ s.expiresAt \in Nat
          /\ token[t].expiresAt \in Nat /\ now \in Nat
      BY <2>1, <2>3 DEF IInv, TypeOK, Session, Token
    <2>5. s.status # "none" /\ token[t].expiresAt <= s.expiresAt + RefreshTTL
      BY <2>1, <2>2 DEF SoloInv, Grace
    <2>6. s.status = "swept" => s.expiresAt + RefreshTTL < now
      BY <2>1, <2>3 DEF SoloInv, SessionsInOrder
    <2>7. s.status # "swept"
      BY <2>2, <2>4, <2>5, <2>6, TimesAssumption
    <2> QED BY <2>1, <2>4, <2>5, <2>7
  <1> QED BY <1>1, IInvHolds, SoloHolds, PTL

\* A step that stores a token does it for a valid session.
LEMMA IssuesValid == IInv /\ SoloInv /\ [Next]_vars => IssuedForValid
  <1> SUFFICES ASSUME IInv, SoloInv, [Next]_vars, NEW t \in Tokens,
                      token[t].status = "unborn", token'[t].status = "stored"
               PROVE  ~session[token'[t].login].invalidated
    BY DEF IssuedForValid
  <1>0. TypeOK /\ Wired
    BY DEF IInv
  <1>1. ASSUME NEW r \in Requests, NEW u \in Tokens,
               IssueAccess(r, u) \/ IssueRefresh(r, u)
        PROVE  ~session[token'[t].login].invalidated
    <2>1. PICK h : h = request[r]
      OBVIOUS
    <2>2. h.step \in Issuing /\ h.step # "idle"
      BY <1>1, <2>1 DEF IssueAccess, IssueRefresh, Issuing
    <2>3. ~session[h.login].invalidated
      BY <2>1, <2>2, OfHandler DEF Sound, IssuesForValid
    <2>4. \E k, n : PutToken(u, k, h.login, n)
      BY <1>1, <2>1 DEF IssueAccess, IssueRefresh
    <2>5. /\ token'[u].login = h.login
          /\ \A v \in Tokens : v # u => token'[v] = token[v]
      BY <1>0, <2>4 DEF PutToken, TypeOK
    <2>6. t = u
      BY <2>5
    <2> QED BY <2>3, <2>5, <2>6
  <1>2. ASSUME NEW u \in Tokens, RevokeTokenByHash(u) PROVE FALSE
    BY <1>0, <1>2, RevokeTypeOK
  <1>3. ASSUME NEW l, RevokeTokenFamily(l) PROVE FALSE
    BY <1>0, <1>3, RevokeFamilyTypeOK
  <1>4. ASSUME NEW r \in Requests, RefreshRotate(r) PROVE FALSE
    <2>1. request[r].parent \in Tokens
      BY <1>0, <1>4 DEF RefreshRotate, Wired, TypeOK, Handler
    <2> QED BY <1>2, <1>4, <2>1 DEF RefreshRotate
  <1>5. CASE PurgeExpired
    BY <1>0, <1>5 DEF PurgeExpired, TokenPurgeable, Found
  <1>6. CASE token' = token
    BY <1>6
  <1> QED
    BY <1>1, <1>2, <1>3, <1>4, <1>5, <1>6
    DEF Next, Step, PutAuthCode, CreateSession, CodeConsume, CodeSession, RefreshGet,
        RefreshReplay, RefreshSession, RefreshExtend, SessionGet, SessionWrite,
        StoreError, Revoke, Restart, Tick, tables, vars

\* A token of an invalidated session buys nothing: no token is issued for it
\* (handleRefreshGrant's InvalidatedAt check), as long as requests do not overlap.
THEOREM NothingForInvalidated ==
  ASSUME OneAtATime
  PROVE  Spec => NoIssueAfterInvalidate
  <1>1. IInv /\ SoloInv /\ [Next]_vars => [IssuedForValid]_vars
    BY IssuesValid
  <1> QED BY <1>1, IInvHolds, SoloHolds, PTL DEF Spec, NoIssueAfterInvalidate

\* A step leaves an invalidated session as it is, or sweeps it.
LEMMA StepsFreeze == IInv /\ SoloInv /\ [Next]_vars => StaysFrozen
  <1> SUFFICES ASSUME IInv, SoloInv, [Next]_vars, NEW l \in Logins,
                      session[l].invalidated
               PROVE  \/ session'[l] = session[l]
                      \/ session'[l] = [session[l] EXCEPT !.status = "swept"]
    BY DEF StaysFrozen
  <1>0. TypeOK /\ Wired /\ Bought
    BY DEF IInv
  <1>1. session[l].status # "none"
    BY DEF SoloInv, SessionsInOrder
  <1>2. ASSUME NEW k \in Logins, CreateSession(k) PROVE session'[l] = session[l]
    BY <1>0, <1>1, <1>2 DEF CreateSession, TypeOK
  <1>3. ASSUME NEW r \in Requests, CodeSession(r) PROVE session'[l] = session[l]
    <2>1. request[r].login \in Logins /\ Redeems(r, request[r].login)
      BY <1>0, <1>3 DEF CodeSession, Wired, Redeems
    <2>2. session[request[r].login].status = "none"
      BY <1>0, <2>1 DEF Bought
    <2> QED BY <1>0, <1>1, <1>3, <2>2 DEF CodeSession, TypeOK
  <1>4. ASSUME NEW r \in Requests, RefreshExtend(r) \/ SessionWrite(r)
        PROVE  session'[l] = session[l]
    <2>1. request[r].step \in Holding /\ request[r].step # "idle"
      BY <1>4 DEF RefreshExtend, SessionWrite, Holding, SessionSteps
    <2>2. ~session[request[r].login].invalidated
      BY <2>1, OfHandler DEF Sound, IssuesForValid
    <2>3. request[r].login # l
      BY <2>2
    <2>4. PICK m, w : m # l /\ UpdateSession(m, w)
      BY <1>4, <2>3 DEF RefreshExtend, SessionWrite
    <2> QED BY <1>0, <2>4 DEF UpdateSession, TypeOK
  <1>5. CASE PurgeExpired
    BY <1>5 DEF PurgeExpired
  <1>6. CASE session' = session
    BY <1>6
  <1> QED
    BY <1>2, <1>3, <1>4, <1>5, <1>6
    DEF Next, Step, PutAuthCode, CodeConsume, IssueAccess, IssueRefresh,
        RefreshGet, RefreshReplay, RefreshSession, RefreshRotate, SessionGet,
        StoreError, Revoke, Restart, Tick, tables, vars

\* An invalidated session is frozen: nothing revives it, prolongs it or writes
\* to it but the sweeper that takes it (UpdateSession writes only rows read
\* while valid), as long as requests do not overlap.
THEOREM Frozen ==
  ASSUME OneAtATime
  PROVE  Spec => FrozenOnceInvalidated
  <1>1. IInv /\ SoloInv /\ [Next]_vars => [StaysFrozen]_vars
    BY StepsFreeze
  <1> QED BY <1>1, IInvHolds, SoloHolds, PTL DEF Spec, FrozenOnceInvalidated

====
