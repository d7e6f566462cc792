--------------------------- MODULE InstallsProofs ---------------------------
(***************************************************************************)
(* Proofs about Installs, for any number of installs, identities, tokens   *)
(* and overlapping requests, and any number of failures.                   *)
(*                                                                         *)
(* That every stored token has a recorded grant is not inductive: a row is *)
(* written by a handler that recorded its grant earlier, or read the row   *)
(* earlier and may write it back after it was deleted.  IInv adds what     *)
(* those handlers have in hand, and that deleted rows keep their grants.   *)
(* Every action is first reduced to what it does to each table (PoolMove,  *)
(* GrantMove, TokenMove, HandlerMove).                                     *)
(*                                                                         *)
(* What holds only while requests do not overlap (NoLeak, ReplayKills-     *)
(* Install, RevocationSticks) rests on a second invariant, SInv: what the  *)
(* request being served still owes at each of its steps, and what an       *)
(* install owes that no request is about.                                  *)
(***************************************************************************)
EXTENDS Installs, TLAPS

USE PoolAssumption, InstallsAssumption, InstallIdsAssumption

\* Grants are numbered in the order they are recorded, and name an install.
Numbered ==
  \A t \in Tokens :
    IF Recorded(t)
    THEN grant[t].install \in Installs /\ \A u \in Tokens : u < t => Recorded(u)
    ELSE grant[t].install = NoInstall

Succeeded(t, n) == \E u \in Tokens : u > t /\ Recorded(u) /\ grant[u].install = n

\* A row was preceded by its grant; rotated out, by its successor's, too.
Backed ==
  \A t \in Tokens : token[t].status # "unborn" =>
    /\ Recorded(t) /\ grant[t].install = token[t].install
    /\ token[t].rotated => Succeeded(t, token[t].install)

\* What a handler has in hand at each of its steps.
InHand(h) ==
  /\ h.step \notin {"idle", "forward"} => h.install \in Installs
  /\ h.step \in {"check", "rerecord", "rotate"} =>
       /\ h.token \in Tokens /\ token[h.token].status # "unborn"
       /\ token[h.token].install = h.install
  /\ h.step \in {"finalize", "store", "rotate"} =>
       h.fresh \in Tokens /\ Recorded(h.fresh) /\ grant[h.fresh].install = h.install
  /\ h.step = "rotate" => h.fresh > h.token

Wired == \A r \in Requests : InHand(handler[r])

IInv == TypeOK /\ Numbered /\ Backed /\ Wired

-----------------------------------------------------------------------------
(* The initial states.                                                     *)

\* Empty tables satisfy the invariant.
LEMMA InitIInv == Init => IInv
  <1> SUFFICES ASSUME Init PROVE IInv
    OBVIOUS
  <1>1. PoolTypeOK /\ GrantsTypeOK
    BY DEF Init, PoolInit, GrantsInit, PoolTypeOK, GrantsTypeOK, Unclaimed, Identity, Grant
  <1>2. TypeOK
    BY <1>1 DEF Init, TypeOK, Unborn, NoToken, Idle, Install, Token, Handler, Steps,
                IdentityId, TokenId
  <1>3. Numbered
    BY DEF Init, GrantsInit, Numbered, Recorded
  <1>4. Backed
    BY DEF Init, NoToken, Backed
  <1>5. Wired
    BY DEF Init, Idle, Wired, InHand
  <1> QED BY <1>2, <1>3, <1>4, <1>5 DEF IInv

-----------------------------------------------------------------------------
(* pool-service.                                                           *)

PoolMove ==
  \/ UNCHANGED <<pool, identity>>
  \/ DeletePool
  \/ \E i \in Identities : AddIdentity(i) \/ RevokeIdentity(i)
  \/ \E i \in Identities, n \in Installs : ClaimIdentity(i, n)
  \/ \E i : ReleaseIdentity(i)

\* What an action may do to the pool.
LEMMA PoolMoves == IInv /\ Next => PoolMove
  <1> SUFFICES ASSUME IInv, Next PROVE PoolMove
    OBVIOUS
  <1>1. ASSUME NEW r \in Requests, Claim(r) PROVE PoolMove
    <2>1. handler[r].install \in Installs
      BY <1>1 DEF Claim, At, IInv, Wired, InHand
    <2> QED BY <1>1, <2>1 DEF Claim, PoolMove
  <1>2. ASSUME NEW r \in Requests, Compensate(r) \/ Release(r) PROVE PoolMove
    BY <1>2 DEF Compensate, Release, Releases, PoolMove
  <1>3. CASE PeerAdmin
    BY <1>3 DEF PeerAdmin, PoolMove
  <1>4. CASE PurgeExpired \/ Restart \/ \E t \in Tokens : ExpireToken(t)
    BY <1>4 DEF PurgeExpired, Restart, ExpireToken, peers, PoolMove
  <1>5. CASE \E n \in Installs : Authorize(n) \/ Create(n)
    BY <1>5 DEF Authorize, Create, peers, PoolMove
  <1>6. ASSUME NEW r \in Requests, NEW n \in Installs, CodeConsume(r, n) \/ RevokeInstall(r, n)
        PROVE  PoolMove
    BY <1>6 DEF CodeConsume, RevokeInstall, peers, PoolMove
  <1>7. ASSUME NEW r \in Requests, NEW t \in Tokens, RefreshGet(r, t) \/ Revoke(r, t)
        PROVE  PoolMove
    BY <1>7 DEF RefreshGet, Revoke, peers, PoolMove
  <1>8. ASSUME NEW r \in Requests,
               \/ CreateInstall(r) \/ Fail(r) \/ Finalize(r) \/ StoreToken(r)
               \/ RefreshCheck(r) \/ Rotate(r) \/ ReplayRead(r) \/ MarkRevoked(r)
               \/ DeleteTokensForInstall(r)
        PROVE  UNCHANGED peers
    BY <1>8 DEF CreateInstall, Fail, Finalize, StoreToken, RefreshCheck, Rotate,
                ReplayRead, MarkRevoked, DeleteTokensForInstall
  <1>9. ASSUME NEW r \in Requests,
               \/ RecordGrant(r) \/ RerecordGrant(r) \/ RevokeGrantsForInstall(r)
               \/ RevokeForward(r)
        PROVE  PoolMove
    BY <1>9 DEF RecordGrant, RerecordGrant, RevokeGrantsForInstall, RevokeForward, PoolMove
  <1> QED
    BY <1>1, <1>2, <1>3, <1>4, <1>5, <1>6, <1>7, <1>8, <1>9 DEF Next, Step, peers, PoolMove

\* Identities keep their type, and are claimed exactly when someone holds them.
LEMMA PoolKept == PoolTypeOK /\ PoolMove => PoolTypeOK'
  <1> SUFFICES ASSUME PoolTypeOK, PoolMove PROVE PoolTypeOK'
    OBVIOUS
  <1>1. CASE UNCHANGED <<pool, identity>>
    BY <1>1 DEF PoolTypeOK
  <1>2. CASE DeletePool
    BY <1>2 DEF DeletePool, PoolTypeOK, Identity, Unclaimed
  <1>3. ASSUME NEW i \in Identities, AddIdentity(i) \/ RevokeIdentity(i) PROVE PoolTypeOK'
    BY <1>3 DEF AddIdentity, RevokeIdentity, PoolTypeOK, Identity, Unclaimed
  <1>4. ASSUME NEW i \in Identities, NEW n \in Installs, ClaimIdentity(i, n)
        PROVE  PoolTypeOK'
    BY <1>4 DEF ClaimIdentity, PoolTypeOK, Identity
  <1>5. ASSUME NEW i, ReleaseIdentity(i) PROVE PoolTypeOK'
    BY <1>5 DEF ReleaseIdentity, PoolTypeOK, Identity, Unclaimed
  <1> QED BY <1>1, <1>2, <1>3, <1>4, <1>5 DEF PoolMove

-----------------------------------------------------------------------------
(* grant-service.                                                          *)

GrantMove ==
  \/ UNCHANGED grant
  \/ \E t \in Tokens, n \in Installs : CreateGrant(t, n)
  \/ \E t \in TokenId : RevokeGrant(t)
  \/ \E some \in SUBSET Tokens : (\A t \in some : Recorded(t)) /\ RevokeGrants(some)

\* What an action may do to the grants.
LEMMA GrantMoves == IInv /\ Next => GrantMove
  <1> SUFFICES ASSUME IInv, Next PROVE GrantMove
    OBVIOUS
  <1>1. ASSUME NEW r \in Requests, RecordGrant(r) \/ RerecordGrant(r) PROVE GrantMove
    <2>1. handler[r].install \in Installs
      BY <1>1 DEF RecordGrant, RerecordGrant, At, IInv, Wired, InHand
    <2> QED BY <1>1, <2>1 DEF RecordGrant, RerecordGrant, GrantMove
  <1>2. ASSUME NEW r \in Requests, RevokeGrantsForInstall(r) PROVE GrantMove
    <2>1. handler[r].install \in Installs
      BY <1>2 DEF RevokeGrantsForInstall, At, IInv, Wired, InHand
    <2>2. \A t \in GrantsOf(handler[r].install) : Recorded(t)
      BY <2>1 DEF GrantsOf, IInv, Numbered
    <2>3. PICK some \in SUBSET GrantsOf(handler[r].install) :
            UNCHANGED grant \/ RevokeGrants(some)
      BY <1>2 DEF RevokeGrantsForInstall
    <2>4. some \in SUBSET Tokens
      BY <2>3 DEF GrantsOf
    <2> QED BY <2>2, <2>3, <2>4 DEF GrantMove
  <1>3. ASSUME NEW r \in Requests, RevokeForward(r) PROVE GrantMove
    <2>1. handler[r].token \in TokenId
      BY DEF IInv, TypeOK, Handler
    <2> QED BY <1>3, <2>1 DEF RevokeForward, GrantMove
  <1>4. CASE PeerAdmin
    BY <1>4 DEF PeerAdmin, GrantMove, TokenId
  <1>5. CASE PurgeExpired \/ Restart \/ \E t \in Tokens : ExpireToken(t)
    BY <1>5 DEF PurgeExpired, Restart, ExpireToken, peers, GrantMove
  <1>6. CASE \E n \in Installs : Authorize(n) \/ Create(n)
    BY <1>6 DEF Authorize, Create, peers, GrantMove
  <1>7. ASSUME NEW r \in Requests, NEW n \in Installs, CodeConsume(r, n) \/ RevokeInstall(r, n)
        PROVE  GrantMove
    BY <1>7 DEF CodeConsume, RevokeInstall, peers, GrantMove
  <1>8. ASSUME NEW r \in Requests, NEW t \in Tokens, RefreshGet(r, t) \/ Revoke(r, t)
        PROVE  GrantMove
    BY <1>8 DEF RefreshGet, Revoke, peers, GrantMove
  <1>9. ASSUME NEW r \in Requests,
               \/ CreateInstall(r) \/ Fail(r) \/ Finalize(r) \/ StoreToken(r)
               \/ RefreshCheck(r) \/ Rotate(r) \/ ReplayRead(r) \/ MarkRevoked(r)
               \/ DeleteTokensForInstall(r)
        PROVE  UNCHANGED peers
    BY <1>9 DEF CreateInstall, Fail, Finalize, StoreToken, RefreshCheck, Rotate,
                ReplayRead, MarkRevoked, DeleteTokensForInstall
  <1>10. ASSUME NEW r \in Requests, Claim(r) \/ Compensate(r) \/ Release(r)
         PROVE  GrantMove
    BY <1>10 DEF Claim, Compensate, Release, GrantMove
  <1> QED
    BY <1>1, <1>2, <1>3, <1>4, <1>5, <1>6, <1>7, <1>8, <1>9, <1>10
       DEF Next, Step, peers, GrantMove

\* Once recorded, a grant stays and keeps its install.
GrantsOnly ==
  \A t \in Tokens : Recorded(t) => Recorded(t)' /\ grant'[t].install = grant[t].install

\* Revoking is all that happens to a recorded grant, and a new one is the next.
LEMMA GrantsKept ==
  GrantsTypeOK /\ Numbered /\ GrantMove => GrantsTypeOK' /\ Numbered' /\ GrantsOnly
  <1> SUFFICES ASSUME GrantsTypeOK, Numbered, GrantMove
               PROVE  GrantsTypeOK' /\ Numbered' /\ GrantsOnly
    OBVIOUS
  <1>1. CASE UNCHANGED grant
    BY <1>1 DEF GrantsTypeOK, Numbered, GrantsOnly, Recorded
  <1>2. ASSUME NEW t \in Tokens, NEW n \in Installs, CreateGrant(t, n)
        PROVE  GrantsTypeOK' /\ Numbered' /\ GrantsOnly
    <2>1. GrantsTypeOK'
      BY <1>2 DEF CreateGrant, GrantsTypeOK, Grant
    <2>2. \A u \in Tokens : IF u = t THEN Recorded(u)' /\ grant'[u].install = n
                            ELSE grant'[u] = grant[u]
      BY <1>2 DEF CreateGrant, GrantsTypeOK, Recorded
    <2>3. \A u \in Tokens : u # t => (Recorded(u)' <=> Recorded(u))
      BY <2>2 DEF Recorded
    <2>4. ~Recorded(t) /\ \A u \in Tokens : u < t => Recorded(u)
      BY <1>2 DEF CreateGrant
    <2>5. GrantsOnly
      BY <2>2, <2>3, <2>4 DEF GrantsOnly
    <2>6. Numbered'
      BY <2>2, <2>3, <2>4 DEF Numbered
    <2> QED BY <2>1, <2>5, <2>6
  <1>3. ASSUME NEW t \in TokenId, RevokeGrant(t)
        PROVE  GrantsTypeOK' /\ Numbered' /\ GrantsOnly
    <2>1. GrantsTypeOK'
      BY <1>3 DEF RevokeGrant, GrantsTypeOK, Grant
    <2>2. \A u \in Tokens : /\ grant'[u].install = grant[u].install
                            /\ Recorded(u)' <=> Recorded(u)
      BY <1>3 DEF RevokeGrant, GrantsTypeOK, Grant, Recorded
    <2> QED BY <2>1, <2>2 DEF Numbered, GrantsOnly
  <1>4. ASSUME NEW some \in SUBSET Tokens, \A t \in some : Recorded(t), RevokeGrants(some)
        PROVE  GrantsTypeOK' /\ Numbered' /\ GrantsOnly
    <2>1. GrantsTypeOK'
      BY <1>4 DEF RevokeGrants, GrantsTypeOK, Grant
    <2>2. \A u \in Tokens : /\ grant'[u].install = grant[u].install
                            /\ Recorded(u)' <=> Recorded(u)
      BY <1>4 DEF RevokeGrants, GrantsTypeOK, Grant, Recorded
    <2> QED BY <2>1, <2>2 DEF Numbered, GrantsOnly
  <1> QED BY <1>1, <1>2, <1>3, <1>4 DEF GrantMove

\* A successor once recorded stays one.
LEMMA SuccessorsStay ==
  ASSUME GrantsOnly, NEW t \in Tokens, NEW n, Succeeded(t, n)
  PROVE  Succeeded(t, n)'
  BY DEF GrantsOnly, Succeeded

-----------------------------------------------------------------------------
(* The tokens table.                                                       *)

TokenMove ==
  \/ UNCHANGED token
  \/ \E t \in Tokens, n \in Installs, i \in IdentityId, rotated \in BOOLEAN :
       /\ PutToken(t, n, i, rotated)
       /\ Recorded(t) /\ grant[t].install = n
       /\ rotated => Succeeded(t, n)
  \/ \E gone \in SUBSET Tokens, as \in {"revoked", "purged"} :
       (\A t \in gone : Stored(t)) /\ DeleteTokens(gone, as)
  \/ \E t \in Tokens : token' = [token EXCEPT ![t].expired = TRUE]

\* What an action may do to the tokens.
LEMMA TokenMoves == IInv /\ Next => TokenMove
  <1> SUFFICES ASSUME IInv, Next PROVE TokenMove
    OBVIOUS
  <1>1. ASSUME NEW r \in Requests, StoreToken(r) PROVE TokenMove
    <2>1. /\ handler[r].fresh \in Tokens /\ Recorded(handler[r].fresh)
          /\ grant[handler[r].fresh].install = handler[r].install
          /\ handler[r].install \in Installs
      BY <1>1 DEF StoreToken, At, IInv, Wired, InHand
    <2>2. handler[r].identity \in IdentityId
      BY DEF IInv, TypeOK, Handler
    <2> QED BY <1>1, <2>1, <2>2 DEF StoreToken, TokenMove
  <1>2. ASSUME NEW r \in Requests, Rotate(r) PROVE TokenMove
    <2> DEFINE t == handler[r].token
    <2>1. /\ t \in Tokens /\ token[t].status # "unborn"
          /\ handler[r].install \in Installs /\ token[t].install = handler[r].install
          /\ handler[r].fresh \in Tokens /\ Recorded(handler[r].fresh)
          /\ grant[handler[r].fresh].install = handler[r].install
          /\ handler[r].fresh > t
      BY <1>2 DEF Rotate, At, IInv, Wired, InHand
    <2>2. Recorded(t) /\ grant[t].install = token[t].install
      BY <2>1 DEF IInv, Backed
    <2>3. Succeeded(t, token[t].install)
      BY <2>1 DEF Succeeded
    <2>4. token[t].identity \in IdentityId
      BY <2>1 DEF IInv, TypeOK, Token
    <2>5. PutToken(t, token[t].install, token[t].identity, TRUE) \/ UNCHANGED token
      BY <1>2 DEF Rotate
    <2> QED BY <2>1, <2>2, <2>3, <2>4, <2>5 DEF TokenMove
  <1>3. ASSUME NEW r \in Requests, DeleteTokensForInstall(r) PROVE TokenMove
    <2>1. /\ TokensOf(handler[r].install) \in SUBSET Tokens
          /\ \A t \in TokensOf(handler[r].install) : Stored(t)
      BY DEF TokensOf
    <2> QED BY <1>3, <2>1 DEF DeleteTokensForInstall, TokenMove
  <1>4. ASSUME NEW r \in Requests, NEW t \in Tokens, Revoke(r, t) PROVE TokenMove
    BY <1>4 DEF Revoke, TokenMove
  <1>5. CASE PurgeExpired
    <2>1. Expired \in SUBSET Tokens /\ \A t \in Expired : Stored(t)
      BY DEF Expired
    <2> QED BY <1>5, <2>1 DEF PurgeExpired, TokenMove
  <1>6. ASSUME NEW t \in Tokens, ExpireToken(t) PROVE TokenMove
    BY <1>6 DEF ExpireToken, TokenMove
  <1>7. CASE Restart \/ PeerAdmin \/ \E n \in Installs : Authorize(n) \/ Create(n)
    BY <1>7 DEF Restart, PeerAdmin, Authorize, Create, TokenMove
  <1>8. ASSUME NEW r \in Requests, NEW n \in Installs, CodeConsume(r, n) \/ RevokeInstall(r, n)
        PROVE  TokenMove
    BY <1>8 DEF CodeConsume, RevokeInstall, TokenMove
  <1>9. ASSUME NEW r \in Requests, NEW t \in Tokens, RefreshGet(r, t) PROVE TokenMove
    BY <1>9 DEF RefreshGet, TokenMove
  <1>10. ASSUME NEW r \in Requests,
               \/ CreateInstall(r) \/ Claim(r) \/ RecordGrant(r) \/ Compensate(r)
               \/ Fail(r) \/ Finalize(r) \/ RefreshCheck(r) \/ RerecordGrant(r)
         PROVE  UNCHANGED token
    BY <1>10 DEF CreateInstall, Claim, RecordGrant, Compensate, Fail, Finalize,
                 RefreshCheck, RerecordGrant
  <1>11. ASSUME NEW r \in Requests,
               \/ ReplayRead(r) \/ MarkRevoked(r) \/ RevokeGrantsForInstall(r)
               \/ Release(r) \/ RevokeForward(r)
         PROVE  UNCHANGED token
    BY <1>11 DEF ReplayRead, MarkRevoked, RevokeGrantsForInstall, Release, RevokeForward
  <1>12. ASSUME NEW r \in Requests, Step(r) PROVE TokenMove
    BY <1>1, <1>2, <1>3, <1>10, <1>11, <1>12 DEF Step, TokenMove
  <1> QED
    BY <1>4, <1>5, <1>6, <1>7, <1>8, <1>9, <1>12 DEF Next

\* A row once written keeps its install, whatever becomes of the row.
TokensOnly ==
  \A t \in Tokens : token[t].status # "unborn" =>
    token'[t].status # "unborn" /\ token'[t].install = token[t].install

\* Rows keep their type and stay backed by grants.
LEMMA TokensKept ==
  ASSUME token \in [Tokens -> Token], Backed, TokenMove, GrantsOnly
  PROVE  token' \in [Tokens -> Token] /\ Backed' /\ TokensOnly
  <1>1. CASE UNCHANGED token
    BY <1>1, SuccessorsStay DEF Backed, TokensOnly, GrantsOnly
  <1>2. ASSUME NEW t \in Tokens, NEW n \in Installs, NEW i \in IdentityId,
               NEW rotated \in BOOLEAN, PutToken(t, n, i, rotated),
               Recorded(t), grant[t].install = n, rotated => Succeeded(t, n)
        PROVE  token' \in [Tokens -> Token] /\ Backed' /\ TokensOnly
    <2>1. token' \in [Tokens -> Token]
      BY <1>2 DEF PutToken, Token
    <2>2. \A u \in Tokens :
            IF u = t THEN token'[u].status = "stored" /\ token'[u].install = n
                          /\ token'[u].rotated = rotated
            ELSE token'[u] = token[u]
      BY <1>2 DEF PutToken
    <2>3. TokensOnly
      BY <1>2, <2>2 DEF TokensOnly, Backed
    <2>4. Backed'
      BY <1>2, <2>2, SuccessorsStay DEF Backed, GrantsOnly
    <2> QED BY <2>1, <2>3, <2>4
  <1>3. ASSUME NEW gone \in SUBSET Tokens, NEW as \in {"revoked", "purged"},
               \A t \in gone : Stored(t), DeleteTokens(gone, as)
        PROVE  token' \in [Tokens -> Token] /\ Backed' /\ TokensOnly
    <2>1. token' \in [Tokens -> Token]
      BY <1>3 DEF DeleteTokens, Token
    <2>2. \A u \in Tokens : /\ token'[u].status # "unborn" <=> token[u].status # "unborn"
                            /\ token'[u].install = token[u].install
                            /\ token'[u].rotated = token[u].rotated
      BY <1>3 DEF DeleteTokens, Token, Stored
    <2> QED BY <2>1, <2>2, SuccessorsStay DEF Backed, TokensOnly, GrantsOnly
  <1>4. ASSUME NEW t \in Tokens, token' = [token EXCEPT ![t].expired = TRUE]
        PROVE  token' \in [Tokens -> Token] /\ Backed' /\ TokensOnly
    <2>1. token' \in [Tokens -> Token]
      BY <1>4 DEF Token
    <2>2. \A u \in Tokens : /\ token'[u].status # "unborn" <=> token[u].status # "unborn"
                            /\ token'[u].install = token[u].install
                            /\ token'[u].rotated = token[u].rotated
      BY <1>4 DEF Token
    <2> QED BY <2>1, <2>2, SuccessorsStay DEF Backed, TokensOnly, GrantsOnly
  <1> QED BY <1>1, <1>2, <1>3, <1>4 DEF TokenMove

-----------------------------------------------------------------------------
(* Handlers.                                                               *)

\* A handler that does nothing is a handler.
LEMMA IdleRecord == Idle \in Handler /\ Idle.step = "idle"
  BY DEF Handler, Idle, Steps, TokenId, IdentityId

\* What the actions make of a handler's record is one, with these fields.
LEMMA Moved ==
  ASSUME NEW h \in Handler, NEW s \in Steps
  PROVE  /\ [h EXCEPT !.step = s] \in Handler
         /\ [h EXCEPT !.step = s].step = s
         /\ [h EXCEPT !.step = s].install = h.install
         /\ [h EXCEPT !.step = s].token = h.token
         /\ [h EXCEPT !.step = s].fresh = h.fresh
  BY DEF Handler

\* So is one with the identity it was given.
LEMMA MovedIdentity ==
  ASSUME NEW h \in Handler, NEW s \in Steps, NEW i \in IdentityId
  PROVE  \E g \in Handler :
           /\ g = [h EXCEPT !.step = s, !.identity = i]
           /\ g.step = s /\ g.install = h.install
  <1>1. [h EXCEPT !.step = s, !.identity = i] \in Handler
    BY DEF Handler
  <1> QED BY <1>1 DEF Handler

\* The steps the actions name.
LEMMA StepNames ==
  {"idle", "create", "claim", "record", "compensate", "fail", "finalize", "store",
   "check", "rerecord", "rotate", "replay", "mark", "grants", "release", "delete",
   "forward"} \subseteq Steps
  BY DEF Steps

\* What a handler has in hand it keeps, as grants and rows' installs do.
LEMMA HandStays ==
  ASSUME GrantsOnly, TokensOnly, NEW h, InHand(h)
  PROVE  InHand(h)'
  BY DEF InHand, GrantsOnly, TokensOnly

\* The steps that need nothing but an install in hand.
Plain == {"create", "claim", "record", "compensate", "fail", "replay", "mark",
          "grants", "release", "delete"}

\* At those, an install is enough.
LEMMA PlainHand ==
  ASSUME NEW h, h.step \in Plain, h.install \in Installs
  PROVE  InHand(h)'
  BY DEF InHand, Plain

\* At the ends, nothing is needed.
LEMMA EmptyHand ==
  ASSUME NEW h, h.step \in {"idle", "forward"}
  PROVE  InHand(h)'
  BY DEF InHand

HandlerMove ==
  \/ UNCHANGED handler
  \/ handler' = [r \in Requests |-> Idle]
  \/ \E r \in Requests, h \in Handler : Becomes(r, h) /\ InHand(h)'

\* Answering is such a move.
LEMMA AnswerMove ==
  ASSUME NEW r \in Requests, Answers(r)
  PROVE  HandlerMove
  BY IdleRecord, EmptyHand DEF Answers, HandlerMove

\* So is going on to a step that needs no more than the install.
LEMMA PlainMove ==
  ASSUME IInv, NEW r \in Requests, handler[r].step \notin {"idle", "forward"},
         NEW s \in Plain, Goes(r, s)
  PROVE  HandlerMove
  <1>1. handler[r] \in Handler /\ handler[r].install \in Installs
    BY DEF IInv, TypeOK, Wired, InHand
  <1>2. s \in Steps
    BY StepNames DEF Plain
  <1>3. PICK h \in Handler : h = [handler[r] EXCEPT !.step = s]
    BY <1>1, <1>2, Moved
  <1>4. h.step = s /\ h.install = handler[r].install
    BY <1>1, <1>2, <1>3, Moved
  <1>5. InHand(h)'
    BY <1>1, <1>4, PlainHand
  <1> QED BY <1>3, <1>5 DEF Goes, HandlerMove

\* A new grant's token comes after every token a client may hold.
LEMMA NewGrantLast ==
  ASSUME IInv, NEW t \in Tokens, NEW n, CreateGrant(t, n),
         NEW u \in Tokens, token[u].status # "unborn"
  PROVE  t > u
  <1>1. Recorded(u) /\ ~Recorded(t)
    BY DEF IInv, Backed, CreateGrant
  <1>2. ~(t < u) /\ t # u
    BY <1>1 DEF IInv, Numbered
  <1> QED BY <1>2 DEF Tokens

\* The code grant: every handler moves with what it needs in hand.
LEMMA CodeGrantMoves ==
  ASSUME IInv, GrantsOnly, TokensOnly, NEW r \in Requests,
         \/ CreateInstall(r) \/ Claim(r) \/ RecordGrant(r) \/ Compensate(r)
         \/ Fail(r) \/ Finalize(r) \/ StoreToken(r)
  PROVE  HandlerMove
  <1>0. handler[r] \in Handler /\ InHand(handler[r])
    BY DEF IInv, TypeOK, Wired
  <1>1. CASE CreateInstall(r)
    <2>1. handler[r].step = "create" /\ (Goes(r, "claim") \/ Answers(r))
      BY <1>1 DEF CreateInstall, At
    <2> QED BY <2>1, AnswerMove, PlainMove DEF Plain
  <1>2. CASE Claim(r)
    <2>1. CASE Goes(r, "fail")
      <3>1. handler[r].step = "claim"
        BY <1>2 DEF Claim, At
      <3> QED BY <2>1, <3>1, PlainMove DEF Plain
    <2>2. ASSUME NEW i \in Identities,
                 Becomes(r, [handler[r] EXCEPT !.step = "record", !.identity = i])
          PROVE  HandlerMove
      <3>1. "record" \in Steps /\ i \in IdentityId
        BY <2>2, StepNames DEF IdentityId
      <3>2. PICK h \in Handler :
             /\ h = [handler[r] EXCEPT !.step = "record", !.identity = i]
             /\ h.step = "record" /\ h.install = handler[r].install
        BY <1>0, <3>1, MovedIdentity
      <3>3. h.step \in Plain
        BY <3>2 DEF Plain
      <3>4. h.install \in Installs
        BY <1>0, <1>2, <3>2 DEF Claim, At, InHand
      <3>5. InHand(h)'
        BY <3>3, <3>4, PlainHand
      <3> QED BY <2>2, <3>2, <3>5 DEF HandlerMove
    <2> QED BY <1>2, <2>1, <2>2 DEF Claim
  <1>3. CASE RecordGrant(r)
    <2>0. handler[r].step = "record" /\ handler[r].install \in Installs
      BY <1>0, <1>3 DEF RecordGrant, At, InHand
    <2>1. CASE Goes(r, "compensate")
      BY <2>0, <2>1, PlainMove DEF Plain
    <2>2. ASSUME NEW t \in Tokens, CreateGrant(t, handler[r].install),
                 Becomes(r, [handler[r] EXCEPT !.step = "finalize", !.fresh = t])
          PROVE  HandlerMove
      <3>1. PICK g \in Handler : g = handler[r]
        BY <1>0
      <3>2. PICK h : h = [g EXCEPT !.step = "finalize", !.fresh = t]
        OBVIOUS
      <3>3. /\ h \in Handler /\ h.step = "finalize"
            /\ h.fresh = t /\ h.install = handler[r].install
        BY <2>2, <3>1, <3>2 DEF Handler, Steps, TokenId
      <3>6. Becomes(r, h)
        BY <2>2, <3>1, <3>2, Zenon
      <3>4. Recorded(t)' /\ grant'[t].install = handler[r].install
        BY <2>2 DEF CreateGrant, Recorded, IInv, TypeOK, GrantsTypeOK
      <3>5. InHand(h)'
        BY <2>0, <3>3, <3>4 DEF InHand
      <3> QED BY <3>3, <3>5, <3>6 DEF HandlerMove
    <2> QED BY <1>3, <2>1, <2>2 DEF RecordGrant
  <1>4. CASE Compensate(r)
    BY <1>4, PlainMove DEF Compensate, At, Plain
  <1>5. CASE Fail(r) \/ StoreToken(r)
    BY <1>5, AnswerMove DEF Fail, StoreToken
  <1>6. CASE Finalize(r)
    <2>1. handler[r].step = "finalize" /\ Goes(r, "store") /\ "store" \in Steps
      BY <1>6, StepNames DEF Finalize, At
    <2>2. PICK h \in Handler : h = [handler[r] EXCEPT !.step = "store"]
      BY <1>0, <2>1, Moved
    <2>3. h.step = "store" /\ h.install = handler[r].install /\ h.fresh = handler[r].fresh
      BY <1>0, <2>1, <2>2, Moved
    <2>4. InHand(h)
      BY <1>0, <2>1, <2>3 DEF InHand
    <2>5. InHand(h)'
      BY <2>4, HandStays
    <2> QED BY <2>1, <2>2, <2>5 DEF Goes, HandlerMove
  <1> QED BY <1>1, <1>2, <1>3, <1>4, <1>5, <1>6

\* The refresh grant.
LEMMA RefreshGrantMoves ==
  ASSUME IInv, GrantsOnly, TokensOnly, NEW r \in Requests,
         RefreshCheck(r) \/ RerecordGrant(r) \/ Rotate(r)
  PROVE  HandlerMove
  <1>0. handler[r] \in Handler /\ InHand(handler[r])
    BY DEF IInv, TypeOK, Wired
  <1>1. CASE RefreshCheck(r) /\ Goes(r, "rerecord")
    <2>1. handler[r].step = "check" /\ "rerecord" \in Steps
      BY <1>1, StepNames DEF RefreshCheck, At
    <2>2. PICK h \in Handler : h = [handler[r] EXCEPT !.step = "rerecord"]
      BY <1>0, <2>1, Moved
    <2>3. h.step = "rerecord" /\ h.install = handler[r].install /\ h.token = handler[r].token
      BY <1>0, <2>1, <2>2, Moved
    <2>4. InHand(h)
      BY <1>0, <2>1, <2>3 DEF InHand
    <2>5. InHand(h)'
      BY <2>4, HandStays
    <2> QED BY <1>1, <2>2, <2>5 DEF Goes, HandlerMove
  <1>2. CASE Answers(r)
    BY <1>2, AnswerMove
  <1>3. ASSUME RerecordGrant(r), NEW t \in Tokens, CreateGrant(t, handler[r].install),
               Becomes(r, [handler[r] EXCEPT !.step = "rotate", !.fresh = t])
        PROVE  HandlerMove
    <2>0. /\ handler[r].step = "rerecord" /\ handler[r].install \in Installs
          /\ handler[r].token \in Tokens /\ token[handler[r].token].status # "unborn"
          /\ token[handler[r].token].install = handler[r].install
      BY <1>0, <1>3 DEF RerecordGrant, At, InHand
    <2>1. PICK g \in Handler : g = handler[r]
      BY <1>0
    <2>2. PICK h : h = [g EXCEPT !.step = "rotate", !.fresh = t]
      OBVIOUS
    <2>3. /\ h \in Handler /\ h.step = "rotate" /\ h.fresh = t
          /\ h.install = handler[r].install /\ h.token = handler[r].token
      BY <1>3, <2>1, <2>2 DEF Handler, Steps, TokenId
    <2>8. Becomes(r, h)
      BY <1>3, <2>1, <2>2, Zenon
    <2>4. Recorded(t)' /\ grant'[t].install = handler[r].install
      BY <1>3 DEF CreateGrant, Recorded, IInv, TypeOK, GrantsTypeOK
    <2>5. t > h.token
      BY <1>3, <2>0, <2>3, NewGrantLast
    <2>6. token'[h.token].status # "unborn" /\ token'[h.token].install = h.install
      BY <2>0, <2>3 DEF TokensOnly
    <2>7. InHand(h)'
      BY <2>0, <2>3, <2>4, <2>5, <2>6 DEF InHand
    <2> QED BY <2>3, <2>7, <2>8 DEF HandlerMove
  <1>4. CASE Rotate(r)
    <2>1. handler[r].step = "rotate" /\ Goes(r, "store") /\ "store" \in Steps
      BY <1>4, StepNames DEF Rotate, At
    <2>2. PICK h \in Handler : h = [handler[r] EXCEPT !.step = "store"]
      BY <1>0, <2>1, Moved
    <2>3. h.step = "store" /\ h.install = handler[r].install /\ h.fresh = handler[r].fresh
      BY <1>0, <2>1, <2>2, Moved
    <2>4. InHand(h)
      BY <1>0, <2>1, <2>3 DEF InHand
    <2>5. InHand(h)'
      BY <2>4, HandStays
    <2> QED BY <2>1, <2>2, <2>5 DEF Goes, HandlerMove
  <1> QED BY <1>1, <1>2, <1>3, <1>4 DEF RefreshCheck, RerecordGrant

\* Revocation, by administrator, replay or token.
LEMMA RevocationMoves ==
  ASSUME IInv, GrantsOnly, TokensOnly, NEW r \in Requests,
         \/ ReplayRead(r) \/ MarkRevoked(r) \/ RevokeGrantsForInstall(r)
         \/ Release(r) \/ DeleteTokensForInstall(r) \/ RevokeForward(r)
  PROVE  HandlerMove
  <1>0. handler[r] \in Handler /\ InHand(handler[r])
    BY DEF IInv, TypeOK, Wired
  <1>1. CASE ReplayRead(r)
    <2>0. handler[r].step = "replay" /\ handler[r].install \in Installs
      BY <1>0, <1>1 DEF ReplayRead, At, InHand
    <2>1. CASE Goes(r, "grants")
      BY <2>0, <2>1, PlainMove DEF Plain
    <2> DEFINE row == install[handler[r].install]
               s == IF row.status = "revoked" THEN "grants" ELSE "mark"
    <2>2. CASE Becomes(r, [handler[r] EXCEPT !.step = s, !.identity = row.identity])
      <3>1. s \in Plain /\ s \in Steps /\ row.identity \in IdentityId
        BY <2>0, StepNames DEF Plain, IInv, TypeOK, Install
      <3> HIDE DEF s, row
      <3>2. PICK h \in Handler :
             /\ h = [handler[r] EXCEPT !.step = s, !.identity = row.identity]
             /\ h.step = s /\ h.install = handler[r].install
        BY <1>0, <3>1, MovedIdentity
      <3>4. InHand(h)'
        BY <2>0, <3>1, <3>2, PlainHand
      <3> QED BY <2>2, <3>2, <3>4 DEF HandlerMove
    <2> QED BY <1>1, <2>1, <2>2 DEF ReplayRead
  <1>2. CASE MarkRevoked(r)
    <2>1. handler[r].step = "mark" /\ (Goes(r, "grants") \/ Answers(r))
      BY <1>2 DEF MarkRevoked, At
    <2> QED BY <2>1, AnswerMove, PlainMove DEF Plain
  <1>3. CASE RevokeGrantsForInstall(r)
    BY <1>3, PlainMove DEF RevokeGrantsForInstall, At, Plain
  <1>4. CASE Release(r)
    <2>1. handler[r].step = "release" /\ (Goes(r, "delete") \/ Answers(r))
      BY <1>4 DEF Release, At
    <2> QED BY <2>1, AnswerMove, PlainMove DEF Plain
  <1>5. CASE DeleteTokensForInstall(r) \/ RevokeForward(r)
    BY <1>5, AnswerMove DEF DeleteTokensForInstall, RevokeForward
  <1> QED BY <1>1, <1>2, <1>3, <1>4, <1>5

\* A request begins: with an install, or with a token that was read.
LEMMA BeginMoves ==
  ASSUME IInv, GrantsOnly, TokensOnly, NEW r \in Requests,
         \/ \E n \in Installs : CodeConsume(r, n) \/ RevokeInstall(r, n)
         \/ \E t \in Tokens : RefreshGet(r, t) \/ Revoke(r, t)
  PROVE  HandlerMove
  <1>1. ASSUME NEW n \in Installs, CodeConsume(r, n) PROVE HandlerMove
    <2>1. PICK h : h = [Idle EXCEPT !.step = "create", !.install = n]
      OBVIOUS
    <2>2. h \in Handler /\ h.step = "create" /\ h.install = n
      BY <1>1, <2>1 DEF Idle, Handler, Steps, TokenId, IdentityId
    <2>3. InHand(h)'
      BY <1>1, <2>2 DEF InHand
    <2>4. Becomes(r, h) \/ UNCHANGED handler
      BY <1>1, <2>1, Zenon DEF CodeConsume, Begins
    <2> QED BY <2>2, <2>3, <2>4 DEF HandlerMove
  <1>2. ASSUME NEW n \in Installs, RevokeInstall(r, n) PROVE HandlerMove
    <2>1. PICK h : h = [Idle EXCEPT !.step = "mark", !.install = n,
                                    !.identity = install[n].identity]
      OBVIOUS
    <2>2. install[n].identity \in IdentityId
      BY <1>2 DEF IInv, TypeOK, Install
    <2>3. h \in Handler /\ h.step = "mark" /\ h.install = n
      BY <1>2, <2>1, <2>2 DEF Idle, Handler, Steps, TokenId
    <2>4. InHand(h)'
      BY <1>2, <2>3 DEF InHand
    <2>5. Becomes(r, h)
      BY <1>2, <2>1, Zenon DEF RevokeInstall, Begins
    <2> QED BY <2>3, <2>4, <2>5 DEF HandlerMove
  <1>3. ASSUME NEW t \in Tokens, RefreshGet(r, t) PROVE HandlerMove
    <2>1. /\ token[t].status # "unborn" /\ token[t].install \in Installs
          /\ token[t].identity \in IdentityId
      BY <1>3 DEF RefreshGet, Stored, IInv, TypeOK, Token, Backed, Numbered
    <2>2. CASE Becomes(r, [Idle EXCEPT !.step = "replay", !.install = token[t].install,
                                       !.token = t])
      <3>1. PICK h : h = [Idle EXCEPT !.step = "replay", !.install = token[t].install,
                                      !.token = t]
        OBVIOUS
      <3>2. h \in Handler /\ h.step = "replay" /\ h.install = token[t].install
        BY <1>3, <2>1, <3>1 DEF Idle, Handler, Steps, TokenId, IdentityId
      <3>3. InHand(h)'
        BY <2>1, <3>2 DEF InHand
      <3> QED BY <2>2, <3>1, <3>2, <3>3, Zenon DEF HandlerMove
    <2>3. CASE Becomes(r, [Idle EXCEPT !.step = "check", !.install = token[t].install,
                                       !.token = t, !.identity = token[t].identity])
      <3>1. PICK h : h = [Idle EXCEPT !.step = "check", !.install = token[t].install,
                                      !.token = t, !.identity = token[t].identity]
        OBVIOUS
      <3>2. /\ h \in Handler /\ h.step = "check" /\ h.token = t
            /\ h.install = token[t].install
        BY <1>3, <2>1, <3>1 DEF Idle, Handler, Steps, TokenId
      <3>3. token'[t].status # "unborn" /\ token'[t].install = token[t].install
        BY <1>3, <2>1 DEF TokensOnly
      <3>4. InHand(h)'
        BY <1>3, <2>1, <3>2, <3>3 DEF InHand
      <3> QED BY <2>3, <3>1, <3>2, <3>4, Zenon DEF HandlerMove
    <2> QED BY <1>3, <2>2, <2>3, Zenon DEF RefreshGet, Begins
  <1>4. ASSUME NEW t \in Tokens, Revoke(r, t) PROVE HandlerMove
    <2>1. PICK h : h = [Idle EXCEPT !.step = "forward", !.token = t]
      OBVIOUS
    <2>2. h \in Handler /\ h.step = "forward"
      BY <1>4, <2>1 DEF Idle, Handler, Steps, TokenId, IdentityId
    <2>3. InHand(h)'
      BY <2>2, EmptyHand
    <2>4. Becomes(r, h)
      BY <1>4, <2>1, Zenon DEF Revoke, Begins
    <2> QED BY <2>2, <2>3, <2>4 DEF HandlerMove
  <1> QED BY <1>1, <1>2, <1>3, <1>4

\* What an action may do to the handlers.
LEMMA HandlerMoves == IInv /\ Next /\ GrantsOnly /\ TokensOnly => HandlerMove
  <1> SUFFICES ASSUME IInv, Next, GrantsOnly, TokensOnly PROVE HandlerMove
    OBVIOUS
  <1>1. ASSUME NEW r \in Requests, Step(r) PROVE HandlerMove
    BY <1>1, CodeGrantMoves, RefreshGrantMoves, RevocationMoves DEF Step
  <1>2. ASSUME NEW r \in Requests, NEW n \in Installs, CodeConsume(r, n) \/ RevokeInstall(r, n)
        PROVE  HandlerMove
    BY <1>2, BeginMoves
  <1>3. ASSUME NEW r \in Requests, NEW t \in Tokens, RefreshGet(r, t) \/ Revoke(r, t)
        PROVE  HandlerMove
    BY <1>3, BeginMoves
  <1>4. CASE Restart
    BY <1>4 DEF Restart, HandlerMove
  <1>5. CASE \/ PurgeExpired \/ PeerAdmin \/ \E t \in Tokens : ExpireToken(t)
             \/ \E n \in Installs : Authorize(n) \/ Create(n)
    <2>1. UNCHANGED handler
      BY <1>5 DEF PurgeExpired, PeerAdmin, ExpireToken, Authorize, Create
    <2> QED BY <2>1 DEF HandlerMove
  <1> QED BY <1>1, <1>2, <1>3, <1>4, <1>5 DEF Next

\* Handlers keep their type, and what they have in hand.
LEMMA HandlersKept ==
  ASSUME handler \in [Requests -> Handler], Wired, HandlerMove, GrantsOnly, TokensOnly
  PROVE  handler' \in [Requests -> Handler] /\ Wired'
  <1>1. CASE UNCHANGED handler
    <2>1. \A r \in Requests : handler'[r] = handler[r] /\ InHand(handler[r])
      BY <1>1 DEF Wired
    <2>2. ASSUME NEW r \in Requests PROVE InHand(handler[r])'
      <3>1. PICK h : h = handler[r]
        OBVIOUS
      <3>2. InHand(h)'
        BY <2>1, <3>1, HandStays
      <3> QED BY <1>1, <3>1, <3>2 DEF InHand
    <2> QED BY <1>1, <2>2 DEF Wired
  <1>2. CASE handler' = [r \in Requests |-> Idle]
    <2>1. InHand(Idle)'
      BY IdleRecord, EmptyHand
    <2>2. \A r \in Requests : handler'[r] = Idle
      BY <1>2
    <2>3. ASSUME NEW r \in Requests PROVE InHand(handler[r])'
      BY <2>1, <2>2 DEF InHand
    <2> QED BY <1>2, <2>3, IdleRecord DEF Wired
  <1>3. ASSUME NEW r \in Requests, NEW h \in Handler, Becomes(r, h), InHand(h)'
        PROVE  handler' \in [Requests -> Handler] /\ Wired'
    <2>1. handler' \in [Requests -> Handler]
      BY <1>3 DEF Becomes
    <2>2. \A q \in Requests : handler'[q] = IF q = r THEN h ELSE handler[q]
      BY <1>3 DEF Becomes
    <2>3. ASSUME NEW q \in Requests PROVE InHand(handler[q])'
      <3>1. CASE q = r
        BY <1>3, <2>2, <3>1 DEF InHand
      <3>2. CASE q # r
        <4>1. PICK g : g = handler[q]
          OBVIOUS
        <4>2. InHand(g)'
          BY <4>1, HandStays DEF Wired
        <4>3. handler'[q] = g
          BY <2>2, <3>2, <4>1
        <4> QED BY <4>2, <4>3 DEF InHand
      <3> QED BY <3>1, <3>2
    <2> QED BY <2>1, <2>3 DEF Wired
  <1> QED BY <1>1, <1>2, <1>3 DEF HandlerMove

-----------------------------------------------------------------------------
(* The other tables and the histories.                                     *)

CodeMove ==
  \/ UNCHANGED code
  \/ \E n \in Installs, s \in {"pending", "gone"} : code' = [code EXCEPT ![n] = s]
  \/ \E old \in SUBSET Installs :
       code' = [n \in Installs |-> IF n \in old THEN "gone" ELSE code[n]]

InstallMove ==
  \/ UNCHANGED install
  \/ \E n \in Installs, s \in {"pending", "active", "revoked"}, i \in IdentityId :
       UpdateInstall(n, s, i)

HistoryMove ==
  /\ UNCHANGED mishaps \/ \E what \in Trouble : Suffer(what)
  /\ UNCHANGED killed \/ \E n \in Installs : killed' = killed \cup {n}

\* What a request's step may do to them.
LEMMA StepTables ==
  ASSUME IInv, NEW r \in Requests, Step(r)
  PROVE  UNCHANGED code /\ InstallMove /\ HistoryMove
  <1>1. /\ {"lost", "store", "refused"} \subseteq Trouble
        /\ handler[r].identity \in IdentityId /\ 0 \in IdentityId
    BY DEF IInv, TypeOK, Handler, IdentityId, Trouble
  <1>2. handler[r].step \notin {"idle", "forward"} => handler[r].install \in Installs
    BY DEF IInv, Wired, InHand
  <1>3. CASE CreateInstall(r) \/ Fail(r) \/ Finalize(r) \/ MarkRevoked(r)
    <2>1. handler[r].install \in Installs
      BY <1>2, <1>3 DEF CreateInstall, Fail, Finalize, MarkRevoked, At
    <2>2. UNCHANGED code /\ HistoryMove
      BY <1>1, <1>3 DEF CreateInstall, Fail, Finalize, MarkRevoked, HistoryMove
    <2>3. InstallMove
      BY <1>1, <1>3, <2>1 DEF CreateInstall, Fail, Finalize, MarkRevoked, InstallMove
    <2> QED BY <2>2, <2>3
  <1>4. CASE Claim(r) \/ RecordGrant(r) \/ Compensate(r) \/ StoreToken(r)
    BY <1>1, <1>4 DEF Claim, RecordGrant, Compensate, Releases, StoreToken,
                      InstallMove, HistoryMove
  <1>5. CASE RefreshCheck(r) \/ RerecordGrant(r) \/ Rotate(r) \/ ReplayRead(r)
    BY <1>1, <1>5 DEF RefreshCheck, RerecordGrant, Rotate, ReplayRead,
                      InstallMove, HistoryMove
  <1>6. CASE RevokeGrantsForInstall(r) \/ Release(r) \/ RevokeForward(r)
    BY <1>1, <1>6 DEF RevokeGrantsForInstall, Release, Releases, RevokeForward,
                      InstallMove, HistoryMove
  <1>7. CASE DeleteTokensForInstall(r)
    BY <1>1, <1>2, <1>7 DEF DeleteTokensForInstall, At, InstallMove, HistoryMove
  <1> QED BY <1>3, <1>4, <1>5, <1>6, <1>7 DEF Step

\* And any other action.
LEMMA TableMoves == IInv /\ Next => CodeMove /\ InstallMove /\ HistoryMove
  <1> SUFFICES ASSUME IInv, Next PROVE CodeMove /\ InstallMove /\ HistoryMove
    OBVIOUS
  <1>1. ASSUME NEW r \in Requests, Step(r) PROVE CodeMove /\ InstallMove /\ HistoryMove
    BY <1>1, StepTables DEF CodeMove
  <1>2. ASSUME NEW n \in Installs, Authorize(n) \/ Create(n)
        PROVE  CodeMove /\ InstallMove /\ HistoryMove
    BY <1>2 DEF Authorize, Create, IdentityId, CodeMove, InstallMove, HistoryMove
  <1>3. ASSUME NEW r \in Requests, NEW n \in Installs, CodeConsume(r, n) \/ RevokeInstall(r, n)
        PROVE  CodeMove /\ InstallMove /\ HistoryMove
    BY <1>3 DEF CodeConsume, RevokeInstall, Begins, Trouble,
                CodeMove, InstallMove, HistoryMove
  <1>4. ASSUME NEW r \in Requests, NEW t \in Tokens, RefreshGet(r, t) \/ Revoke(r, t)
        PROVE  CodeMove /\ InstallMove /\ HistoryMove
    BY <1>4 DEF RefreshGet, Revoke, Begins, Trouble, CodeMove, InstallMove, HistoryMove
  <1>5. CASE Restart \/ PeerAdmin \/ \E t \in Tokens : ExpireToken(t)
    BY <1>5 DEF Restart, PeerAdmin, ExpireToken, Trouble, CodeMove, InstallMove, HistoryMove
  <1>6. CASE PurgeExpired
    <2>1. PICK old \in SUBSET {n \in Installs : code[n] = "pending"} :
            code' = [n \in Installs |-> IF n \in old THEN "gone" ELSE code[n]]
      BY <1>6 DEF PurgeExpired
    <2>2. old \in SUBSET Installs
      OBVIOUS
    <2> QED BY <1>6, <2>1, <2>2 DEF PurgeExpired, CodeMove, InstallMove, HistoryMove
  <1> QED BY <1>1, <1>2, <1>3, <1>4, <1>5, <1>6 DEF Next

\* They keep their type.
LEMMA TablesKept ==
  ASSUME TypeOK, CodeMove, InstallMove, HistoryMove
  PROVE  /\ code' \in [Installs -> {"unborn", "pending", "gone"}]
         /\ install' \in [Installs -> Install]
         /\ mishaps' \subseteq Trouble /\ killed' \subseteq Installs
  <1>1. code' \in [Installs -> {"unborn", "pending", "gone"}]
    BY DEF TypeOK, CodeMove
  <1>2. install' \in [Installs -> Install]
    BY DEF TypeOK, InstallMove, UpdateInstall, Install
  <1>3. mishaps' \subseteq Trouble /\ killed' \subseteq Installs
    BY DEF TypeOK, HistoryMove, Suffer
  <1> QED BY <1>1, <1>2, <1>3

-----------------------------------------------------------------------------
(* The theorems.                                                           *)

\* Every step of the system, or of its peers alone, preserves the invariant.
LEMMA NextIInv == IInv /\ [Next]_vars => IInv'
  <1> SUFFICES ASSUME IInv, [Next]_vars PROVE IInv'
    OBVIOUS
  <1>1. CASE Next
    <2>1. TypeOK /\ Numbered /\ Backed /\ Wired
      BY DEF IInv
    <2>2. PoolTypeOK'
      BY <1>1, <2>1, PoolMoves, PoolKept DEF TypeOK
    <2>3. GrantsTypeOK' /\ Numbered' /\ GrantsOnly
      BY <1>1, <2>1, GrantMoves, GrantsKept DEF TypeOK
    <2>4. token' \in [Tokens -> Token] /\ Backed' /\ TokensOnly
      BY <1>1, <2>1, <2>3, TokenMoves, TokensKept DEF TypeOK
    <2>5. handler' \in [Requests -> Handler] /\ Wired'
      BY <1>1, <2>1, <2>3, <2>4, HandlerMoves, HandlersKept DEF TypeOK
    <2>6. /\ code' \in [Installs -> {"unborn", "pending", "gone"}]
          /\ install' \in [Installs -> Install]
          /\ mishaps' \subseteq Trouble /\ killed' \subseteq Installs
      BY <1>1, <2>1, TableMoves, TablesKept
    <2>7. TypeOK'
      BY <2>2, <2>3, <2>4, <2>5, <2>6 DEF TypeOK
    <2> QED BY <2>3, <2>4, <2>5, <2>7 DEF IInv
  <1>2. CASE UNCHANGED vars
    <2>1. TypeOK' /\ Numbered' /\ Backed'
      BY <1>2 DEF vars, IInv, TypeOK, PoolTypeOK, GrantsTypeOK, Numbered, Backed,
                  Succeeded, Recorded
    <2>2. Wired'
      BY <1>2 DEF vars, IInv, Wired, InHand, Recorded
    <2> QED BY <2>1, <2>2 DEF IInv
  <1> QED BY <1>1, <1>2

\* The tables and the copies handlers hold keep their shape.
THEOREM TypeCorrect == Spec => []TypeOK
  <1>1. Init => IInv
    BY InitIInv
  <1>2. IInv /\ [Next]_vars => IInv'
    BY NextIInv
  <1>3. IInv => TypeOK
    BY DEF IInv
  <1> QED BY <1>1, <1>2, <1>3, PTL DEF Spec

\* Every stored token has a recorded grant of its install, and a rotated-out
\* one a recorded successor, whatever overlaps and whatever fails: "nothing is
\* rotated until the new grant is recorded".
THEOREM GrantsRecorded == Spec => []GrantForEveryToken
  <1>1. Init => IInv
    BY InitIInv
  <1>2. IInv /\ [Next]_vars => IInv'
    BY NextIInv
  <1>3. IInv => GrantForEveryToken
    BY DEF IInv, Backed, Succeeded, Stored, GrantForEveryToken
  <1> QED BY <1>1, <1>2, <1>3, PTL DEF Spec

\* A revoked identity is never handed out again, by claim or by release.
THEOREM RevokedForGood == Spec => IdentityRevocationFinal
  <1>1. Init => IInv
    BY InitIInv
  <1>2. IInv /\ [Next]_vars => IInv'
    BY NextIInv
  <1>3. IInv /\ [Next]_vars =>
          [\A i \in Identities :
             identity[i].status = "revoked"
               => identity'[i].status \in {"revoked", "deleted"}]_poolVars
    <2> SUFFICES ASSUME IInv, Next, NEW i \in Identities, identity[i].status = "revoked"
                 PROVE  identity'[i].status \in {"revoked", "deleted"} \/ UNCHANGED poolVars
      BY DEF vars, poolVars
    <2>1. PoolMove /\ identity \in [Identities -> Identity]
      BY PoolMoves DEF IInv, TypeOK, PoolTypeOK
    <2>2. CASE DeletePool
      BY <2>1, <2>2 DEF DeletePool, Unclaimed
    <2>3. ASSUME NEW j \in Identities, AddIdentity(j) \/ RevokeIdentity(j)
          PROVE  identity'[i].status \in {"revoked", "deleted"}
      BY <2>1, <2>3 DEF AddIdentity, RevokeIdentity, Unclaimed
    <2>4. ASSUME NEW j \in Identities, NEW n \in Installs, ClaimIdentity(j, n)
          PROVE  identity'[i].status \in {"revoked", "deleted"}
      BY <2>1, <2>4 DEF ClaimIdentity, Available
    <2>5. ASSUME NEW j, ReleaseIdentity(j)
          PROVE  identity'[i].status \in {"revoked", "deleted"}
      BY <2>1, <2>5 DEF ReleaseIdentity, Unclaimed
    <2> QED BY <2>1, <2>2, <2>3, <2>4, <2>5 DEF PoolMove, poolVars
  <1> QED BY <1>1, <1>2, <1>3, PTL DEF Spec, IdentityRevocationFinal

-----------------------------------------------------------------------------
(* One request at a time.  What no two requests at once, no failing store  *)
(* or no trouble at all guarantee is carried by what the one request being *)
(* served still has to do (Standing, Revoking, Holding).                   *)

OneByOne == "overlap" \notin mishaps
StoreWorks == mishaps \cap {"overlap", "store"} = {}

\* Request r is about install n.
About(r, n) == Busy(r) /\ ~At(r, "forward") /\ handler[r].install = n

Alone == OneByOne => \A q, r \in Requests : Busy(q) /\ Busy(r) => q = r

\* An install whose code can still be used is in no table and in no request.
Fresh ==
  \A n \in Installs :
    /\ code[n] = "pending" => install[n].status = "unborn"
    /\ code[n] # "gone" /\ install[n].status = "unborn" =>
         /\ \A r \in Requests : ~About(r, n)
         /\ \A t \in Tokens : grant[t].install # n

Claimed(n) == {i \in Identities : identity[i].claimedBy = n}

\* Its install holds what it claimed.
Covered(n) ==
  \A i \in Claimed(n) : install[n].status = "active" /\ install[n].identity = i

\* A request that grants finds its install not revoked.
Standing(h) ==
  h.step \in {"create", "claim", "record", "finalize", "rerecord"} =>
    install[h.install].status # "revoked"

\* A cascade past its first step left the install revoked.
Revoking(h) ==
  h.step \in {"grants", "release", "delete"} => install[h.install].status = "revoked"

\* Past its second step, it left the grants revoked.
Withdrawn(n) == \A t \in GrantsOf(n) : grant[t].status = "revoked"
Withdrawing(h) == h.step \in {"release", "delete"} => Withdrawn(h.install)

\* Where a claimed identity is, at each step of a request.
Holding(h) ==
  /\ h.step \in {"create", "claim", "fail", "delete"} => Claimed(h.install) = {}
  /\ h.step \in {"record", "compensate", "finalize", "grants", "release"} =>
       Claimed(h.install) \subseteq {h.identity}
  /\ h.step \in {"check", "rerecord", "rotate", "store", "replay", "mark"} =>
       Covered(h.install)
  /\ h.step = "mark" => h.identity = install[h.install].identity

\* Nothing is left of a killed install, and no request is about it.
Dead(n) ==
  /\ install[n].status = "revoked"
  /\ \A t \in Tokens : Stored(t) => token[t].install # n
  /\ \A r \in Requests : ~About(r, n)

Serving ==
  /\ OneByOne => \A r \in Requests : Standing(handler[r])
  /\ StoreWorks => /\ \A r \in Requests : Revoking(handler[r])
                   /\ \A n \in killed : Dead(n)
  /\ mishaps = {} =>
       /\ \A r \in Requests : Withdrawing(handler[r]) /\ Holding(handler[r])
       /\ \A n \in killed : Withdrawn(n)
       /\ \A n \in Installs : (\A r \in Requests : ~About(r, n)) => Covered(n)

SInv == IInv /\ Alone /\ Fresh /\ Serving

-----------------------------------------------------------------------------
(* What a step of the request being served may do to the rest.             *)

\* Tables change for install n only, but for grants that are revoked and
\* identities that are released.
Local(n) ==
  /\ \A m \in Installs : m # n => /\ install'[m] = install[m]
                                  /\ Claimed(m)' \subseteq Claimed(m)
  /\ \A t \in Tokens : Stored(t)' /\ token'[t].install # n =>
       Stored(t) /\ token'[t].install = token[t].install
  /\ \A t \in Tokens : \/ grant'[t] = grant[t]
                       \/ grant'[t].install = n
                       \/ grant'[t].status = "revoked" /\ grant'[t].install = grant[t].install
  /\ UNCHANGED killed \/ killed' = killed \cup {n}

\* A release takes an identity away from whoever holds it.
LEMMA ReleaseClaims ==
  ASSUME PoolTypeOK, NEW i, ReleaseIdentity(i)
  PROVE  \A n \in Installs : Claimed(n)' \subseteq Claimed(n) \ {i}
  BY DEF PoolTypeOK, Identity, ReleaseIdentity, Unclaimed, Claimed

\* A claim gives one that nobody holds.
LEMMA ClaimClaims ==
  ASSUME PoolTypeOK, NEW i \in Identities, NEW n \in Installs, ClaimIdentity(i, n)
  PROVE  /\ Claimed(n)' = Claimed(n) \cup {i}
         /\ \A m \in Installs : m # n => Claimed(m)' = Claimed(m)
  BY DEF PoolTypeOK, Identity, ClaimIdentity, Available, Claimed

\* A best-effort release takes nothing else away; without a mishap it is made.
LEMMA BestEffortRelease ==
  ASSUME PoolTypeOK, NEW i, Releases(i)
  PROVE  /\ \A n \in Installs : Claimed(n)' \subseteq Claimed(n)
         /\ mishaps' = {} => \A n \in Installs : Claimed(n)' \subseteq Claimed(n) \ {i}
  <1>1. CASE ReleaseIdentity(i)
    BY <1>1, ReleaseClaims
  <1>2. CASE Suffer("refused") /\ UNCHANGED <<pool, identity>>
    BY <1>2 DEF Suffer, Claimed
  <1> QED BY <1>1, <1>2 DEF Releases

\* A step of a request about an install changes the tables for that install only.
LEMMA StepsAreLocal ==
  ASSUME IInv, NEW r \in Requests, Step(r), handler[r].step # "forward"
  PROVE  Local(handler[r].install)
  <1> DEFINE n == handler[r].install
  <1>1. /\ PoolTypeOK /\ GrantsTypeOK /\ token \in [Tokens -> Token]
        /\ install \in [Installs -> Install]
    BY DEF IInv, TypeOK
  <1>2. handler[r].step # "idle" => n \in Installs
    BY DEF IInv, Wired, InHand
  <1>3. CASE CreateInstall(r) \/ Fail(r) \/ Finalize(r) \/ MarkRevoked(r)
    <2>1. n \in Installs
      BY <1>2, <1>3 DEF CreateInstall, Fail, Finalize, MarkRevoked, At
    <2>2. UNCHANGED <<pool, identity, grant, token, killed>>
      BY <1>3 DEF CreateInstall, Fail, Finalize, MarkRevoked, peers
    <2>3. \A m \in Installs : m # n => install'[m] = install[m]
      BY <1>1, <1>3, <2>1 DEF CreateInstall, Fail, Finalize, MarkRevoked, UpdateInstall
    <2> QED BY <2>2, <2>3 DEF Local, Claimed, Stored
  <1>4. CASE Claim(r)
    <2>1. n \in Installs /\ UNCHANGED <<grant, install, token, killed>>
      BY <1>2, <1>4 DEF Claim, At
    <2>2. \A m \in Installs : m # n => Claimed(m)' \subseteq Claimed(m)
      BY <1>1, <1>4, <2>1, ClaimClaims DEF Claim, Claimed
    <2> QED BY <2>1, <2>2 DEF Local, Stored
  <1>5. CASE RecordGrant(r) \/ RerecordGrant(r)
    <2>1. n \in Installs /\ UNCHANGED <<identity, install, token, killed>>
      BY <1>2, <1>5 DEF RecordGrant, RerecordGrant, At
    <2>2. UNCHANGED grant \/ \E t \in Tokens : CreateGrant(t, n)
      BY <1>5 DEF RecordGrant, RerecordGrant
    <2>3. \A t \in Tokens : grant'[t] = grant[t] \/ grant'[t].install = n
      BY <1>1, <2>2 DEF CreateGrant, GrantsTypeOK
    <2> QED BY <2>1, <2>3 DEF Local, Claimed, Stored
  <1>6. CASE Compensate(r) \/ Release(r)
    <2>1. UNCHANGED <<grant, install, token, killed>>
      BY <1>6 DEF Compensate, Release
    <2>2. \A m \in Installs : Claimed(m)' \subseteq Claimed(m)
      BY <1>1, <1>6, BestEffortRelease DEF Compensate, Release, Claimed
    <2> QED BY <2>1, <2>2 DEF Local, Stored
  <1>7. CASE StoreToken(r) \/ Rotate(r)
    <2>1. UNCHANGED <<identity, grant, install, killed>>
      BY <1>7 DEF StoreToken, Rotate, peers
    <2>2. \A t \in Tokens : Stored(t)' /\ token'[t].install # n =>
            Stored(t) /\ token'[t].install = token[t].install
      <3>1. CASE StoreToken(r)
        BY <1>1, <3>1 DEF StoreToken, PutToken, Stored
      <3>2. CASE Rotate(r)
        <4>1. handler[r].token \in Tokens /\ token[handler[r].token].install = n
          BY <3>2 DEF Rotate, At, IInv, Wired, InHand
        <4> QED BY <1>1, <3>2, <4>1 DEF Rotate, PutToken, Stored
      <3> QED BY <1>7, <3>1, <3>2
    <2> QED BY <2>1, <2>2 DEF Local, Claimed
  <1>8. CASE RefreshCheck(r) \/ ReplayRead(r)
    BY <1>8 DEF RefreshCheck, ReplayRead, peers, Local, Claimed, Stored
  <1>9. CASE RevokeGrantsForInstall(r)
    <2>1. UNCHANGED <<identity, install, token, killed>>
      BY <1>9 DEF RevokeGrantsForInstall
    <2>2. \A t \in Tokens : grant'[t] = grant[t] \/ grant'[t].install = n
      BY <1>1, <1>9 DEF RevokeGrantsForInstall, RevokeGrants, GrantsOf, GrantsTypeOK, Grant
    <2> QED BY <2>1, <2>2 DEF Local, Claimed, Stored
  <1>10. CASE DeleteTokensForInstall(r)
    <2>1. UNCHANGED <<identity, grant, install>> /\ killed' = killed \cup {n}
      BY <1>10 DEF DeleteTokensForInstall, peers
    <2>2. \A t \in Tokens : Stored(t)' => Stored(t) /\ token'[t].install = token[t].install
      BY <1>1, <1>10 DEF DeleteTokensForInstall, DeleteTokens, TokensOf, Stored, Token
    <2> QED BY <2>1, <2>2 DEF Local, Claimed
  <1>11. ~RevokeForward(r)
    BY DEF RevokeForward, At
  <1> QED BY <1>3, <1>4, <1>5, <1>6, <1>7, <1>8, <1>9, <1>10, <1>11 DEF Step

\* The request goes on about its install, or is over.
Onward(r) ==
  /\ \A q \in Requests : q # r => handler'[q] = handler[q]
  /\ \/ handler'[r].step = "idle"
     \/ /\ handler'[r].step \notin {"idle", "forward"}
        /\ handler'[r].install = handler[r].install

\* Going on, setting a field or two, and answering are such moves.
LEMMA HandlerAnswers ==
  ASSUME handler \in [Requests -> Handler], NEW r \in Requests, Answers(r)
  PROVE  Onward(r) /\ handler'[r].step = "idle"
  BY DEF Answers, Becomes, Idle, Onward

\* Any record that keeps the install and is at a step of a request goes on.
LEMMA HandlerSet ==
  ASSUME handler \in [Requests -> Handler], NEW r \in Requests, NEW h, Becomes(r, h),
         h.step \notin {"idle", "forward"}, h.install = handler[r].install
  PROVE  Onward(r) /\ handler'[r] = h
  BY DEF Becomes, Onward

\* So does a change of step alone,
LEMMA HandlerGoes ==
  ASSUME handler \in [Requests -> Handler], NEW r \in Requests,
         NEW s \in Steps \ {"idle", "forward"}, Goes(r, s)
  PROVE  /\ Onward(r) /\ handler'[r].step = s /\ handler'[r].install = handler[r].install
         /\ handler'[r].identity = handler[r].identity
  <1>1. PICK g \in Handler : g = handler[r]
    OBVIOUS
  <1>2. PICK h : h = [g EXCEPT !.step = s]
    OBVIOUS
  <1>3. h.step = s /\ h.install = g.install /\ h.identity = g.identity
    BY <1>2 DEF Handler
  <1>4. Becomes(r, h)
    BY <1>1, <1>2 DEF Goes
  <1> QED BY <1>1, <1>3, <1>4, HandlerSet

\* with the identity,
LEMMA HandlerGoesWith ==
  ASSUME handler \in [Requests -> Handler], NEW r \in Requests,
         NEW s \in Steps \ {"idle", "forward"}, NEW i,
         Becomes(r, [handler[r] EXCEPT !.step = s, !.identity = i])
  PROVE  /\ Onward(r) /\ handler'[r].step = s /\ handler'[r].install = handler[r].install
         /\ handler'[r].identity = i
  <1>1. PICK g \in Handler : g = handler[r]
    OBVIOUS
  <1>2. PICK h : h = [g EXCEPT !.step = s, !.identity = i]
    OBVIOUS
  <1>3. h.step = s /\ h.install = g.install /\ h.identity = i
    BY <1>2 DEF Handler
  <1>4. Becomes(r, h)
    BY <1>1, <1>2
  <1> QED BY <1>1, <1>3, <1>4, HandlerSet

\* or with the fresh token.
LEMMA HandlerGoesMinted ==
  ASSUME handler \in [Requests -> Handler], NEW r \in Requests,
         NEW s \in Steps \ {"idle", "forward"}, NEW t,
         Becomes(r, [handler[r] EXCEPT !.step = s, !.fresh = t])
  PROVE  /\ Onward(r) /\ handler'[r].step = s /\ handler'[r].install = handler[r].install
         /\ handler'[r].identity = handler[r].identity
  <1>1. PICK g \in Handler : g = handler[r]
    OBVIOUS
  <1>2. PICK h : h = [g EXCEPT !.step = s, !.fresh = t]
    OBVIOUS
  <1>3. h.step = s /\ h.install = g.install /\ h.identity = g.identity
    BY <1>2 DEF Handler
  <1>4. Becomes(r, h)
    BY <1>1, <1>2
  <1> QED BY <1>1, <1>3, <1>4, HandlerSet

\* Every step of a request goes on or answers, and mishaps only add up.
LEMMA StepsGoOn ==
  ASSUME IInv, NEW r \in Requests, Step(r)
  PROVE  Busy(r) /\ Onward(r) /\ mishaps \subseteq mishaps' /\ UNCHANGED code
  <1>0. {"claim", "record", "compensate", "fail", "finalize", "store", "rerecord", "rotate",
         "mark", "grants", "release", "delete"} \subseteq Steps \ {"idle", "forward"}
    BY DEF Steps
  <1>1. handler \in [Requests -> Handler]
    BY DEF IInv, TypeOK
  <1>2. Busy(r) /\ UNCHANGED code
    BY DEF Step, Busy, At, peers, CreateInstall, Claim, RecordGrant, Compensate, Fail,
       Finalize, StoreToken, RefreshCheck, RerecordGrant, Rotate, ReplayRead, MarkRevoked,
       RevokeGrantsForInstall, Release, DeleteTokensForInstall, RevokeForward
  <1>3. mishaps \subseteq mishaps'
    BY DEF Step, Suffer, Releases, CreateInstall, Claim, RecordGrant, Compensate, Fail,
       Finalize, StoreToken, RefreshCheck, RerecordGrant, Rotate, ReplayRead, MarkRevoked,
       RevokeGrantsForInstall, Release, DeleteTokensForInstall, RevokeForward
  <1>4. CASE CreateInstall(r) \/ Compensate(r) \/ Fail(r) \/ Finalize(r) \/ StoreToken(r)
    <2>1. Answers(r) \/ \E s \in {"claim", "fail", "store"} : Goes(r, s)
      BY <1>4 DEF CreateInstall, Compensate, Fail, Finalize, StoreToken
    <2> QED BY <1>0, <1>1, <1>2, <1>3, <2>1, HandlerAnswers, HandlerGoes
  <1>5. CASE Claim(r)
    <2>1. \/ Goes(r, "fail")
          \/ \E i \in Identities :
               Becomes(r, [handler[r] EXCEPT !.step = "record", !.identity = i])
      BY <1>5, Zenon DEF Claim
    <2> QED BY <1>0, <1>1, <1>2, <1>3, <2>1, HandlerGoes, HandlerGoesWith
  <1>6. CASE RecordGrant(r) \/ RerecordGrant(r)
    <2>1. \/ Answers(r) \/ Goes(r, "compensate")
          \/ \E t \in Tokens, s \in {"finalize", "rotate"} :
               Becomes(r, [handler[r] EXCEPT !.step = s, !.fresh = t])
      BY <1>6, Zenon DEF RecordGrant, RerecordGrant
    <2> QED BY <1>0, <1>1, <1>2, <1>3, <2>1, HandlerAnswers, HandlerGoes, HandlerGoesMinted
  <1>7. CASE RefreshCheck(r) \/ Rotate(r) \/ MarkRevoked(r) \/ RevokeGrantsForInstall(r)
    <2>1. Answers(r) \/ \E s \in {"rerecord", "store", "grants", "release"} : Goes(r, s)
      BY <1>7 DEF RefreshCheck, Rotate, MarkRevoked, RevokeGrantsForInstall
    <2> QED BY <1>0, <1>1, <1>2, <1>3, <2>1, HandlerAnswers, HandlerGoes
  <1>8. CASE Release(r) \/ DeleteTokensForInstall(r) \/ RevokeForward(r)
    <2>1. Answers(r) \/ Goes(r, "delete")
      BY <1>8 DEF Release, DeleteTokensForInstall, RevokeForward
    <2> QED BY <1>0, <1>1, <1>2, <1>3, <2>1, HandlerAnswers, HandlerGoes
  <1>9. CASE ReplayRead(r)
    <2>1. PICK s \in {"grants", "mark"} :
            s = IF install[handler[r].install].status = "revoked" THEN "grants" ELSE "mark"
      OBVIOUS
    <2>2. \/ Goes(r, "grants")
          \/ Becomes(r, [handler[r] EXCEPT !.step = s,
                                           !.identity = install[handler[r].install].identity])
      BY <1>9, <2>1, Zenon DEF ReplayRead
    <2> QED BY <1>0, <1>1, <1>2, <1>3, <2>2, HandlerGoes, HandlerGoesWith
  <1> QED BY <1>2, <1>3, <1>4, <1>5, <1>6, <1>7, <1>8, <1>9 DEF Step

-----------------------------------------------------------------------------
(* What the request being served owes after each of its steps.             *)

\* Request r owes what its step requires, and one that is answered leaves its
\* install holding what was claimed for it.
Owes(r) ==
  LET h == handler[r] IN
  /\ OneByOne => Standing(h)
  /\ StoreWorks => Revoking(h)
  /\ mishaps = {} => Withdrawing(h) /\ Holding(h)

\* Without a mishap, what r was about is covered when it is answered.
LeavesCovered(r, n) == (mishaps = {} => (Busy(r) \/ Covered(n)))'

\* The code grant up to its finalization: what it claimed is in hand, recorded
\* or released.
LEMMA GrantStepsOwe ==
  ASSUME IInv, NEW r \in Requests, NEW n \in Installs, handler[r].install = n, Owes(r),
         CreateInstall(r) \/ Claim(r) \/ RecordGrant(r) \/ Compensate(r) \/ Fail(r)
  PROVE  Owes(r)' /\ LeavesCovered(r, n)
  <1>0. {"claim", "record", "compensate", "fail", "finalize"} \subseteq Steps \ {"idle", "forward"}
    BY DEF Steps
  <1>1. handler \in [Requests -> Handler] /\ PoolTypeOK /\ install \in [Installs -> Install]
    BY DEF IInv, TypeOK
  <1>3. CASE CreateInstall(r)
    <2>1. CASE Goes(r, "claim") /\ UpdateInstall(n, "pending", 0) /\ UNCHANGED mishaps
      <3>1. handler'[r].step = "claim" /\ handler'[r].install = n
        BY <1>0, <1>1, <2>1, HandlerGoes
      <3>2. install'[n].status = "pending" /\ Claimed(n)' = Claimed(n)
        BY <1>1, <1>3, <2>1 DEF UpdateInstall, CreateInstall, peers, Claimed
      <3> QED BY <1>3, <2>1, <3>1, <3>2 DEF CreateInstall, At, Owes, Standing, Revoking,
              Withdrawing, Holding, OneByOne, StoreWorks, LeavesCovered, Busy
    <2>2. CASE Suffer("store") /\ Answers(r)
      <3>1. handler'[r].step = "idle" /\ "store" \in mishaps'
        BY <1>1, <2>2, HandlerAnswers DEF Suffer
      <3> QED BY <3>1 DEF Owes, Standing, StoreWorks, LeavesCovered
    <2> QED BY <1>3, <2>1, <2>2 DEF CreateInstall
  <1>4. CASE Claim(r)
    <2>1. CASE Goes(r, "fail")
      <3>1. handler'[r].step = "fail" /\ handler'[r].install = n
        BY <1>0, <1>1, <2>1, HandlerGoes
      <3>2. mishaps' = {} => UNCHANGED <<identity, mishaps>>
        <4>1. \/ \E i \in Identities :
                   Becomes(r, [handler[r] EXCEPT !.step = "record", !.identity = i])
              \/ "lost" \in mishaps'
              \/ UNCHANGED <<identity, mishaps>>
          BY <1>4, Zenon DEF Claim, Suffer
        <4>2. ASSUME NEW i \in Identities,
                     Becomes(r, [handler[r] EXCEPT !.step = "record", !.identity = i])
              PROVE  FALSE
          BY <1>0, <1>1, <3>1, <4>2, HandlerGoesWith
        <4> QED BY <4>1, <4>2
      <3>3. mishaps' = {} => Claimed(n)' = {}
        BY <1>4, <3>2 DEF Claim, At, Owes, Holding, Claimed
      <3> QED BY <3>1, <3>3 DEF Owes, Standing, Revoking, Withdrawing, Holding,
              LeavesCovered, Busy
    <2>2. ASSUME NEW i \in Identities, ClaimIdentity(i, n),
                 Becomes(r, [handler[r] EXCEPT !.step = "record", !.identity = i]),
                 UNCHANGED mishaps
          PROVE  Owes(r)' /\ LeavesCovered(r, n)
      <3>1. /\ handler'[r].step = "record" /\ handler'[r].install = n
            /\ handler'[r].identity = i
        BY <1>0, <1>1, <2>2, HandlerGoesWith
      <3>2. Claimed(n)' = Claimed(n) \cup {i} /\ UNCHANGED install
        BY <1>1, <1>4, <2>2, ClaimClaims DEF Claim
      <3> QED BY <1>4, <2>2, <3>1, <3>2 DEF Claim, At, Owes, Standing, Revoking,
              Withdrawing, Holding, OneByOne, LeavesCovered, Busy
    <2> QED BY <1>4, <2>1, <2>2, Zenon DEF Claim
  <1>5. CASE RecordGrant(r)
    <2>1. \/ Goes(r, "compensate") /\ (UNCHANGED mishaps \/ Suffer("lost"))
          \/ /\ UNCHANGED mishaps
             /\ \E t \in Tokens : Becomes(r, [handler[r] EXCEPT !.step = "finalize", !.fresh = t])
      BY <1>5, Zenon DEF RecordGrant
    <2>2. /\ handler'[r].step \in {"compensate", "finalize"} /\ handler'[r].install = n
          /\ handler'[r].identity = handler[r].identity
      BY <1>0, <1>1, <2>1, HandlerGoes, HandlerGoesMinted
    <2>3. UNCHANGED <<install, identity>> /\ mishaps \subseteq mishaps'
      BY <1>5, <2>1 DEF RecordGrant, Suffer
    <2>4. Claimed(n)' = Claimed(n)
      BY <2>3 DEF Claimed
    <2> QED BY <1>5, <2>2, <2>3, <2>4 DEF RecordGrant, At, Owes, Standing, Revoking,
            Withdrawing, Holding, OneByOne, LeavesCovered, Busy
  <1>6. CASE Compensate(r)
    <2>1. handler'[r].step = "fail" /\ handler'[r].install = n
      BY <1>0, <1>1, <1>6, HandlerGoes DEF Compensate
    <2>2. mishaps' = {} => mishaps = {} /\ Claimed(n)' \subseteq Claimed(n) \ {handler[r].identity}
      BY <1>1, <1>6, BestEffortRelease DEF Compensate, Releases, Suffer
    <2>3. mishaps = {} => Claimed(n) \subseteq {handler[r].identity}
      BY <1>6 DEF Owes, Holding, Compensate, At
    <2> QED BY <2>1, <2>2, <2>3 DEF Owes, Standing, Revoking, Withdrawing, Holding,
            LeavesCovered, Busy
  <1>7. CASE Fail(r)
    <2>1. handler'[r].step = "idle" /\ UNCHANGED identity /\ mishaps \subseteq mishaps'
      BY <1>1, <1>7, HandlerAnswers DEF Fail, peers, Suffer
    <2>2. mishaps' = {} => Covered(n)'
      BY <1>7, <2>1 DEF Owes, Holding, Fail, At, Claimed, Covered
    <2> QED BY <2>1, <2>2 DEF Owes, Standing, Revoking, Withdrawing, Holding, LeavesCovered
  <1> QED BY <1>3, <1>4, <1>5, <1>6, <1>7

\* The refresh grant and the last steps of both.
LEMMA RefreshStepsOwe ==
  ASSUME IInv, NEW r \in Requests, NEW n \in Installs, handler[r].install = n, Owes(r),
         Finalize(r) \/ StoreToken(r) \/ RefreshCheck(r) \/ RerecordGrant(r) \/ Rotate(r)
  PROVE  Owes(r)' /\ LeavesCovered(r, n)
  <1>0. {"store", "rerecord", "rotate"} \subseteq Steps \ {"idle", "forward"}
    BY DEF Steps
  <1>1. handler \in [Requests -> Handler] /\ install \in [Installs -> Install]
    BY DEF IInv, TypeOK
  <1>2. CASE Finalize(r)
    <2>1. handler'[r].step = "store" /\ handler'[r].install = n
      BY <1>0, <1>1, <1>2, HandlerGoes DEF Finalize
    <2>2. mishaps' = {} => /\ install'[n] = [status |-> "active", identity |-> handler[r].identity]
                           /\ mishaps = {} /\ Claimed(n)' = Claimed(n)
      BY <1>1, <1>2 DEF Finalize, Suffer, UpdateInstall, peers, Claimed
    <2>3. mishaps = {} => Claimed(n) \subseteq {handler[r].identity}
      BY <1>2 DEF Owes, Holding, Finalize, At
    <2>4. mishaps' = {} => Covered(n)'
      BY <2>2, <2>3 DEF Covered
    <2> QED BY <2>1, <2>4 DEF Owes, Standing, Revoking, Withdrawing, Holding,
            LeavesCovered, Busy
  <1>3. ASSUME handler[r].step \in {"check", "rerecord", "rotate", "store"},
               UNCHANGED <<identity, install>>, mishaps \subseteq mishaps'
        PROVE  mishaps' = {} => Covered(n)'
    BY <1>3 DEF Owes, Holding, Covered, Claimed
  <1>4. CASE StoreToken(r)
    <2>1. handler'[r].step = "idle"
      BY <1>1, <1>4, HandlerAnswers DEF StoreToken
    <2>2. mishaps' = {} => Covered(n)'
      BY <1>3, <1>4 DEF StoreToken, At, peers, Suffer
    <2> QED BY <2>1, <2>2 DEF Owes, Standing, Revoking, Withdrawing, Holding, LeavesCovered
  <1>5. CASE RefreshCheck(r)
    <2>1. \/ handler'[r].step = "idle"
          \/ /\ handler'[r].step = "rerecord" /\ handler'[r].install = n
             /\ install[n].status = "active"
      BY <1>0, <1>1, <1>5, HandlerAnswers, HandlerGoes DEF RefreshCheck
    <2>2. UNCHANGED install /\ (mishaps' = {} => Covered(n)')
      BY <1>3, <1>5 DEF RefreshCheck, At, peers
    <2> QED BY <2>1, <2>2 DEF Owes, Standing, Revoking, Withdrawing, Holding, LeavesCovered, Busy
  <1>6. CASE RerecordGrant(r)
    <2>1. \/ Answers(r)
          \/ \E t \in Tokens : Becomes(r, [handler[r] EXCEPT !.step = "rotate", !.fresh = t])
      BY <1>6, Zenon DEF RerecordGrant
    <2>2. handler'[r].step = "idle" \/ (handler'[r].step = "rotate" /\ handler'[r].install = n)
      <3>1. "rotate" \in Steps \ {"idle", "forward"}
        BY <1>0
      <3>2. ASSUME NEW t \in Tokens,
                   Becomes(r, [handler[r] EXCEPT !.step = "rotate", !.fresh = t])
            PROVE  handler'[r].step = "rotate" /\ handler'[r].install = n
        BY <1>1, <3>1, <3>2, HandlerGoesMinted
      <3> QED BY <1>1, <2>1, <3>2, HandlerAnswers
    <2>3. mishaps' = {} => Covered(n)'
      BY <1>3, <1>6 DEF RerecordGrant, At, Suffer
    <2> QED BY <2>2, <2>3 DEF Owes, Standing, Revoking, Withdrawing, Holding, LeavesCovered, Busy
  <1>7. CASE Rotate(r)
    <2>1. handler'[r].step = "store" /\ handler'[r].install = n
      BY <1>0, <1>1, <1>7, HandlerGoes DEF Rotate
    <2>2. mishaps' = {} => Covered(n)'
      BY <1>3, <1>7 DEF Rotate, At, peers, Suffer
    <2> QED BY <2>1, <2>2 DEF Owes, Standing, Revoking, Withdrawing, Holding, LeavesCovered, Busy
  <1> QED BY <1>2, <1>4, <1>5, <1>6, <1>7

\* The cascade reaches each of its steps with the work of the step before done.
LEMMA CascadeStepsOwe ==
  ASSUME IInv, NEW r \in Requests, NEW n \in Installs, handler[r].install = n, Owes(r),
         ReplayRead(r) \/ MarkRevoked(r) \/ RevokeGrantsForInstall(r) \/ Release(r)
  PROVE  Owes(r)' /\ LeavesCovered(r, n)
  <1>0. {"mark", "grants", "release", "delete"} \subseteq Steps \ {"idle", "forward"}
    BY DEF Steps
  <1>1. /\ handler \in [Requests -> Handler] /\ install \in [Installs -> Install]
        /\ PoolTypeOK /\ GrantsTypeOK
    BY DEF IInv, TypeOK
  <1>2. CASE ReplayRead(r)
    <2>0. UNCHANGED <<identity, install>> /\ mishaps \subseteq mishaps'
      BY <1>2 DEF ReplayRead, peers, Suffer
    <2>1. mishaps' = {} => Covered(n)'
      BY <1>2, <2>0 DEF ReplayRead, At, Owes, Holding, Covered, Claimed
    <2>2. CASE Goes(r, "grants") /\ Suffer("store")
      <3>1. handler'[r].step = "grants" /\ "store" \in mishaps'
        BY <1>0, <1>1, <2>2, HandlerGoes DEF Suffer
      <3> QED BY <3>1 DEF Owes, Standing, StoreWorks, LeavesCovered, Busy
    <2>3. CASE ~(Goes(r, "grants") /\ Suffer("store"))
      <3>1. PICK s \in {"grants", "mark"} :
              s = IF install[n].status = "revoked" THEN "grants" ELSE "mark"
        OBVIOUS
      <3>2. Becomes(r, [handler[r] EXCEPT !.step = s, !.identity = install[n].identity])
        BY <1>2, <2>3, <3>1, Zenon DEF ReplayRead
      <3>3. /\ handler'[r].step = s /\ handler'[r].install = n
            /\ handler'[r].identity = install[n].identity
        <4>1. s \in Steps \ {"idle", "forward"}
          BY <1>0
        <4> QED BY <1>1, <3>2, <4>1, HandlerGoesWith
      <3>4. mishaps' = {} /\ s = "grants" => Claimed(n)' = {}
        BY <2>0, <2>1, <3>1 DEF Covered
      <3> QED BY <2>0, <2>1, <3>1, <3>3, <3>4 DEF Owes, Standing, Revoking, Withdrawing,
              Holding, LeavesCovered, Busy
    <2> QED BY <2>2, <2>3
  <1>3. CASE MarkRevoked(r)
    <2>1. CASE Suffer("store")
      <3>1. "store" \in mishaps'
        BY <2>1 DEF Suffer
      <3>2. handler'[r].step \in {"idle", "grants"}
        BY <1>0, <1>1, <1>3, HandlerAnswers, HandlerGoes DEF MarkRevoked
      <3> QED BY <3>1, <3>2 DEF Owes, Standing, StoreWorks, LeavesCovered
    <2>2. CASE /\ UpdateInstall(n, "revoked", handler[r].identity)
               /\ Goes(r, "grants") /\ UNCHANGED mishaps
      <3>1. /\ handler'[r].step = "grants" /\ handler'[r].install = n
            /\ handler'[r].identity = handler[r].identity
        BY <1>0, <1>1, <2>2, HandlerGoes
      <3>2. install'[n].status = "revoked" /\ Claimed(n)' = Claimed(n)
        BY <1>1, <1>3, <2>2 DEF UpdateInstall, MarkRevoked, peers, Claimed
      <3>3. mishaps = {} => Claimed(n) \subseteq {handler[r].identity}
        BY <1>3 DEF Owes, Holding, MarkRevoked, At, Covered
      <3> QED BY <2>2, <3>1, <3>2, <3>3 DEF Owes, Standing, Revoking, Withdrawing, Holding,
              LeavesCovered, Busy
    <2> QED BY <1>3, <2>1, <2>2 DEF MarkRevoked
  <1>4. CASE RevokeGrantsForInstall(r)
    <2>1. /\ handler'[r].step = "release" /\ handler'[r].install = n
          /\ handler'[r].identity = handler[r].identity
      BY <1>0, <1>1, <1>4, HandlerGoes DEF RevokeGrantsForInstall
    <2>2. /\ UNCHANGED install /\ mishaps \subseteq mishaps' /\ Claimed(n)' = Claimed(n)
          /\ mishaps' = {} => RevokeGrants(GrantsOf(n))
      BY <1>4 DEF RevokeGrantsForInstall, Suffer, Claimed
    <2>3. mishaps' = {} => Withdrawn(n)'
      BY <1>1, <2>2 DEF RevokeGrants, GrantsOf, Withdrawn, GrantsTypeOK, Grant
    <2>4. handler[r].step = "grants"
      BY <1>4 DEF RevokeGrantsForInstall, At
    <2>5. mishaps' = {} => Holding(handler[r])'
      BY <2>1, <2>2, <2>4 DEF Owes, Holding
    <2>6. StoreWorks' => Revoking(handler[r])'
      BY <2>1, <2>2, <2>4 DEF Owes, StoreWorks, Revoking
    <2> QED BY <2>1, <2>3, <2>5, <2>6 DEF Owes, Standing, Withdrawing, LeavesCovered, Busy
  <1>5. CASE Release(r)
    <2>1. \/ handler'[r].step = "idle"
          \/ handler'[r].step = "delete" /\ handler'[r].install = n
      BY <1>0, <1>1, <1>5, HandlerAnswers, HandlerGoes DEF Release
    <2>2. UNCHANGED <<install, grant>> /\ mishaps \subseteq mishaps'
      BY <1>5 DEF Release, Releases, Suffer
    <2>3. mishaps = {} => Claimed(n) \subseteq {handler[r].identity}
      BY <1>5 DEF Release, At, Owes, Holding
    <2>4. mishaps' = {} => Claimed(n)' = {}
      <3>1. CASE Owed(r) = 0
        <4>1. UNCHANGED identity /\ handler[r].identity = 0
          BY <1>5, <3>1 DEF Release, Owed
        <4> QED BY <2>2, <2>3, <4>1 DEF Claimed, Identities
      <3>2. CASE Owed(r) # 0
        <4>1. Releases(Owed(r))
          BY <1>5, <3>2 DEF Release
        <4>2. mishaps' = {} => Claimed(n)' \subseteq Claimed(n) \ {Owed(r)}
          BY <1>1, <4>1, BestEffortRelease
        <4>3. Owed(r) = handler[r].identity \/ handler[r].identity = 0
          BY DEF Owed
        <4>4. 0 \notin Claimed(n)
          BY DEF Claimed, Identities
        <4> QED BY <2>2, <2>3, <4>2, <4>3, <4>4
      <3> QED BY <3>1, <3>2
    <2>5. handler[r].step = "release"
      BY <1>5 DEF Release, At
    <2>6. mishaps' = {} => Covered(n)' /\ Withdrawn(n)'
      BY <2>2, <2>4, <2>5 DEF Covered, Owes, Withdrawing, Withdrawn, GrantsOf
    <2>7. StoreWorks' => install'[n].status = "revoked"
      BY <2>2, <2>5 DEF Owes, StoreWorks, Revoking
    <2> QED BY <2>1, <2>4, <2>6, <2>7 DEF Owes, Standing, Revoking, Withdrawing, Holding,
            LeavesCovered, Busy
  <1> QED BY <1>2, <1>3, <1>4, <1>5

\* The last step of a replay's cascade leaves nothing.
LEMMA DeleteLeavesNothing ==
  ASSUME IInv, NEW r \in Requests, NEW n \in Installs, handler[r].install = n, Owes(r),
         DeleteTokensForInstall(r)
  PROVE  /\ Owes(r)' /\ LeavesCovered(r, n)
         /\ StoreWorks' => /\ install'[n].status = "revoked"
                           /\ \A t \in Tokens : Stored(t)' => token'[t].install # n
         /\ mishaps' = {} => Withdrawn(n)'
  <1>1. handler \in [Requests -> Handler] /\ token \in [Tokens -> Token]
    BY DEF IInv, TypeOK
  <1>2. handler[r].step = "delete" /\ handler'[r].step = "idle"
    BY <1>1, HandlerAnswers DEF DeleteTokensForInstall, At
  <1>3. UNCHANGED <<identity, install, grant>> /\ mishaps \subseteq mishaps'
    BY DEF DeleteTokensForInstall, peers, Suffer
  <1>4. mishaps' = {} => Covered(n)' /\ Withdrawn(n)'
    BY <1>2, <1>3 DEF Owes, Holding, Withdrawing, Covered, Claimed, Withdrawn, GrantsOf
  <1>5. StoreWorks' => install'[n].status = "revoked"
    BY <1>2, <1>3 DEF Owes, Revoking, StoreWorks
  <1>6. StoreWorks' => DeleteTokens(TokensOf(n), "revoked")
    BY DEF DeleteTokensForInstall, Suffer, StoreWorks
  <1>7. StoreWorks' => \A t \in Tokens : Stored(t)' => token'[t].install # n
    BY <1>1, <1>6 DEF DeleteTokens, TokensOf, Stored, Token
  <1> QED BY <1>2, <1>4, <1>5, <1>7 DEF Owes, Standing, Revoking, Withdrawing, Holding,
          LeavesCovered

-----------------------------------------------------------------------------
(* Steps of requests keep the invariant.                                   *)

\* A grant forwarded to grant-service is about no install.
LEMMA ForwardKeeps ==
  ASSUME SInv, NEW r \in Requests, RevokeForward(r)
  PROVE  Alone' /\ Fresh' /\ Serving'
  <1>1. handler \in [Requests -> Handler] /\ GrantsTypeOK
    BY DEF SInv, IInv, TypeOK
  <1>2. /\ \A q \in Requests : q # r => handler'[q] = handler[q]
        /\ handler[r].step = "forward" /\ handler'[r].step = "idle"
        /\ mishaps \subseteq mishaps'
        /\ UNCHANGED <<identity, code, install, token, killed>>
    BY <1>1 DEF RevokeForward, At, Answers, Becomes, Idle, Suffer
  <1>3. \A t \in Tokens : \/ grant'[t] = grant[t]
                          \/ grant'[t].status = "revoked" /\ grant'[t].install = grant[t].install
    BY <1>1 DEF RevokeForward, RevokeGrant, GrantsTypeOK, Grant
  <1>4. \A q \in Requests, n \in Installs : About(q, n)' <=> About(q, n)
    BY <1>2 DEF About, Busy, At
  <1>5. Alone'
    BY <1>2 DEF SInv, Alone, OneByOne, Busy
  <1>6. Fresh'
    BY <1>2, <1>3, <1>4 DEF SInv, Fresh
  <1>7. ASSUME OneByOne', NEW q \in Requests
        PROVE  /\ Standing(handler[q])' /\ Revoking(handler[q])'
               /\ Withdrawing(handler[q])' /\ Holding(handler[q])'
    <2>1. handler'[q].step = "idle"
      BY <1>2, <1>7 DEF SInv, Alone, OneByOne, Busy
    <2> QED BY <2>1 DEF Standing, Revoking, Withdrawing, Holding
  <1>8. StoreWorks' => \A n \in killed' : Dead(n)'
    BY <1>2, <1>4 DEF SInv, IInv, TypeOK, Serving, StoreWorks, Dead, Stored
  <1>9. mishaps' = {} => \A n \in killed' : Withdrawn(n)'
    BY <1>2, <1>3 DEF SInv, Serving, Withdrawn, GrantsOf
  <1>10. mishaps' = {} =>
           \A n \in Installs : (\A q \in Requests : ~About(q, n)') => Covered(n)'
    BY <1>2, <1>4 DEF SInv, Serving, Covered, Claimed
  <1> QED BY <1>5, <1>6, <1>7, <1>8, <1>9, <1>10 DEF Serving, StoreWorks, OneByOne

\* No other request is served meanwhile.
LEMMA OthersIdle ==
  ASSUME Alone, NEW r \in Requests, Busy(r), mishaps \subseteq mishaps', OneByOne', Onward(r)
  PROVE  \A q \in Requests : q # r => handler[q].step = "idle" /\ handler'[q].step = "idle"
  BY DEF Alone, OneByOne, Busy, Onward

\* A request that names an install keeps its code from being used.
LEMMA StepKeepsFresh ==
  ASSUME IInv, Fresh, NEW r \in Requests, NEW n \in Installs, handler[r].install = n,
         Step(r), handler[r].step # "forward"
  PROVE  Fresh'
  <1>1. Busy(r) /\ Onward(r) /\ UNCHANGED code /\ Local(n)
    BY StepsGoOn, StepsAreLocal
  <1>2. install'[n] = install[n] \/ install'[n].status # "unborn"
    BY StepTables DEF InstallMove, UpdateInstall, IInv, TypeOK
  <1>3. About(r, n)
    BY <1>1 DEF About, At
  <1>4. code[n] = "gone" \/ (code[n] # "pending" /\ install[n].status # "unborn")
    BY <1>3 DEF Fresh
  <1>5. \A q \in Requests, m \in Installs : m # n /\ About(q, m)' => About(q, m)
    BY <1>1 DEF About, Busy, At, Onward
  <1>6. \A m \in Installs, t \in Tokens : m # n /\ grant'[t].install = m => grant[t].install = m
    BY <1>1 DEF Local
  <1>7. \A m \in Installs : m # n => install'[m] = install[m]
    BY <1>1 DEF Local
  <1> QED BY <1>1, <1>2, <1>4, <1>5, <1>6, <1>7 DEF Fresh

\* What requests owe is kept by each of their steps.
LEMMA StepKeepsServing ==
  ASSUME SInv, NEW r \in Requests, NEW n \in Installs, handler[r].install = n,
         Step(r), handler[r].step # "forward"
  PROVE  Serving'
  <1>1. /\ Busy(r) /\ Onward(r) /\ mishaps \subseteq mishaps' /\ Local(n)
        /\ About(r, n)
    BY StepsGoOn, StepsAreLocal DEF SInv, About, At
  <1>2. OneByOne' => \A q \in Requests : q # r =>
                       handler[q].step = "idle" /\ handler'[q].step = "idle"
    BY <1>1, OthersIdle DEF SInv
  <1>3. Owes(r)
    BY DEF SInv, Serving, Owes
  <1>4. Owes(r)' /\ LeavesCovered(r, n)
    BY <1>3, GrantStepsOwe, RefreshStepsOwe, CascadeStepsOwe, DeleteLeavesNothing
       DEF SInv, Step, RevokeForward, At
  <1>5. ASSUME OneByOne', NEW q \in Requests, q # r
        PROVE  /\ Standing(handler[q])' /\ Revoking(handler[q])'
               /\ Withdrawing(handler[q])' /\ Holding(handler[q])'
    BY <1>2, <1>5 DEF Standing, Revoking, Withdrawing, Holding
  <1>6. StoreWorks' => n \notin killed
    BY <1>1 DEF SInv, Serving, StoreWorks, Dead
  <1>7. killed' # killed => DeleteTokensForInstall(r) /\ killed' = killed \cup {n}
    BY DEF Step, CreateInstall, Claim, RecordGrant, Compensate, Fail, Finalize, StoreToken,
       RefreshCheck, RerecordGrant, Rotate, ReplayRead, MarkRevoked, RevokeGrantsForInstall,
       Release, DeleteTokensForInstall, RevokeForward
  <1>8. killed \subseteq Installs
    BY DEF SInv, IInv, TypeOK
  <1>9. ASSUME StoreWorks', NEW m \in killed'
        PROVE  Dead(m)' /\ (mishaps' = {} => Withdrawn(m)')
    <2>1. CASE m = n
      <3>1. DeleteTokensForInstall(r)
        BY <1>6, <1>7, <1>9, <2>1
      <3>2. handler'[r].step = "idle"
        BY <3>1, HandlerAnswers DEF DeleteTokensForInstall, SInv, IInv, TypeOK
      <3>3. \A q \in Requests : ~About(q, n)'
        BY <1>2, <1>9, <3>2 DEF About, Busy, StoreWorks, OneByOne
      <3> QED BY <1>3, <1>9, <2>1, <3>1, <3>3, DeleteLeavesNothing DEF SInv, Dead
    <2>2. CASE m # n
      <3>1. m \in killed /\ m \in Installs
        BY <1>7, <1>8, <1>9, <2>2
      <3>2. Dead(m) /\ (mishaps' = {} => Withdrawn(m))
        BY <1>1, <1>9, <3>1 DEF SInv, Serving, StoreWorks
      <3>3. install'[m] = install[m] /\ \A t \in Tokens : Stored(t)' => token'[t].install # m
        BY <1>1, <2>2, <3>1, <3>2 DEF Local, Dead
      <3>4. \A q \in Requests : ~About(q, m)'
        BY <1>1, <1>2, <1>9, <2>2 DEF About, Busy, Onward, StoreWorks, OneByOne
      <3>5. mishaps' = {} => Withdrawn(m)'
        BY <1>1, <2>2, <3>1, <3>2 DEF Local, Withdrawn, GrantsOf
      <3> QED BY <3>2, <3>3, <3>4, <3>5 DEF Dead
    <2> QED BY <2>1, <2>2
  <1>10. ASSUME mishaps' = {}, NEW m \in Installs, \A q \in Requests : ~About(q, m)'
         PROVE  Covered(m)'
    <2>1. CASE m = n
      <3>1. ~Busy(r)'
        BY <1>1, <1>10, <2>1 DEF Onward, About, Busy, At
      <3> QED BY <1>4, <1>10, <2>1, <3>1 DEF LeavesCovered
    <2>2. CASE m # n
      <3>1. \A q \in Requests : ~About(q, m)
        BY <1>2, <1>10, <2>2 DEF About, Busy, OneByOne
      <3>2. Covered(m)
        BY <1>1, <1>10, <3>1 DEF SInv, Serving
      <3> QED BY <1>1, <2>2, <3>2 DEF Local, Covered
    <2> QED BY <2>1, <2>2
  <1> QED BY <1>4, <1>5, <1>9, <1>10 DEF Serving, Owes, OneByOne, StoreWorks

\* The sequential invariant is kept by each step of a request,
LEMMA StepKeeps ==
  ASSUME SInv, NEW r \in Requests, Step(r)
  PROVE  Alone' /\ Fresh' /\ Serving'
  <1>1. CASE handler[r].step = "forward"
    <2>1. RevokeForward(r)
      BY <1>1 DEF Step, At, CreateInstall, Claim, RecordGrant, Compensate, Fail,
         Finalize, StoreToken, RefreshCheck, RerecordGrant, Rotate, ReplayRead,
         MarkRevoked, RevokeGrantsForInstall, Release, DeleteTokensForInstall
    <2> QED BY <2>1, ForwardKeeps
  <1>2. CASE handler[r].step # "forward"
    <2>1. Busy(r) /\ Onward(r) /\ mishaps \subseteq mishaps'
      BY StepsGoOn DEF SInv
    <2>2. handler[r].install \in Installs
      BY <1>2, <2>1 DEF SInv, IInv, Wired, InHand, Busy
    <2>3. Alone'
      BY <2>1 DEF SInv, Alone, OneByOne, Busy, Onward
    <2> QED BY <1>2, <2>2, <2>3, StepKeepsFresh, StepKeepsServing DEF SInv
  <1> QED BY <1>1, <1>2

-----------------------------------------------------------------------------
(* So do requests that begin, and everything that is no request.           *)

\* Rows of tokens may only go, and codes may only be used up.
Dwindles ==
  /\ \A t \in Tokens : Stored(t)' => Stored(t) /\ token'[t].install = token[t].install
  /\ \A n \in Installs : code'[n] = code[n] \/ code'[n] = "gone"

\* What a request may begin with.
Ready(h, n) ==
  /\ h.step \in {"create", "replay", "check", "mark"} /\ h.install = n
  /\ code'[n] = "gone" \/ install[n].status # "unborn"
  /\ OneByOne => Standing(h)
  /\ StoreWorks => ~Dead(n)
  /\ mishaps = {} /\ Covered(n) => Holding(h)

\* by one that begins with something to do that its row allows,
LEMMA BeginKeeps ==
  ASSUME SInv, NEW r \in Requests, NEW h, Begins(r, h), Dwindles,
         UNCHANGED <<identity, grant, install, killed>>,
         h.step = "forward" \/ \E n \in Installs : Ready(h, n)
  PROVE  Alone' /\ Fresh' /\ Serving'
  <1>1. /\ handler'[r] = h /\ mishaps \subseteq mishaps'
        /\ \A q \in Requests : q # r => handler'[q] = handler[q]
        /\ \A n \in Installs : ~About(r, n)
    BY DEF SInv, IInv, TypeOK, Begins, Becomes, Suffer, About
  <1>2. OneByOne' => \A q \in Requests : handler[q].step = "idle"
    BY DEF Begins, Busy, OneByOne, Suffer
  <1>3. Alone'
    BY <1>1, <1>2 DEF Alone, OneByOne, Busy
  <1>4. \A q \in Requests, n \in Installs : About(q, n)' => About(q, n) \/ (q = r /\ Ready(h, n))
    BY <1>1 DEF About, Busy, At, Ready
  <1>5. Fresh'
    BY <1>4 DEF SInv, Fresh, Dwindles, Ready
  <1>6. ASSUME OneByOne', NEW q \in Requests, q # r
        PROVE  /\ Standing(handler[q])' /\ Revoking(handler[q])'
               /\ Withdrawing(handler[q])' /\ Holding(handler[q])'
    <2>1. handler'[q].step = "idle"
      BY <1>1, <1>2, <1>6
    <2> QED BY <2>1 DEF Standing, Revoking, Withdrawing, Holding
  <1>7. OneByOne' => \A q \in Requests, n \in Installs : ~About(q, n)
    BY <1>2 DEF About, Busy
  <1>8. OneByOne' => OneByOne /\ Standing(handler[r])'
    BY <1>1 DEF OneByOne, Ready, Standing
  <1>9. StoreWorks' => StoreWorks /\ OneByOne' /\ Revoking(handler[r])'
    BY <1>1 DEF StoreWorks, OneByOne, Ready, Revoking
  <1>10. mishaps' = {} => mishaps = {} /\ StoreWorks' /\ Withdrawing(handler[r])'
    BY <1>1 DEF StoreWorks, OneByOne, Ready, Withdrawing
  <1>11. mishaps' = {} => \A n \in Installs : Covered(n) /\ Covered(n)'
    BY <1>7, <1>9, <1>10 DEF SInv, Serving, Covered, Claimed
  <1>12. mishaps' = {} => Holding(handler[r])'
    <2>1. mishaps' = {} /\ h.step # "forward" => Holding(h)
      BY <1>10, <1>11 DEF Ready
    <2> QED BY <1>1, <2>1 DEF Holding, Covered, Claimed
  <1>13. ASSUME StoreWorks', NEW n \in killed'
         PROVE  Dead(n)' /\ (mishaps' = {} => Withdrawn(n)')
    <2>1. n \in Installs /\ Dead(n) /\ (mishaps' = {} => Withdrawn(n))
      BY <1>9, <1>10, <1>13 DEF SInv, IInv, TypeOK, Serving
    <2>2. \A q \in Requests : ~About(q, n)'
      BY <1>4, <1>7, <1>9, <1>13, <2>1 DEF Ready
    <2> QED BY <2>1, <2>2 DEF Dead, Withdrawn, GrantsOf, Dwindles
  <1> QED BY <1>3, <1>5, <1>6, <1>8, <1>9, <1>10, <1>11, <1>12, <1>13 DEF Serving

\* as the first store call of every request does.
LEMMA RequestsBegin ==
  ASSUME SInv, NEW r \in Requests,
         \/ \E n \in Installs : \/ CodeConsume(r, n) /\ ~UNCHANGED handler
                                \/ RevokeInstall(r, n)
         \/ \E t \in Tokens : RefreshGet(r, t) \/ Revoke(r, t)
  PROVE  Alone' /\ Fresh' /\ Serving'
  <1>0. /\ code \in [Installs -> {"unborn", "pending", "gone"}] /\ token \in [Tokens -> Token]
        /\ install \in [Installs -> Install]
    BY DEF SInv, IInv, TypeOK
  <1>1. ASSUME NEW n \in Installs, CodeConsume(r, n), ~UNCHANGED handler
        PROVE  Alone' /\ Fresh' /\ Serving'
    <2>1. PICK h : h = [Idle EXCEPT !.step = "create", !.install = n]
      OBVIOUS
    <2>2. Begins(r, h)
      BY <1>1, <2>1, Zenon DEF CodeConsume
    <2>3. h.step = "create" /\ h.install = n
      BY <2>1 DEF Idle
    <2>4. Dwindles /\ UNCHANGED <<identity, grant, install, killed>> /\ code'[n] = "gone"
      BY <1>0, <1>1 DEF CodeConsume, Dwindles, peers, Stored
    <2>5. install[n].status = "unborn"
      BY <1>1 DEF CodeConsume, SInv, Fresh
    <2>6. Covered(n) => Claimed(n) = {}
      BY <2>5 DEF Covered
    <2>7. Ready(h, n)
      BY <2>3, <2>4, <2>5, <2>6 DEF Ready, Standing, Dead, Holding
    <2> QED BY <2>2, <2>4, <2>7, BeginKeeps
  <1>2. ASSUME NEW n \in Installs, RevokeInstall(r, n)
        PROVE  Alone' /\ Fresh' /\ Serving'
    <2>1. PICK h : h = [Idle EXCEPT !.step = "mark", !.install = n,
                                    !.identity = install[n].identity]
      OBVIOUS
    <2>2. Begins(r, h)
      BY <1>2, <2>1, Zenon DEF RevokeInstall
    <2>3. h.step = "mark" /\ h.install = n /\ h.identity = install[n].identity
      BY <2>1 DEF Idle
    <2>4. Dwindles /\ UNCHANGED <<identity, grant, install, killed>>
      BY <1>2 DEF RevokeInstall, Dwindles, peers, Stored
    <2>5. Ready(h, n)
      BY <1>2, <2>3 DEF RevokeInstall, Ready, Standing, Dead, Holding
    <2> QED BY <2>2, <2>4, <2>5, BeginKeeps
  <1>3. ASSUME NEW t \in Tokens, RefreshGet(r, t)
        PROVE  Alone' /\ Fresh' /\ Serving'
    <2>1. PICK h \in {[Idle EXCEPT !.step = "replay", !.install = token[t].install, !.token = t],
                      [Idle EXCEPT !.step = "check", !.install = token[t].install,
                                   !.token = t, !.identity = token[t].identity]} :
            Begins(r, h)
      BY <1>3, Zenon DEF RefreshGet
    <2>2. h.step \in {"replay", "check"} /\ h.install = token[t].install
      BY <2>1 DEF Idle
    <2>3. Dwindles /\ UNCHANGED <<identity, grant, install, killed>>
      BY <1>3 DEF RefreshGet, Dwindles, peers, Stored
    <2>4. token[t].install \in Installs /\ grant[t].install = token[t].install
      BY <1>3 DEF RefreshGet, Stored, SInv, IInv, Backed, Numbered
    <2>5. code[token[t].install] = "gone" \/ install[token[t].install].status # "unborn"
      BY <2>4 DEF SInv, Fresh
    <2>6. code'[token[t].install] = code[token[t].install]
      BY <1>3 DEF RefreshGet
    <2>7. Stored(t)
      BY <1>3 DEF RefreshGet
    <2>8. Ready(h, token[t].install)
      BY <2>2, <2>5, <2>6, <2>7 DEF Ready, Standing, Dead, Holding
    <2> QED BY <2>1, <2>3, <2>4, <2>8, BeginKeeps
  <1>4. ASSUME NEW t \in Tokens, Revoke(r, t)
        PROVE  Alone' /\ Fresh' /\ Serving'
    <2>1. PICK h : h = [Idle EXCEPT !.step = "forward", !.token = t]
      OBVIOUS
    <2>2. Begins(r, h)
      BY <1>4, <2>1, Zenon DEF Revoke
    <2>3. h.step = "forward"
      BY <2>1 DEF Idle
    <2>4. Dwindles /\ UNCHANGED <<identity, grant, install, killed>>
      BY <1>0, <1>4 DEF Revoke, DeleteTokens, Dwindles, peers, Stored, Token
    <2> QED BY <2>2, <2>3, <2>4, BeginKeeps
  <1> QED BY <1>1, <1>2, <1>3, <1>4

\* What time, the sweeper and the administrators do to the tables.
Elsewhere ==
  /\ \A t \in Tokens : Stored(t)' => Stored(t) /\ token'[t].install = token[t].install
  /\ \A t \in Tokens : \/ grant'[t] = grant[t]
                       \/ grant'[t].status = "revoked" /\ grant'[t].install = grant[t].install
  /\ \A n \in Installs :
       /\ Claimed(n)' \subseteq Claimed(n)
       /\ \/ install'[n] = install[n] /\ code'[n] \in {code[n], "gone"}
          \/ /\ install[n].status = "unborn" /\ code[n] = "unborn"
             /\ \/ install'[n] = install[n] /\ code'[n] = "pending"
                \/ install'[n].status = "pending" /\ code'[n] = "unborn"

\* The sequential invariant is kept by them.
LEMMA ElsewhereKeeps ==
  ASSUME SInv, Elsewhere, UNCHANGED <<handler, mishaps, killed>>
  PROVE  Alone' /\ Fresh' /\ Serving'
  <1>1. Alone'
    BY DEF SInv, Alone, OneByOne, Busy
  <1>2. \A q \in Requests, n \in Installs : About(q, n)' <=> About(q, n)
    BY DEF About, Busy, At
  <1>3. Fresh'
    BY <1>2 DEF SInv, Fresh, Elsewhere
  <1>4. ASSUME NEW q \in Requests, Busy(q), ~At(q, "forward")
        PROVE  /\ handler[q].install \in Installs
               /\ install'[handler[q].install] = install[handler[q].install]
    <2>1. handler[q].install \in Installs /\ About(q, handler[q].install)
      BY <1>4 DEF SInv, IInv, Wired, InHand, Busy, At, About
    <2> QED BY <2>1 DEF SInv, Fresh, Elsewhere
  <1>5. \A n \in Installs : Withdrawn(n) => Withdrawn(n)'
    BY DEF Withdrawn, GrantsOf, Elsewhere
  <1>6. \A n \in Installs : install'[n] = install[n] /\ Covered(n) => Covered(n)'
    BY DEF Covered, Elsewhere
  <1>7. ASSUME NEW q \in Requests
        PROVE  /\ Standing(handler[q]) => Standing(handler[q])'
               /\ Revoking(handler[q]) => Revoking(handler[q])'
               /\ Withdrawing(handler[q]) => Withdrawing(handler[q])'
               /\ Holding(handler[q]) => Holding(handler[q])'
    <2>1. CASE handler[q].step \in {"idle", "forward"}
      BY <2>1 DEF Standing, Revoking, Withdrawing, Holding
    <2>2. CASE handler[q].step \notin {"idle", "forward"}
      <3>1. PICK n \in Installs : n = handler[q].install /\ install'[n] = install[n]
        BY <1>4, <2>2 DEF Busy, At
      <3>2. Claimed(n)' \subseteq Claimed(n)
        BY DEF Elsewhere
      <3> QED BY <1>5, <1>6, <3>1, <3>2 DEF Standing, Revoking, Withdrawing, Holding
    <2> QED BY <2>1, <2>2
  <1>8. ASSUME NEW n \in Installs, \A q \in Requests : ~About(q, n), Covered(n)
        PROVE  Covered(n)'
    <2>1. install'[n] = install[n] \/ Claimed(n) = {}
      BY <1>8 DEF Elsewhere, Covered
    <2> QED BY <1>6, <1>8, <2>1 DEF Elsewhere, Covered
  <1>9. \A n \in Installs : Dead(n) => Dead(n)'
    BY <1>2 DEF Dead, Elsewhere
  <1>10. Serving'
    BY <1>2, <1>5, <1>7, <1>8, <1>9 DEF SInv, IInv, TypeOK, Serving, OneByOne, StoreWorks
  <1> QED BY <1>1, <1>3, <1>10

\* A restart ends what was being served; what a cascade killed stays dead.
LEMMA RestartKeeps ==
  ASSUME SInv, Restart
  PROVE  Alone' /\ Fresh' /\ Serving'
  <1>1. /\ \A q \in Requests : handler'[q].step = "idle"
        /\ mishaps \subseteq mishaps' /\ mishaps' # {}
        /\ UNCHANGED <<code, install, token, grant, killed>>
    BY DEF Restart, Suffer, Idle, peers
  <1>2. \A q \in Requests, n \in Installs : ~About(q, n)'
    BY <1>1 DEF About, Busy
  <1>3. Alone'
    BY <1>1 DEF Alone, Busy
  <1>4. Fresh'
    BY <1>1, <1>2 DEF SInv, Fresh
  <1>5. \A n \in Installs : Dead(n) => Dead(n)'
    BY <1>1, <1>2 DEF Dead, Stored
  <1>6. Serving'
    BY <1>1, <1>5 DEF SInv, IInv, TypeOK, Serving, StoreWorks, Standing, Revoking
  <1> QED BY <1>3, <1>4, <1>6

\* The rest of the actions are of that kind.
LEMMA ElsewhereActs ==
  ASSUME IInv,
         \/ \E n \in Installs : Authorize(n) \/ Create(n)
         \/ \E r \in Requests, n \in Installs : CodeConsume(r, n) /\ UNCHANGED handler
         \/ \E t \in Tokens : ExpireToken(t)
         \/ PurgeExpired \/ PeerAdmin
  PROVE  Elsewhere /\ UNCHANGED <<handler, mishaps, killed>>
  <1>0. /\ code \in [Installs -> {"unborn", "pending", "gone"}] /\ token \in [Tokens -> Token]
        /\ install \in [Installs -> Install] /\ PoolTypeOK /\ GrantsTypeOK
        /\ handler \in [Requests -> Handler]
    BY DEF IInv, TypeOK
  <1>1. ASSUME NEW n \in Installs, Authorize(n) \/ Create(n)
        PROVE  Elsewhere /\ UNCHANGED <<handler, mishaps, killed>>
    BY <1>0, <1>1 DEF Authorize, Create, UpdateInstall, Elsewhere, peers, Stored, Claimed
  <1>2. ASSUME NEW r \in Requests, NEW n \in Installs, CodeConsume(r, n), UNCHANGED handler
        PROVE  Elsewhere /\ UNCHANGED <<handler, mishaps, killed>>
    <2>1. UNCHANGED <<peers, install, token, killed>> /\ code' = [code EXCEPT ![n] = "gone"]
      BY <1>2 DEF CodeConsume
    <2>2. UNCHANGED mishaps
      <3>1. PICK h : h = [Idle EXCEPT !.step = "create", !.install = n]
        OBVIOUS
      <3>2. Begins(r, h) \/ UNCHANGED mishaps
        BY <1>2, <3>1, Zenon DEF CodeConsume
      <3>3. h.step = "create"
        BY <3>1 DEF Idle
      <3> QED BY <1>0, <1>2, <3>2, <3>3 DEF Begins, Becomes, Busy
    <2> QED BY <1>0, <1>2, <2>1, <2>2 DEF Elsewhere, peers, Stored, Claimed
  <1>3. ASSUME NEW t \in Tokens, ExpireToken(t)
        PROVE  Elsewhere /\ UNCHANGED <<handler, mishaps, killed>>
    BY <1>0, <1>3 DEF ExpireToken, Elsewhere, peers, Stored, Claimed, Token
  <1>4. CASE PurgeExpired
    <2>1. \A n \in Installs : code'[n] \in {code[n], "gone"}
      BY <1>4 DEF PurgeExpired
    <2>2. \A t \in Tokens : Stored(t)' => Stored(t) /\ token'[t].install = token[t].install
      BY <1>0, <1>4 DEF PurgeExpired, DeleteTokens, Stored, Token
    <2> QED BY <1>4, <2>1, <2>2 DEF PurgeExpired, Elsewhere, peers, Claimed
  <1>5. CASE PeerAdmin
    <2>1. \A n \in Installs : Claimed(n)' \subseteq Claimed(n)
      <3>1. CASE UNCHANGED <<pool, identity>>
        BY <3>1 DEF Claimed
      <3>2. CASE DeletePool
        BY <1>0, <3>2 DEF DeletePool, PoolTypeOK, Identity, Unclaimed, Claimed
      <3>3. ASSUME NEW i \in Identities, AddIdentity(i) \/ RevokeIdentity(i)
            PROVE  \A n \in Installs : Claimed(n)' \subseteq Claimed(n)
        BY <1>0, <3>3 DEF AddIdentity, RevokeIdentity, PoolTypeOK, Identity, Unclaimed, Claimed
      <3> QED BY <1>5, <3>1, <3>2, <3>3 DEF PeerAdmin
    <2>2. \A t \in Tokens : \/ grant'[t] = grant[t]
                            \/ grant'[t].status = "revoked" /\ grant'[t].install = grant[t].install
      BY <1>0, <1>5 DEF PeerAdmin, RevokeGrant, GrantsTypeOK, Grant
    <2> QED BY <1>5, <2>1, <2>2 DEF PeerAdmin, Elsewhere, Stored
  <1> QED BY <1>1, <1>2, <1>3, <1>4, <1>5

\* Before the first request nothing is owed.
LEMMA InitSInv == Init => SInv
  <1> SUFFICES ASSUME Init PROVE SInv
    OBVIOUS
  <1>1. IInv
    BY InitIInv
  <1>2. /\ \A r \in Requests : handler[r].step = "idle"
        /\ \A n \in Installs : Claimed(n) = {}
        /\ killed = {} /\ \A n \in Installs : code[n] = "unborn"
        /\ \A t \in Tokens : grant[t].install = NoInstall
    BY DEF Init, Idle, PoolInit, GrantsInit, Unclaimed, Claimed
  <1>3. Alone
    BY <1>2 DEF Alone, Busy
  <1>4. Fresh
    BY <1>2 DEF Fresh, About, Busy
  <1>5. Serving
    BY <1>2 DEF Serving, Standing, Revoking, Withdrawing, Holding, Covered
  <1> QED BY <1>1, <1>3, <1>4, <1>5 DEF SInv

\* Every step preserves the sequential invariant.
LEMMA NextSInv == SInv /\ [Next]_vars => SInv'
  <1> SUFFICES ASSUME SInv, [Next]_vars PROVE SInv'
    OBVIOUS
  <1>1. IInv /\ IInv'
    BY NextIInv DEF SInv
  <1>2. CASE \E r \in Requests : Step(r)
    BY <1>1, <1>2, StepKeeps DEF SInv
  <1>3. CASE \E r \in Requests, n \in Installs : RevokeInstall(r, n)
    BY <1>1, <1>3, RequestsBegin DEF SInv
  <1>4. CASE \E r \in Requests, t \in Tokens : RefreshGet(r, t) \/ Revoke(r, t)
    BY <1>1, <1>4, RequestsBegin DEF SInv
  <1>5. ASSUME NEW r \in Requests, NEW n \in Installs, CodeConsume(r, n)
        PROVE  SInv'
    <2>1. CASE UNCHANGED handler
      BY <1>1, <1>5, <2>1, ElsewhereActs, ElsewhereKeeps DEF SInv
    <2>2. CASE ~UNCHANGED handler
      BY <1>1, <1>5, <2>2, RequestsBegin DEF SInv
    <2> QED BY <2>1, <2>2
  <1>6. CASE \/ \E n \in Installs : Authorize(n) \/ Create(n)
             \/ \E t \in Tokens : ExpireToken(t)
             \/ PurgeExpired \/ PeerAdmin
    BY <1>1, <1>6, ElsewhereActs, ElsewhereKeeps DEF SInv
  <1>7. CASE Restart
    BY <1>1, <1>7, RestartKeeps DEF SInv
  <1>8. CASE UNCHANGED vars
    <2>1. Elsewhere /\ UNCHANGED <<handler, mishaps, killed>>
      BY <1>8 DEF vars, Elsewhere, Stored, Claimed
    <2> QED BY <1>1, <2>1, ElsewhereKeeps DEF SInv
  <1> QED BY <1>2, <1>3, <1>4, <1>5, <1>6, <1>7, <1>8 DEF Next

\* Whatever refusals a handshake, a refresh or a cascade ran into, a claimed
\* identity is held by its active install or by the request that is to release
\* it, as long as requests do not overlap and nothing is lost: the compensation
\* in handleToken works.
THEOREM NothingLeaks == Spec => []NoLeak
  <1>1. SInv => NoLeak
    <2> SUFFICES ASSUME SInv, mishaps = {}, NEW i \in Identities,
                        identity[i].status = "claimed"
                 PROVE  HeldBy(i, identity[i].claimedBy)
      BY DEF NoLeak
    <2>1. PICK n \in Installs : n = identity[i].claimedBy
      BY DEF SInv, IInv, TypeOK, PoolTypeOK, Identity
    <2>2. CASE \E r \in Requests : About(r, n)
      BY <2>1, <2>2 DEF HeldBy, About
    <2>3. CASE \A r \in Requests : ~About(r, n)
      BY <2>1, <2>3 DEF SInv, Serving, Covered, Claimed, HeldBy
    <2> QED BY <2>2, <2>3
  <1> QED BY <1>1, InitSInv, NextSInv, PTL DEF Spec

\* A replayed refresh token takes its install with it: revoked for good, none
\* of its tokens stored and, unless grant-service refused, none of its grants
\* active; the replacement that the rotation had issued included.
THEOREM ReplayKills == Spec => []ReplayKillsInstall
  <1>1. SInv => ReplayKillsInstall
    <2> SUFFICES ASSUME SInv, NEW n \in killed
                 PROVE  /\ StoreWorks => Dead(n)
                        /\ mishaps = {} => Withdrawn(n)
      BY DEF ReplayKillsInstall, StoreWorks, Dead, Withdrawn
    <2> QED BY DEF SInv, Serving
  <1> QED BY <1>1, InitSInv, NextSInv, PTL DEF Spec

\* Without overlap a revoked install stays revoked and is granted nothing new:
\* no step of a request, and no administrator, brings it back.
LEMMA RevokedStays ==
  ASSUME SInv, Next, NEW n \in Installs, install[n].status = "revoked", OneByOne'
  PROVE  /\ install'[n].status = "revoked"
         /\ \A t \in Tokens : grant'[t].install = n => Recorded(t)
  <1>1. \A t \in Tokens : grant[t].install = n => Recorded(t)
    BY DEF SInv, IInv, Numbered
  <1>2. IInv /\ install \in [Installs -> Install] /\ GrantsTypeOK
    BY DEF SInv, IInv, TypeOK
  <1>3. ASSUME NEW r \in Requests, Step(r), handler[r].step # "forward", handler[r].install # n
        PROVE  /\ install'[n].status = "revoked"
               /\ \A t \in Tokens : grant'[t].install = n => Recorded(t)
    BY <1>1, <1>2, <1>3, StepsAreLocal DEF Local
  <1>4. ASSUME NEW r \in Requests, Step(r), handler[r].step # "forward", handler[r].install = n
        PROVE  /\ install'[n].status = "revoked"
               /\ \A t \in Tokens : grant'[t].install = n => Recorded(t)
    <2>1. mishaps \subseteq mishaps'
      BY <1>2, <1>4, StepsGoOn
    <2>2. handler[r].step \notin {"create", "claim", "record", "finalize", "rerecord"}
      BY <1>4, <2>1 DEF SInv, Serving, Standing, OneByOne
    <2>3. CASE Compensate(r) \/ StoreToken(r) \/ RefreshCheck(r) \/ Rotate(r) \/ ReplayRead(r)
               \/ Release(r) \/ DeleteTokensForInstall(r)
      <3>1. UNCHANGED <<grant, install>>
        BY <2>3 DEF Compensate, StoreToken, RefreshCheck, Rotate, ReplayRead, Release,
           DeleteTokensForInstall, peers
      <3> QED BY <1>1, <3>1
    <2>4. CASE Fail(r) \/ MarkRevoked(r)
      <3>1. UNCHANGED grant
        BY <2>4 DEF Fail, MarkRevoked, peers
      <3>2. install'[n].status = "revoked"
        BY <1>2, <1>4, <2>4 DEF Fail, MarkRevoked, UpdateInstall
      <3> QED BY <1>1, <3>1, <3>2
    <2>5. CASE RevokeGrantsForInstall(r)
      BY <1>1, <1>2, <2>5 DEF RevokeGrantsForInstall, RevokeGrants, GrantsTypeOK, Grant
    <2> QED BY <1>4, <2>2, <2>3, <2>4, <2>5 DEF Step, CreateInstall, Claim, RecordGrant,
            Finalize, RerecordGrant, RevokeForward, At
  <1>5. ASSUME NEW r \in Requests, RevokeForward(r)
        PROVE  /\ install'[n].status = "revoked"
               /\ \A t \in Tokens : grant'[t].install = n => Recorded(t)
    BY <1>1, <1>2, <1>5 DEF RevokeForward, RevokeGrant, GrantsTypeOK, Grant
  <1>6. CASE \/ \E m \in Installs : Authorize(m) \/ Create(m)
             \/ \E t \in Tokens : ExpireToken(t)
             \/ PurgeExpired \/ PeerAdmin
    BY <1>1, <1>2, <1>6, ElsewhereActs DEF Elsewhere
  <1>7. CASE \/ Restart
             \/ \E r \in Requests, m \in Installs : CodeConsume(r, m) \/ RevokeInstall(r, m)
             \/ \E r \in Requests, t \in Tokens : RefreshGet(r, t) \/ Revoke(r, t)
    BY <1>1, <1>7 DEF Restart, CodeConsume, RevokeInstall, RefreshGet, Revoke, peers
  <1>8. ASSUME NEW r \in Requests, Step(r), handler[r].step = "forward"
        PROVE  RevokeForward(r)
    BY <1>8 DEF Step, At, CreateInstall, Claim, RecordGrant, Compensate, Fail,
       Finalize, StoreToken, RefreshCheck, RerecordGrant, Rotate, ReplayRead,
       MarkRevoked, RevokeGrantsForInstall, Release, DeleteTokensForInstall
  <1> QED BY <1>3, <1>4, <1>5, <1>6, <1>7, <1>8 DEF Next

\* "A revoked install must not be able to refresh its way back to life": as
\* long as requests do not overlap, whatever a restart cut short.
THEOREM RevokedSticks == Spec => RevocationSticks
  <1>1. SInv /\ [Next]_vars =>
          [\A n \in Installs :
             install[n].status = "revoked" /\ "overlap" \notin mishaps' =>
               /\ install'[n].status = "revoked"
               /\ \A t \in Tokens : grant'[t].install = n => Recorded(t)]_vars
    BY RevokedStays DEF OneByOne
  <1> QED BY <1>1, InitSInv, NextSInv, PTL DEF Spec, RevocationSticks
=============================================================================
