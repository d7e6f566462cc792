------------------------------ MODULE Installs ------------------------------
(***************************************************************************)
(* broker-service: installs, their codes and tokens, and the calls it      *)
(* makes to pool-service and grant-service, each with a store of its own.  *)
(*                                                                         *)
(* A request is a goroutine.  Each of its steps is one call, of the local  *)
(* store or of a peer; between two steps anything may happen, and nothing  *)
(* is rolled back when a later step fails.                                 *)
(*                                                                         *)
(* An authorization code is known by the install it would create.  Times   *)
(* are left out: a token or a code may expire at any moment (a persona's   *)
(* TTL can be edited); a token's expiry is a flag.  What goes wrong is     *)
(* recorded in the history variable `mishaps', so that a property can say  *)
(* which failures it survives.  The signing key, scopes, PKCE and client   *)
(* checks are reduced to a request that may be refused where they are made.*)
(***************************************************************************)
EXTENDS Pool, Grants

CONSTANTS
  Requests,    \* goroutines serving requests
  MaxMishaps   \* kinds of trouble one behaviour may contain (a bound)

ASSUME InstallsAssumption ==
  NumTokens \in Nat /\ MaxMishaps \in Nat /\ 0 \notin Installs

VARIABLES
  code,     \* the auth_codes table, by the install a code creates
  install,  \* the installs table
  token,    \* the tokens table, by pair; a row's fields outlive the row
  handler,  \* what each request is doing, and the copies it holds
  mishaps,  \* history: what went wrong so far
  killed    \* history: installs whose tokens a replay deleted

vars == <<pool, identity, grant, code, install, token, handler, mishaps, killed>>
peers == <<pool, identity, grant>>

Trouble == {"overlap", "store", "restart", "lost", "refused"}
Steps == {"idle", "create", "claim", "record", "compensate", "fail", "finalize",
          "store", "check", "rerecord", "rotate", "replay", "mark", "grants",
          "release", "delete", "forward"}

IdentityId == Identities \cup {0}  \* 0: the empty string
TokenId == Tokens \cup {0}         \* 0: none
Install == [status: {"unborn", "pending", "active", "revoked"}, identity: IdentityId]
Token == [status: {"unborn", "stored", "revoked", "purged"},
          install: Installs \cup {NoInstall}, identity: IdentityId,
          rotated: BOOLEAN, expired: BOOLEAN]
Handler == [step: Steps, install: Installs \cup {NoInstall}, token: TokenId,
            fresh: TokenId, identity: IdentityId]

\* The tables and the copies handlers hold keep their shape.
TypeOK ==
  /\ PoolTypeOK /\ GrantsTypeOK
  /\ code \in [Installs -> {"unborn", "pending", "gone"}]
  /\ install \in [Installs -> Install]
  /\ token \in [Tokens -> Token]
  /\ handler \in [Requests -> Handler]
  /\ mishaps \subseteq Trouble /\ killed \subseteq Installs

Idle == [step |-> "idle", install |-> NoInstall, token |-> 0, fresh |-> 0, identity |-> 0]
Unborn == [status |-> "unborn", identity |-> 0]
NoToken == [status |-> "unborn", install |-> NoInstall, identity |-> 0,
            rotated |-> FALSE, expired |-> FALSE]

Init ==
  /\ PoolInit /\ GrantsInit
  /\ code = [n \in Installs |-> "unborn"]
  /\ install = [n \in Installs |-> Unborn]
  /\ token = [t \in Tokens |-> NoToken]
  /\ handler = [r \in Requests |-> Idle]
  /\ mishaps = {} /\ killed = {}

-----------------------------------------------------------------------------
(* Bookkeeping of handlers and of what goes wrong.                         *)

Busy(r) == handler[r].step # "idle"

Suffer(what) ==
  /\ mishaps' = mishaps \cup {what}
  /\ Cardinality(mishaps') <= MaxMishaps

At(r, step) == handler[r].step = step
Becomes(r, h) == handler' = [handler EXCEPT ![r] = h]
Goes(r, step) == Becomes(r, [handler[r] EXCEPT !.step = step])
Answers(r) == Becomes(r, Idle)

Begins(r, h) ==
  /\ ~Busy(r)
  /\ Becomes(r, h)
  /\ IF \E q \in Requests : Busy(q) THEN Suffer("overlap") ELSE UNCHANGED mishaps

\* The instance has token pairs left for whoever may still mint one.
Room == Cardinality({q \in Requests : Busy(q)})
          < Cardinality({t \in Tokens : ~Recorded(t)})

\* The rows of the three tables.
UpdateInstall(n, status, i) ==
  install' = [install EXCEPT ![n] = [status |-> status, identity |-> i]]

PutToken(t, n, i, rotated) ==
  token' = [token EXCEPT ![t] =
    [status |-> "stored", install |-> n, identity |-> i, rotated |-> rotated,
     expired |-> token[t].expired]]

Stored(t) == token[t].status = "stored"
DeleteTokens(gone, as) ==
  token' = [t \in Tokens |->
    IF t \in gone THEN [token[t] EXCEPT !.status = as] ELSE token[t]]

\* Mutant: only the rotated-out rows are deleted.
TokensOfRotated(n) == {t \in Tokens : Stored(t) /\ token[t].install = n /\ token[t].rotated}

TokensOf(n) == {t \in Tokens : Stored(t) /\ token[t].install = n}

-----------------------------------------------------------------------------
(* Authorize and the manual POST /v1/installs: one store call each.        *)

Authorize(n) ==
  /\ code[n] = "unborn" /\ install[n].status = "unborn"
  /\ code' = [code EXCEPT ![n] = "pending"]
  /\ UNCHANGED <<peers, install, token, handler, mishaps, killed>>

Create(n) ==
  /\ code[n] = "unborn" /\ install[n].status = "unborn"
  /\ UpdateInstall(n, "pending", 0)
  /\ UNCHANGED <<peers, code, token, handler, mishaps, killed>>

-----------------------------------------------------------------------------
(* The code grant.                                                         *)

\* The code is burnt whatever follows: one too old, a wrong verifier or a wrong
\* client answer at once.
CodeConsume(r, n) ==
  /\ code[n] = "pending" /\ Room
  /\ code' = [code EXCEPT ![n] = "gone"]
  /\ \/ Begins(r, [Idle EXCEPT !.step = "create", !.install = n])
     \/ ~Busy(r) /\ UNCHANGED <<handler, mishaps>>
  /\ UNCHANGED <<peers, install, token, killed>>

CreateInstall(r) ==
  /\ At(r, "create")
  /\ \/ /\ UpdateInstall(handler[r].install, "pending", 0)
        /\ Goes(r, "claim") /\ UNCHANGED mishaps
     \/ Suffer("store") /\ Answers(r) /\ UNCHANGED install
  /\ UNCHANGED <<peers, code, token, killed>>

\* The persona is fetched and an identity claimed; either may be refused, and
\* the pool may have acted although its answer is lost.
Claim(r) ==
  LET n == handler[r].install IN
  /\ At(r, "claim")
  /\ \/ \E i \in Identities :
          /\ ClaimIdentity(i, n)
          /\ \/ /\ Becomes(r, [handler[r] EXCEPT !.step = "record", !.identity = i])
                /\ UNCHANGED mishaps
             \/ Goes(r, "fail") /\ Suffer("lost")
     \/ Goes(r, "fail") /\ UNCHANGED <<pool, identity, mishaps>>
  /\ UNCHANGED <<grant, code, install, token, killed>>

\* Mutant: an unreachable grant-service does not stop the handshake.
RecordGrantIgnored(r) ==
  /\ At(r, "record")
  /\ \E t \in Tokens :
       /\ \/ CreateGrant(t, handler[r].install)
          \/ ~Recorded(t) /\ UNCHANGED grant
       /\ Becomes(r, [handler[r] EXCEPT !.step = "finalize", !.fresh = t])
  /\ UNCHANGED <<pool, identity, code, install, token, mishaps, killed>>

\* The pair is minted and its grant recorded.  Signing may fail, the grant may
\* be refused, or it is recorded and the answer lost: all three compensate.
RecordGrant(r) ==
  /\ At(r, "record")
  /\ \/ \E t \in Tokens :
          /\ CreateGrant(t, handler[r].install)
          /\ \/ /\ Becomes(r, [handler[r] EXCEPT !.step = "finalize", !.fresh = t])
                /\ UNCHANGED mishaps
             \/ Goes(r, "compensate") /\ Suffer("lost")
     \/ Goes(r, "compensate") /\ UNCHANGED <<grant, mishaps>>
  /\ UNCHANGED <<pool, identity, code, install, token, killed>>

\* A best-effort release: it happens (with or without an answer), or not.
Releases(i) ==
  \/ ReleaseIdentity(i) /\ UNCHANGED mishaps
  \/ Suffer("refused") /\ UNCHANGED <<pool, identity>>

\* Mutant: a failed grant is not compensated.
CompensateNot(r) ==
  /\ At(r, "compensate") /\ Goes(r, "fail")
  /\ UNCHANGED <<peers, code, install, token, mishaps, killed>>

Compensate(r) ==
  /\ At(r, "compensate")
  /\ Releases(handler[r].identity) /\ Goes(r, "fail")
  /\ UNCHANGED <<grant, code, install, token, killed>>

\* markInstallRevoked, from the row as it was created.
Fail(r) ==
  /\ At(r, "fail") /\ Answers(r)
  /\ \/ UpdateInstall(handler[r].install, "revoked", 0) /\ UNCHANGED mishaps
     \/ Suffer("store") /\ UNCHANGED install
  /\ UNCHANGED <<peers, code, token, killed>>

\* From the row as it was created, too; a failure is logged and the tokens are
\* given out all the same.
Finalize(r) ==
  /\ At(r, "finalize") /\ Goes(r, "store")
  /\ \/ /\ UpdateInstall(handler[r].install, "active", handler[r].identity)
        /\ UNCHANGED mishaps
     \/ Suffer("store") /\ UNCHANGED install
  /\ UNCHANGED <<peers, code, token, killed>>

\* The last step of both grants; its failure is not reported either.
StoreToken(r) ==
  LET h == handler[r] IN
  /\ At(r, "store") /\ Answers(r)
  /\ \/ PutToken(h.fresh, h.install, h.identity, FALSE) /\ UNCHANGED mishaps
     \/ Suffer("store") /\ UNCHANGED token
  /\ UNCHANGED <<peers, code, install, killed>>

-----------------------------------------------------------------------------
(* The refresh grant.                                                      *)

RefreshGet(r, t) ==
  /\ Stored(t)
  /\ \/ /\ token[t].rotated
        /\ Begins(r, [Idle EXCEPT !.step = "replay", !.install = token[t].install,
                                  !.token = t])
     \/ /\ ~token[t].rotated /\ Room
        /\ Begins(r, [Idle EXCEPT !.step = "check", !.install = token[t].install,
                                  !.token = t, !.identity = token[t].identity])
  /\ UNCHANGED <<peers, code, install, token, killed>>

\* Mutant: any install will do.
RefreshCheckNot(r) ==
  /\ At(r, "check") /\ Goes(r, "rerecord")
  /\ UNCHANGED <<peers, code, install, token, mishaps, killed>>

\* Mutant: the presented token is rotated out before its successor is recorded.
RefreshCheckRotates(r) ==
  LET t == handler[r].token IN
  /\ At(r, "check") /\ install[handler[r].install].status = "active"
  /\ PutToken(t, token[t].install, token[t].identity, TRUE) /\ Goes(r, "rerecord")
  /\ UNCHANGED <<peers, code, install, mishaps, killed>>

\* An inactive install, another client, a persona that is gone: refused.
RefreshCheck(r) ==
  /\ At(r, "check")
  /\ \/ install[handler[r].install].status = "active" /\ Goes(r, "rerecord")
     \/ Answers(r)
  /\ UNCHANGED <<peers, code, install, token, mishaps, killed>>

RerecordGrant(r) ==
  /\ At(r, "rerecord")
  /\ \/ \E t \in Tokens :
          /\ CreateGrant(t, handler[r].install)
          /\ \/ /\ Becomes(r, [handler[r] EXCEPT !.step = "rotate", !.fresh = t])
                /\ UNCHANGED mishaps
             \/ Answers(r) /\ Suffer("lost")
     \/ Answers(r) /\ UNCHANGED <<grant, mishaps>>
  /\ UNCHANGED <<pool, identity, code, install, token, killed>>

\* An upsert of the row that was read: a row deleted meanwhile comes back.
Rotate(r) ==
  LET t == handler[r].token IN
  /\ At(r, "rotate") /\ Goes(r, "store")
  /\ \/ PutToken(t, token[t].install, token[t].identity, TRUE) /\ UNCHANGED mishaps
     \/ Suffer("store") /\ UNCHANGED token
  /\ UNCHANGED <<peers, code, install, killed>>

-----------------------------------------------------------------------------
(* Revocation of an install: by an administrator, or on a replay.          *)

ReplayRead(r) ==
  LET row == install[handler[r].install] IN
  /\ At(r, "replay")
  /\ \/ /\ Becomes(r, [handler[r] EXCEPT
                        !.step = IF row.status = "revoked" THEN "grants" ELSE "mark",
                        !.identity = row.identity])
        /\ UNCHANGED mishaps
     \/ Goes(r, "grants") /\ Suffer("store")
  /\ UNCHANGED <<peers, code, install, token, killed>>

\* An install already revoked is left alone.
RevokeInstall(r, n) ==
  /\ install[n].status \in {"pending", "active"}
  /\ Begins(r, [Idle EXCEPT !.step = "mark", !.install = n,
                            !.identity = install[n].identity])
  /\ UNCHANGED <<peers, code, install, token, killed>>

ByReplay(r) == handler[r].token # 0

\* The row that was read is written back; if that fails the administrator gets
\* a 500, the replay goes on.
MarkRevoked(r) ==
  /\ At(r, "mark")
  /\ \/ /\ UpdateInstall(handler[r].install, "revoked", handler[r].identity)
        /\ Goes(r, "grants") /\ UNCHANGED mishaps
     \/ /\ Suffer("store") /\ UNCHANGED install
        /\ IF ByReplay(r) THEN Goes(r, "grants") ELSE Answers(r)
  /\ UNCHANGED <<peers, code, token, killed>>

RevokeGrantsForInstall(r) ==
  /\ At(r, "grants") /\ Goes(r, "release")
  /\ \/ RevokeGrants(GrantsOf(handler[r].install)) /\ UNCHANGED mishaps
     \/ /\ \E some \in SUBSET GrantsOf(handler[r].install) : RevokeGrants(some)
        /\ Suffer("refused")
  /\ UNCHANGED <<pool, identity, code, install, token, killed>>

\* Mutant: nothing is owed, nothing is answered.
ReleaseStuck(r) ==
  /\ At(r, "release") /\ handler[r].identity # 0
  /\ IF ByReplay(r) THEN Goes(r, "delete") ELSE Answers(r)
  /\ Releases(handler[r].identity)
  /\ UNCHANGED <<grant, code, install, token, killed>>

\* The identity to release: the install row's, or else the token row's.
Owed(r) == IF handler[r].identity = 0 /\ ByReplay(r)
           THEN token[handler[r].token].identity ELSE handler[r].identity

Release(r) ==
  /\ At(r, "release")
  /\ IF ByReplay(r) THEN Goes(r, "delete") ELSE Answers(r)
  /\ IF Owed(r) = 0 THEN UNCHANGED <<pool, identity, mishaps>> ELSE Releases(Owed(r))
  /\ UNCHANGED <<grant, code, install, token, killed>>

DeleteTokensForInstall(r) ==
  LET n == handler[r].install IN
  /\ At(r, "delete") /\ Answers(r)
  /\ killed' = killed \cup {n}
  /\ \/ DeleteTokens(TokensOf(n), "revoked") /\ UNCHANGED mishaps
     \/ Suffer("store") /\ UNCHANGED token
  /\ UNCHANGED <<peers, code, install>>

-----------------------------------------------------------------------------
(* /revoke: the access token's row goes, then its grant.  For a token the  *)
(* store does not know (a refresh token, or a row already gone) there is   *)
(* no tenant to name and grant-service refuses: nothing changes.           *)

Revoke(r, t) ==
  /\ Stored(t)
  /\ Begins(r, [Idle EXCEPT !.step = "forward", !.token = t])
  /\ DeleteTokens({t}, "revoked")
  /\ UNCHANGED <<peers, code, install, killed>>

RevokeForward(r) ==
  /\ At(r, "forward") /\ Answers(r)
  /\ \/ RevokeGrant(handler[r].token) /\ UNCHANGED mishaps
     \/ Suffer("refused") /\ UNCHANGED grant
  /\ UNCHANGED <<pool, identity, code, install, token, killed>>

-----------------------------------------------------------------------------
(* Time, the sweeper, restarts, and the peers' administrators.             *)

\* A deleted row can only come back through a refresh that holds a copy.
ExpireToken(t) ==
  /\ ~token[t].expired
  /\ Stored(t) \/ \E r \in Requests : handler[r].token = t
  /\ token' = [token EXCEPT ![t].expired = TRUE]
  /\ UNCHANGED <<peers, code, install, handler, mishaps, killed>>

\* Mutant: rotated-out rows are kept for replay detection.
ExpiredUnrotated == {t \in Tokens : Stored(t) /\ token[t].expired /\ ~token[t].rotated}

Expired == {t \in Tokens : Stored(t) /\ token[t].expired}

\* Whichever codes are too old go as well.
PurgeExpired ==
  /\ DeleteTokens(Expired, "purged")
  /\ \E old \in SUBSET {n \in Installs : code[n] = "pending"} :
       code' = [n \in Installs |-> IF n \in old THEN "gone" ELSE code[n]]
  /\ UNCHANGED <<peers, install, handler, mishaps, killed>>

\* The process stops between two calls of whoever is being served.
Restart ==
  /\ \E r \in Requests : Busy(r)
  /\ handler' = [r \in Requests |-> Idle]
  /\ Suffer("restart")
  /\ UNCHANGED <<peers, code, install, token, killed>>

PeerAdmin ==
  /\ \/ /\ \/ DeletePool
           \/ \E i \in Identities : AddIdentity(i) \/ RevokeIdentity(i)
        /\ UNCHANGED grant
     \/ /\ \E t \in Tokens : grant[t].status = "active" /\ RevokeGrant(t)
        /\ UNCHANGED <<pool, identity>>
  /\ UNCHANGED <<code, install, token, handler, mishaps, killed>>

-----------------------------------------------------------------------------
Step(r) ==
  \/ CreateInstall(r) \/ Claim(r) \/ RecordGrant(r) \/ Compensate(r) \/ Fail(r)
  \/ Finalize(r) \/ StoreToken(r)
  \/ RefreshCheck(r) \/ RerecordGrant(r) \/ Rotate(r)
  \/ ReplayRead(r) \/ MarkRevoked(r) \/ RevokeGrantsForInstall(r) \/ Release(r)
  \/ DeleteTokensForInstall(r) \/ RevokeForward(r)

Next ==
  \/ \E n \in Installs : Authorize(n) \/ Create(n)
  \/ \E r \in Requests, n \in Installs : CodeConsume(r, n) \/ RevokeInstall(r, n)
  \/ \E r \in Requests, t \in Tokens : RefreshGet(r, t) \/ Revoke(r, t)
  \/ \E r \in Requests : Step(r)
  \/ \E t \in Tokens : ExpireToken(t)
  \/ PurgeExpired \/ Restart \/ PeerAdmin

Spec == Init /\ [][Next]_vars

\* The scheduler runs every goroutine, and each call ends; the sweeper ticks.
FairSpec == Spec /\ (\A r \in Requests : WF_vars(Step(r))) /\ WF_vars(PurgeExpired)

-----------------------------------------------------------------------------
(* Safety.                                                                 *)

\* "Nothing is rotated until the new grant is recorded" (oidc.go:479): the
\* audit trail knows every token a client can use, in every interleaving and
\* after every failure, and a rotated-out row always has a recorded successor
\* of the same install, or its owner would be locked out by an outage.
GrantForEveryToken ==
  \A t \in Tokens : Stored(t) =>
    /\ Recorded(t) /\ grant[t].install = token[t].install
    /\ token[t].rotated =>
         \E u \in Tokens : u > t /\ Recorded(u) /\ grant[u].install = token[t].install

\* What holds identity i, if anything still leads to its release: an active
\* install, or a request that has it in hand.
HeldBy(i, n) ==
  \/ install[n].status = "active" /\ install[n].identity = i
  \/ \E r \in Requests : Busy(r) /\ handler[r].install = n

\* The compensation works: whatever refusals of persona, pool or grant a request
\* ran into, a claimed identity is held by its install or is about to be
\* released; as long as requests do not overlap, and neither the store, the
\* compensating release itself, an answer or the process is lost.
NoLeak ==
  mishaps = {} =>
    \A i \in Identities : identity[i].status = "claimed"
      => HeldBy(i, identity[i].claimedBy)

\* The replay cascade (oidc.go:471-476) takes the replacement with it: unless
\* the store failed or another request overlapped, a killed install is revoked
\* for good and none of its tokens is stored; and its grants are revoked too,
\* unless grant-service refused or a recorded grant's answer was lost.
ReplayKillsInstall ==
  \A n \in killed :
    /\ mishaps \cap {"overlap", "store"} = {} =>
         /\ install[n].status = "revoked"
         /\ \A t \in Tokens : Stored(t) => token[t].install # n
    /\ mishaps = {} => \A t \in GrantsOf(n) : grant[t].status = "revoked"

\* "A revoked install must not be able to refresh its way back to life"
\* (oidc.go:499): without overlap it stays revoked and is granted nothing new,
\* whatever rows it has left and wherever a restart cut a cascade short.
RevocationSticks ==
  [][\A n \in Installs :
       install[n].status = "revoked" /\ "overlap" \notin mishaps' =>
         /\ install'[n].status = "revoked"
         /\ \A t \in Tokens : grant'[t].install = n => Recorded(t)]_vars

-----------------------------------------------------------------------------
(* Liveness.                                                               *)

\* Every request is answered, or is dropped by a restart.
EveryRequestAnswered == \A r \in Requests : Busy(r) ~> ~Busy(r)

Stale == \E t \in Tokens : Stored(t) /\ token[t].rotated /\ token[t].expired

\* "They cannot survive indefinitely" (pgstorage.go:401): a rotated-out row goes
\* once its access token has expired, even when a refresh in flight inserts it
\* once more.
ExpiredSwept == Stale ~> ~Stale

-----------------------------------------------------------------------------
(* What the documentation says and the code does not do.                   *)

\* "A standard OIDC handshake binds one available identity from a pool to that
\* install for its lifetime" (REQUIREMENTS.md:11): an active install holds the
\* identity it was given, unless the pool's administrator took it.
BoundForItsLifetime ==
  \A n \in Installs : install[n].status = "active" =>
    LET i == install[n].identity IN
    identity[i] = [status |-> "claimed", claimedBy |-> n]
      \/ identity[i].status \in {"revoked", "deleted"}
=============================================================================
