----------------------------- MODULE Delegation -----------------------------
(***************************************************************************)
(* Cross-App Access in authentication-service (idjag.go and                *)
(* idjag_redemption.go): an app exchanges a token of its user's for an     *)
(* identity assertion at a registered MCP server, and redeems an assertion *)
(* of a trusted identity provider, this service among them, for an access  *)
(* token; owners edit both registries meanwhile (signup_console.go).       *)
(***************************************************************************)
EXTENDS Naturals, FiniteSets, Sequences

CONSTANTS
  Requests,       \* handlers in flight at most
  Tenants, Clients, TenantOf,     \* workspaces, their clients
  Subjects, IdTokens, ClientOf,   \* tokens of users, some of them ID tokens
  Resources, Here,      \* URIs of MCP servers; this service's issuer
  Issuers, Self,        \* identity providers; this service may be one of them
  Scopes,
  Caps,           \* bound: scope lists the owners enter; {} is no restriction
  TTL, Leeway,    \* IDJAGTTLSeconds, jwtx.Leeway, in ticks
  NumAssertions,  \* bound: assertions made
  NumSessions,    \* bound: sessions after which no redemption begins
  NumKeys,        \* bound: keys an issuer goes through
  MaxEdits,       \* bound: edits of the registries
  MaxMishaps,     \* bound: kinds of trouble one behaviour mixes
  MaxTime         \* bound on now

(* A client is of one workspace, a token of one client; owners enter scopes. *)
(* Whoever makes assertions is an issuer that a workspace can list.          *)
ConstantsOK ==
  /\ Subjects # {} => Self \in Issuers
  /\ TenantOf \in [Clients -> Tenants] /\ ClientOf \in [Subjects -> Clients]
  /\ Caps \subseteq SUBSET Scopes
  /\ {TTL, Leeway, NumAssertions, NumSessions, MaxEdits, MaxMishaps, MaxTime} \subseteq Nat
  /\ NumKeys \in Nat \ {0}

VARIABLES
  server,     \* mcp_servers, by workspace and resource
  idp,        \* trusted_idps, by workspace and issuer
  published,  \* the key an issuer publishes and signs with
  cached,     \* IDPVerifierCache
  subject,    \* subject tokens, by the tokens table and the clock
  assertion,  \* every assertion made
  used,       \* idjag_used_jtis
  session, token,   \* what redemptions made
  now, request,
  edits, mishaps,   \* history: number of edits, kinds of trouble so far
  burned            \* history: assertions whose jti was ever recorded

vars == <<server, idp, published, cached, subject, assertion, used, session, token,
          now, request, edits, mishaps, burned>>
Registries == <<server, idp>>
Keyring == <<published, cached>>
Redeemed == <<used, session, token, burned>>

Entry == [enabled : BOOLEAN, scopes : Caps]
NoEntry == [enabled |-> FALSE]
NoKey == 0
Made == DOMAIN assertion
Kinds == {"overlap", "fault", "restart"}

Assertion == [iss : Issuers, aud : Resources \cup {Here}, client : Clients,
              scopes : SUBSET Scopes, exp : 0..(MaxTime + TTL), key : 0..NumKeys]

(* declared is the caller's word for the kind of its token.  Two fields are  *)
(* history: the token stood when the request began, and offers are the scope *)
(* lists under which the server has been enabled since.  What a handler no   *)
(* longer needs is blank.                                                    *)
Declarable == {"access_token", "id_token"}
Exchange ==
  [op : {"exchange"}, step : {"deny", "server", "sign"}, subject : Subjects,
   declared : Declarable, resource : Resources, asked : SUBSET Scopes,
   granted : SUBSET Scopes, stood : BOOLEAN, offers : SUBSET Caps]
Redemption ==
  [op : {"redeem"}, step : {"trust", "keys", "check", "refetch", "burn", "session", "token"},
   from : 1..NumAssertions, client : Clients, asked : SUBSET Scopes, cap : SUBSET Scopes,
   key : 0..NumKeys, seen : 0..MaxTime, forced : BOOLEAN, granted : SUBSET Scopes]
Handler == Exchange \cup Redemption
Idle == [step |-> "idle"]
Busy(r) == request[r] # Idle

Go(r, h) == request' = [request EXCEPT ![r] = h]
Answer(r) == Go(r, Idle)
At(r, step) == request[r].step = step
Goto(r, step) == Go(r, [request[r] EXCEPT !.step = step])

Calm == UNCHANGED mishaps
Trouble(kind) == /\ mishaps' = mishaps \cup {kind}
                 /\ Cardinality(mishaps') <= MaxMishaps
Arrive(r, h) ==
  /\ ~Busy(r) /\ Go(r, h)
  /\ IF \E q \in Requests : Busy(q) THEN Trouble("overlap") ELSE Calm

-----------------------------------------------------------------------------
(* Issuance.  The subject token verifies, and a client that authenticates is *)
(* the one it was issued to; what is read of clients does not change.  Both  *)
(* kinds of token have the same typ: the one the caller declares decides     *)
(* whether the deny list is read.                                            *)
Verifies(s) == subject[s] \in {"live", "revoked"}
SameClient(s, caller) == caller \in {"", ClientOf[s]}
Offered(registry, s, resource) ==
  LET entry == registry[TenantOf[ClientOf[s]], resource] IN
  IF entry.enabled THEN {entry.scopes} ELSE {}
TokenExchange(r, s, caller, resource, declared, asked) ==
  /\ Verifies(s) /\ SameClient(s, caller)
  /\ Arrive(r, [op |-> "exchange", step |-> IF declared = "id_token" THEN "server" ELSE "deny",
                subject |-> s, declared |-> declared, resource |-> resource,
                asked |-> asked, granted |-> {}, stood |-> subject[s] = "live",
                offers |-> Offered(server, s, resource)])
  /\ UNCHANGED <<Registries, Keyring, subject, assertion, Redeemed, now, edits>>

(* The deny list: the row of an access token, which an ID token has not.     *)
\* Mutant: the signature is enough.
NeverDenied(s) == TRUE
NotDenied(s) == s \notin IdTokens /\ subject[s] = "live"
GetTokenByHash(r) ==
  /\ At(r, "deny")
  /\ IF NotDenied(request[r].subject) THEN Goto(r, "server") ELSE Answer(r)
  /\ UNCHANGED <<Registries, Keyring, subject, assertion, Redeemed, now, edits, mishaps>>

(* authorizedMCPServer and grantedScopes, whose empty list is no restriction *)
(* on a server and nothing asked of a caller.                                *)
ScopesOk(authorized, asked) == authorized = {} \/ asked \subseteq authorized
GrantedScopes(authorized, asked) ==
  IF authorized # {} /\ asked = {} THEN authorized ELSE asked
\* Mutant: an entry counts, enabled or not.
Registered(entry) == entry # NoEntry
Enabled(entry) == entry.enabled
AuthorizedMCPServer(r) ==
  LET h == request[r]
      entry == server[TenantOf[ClientOf[h.subject]], h.resource] IN
  /\ At(r, "server")
  /\ IF Enabled(entry) /\ ScopesOk(entry.scopes, h.asked)
     THEN Go(r, [h EXCEPT !.step = "sign", !.granted = GrantedScopes(entry.scopes, h.asked)])
     ELSE Answer(r)
  /\ UNCHANGED <<Registries, Keyring, subject, assertion, Redeemed, now, edits, mishaps>>

Sign(iss, aud, client, scopes, exp) ==
  /\ Len(assertion) < NumAssertions
  /\ assertion' = Append(assertion, [iss |-> iss, aud |-> aud, client |-> client,
                           scopes |-> scopes, exp |-> exp, key |-> published[iss]])
SignTyped(r) ==
  LET h == request[r] IN
  /\ At(r, "sign")
  /\ Sign(Self, h.resource, ClientOf[h.subject], h.granted, now + TTL)
  /\ Answer(r)
  /\ UNCHANGED <<Registries, Keyring, subject, Redeemed, now, edits, mishaps>>

(* Another identity provider makes an assertion, on grounds of its own.      *)
Foreign(i, aud, client, scopes) ==
  /\ i # Self
  /\ Sign(i, aud, client, scopes, now + TTL)
  /\ UNCHANGED <<Registries, Keyring, subject, Redeemed, now, request, edits, mishaps>>
RotateKey(i) ==
  /\ published[i] < NumKeys /\ edits < MaxEdits /\ edits' = edits + 1
  /\ published' = [published EXCEPT ![i] = @ + 1]
  /\ UNCHANGED <<Registries, cached, subject, assertion, Redeemed, now, request, mishaps>>

-----------------------------------------------------------------------------
(* Redemption, by an authenticated client of some workspace.                 *)
JWTBearer(r, a, c, asked) ==
  /\ a \in Made /\ Len(session) < NumSessions
  /\ Arrive(r, [op |-> "redeem", step |-> "trust", from |-> a, client |-> c, asked |-> asked,
                cap |-> {}, key |-> NoKey, seen |-> 0, forced |-> FALSE, granted |-> {}])
  /\ UNCHANGED <<Registries, Keyring, subject, assertion, Redeemed, now, edits>>

(* trustedIDP, in the workspace of the client.                               *)
\* Mutant: an entry counts, enabled or not.
Listed(t, i) == idp[t, i] # NoEntry
Trusts(t, i) == idp[t, i].enabled
TrustedIDP(r) ==
  LET h == request[r]  t == TenantOf[h.client]  i == assertion[h.from].iss IN
  /\ At(r, "trust")
  /\ IF Trusts(t, i)
     THEN Go(r, [h EXCEPT !.step = "keys", !.cap = idp[t, i].scopes, !.seen = now])
     ELSE Answer(r)
  /\ UNCHANGED <<Registries, Keyring, subject, assertion, Redeemed, now, edits, mishaps>>

(* IDPVerifierCache.verifier: a fetch fills the cache under the lock.        *)
Fetch(r, forced) ==
  LET h == request[r]  i == assertion[h.from].iss IN
  /\ cached' = [cached EXCEPT ![i] = published[i]]
  /\ Go(r, [h EXCEPT !.step = "check", !.key = published[i], !.forced = forced])
Keys(r) ==
  LET h == request[r]  i == assertion[h.from].iss IN
  /\ At(r, "keys")
  /\ IF cached[i] = NoKey THEN Fetch(r, FALSE)
     ELSE Go(r, [h EXCEPT !.step = "check", !.key = cached[i]]) /\ UNCHANGED cached
  /\ UNCHANGED <<Registries, published, subject, assertion, Redeemed, now, edits, mishaps>>
Refetch(r) ==
  /\ At(r, "refetch")
  /\ Fetch(r, TRUE)
  /\ UNCHANGED <<Registries, published, subject, assertion, Redeemed, now, edits, mishaps>>

(* Signature and time window, then audience and client.                      *)
Valid(a, key, seen) == assertion[a].key = key /\ seen <= assertion[a].exp + Leeway
MeantFor(a, client) == assertion[a].aud = Here /\ assertion[a].client = client
Check(r) ==
  LET h == request[r] IN
  /\ At(r, "check")
  /\ CASE Valid(h.from, h.key, h.seen) ->
            IF MeantFor(h.from, h.client)
            THEN Go(r, [h EXCEPT !.step = "burn", !.key = NoKey, !.seen = 0, !.forced = FALSE])
            ELSE Answer(r)
       [] OTHER -> IF h.forced THEN Answer(r) ELSE Goto(r, "refetch")
  /\ UNCHANGED <<Registries, Keyring, subject, assertion, Redeemed, now, edits, mishaps>>

(* RedeemIDJAGJTI sweeps the jtis whose assertions have expired and records  *)
(* this one, or finds it there.  The scopes are looked at afterwards.        *)
\* Mutant: the sweep takes a tick too much.
SweptEarly == {a \in used : now < assertion[a].exp}
Swept == {a \in used : now <= assertion[a].exp}
NarrowOk(carried, asked) == asked = {} \/ (carried # {} /\ ScopesOk(carried, asked))
Narrowed(carried, asked) == IF asked = {} THEN carried ELSE asked
\* Mutant: the workspace's cap replaces what the assertion carries.
CapOnly(scopes, cap) == IF cap = {} THEN scopes ELSE cap
IntersectScopes(scopes, cap) == IF cap = {} THEN scopes ELSE scopes \cap cap
RedeemIDJAGJTI(r) ==
  LET h == request[r]  carried == assertion[h.from].scopes IN
  /\ At(r, "burn")
  /\ IF h.from \in Swept THEN Answer(r) /\ used' = Swept /\ Calm /\ UNCHANGED burned
     ELSE /\ used' = Swept \cup {h.from} /\ burned' = burned \cup {h.from}
          /\ \/ /\ NarrowOk(carried, h.asked) /\ Calm
                /\ Go(r, [h EXCEPT !.step = "session", !.asked = {},
                            !.granted = IntersectScopes(Narrowed(carried, h.asked), h.cap)])
             \/ ~NarrowOk(carried, h.asked) /\ Answer(r) /\ Calm
             \/ Answer(r) /\ Trouble("fault")
  /\ UNCHANGED <<Registries, Keyring, subject, assertion, session, token, now, edits>>

CreateSession(r) ==
  /\ At(r, "session")
  /\ session' = Append(session, request[r].from)
  /\ \/ Goto(r, "token") /\ Calm
     \/ Answer(r) /\ Trouble("fault")
  /\ UNCHANGED <<Registries, Keyring, subject, assertion, used, token, burned, now, edits>>
PutToken(r) ==
  LET h == request[r] IN
  /\ At(r, "token")
  /\ token' = Append(token, [from |-> h.from, scopes |-> h.granted])
  /\ Answer(r)
  /\ Calm \/ Trouble("fault")
  /\ UNCHANGED <<Registries, Keyring, subject, assertion, used, session, burned, now, edits>>

(* A store call or a fetch fails without effect, whatever the step.          *)
Fails(r) ==
  /\ Busy(r) /\ Answer(r) /\ Trouble("fault")
  /\ UNCHANGED <<Registries, Keyring, subject, assertion, Redeemed, now, edits>>

-----------------------------------------------------------------------------
(* Edits by the owners; revocation of access tokens, expiry of subject       *)
(* tokens (ID tokens have no row).  The exchanges in flight note the offers. *)
Edit == /\ edits < MaxEdits /\ edits' = edits + 1
        /\ UNCHANGED <<Keyring, assertion, Redeemed, now, mishaps>>
Noted(registry) ==
  [r \in Requests |->
     LET h == request[r] IN
     IF Busy(r) /\ h.op = "exchange"
     THEN [h EXCEPT !.offers = @ \cup Offered(registry, h.subject, h.resource)] ELSE h]

(* A resource or an issuer is registered once, enabled; entries are switched *)
(* on and off and deleted.                                                   *)
Created(registry, key, scopes) ==
  [registry EXCEPT ![key] = [enabled |-> TRUE, scopes |-> scopes]]
Toggled(registry, key) == [registry EXCEPT ![key].enabled = ~@]
Deleted(registry, key) == [registry EXCEPT ![key] = NoEntry]

EditServers == Edit /\ request' = Noted(server') /\ UNCHANGED <<idp, subject>>
CreateMCPServer(t, x) ==
  /\ server[t, x] = NoEntry
  /\ \E scopes \in Caps : server' = Created(server, <<t, x>>, scopes)
  /\ EditServers
ToggleMCPServer(t, x) ==
  server[t, x] # NoEntry /\ server' = Toggled(server, <<t, x>>) /\ EditServers
DeleteMCPServer(t, x) ==
  server[t, x] # NoEntry /\ server' = Deleted(server, <<t, x>>) /\ EditServers

EditIDPs == Edit /\ UNCHANGED <<server, subject, request>>
CreateTrustedIDP(t, i) ==
  /\ idp[t, i] = NoEntry
  /\ \E scopes \in Caps : idp' = Created(idp, <<t, i>>, scopes)
  /\ EditIDPs
ToggleTrustedIDP(t, i) ==
  idp[t, i] # NoEntry /\ idp' = Toggled(idp, <<t, i>>) /\ EditIDPs
DeleteTrustedIDP(t, i) ==
  idp[t, i] # NoEntry /\ idp' = Deleted(idp, <<t, i>>) /\ EditIDPs

RevokeSubject(s) ==
  /\ s \notin IdTokens /\ subject[s] = "live"
  /\ subject' = [subject EXCEPT ![s] = "revoked"]
  /\ Edit /\ UNCHANGED <<Registries, request>>
SubjectLapses(s) ==
  /\ subject[s] # "over"
  /\ subject' = [subject EXCEPT ![s] = "over"]
  /\ Edit /\ UNCHANGED <<Registries, request>>

Tick ==
  /\ now < MaxTime /\ now' = now + 1
  /\ UNCHANGED <<Registries, Keyring, subject, assertion, Redeemed, request, edits, mishaps>>

(* The cache of keys and the handlers live in the process.                   *)
Restart ==
  /\ Trouble("restart")
  /\ request' = [r \in Requests |-> Idle]
  /\ cached' = [i \in Issuers \cup {Self} |-> NoKey]
  /\ UNCHANGED <<Registries, published, subject, assertion, Redeemed, now, edits>>

Init ==
  /\ server \in [Tenants \X Resources -> Entry \cup {NoEntry}]
  /\ idp \in [Tenants \X Issuers -> Entry \cup {NoEntry}]
  /\ published = [i \in Issuers \cup {Self} |-> 1]
  /\ cached = [i \in Issuers \cup {Self} |-> NoKey]
  /\ subject = [s \in Subjects |-> "live"]
  /\ assertion = <<>> /\ session = <<>> /\ token = <<>>
  /\ used = {} /\ burned = {}
  /\ now = 0 /\ edits = 0 /\ mishaps = {}
  /\ request = [r \in Requests |-> Idle]

Step(r) ==
  /\ Busy(r)
  /\ \/ GetTokenByHash(r) \/ AuthorizedMCPServer(r) \/ SignTyped(r)
     \/ TrustedIDP(r) \/ Keys(r) \/ Check(r) \/ Refetch(r)
     \/ RedeemIDJAGJTI(r) \/ CreateSession(r) \/ PutToken(r) \/ Fails(r)

Next ==
  \/ \E r \in Requests : Step(r)
  \/ \E r \in Requests, s \in Subjects, caller \in Clients \cup {""}, x \in Resources,
        declared \in Declarable, asked \in Caps :
       TokenExchange(r, s, caller, x, declared, asked)
  \/ \E r \in Requests, a \in Made, c \in Clients, asked \in Caps : JWTBearer(r, a, c, asked)
  \/ \E i \in Issuers, aud \in Resources \cup {Here}, c \in Clients, scopes \in Caps :
       Foreign(i, aud, c, scopes)
  \/ \E i \in Issuers : RotateKey(i)
  \/ \E t \in Tenants, x \in Resources :
       CreateMCPServer(t, x) \/ ToggleMCPServer(t, x) \/ DeleteMCPServer(t, x)
  \/ \E t \in Tenants, i \in Issuers :
       CreateTrustedIDP(t, i) \/ ToggleTrustedIDP(t, i) \/ DeleteTrustedIDP(t, i)
  \/ \E s \in Subjects : RevokeSubject(s) \/ SubjectLapses(s)
  \/ Tick \/ Restart

Spec == Init /\ [][Next]_vars

-----------------------------------------------------------------------------
(* The types of the variables.                                               *)
TypeOK ==
  /\ server \in [Tenants \X Resources -> Entry \cup {NoEntry}]
  /\ idp \in [Tenants \X Issuers -> Entry \cup {NoEntry}]
  /\ published \in [Issuers \cup {Self} -> 1..NumKeys]
  /\ cached \in [Issuers \cup {Self} -> 0..NumKeys]
  /\ subject \in [Subjects -> {"live", "revoked", "over"}]
  /\ assertion \in Seq(Assertion) /\ Len(assertion) <= NumAssertions
  /\ used \subseteq burned /\ burned \subseteq Made
  /\ session \in Seq(burned) /\ token \in Seq([from : burned, scopes : SUBSET Scopes])
  /\ now \in 0..MaxTime /\ edits \in 0..MaxEdits /\ mishaps \subseteq Kinds
  /\ request \in [Requests -> Handler \cup {Idle}]

(* An assertion of this service is for the client its token was issued to, a *)
(* server that was enabled at some moment of the request and scopes within   *)
(* what was authorised there at such a moment; and a token declared as an    *)
(* access token is one, and stood when the request began (idjag.go:137-192), *)
(* whatever is edited or revoked while the request runs.                     *)
New == DOMAIN assertion' \ Made
SignedBy(r, a) ==
  /\ At(r, "sign") /\ request'[r] = Idle
  /\ assertion'[a].client = ClientOf[request[r].subject]
  /\ assertion'[a].aud = request[r].resource
DelegationsEntitled ==
  \A a \in New : assertion'[a].iss = Self =>
    \E r \in Requests :
      /\ SignedBy(r, a)
      /\ \E scopes \in request[r].offers :
           scopes = {} \/ assertion'[a].scopes \subseteq scopes
      /\ request[r].declared = "access_token" =>
           request[r].stood /\ request[r].subject \notin IdTokens

(* A revoked access token mints no assertion (idjag.go:137).                 *)
DenyListHonoured ==
  \A a \in New : assertion'[a].iss = Self =>
    \E r \in Requests :
      SignedBy(r, a) /\ (request[r].subject \in IdTokens \/ request[r].stood)

-----------------------------------------------------------------------------
(* The view of SingleUse: who has been let in, and what a workspace accepts. *)
Clock == now
Burned == burned
Tokens == token
Nothing == [ok |-> FALSE, upto |-> {}]
NoGuest == [stage |-> "none"]
Lives == [a \in Made |-> assertion[a].exp]
Allowed(scopes, cap) == {scope \in scopes : cap = {} \/ scope \in cap}
Accepted ==
  [ta \in Tenants \X (1..NumAssertions) |->
     LET entry == IF ta[2] \in Made THEN idp[ta[1], assertion[ta[2]].iss] ELSE NoEntry IN
     IF entry.enabled
     THEN [ok |-> TRUE, upto |-> Allowed(assertion[ta[2]].scopes, entry.scopes)]
     ELSE Nothing]
Guests ==
  [r \in Requests |->
     LET h == request[r] IN
     IF Busy(r) /\ h.step \in {"keys", "check", "refetch", "burn", "session", "token"}
     THEN [stage |-> IF h.step \in {"session", "token"} THEN "paid" ELSE "in",
           from |-> h.from, upto |-> Allowed(assertion[h.from].scopes, h.cap)]
     ELSE NoGuest]
=============================================================================
