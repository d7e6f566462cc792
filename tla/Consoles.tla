------------------------------ MODULE Consoles ------------------------------
(***************************************************************************)
(* What the consoles of authentication-service edit: the settings of a     *)
(* workspace, its OIDC client and secret, transaction types and flows, by  *)
(* its owner; clients by staff and by developers, who also run a test      *)
(* round trip.  Sessions and staff accounts are the subject of Workspaces. *)
(***************************************************************************)
EXTENDS Naturals, FiniteSets

CONSTANTS
  Requests,        \* handlers in flight at most
  Tenants, DevTenant,   \* workspaces, and the one of the developer console
  Emails,
  ClientIds, Uris, Settings, TypeNames, States,
  NumFlows,        \* bound: flows made
  Ops,             \* bound: what the owners of this instance do
  MaxMade,         \* bound: clients made
  MaxSecrets,      \* bound: secrets made
  MaxMishaps       \* bound: kinds of trouble one behaviour mixes

ClientOps == {"secret", "uris"}
FlowOps == {"create", "save", "enable", "disable", "delete"}
RowOps == {"set", "clear", "define", "undefine"}
FlowIds == 1..NumFlows
Kinds == {"overlap", "fault", "lapse", "restart"}

ConstantsOK ==
  /\ {NumFlows, MaxMade, MaxSecrets} \subseteq Nat
  /\ Ops \subseteq ClientOps \cup FlowOps \cup RowOps

VARIABLES
  owner,       \* the registry's owner_email
  settings,    \* its phone_login, mdl_enroll, fido and branding columns
  types,       \* transaction_types
  flow,        \* flows
  nextFlow,
  client,      \* oidc_clients
  nextMade,    \* the clock of created_at
  nextSecret,
  developer,   \* whether the developer console's session is live
  remembered,  \* clients this process made for developers
  trip,        \* OIDC round trips: devOIDCFlow, or where it ended
  request,
  mishaps,     \* history: the kinds of trouble so far
  shown,       \* history: the secret shown last for a client
  exchanged    \* history: how often a round trip went to /token

vars == <<owner, settings, types, flow, nextFlow, client, nextMade, nextSecret,
          developer, remembered, trip, request, mishaps, shown, exchanged>>
Workspace == <<owner, settings, types, flow, nextFlow>>
Clients == <<client, nextMade, nextSecret, shown>>
Developers == <<developer, remembered, trip, exchanged>>

AllTenants == Tenants \cup {DevTenant}

(* secret 0 is a public client.  made orders created_at.                     *)
Client == [tenant : AllTenants, secret : 0..MaxSecrets, uri : Uris, made : 1..MaxMade]
NoClient == [made |-> 0]
Flow == [tenant : Tenants, enabled : BOOLEAN]
NoFlow == [enabled |-> FALSE]

(* copy is the client or flow the handler has read, id its id.  rights is    *)
(* history: the workspaces email owned at some time since the request began. *)
Handler == [op : ClientOps \cup FlowOps \cup RowOps,
            step : {"tenant", "client", "put", "flow", "upsert", "row"},
            email : Emails, at : Tenants, arg : Uris \cup Settings \cup TypeNames \cup {""},
            id : ClientIds \cup FlowIds \cup {0}, copy : Client \cup Flow \cup {NoClient, NoFlow},
            rights : SUBSET Tenants]
           \cup [op : {"register"}, step : {"lookup", "put"}, id : ClientIds, uri : Uris]
           \cup [op : {"exchange"}, step : {"token"}, id : States]
Idle == [step |-> "idle"]
Busy(r) == request[r] # Idle

Go(r, h) == request' = [request EXCEPT ![r] = h]
Answer(r) == Go(r, Idle)
At(r, step) == request[r].step = step
Goto(r, step) == Go(r, [request[r] EXCEPT !.step = step])
Does(r, op) == Busy(r) /\ request[r].op = op

Calm == UNCHANGED mishaps
Trouble(kind) == /\ mishaps' = mishaps \cup {kind}
                 /\ Cardinality(mishaps') <= MaxMishaps
Overlaps(r) == IF \E q \in Requests : Busy(q) THEN Trouble("overlap") ELSE Calm

(* A write is made, or made without its answer being heard, or not made.     *)
Heard == Calm
Unheard == Trouble("fault")

-----------------------------------------------------------------------------
(* An owner's request, with a live session.                                  *)
OwnerRequest(r, op, e, t, id, arg) ==
  /\ ~Busy(r) /\ Overlaps(r)
  /\ op \in Ops
  /\ Go(r, [op |-> op, step |-> "tenant", email |-> e, at |-> t, arg |-> arg, id |-> id,
            copy |-> NoClient, rights |-> {u \in Tenants : owner[u] = e}])
  /\ UNCHANGED <<Workspace, Clients, Developers>>

(* currentOwner: the user's email must be the owner's.                       *)
Owns(t, e) == owner[t] = e
CurrentOwner(r) ==
  LET h == request[r] IN
  /\ At(r, "tenant")
  /\ IF ~Owns(h.at, h.email) THEN Answer(r)
     ELSE Goto(r, CASE h.op \in ClientOps -> "client"
                    [] h.op \in FlowOps -> "flow"
                    [] OTHER -> "row")
  /\ UNCHANGED <<Workspace, Clients, Developers, mishaps>>

(* tenantClient: the newest of the workspace's clients.                      *)
TenantClients(t) == {c \in ClientIds : client[c] # NoClient /\ client[c].tenant = t}
Newest(cs) == CHOOSE c \in cs : \A d \in cs : client[d].made <= client[c].made
TenantClient(r) ==
  LET h == request[r]  cs == TenantClients(h.at) IN
  /\ At(r, "client")
  /\ IF cs = {} THEN Answer(r)
     ELSE Go(r, [h EXCEPT !.step = "put", !.id = Newest(cs), !.copy = client[Newest(cs)]])
  /\ UNCHANGED <<Workspace, Clients, Developers, mishaps>>

(* RegenerateSecret and UpdateClient put back the whole row they read.       *)
\* Mutant: the row is built anew.
FromScratch(c, uri) == [c EXCEPT !.uri = uri, !.secret = 0]
Edited(c, uri) == [c EXCEPT !.uri = uri]
RegenerateSecret(r) ==
  LET h == request[r] IN
  /\ At(r, "put") /\ h.op = "secret"
  /\ nextSecret < MaxSecrets
  /\ nextSecret' = nextSecret + 1
  /\ Answer(r)
  /\ \/ /\ client' = [client EXCEPT ![h.id] = [h.copy EXCEPT !.secret = nextSecret']]
        /\ \/ Heard /\ shown' = [shown EXCEPT ![h.id] = nextSecret']
           \/ Unheard /\ UNCHANGED shown
     \/ Unheard /\ UNCHANGED <<client, shown>>
  /\ UNCHANGED <<Workspace, nextMade, Developers>>
UpdateClient(r) ==
  LET h == request[r] IN
  /\ At(r, "put") /\ h.op = "uris"
  /\ Answer(r)
  /\ \/ client' = [client EXCEPT ![h.id] = Edited(h.copy, h.arg)] /\ Heard
     \/ Unheard /\ UNCHANGED client
  /\ UNCHANGED <<Workspace, nextMade, nextSecret, shown, Developers>>

(* The columns of the tenant's row, and the transaction types, which are rows *)
(* of their own: each a single write.                                        *)
SetTenant(t, set, column) ==
  settings' = [settings EXCEPT ![t] = IF set THEN @ \cup {column} ELSE @ \ {column}]
EditSettings(r) ==
  LET h == request[r] IN
  /\ At(r, "row") /\ h.op \in {"set", "clear"}
  /\ Answer(r)
  /\ \/ SetTenant(h.at, h.op = "set", h.arg) /\ Heard
     \/ Unheard /\ UNCHANGED settings
  /\ UNCHANGED <<owner, types, flow, nextFlow, Clients, Developers>>
PutType(t, define, name) ==
  types' = IF define THEN types \cup {<<t, name>>} ELSE types \ {<<t, name>>}
EditTypes(r) ==
  LET h == request[r] IN
  /\ At(r, "row") /\ h.op \in {"define", "undefine"}
  /\ Answer(r)
  /\ \/ PutType(h.at, h.op = "define", h.arg) /\ Heard
     \/ Unheard /\ UNCHANGED types
  /\ UNCHANGED <<owner, settings, flow, nextFlow, Clients, Developers>>

(* ApplyFlowTemplate and SaveFlow of a new flow, which gets an id of its own. *)
NewFlow(r) ==
  LET h == request[r] IN
  /\ At(r, "flow") /\ h.op = "create"
  /\ nextFlow < NumFlows /\ nextFlow' = nextFlow + 1
  /\ \E on \in BOOLEAN :
       Go(r, [h EXCEPT !.step = "upsert", !.id = nextFlow',
                       !.copy = [tenant |-> h.at, enabled |-> on]])
  /\ UNCHANGED <<owner, settings, types, flow, Clients, Developers, mishaps>>

(* GetFlow reads within the workspace, for SaveFlow and SetFlowEnabled.      *)
\* Mutant: ids are not checked against the workspace.
OfAnyone(f, t) == flow[f] # NoFlow
OfTenant(f, t) == flow[f] # NoFlow /\ flow[f].tenant = t
Enabling(op) == CASE op = "enable" -> {TRUE} [] op = "disable" -> {FALSE} [] OTHER -> BOOLEAN
GetFlow(r) ==
  LET h == request[r] IN
  /\ At(r, "flow") /\ h.op \in {"save", "enable", "disable"}
  /\ IF ~OfTenant(h.id, h.at) THEN Answer(r)
     ELSE \E on \in Enabling(h.op) :
            Go(r, [h EXCEPT !.step = "upsert", !.copy = [tenant |-> h.at, enabled |-> on]])
  /\ UNCHANGED <<Workspace, Clients, Developers, mishaps>>

(* UpsertFlow: one transaction demotes the workspace's other flows and puts  *)
(* the row, back if it is gone.                                              *)
\* Mutant: nothing is demoted.
PutOnly(id, def) == [flow EXCEPT ![id] = def]
Upserted(id, def) ==
  [f \in FlowIds |->
     IF f = id THEN def
     ELSE IF def.enabled /\ OfTenant(f, def.tenant) THEN [flow[f] EXCEPT !.enabled = FALSE]
     ELSE flow[f]]
UpsertFlow(r) ==
  LET h == request[r] IN
  /\ At(r, "upsert")
  /\ Answer(r)
  /\ \/ flow' = Upserted(h.id, h.copy) /\ Heard
     \/ Unheard /\ UNCHANGED flow
  /\ UNCHANGED <<owner, settings, types, nextFlow, Clients, Developers>>
DeleteFlow(r) ==
  LET h == request[r] IN
  /\ At(r, "flow") /\ h.op = "delete"
  /\ Answer(r)
  /\ \/ flow' = [flow EXCEPT ![h.id] = IF OfTenant(h.id, h.at) THEN NoFlow ELSE @] /\ Heard
     \/ Unheard /\ UNCHANGED flow
  /\ UNCHANGED <<owner, settings, types, nextFlow, Clients, Developers>>

-----------------------------------------------------------------------------
(* Staff: RegisterClient puts a row without secret over whatever is there;   *)
(* SetWorkspaceOwner hands the workspace over, also under a request.         *)
StaffRegisterClient(c, t, uri) ==
  /\ nextMade < MaxMade
  /\ nextMade' = nextMade + 1
  /\ client' = [client EXCEPT ![c] = [tenant |-> t, secret |-> 0, uri |-> uri, made |-> nextMade']]
  /\ shown' = [shown EXCEPT ![c] = 0]
  /\ IF \E r \in Requests : Busy(r) THEN Trouble("overlap") ELSE Calm
  /\ UNCHANGED <<Workspace, nextSecret, Developers, request>>
StaffDeleteClient(c) ==
  /\ client[c] # NoClient
  /\ client' = [client EXCEPT ![c] = NoClient]
  /\ shown' = [shown EXCEPT ![c] = 0]
  /\ IF \E r \in Requests : Busy(r) THEN Trouble("overlap") ELSE Calm
  /\ UNCHANGED <<Workspace, nextMade, nextSecret, Developers, request>>
Reassign(t, e) ==
  /\ owner[t] # e
  /\ owner' = [owner EXCEPT ![t] = e]
  /\ request' = [r \in Requests |->
       IF Busy(r) /\ request[r].op \in Ops /\ request[r].email = e
       THEN [request[r] EXCEPT !.rights = @ \cup {t}] ELSE request[r]]
  /\ UNCHANGED <<settings, types, flow, nextFlow, Clients, Developers, mishaps>>

-----------------------------------------------------------------------------
(* The developer console: sign-in through the Google leg, logout (whose      *)
(* store error is ignored), and the end of the session by time.              *)
DevSignIn ==
  /\ ~developer /\ developer' = TRUE
  /\ UNCHANGED <<Workspace, Clients, remembered, trip, exchanged, request, mishaps>>
DevLogout ==
  /\ developer
  /\ \/ developer' = FALSE /\ Calm
     \/ UNCHANGED developer /\ Trouble("fault")
  /\ UNCHANGED <<Workspace, Clients, remembered, trip, exchanged, request>>

(* RegisterClient: an id that is taken is refused, then the row is put.      *)
DevRegister(r, c, uri) ==
  /\ ~Busy(r) /\ developer /\ Overlaps(r)
  /\ Go(r, [op |-> "register", step |-> "lookup", id |-> c, uri |-> uri])
  /\ UNCHANGED <<Workspace, Clients, Developers>>
IdFree(c) == client[c] = NoClient
DevLookup(r) ==
  /\ At(r, "lookup")
  /\ IF IdFree(request[r].id) THEN Goto(r, "put") ELSE Answer(r)
  /\ UNCHANGED <<Workspace, Clients, Developers, mishaps>>
DevPut(r) ==
  LET h == request[r] IN
  /\ At(r, "put") /\ h.op = "register"
  /\ nextMade < MaxMade
  /\ Answer(r)
  /\ \/ /\ nextMade' = nextMade + 1
        /\ client' = [client EXCEPT ![h.id] =
             [tenant |-> DevTenant, secret |-> 0, uri |-> h.uri, made |-> nextMade']]
        /\ shown' = [shown EXCEPT ![h.id] = 0]
        /\ remembered' = remembered \cup {h.id}
        /\ Heard
     \/ Unheard /\ UNCHANGED <<client, nextMade, shown, remembered>>
  /\ UNCHANGED <<Workspace, nextSecret, developer, trip, exchanged>>

(* StartOIDC stores a round trip under a new state; the callback takes it    *)
(* and sends its code to /token.                                             *)
StartOIDC(x, c) ==
  /\ developer /\ client[c] # NoClient /\ trip[x] = "none"
  /\ trip' = [trip EXCEPT ![x] = "out"]
  /\ UNCHANGED <<Workspace, Clients, developer, remembered, exchanged, request, mishaps>>
\* Mutant: the round trip is read and stays.
PeekOIDCFlow(x) == UNCHANGED trip
TakeOIDCFlow(x) == trip' = [trip EXCEPT ![x] = "gone"]
OIDCCallback(r, x) ==
  /\ ~Busy(r) /\ trip[x] = "out" /\ Overlaps(r)
  /\ TakeOIDCFlow(x)
  /\ Go(r, [op |-> "exchange", step |-> "token", id |-> x])
  /\ UNCHANGED <<Workspace, Clients, developer, remembered, exchanged>>
ExchangeCode(r) ==
  /\ At(r, "token")
  /\ exchanged' = [exchanged EXCEPT ![request[r].id] = @ + 1]
  /\ Answer(r)
  /\ UNCHANGED <<Workspace, Clients, developer, remembered, trip, mishaps>>
TripLapses(x) ==
  /\ trip[x] = "out" /\ Trouble("lapse")
  /\ trip' = [trip EXCEPT ![x] = "gone"]
  /\ UNCHANGED <<Workspace, Clients, developer, remembered, exchanged, request>>

(* Handlers, remembered clients and round trips live in the process.         *)
Restart ==
  /\ Trouble("restart")
  /\ request' = [r \in Requests |-> Idle]
  /\ remembered' = {}
  /\ trip' = [x \in States |-> IF trip[x] = "out" THEN "gone" ELSE trip[x]]
  /\ UNCHANGED <<Workspace, Clients, developer, exchanged>>

-----------------------------------------------------------------------------
Args(op) == CASE op = "uris" -> Uris
              [] op \in {"set", "clear"} -> Settings
              [] op \in {"define", "undefine"} -> TypeNames
              [] OTHER -> {""}
Ids(op) == IF op \in FlowOps \ {"create"} THEN 1..nextFlow ELSE {0}

Init ==
  /\ owner \in [Tenants -> Emails]
  /\ settings = [t \in Tenants |-> {}] /\ types = {}
  /\ flow = [f \in FlowIds |-> NoFlow]
  /\ client = [c \in ClientIds |-> NoClient]
  /\ nextFlow = 0 /\ nextMade = 0 /\ nextSecret = 0
  /\ developer = FALSE /\ remembered = {}
  /\ trip = [x \in States |-> "none"]
  /\ request = [r \in Requests |-> Idle]
  /\ mishaps = {}
  /\ shown = [c \in ClientIds |-> 0]
  /\ exchanged = [x \in States |-> 0]

Step(r) ==
  /\ Busy(r)
  /\ \/ CurrentOwner(r) \/ TenantClient(r) \/ RegenerateSecret(r) \/ UpdateClient(r)
     \/ EditSettings(r) \/ EditTypes(r) \/ NewFlow(r) \/ GetFlow(r) \/ UpsertFlow(r) \/ DeleteFlow(r)
     \/ DevLookup(r) \/ DevPut(r) \/ ExchangeCode(r)

Next ==
  \/ \E r \in Requests : Step(r)
  \/ \E r \in Requests, op \in Ops, e \in Emails, t \in Tenants :
       \E id \in Ids(op), arg \in Args(op) : OwnerRequest(r, op, e, t, id, arg)
  \/ \E c \in ClientIds, t \in Tenants, uri \in Uris : StaffRegisterClient(c, t, uri)
  \/ \E c \in ClientIds : StaffDeleteClient(c)
  \/ \E t \in Tenants, e \in Emails : Reassign(t, e)
  \/ DevSignIn \/ DevLogout
  \/ \E r \in Requests, c \in ClientIds, uri \in Uris : DevRegister(r, c, uri)
  \/ \E x \in States, c \in ClientIds : StartOIDC(x, c)
  \/ \E r \in Requests, x \in States : OIDCCallback(r, x)
  \/ \E x \in States : TripLapses(x)
  \/ Restart

Spec == Init /\ [][Next]_vars

-----------------------------------------------------------------------------
(* The types of the variables.                                               *)
TypeOK ==
  /\ owner \in [Tenants -> Emails]
  /\ settings \in [Tenants -> SUBSET Settings]
  /\ types \subseteq Tenants \X TypeNames
  /\ flow \in [FlowIds -> Flow \cup {NoFlow}]
  /\ client \in [ClientIds -> Client \cup {NoClient}]
  /\ nextFlow \in 0..NumFlows /\ nextMade \in 0..MaxMade /\ nextSecret \in 0..MaxSecrets
  /\ developer \in BOOLEAN /\ remembered \subseteq ClientIds
  /\ trip \in [States -> {"none", "out", "gone"}]
  /\ request \in [Requests -> Handler \cup {Idle}]
  /\ mishaps \subseteq Kinds
  /\ shown \in [ClientIds -> 0..MaxSecrets]
  /\ exchanged \in [States -> Nat]

(* An owner's request changes rows only of the workspace it is for, and only *)
(* while or after its sender owned that workspace (currentOwner); one        *)
(* request at a time a developer takes no client that exists.                *)
Acting(r, t) == Busy(r) /\ request'[r] = Idle /\ request[r].op \in Ops
                /\ request[r].at = t /\ t \in request[r].rights
RowsEntitled ==
  /\ \A t \in Tenants : \/ settings'[t] # settings[t]
                        \/ {n \in TypeNames : <<t, n>> \in types'} # {n \in TypeNames : <<t, n>> \in types}
       => \E r \in Requests : Acting(r, t)
  /\ \A f \in FlowIds : flow'[f] # flow[f] =>
       \E r \in Requests : \A row \in {flow[f], flow'[f]} \ {NoFlow} : Acting(r, row.tenant)
ClientsEntitled ==
  \A c \in ClientIds : client'[c] # client[c] /\ request' # request =>
    \E r \in Requests :
      \/ client'[c] # NoClient /\ Acting(r, client'[c].tenant)
      \/ Does(r, "register") /\ ("overlap" \in mishaps \/ client[c] = NoClient)

(* At most one flow of a workspace is enabled.                               *)
OneEnabledFlow ==
  \A t \in Tenants : Cardinality({f \in FlowIds : OfTenant(f, t) /\ flow[f].enabled}) <= 1

(* One request at a time, with every answer heard, the secret an owner was   *)
(* shown last is the one the client has.                                     *)
LastShownOpens ==
  mishaps \cap {"overlap", "fault"} = {} =>
    \A c \in ClientIds : client[c] # NoClient => client[c].secret = shown[c]

(* A round trip's code goes to /token once, however the callback is called.  *)
TripExchangedOnce == \A x \in States : exchanged[x] <= 1
=============================================================================
