----------------------------- MODULE Workspaces -----------------------------
(***************************************************************************)
(* The people of the consoles of authentication-service: sign-up and       *)
(* sign-in of workspace owners after the Google leg, the sessions they act *)
(* with, the staff accounts, and what staff do to workspaces and sessions. *)
(* A handler reads, decides and writes in separate store calls.            *)
(***************************************************************************)
EXTENDS Naturals, FiniteSets, Sequences

CONSTANTS
  Requests,      \* handlers in flight at most
  Tenants,       \* workspace ids, each made of the slug it is named for
  Emails, Nobody,
  EndUsers,      \* pairs <<t, e>>: users of tenants the registry lacks at first
  Founded, Founder,         \* workspaces there at first, and their owner
  AdminEmails, RootEmails,  \* ADMIN_EMAILS, ROOT_EMAILS
  NumSessions,   \* bound: sessions created
  MaxMishaps     \* bound: kinds of trouble one behaviour mixes

Staging == {"ten_signup", "ten_admin"}
Roles == {"administrator", "other"}   \* architect, executive and operator
                                      \* carry no permission on tenants
OwnerOps == {"switch", "logout", "revoke"}
StaffOps == {"assign", "expel"}
SignInOps == {"signup", "signin", "select"}
Kinds == {"overlap", "fault", "lapse", "demotion", "restart"}

ConstantsOK ==
  /\ NumSessions \in Nat /\ IsFiniteSet(Requests)
  /\ Tenants \cap Staging = {} /\ Nobody \notin Emails
  /\ EndUsers \subseteq Tenants \X Emails
  /\ Founded \subseteq Tenants /\ (Founded # {} => Founder \in Emails)

VARIABLES
  tenant,    \* the registry: owner, and whether the slug is a name or the id
  user,      \* users of workspaces, by tenant and email
  client,    \* workspaces with the client sign-up made for them
  session,   \* sessions, of workspaces and of the staging tenants
  picking,   \* staging sessions a workspace picker was shown for
  staff,     \* staff_users and staff_user_roles
  request,
  mishaps    \* history: the kinds of trouble so far

vars == <<tenant, user, client, session, picking, staff, request, mishaps>>
Registry == <<tenant, user, client>>
Rows == <<tenant, user, client, session, picking, staff>>

NoTenant == [by |-> Nobody, slug |-> "none"]
NoStaff == [active |-> FALSE, roles |-> {}]
Sessions == 1..NumSessions

(* live: neither invalidated nor expired.  bought is history: how many owner *)
(* sessions a staging session was exchanged for by a pick.                   *)
Session == [at : Tenants \cup Staging, email : Emails, live : BOOLEAN, bought : Nat]

(* by is the session of the cookie, at the workspace it concerns, target the *)
(* session to revoke, to the new owner.  rights and admin are history: the   *)
(* workspaces email owned at some time since the request began, and whether  *)
(* it was an active administrator then.                                      *)
Handler == [op : OwnerOps \cup StaffOps \cup SignInOps \cup {"enter", "leave"},
            step : {"tenant", "check", "find", "drop", "owned", "slug", "provision",
                    "user", "create", "mint", "staff", "roles", "assign"},
            by : Sessions, email : Emails, at : Tenants \cup Staging,
            target : Sessions, to : Emails, rights : SUBSET Tenants, admin : BOOLEAN]
Idle == [step |-> "idle"]
Busy(r) == request[r] # Idle

Go(r, h) == request' = [request EXCEPT ![r] = h]
Answer(r) == Go(r, Idle)
At(r, step) == request[r].step = step
Goto(r, step) == Go(r, [request[r] EXCEPT !.step = step])

(* Calm: no trouble in this step.  Trouble(k): trouble of kind k.            *)
Calm == UNCHANGED mishaps
Trouble(kind) == /\ mishaps' = mishaps \cup {kind}
                 /\ Cardinality(mishaps') <= MaxMishaps
Overlaps(r) == IF \E q \in Requests : Busy(q) THEN Trouble("overlap") ELSE Calm

Owned(e) == {t \in Tenants : tenant[t].by = e}
IsAllowed(e) == e \in AdminEmails \cup RootEmails
IsAdmin(e) == IsAllowed(e) /\ staff[e].active /\ "administrator" \in staff[e].roles

(* Bound: a handler that signs in or switches may yet create a session.      *)
Minting == SignInOps \cup {"switch"}
Room == Len(session) + Cardinality({q \in Requests : Busy(q) /\ request[q].op \in Minting})
          < NumSessions

(* The Google leg ends with a fresh session in the staging tenant.           *)
GoogleLeg(at, e) ==
  /\ Room
  /\ session' = Append(session, [at |-> at, email |-> e, live |-> TRUE, bought |-> 0])
  /\ UNCHANGED <<Registry, picking, staff, request, mishaps>>

(* Every handler first reads the session its cookie or query names.          *)
Arrive(r, op, s, step, at, target, to) ==
  /\ ~Busy(r) /\ Overlaps(r)
  /\ op \in Minting => Room
  /\ s \in DOMAIN session /\ session[s].live
  /\ Go(r, [op |-> op, step |-> step, by |-> s, email |-> session[s].email, at |-> at,
            target |-> target, to |-> to, rights |-> Owned(session[s].email),
            admin |-> IsAdmin(session[s].email)])
  /\ UNCHANGED Rows

SignupCallback(r, s, t) ==
  session[s].at = "ten_signup" /\ Arrive(r, "signup", s, "owned", t, s, session[s].email)
OwnerCallback(r, s) ==
  session[s].at = "ten_signup" /\ Arrive(r, "signin", s, "owned", "ten_signup", s, session[s].email)
OwnerSelect(r, s, t) ==
  s \in picking /\ Arrive(r, "select", s, "check", t, s, session[s].email)

-----------------------------------------------------------------------------
(* currentOwner: a live session of the workspace, and after it the tenant    *)
(* row and the user, whose email must be the owner's.                        *)
OwnerRequest(r, op, s, t, target) ==
  /\ session[s].at \in Tenants
  /\ op = "switch" => t # session[s].at
  /\ Arrive(r, op, s, "tenant", t, target, session[s].email)

\* Mutant: any session of the workspace will do.
AnySessionOwns(t, e) == tenant[t] # NoTenant
OwnsWorkspace(t, e) == tenant[t].by = e

CurrentOwner(r) ==
  LET h == request[r] IN
  /\ At(r, "tenant")
  /\ IF ~OwnsWorkspace(session[h.by].at, h.email) THEN Answer(r)
     ELSE Goto(r, CASE h.op = "switch" -> "check"
                    [] h.op = "logout" -> "drop"
                    [] h.op = "revoke" -> "find")
  /\ UNCHANGED <<Rows, mishaps>>

(* isWorkspaceOwner, for the workspace picked or switched to.                *)
IsWorkspaceOwner(r) ==
  LET h == request[r] IN
  /\ At(r, "check")
  /\ IF OwnsWorkspace(h.at, h.email) THEN Goto(r, "drop") ELSE Answer(r)
  /\ UNCHANGED <<Rows, mishaps>>

(* revokeSession reads the session in the workspace the caller may act on.   *)
InWorkspace(h) == session[h.target].at = h.at
FindSession(r) ==
  LET h == request[r] IN
  /\ At(r, "find")
  /\ IF InWorkspace(h) /\ session[h.target].live THEN Goto(r, "drop") ELSE Answer(r)
  /\ UNCHANGED <<Rows, mishaps>>

(* UpdateSession with invalidated_at; its error is ignored where a new       *)
(* session follows or a cookie is cleared anyway.                            *)
\* Mutant: a pick's staging session stays.
SkipsTarget(h) == IF h.op = "select" THEN {} ELSE {h.target}
Dropped(h) == {h.target}
DropSession(r) ==
  LET h == request[r] IN
  /\ At(r, "drop")
  /\ \/ /\ session' = [s \in DOMAIN session |->
             [session[s] EXCEPT !.live = @ /\ s \notin Dropped(h)]]
        /\ Calm
     \/ UNCHANGED session /\ Trouble("fault")
  /\ IF h.op \in {"switch", "select"} THEN Goto(r, "user") ELSE Answer(r)
  /\ UNCHANGED <<Registry, picking, staff>>

-----------------------------------------------------------------------------
(* ownedTenants at the two callbacks: a sign-up for a name its owner already *)
(* holds signs in; an owner of several workspaces is asked to pick.          *)
SignupOwned(r) ==
  LET h == request[r] IN
  /\ At(r, "owned") /\ h.op = "signup"
  /\ Goto(r, IF OwnsWorkspace(h.at, h.email) /\ tenant[h.at].slug = "name"
             THEN "user" ELSE "slug")
  /\ UNCHANGED <<Rows, mishaps>>

SigninOwned(r) ==
  LET h == request[r]  owned == Owned(h.email) IN
  /\ At(r, "owned") /\ h.op = "signin"
  /\ CASE owned = {} -> Answer(r) /\ UNCHANGED picking
       [] Cardinality(owned) = 1 ->
            /\ \E t \in owned : Go(r, [h EXCEPT !.step = "user", !.at = t])
            /\ UNCHANGED picking
       [] OTHER -> Answer(r) /\ picking' = picking \cup {h.by}
  /\ UNCHANGED <<Registry, session, staff, mishaps>>

(* GetTenantBySlug: a synthesized row carries its id for a slug.             *)
SlugFree(r) ==
  /\ At(r, "slug")
  /\ IF tenant[request[r].at].slug = "name" THEN Answer(r) ELSE Goto(r, "provision")
  /\ UNCHANGED <<Rows, mishaps>>

(* The workspaces request q's email has owned since q began.                 *)
Entitle(t, e) ==
  [q \in Requests |-> IF Busy(q) /\ request[q].email = e
                      THEN [request[q] EXCEPT !.rights = @ \cup {t}] ELSE request[q]]

(* ProvisionTenant: tenant, user, session and client in one transaction; any *)
(* key already there makes it a conflict.                                    *)
Provisionable(t, e) == tenant[t] = NoTenant /\ <<t, e>> \notin user
ProvisionTenant(r) ==
  LET h == request[r] IN
  /\ At(r, "provision")
  /\ Provisionable(h.at, h.email)
  /\ tenant' = [tenant EXCEPT ![h.at] = [by |-> h.email, slug |-> "name"]]
  /\ user' = user \cup {<<h.at, h.email>>}
  /\ session' = Append(session, [at |-> h.at, email |-> h.email, live |-> TRUE, bought |-> 0])
  /\ client' = client \cup {h.at}
  /\ request' = [Entitle(h.at, h.email) EXCEPT ![r] = Idle]
  /\ UNCHANGED <<picking, staff, mishaps>>
ProvisionFails(r) ==
  LET h == request[r] IN
  /\ At(r, "provision")
  /\ Answer(r)
  /\ IF Provisionable(h.at, h.email) THEN Trouble("fault") ELSE Calm
  /\ UNCHANGED Rows

(* mintOwnerSession: the owner's user row is looked up, created when         *)
(* missing, and a session made for it.                                       *)
\* Mutant: the email is looked up in every tenant.
UserAnywhere(t, e) == \E u \in Tenants : <<u, e>> \in user
GetUserByEmail(t, e) == <<t, e>> \in user
FindUser(r) ==
  LET h == request[r] IN
  /\ At(r, "user")
  /\ Goto(r, IF GetUserByEmail(h.at, h.email) THEN "mint" ELSE "create")
  /\ UNCHANGED <<Rows, mishaps>>
CreateUser(r) ==
  LET h == request[r] IN
  /\ At(r, "create")
  /\ IF <<h.at, h.email>> \in user THEN Answer(r) /\ UNCHANGED user
     ELSE Goto(r, "mint") /\ user' = user \cup {<<h.at, h.email>>}
  /\ UNCHANGED <<tenant, client, session, picking, staff, mishaps>>
MintOwnerSession(r) ==
  LET h == request[r]
      paid == IF h.op = "select" THEN [session EXCEPT ![h.by].bought = @ + 1] ELSE session
  IN /\ At(r, "mint")
     /\ session' = Append(paid, [at |-> h.at, email |-> h.email, live |-> TRUE, bought |-> 0])
     /\ Answer(r)
     /\ UNCHANGED <<Registry, picking, staff, mishaps>>
MintFails(r) ==
  /\ \E step \in {"create", "mint"} : At(r, step)
  /\ Answer(r) /\ Trouble("fault")
  /\ UNCHANGED Rows

-----------------------------------------------------------------------------
(* Staff.  The callback of their sign-in and the logout only ever end the    *)
(* session; a session of ten_admin is what the cookie holds.                 *)
StaffCallback(r, s) ==
  /\ session[s].at = "ten_admin" /\ ~IsAllowed(session[s].email)
  /\ Arrive(r, "enter", s, "drop", "ten_admin", s, session[s].email)
StaffLogout(r, s) ==
  /\ session[s].at = "ten_admin"
  /\ Arrive(r, "leave", s, "drop", "ten_admin", s, session[s].email)

(* currentAdmin: the session and the allow list, the staff row, its roles.   *)
StaffRequest(r, op, s, t, target, to) ==
  /\ session[s].at = "ten_admin" /\ IsAllowed(session[s].email)
  /\ Arrive(r, op, s, "staff", t, target, to)
StaffActive(r) ==
  /\ At(r, "staff")
  /\ IF staff[request[r].email].active THEN Goto(r, "roles") ELSE Answer(r)
  /\ UNCHANGED <<Rows, mishaps>>
HasPermission(roles) == "administrator" \in roles
StaffRoles(r) ==
  LET h == request[r] IN
  /\ At(r, "roles")
  /\ IF HasPermission(staff[h.email].roles)
     THEN Goto(r, IF h.op = "assign" THEN "assign" ELSE "find")
     ELSE Answer(r)
  /\ UNCHANGED <<Rows, mishaps>>

(* SetTenantOwner: the row's owner, or a row whose slug is the tenant's id.  *)
SetTenantOwner(r) ==
  LET h == request[r] IN
  /\ At(r, "assign")
  /\ tenant' = [tenant EXCEPT ![h.at] =
       [by |-> h.to, slug |-> IF @ = NoTenant THEN "id" ELSE @.slug]]
  /\ request' = [Entitle(h.at, h.to) EXCEPT ![r] = Idle]
  /\ UNCHANGED <<user, client, session, picking, staff, mishaps>>
AssignFails(r) ==
  /\ At(r, "assign") /\ Answer(r) /\ Trouble("fault")
  /\ UNCHANGED Rows

(* ensureStaff, for ADMIN_EMAILS and then for ROOT_EMAILS: a missing account *)
(* is made, a disabled one only a root's is touched.                         *)
\* Mutant: every allowed account is put back.
Reactivated(e, row) == [active |-> TRUE, roles |-> row.roles \cup {"administrator"}]
Ensured(e, row) ==
  CASE e \in RootEmails -> [active |-> TRUE, roles |-> row.roles \cup Roles]
    [] row = NoStaff \/ row.active ->
         [active |-> TRUE, roles |-> row.roles \cup {"administrator"}]
    [] OTHER -> row
Booted(rows) ==
  [e \in Emails |-> IF IsAllowed(e) THEN Ensured(e, rows[e]) ELSE rows[e]]
Restart ==
  /\ IF \E r \in Requests : Busy(r) THEN Trouble("restart") ELSE Calm
  /\ staff' = Booted(staff)
  /\ request' = [r \in Requests |-> Idle]
  /\ UNCHANGED <<Registry, session, picking>>

(* Staff rows change by hand: an account is disabled or loses a role.        *)
Demote(e) ==
  /\ staff[e].active /\ Trouble("demotion")
  /\ staff' = [staff EXCEPT ![e].active = FALSE]
  /\ UNCHANGED <<Registry, session, picking, request>>
StripRole(e, role) ==
  /\ role \in staff[e].roles /\ Trouble("demotion")
  /\ staff' = [staff EXCEPT ![e].roles = @ \ {role}]
  /\ UNCHANGED <<Registry, session, picking, request>>

(* A session's time is up.                                                   *)
Lapse(s) ==
  /\ session[s].live /\ Trouble("lapse")
  /\ session' = [session EXCEPT ![s].live = FALSE]
  /\ UNCHANGED <<Registry, picking, staff, request>>

Step(r) ==
  /\ Busy(r)
  /\ \/ CurrentOwner(r) \/ IsWorkspaceOwner(r) \/ FindSession(r) \/ DropSession(r)
     \/ SignupOwned(r) \/ SigninOwned(r) \/ SlugFree(r)
     \/ ProvisionTenant(r) \/ ProvisionFails(r)
     \/ FindUser(r) \/ CreateUser(r) \/ MintOwnerSession(r) \/ MintFails(r)
     \/ StaffActive(r) \/ StaffRoles(r) \/ SetTenantOwner(r) \/ AssignFails(r)

Begin(r, s) ==
  /\ ~Busy(r)
  /\ \/ OwnerCallback(r, s) \/ StaffCallback(r, s) \/ StaffLogout(r, s)
     \/ \E t \in Tenants : SignupCallback(r, s, t) \/ OwnerSelect(r, s, t)
     \/ \E t \in Tenants : OwnerRequest(r, "switch", s, t, s)
     \/ OwnerRequest(r, "logout", s, session[s].at, s)
     \/ \E target \in DOMAIN session : OwnerRequest(r, "revoke", s, session[s].at, target)
     \/ \E t \in Tenants, to \in Emails : StaffRequest(r, "assign", s, t, s, to)
     \/ \E target \in DOMAIN session :
          /\ session[target].at \in Tenants
          /\ StaffRequest(r, "expel", s, session[target].at, target, session[s].email)

Init ==
  /\ tenant = [t \in Tenants |-> IF t \in Founded THEN [by |-> Founder, slug |-> "name"]
                                ELSE NoTenant]
  /\ user = EndUsers \cup (Founded \X {Founder}) /\ client = Founded
  /\ session = <<>> /\ picking = {}
  /\ staff = Booted([e \in Emails |-> NoStaff])
  /\ request = [r \in Requests |-> Idle]
  /\ mishaps = {}

Next ==
  \/ \E r \in Requests : Step(r)
  \/ \E r \in Requests, s \in DOMAIN session : Begin(r, s)
  \/ \E at \in Staging, e \in Emails : GoogleLeg(at, e)
  \/ \E e \in Emails : Demote(e)
  \/ \E e \in Emails, role \in Roles : StripRole(e, role)
  \/ \E s \in DOMAIN session : Lapse(s)
  \/ Restart

Spec == Init /\ [][Next]_vars

-----------------------------------------------------------------------------
(* The types of the variables.                                               *)
TypeOK ==
  /\ tenant \in [Tenants -> [by : Emails \cup {Nobody}, slug : {"none", "id", "name"}]]
  /\ user \subseteq Tenants \X Emails
  /\ client \subseteq Tenants
  /\ session \in Seq(Session) /\ Len(session) <= NumSessions
  /\ picking \subseteq DOMAIN session
  /\ staff \in [Emails -> [active : BOOLEAN, roles : SUBSET Roles]]
  /\ request \in [Requests -> Handler \cup {Idle}]
  /\ mishaps \subseteq Kinds

(* Registered workspaces change hands only by someone who was an active      *)
(* administrator when the request began (admin_console.go:624), a session in *)
(* a workspace is made only for an email that owned it since the request     *)
(* began or signs up for it, and only such an owner, staff or the session's  *)
(* own holder ends one.                                                      *)
RegistryEntitled ==
  \A t \in Tenants : tenant'[t] # tenant[t] /\ tenant[t] # NoTenant =>
    \E r \in Requests : At(r, "assign") /\ request[r].admin
SessionsEntitled ==
  \A s \in DOMAIN session' : session'[s].at \in Tenants =>
    /\ s \notin DOMAIN session => \E r \in Requests :
         /\ Busy(r) /\ request'[r] = Idle /\ request[r].email = session'[s].email
         /\ session'[s].at \in request[r].rights \/ tenant[session'[s].at] = NoTenant
    /\ s \in DOMAIN session /\ session[s].live /\ ~session'[s].live
         /\ request' # request =>
         \E r \in Requests : /\ Busy(r) /\ request'[r] # request[r]
                             /\ \/ /\ session[s].at = session[request[r].by].at
                                   /\ session[s].at \in request[r].rights
                                \/ request[r].admin

(* A deactivation sticks across restarts, except for the break-glass         *)
(* accounts (admin_console.go:87-91).                                        *)
DeactivationSticks ==
  \A e \in Emails \ RootEmails :
    staff[e] # NoStaff /\ ~staff[e].active => ~staff'[e].active

(* A workspace that came from sign-up has a user for its founder and a       *)
(* client, and no session exists in a workspace without its user.            *)
SignedUpWhole ==
  /\ \A t \in Tenants : tenant[t].slug = "name" =>
       t \in client /\ \E e \in Emails : <<t, e>> \in user
  /\ \A s \in DOMAIN session : session[s].at \in Tenants =>
       /\ <<session[s].at, session[s].email>> \in user
       /\ tenant[session[s].at] # NoTenant

(* One request at a time, with the store up, a pick is good for one session  *)
(* (signup_console.go:467).                                                  *)
PickBuysOne ==
  mishaps \cap {"overlap", "fault"} = {} =>
    \A s \in DOMAIN session : session[s].bought <= 1
=============================================================================
