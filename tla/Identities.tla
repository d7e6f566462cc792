------------------------------ MODULE Identities ------------------------------
(***************************************************************************)
(* Who a sign-in becomes: the users and identity anchors of one tenant in  *)
(* authentication-service, and every handler that creates, finds, links or *)
(* removes them: phone sign-in with its one-time codes and its Google link,*)
(* social sign-in, mDL enrolment, the users API, the owner's console.      *)
(* Each call of the store or of a peer is a step.                          *)
(***************************************************************************)
EXTENDS Naturals, FiniteSets

CONSTANTS
  Requests,   \* handlers in flight at most
  Phones, Emails, Issuers,   \* numbers; addresses; trust anchors of licences
  NoValue,    \* the absent email
  NumUsers,   \* bound: accounts ever created
  NumFlows,   \* bound: phone flows started
  NumStates,  \* bound: social sign-ins started
  MaxOTP,     \* phoneMaxOTP
  Reusable,   \* the stub accepts its code again, the provider does not
  MaxMishaps  \* bound: kinds of trouble one behaviour mixes

Users == 1..NumUsers
Nobody == 0
FlowIds == 1..NumFlows
States == 1..NumStates

(* What the proofs ask of the constants: phoneMaxOTP is not zero, and the    *)
(* absent email is no email and no number.                                   *)
ConstantsOK ==
  /\ {NumUsers, NumFlows, NumStates, MaxMishaps} \subseteq Nat
  /\ MaxOTP \in Nat \ {0} /\ Reusable \in BOOLEAN
  /\ NoValue \notin Phones \cup Emails \cup {"none"} /\ "none" \notin Emails

VARIABLES
  email,    \* users: id -> email, or "none" for no such row
  owner,    \* phone anchors: number -> user
  licence,  \* mdl anchors: trust anchor -> user
  flow,     \* PhoneLoginHandlers.otps: id -> pendingPhoneOTP, or NoFlow
  link,     \* PhoneLoginHandlers.links, by the user they are for
  stale,    \* flows and links past their TTL
  texted,   \* numbers with a code outstanding at the provider
  pending,  \* SocialHandlers.pending
  request,  \* handlers
  mishaps,  \* history: kinds of trouble so far
  started,  \* history: flows and states handed out so far
  born,     \* history: users created so far
  guesses,  \* history: wrong codes each flow has taken
  logins,   \* history: <<number, user>> of the sessions opened by phone
  bought,   \* history: sessions each social state has opened
  refused,  \* history: users whose verified licence was not stored
  freed     \* history: numbers whose anchor was removed or replaced

vars == <<email, owner, licence, flow, link, stale, texted, pending, request,
          mishaps, started, born, guesses, logins, bought, refused, freed>>
Rows == <<email, owner, licence, born>>
Memory == <<flow, link, stale, pending, started>>
History == <<guesses, logins, bought, refused, freed>>

NoFlow == [phone |-> NoValue, isNew |-> FALSE, tries |-> 0]
Flow == [phone : Phones, isNew : BOOLEAN, tries : 0..MaxOTP]
Values == Phones \cup Emails \cup Issuers \cup {NoValue}
Handler == [step : {"check", "miss", "hit", "anchor", "load", "create", "bind",
                    "rollback", "session", "profile", "byEmail", "restart",
                    "linkload", "linkwrite", "unlink", "patch", "clear", "set",
                    "mdlclear", "mdlset"},
            flow : 0..NumFlows, state : 0..NumStates, phone : Phones \cup {NoValue},
            isNew : BOOLEAN, tries : 0..MaxOTP, user : {Nobody} \cup Users, value : Values]
Idle == [step |-> "idle"]
Blank == [step |-> "check", flow |-> 0, state |-> 0, phone |-> NoValue, isNew |-> FALSE,
          tries |-> 0, user |-> Nobody, value |-> NoValue]
Busy(r) == request[r] # Idle
At(r, step) == request[r].step = step
Go(r, h) == request' = [request EXCEPT ![r] = h]
Answer(r) == Go(r, Idle)
Goto(r, step) == Go(r, [request[r] EXCEPT !.step = step])

Calm == UNCHANGED mishaps
Trouble(kind) == /\ mishaps' = mishaps \cup {kind}
                 /\ Cardinality(mishaps') <= MaxMishaps
Overlaps == IF \E s \in Requests : Busy(s) THEN Trouble("overlap") ELSE Calm
Begin(r, h) == ~Busy(r) /\ Overlaps /\ Go(r, h)

-----------------------------------------------------------------------------
(* The rows.  A user without an email is unlimited, an email is unique; an   *)
(* anchor's value is unique in its type.                                     *)
Exists(u) == u \in Users /\ email[u] # "none"
UsersWith(e) == {u \in Users : e # NoValue /\ email[u] = e}
Collides(u, e) == UsersWith(e) \ {u} # {}
Held(u) == {p \in Phones : owner[p] = u}

NewUser(e) ==
  /\ born < NumUsers /\ born' = born + 1
  /\ email' = [email EXCEPT ![born + 1] = e]

-----------------------------------------------------------------------------
(* POST /login/phone: the anchor is looked up, a code is sent, the flow is    *)
(* parked with what the lookup said.  A failed send parks nothing.            *)
Submit(phone) ==
  /\ started[1] < NumFlows
  /\ started' = [started EXCEPT ![1] = @ + 1]
  /\ flow' = [flow EXCEPT ![started[1] + 1] =
                [phone |-> phone, isNew |-> owner[phone] = Nobody, tries |-> 0]]
  /\ texted' = texted \cup {phone}
  /\ UNCHANGED <<Rows, link, stale, pending, request, History, mishaps>>

(* POST /login/phone/verify: a copy of the flow, then the provider's verdict. *)
Has(f) == flow[f] # NoFlow /\ <<"flow", f>> \notin stale
Verify(r, f) ==
  /\ Has(f)
  /\ Begin(r, [Blank EXCEPT !.flow = f, !.phone = flow[f].phone,
                            !.isNew = flow[f].isNew, !.tries = flow[f].tries])
  /\ UNCHANGED <<Rows, Memory, texted, History>>

CheckCode(r) ==
  LET h == request[r] IN
  /\ At(r, "check")
  /\ \/ /\ h.phone \in texted
        /\ texted' = IF Reusable THEN texted ELSE texted \ {h.phone}
        /\ Goto(r, "hit")
        /\ UNCHANGED guesses
     \/ /\ guesses[h.flow] <= MaxOTP
        /\ guesses' = [guesses EXCEPT ![h.flow] = @ + 1]
        /\ Goto(r, "miss")
        /\ UNCHANGED texted
     \/ Answer(r) /\ UNCHANGED <<texted, guesses>>
  /\ UNCHANGED <<Rows, Memory, logins, bought, refused, freed, mishaps>>

(* The copy is written back with one more attempt, or the flow dropped.       *)
MissUncounted(r) ==
  LET h == request[r] IN
  /\ At(r, "miss")
  /\ flow' = [flow EXCEPT ![h.flow] = [phone |-> h.phone, isNew |-> h.isNew, tries |-> h.tries]]
  /\ Answer(r)
  /\ UNCHANGED <<Rows, link, stale, pending, started, texted, History, mishaps>>
MissKeeps(r) ==
  LET h == request[r] IN
  /\ At(r, "miss")
  /\ flow' = [flow EXCEPT ![h.flow] = [phone |-> h.phone, isNew |-> h.isNew, tries |-> h.tries + 1]]
  /\ Answer(r)
  /\ UNCHANGED <<Rows, link, stale, pending, started, texted, History, mishaps>>
Miss(r) ==
  LET h == request[r] IN
  /\ At(r, "miss")
  /\ flow' = [flow EXCEPT ![h.flow] =
                IF h.tries + 1 >= MaxOTP THEN NoFlow
                ELSE [phone |-> h.phone, isNew |-> h.isNew, tries |-> h.tries + 1]]
  /\ Answer(r)
  /\ UNCHANGED <<Rows, link, stale, pending, started, texted, History, mishaps>>

Hit(r) ==
  LET h == request[r] IN
  /\ At(r, "hit")
  /\ flow' = [flow EXCEPT ![h.flow] = NoFlow]
  /\ Go(r, [h EXCEPT !.step = IF h.isNew THEN "create" ELSE "anchor", !.flow = 0, !.tries = 0])
  /\ UNCHANGED <<Rows, link, stale, pending, started, texted, History, mishaps>>

(* resolveUser of a number that was known.                                    *)
Anchor(r) ==
  LET h == request[r] IN
  /\ At(r, "anchor")
  /\ IF owner[h.phone] = Nobody THEN Answer(r)
     ELSE Go(r, [h EXCEPT !.step = "load", !.user = owner[h.phone]])
  /\ UNCHANGED <<Rows, Memory, texted, History, mishaps>>

Load(r) ==
  /\ At(r, "load")
  /\ IF Exists(request[r].user) THEN Goto(r, "session") ELSE Answer(r)
  /\ UNCHANGED <<Rows, Memory, texted, History, mishaps>>

(* A new account: by phone without an email, by Google with one.  The email   *)
(* may meanwhile be somebody's: the sign-in fails.                            *)
Create(r) ==
  LET h == request[r] IN
  /\ At(r, "create")
  /\ IF Collides(Nobody, h.value)
     THEN Answer(r) /\ UNCHANGED <<email, born>>
     ELSE /\ NewUser(h.value)
          /\ Go(r, [h EXCEPT !.user = born + 1,
                             !.step = IF h.phone = NoValue THEN "session" ELSE "bind"])
  /\ UNCHANGED <<owner, licence, Memory, texted, History, mishaps>>

(* The anchor of a new number.  If another account took it, or the insert     *)
(* fails (with or without its effect), the new user is rolled back.           *)
BindAnyway(r) ==
  LET h == request[r] IN
  /\ At(r, "bind")
  /\ owner' = [owner EXCEPT ![h.phone] = h.user]
  /\ Goto(r, "session")
  /\ UNCHANGED <<email, born, licence, Memory, texted, History, mishaps>>
Bind(r) ==
  LET h == request[r] IN
  /\ At(r, "bind")
  /\ IF owner[h.phone] = Nobody
     THEN owner' = [owner EXCEPT ![h.phone] = h.user] /\ Goto(r, "session")
     ELSE Goto(r, "rollback") /\ UNCHANGED owner
  /\ UNCHANGED <<email, born, licence, Memory, texted, History, mishaps>>

BindFails(r) ==
  LET h == request[r] IN
  /\ At(r, "bind") /\ Trouble("fault")
  /\ owner' \in {owner, [owner EXCEPT ![h.phone] = IF @ = Nobody THEN h.user ELSE @]}
  /\ Goto(r, "rollback")
  /\ UNCHANGED <<email, born, licence, Memory, texted, History>>

RollbackSkipped(r) ==
  /\ At(r, "rollback")
  /\ Answer(r)
  /\ UNCHANGED <<Rows, Memory, texted, History, mishaps>>
Rollback(r) ==
  /\ At(r, "rollback")
  /\ email' = [email EXCEPT ![request[r].user] = "none"]
  /\ Answer(r)
  /\ UNCHANGED <<owner, born, licence, Memory, texted, History, mishaps>>

(* mintSession; a new phone account is offered a link.                        *)
OpenSession(r) ==
  LET h == request[r] IN
  /\ At(r, "session")
  /\ IF h.phone # NoValue
     THEN logins' = logins \cup {<<h.phone, h.user>>} /\ UNCHANGED bought
     ELSE bought' = [bought EXCEPT ![h.state] = @ + 1] /\ UNCHANGED logins
  /\ link' = IF h.phone # NoValue /\ h.isNew THEN [link EXCEPT ![h.user] = "offered"] ELSE link
  /\ Answer(r)
  /\ UNCHANGED <<Rows, flow, stale, pending, started, texted, guesses, refused, freed, mishaps>>

-----------------------------------------------------------------------------
(* Social sign-in: a state nonce, taken once; the provider's profile; upsert  *)
(* by email.  mDL enrolment signs in the same way.                            *)
SocialAuthorize ==
  /\ started[2] < NumStates
  /\ started' = [started EXCEPT ![2] = @ + 1]
  /\ pending' = pending \cup {started[2] + 1}
  /\ UNCHANGED <<Rows, flow, link, stale, texted, request, History, mishaps>>

CallbackPeeks(r, n) ==
  /\ n \in pending
  /\ Begin(r, [Blank EXCEPT !.step = "profile", !.state = n])
  /\ UNCHANGED <<Rows, Memory, texted, History>>
Callback(r, n) ==
  /\ n \in pending
  /\ Begin(r, [Blank EXCEPT !.step = "profile", !.state = n])
  /\ pending' = pending \ {n}
  /\ UNCHANGED <<Rows, flow, link, stale, started, texted, History>>

Profile(r) ==
  /\ At(r, "profile")
  /\ \/ \E e \in Emails : Go(r, [request[r] EXCEPT !.step = "byEmail", !.value = e])
     \/ Answer(r)
  /\ UNCHANGED <<Rows, Memory, texted, History, mishaps>>

ByEmail(r) ==
  LET h == request[r] IN
  /\ At(r, "byEmail")
  /\ IF UsersWith(h.value) = {} THEN Goto(r, "create")
     ELSE Go(r, [h EXCEPT !.step = "session", !.user = CHOOSE u \in UsersWith(h.value) : TRUE])
  /\ UNCHANGED <<Rows, Memory, texted, History, mishaps>>

-----------------------------------------------------------------------------
(* Linking Google to a new phone account.  Every handler copies the link;     *)
(* LinkStart writes its copy back.                                            *)
HasLink(u) == link[u] # "none" /\ <<"link", u>> \notin stale
OnLink(r, u, step, e) ==
  /\ HasLink(u)
  /\ Begin(r, [Blank EXCEPT !.step = step, !.user = u, !.value = e])
  /\ UNCHANGED <<Rows, Memory, texted, History>>
LinkStart(r, u) == OnLink(r, u, "restart", NoValue)
LinkCallback(r, u, e) == link[u] = "started" /\ OnLink(r, u, "linkload", e)
Skip(r, u) == OnLink(r, u, "unlink", NoValue)

PutLink(r) ==
  /\ At(r, "restart")
  /\ link' = [link EXCEPT ![request[r].user] = "started"]
  /\ Answer(r)
  /\ UNCHANGED <<Rows, flow, stale, pending, started, texted, History, mishaps>>

LinkLoad(r) ==
  /\ At(r, "linkload")
  /\ IF Exists(request[r].user) THEN Goto(r, "linkwrite") ELSE Answer(r)
  /\ UNCHANGED <<Rows, Memory, texted, History, mishaps>>

(* UpdateUser: the whole row; refused when the email is somebody else's.      *)
Written(u, e) ==
  email' = IF Exists(u) /\ ~Collides(u, e) THEN [email EXCEPT ![u] = e] ELSE email
WriteUser(r, next) ==
  /\ Written(request[r].user, request[r].value)
  /\ Go(r, next)
  /\ UNCHANGED <<owner, licence, born, Memory, texted, History, mishaps>>
LinkWrite(r) == At(r, "linkwrite") /\ WriteUser(r, [request[r] EXCEPT !.step = "unlink"])

DropLink(r) ==
  /\ At(r, "unlink")
  /\ link' = [link EXCEPT ![request[r].user] = "none"]
  /\ Answer(r)
  /\ UNCHANGED <<Rows, flow, stale, pending, started, texted, History, mishaps>>

-----------------------------------------------------------------------------
(* The users API.  PATCH reads the row and writes all of it; DELETE leaves    *)
(* the anchors of the user.                                                   *)
CreateUser(e) ==
  /\ ~Collides(Nobody, e) /\ NewUser(e)
  /\ UNCHANGED <<owner, licence, Memory, texted, request, History, mishaps>>

Patch(r, u) ==
  /\ Exists(u)
  /\ \E e \in Emails \cup {email[u]} :
       Begin(r, [Blank EXCEPT !.step = "patch", !.user = u, !.value = e])
  /\ UNCHANGED <<Rows, Memory, texted, History>>
PatchWrite(r) == At(r, "patch") /\ WriteUser(r, Idle)

DeleteUser(u) ==
  /\ Exists(u) /\ Trouble("deleted")
  /\ email' = [email EXCEPT ![u] = "none"]
  /\ UNCHANGED <<owner, licence, born, Memory, texted, request, History>>

-----------------------------------------------------------------------------
(* The owner's console: set a user's number (check, delete what they have,    *)
(* insert), remove an anchor, record a licence (delete, insert).              *)
SetUserPhone(r, u, phone) ==
  /\ Exists(u) /\ owner[phone] \in {Nobody, u}
  /\ Begin(r, [Blank EXCEPT !.step = "clear", !.user = u, !.phone = phone])
  /\ UNCHANGED <<Rows, Memory, texted, History>>

Clear(r) ==
  LET h == request[r] IN
  /\ At(r, "clear")
  /\ owner' = [p \in Phones |-> IF p \in Held(h.user) THEN Nobody ELSE owner[p]]
  /\ freed' = freed \cup Held(h.user)
  /\ Goto(r, "set")
  /\ UNCHANGED <<email, licence, born, Memory, texted, guesses, logins, bought, refused, mishaps>>

(* A list or a delete that fails is ignored: the new anchor is tried anyway. *)
ClearFails(r) ==
  LET h == request[r] IN
  /\ At(r, "clear") /\ Trouble("fault")
  /\ \E removed \in SUBSET Held(h.user) :
       /\ owner' = [p \in Phones |-> IF p \in removed THEN Nobody ELSE owner[p]]
       /\ freed' = freed \cup removed
  /\ Goto(r, "set")
  /\ UNCHANGED <<email, licence, born, Memory, texted, guesses, logins, bought, refused>>

Set(r) ==
  LET h == request[r] IN
  /\ At(r, "set")
  /\ owner' = [owner EXCEPT ![h.phone] = IF @ = Nobody THEN h.user ELSE @]
  /\ Answer(r)
  /\ UNCHANGED <<email, licence, born, Memory, texted, History, mishaps>>

RemoveIdentity(phone) ==
  /\ owner[phone] # Nobody /\ Trouble("removed")
  /\ owner' = [owner EXCEPT ![phone] = Nobody]
  /\ freed' = freed \cup {phone}
  /\ UNCHANGED <<email, licence, born, Memory, texted, request, guesses, logins, bought, refused>>

(* EnrollMDLStatus and RecordUserMDL, with a proof that verified.             *)
RecordMDL(r, u, issuer) ==
  /\ Exists(u)
  /\ Begin(r, [Blank EXCEPT !.step = "mdlclear", !.user = u, !.value = issuer])
  /\ UNCHANGED <<Rows, Memory, texted, History>>

(* storeMDLAnchor.                                                            *)
ClearLicence(r) ==
  LET u == request[r].user IN
  /\ At(r, "mdlclear")
  /\ licence' = [i \in Issuers |-> IF licence[i] = u THEN Nobody ELSE licence[i]]
  /\ Goto(r, "mdlset")
  /\ UNCHANGED <<email, owner, born, Memory, texted, History, mishaps>>

ClearLicenceFails(r) ==
  LET u == request[r].user IN
  /\ At(r, "mdlclear") /\ Trouble("fault")
  /\ \E removed \in SUBSET {i \in Issuers : licence[i] = u} :
       licence' = [i \in Issuers |-> IF i \in removed THEN Nobody ELSE licence[i]]
  /\ Goto(r, "mdlset")
  /\ UNCHANGED <<email, owner, born, Memory, texted, History>>

StoreLicence(r) ==
  LET h == request[r] IN
  /\ At(r, "mdlset")
  /\ IF licence[h.value] = Nobody
     THEN licence' = [licence EXCEPT ![h.value] = h.user] /\ UNCHANGED refused
     ELSE refused' = refused \cup {h.user} /\ UNCHANGED licence
  /\ Answer(r)
  /\ UNCHANGED <<email, owner, born, Memory, texted, guesses, logins, bought, freed, mishaps>>

-----------------------------------------------------------------------------
(* The store fails a call: the handler gives up where it is, unless it       *)
(* ignores that (Rollback, ClearFails, ClearLicenceFails).  Flows expire; a  *)
(* restart loses what is in memory.                                          *)
StoreFails(r) ==
  /\ Busy(r) /\ request[r].step \notin {"check", "miss", "hit", "bind", "restart", "unlink",
                                   "clear", "mdlclear"}
  /\ Trouble("fault")
  /\ Answer(r)
  /\ UNCHANGED <<Rows, Memory, texted, History>>

Expire ==
  /\ \/ \E f \in FlowIds : Has(f) /\ stale' = stale \cup {<<"flow", f>>} /\ UNCHANGED pending
     \/ \E u \in Users : HasLink(u) /\ stale' = stale \cup {<<"link", u>>} /\ UNCHANGED pending
     \/ \E n \in pending : pending' = pending \ {n} /\ UNCHANGED stale
  /\ Trouble("expiry")
  /\ UNCHANGED <<Rows, flow, link, started, texted, request, History>>

Restart ==
  /\ Trouble("restart")
  /\ flow' = [f \in FlowIds |-> NoFlow]
  /\ link' = [u \in Users |-> "none"]
  /\ pending' = {}
  /\ request' = [r \in Requests |-> Idle]
  /\ UNCHANGED <<Rows, stale, started, texted, History>>

Init ==
  /\ email = [u \in Users |-> "none"]
  /\ owner = [p \in Phones |-> Nobody] /\ licence = [i \in Issuers |-> Nobody]
  /\ flow = [f \in FlowIds |-> NoFlow]
  /\ link = [u \in Users |-> "none"]
  /\ stale = {} /\ texted = {} /\ pending = {}
  /\ request = [r \in Requests |-> Idle]
  /\ mishaps = {} /\ started = <<0, 0>> /\ born = 0
  /\ guesses = [f \in FlowIds |-> 0]
  /\ logins = {} /\ bought = [n \in States |-> 0] /\ refused = {} /\ freed = {}

Step(r) ==
  /\ Busy(r)
  /\ \/ CheckCode(r) \/ Miss(r) \/ Hit(r) \/ Anchor(r) \/ Load(r)
     \/ Create(r) \/ Bind(r) \/ BindFails(r) \/ Rollback(r) \/ OpenSession(r)
     \/ Profile(r) \/ ByEmail(r)
     \/ PutLink(r) \/ LinkLoad(r) \/ LinkWrite(r) \/ DropLink(r)
     \/ PatchWrite(r) \/ Clear(r) \/ ClearFails(r) \/ Set(r)
     \/ ClearLicence(r) \/ ClearLicenceFails(r) \/ StoreLicence(r) \/ StoreFails(r)

Start(r) ==
  /\ ~Busy(r)
  /\ \/ \E f \in FlowIds : Verify(r, f)
     \/ \E n \in States : Callback(r, n)
     \/ \E u \in Users :
          \/ LinkStart(r, u) \/ Skip(r, u) \/ Patch(r, u)
          \/ \E e \in Emails : LinkCallback(r, u, e)
          \/ \E p \in Phones : SetUserPhone(r, u, p)
          \/ \E i \in Issuers : RecordMDL(r, u, i)

Environment ==
  \/ \E p \in Phones : Submit(p) \/ RemoveIdentity(p)
  \/ SocialAuthorize
  \/ \E e \in Emails : CreateUser(e)
  \/ \E u \in Users : DeleteUser(u)
  \/ Expire \/ Restart

Next == Environment \/ \E r \in Requests : Step(r) \/ Start(r)
Spec == Init /\ [][Next]_vars

-----------------------------------------------------------------------------
TypeOK ==
  /\ email \in [Users -> Emails \cup {NoValue, "none"}]
  /\ owner \in [Phones -> {Nobody} \cup Users]
  /\ licence \in [Issuers -> {Nobody} \cup Users]
  /\ flow \in [FlowIds -> Flow \cup {NoFlow}]
  /\ link \in [Users -> {"none", "offered", "started"}]
  /\ request \in [Requests -> Handler \cup {Idle}]
  /\ pending \subseteq States

(* A number signs in as one account, however sign-ups by that number race    *)
(* each other, the store's failures and deletions, until an owner takes the  *)
(* number away from that account.                                            *)
OneAccountPerNumber ==
  \A l, m \in logins : l[1] = m[1] => l[2] = m[2] \/ l[1] \in freed

(* Nobody is left without a way in: an account with neither email nor number *)
(* belongs to a handler that is about to bind or remove it, unless the store *)
(* failed, the process stopped, or an owner took the number away.            *)
Reachable(u) == email[u] # NoValue \/ Held(u) # {}
InHand(u) == \E r \in Requests : Busy(r) /\ request[r].user = u
NoStrandedUser ==
  mishaps \cap {"fault", "restart", "removed", "overlap"} = {} =>
    \A u \in Users : Exists(u) => Reachable(u) \/ InHand(u)

(* phoneMaxOTP bounds the wrong codes of a flow (phone_login.go:95).         *)
GuessesBounded == "overlap" \notin mishaps => \A f \in FlowIds : guesses[f] <= MaxOTP

(* A state nonce opens one session at most, with any number of callbacks at  *)
(* once (takePending).                                                       *)
StateBuysOne == \A n \in States : bought[n] <= 1

(* A verified licence becomes a sign-in credential of its holder's account   *)
(* (enroll_mdl.go:3-6).                                                      *)
LicenceAccepted == refused = {}
===============================================================================
