--------------------------- MODULE WorkspacesProofs ---------------------------
(***************************************************************************)
(* Theorems about Workspaces, for any number of workspaces, people and     *)
(* overlapping requests.                                                   *)
(*                                                                         *)
(* The argument: a handler acts on what earlier calls of it found, while   *)
(* owners and staff rows change under it.  What it may rely on is its      *)
(* history: once a workspace was found to be its sender's, it is among the *)
(* workspaces the sender owned since the request began, and once the staff *)
(* account was found active and in its role, it was so at the beginning,   *)
(* for these only shrink while the process runs.                           *)
(*                                                                         *)
(* After them, the theorems about the module Consoles (O), an instance     *)
(* with constants and variables of its own, by an argument of that kind.   *)
(***************************************************************************)
EXTENDS Workspaces, FiniteSetTheorems, SequenceTheorems, WellFoundedInduction, TLAPS

\* The workspaces the sender owns are among those it owned since it began, and
\* what was owned is registered.
RightsOK(h) ==
  /\ \A t \in Tenants : tenant[t].by = h.email => t \in h.rights
  /\ \A t \in h.rights : tenant[t] # NoTenant

\* Where the session of the cookie is, and the one to end.
PlacesOK(h) ==
  /\ h.by \in DOMAIN session /\ h.target \in DOMAIN session
  /\ h.op \in OwnerOps =>
       /\ session[h.by].at \in Tenants
       /\ h.step # "tenant" => session[h.by].at \in h.rights
  /\ h.op \in {"switch", "logout"} => h.target = h.by
  /\ h.op = "revoke" => h.at = session[h.by].at
  /\ h.op \in {"signin", "select", "enter", "leave"} =>
       session[h.by].at \in Staging /\ h.target = h.by

\* Which operation is at which call, and what it has found by then.
StepsOK(h) ==
  /\ h.step = "tenant" => h.op \in OwnerOps
  /\ h.step = "check" => h.op \in {"switch", "select"}
  /\ h.step = "find" => h.op \in {"revoke", "expel"}
  /\ h.step = "drop" => h.op \in OwnerOps \cup {"select", "enter", "leave", "expel"}
  /\ h.step = "drop" /\ h.op \in {"switch", "select"} => h.at \in h.rights
  /\ h.step = "drop" /\ h.op = "revoke" => session[h.target].at = h.at
  /\ h.step = "owned" => h.op \in {"signup", "signin"}
  /\ h.step = "owned" /\ h.op = "signup" => h.at \in Tenants
  /\ h.step \in {"slug", "provision"} => h.op = "signup" /\ h.at \in Tenants
  /\ h.step \in {"user", "create", "mint"} => h.op \in Minting /\ h.at \in h.rights
  /\ h.step = "mint" => <<h.at, h.email>> \in user
  /\ h.step = "assign" => h.op = "assign"
  /\ h.step \in {"staff", "roles"} => h.op \in StaffOps
  /\ h.op \in {"switch", "select", "assign"} => h.at \in Tenants

\* What staff were found to be, they were when the request began.
StaffOK(h) ==
  /\ h.step = "staff" /\ staff[h.email].active /\ "administrator" \in staff[h.email].roles
       => h.admin
  /\ h.step = "roles" /\ "administrator" \in staff[h.email].roles => h.admin
  /\ h.op \in StaffOps /\ h.step \notin {"staff", "roles"} => h.admin

HandlerOK(h) == h # Idle => RightsOK(h) /\ PlacesOK(h) /\ StepsOK(h) /\ StaffOK(h)

\* A picker is shown to staging sessions only.
PickersOK == \A s \in picking : session[s].at \in Staging

\* Each handler that may make a session has room for it.
Minters == {q \in Requests : Busy(q) /\ request[q].op \in Minting}
RoomKept == Len(session) + Cardinality(Minters) <= NumSessions

\* One request at a time: only one handler, and what it picks with is unspent.
Alone == "overlap" \notin mishaps => \A r, q \in Requests : Busy(r) /\ Busy(q) => r = q
Unspent ==
  mishaps \cap {"overlap", "fault"} = {} =>
    /\ \A s \in DOMAIN session :
         session[s].bought <= 1 /\ (session[s].live => session[s].bought = 0)
    /\ \A r \in Requests : Busy(r) /\ request[r].op = "select" =>
         /\ session[request[r].by].bought = 0
         /\ request[r].step \in {"user", "create", "mint"} => ~session[request[r].by].live

WInv ==
  /\ TypeOK /\ PickersOK /\ RoomKept /\ SignedUpWhole /\ Alone /\ Unspent
  /\ \A r \in Requests : HandlerOK(request[r])

-----------------------------------------------------------------------------
(* Handlers and how the tables change under them.                            *)

\* A handler is not idle.
LEMMA HandlerBusy == ASSUME NEW h \in Handler PROVE h # Idle /\ h.step # "idle"
<1>1. h.step # "idle"
  BY DEF Handler
<1> QED
  BY <1>1 DEF Idle

\* Session ids are numbers up to the length of the table.
LEMMA SessionIds ==
  ASSUME TypeOK
  PROVE  /\ Len(session) \in Nat /\ DOMAIN session = 1..Len(session)
         /\ \A s \in DOMAIN session : session[s] \in Session
BY LenProperties, ElementOfSeq DEF TypeOK

\* Sessions stay where they are; new ones may come.
SessionsGo ==
  /\ DOMAIN session \subseteq DOMAIN session'
  /\ \A s \in DOMAIN session :
       session'[s].at = session[s].at /\ session'[s].email = session[s].email

\* Rows are added, and workspaces change hands but do not go.
TablesGo ==
  /\ SessionsGo /\ user \subseteq user' /\ client \subseteq client'
  /\ \A t \in Tenants : tenant[t] # NoTenant => tenant'[t] # NoTenant

\* Staff lose what they have, and gain nothing.
StaffShrinks ==
  \A e \in Emails :
    /\ staff'[e].active => staff[e].active
    /\ staff'[e].roles \subseteq staff[e].roles

\* Nothing at all happens to the tables.
LEMMA NoTableGoes == UNCHANGED Rows => TablesGo /\ StaffShrinks
BY DEF Rows, TablesGo, SessionsGo, StaffShrinks

\* A handler keeps what it found, its rights included, while the tables go on,
\* provided it is told of the workspaces its sender gets.
LEMMA HandlerStays ==
  ASSUME NEW h \in Handler, HandlerOK(h), TablesGo, StaffShrinks,
         NEW k \in Handler, NEW more \in SUBSET Tenants,
         k = h \/ k = [h EXCEPT !.rights = @ \cup more],
         \A t \in Tenants : tenant'[t].by = h.email => t \in k.rights,
         \A t \in more : tenant'[t] # NoTenant
  PROVE  HandlerOK(k)'
<1>1. RightsOK(h) /\ PlacesOK(h) /\ StepsOK(h) /\ StaffOK(h)
  BY HandlerBusy DEF HandlerOK
<1>2. /\ k.op = h.op /\ k.step = h.step /\ k.by = h.by /\ k.email = h.email /\ k.at = h.at
      /\ k.target = h.target /\ k.admin = h.admin
      /\ h.rights \subseteq k.rights /\ k.rights \subseteq h.rights \cup more
  BY DEF Handler
<1>3. h.rights \subseteq Tenants /\ h.email \in Emails
  BY DEF Handler
<1>4. RightsOK(k)'
  <2>1. \A t \in k.rights : tenant'[t] # NoTenant
    BY <1>1, <1>2, <1>3 DEF RightsOK, TablesGo
  <2> QED
    BY <1>2, <2>1 DEF RightsOK
<1>5. PlacesOK(k)'
  BY <1>1, <1>2 DEF PlacesOK, TablesGo, SessionsGo
<1>6. StepsOK(k)'
  <2>1. h.step = "drop" /\ h.op = "revoke" => session'[h.target].at = h.at
    BY <1>1 DEF StepsOK, PlacesOK, TablesGo, SessionsGo
  <2>2. h.step = "mint" => <<h.at, h.email>> \in user'
    BY <1>1 DEF StepsOK, TablesGo
  <2> QED
    BY <1>1, <1>2, <2>1, <2>2 DEF StepsOK
<1>7. StaffOK(k)'
  BY <1>1, <1>2, <1>3 DEF StaffOK, StaffShrinks
<1> QED
  BY <1>4, <1>5, <1>6, <1>7 DEF HandlerOK

\* While no workspace changes hands, handlers keep what they hold.
LEMMA HandlerRests ==
  ASSUME NEW h \in Handler \cup {Idle}, HandlerOK(h), TablesGo, StaffShrinks, UNCHANGED tenant
  PROVE  HandlerOK(h)'
<1>1. CASE h = Idle
  BY <1>1 DEF HandlerOK
<1>2. CASE h # Idle
  <2>1. h \in Handler /\ \A t \in Tenants : tenant'[t].by = h.email => t \in h.rights
    BY <1>2 DEF HandlerOK, RightsOK
  <2>2. PICK k, more : k = h /\ more = {}
    OBVIOUS
  <2>3. more \in SUBSET Tenants /\ \A t \in more : tenant'[t] # NoTenant
    BY <2>2
  <2>4. k \in Handler /\ \A t \in Tenants : tenant'[t].by = h.email => t \in k.rights
    BY <2>1, <2>2
  <2>5. HandlerOK(k)'
    BY <2>1, <2>2, <2>3, <2>4, HandlerStays
  <2> QED
    BY <2>2, <2>5
<1> QED
  BY <1>1, <1>2

\* One handler moves, the others stay.
LEMMA HandlersGo ==
  ASSUME WInv, TablesGo, StaffShrinks, UNCHANGED tenant,
         NEW r \in Requests, NEW k, Go(r, k), HandlerOK(k)'
  PROVE  (\A q \in Requests : HandlerOK(request[q]))'
<1>1. request' = [request EXCEPT ![r] = k] /\ request \in [Requests -> Handler \cup {Idle}]
  BY DEF Go, WInv, TypeOK
<1> SUFFICES ASSUME NEW q \in Requests PROVE HandlerOK(request[q])'
  OBVIOUS
<1>2. PICK h : h = request'[q]
  OBVIOUS
<1>3. HandlerOK(h)'
  <2>1. CASE q = r
    <3>1. h = k
      BY <1>1, <1>2, <2>1
    <3> QED
      BY <3>1
  <2>2. CASE q # r
    <3>1. h = request[q] /\ h \in Handler \cup {Idle}
      BY <1>1, <1>2, <2>2
    <3>2. HandlerOK(h)
      BY <3>1 DEF WInv
    <3> QED
      BY <3>1, <3>2, HandlerRests
  <2> QED
    BY <2>1, <2>2
<1> QED
  BY <1>2, <1>3 DEF HandlerOK, RightsOK, PlacesOK, StepsOK, StaffOK

\* Nobody moves.
LEMMA HandlersRest ==
  ASSUME WInv, TablesGo, StaffShrinks, UNCHANGED <<tenant, request>>
  PROVE  (\A q \in Requests : HandlerOK(request[q]))'
<1> SUFFICES ASSUME NEW q \in Requests PROVE HandlerOK(request[q])'
  OBVIOUS
<1>1. PICK h : h = request[q]
  OBVIOUS
<1>2. h \in Handler \cup {Idle} /\ HandlerOK(h)
  BY <1>1 DEF WInv, TypeOK
<1>3. HandlerOK(h)'
  BY <1>2, HandlerRests
<1> QED
  BY <1>1, <1>3 DEF HandlerOK, RightsOK, PlacesOK, StepsOK, StaffOK

\* A workspace t changes hands: those who act for its new owner e are told.
LEMMA HandlersEntitled ==
  ASSUME WInv, TablesGo, StaffShrinks, NEW r \in Requests,
         NEW t \in Tenants, NEW e \in Emails, NEW row,
         tenant' = [tenant EXCEPT ![t] = row], row.by = e, row # NoTenant,
         request' = [Entitle(t, e) EXCEPT ![r] = Idle]
  PROVE  /\ request' \in [Requests -> Handler \cup {Idle}]
         /\ (\A q \in Requests : HandlerOK(request[q]))'
         /\ \A q \in Requests :
              \/ request'[q] = Idle
              \/ q # r /\ Busy(q) /\ request'[q] # Idle /\ request'[q].op = request[q].op
                 /\ request'[q].step = request[q].step /\ request'[q].by = request[q].by
<1>1. /\ request \in [Requests -> Handler \cup {Idle}]
      /\ tenant \in [Tenants -> [by : Emails \cup {Nobody}, slug : {"none", "id", "name"}]]
  BY DEF WInv, TypeOK
<1>2. tenant' = [tenant EXCEPT ![t] = row]
  OBVIOUS
<1>3. ASSUME NEW q \in Requests
      PROVE  \/ request'[q] = Idle
             \/ /\ q # r /\ Busy(q) /\ request[q] \in Handler /\ request'[q] \in Handler
                /\ \/ request'[q] = request[q] /\ request[q].email # e
                   \/ /\ request'[q] = [request[q] EXCEPT !.rights = @ \cup {t}]
                      /\ request[q].email = e
  <2>1. CASE q = r
    BY <1>1, <2>1 DEF Entitle
  <2>2. CASE q # r /\ request[q] = Idle
    BY <1>1, <2>2 DEF Entitle, Busy
  <2>3. CASE q # r /\ request[q] # Idle
    <3>1. PICK h : h = request[q]
      OBVIOUS
    <3>2. h \in Handler /\ Busy(q)
      BY <1>1, <2>3, <3>1 DEF Busy
    <3>3. request'[q] = IF h.email = e THEN [h EXCEPT !.rights = @ \cup {t}] ELSE h
      BY <1>1, <2>3, <3>1, <3>2 DEF Entitle
    <3>4. [h EXCEPT !.rights = @ \cup {t}] \in Handler
      BY <3>2 DEF Handler
    <3> QED
      BY <2>3, <3>1, <3>2, <3>3, <3>4
  <2> QED
    BY <2>1, <2>2, <2>3
<1>4. request' \in [Requests -> Handler \cup {Idle}]
  <2>1. request' = [q \in Requests |-> request'[q]]
    BY DEF Entitle
  <2>2. \A q \in Requests : request'[q] \in Handler \cup {Idle}
    BY <1>3
  <2> QED
    BY <2>1, <2>2
<1>5. ASSUME NEW q \in Requests PROVE HandlerOK(request[q])'
  <2>1. PICK k : k = request'[q]
    OBVIOUS
  <2>2. HandlerOK(k)'
    <3>1. CASE k = Idle
      BY <3>1 DEF HandlerOK
    <3>2. CASE k # Idle
      <4>1. PICK h : h = request[q]
        OBVIOUS
      <4>2. h \in Handler /\ k \in Handler /\ HandlerOK(h)
        BY <1>3, <2>1, <3>2, <4>1 DEF WInv
      <4>3. \A u \in Tenants : tenant[u].by = h.email => u \in h.rights
        BY <4>2, HandlerBusy DEF HandlerOK, RightsOK
      <4>4. PICK more : more = {t}
        OBVIOUS
      <4>5. more \in SUBSET Tenants /\ \A u \in more : tenant'[u] # NoTenant
        BY <1>1, <4>4
      <4>6. \/ k = h /\ h.email # e
            \/ k = [h EXCEPT !.rights = @ \cup more] /\ h.email = e
        BY <1>3, <2>1, <3>2, <4>1, <4>4
      <4>7. \A u \in Tenants : tenant'[u].by = IF u = t THEN e ELSE tenant[u].by
        BY <1>1
      <4>8. \A u \in Tenants : tenant'[u].by = h.email => u \in k.rights
        <5>1. CASE k = h /\ h.email # e
          BY <4>3, <4>7, <5>1
        <5>2. CASE k = [h EXCEPT !.rights = @ \cup more] /\ h.email = e
          <6>1. k.rights = h.rights \cup {t}
            BY <4>2, <4>4, <5>2 DEF Handler
          <6> QED
            BY <4>3, <4>7, <6>1
        <5> QED
          BY <4>6, <5>1, <5>2
      <4> QED
        BY <4>2, <4>5, <4>6, <4>8, HandlerStays
    <3> QED
      BY <3>1, <3>2
  <2> QED
    BY <2>1, <2>2 DEF HandlerOK, RightsOK, PlacesOK, StepsOK, StaffOK
<1>6. ASSUME NEW q \in Requests, request'[q] # Idle
      PROVE  /\ q # r /\ Busy(q) /\ request'[q].op = request[q].op
             /\ request'[q].step = request[q].step /\ request'[q].by = request[q].by
  <2>1. PICK h, k : h = request[q] /\ k = request'[q]
    OBVIOUS
  <2>2. /\ q # r /\ Busy(q) /\ h \in Handler
        /\ k = h \/ k = [h EXCEPT !.rights = @ \cup {t}]
    BY <1>3, <1>6, <2>1
  <2>3. k.op = h.op /\ k.step = h.step /\ k.by = h.by
    BY <2>2 DEF Handler
  <2> QED
    BY <2>1, <2>2, <2>3
<1> QED
  BY <1>4, <1>5, <1>6

-----------------------------------------------------------------------------
(* Room for sessions.                                                        *)

\* The handlers that may make a session are finitely many.
LEMMA MintersFinite ==
  ASSUME ConstantsOK
  PROVE  IsFiniteSet(Minters) /\ Cardinality(Minters) \in Nat
<1>1. Minters \in SUBSET Requests /\ IsFiniteSet(Requests)
  BY DEF Minters, ConstantsOK
<1>2. IsFiniteSet(Minters)
  BY <1>1, FS_Subset
<1> QED
  BY <1>2, FS_CardinalityType

\* There is room while neither sessions nor those who make them get more.
LEMMA RoomStays ==
  ASSUME ConstantsOK, WInv, Len(session') = Len(session),
         \A q \in Requests : Busy(q)' /\ request'[q].op \in Minting =>
                               Busy(q) /\ request[q].op \in Minting
  PROVE  RoomKept'
<1>1. Minters' \in SUBSET Minters
  BY DEF Minters
<1>2. Cardinality(Minters') <= Cardinality(Minters) /\ IsFiniteSet(Minters')
  BY <1>1, MintersFinite, FS_Subset
<1>3. Cardinality(Minters') \in Nat
  BY <1>2, FS_CardinalityType
<1>4. Len(session) \in Nat /\ NumSessions \in Nat
  BY SessionIds DEF WInv, ConstantsOK
<1> QED
  BY <1>2, <1>3, <1>4, MintersFinite DEF WInv, RoomKept

\* A handler uses the room it has.
LEMMA RoomUsed ==
  ASSUME ConstantsOK, WInv, Len(session') = Len(session) + 1,
         NEW r \in Minters, request'[r] = Idle,
         \A q \in Requests : Busy(q)' /\ request'[q].op \in Minting =>
                               Busy(q) /\ request[q].op \in Minting
  PROVE  RoomKept' /\ Len(session') <= NumSessions
<1>1. Minters' \in SUBSET (Minters \ {r})
  BY DEF Minters, Busy
<1>2. IsFiniteSet(Minters \ {r}) /\ Cardinality(Minters \ {r}) = Cardinality(Minters) - 1
  BY MintersFinite, FS_RemoveElement
<1>3. Cardinality(Minters') <= Cardinality(Minters) - 1 /\ IsFiniteSet(Minters')
  BY <1>1, <1>2, FS_Subset
<1>4. Cardinality(Minters') \in Nat
  BY <1>3, FS_CardinalityType
<1>5. Len(session) \in Nat /\ NumSessions \in Nat
  BY SessionIds DEF WInv, ConstantsOK
<1>6. Len(session) + Cardinality(Minters) <= NumSessions
  BY DEF WInv, RoomKept
<1> QED
  BY <1>3, <1>4, <1>5, <1>6, MintersFinite DEF RoomKept

\* A handler that starts, or the Google leg, finds room.
LEMMA RoomTaken ==
  ASSUME ConstantsOK, WInv, Len(session') = Len(session), NEW r \in Requests, NEW k,
         Go(r, k), k.op \in Minting => Room
  PROVE  RoomKept'
<1>1. /\ Minters' \subseteq Minters \cup {r}
      /\ k.op \notin Minting => Minters' \subseteq Minters
  BY DEF Minters, Busy, Go, WInv, TypeOK
<1>2. Len(session) \in Nat /\ NumSessions \in Nat
  BY SessionIds DEF WInv, ConstantsOK
<1>3. CASE k.op \notin Minting
  <2>1. Minters' \in SUBSET Minters
    BY <1>1, <1>3
  <2>2. Cardinality(Minters') <= Cardinality(Minters) /\ IsFiniteSet(Minters')
    BY <2>1, MintersFinite, FS_Subset
  <2>3. Cardinality(Minters') \in Nat
    BY <2>2, FS_CardinalityType
  <2> QED
    BY <1>2, <2>2, <2>3, MintersFinite DEF WInv, RoomKept
<1>4. CASE k.op \in Minting
  <2>1. IsFiniteSet(Minters \cup {r}) /\ Cardinality(Minters \cup {r}) <= Cardinality(Minters) + 1
    <3>1. /\ IsFiniteSet(Minters \cup {r})
          /\ Cardinality(Minters \cup {r}) =
               IF r \in Minters THEN Cardinality(Minters) ELSE Cardinality(Minters) + 1
      BY MintersFinite, FS_AddElement
    <3>2. Cardinality(Minters) \in Nat
      BY MintersFinite
    <3> QED
      BY <3>1, <3>2
  <2>2. Minters' \in SUBSET (Minters \cup {r})
    BY <1>1
  <2>3. IsFiniteSet(Minters') /\ Cardinality(Minters') <= Cardinality(Minters \cup {r})
    BY <2>1, <2>2, FS_Subset
  <2>4. Cardinality(Minters') \in Nat /\ Cardinality(Minters \cup {r}) \in Nat
    BY <2>1, <2>3, FS_CardinalityType
  <2>5. Len(session) + Cardinality(Minters) < NumSessions
    BY <1>4 DEF Room, Minters
  <2> QED
    BY <1>2, <2>1, <2>3, <2>4, <2>5, MintersFinite DEF RoomKept
<1> QED
  BY <1>3, <1>4

-----------------------------------------------------------------------------
(* Requests one at a time, and whole workspaces.                             *)

\* No handler starts.
LEMMA AloneStays ==
  ASSUME WInv, mishaps \subseteq mishaps', \A q \in Requests : Busy(q)' => Busy(q)
  PROVE  Alone'
BY DEF WInv, Alone

\* A handler that starts beside another is an overlap.
LEMMA AloneArrives ==
  ASSUME WInv, NEW r \in Requests, NEW k, Go(r, k), Overlaps(r)
  PROVE  Alone'
<1> SUFFICES ASSUME "overlap" \notin mishaps', NEW p \in Requests, NEW q \in Requests,
                    Busy(p)', Busy(q)'
             PROVE  p = q
  BY DEF Alone
<1>1. \A s \in Requests : ~Busy(s)
  BY DEF Overlaps, Trouble
<1>2. request' = [request EXCEPT ![r] = k] /\ request \in [Requests -> Handler \cup {Idle}]
  BY DEF Go, WInv, TypeOK
<1> QED
  BY <1>1, <1>2 DEF Busy

\* Nothing is spent, and a pick that goes on has ended its staging session.
LEMMA UnspentStays ==
  ASSUME WInv, mishaps \subseteq mishaps', DOMAIN session \subseteq DOMAIN session',
         \A s \in DOMAIN session :
           /\ session'[s].bought = session[s].bought
           /\ session'[s].live => session[s].live,
         \A s \in DOMAIN session' \ DOMAIN session : session'[s].bought = 0,
         \A q \in Requests : Busy(q)' /\ request'[q].op = "select" =>
           /\ Busy(q) /\ request[q].op = "select" /\ request'[q].by = request[q].by
           /\ request'[q].step \in {"user", "create", "mint"} =>
                \/ request[q].step \in {"user", "create", "mint"}
                \/ mishaps' \cap {"fault", "overlap"} # {}
                \/ ~session'[request[q].by].live
  PROVE  Unspent'
<1> SUFFICES ASSUME mishaps' \cap {"overlap", "fault"} = {}
             PROVE  /\ \A s \in DOMAIN session' :
                         session'[s].bought <= 1 /\ (session'[s].live => session'[s].bought = 0)
                    /\ \A q \in Requests : Busy(q)' /\ request'[q].op = "select" =>
                         /\ session'[request'[q].by].bought = 0
                         /\ request'[q].step \in {"user", "create", "mint"} =>
                              ~session'[request'[q].by].live
  BY DEF Unspent
<1>1. /\ \A s \in DOMAIN session :
           session[s].bought <= 1 /\ (session[s].live => session[s].bought = 0)
      /\ \A q \in Requests : Busy(q) /\ request[q].op = "select" =>
           /\ session[request[q].by].bought = 0
           /\ request[q].step \in {"user", "create", "mint"} => ~session[request[q].by].live
  BY DEF WInv, Unspent
<1>2. ASSUME NEW s \in DOMAIN session'
      PROVE  session'[s].bought <= 1 /\ (session'[s].live => session'[s].bought = 0)
  <2>1. CASE s \in DOMAIN session
    BY <1>1, <2>1
  <2>2. CASE s \notin DOMAIN session
    BY <1>2, <2>2
  <2> QED
    BY <2>1, <2>2
<1>3. ASSUME NEW q \in Requests, Busy(q)', request'[q].op = "select"
      PROVE  /\ session'[request'[q].by].bought = 0
             /\ request'[q].step \in {"user", "create", "mint"} =>
                  ~session'[request'[q].by].live
  <2>1. Busy(q) /\ request[q].op = "select" /\ request'[q].by = request[q].by
    BY <1>3
  <2>2. request[q].by \in DOMAIN session
    BY <2>1 DEF WInv, HandlerOK, PlacesOK, Busy
  <2>3. PICK s : s = request[q].by
    OBVIOUS
  <2>4. session'[s].bought = 0
    BY <1>1, <2>1, <2>2, <2>3
  <2>5. ASSUME request'[q].step \in {"user", "create", "mint"}
        PROVE  ~session'[s].live
    <3>1. CASE request[q].step \in {"user", "create", "mint"}
      BY <1>1, <2>1, <2>2, <2>3, <3>1
    <3>2. CASE request[q].step \notin {"user", "create", "mint"}
      BY <1>3, <2>3, <2>5, <3>2
    <3> QED
      BY <3>1, <3>2
  <2> QED
    BY <2>1, <2>3, <2>4, <2>5
<1> QED
  BY <1>2, <1>3

\* Workspaces stay whole, and what is added is.
LEMMA WholeStays ==
  ASSUME WInv, TablesGo,
         \A t \in Tenants : tenant'[t].slug = "name" =>
           tenant[t].slug = "name" \/ (t \in client' /\ \E e \in Emails : <<t, e>> \in user'),
         \A s \in DOMAIN session' \ DOMAIN session : session'[s].at \in Tenants =>
           <<session'[s].at, session'[s].email>> \in user' /\ tenant'[session'[s].at] # NoTenant
  PROVE  SignedUpWhole'
<1>1. /\ \A t \in Tenants : tenant[t].slug = "name" =>
           t \in client /\ \E e \in Emails : <<t, e>> \in user
      /\ \A s \in DOMAIN session : session[s].at \in Tenants =>
           <<session[s].at, session[s].email>> \in user /\ tenant[session[s].at] # NoTenant
  BY DEF WInv, SignedUpWhole
<1>2. ASSUME NEW t \in Tenants, tenant'[t].slug = "name"
      PROVE  t \in client' /\ \E e \in Emails : <<t, e>> \in user'
  BY <1>1, <1>2 DEF TablesGo
<1>3. ASSUME NEW s \in DOMAIN session', session'[s].at \in Tenants
      PROVE  <<session'[s].at, session'[s].email>> \in user' /\ tenant'[session'[s].at] # NoTenant
  <2>1. CASE s \in DOMAIN session
    <3>1. PICK t, e : t = session[s].at /\ e = session[s].email
      OBVIOUS
    <3>2. session'[s].at = t /\ session'[s].email = e
      BY <2>1, <3>1 DEF TablesGo, SessionsGo
    <3>3. <<t, e>> \in user /\ tenant[t] # NoTenant /\ t \in Tenants
      BY <1>1, <1>3, <2>1, <3>1, <3>2
    <3> QED
      BY <3>2, <3>3 DEF TablesGo
  <2>2. CASE s \notin DOMAIN session
    BY <1>3, <2>2
  <2> QED
    BY <2>1, <2>2
<1> QED
  BY <1>2, <1>3 DEF SignedUpWhole

\* Pickers stay with staging sessions.
LEMMA PickersStay ==
  ASSUME WInv, SessionsGo, UNCHANGED picking
  PROVE  PickersOK' /\ picking' \subseteq DOMAIN session'
BY DEF WInv, TypeOK, PickersOK, SessionsGo

-----------------------------------------------------------------------------
(* The calls that only read.                                                 *)

\* A handler reads, and goes on or answers.
LEMMA Reads ==
  ASSUME ConstantsOK, WInv, UNCHANGED <<Rows, mishaps>>, NEW r \in Requests, Busy(r),
         NEW k \in Handler \cup {Idle}, Go(r, k), HandlerOK(k),
         k # Idle => /\ k.op = request[r].op /\ k.by = request[r].by
                     /\ k.op = "select" /\ k.step \in {"user", "create", "mint"} =>
                          request[r].step \in {"user", "create", "mint"}
  PROVE  WInv'
<1>1. TablesGo /\ StaffShrinks /\ UNCHANGED <<tenant, session, picking, mishaps>>
  BY NoTableGoes DEF Rows, Registry
<1>2. request' = [request EXCEPT ![r] = k] /\ request \in [Requests -> Handler \cup {Idle}]
  BY DEF Go, WInv, TypeOK
<1>3. TypeOK'
  <2>1. request' \in [Requests -> Handler \cup {Idle}]
    BY <1>2
  <2> QED
    BY <2>1 DEF WInv, TypeOK, Rows, Registry
<1>4. HandlerOK(k)'
  BY <1>1, HandlerRests
<1>5. (\A q \in Requests : HandlerOK(request[q]))'
  BY <1>1, <1>4, HandlersGo
<1>6. \A q \in Requests : Busy(q)' =>
        /\ Busy(q) /\ request'[q].op = request[q].op /\ request'[q].by = request[q].by
        /\ request'[q].op = "select" /\ request'[q].step \in {"user", "create", "mint"} =>
             request[q].step \in {"user", "create", "mint"}
  BY <1>2 DEF Busy
<1>7. RoomKept'
  BY <1>1, <1>6, RoomStays
<1>8. Alone'
  BY <1>1, <1>6, AloneStays
<1>9. Unspent'
  BY <1>1, <1>6, UnspentStays
<1>10. SignedUpWhole'
  BY <1>1, WholeStays
<1>11. PickersOK'
  BY <1>1, PickersStay DEF TablesGo
<1> QED
  BY <1>3, <1>5, <1>7, <1>8, <1>9, <1>10, <1>11 DEF WInv

\* A handler that answers holds nothing.
LEMMA ReadsAndAnswers ==
  ASSUME ConstantsOK, WInv, UNCHANGED <<Rows, mishaps>>, NEW r \in Requests, Busy(r), Answer(r)
  PROVE  WInv'
<1>1. Go(r, Idle) /\ HandlerOK(Idle)
  BY DEF Answer, HandlerOK
<1> QED
  BY <1>1, Reads

\* A handler that goes on, given that the next call suits what it found.
LEMMA ReadsAndGoes ==
  ASSUME ConstantsOK, WInv, UNCHANGED <<Rows, mishaps>>, NEW r \in Requests, Busy(r),
         NEW step \in {"tenant", "check", "find", "drop", "owned", "slug",
           "provision", "user", "create", "mint", "staff", "roles", "assign"},
         Goto(r, step),
         \A k \in Handler :
           /\ k.step = step /\ k.op = request[r].op /\ k.by = request[r].by
           /\ k.email = request[r].email /\ k.at = request[r].at
           /\ k.target = request[r].target /\ k.admin = request[r].admin
           /\ k.rights = request[r].rights
           => /\ StepsOK(k) /\ StaffOK(k)
              /\ k.op \in OwnerOps /\ step # "tenant" => session[k.by].at \in k.rights
              /\ k.op = "select" /\ step \in {"user", "create", "mint"} =>
                   request[r].step \in {"user", "create", "mint"}
  PROVE  WInv'
<1>1. PICK h : h = request[r]
  OBVIOUS
<1>2. h \in Handler /\ HandlerOK(h) /\ h # Idle
  BY <1>1 DEF WInv, TypeOK, Busy
<1>9. PICK k : k = [h EXCEPT !.step = step]
  OBVIOUS
<1>3. /\ k \in Handler /\ k = [h EXCEPT !.step = step]
      /\ k.step = step /\ k.op = h.op /\ k.by = h.by /\ k.email = h.email /\ k.at = h.at
      /\ k.target = h.target /\ k.admin = h.admin /\ k.rights = h.rights /\ k.to = h.to
  BY <1>2, <1>9 DEF Handler
<1>4. Go(r, k)
  BY <1>1, <1>3 DEF Goto
<1>5. /\ StepsOK(k) /\ StaffOK(k)
      /\ k.op \in OwnerOps /\ step # "tenant" => session[k.by].at \in k.rights
      /\ k.op = "select" /\ step \in {"user", "create", "mint"} =>
           request[r].step \in {"user", "create", "mint"}
  BY <1>1, <1>3
<1>6. RightsOK(k)
  BY <1>2, <1>3 DEF HandlerOK, RightsOK
<1>7. PlacesOK(k)
  BY <1>2, <1>3, <1>5 DEF HandlerOK, PlacesOK
<1>8. HandlerOK(k)
  BY <1>5, <1>6, <1>7 DEF HandlerOK
<1> QED
  BY <1>1, <1>3, <1>4, <1>5, <1>8, Reads

\* What a handler at a call holds.
LEMMA Holds ==
  ASSUME WInv, NEW r \in Requests, Busy(r)
  PROVE  /\ request[r] \in Handler
         /\ RightsOK(request[r]) /\ PlacesOK(request[r])
         /\ StepsOK(request[r]) /\ StaffOK(request[r])
BY DEF WInv, TypeOK, Busy, HandlerOK

\* The owner is who the registry says.
LEMMA CurrentOwnerStep ==
  ASSUME ConstantsOK, WInv, NEW r \in Requests, Busy(r), CurrentOwner(r)
  PROVE  WInv'
<1>1. PICK h : h = request[r]
  OBVIOUS
<1>2. /\ h \in Handler /\ RightsOK(h) /\ PlacesOK(h) /\ StepsOK(h) /\ StaffOK(h)
      /\ h.step = "tenant" /\ h.op \in OwnerOps
  BY <1>1, Holds DEF CurrentOwner, At, StepsOK
<1>3. UNCHANGED <<Rows, mishaps>>
  BY DEF CurrentOwner
<1>4. CASE ~OwnsWorkspace(session[h.by].at, h.email)
  BY <1>1, <1>3, <1>4, ReadsAndAnswers DEF CurrentOwner
<1>5. CASE OwnsWorkspace(session[h.by].at, h.email)
  <2>1. session[h.by].at \in h.rights
    BY <1>2, <1>5 DEF OwnsWorkspace, RightsOK, PlacesOK
  <2>2. CASE h.op = "switch"
    <3>1. Goto(r, "check")
      BY <1>1, <1>5, <2>2 DEF CurrentOwner
    <3>2. h.at \in Tenants
      BY <1>2, <2>2 DEF StepsOK
    <3> QED
      BY <1>1, <1>2, <1>3, <2>1, <2>2, <3>1, <3>2, ReadsAndGoes
      DEF StepsOK, StaffOK, OwnerOps, StaffOps
  <2>3. CASE h.op = "logout"
    <3>1. Goto(r, "drop")
      BY <1>1, <1>5, <2>3 DEF CurrentOwner
    <3> QED
      BY <1>1, <1>2, <1>3, <2>1, <2>3, <3>1, ReadsAndGoes
      DEF StepsOK, StaffOK, OwnerOps, StaffOps
  <2>4. CASE h.op = "revoke"
    <3>1. Goto(r, "find")
      BY <1>1, <1>5, <2>4 DEF CurrentOwner
    <3> QED
      BY <1>1, <1>2, <1>3, <2>1, <2>4, <3>1, ReadsAndGoes
      DEF StepsOK, StaffOK, OwnerOps, StaffOps
  <2> QED
    BY <1>2, <2>2, <2>3, <2>4 DEF OwnerOps
<1> QED
  BY <1>4, <1>5

\* isWorkspaceOwner lets an owner through, whose workspace it is.
LEMMA IsWorkspaceOwnerStep ==
  ASSUME ConstantsOK, WInv, NEW r \in Requests, Busy(r), IsWorkspaceOwner(r)
  PROVE  WInv'
<1>1. PICK h : h = request[r]
  OBVIOUS
<1>2. /\ h \in Handler /\ RightsOK(h) /\ PlacesOK(h) /\ StepsOK(h) /\ StaffOK(h)
      /\ h.step = "check" /\ h.op \in {"switch", "select"}
  BY <1>1, Holds DEF IsWorkspaceOwner, At, StepsOK
<1>3. UNCHANGED <<Rows, mishaps>>
  BY DEF IsWorkspaceOwner
<1>4. CASE ~OwnsWorkspace(h.at, h.email)
  BY <1>1, <1>3, <1>4, ReadsAndAnswers DEF IsWorkspaceOwner
<1>5. CASE OwnsWorkspace(h.at, h.email)
  <2>1. Goto(r, "drop")
    BY <1>1, <1>5 DEF IsWorkspaceOwner
  <2>2. h.at \in h.rights
    BY <1>2, <1>5 DEF StepsOK, RightsOK, OwnsWorkspace
  <2>3. h.op \in OwnerOps => session[h.by].at \in h.rights
    BY <1>2 DEF PlacesOK
  <2> QED
    BY <1>1, <1>2, <1>3, <2>1, <2>2, <2>3, ReadsAndGoes DEF StepsOK, StaffOK, OwnerOps, StaffOps
<1> QED
  BY <1>4, <1>5

\* A session is revoked where the caller may act.
LEMMA FindSessionStep ==
  ASSUME ConstantsOK, WInv, NEW r \in Requests, Busy(r), FindSession(r)
  PROVE  WInv'
<1>1. PICK h : h = request[r]
  OBVIOUS
<1>2. /\ h \in Handler /\ RightsOK(h) /\ PlacesOK(h) /\ StepsOK(h) /\ StaffOK(h)
      /\ h.step = "find" /\ h.op \in {"revoke", "expel"}
  BY <1>1, Holds DEF FindSession, At, StepsOK
<1>3. UNCHANGED <<Rows, mishaps>>
  BY DEF FindSession
<1>4. CASE ~(InWorkspace(h) /\ session[h.target].live)
  BY <1>1, <1>3, <1>4, ReadsAndAnswers DEF FindSession
<1>5. CASE InWorkspace(h) /\ session[h.target].live
  <2>1. Goto(r, "drop") /\ session[h.target].at = h.at
    BY <1>1, <1>5 DEF FindSession, InWorkspace
  <2>2. h.op \in OwnerOps => session[h.by].at \in h.rights
    BY <1>2 DEF PlacesOK
  <2> QED
    BY <1>1, <1>2, <1>3, <2>1, <2>2, ReadsAndGoes DEF StepsOK, StaffOK, OwnerOps, StaffOps
<1> QED
  BY <1>4, <1>5

\* A sign-up for a name its owner holds signs in.
LEMMA SignupOwnedStep ==
  ASSUME ConstantsOK, WInv, NEW r \in Requests, Busy(r), SignupOwned(r)
  PROVE  WInv'
<1>1. PICK h : h = request[r]
  OBVIOUS
<1>2. /\ h \in Handler /\ RightsOK(h) /\ PlacesOK(h) /\ StepsOK(h) /\ StaffOK(h)
      /\ h.step = "owned" /\ h.op = "signup" /\ h.at \in Tenants
  BY <1>1, Holds DEF SignupOwned, At, StepsOK
<1>3. UNCHANGED <<Rows, mishaps>>
  BY DEF SignupOwned
<1>4. CASE OwnsWorkspace(h.at, h.email) /\ tenant[h.at].slug = "name"
  <2>1. Goto(r, "user") /\ h.at \in h.rights
    BY <1>1, <1>2, <1>4 DEF SignupOwned, OwnsWorkspace, RightsOK
  <2> QED
    BY <1>1, <1>2, <1>3, <2>1, ReadsAndGoes
    DEF StepsOK, StaffOK, OwnerOps, StaffOps, Minting, SignInOps
<1>5. CASE ~(OwnsWorkspace(h.at, h.email) /\ tenant[h.at].slug = "name")
  <2>1. Goto(r, "slug")
    BY <1>1, <1>5 DEF SignupOwned
  <2> QED
    BY <1>1, <1>2, <1>3, <2>1, ReadsAndGoes DEF StepsOK, StaffOK, OwnerOps, StaffOps
<1> QED
  BY <1>4, <1>5

\* A slug that is free is provisioned.
LEMMA SlugFreeStep ==
  ASSUME ConstantsOK, WInv, NEW r \in Requests, Busy(r), SlugFree(r)
  PROVE  WInv'
<1>1. PICK h : h = request[r]
  OBVIOUS
<1>2. /\ h \in Handler /\ StepsOK(h) /\ h.step = "slug" /\ h.op = "signup" /\ h.at \in Tenants
  BY <1>1, Holds DEF SlugFree, At, StepsOK
<1>3. UNCHANGED <<Rows, mishaps>>
  BY DEF SlugFree
<1>4. CASE Answer(r)
  BY <1>3, <1>4, ReadsAndAnswers
<1>5. CASE Goto(r, "provision")
  BY <1>1, <1>2, <1>3, <1>5, ReadsAndGoes DEF StepsOK, StaffOK, OwnerOps, StaffOps
<1> QED
  BY <1>4, <1>5 DEF SlugFree

\* A user that is there is signed in.
LEMMA FindUserStep ==
  ASSUME ConstantsOK, WInv, NEW r \in Requests, Busy(r), FindUser(r)
  PROVE  WInv'
<1>1. PICK h : h = request[r]
  OBVIOUS
<1>2. /\ h \in Handler /\ PlacesOK(h) /\ StepsOK(h)
      /\ h.step = "user" /\ h.op \in Minting /\ h.at \in h.rights
  BY <1>1, Holds DEF FindUser, At, StepsOK
<1>3. UNCHANGED <<Rows, mishaps>>
  BY DEF FindUser
<1>4. h.op \in OwnerOps => session[h.by].at \in h.rights
  BY <1>2 DEF PlacesOK
<1>5. CASE GetUserByEmail(h.at, h.email)
  <2>1. Goto(r, "mint") /\ <<h.at, h.email>> \in user
    BY <1>1, <1>5 DEF FindUser, GetUserByEmail
  <2> QED
    BY <1>1, <1>2, <1>3, <1>4, <2>1, ReadsAndGoes
    DEF StepsOK, StaffOK, StaffOps, Minting, SignInOps
<1>6. CASE ~GetUserByEmail(h.at, h.email)
  <2>1. Goto(r, "create")
    BY <1>1, <1>6 DEF FindUser
  <2> QED
    BY <1>1, <1>2, <1>3, <1>4, <2>1, ReadsAndGoes
    DEF StepsOK, StaffOK, StaffOps, Minting, SignInOps
<1> QED
  BY <1>5, <1>6

\* A staff account that is active now was so when the request began.
LEMMA StaffActiveStep ==
  ASSUME ConstantsOK, WInv, NEW r \in Requests, Busy(r), StaffActive(r)
  PROVE  WInv'
<1>1. PICK h : h = request[r]
  OBVIOUS
<1>2. /\ h \in Handler /\ StepsOK(h) /\ StaffOK(h) /\ h.step = "staff" /\ h.op \in StaffOps
  BY <1>1, Holds DEF StaffActive, At, StepsOK
<1>3. UNCHANGED <<Rows, mishaps>>
  BY DEF StaffActive
<1>4. CASE staff[h.email].active
  <2>1. Goto(r, "roles") /\ ("administrator" \in staff[h.email].roles => h.admin)
    BY <1>1, <1>2, <1>4 DEF StaffActive, StaffOK
  <2> QED
    BY <1>1, <1>2, <1>3, <2>1, ReadsAndGoes DEF StepsOK, StaffOK, OwnerOps, StaffOps
<1>5. CASE ~staff[h.email].active
  BY <1>1, <1>3, <1>5, ReadsAndAnswers DEF StaffActive
<1> QED
  BY <1>4, <1>5

\* One that has the permission now had it when the request began.
LEMMA StaffRolesStep ==
  ASSUME ConstantsOK, WInv, NEW r \in Requests, Busy(r), StaffRoles(r)
  PROVE  WInv'
<1>1. PICK h : h = request[r]
  OBVIOUS
<1>2. /\ h \in Handler /\ StepsOK(h) /\ StaffOK(h) /\ h.step = "roles" /\ h.op \in StaffOps
  BY <1>1, Holds DEF StaffRoles, At, StepsOK
<1>3. UNCHANGED <<Rows, mishaps>>
  BY DEF StaffRoles
<1>4. CASE HasPermission(staff[h.email].roles)
  <2>1. h.admin
    BY <1>2, <1>4 DEF HasPermission, StaffOK
  <2>2. CASE h.op = "assign"
    <3>1. Goto(r, "assign")
      BY <1>1, <1>4, <2>2 DEF StaffRoles
    <3> QED
      BY <1>1, <1>2, <1>3, <2>1, <2>2, <3>1, ReadsAndGoes DEF StepsOK, StaffOK, OwnerOps, StaffOps
  <2>3. CASE h.op # "assign"
    <3>1. Goto(r, "find") /\ h.op = "expel"
      BY <1>1, <1>2, <1>4, <2>3 DEF StaffRoles, StaffOps
    <3> QED
      BY <1>1, <1>2, <1>3, <2>1, <3>1, ReadsAndGoes DEF StepsOK, StaffOK, OwnerOps, StaffOps
  <2> QED
    BY <2>2, <2>3
<1>5. CASE ~HasPermission(staff[h.email].roles)
  BY <1>1, <1>3, <1>5, ReadsAndAnswers DEF StaffRoles
<1> QED
  BY <1>4, <1>5

-----------------------------------------------------------------------------
(* The calls that write.                                                     *)

\* Trouble is of the kinds there are.
LEMMA MishapsStay ==
  ASSUME WInv, Calm \/ \E kind \in Kinds : Trouble(kind)
  PROVE  mishaps' \subseteq Kinds /\ mishaps \subseteq mishaps'
BY DEF WInv, TypeOK, Calm, Trouble

\* One handler goes from call to call or ends, and the others stay.
LEMMA OneMoves ==
  ASSUME WInv, NEW r \in Requests, Busy(r), NEW k \in Handler \cup {Idle}, Go(r, k)
  PROVE  /\ request' \in [Requests -> Handler \cup {Idle}]
         /\ \A q \in Requests : request'[q] = IF q = r THEN k ELSE request[q]
         /\ \A q \in Requests : Busy(q)' => Busy(q)
BY DEF Go, WInv, TypeOK, Busy

\* A handler that ends whatever it is at.
LEMMA Answers ==
  ASSUME ConstantsOK, WInv, NEW r \in Requests, Busy(r), Answer(r), UNCHANGED Rows,
         mishaps' \subseteq Kinds, mishaps \subseteq mishaps'
  PROVE  WInv'
<1>1. TablesGo /\ StaffShrinks /\ UNCHANGED <<tenant, user, client, session, picking, staff>>
  BY NoTableGoes DEF Rows, Registry
<1>2. Go(r, Idle) /\ HandlerOK(Idle)'
  BY DEF Answer, HandlerOK
<1>3. /\ request' \in [Requests -> Handler \cup {Idle}]
      /\ \A q \in Requests : request'[q] = IF q = r THEN Idle ELSE request[q]
      /\ \A q \in Requests : Busy(q)' => Busy(q)
  BY <1>2, OneMoves
<1>4. TypeOK'
  BY <1>1, <1>3 DEF WInv, TypeOK
<1>5. (\A q \in Requests : HandlerOK(request[q]))'
  BY <1>1, <1>2, HandlersGo
<1>6. \A q \in Requests : Busy(q)' => Busy(q) /\ request'[q] = request[q]
  BY <1>3 DEF Busy
<1>7. RoomKept'
  BY <1>1, <1>6, RoomStays
<1>8. Alone'
  BY <1>6, AloneStays
<1>9. Unspent'
  BY <1>1, <1>6, UnspentStays
<1>10. SignedUpWhole'
  BY <1>1, WholeStays
<1>11. PickersOK'
  BY <1>1, PickersStay DEF TablesGo
<1> QED
  BY <1>4, <1>5, <1>7, <1>8, <1>9, <1>10, <1>11 DEF WInv

\* The failures of a sign-up, of a session to make and of an assignment.
LEMMA FailStep ==
  ASSUME ConstantsOK, WInv, NEW r \in Requests, Busy(r),
         ProvisionFails(r) \/ MintFails(r) \/ AssignFails(r)
  PROVE  WInv'
<1>1. Answer(r) /\ UNCHANGED Rows /\ (Calm \/ \E kind \in Kinds : Trouble(kind))
  BY DEF ProvisionFails, MintFails, AssignFails, Kinds
<1> QED
  BY <1>1, MishapsStay, Answers

\* Sessions end, and keep the rest.
LEMMA SessionsEnd ==
  ASSUME TypeOK, NEW ends \in SUBSET DOMAIN session,
         session' = [s \in DOMAIN session |-> [session[s] EXCEPT !.live = @ /\ s \notin ends]]
  PROVE  /\ session' \in Seq(Session) /\ Len(session') = Len(session) /\ SessionsGo
         /\ DOMAIN session' = DOMAIN session
         /\ \A s \in DOMAIN session :
              /\ session'[s].bought = session[s].bought
              /\ session'[s].live <=> session[s].live /\ s \notin ends
<1>1. Len(session) \in Nat /\ DOMAIN session = 1..Len(session)
  BY SessionIds
<1>2. ASSUME NEW s \in DOMAIN session
      PROVE  /\ session'[s] \in Session
             /\ session'[s].at = session[s].at /\ session'[s].email = session[s].email
             /\ session'[s].bought = session[s].bought
             /\ session'[s].live <=> session[s].live /\ s \notin ends
  <2>1. session[s] \in Session /\ session'[s] = [session[s] EXCEPT !.live = @ /\ s \notin ends]
    BY SessionIds
  <2>2. PICK one : one = session[s]
    OBVIOUS
  <2>3. CASE s \in ends
    <3>1. session'[s] = [one EXCEPT !.live = FALSE] /\ one \in Session
      BY <2>1, <2>2, <2>3, Zenon
    <3> QED
      BY <2>2, <2>3, <3>1 DEF Session
  <2>4. CASE s \notin ends
    <3>1. session'[s] = [one EXCEPT !.live = one.live /\ TRUE] /\ one \in Session
      BY <2>1, <2>2, <2>4, Zenon
    <3> QED
      BY <2>2, <2>4, <3>1 DEF Session
  <2> QED
    BY <2>3, <2>4
<1>3. session' \in [1..Len(session) -> Session]
  BY <1>1, <1>2
<1>4. session' \in Seq(Session) /\ Len(session') = Len(session) /\ DOMAIN session' = DOMAIN session
  BY <1>1, <1>3, SeqDef, LenProperties
<1> QED
  BY <1>2, <1>4 DEF SessionsGo

\* One session ends, or the store fails to end it.
LEMMA DropSessionStep ==
  ASSUME ConstantsOK, WInv, NEW r \in Requests, Busy(r), DropSession(r)
  PROVE  WInv'
<1>1. PICK h : h = request[r]
  OBVIOUS
<1>2. h \in Handler /\ RightsOK(h) /\ PlacesOK(h) /\ StepsOK(h) /\ StaffOK(h) /\ h.step = "drop"
  BY <1>1, Holds DEF DropSession, At
<1>3. UNCHANGED <<tenant, user, client, picking, staff>>
  BY DEF DropSession, Registry
<1>4. TypeOK
  BY DEF WInv
<1>5. \/ /\ session' = [s \in DOMAIN session |->
              [session[s] EXCEPT !.live = @ /\ s \notin {h.target}]]
         /\ Calm
      \/ UNCHANGED session /\ Trouble("fault")
  BY <1>1 DEF DropSession, Dropped
<1>6. mishaps' \subseteq Kinds /\ mishaps \subseteq mishaps'
  BY <1>5, MishapsStay DEF Kinds
<1>7. /\ session' \in Seq(Session) /\ Len(session') = Len(session) /\ SessionsGo
      /\ DOMAIN session' = DOMAIN session
      /\ \A s \in DOMAIN session :
           /\ session'[s].bought = session[s].bought
           /\ session'[s].live => session[s].live
      /\ "fault" \in mishaps' \/ ~session'[h.target].live
  <2>1. CASE UNCHANGED session /\ Trouble("fault")
    BY <1>4, <2>1, SessionIds DEF SessionsGo, TypeOK, Trouble
  <2>2. CASE session' = [s \in DOMAIN session |->
               [session[s] EXCEPT !.live = @ /\ s \notin {h.target}]]
    <3>1. PICK ends : ends = {h.target}
      OBVIOUS
    <3>2. ends \in SUBSET DOMAIN session /\ h.target \in DOMAIN session
      BY <1>2, <3>1 DEF PlacesOK
    <3>3. session' = [s \in DOMAIN session |-> [session[s] EXCEPT !.live = @ /\ s \notin ends]]
      BY <2>2, <3>1
    <3>4. /\ session' \in Seq(Session) /\ Len(session') = Len(session) /\ SessionsGo
          /\ DOMAIN session' = DOMAIN session
          /\ \A s \in DOMAIN session :
               /\ session'[s].bought = session[s].bought
               /\ session'[s].live <=> session[s].live /\ s \notin ends
      BY <1>4, <3>2, <3>3, SessionsEnd
    <3> QED
      BY <3>1, <3>2, <3>4
  <2> QED
    BY <1>5, <2>1, <2>2
<1>8. TablesGo /\ StaffShrinks
  BY <1>3, <1>7 DEF TablesGo, StaffShrinks
<1>9. PICK k : k = IF h.op \in {"switch", "select"} THEN [h EXCEPT !.step = "user"] ELSE Idle
  OBVIOUS
<1>10. /\ k \in Handler \cup {Idle} /\ Go(r, k)
       /\ k # Idle => /\ h.op \in {"switch", "select"} /\ k.step = "user" /\ k.op = h.op
                      /\ k.by = h.by /\ k.email = h.email /\ k.at = h.at /\ k.target = h.target
                      /\ k.admin = h.admin /\ k.rights = h.rights
  <2>1. CASE h.op \in {"switch", "select"}
    BY <1>1, <1>2, <1>9, <2>1 DEF DropSession, Goto, Handler
  <2>2. CASE h.op \notin {"switch", "select"}
    BY <1>1, <1>9, <2>2 DEF DropSession, Answer
  <2> QED
    BY <2>1, <2>2
<1>11. HandlerOK(k)
  <2>1. CASE k = Idle
    BY <2>1 DEF HandlerOK
  <2>2. CASE k # Idle
    <3>1. RightsOK(k)
      BY <1>2, <1>10, <2>2 DEF RightsOK
    <3>2. PlacesOK(k)
      BY <1>2, <1>10, <2>2 DEF PlacesOK
    <3>3. StepsOK(k)
      BY <1>2, <1>10, <2>2 DEF StepsOK, Minting, SignInOps, OwnerOps
    <3>4. StaffOK(k)
      BY <1>2, <1>10, <2>2 DEF StaffOK, StaffOps
    <3> QED
      BY <3>1, <3>2, <3>3, <3>4 DEF HandlerOK
  <2> QED
    BY <2>1, <2>2
<1>12. HandlerOK(k)'
  BY <1>3, <1>8, <1>10, <1>11, HandlerRests
<1>13. (\A q \in Requests : HandlerOK(request[q]))'
  BY <1>3, <1>8, <1>10, <1>12, HandlersGo
<1>14. /\ request' \in [Requests -> Handler \cup {Idle}]
       /\ \A q \in Requests : request'[q] = IF q = r THEN k ELSE request[q]
       /\ \A q \in Requests : Busy(q)' => Busy(q)
  BY <1>10, OneMoves
<1>15. TypeOK'
  BY <1>3, <1>6, <1>7, <1>14 DEF WInv, TypeOK
<1>16. \A q \in Requests : Busy(q)' =>
         /\ Busy(q) /\ request'[q].op = request[q].op /\ request'[q].by = request[q].by
         /\ q = r \/ request'[q] = request[q]
  BY <1>1, <1>10, <1>14 DEF Busy
<1>17. RoomKept'
  BY <1>7, <1>16, RoomStays
<1>18. Alone'
  BY <1>6, <1>16, AloneStays
<1>19. Unspent'
  <2>1. ASSUME NEW q \in Requests, Busy(q)', request'[q].op = "select",
               request'[q].step \in {"user", "create", "mint"}
        PROVE  \/ request[q].step \in {"user", "create", "mint"}
               \/ mishaps' \cap {"fault", "overlap"} # {}
               \/ ~session'[request[q].by].live
    <3>1. CASE q = r
      <4>1. h.op = "select" /\ h.target = h.by
        BY <1>1, <1>2, <1>16, <2>1, <3>1 DEF PlacesOK
      <4> QED
        BY <1>1, <1>7, <3>1, <4>1
    <3>2. CASE q # r
      BY <1>16, <2>1, <3>2
    <3> QED
      BY <3>1, <3>2
  <2> QED
    BY <1>6, <1>7, <1>16, <2>1, UnspentStays
<1>20. SignedUpWhole'
  BY <1>3, <1>7, <1>8, WholeStays
<1>21. PickersOK'
  BY <1>3, <1>7, PickersStay
<1> QED
  BY <1>13, <1>15, <1>17, <1>18, <1>19, <1>20, <1>21 DEF WInv

\* A session is made, after an old one was paid with.
LEMMA SessionMade ==
  ASSUME TypeOK, NEW paid \in Seq(Session), Len(paid) = Len(session),
         \A s \in DOMAIN session : /\ paid[s].at = session[s].at
                                   /\ paid[s].email = session[s].email
                                   /\ paid[s].live = session[s].live,
         NEW one \in Session, session' = Append(paid, one)
  PROVE  /\ session' \in Seq(Session) /\ Len(session') = Len(session) + 1 /\ SessionsGo
         /\ Len(session) + 1 \notin DOMAIN session
         /\ DOMAIN session' = DOMAIN session \cup {Len(session) + 1}
         /\ session'[Len(session) + 1] = one
         /\ \A s \in DOMAIN session : session'[s] = paid[s]
<1>1. Len(session) \in Nat /\ DOMAIN session = 1..Len(session)
  BY SessionIds
<1>2. /\ session' \in Seq(Session) /\ Len(session') = Len(session) + 1
      /\ session'[Len(session) + 1] = one
      /\ \A s \in 1..Len(session) : session'[s] = paid[s]
  BY <1>1, AppendProperties
<1>3. DOMAIN session' = 1..(Len(session) + 1)
  BY <1>2, LenProperties
<1>4. DOMAIN session' = DOMAIN session \cup {Len(session) + 1}
  BY <1>1, <1>3
<1> QED
  BY <1>1, <1>2, <1>4 DEF SessionsGo

\* An owner of several workspaces is shown a picker.
LEMMA SigninOwnedStep ==
  ASSUME ConstantsOK, WInv, NEW r \in Requests, Busy(r), SigninOwned(r)
  PROVE  WInv'
<1>1. PICK h : h = request[r]
  OBVIOUS
<1>2. /\ h \in Handler /\ RightsOK(h) /\ PlacesOK(h) /\ StepsOK(h) /\ StaffOK(h)
      /\ h.step = "owned" /\ h.op = "signin"
  BY <1>1, Holds DEF SigninOwned, At
<1>3. UNCHANGED <<tenant, user, client, session, staff, mishaps>>
  BY DEF SigninOwned, Registry
<1>4. CASE Owned(h.email) = {} \/ Cardinality(Owned(h.email)) # 1
  <2>1. Answer(r) /\ (picking' = picking \/ picking' = picking \cup {h.by})
    <3>1. CASE Owned(h.email) = {}
      BY <1>1, <3>1 DEF SigninOwned
    <3>2. CASE Owned(h.email) # {} /\ Cardinality(Owned(h.email)) # 1
      BY <1>1, <3>2 DEF SigninOwned
    <3> QED
      BY <1>4, <3>1, <3>2
  <2>2. TablesGo /\ StaffShrinks
    BY <1>3 DEF TablesGo, SessionsGo, StaffShrinks
  <2>3. Go(r, Idle) /\ HandlerOK(Idle)'
    BY <2>1 DEF Answer, HandlerOK
  <2>4. /\ request' \in [Requests -> Handler \cup {Idle}]
        /\ \A q \in Requests : request'[q] = IF q = r THEN Idle ELSE request[q]
        /\ \A q \in Requests : Busy(q)' => Busy(q)
    BY <2>3, OneMoves
  <2>5. (\A q \in Requests : HandlerOK(request[q]))'
    BY <1>3, <2>2, <2>3, HandlersGo
  <2>6. \A q \in Requests : Busy(q)' => Busy(q) /\ request'[q] = request[q]
    BY <2>4 DEF Busy
  <2>7. h.by \in DOMAIN session /\ session[h.by].at \in Staging
    BY <1>2 DEF PlacesOK
  <2>8. TypeOK' /\ PickersOK'
    BY <1>3, <2>1, <2>4, <2>7 DEF WInv, TypeOK, PickersOK
  <2>9. RoomKept'
    BY <1>3, <2>6, RoomStays
  <2>10. Alone'
    BY <1>3, <2>6, AloneStays
  <2>11. Unspent'
    BY <1>3, <2>6, UnspentStays
  <2>12. SignedUpWhole'
    BY <1>3, <2>2, WholeStays
  <2> QED
    BY <2>5, <2>8, <2>9, <2>10, <2>11, <2>12 DEF WInv
<1>5. CASE Owned(h.email) # {} /\ Cardinality(Owned(h.email)) = 1
  <2>1. UNCHANGED picking /\ \E t \in Owned(h.email) : Go(r, [h EXCEPT !.step = "user", !.at = t])
    BY <1>1, <1>5 DEF SigninOwned
  <2>2. PICK t \in Owned(h.email) : Go(r, [h EXCEPT !.step = "user", !.at = t])
    BY <2>1
  <2>3. PICK k : k = [h EXCEPT !.step = "user", !.at = t]
    OBVIOUS
  <2>4. t \in Tenants /\ t \in h.rights
    BY <1>2 DEF Owned, RightsOK
  <2>5. /\ k \in Handler /\ k.step = "user" /\ k.at = t
        /\ k.op = h.op /\ k.by = h.by /\ k.email = h.email
        /\ k.target = h.target /\ k.admin = h.admin /\ k.rights = h.rights
    BY <1>2, <2>3, <2>4 DEF Handler
  <2>6. RightsOK(k) /\ PlacesOK(k)
    BY <1>2, <2>5 DEF RightsOK, PlacesOK, OwnerOps
  <2>7. StepsOK(k) /\ StaffOK(k)
    BY <1>2, <2>4, <2>5 DEF StepsOK, StaffOK, StaffOps, OwnerOps, Minting, SignInOps
  <2>8. HandlerOK(k) /\ Go(r, k)
    BY <2>2, <2>3, <2>6, <2>7 DEF HandlerOK
  <2>9. UNCHANGED <<Rows, mishaps>>
    BY <1>3, <2>1 DEF Rows, Registry
  <2> QED
    BY <1>1, <1>2, <2>5, <2>8, <2>9, Reads
<1> QED
  BY <1>4, <1>5

\* The owner's user row is made.
LEMMA CreateUserStep ==
  ASSUME ConstantsOK, WInv, NEW r \in Requests, Busy(r), CreateUser(r)
  PROVE  WInv'
<1>1. PICK h : h = request[r]
  OBVIOUS
<1>2. /\ h \in Handler /\ RightsOK(h) /\ PlacesOK(h) /\ StepsOK(h) /\ StaffOK(h)
      /\ h.step = "create" /\ h.op \in Minting /\ h.at \in h.rights
  BY <1>1, Holds DEF CreateUser, At, StepsOK
<1>3. UNCHANGED <<tenant, client, session, picking, staff, mishaps>>
  BY DEF CreateUser
<1>4. CASE <<h.at, h.email>> \in user
  <2>1. Answer(r) /\ UNCHANGED Rows /\ UNCHANGED mishaps
    BY <1>1, <1>3, <1>4 DEF CreateUser, Rows, Registry
  <2>2. mishaps' \subseteq Kinds /\ mishaps \subseteq mishaps'
    BY <2>1 DEF WInv, TypeOK
  <2> QED
    BY <2>1, <2>2, Answers
<1>5. CASE <<h.at, h.email>> \notin user
  <2>1. Goto(r, "mint") /\ user' = user \cup {<<h.at, h.email>>}
    BY <1>1, <1>5 DEF CreateUser
  <2>2. PICK k : k = [h EXCEPT !.step = "mint"]
    OBVIOUS
  <2>3. /\ k \in Handler /\ k.step = "mint" /\ k.at = h.at
        /\ k.op = h.op /\ k.by = h.by /\ k.email = h.email
        /\ k.target = h.target /\ k.admin = h.admin /\ k.rights = h.rights
    BY <1>2, <2>2 DEF Handler
  <2>4. Go(r, k)
    BY <1>1, <2>1, <2>2 DEF Goto
  <2>5. TablesGo /\ StaffShrinks
    BY <1>3, <2>1 DEF TablesGo, SessionsGo, StaffShrinks
  <2>6. HandlerOK(k)'
    <3>1. RightsOK(k)' /\ PlacesOK(k)'
      BY <1>2, <1>3, <2>3 DEF RightsOK, PlacesOK
    <3>2. StepsOK(k)'
      BY <1>2, <1>3, <2>1, <2>3 DEF StepsOK, OwnerOps
    <3>3. StaffOK(k)'
      BY <1>2, <1>3, <2>3 DEF StaffOK, StaffOps, Minting, SignInOps
    <3> QED
      BY <3>1, <3>2, <3>3 DEF HandlerOK
  <2>7. (\A q \in Requests : HandlerOK(request[q]))'
    BY <1>3, <2>4, <2>5, <2>6, HandlersGo
  <2>8. /\ request' \in [Requests -> Handler \cup {Idle}]
        /\ \A q \in Requests : request'[q] = IF q = r THEN k ELSE request[q]
        /\ \A q \in Requests : Busy(q)' => Busy(q)
    BY <2>3, <2>4, OneMoves
  <2>9. \A q \in Requests : Busy(q)' =>
          /\ Busy(q) /\ request'[q].op = request[q].op /\ request'[q].by = request[q].by
          /\ request'[q].step \in {"user", "create", "mint"} =>
               request[q].step \in {"user", "create", "mint"}
    BY <1>1, <1>2, <2>3, <2>8
  <2>10. h.at \in Tenants /\ h.email \in Emails
    BY <1>2 DEF Handler
  <2>11. TypeOK'
    BY <1>3, <2>1, <2>8, <2>10 DEF WInv, TypeOK
  <2>12. RoomKept'
    BY <1>3, <2>9, RoomStays
  <2>13. Alone'
    BY <1>3, <2>9, AloneStays
  <2>14. Unspent'
    BY <1>3, <2>9, UnspentStays
  <2>15. SignedUpWhole'
    BY <1>3, <2>5, WholeStays
  <2>16. PickersOK'
    BY <1>3, <2>5, PickersStay DEF TablesGo
  <2> QED
    BY <2>7, <2>11, <2>12, <2>13, <2>14, <2>15, <2>16 DEF WInv
<1> QED
  BY <1>4, <1>5

\* A staging session is paid with: all else of the table stays.
Spent(by) == [session EXCEPT ![by].bought = @ + 1]
LEMMA Paid ==
  ASSUME TypeOK, NEW by \in DOMAIN session, NEW paid, paid = Spent(by)
  PROVE  /\ paid \in Seq(Session) /\ Len(paid) = Len(session)
         /\ \A s \in DOMAIN session :
              /\ paid[s].at = session[s].at /\ paid[s].email = session[s].email
              /\ paid[s].live = session[s].live
              /\ paid[s].bought = IF s = by THEN session[s].bought + 1 ELSE session[s].bought
<1>1. Len(session) \in Nat /\ DOMAIN session = 1..Len(session)
      /\ session \in Seq(Session) /\ session \in [1..Len(session) -> Session]
  BY SessionIds, LenProperties DEF TypeOK
<1>2. PICK spent : spent = [session[by] EXCEPT !.bought = session[by].bought + 1]
  OBVIOUS
<1>3. session[by] \in Session
  BY <1>1
<1>4. /\ spent \in Session /\ spent.at = session[by].at
      /\ spent.email = session[by].email /\ spent.live = session[by].live
      /\ spent.bought = session[by].bought + 1
  BY <1>2, <1>3 DEF Session
<1>5. paid = [session EXCEPT ![by] = spent]
  BY <1>2 DEF Spent
<1>6. paid \in [1..Len(session) -> Session]
  BY <1>1, <1>4, <1>5
<1>7. paid \in Seq(Session) /\ Len(paid) = Len(session)
  BY <1>1, <1>6, SeqDef, LenProperties
<1> QED
  BY <1>1, <1>4, <1>5, <1>7

\* The session is made for an owner with a user row.
LEMMA MintOwnerSessionStep ==
  ASSUME ConstantsOK, WInv, NEW r \in Requests, Busy(r), MintOwnerSession(r)
  PROVE  WInv'
<1>1. PICK h : h = request[r]
  OBVIOUS
<1>2. /\ h \in Handler /\ RightsOK(h) /\ PlacesOK(h) /\ StepsOK(h)
      /\ h.step = "mint" /\ h.op \in Minting /\ h.at \in h.rights /\ <<h.at, h.email>> \in user
  BY <1>1, Holds DEF MintOwnerSession, At, StepsOK
<1>3. UNCHANGED <<tenant, user, client, picking, staff, mishaps>>
  BY DEF MintOwnerSession, Registry
<1>4. PICK one : one = [at |-> h.at, email |-> h.email, live |-> TRUE, bought |-> 0]
  OBVIOUS
<1>5. /\ one \in Session /\ one.at = h.at /\ one.email = h.email /\ one.live = TRUE
      /\ one.bought = 0 /\ h.at \in Tenants /\ tenant[h.at] # NoTenant
  BY <1>2, <1>4 DEF Session, Handler, RightsOK
<1>6. PICK paid :
        paid = IF h.op = "select" THEN [session EXCEPT ![h.by].bought = @ + 1] ELSE session
  OBVIOUS
<1>7. session' = Append(paid, one) /\ Answer(r)
  BY <1>1, <1>4, <1>6 DEF MintOwnerSession
<1>8. h.by \in DOMAIN session /\ TypeOK
  BY <1>2 DEF PlacesOK, WInv
<1>9. Len(session) \in Nat /\ DOMAIN session = 1..Len(session)
      /\ session \in Seq(Session) /\ session \in [1..Len(session) -> Session]
  BY <1>8, SessionIds, LenProperties DEF TypeOK
<1>10. /\ paid \in Seq(Session) /\ Len(paid) = Len(session)
       /\ \A s \in DOMAIN session :
            /\ paid[s].at = session[s].at /\ paid[s].email = session[s].email
            /\ paid[s].live = session[s].live
            /\ paid[s].bought =
                 IF h.op = "select" /\ s = h.by THEN session[s].bought + 1 ELSE session[s].bought
  <2>1. CASE h.op # "select"
    BY <1>6, <1>9, <2>1
  <2>2. CASE h.op = "select"
    <3>1. PICK by : by = h.by /\ by \in DOMAIN session
      BY <1>8
    <3>2. paid = Spent(by)
      BY <1>6, <2>2, <3>1 DEF Spent
    <3> QED
      BY <1>8, <2>2, <3>1, <3>2, Paid
  <2> QED
    BY <2>1, <2>2
<1>11. /\ session' \in Seq(Session) /\ Len(session') = Len(session) + 1 /\ SessionsGo
       /\ Len(session) + 1 \notin DOMAIN session
       /\ DOMAIN session' = DOMAIN session \cup {Len(session) + 1}
       /\ session'[Len(session) + 1] = one
       /\ \A s \in DOMAIN session : session'[s] = paid[s]
  BY <1>5, <1>7, <1>8, <1>10, SessionMade
<1>12. TablesGo /\ StaffShrinks
  BY <1>3, <1>11 DEF TablesGo, StaffShrinks
<1>13. Go(r, Idle) /\ HandlerOK(Idle)'
  BY <1>7 DEF Answer, HandlerOK
<1>14. /\ request' \in [Requests -> Handler \cup {Idle}]
       /\ \A q \in Requests : request'[q] = IF q = r THEN Idle ELSE request[q]
       /\ \A q \in Requests : Busy(q)' => Busy(q)
  BY <1>13, OneMoves
<1>15. (\A q \in Requests : HandlerOK(request[q]))'
  BY <1>3, <1>12, <1>13, HandlersGo
<1>16. \A q \in Requests : Busy(q)' => q # r /\ Busy(q) /\ request'[q] = request[q]
  BY <1>14 DEF Busy
<1>17. RoomKept' /\ Len(session') <= NumSessions
  <2>1. r \in Minters /\ request'[r] = Idle
    BY <1>1, <1>2, <1>14 DEF Minters
  <2> QED
    BY <1>11, <1>16, <2>1, RoomUsed
<1>18. TypeOK'
  BY <1>3, <1>11, <1>14, <1>17 DEF WInv, TypeOK
<1>19. Alone'
  BY <1>3, <1>16, AloneStays
<1>20. Unspent'
  <2> SUFFICES ASSUME mishaps \cap {"overlap", "fault"} = {}
               PROVE  /\ \A s \in DOMAIN session' :
                           session'[s].bought <= 1 /\ (session'[s].live => session'[s].bought = 0)
                      /\ \A q \in Requests : ~Busy(q)'
    BY <1>3 DEF Unspent
  <2>1. /\ \A s \in DOMAIN session :
             session[s].bought <= 1 /\ (session[s].live => session[s].bought = 0)
        /\ h.op = "select" => session[h.by].bought = 0 /\ ~session[h.by].live
    BY <1>1, <1>2 DEF WInv, Unspent
  <2>2. \A q \in Requests : Busy(q) => q = r
    BY DEF WInv, Alone
  <2>3. ASSUME NEW s \in DOMAIN session'
        PROVE  session'[s].bought <= 1 /\ (session'[s].live => session'[s].bought = 0)
    <3>1. CASE s \notin DOMAIN session
      BY <1>5, <1>11, <2>3, <3>1
    <3>2. CASE s \in DOMAIN session /\ ~(h.op = "select" /\ s = h.by)
      BY <1>10, <1>11, <2>1, <3>2
    <3>3. CASE h.op = "select" /\ s = h.by
      BY <1>8, <1>10, <1>11, <2>1, <3>3
    <3> QED
      BY <3>1, <3>2, <3>3
  <2> QED
    BY <1>16, <2>2, <2>3
<1>21. SignedUpWhole'
  <2>1. \A s \in DOMAIN session' \ DOMAIN session : session'[s] = one
    BY <1>11
  <2> QED
    BY <1>2, <1>3, <1>5, <1>12, <2>1, WholeStays
<1>22. PickersOK'
  BY <1>3, <1>11, PickersStay
<1> QED
  BY <1>15, <1>17, <1>18, <1>19, <1>20, <1>21, <1>22 DEF WInv

\* A sign-up makes the workspace with its user, session and client at once.
LEMMA ProvisionTenantStep ==
  ASSUME ConstantsOK, WInv, NEW r \in Requests, Busy(r), ProvisionTenant(r)
  PROVE  WInv'
<1>1. PICK h : h = request[r]
  OBVIOUS
<1>2. /\ h \in Handler /\ StepsOK(h) /\ h.step = "provision" /\ h.op = "signup"
      /\ h.at \in Tenants /\ h.email \in Emails
  BY <1>1, Holds DEF ProvisionTenant, At, StepsOK, Handler
<1>3. UNCHANGED <<picking, staff, mishaps>> /\ TypeOK
  BY DEF ProvisionTenant, WInv
<1>4. PICK one, row : /\ one = [at |-> h.at, email |-> h.email, live |-> TRUE, bought |-> 0]
                      /\ row = [by |-> h.email, slug |-> "name"]
  OBVIOUS
<1>5. /\ tenant' = [tenant EXCEPT ![h.at] = row] /\ user' = user \cup {<<h.at, h.email>>}
      /\ session' = Append(session, one) /\ client' = client \cup {h.at}
      /\ request' = [Entitle(h.at, h.email) EXCEPT ![r] = Idle]
  BY <1>1, <1>4 DEF ProvisionTenant
<1>6. /\ one \in Session /\ one.at = h.at /\ one.email = h.email /\ one.live = TRUE /\ one.bought = 0
      /\ row \in [by : Emails \cup {Nobody}, slug : {"none", "id", "name"}]
      /\ row.by = h.email /\ row.slug = "name" /\ row # NoTenant
  BY <1>2, <1>4 DEF Session, NoTenant
<1>7. /\ session' \in Seq(Session) /\ Len(session') = Len(session) + 1 /\ SessionsGo
      /\ Len(session) + 1 \notin DOMAIN session
      /\ DOMAIN session' = DOMAIN session \cup {Len(session) + 1}
      /\ session'[Len(session) + 1] = one
      /\ \A s \in DOMAIN session : session'[s] = session[s]
  <2>1. PICK paid : paid = session
    OBVIOUS
  <2>2. paid \in Seq(Session) /\ Len(paid) = Len(session) /\ session' = Append(paid, one)
    BY <1>3, <1>5, <2>1 DEF TypeOK
  <2>3. \A s \in DOMAIN session : paid[s].at = session[s].at /\ paid[s].email = session[s].email
                                  /\ paid[s].live = session[s].live
    BY <2>1
  <2> QED
    BY <1>3, <1>6, <2>1, <2>2, <2>3, SessionMade
<1>8. /\ \A t \in Tenants : tenant'[t] = IF t = h.at THEN row ELSE tenant[t]
      /\ tenant' \in [Tenants -> [by : Emails \cup {Nobody}, slug : {"none", "id", "name"}]]
  BY <1>3, <1>5, <1>6 DEF TypeOK
<1>9. TablesGo /\ StaffShrinks
  BY <1>3, <1>5, <1>6, <1>7, <1>8 DEF TablesGo, StaffShrinks
<1>10. /\ request' \in [Requests -> Handler \cup {Idle}]
       /\ (\A q \in Requests : HandlerOK(request[q]))'
       /\ \A q \in Requests :
            \/ request'[q] = Idle
            \/ q # r /\ Busy(q) /\ request'[q] # Idle /\ request'[q].op = request[q].op
               /\ request'[q].step = request[q].step /\ request'[q].by = request[q].by
  BY <1>2, <1>5, <1>6, <1>9, HandlersEntitled
<1>11. \A q \in Requests : Busy(q)' =>
         /\ q # r /\ Busy(q) /\ request'[q].op = request[q].op
         /\ request'[q].step = request[q].step /\ request'[q].by = request[q].by
  BY <1>10 DEF Busy
<1>12. RoomKept' /\ Len(session') <= NumSessions
  <2>1. r \in Minters /\ request'[r] = Idle
    BY <1>1, <1>2, <1>10 DEF Minters, Minting, SignInOps
  <2> QED
    BY <1>7, <1>11, <2>1, RoomUsed
<1>13. TypeOK'
  BY <1>2, <1>3, <1>5, <1>7, <1>8, <1>10, <1>12 DEF TypeOK
<1>14. Alone'
  BY <1>3, <1>11, AloneStays
<1>15. \A s \in DOMAIN session' \ DOMAIN session : session'[s] = one
  BY <1>7
<1>16. Unspent'
  BY <1>3, <1>6, <1>7, <1>11, <1>15, UnspentStays
<1>17. SignedUpWhole'
  BY <1>2, <1>5, <1>6, <1>8, <1>9, <1>15, WholeStays
<1>18. PickersOK'
  BY <1>3, <1>7, PickersStay
<1> QED
  BY <1>10, <1>12, <1>13, <1>14, <1>16, <1>17, <1>18 DEF WInv

\* Staff hand a workspace over, or register an owner for one without a row.
LEMMA SetTenantOwnerStep ==
  ASSUME ConstantsOK, WInv, NEW r \in Requests, Busy(r), SetTenantOwner(r)
  PROVE  WInv'
<1>1. PICK h : h = request[r]
  OBVIOUS
<1>2. /\ h \in Handler /\ StepsOK(h) /\ h.step = "assign" /\ h.op = "assign"
      /\ h.at \in Tenants /\ h.to \in Emails
  BY <1>1, Holds DEF SetTenantOwner, At, StepsOK, Handler
<1>3. UNCHANGED <<user, client, session, picking, staff, mishaps>> /\ TypeOK
  BY DEF SetTenantOwner, WInv
<1>4. PICK row : row = [by |-> h.to, slug |-> IF tenant[h.at] = NoTenant THEN "id"
                                              ELSE tenant[h.at].slug]
  OBVIOUS
<1>5. /\ tenant' = [tenant EXCEPT ![h.at] = row]
      /\ request' = [Entitle(h.at, h.to) EXCEPT ![r] = Idle]
  BY <1>1, <1>4 DEF SetTenantOwner
<1>6. /\ row \in [by : Emails \cup {Nobody}, slug : {"none", "id", "name"}]
      /\ row.by = h.to /\ (row.slug = "name" => tenant[h.at].slug = "name") /\ row # NoTenant
  <2>1. tenant[h.at] \in [by : Emails \cup {Nobody}, slug : {"none", "id", "name"}]
    BY <1>2, <1>3 DEF TypeOK
  <2>2. h.to # Nobody
    BY <1>2 DEF ConstantsOK
  <2> QED
    BY <1>2, <1>4, <2>1, <2>2 DEF NoTenant
<1>7. /\ \A t \in Tenants : tenant'[t] = IF t = h.at THEN row ELSE tenant[t]
      /\ tenant' \in [Tenants -> [by : Emails \cup {Nobody}, slug : {"none", "id", "name"}]]
  BY <1>3, <1>5, <1>6 DEF TypeOK
<1>8. TablesGo /\ StaffShrinks
  BY <1>3, <1>6, <1>7 DEF TablesGo, SessionsGo, StaffShrinks
<1>9. /\ request' \in [Requests -> Handler \cup {Idle}]
      /\ (\A q \in Requests : HandlerOK(request[q]))'
      /\ \A q \in Requests :
           \/ request'[q] = Idle
           \/ q # r /\ Busy(q) /\ request'[q] # Idle /\ request'[q].op = request[q].op
              /\ request'[q].step = request[q].step /\ request'[q].by = request[q].by
  BY <1>2, <1>5, <1>6, <1>8, HandlersEntitled
<1>10. \A q \in Requests : Busy(q)' =>
         /\ q # r /\ Busy(q) /\ request'[q].op = request[q].op
         /\ request'[q].step = request[q].step /\ request'[q].by = request[q].by
  BY <1>9 DEF Busy
<1>11. TypeOK'
  BY <1>3, <1>7, <1>9 DEF TypeOK
<1>12. RoomKept'
  BY <1>3, <1>10, RoomStays
<1>13. Alone'
  BY <1>3, <1>10, AloneStays
<1>14. Unspent'
  BY <1>3, <1>10, UnspentStays
<1>15. SignedUpWhole'
  BY <1>3, <1>6, <1>7, <1>8, WholeStays
<1>16. PickersOK'
  BY <1>3, <1>8, PickersStay DEF TablesGo
<1> QED
  BY <1>9, <1>11, <1>12, <1>13, <1>14, <1>15, <1>16 DEF WInv

-----------------------------------------------------------------------------
(* Requests that start, and what happens beside them.                        *)

\* What a request starts with suits its operation.
ArrivalOK(op, s, step, at, target, to) ==
  /\ op \in OwnerOps \cup StaffOps \cup SignInOps \cup {"enter", "leave"}
  /\ step \in {"tenant", "check", "drop", "owned", "staff"}
  /\ at \in Tenants \cup Staging /\ target \in DOMAIN session /\ to \in Emails
  /\ \A h \in Handler :
       /\ h.op = op /\ h.step = step /\ h.by = s /\ h.at = at /\ h.target = target
       /\ h.email = session[s].email /\ h.admin = IsAdmin(session[s].email)
       => PlacesOK(h) /\ StepsOK(h) /\ StaffOK(h)

\* A request starts with a live session.
LEMMA ArriveStep ==
  ASSUME ConstantsOK, WInv, NEW r \in Requests, NEW s \in DOMAIN session,
         NEW op, NEW step, NEW at, NEW target, NEW to,
         ArrivalOK(op, s, step, at, target, to), Arrive(r, op, s, step, at, target, to)
  PROVE  WInv'
<1> USE DEF ArrivalOK
<1>1. PICK e : e = session[s].email
  OBVIOUS
<1>2. PICK h : h = [op |-> op, step |-> step, by |-> s, email |-> e, at |-> at,
                    target |-> target, to |-> to, rights |-> Owned(e), admin |-> IsAdmin(e)]
  OBVIOUS
<1>3. /\ Go(r, h) /\ UNCHANGED <<tenant, user, client, session, picking, staff>>
      /\ Overlaps(r) /\ session[s].live /\ ~Busy(r) /\ (op \in Minting => Room)
  BY <1>1, <1>2 DEF Arrive, Rows, Registry
<1>4. /\ DOMAIN session \subseteq Sessions /\ e \in Emails /\ TypeOK
  <2>1. TypeOK /\ NumSessions \in Nat
    BY DEF WInv, ConstantsOK
  <2>2. Len(session) \in Nat /\ DOMAIN session = 1..Len(session) /\ session[s] \in Session
    BY <2>1, SessionIds
  <2>3. e \in Emails
    BY <1>1, <2>2 DEF Session
  <2> QED
    BY <2>1, <2>2, <2>3 DEF TypeOK, Sessions
<1>5. IsAdmin(e) \in BOOLEAN /\ Owned(e) \in SUBSET Tenants
  BY DEF IsAdmin, IsAllowed, Owned
<1>6. /\ h \in Handler
      /\ h.op = op /\ h.step = step /\ h.by = s /\ h.at = at /\ h.target = target
      /\ h.email = e /\ h.admin = IsAdmin(e) /\ h.rights = Owned(e)
  BY <1>2, <1>4, <1>5 DEF Handler
<1>7. HandlerOK(h)
  <2>1. \A t \in Owned(e) : tenant[t] # NoTenant
    BY <1>4 DEF Owned, NoTenant, ConstantsOK
  <2>2. RightsOK(h)
    BY <1>6, <2>1 DEF RightsOK, Owned
  <2> QED
    BY <1>1, <1>6, <2>2 DEF HandlerOK
<1>8. TablesGo /\ StaffShrinks
  BY <1>3, NoTableGoes DEF Rows, Registry
<1>9. HandlerOK(h)'
  BY <1>3, <1>6, <1>7, <1>8, HandlerRests
<1>10. (\A q \in Requests : HandlerOK(request[q]))'
  BY <1>3, <1>8, <1>9, HandlersGo
<1>11. /\ request' \in [Requests -> Handler \cup {Idle}]
       /\ \A q \in Requests : request'[q] = IF q = r THEN h ELSE request[q]
  BY <1>3, <1>6 DEF Go, WInv, TypeOK
<1>12. mishaps' \subseteq Kinds /\ mishaps \subseteq mishaps'
  <2>1. Calm \/ \E kind \in Kinds : Trouble(kind)
    BY <1>3 DEF Overlaps, Kinds
  <2> QED
    BY <2>1, MishapsStay
<1>13. TypeOK'
  BY <1>3, <1>4, <1>11, <1>12 DEF TypeOK
<1>14. RoomKept'
  BY <1>3, <1>6, RoomTaken
<1>15. Alone'
  BY <1>3, AloneArrives
<1>16. Unspent'
  <2> SUFFICES ASSUME mishaps' \cap {"overlap", "fault"} = {}
               PROVE  /\ \A t \in DOMAIN session :
                           session[t].bought <= 1 /\ (session[t].live => session[t].bought = 0)
                      /\ \A q \in Requests : Busy(q)' /\ request'[q].op = "select" =>
                           /\ session[request'[q].by].bought = 0
                           /\ request'[q].step \in {"user", "create", "mint"} =>
                                ~session[request'[q].by].live
    BY <1>3 DEF Unspent
  <2>1. /\ \A t \in DOMAIN session :
             session[t].bought <= 1 /\ (session[t].live => session[t].bought = 0)
        /\ \A q \in Requests : Busy(q) /\ request[q].op = "select" =>
             /\ session[request[q].by].bought = 0
             /\ request[q].step \in {"user", "create", "mint"} => ~session[request[q].by].live
    BY <1>12 DEF WInv, Unspent
  <2>2. session[s].bought = 0
    BY <1>3, <2>1
  <2>3. step \notin {"user", "create", "mint"}
    OBVIOUS
  <2> QED
    BY <1>6, <1>11, <2>1, <2>2, <2>3 DEF Busy
<1>17. SignedUpWhole'
  BY <1>3, <1>8, WholeStays
<1>18. PickersOK'
  BY <1>3, <1>8, PickersStay DEF TablesGo
<1> QED
  BY <1>10, <1>13, <1>14, <1>15, <1>16, <1>17, <1>18 DEF WInv

\* A session's email is one.
LEMMA SessionEmail ==
  ASSUME WInv, NEW s \in DOMAIN session
  PROVE  session[s].email \in Emails /\ session[s].at \in Tenants \cup Staging
BY SessionIds DEF WInv, Session

\* Any request that starts.
LEMMA BeginStep ==
  ASSUME ConstantsOK, WInv, NEW r \in Requests, NEW s \in DOMAIN session, Begin(r, s)
  PROVE  WInv'
<1>1. session[s].email \in Emails /\ session[s].at \in Tenants \cup Staging
  BY SessionEmail
<1>2. ASSUME NEW t \in Tenants, SignupCallback(r, s, t) PROVE WInv'
  <2>1. Arrive(r, "signup", s, "owned", t, s, session[s].email)
    BY <1>2 DEF SignupCallback
  <2>2. session[s].at \in Staging
    BY <1>2 DEF SignupCallback, Staging
  <2>3. ArrivalOK("signup", s, "owned", t, s, session[s].email)
    BY <1>1, <1>2, <2>2
    DEF ArrivalOK, PlacesOK, StepsOK, StaffOK, OwnerOps, StaffOps, SignInOps, Staging
  <2> QED
    BY <2>1, <2>3, ArriveStep
<1>3. CASE OwnerCallback(r, s)
  <2>1. Arrive(r, "signin", s, "owned", "ten_signup", s, session[s].email)
    BY <1>3 DEF OwnerCallback
  <2>2. session[s].at \in Staging
    BY <1>3 DEF OwnerCallback, Staging
  <2>3. ArrivalOK("signin", s, "owned", "ten_signup", s, session[s].email)
    BY <1>1, <1>3, <2>2
    DEF ArrivalOK, PlacesOK, StepsOK, StaffOK, OwnerOps, StaffOps, SignInOps, Staging
  <2> QED
    BY <2>1, <2>3, ArriveStep
<1>4. ASSUME NEW t \in Tenants, OwnerSelect(r, s, t) PROVE WInv'
  <2>1. Arrive(r, "select", s, "check", t, s, session[s].email)
    BY <1>4 DEF OwnerSelect
  <2>2. session[s].at \in Staging
    BY <1>4 DEF OwnerSelect, WInv, PickersOK, Staging
  <2>3. ArrivalOK("select", s, "check", t, s, session[s].email)
    BY <1>1, <1>4, <2>2
    DEF ArrivalOK, PlacesOK, StepsOK, StaffOK, OwnerOps, StaffOps, SignInOps, Staging
  <2> QED
    BY <2>1, <2>3, ArriveStep
<1>5. CASE StaffCallback(r, s)
  <2>1. Arrive(r, "enter", s, "drop", "ten_admin", s, session[s].email)
    BY <1>5 DEF StaffCallback
  <2>2. session[s].at \in Staging
    BY <1>5 DEF StaffCallback, Staging
  <2>3. ArrivalOK("enter", s, "drop", "ten_admin", s, session[s].email)
    BY <1>1, <1>5, <2>2
    DEF ArrivalOK, PlacesOK, StepsOK, StaffOK, OwnerOps, StaffOps, SignInOps, Staging
  <2> QED
    BY <2>1, <2>3, ArriveStep
<1>6. CASE StaffLogout(r, s)
  <2>1. Arrive(r, "leave", s, "drop", "ten_admin", s, session[s].email)
    BY <1>6 DEF StaffLogout
  <2>2. session[s].at \in Staging
    BY <1>6 DEF StaffLogout, Staging
  <2>3. ArrivalOK("leave", s, "drop", "ten_admin", s, session[s].email)
    BY <1>1, <1>6, <2>2
    DEF ArrivalOK, PlacesOK, StepsOK, StaffOK, OwnerOps, StaffOps, SignInOps, Staging
  <2> QED
    BY <2>1, <2>3, ArriveStep
<1>7. ASSUME NEW t \in Tenants, OwnerRequest(r, "switch", s, t, s) PROVE WInv'
  <2>1. Arrive(r, "switch", s, "tenant", t, s, session[s].email)
    BY <1>7 DEF OwnerRequest
  <2>2. session[s].at \in Tenants
    BY <1>7 DEF OwnerRequest, Staging
  <2>3. ArrivalOK("switch", s, "tenant", t, s, session[s].email)
    BY <1>1, <1>7, <2>2
    DEF ArrivalOK, PlacesOK, StepsOK, StaffOK, OwnerOps, StaffOps, SignInOps, Staging
  <2> QED
    BY <2>1, <2>3, ArriveStep
<1>8. CASE OwnerRequest(r, "logout", s, session[s].at, s)
  <2>1. Arrive(r, "logout", s, "tenant", session[s].at, s, session[s].email)
    BY <1>8 DEF OwnerRequest
  <2>2. session[s].at \in Tenants
    BY <1>8 DEF OwnerRequest, Staging
  <2>3. ArrivalOK("logout", s, "tenant", session[s].at, s, session[s].email)
    BY <1>1, <1>8, <2>2
    DEF ArrivalOK, PlacesOK, StepsOK, StaffOK, OwnerOps, StaffOps, SignInOps, Staging
  <2> QED
    BY <2>1, <2>3, ArriveStep
<1>9. ASSUME NEW target \in DOMAIN session, OwnerRequest(r, "revoke", s, session[s].at, target)
      PROVE  WInv'
  <2>1. Arrive(r, "revoke", s, "tenant", session[s].at, target, session[s].email)
    BY <1>9 DEF OwnerRequest
  <2>2. session[s].at \in Tenants
    BY <1>9 DEF OwnerRequest, Staging
  <2>3. ArrivalOK("revoke", s, "tenant", session[s].at, target, session[s].email)
    BY <1>1, <1>9, <2>2
    DEF ArrivalOK, PlacesOK, StepsOK, StaffOK, OwnerOps, StaffOps, SignInOps, Staging
  <2> QED
    BY <2>1, <2>3, ArriveStep
<1>10. ASSUME NEW t \in Tenants, NEW to \in Emails, StaffRequest(r, "assign", s, t, s, to)
       PROVE  WInv'
  <2>1. Arrive(r, "assign", s, "staff", t, s, to)
    BY <1>10 DEF StaffRequest
  <2>2. session[s].at \in Staging
    BY <1>10 DEF StaffRequest, Staging
  <2>3. IsAllowed(session[s].email)
    BY <1>10 DEF StaffRequest
  <2>4. ASSUME NEW h \in Handler, h.step = "staff", h.admin = IsAdmin(session[s].email),
               h.email = session[s].email
        PROVE  StaffOK(h)
    BY <2>3, <2>4 DEF StaffOK, IsAdmin
  <2>5. ArrivalOK("assign", s, "staff", t, s, to)
    BY <1>1, <1>10, <2>2, <2>4
    DEF ArrivalOK, PlacesOK, StepsOK, OwnerOps, StaffOps, SignInOps, Staging
  <2> QED
    BY <2>1, <2>5, ArriveStep
<1>11. ASSUME NEW target \in DOMAIN session, session[target].at \in Tenants,
              StaffRequest(r, "expel", s, session[target].at, target, session[s].email)
       PROVE  WInv'
  <2>1. Arrive(r, "expel", s, "staff", session[target].at, target, session[s].email)
    BY <1>11 DEF StaffRequest
  <2>2. session[s].at \in Staging
    BY <1>11 DEF StaffRequest, Staging
  <2>3. IsAllowed(session[s].email)
    BY <1>11 DEF StaffRequest
  <2>4. ASSUME NEW h \in Handler, h.step = "staff", h.admin = IsAdmin(session[s].email),
               h.email = session[s].email
        PROVE  StaffOK(h)
    BY <2>3, <2>4 DEF StaffOK, IsAdmin
  <2>5. ArrivalOK("expel", s, "staff", session[target].at, target, session[s].email)
    BY <1>1, <1>11, <2>2, <2>4
    DEF ArrivalOK, PlacesOK, StepsOK, OwnerOps, StaffOps, SignInOps, Staging
  <2> QED
    BY <2>1, <2>5, ArriveStep
<1> QED
  BY <1>2, <1>3, <1>4, <1>5, <1>6, <1>7, <1>8, <1>9, <1>10, <1>11 DEF Begin

\* The Google leg finds room for its session.
LEMMA GoogleLegStep ==
  ASSUME ConstantsOK, WInv, NEW at \in Staging, NEW e \in Emails, GoogleLeg(at, e)
  PROVE  WInv'
<1>1. PICK one : one = [at |-> at, email |-> e, live |-> TRUE, bought |-> 0]
  OBVIOUS
<1>2. one \in Session /\ one.at = at /\ one.live = TRUE /\ one.bought = 0
  BY <1>1 DEF Session
<1>3. /\ UNCHANGED <<tenant, user, client, picking, staff, request, mishaps>>
      /\ session' = Append(session, one) /\ TypeOK
  BY <1>1 DEF GoogleLeg, Registry, WInv
<1>4. /\ session' \in Seq(Session) /\ Len(session') = Len(session) + 1 /\ SessionsGo
      /\ Len(session) + 1 \notin DOMAIN session
      /\ DOMAIN session' = DOMAIN session \cup {Len(session) + 1}
      /\ session'[Len(session) + 1] = one
      /\ \A s \in DOMAIN session : session'[s] = session[s]
  <2>1. PICK paid : paid = session
    OBVIOUS
  <2>2. paid \in Seq(Session) /\ Len(paid) = Len(session) /\ session' = Append(paid, one)
    BY <1>3, <2>1 DEF TypeOK
  <2>3. \A s \in DOMAIN session : paid[s].at = session[s].at /\ paid[s].email = session[s].email
                                  /\ paid[s].live = session[s].live
    BY <2>1
  <2> QED
    BY <1>2, <1>3, <2>1, <2>2, <2>3, SessionMade
<1>5. TablesGo /\ StaffShrinks
  BY <1>3, <1>4 DEF TablesGo, StaffShrinks
<1>6. (\A q \in Requests : HandlerOK(request[q]))'
  BY <1>3, <1>5, HandlersRest
<1>7. RoomKept' /\ Len(session') <= NumSessions
  <2>1. Len(session) + Cardinality(Minters) < NumSessions
    BY DEF GoogleLeg, Room, Minters
  <2>2. PICK minters : minters = Minters
    OBVIOUS
  <2>3. Minters' = minters
    BY <1>3, <2>2 DEF Minters, Busy
  <2>4. Len(session) \in Nat /\ NumSessions \in Nat /\ Cardinality(minters) \in Nat
    BY <1>3, <2>2, SessionIds, MintersFinite DEF ConstantsOK
  <2> QED
    BY <1>4, <2>1, <2>2, <2>3, <2>4 DEF RoomKept
<1>8. PickersOK' /\ picking' \subseteq DOMAIN session'
  BY <1>3, <1>4, PickersStay
<1>9. TypeOK'
  BY <1>3, <1>4, <1>7, <1>8 DEF TypeOK
<1>10. \A q \in Requests : Busy(q)' => Busy(q) /\ request'[q] = request[q]
  BY <1>3 DEF Busy
<1>11. Alone'
  BY <1>3, <1>10, AloneStays
<1>12. \A s \in DOMAIN session' \ DOMAIN session : session'[s] = one
  BY <1>4
<1>13. Unspent'
  BY <1>2, <1>3, <1>4, <1>10, <1>12, UnspentStays
<1>14. SignedUpWhole'
  BY <1>2, <1>3, <1>5, <1>12, WholeStays DEF ConstantsOK
<1> QED
  BY <1>6, <1>7, <1>8, <1>9, <1>11, <1>13, <1>14 DEF WInv

\* A session's time is up.
LEMMA LapseStep ==
  ASSUME ConstantsOK, WInv, NEW s \in DOMAIN session, Lapse(s)
  PROVE  WInv'
<1>1. /\ UNCHANGED <<tenant, user, client, picking, staff, request>> /\ TypeOK
      /\ session' = [session EXCEPT ![s].live = FALSE]
  BY DEF Lapse, Registry, WInv
<1>2. PICK ends : ends = {s}
  OBVIOUS
<1>3. session' = [t \in DOMAIN session |-> [session[t] EXCEPT !.live = @ /\ t \notin ends]]
  <2>1. PICK one : one = session[s]
    OBVIOUS
  <2>2. one \in Session
    BY <1>1, <2>1, SessionIds
  <2>3. session \in Seq(Session)
    BY <1>1 DEF TypeOK
  <2>4. session' = [t \in DOMAIN session |->
                      IF t = s THEN [session[t] EXCEPT !.live = FALSE] ELSE session[t]]
    BY <1>1, <2>3
  <2>5. ASSUME NEW t \in DOMAIN session
        PROVE  (IF t = s THEN [session[t] EXCEPT !.live = FALSE] ELSE session[t])
                 = [session[t] EXCEPT !.live = @ /\ t \notin ends]
    <3>1. PICK two : two = session[t]
      OBVIOUS
    <3>2. two \in Session
      BY <1>1, <3>1, SessionIds
    <3>3. PICK live : live = two.live /\ live \in BOOLEAN
      BY <3>2 DEF Session
    <3>4. two = [two EXCEPT !.live = live]
      BY <3>2, <3>3 DEF Session
    <3>5. CASE t = s
      <4>1. (two.live /\ t \notin ends) = FALSE
        BY <1>2, <3>5
      <4>2. [two EXCEPT !.live = FALSE] = [two EXCEPT !.live = two.live /\ t \notin ends]
        BY <4>1, Zenon
      <4> QED
        BY <3>1, <3>5, <4>2
    <3>6. CASE t # s
      <4>1. (two.live /\ t \notin ends) = live
        BY <1>2, <3>3, <3>6
      <4>2. two = [two EXCEPT !.live = two.live /\ t \notin ends]
        BY <3>4, <4>1, Zenon
      <4> QED
        BY <3>1, <3>6, <4>2, Zenon
    <3> QED
      BY <3>5, <3>6
  <2> QED
    BY <2>4, <2>5, Zenon
<1>4. /\ session' \in Seq(Session) /\ Len(session') = Len(session) /\ SessionsGo
      /\ DOMAIN session' = DOMAIN session
      /\ \A t \in DOMAIN session :
           /\ session'[t].bought = session[t].bought
           /\ session'[t].live <=> session[t].live /\ t \notin ends
  <2>1. ends \in SUBSET DOMAIN session
    BY <1>2
  <2> QED
    BY <1>1, <1>3, <2>1, SessionsEnd
<1>5. TablesGo /\ StaffShrinks
  BY <1>1, <1>4 DEF TablesGo, StaffShrinks
<1>6. (\A q \in Requests : HandlerOK(request[q]))'
  BY <1>1, <1>5, HandlersRest
<1>7. mishaps' \subseteq Kinds /\ mishaps \subseteq mishaps'
  BY MishapsStay DEF Lapse, Kinds
<1>8. PickersOK' /\ picking' \subseteq DOMAIN session'
  BY <1>1, <1>4, PickersStay
<1>9. TypeOK'
  BY <1>1, <1>4, <1>7, <1>8 DEF TypeOK
<1>10. \A q \in Requests : Busy(q)' => Busy(q) /\ request'[q] = request[q]
  BY <1>1 DEF Busy
<1>11. Alone'
  BY <1>7, <1>10, AloneStays
<1>12. RoomKept'
  BY <1>4, <1>10, RoomStays
<1>13. Unspent'
  BY <1>4, <1>7, <1>10, UnspentStays
<1>14. SignedUpWhole'
  BY <1>1, <1>4, <1>5, WholeStays
<1> QED
  BY <1>6, <1>8, <1>9, <1>11, <1>12, <1>13, <1>14 DEF WInv

\* Staff rows lose by hand.
LEMMA StaffLose ==
  ASSUME ConstantsOK, WInv, StaffShrinks, UNCHANGED <<Registry, session, picking, request>>,
         staff' \in [Emails -> [active : BOOLEAN, roles : SUBSET Roles]], Trouble("demotion")
  PROVE  WInv'
<1>1. UNCHANGED <<tenant, user, client, session, picking, request>> /\ TypeOK
  BY DEF Registry, WInv
<1>2. TablesGo
  BY <1>1 DEF TablesGo, SessionsGo
<1>3. (\A q \in Requests : HandlerOK(request[q]))'
  BY <1>1, <1>2, HandlersRest
<1>4. mishaps' \subseteq Kinds /\ mishaps \subseteq mishaps'
  BY MishapsStay DEF Kinds
<1>5. PickersOK'
  BY <1>1, <1>2, PickersStay DEF TablesGo
<1>6. TypeOK'
  BY <1>1, <1>4 DEF TypeOK
<1>7. \A q \in Requests : Busy(q)' => Busy(q) /\ request'[q] = request[q]
  BY <1>1 DEF Busy
<1>8. Alone'
  BY <1>4, <1>7, AloneStays
<1>9. RoomKept'
  BY <1>1, <1>7, RoomStays
<1>10. Unspent'
  BY <1>1, <1>4, <1>7, UnspentStays
<1>11. SignedUpWhole'
  BY <1>1, <1>2, WholeStays
<1> QED
  BY <1>3, <1>5, <1>6, <1>8, <1>9, <1>10, <1>11 DEF WInv

\* An account is disabled.
LEMMA DemoteStep ==
  ASSUME ConstantsOK, WInv, NEW e \in Emails, Demote(e)
  PROVE  WInv' /\ StaffShrinks
<1>1. staff \in [Emails -> [active : BOOLEAN, roles : SUBSET Roles]]
  BY DEF WInv, TypeOK
<1>2. PICK row, new : row = staff[e] /\ new = [row EXCEPT !.active = FALSE]
  OBVIOUS
<1>3. /\ new \in [active : BOOLEAN, roles : SUBSET Roles]
      /\ new.active = FALSE /\ new.roles = row.roles
  BY <1>1, <1>2
<1>4. staff' = [staff EXCEPT ![e] = new]
  BY <1>2 DEF Demote
<1>5. StaffShrinks /\ staff' \in [Emails -> [active : BOOLEAN, roles : SUBSET Roles]]
  BY <1>1, <1>2, <1>3, <1>4 DEF StaffShrinks
<1> QED
  BY <1>5, StaffLose DEF Demote

\* An account loses a role.
LEMMA StripRoleStep ==
  ASSUME ConstantsOK, WInv, NEW e \in Emails, NEW role \in Roles, StripRole(e, role)
  PROVE  WInv' /\ StaffShrinks
<1>1. staff \in [Emails -> [active : BOOLEAN, roles : SUBSET Roles]]
  BY DEF WInv, TypeOK
<1>2. PICK row, new : row = staff[e] /\ new = [row EXCEPT !.roles = @ \ {role}]
  OBVIOUS
<1>3. /\ new \in [active : BOOLEAN, roles : SUBSET Roles]
      /\ new.active = row.active /\ new.roles \subseteq row.roles
  BY <1>1, <1>2
<1>4. staff' = [staff EXCEPT ![e] = new]
  BY <1>2 DEF StripRole
<1>5. StaffShrinks /\ staff' \in [Emails -> [active : BOOLEAN, roles : SUBSET Roles]]
  BY <1>1, <1>2, <1>3, <1>4 DEF StaffShrinks
<1> QED
  BY <1>5, StaffLose DEF StripRole

\* What a boot makes of the staff rows.
LEMMA BootedRows ==
  ASSUME NEW rows \in [Emails -> [active : BOOLEAN, roles : SUBSET Roles]]
  PROVE  /\ Booted(rows) \in [Emails -> [active : BOOLEAN, roles : SUBSET Roles]]
         /\ \A e \in Emails \ RootEmails :
              rows[e] # NoStaff /\ ~rows[e].active => ~Booted(rows)[e].active
<1>1. ASSUME NEW e \in Emails
      PROVE  /\ Booted(rows)[e] \in [active : BOOLEAN, roles : SUBSET Roles]
             /\ e \notin RootEmails /\ rows[e] # NoStaff /\ ~rows[e].active
                  => ~Booted(rows)[e].active
  <2>1. PICK row : row = rows[e]
    OBVIOUS
  <2>2. row \in [active : BOOLEAN, roles : SUBSET Roles]
    BY <2>1
  <2>3. Booted(rows)[e] = IF IsAllowed(e) THEN Ensured(e, row) ELSE row
    BY <2>1 DEF Booted
  <2>4. CASE ~IsAllowed(e)
    BY <2>1, <2>2, <2>3, <2>4
  <2>5. CASE IsAllowed(e) /\ e \in RootEmails
    BY <2>2, <2>3, <2>5 DEF Ensured, Roles
  <2>6. CASE IsAllowed(e) /\ e \notin RootEmails /\ (row = NoStaff \/ row.active)
    BY <2>1, <2>2, <2>3, <2>6 DEF Ensured, Roles
  <2>7. CASE IsAllowed(e) /\ e \notin RootEmails /\ ~(row = NoStaff \/ row.active)
    BY <2>1, <2>2, <2>3, <2>7 DEF Ensured
  <2> QED
    BY <2>4, <2>5, <2>6, <2>7
<1>2. Booted(rows) = [e \in Emails |-> Booted(rows)[e]]
  BY DEF Booted
<1> QED
  BY <1>1, <1>2

\* A restart ends every request, and may give staff back what they had.
LEMMA RestartStep ==
  ASSUME ConstantsOK, WInv, Restart
  PROVE  WInv'
<1>1. /\ UNCHANGED <<tenant, user, client, session, picking>> /\ TypeOK
      /\ request' = [r \in Requests |-> Idle] /\ staff' = Booted(staff)
  BY DEF Restart, Registry, WInv
<1>2. TablesGo
  BY <1>1 DEF TablesGo, SessionsGo
<1>3. (\A q \in Requests : HandlerOK(request[q]))'
  BY <1>1 DEF HandlerOK
<1>4. mishaps' \subseteq Kinds /\ mishaps \subseteq mishaps'
  BY MishapsStay DEF Restart, Kinds
<1>5. PickersOK'
  BY <1>1, <1>2, PickersStay DEF TablesGo
<1>6. TypeOK'
  <2>1. staff' \in [Emails -> [active : BOOLEAN, roles : SUBSET Roles]]
    BY <1>1, BootedRows DEF TypeOK
  <2> QED
    BY <1>1, <1>4, <2>1 DEF TypeOK
<1>7. \A q \in Requests : ~Busy(q)'
  BY <1>1 DEF Busy
<1>8. Alone'
  BY <1>4, <1>7, AloneStays
<1>9. RoomKept'
  BY <1>1, <1>7, RoomStays
<1>10. Unspent'
  BY <1>1, <1>4, <1>7, UnspentStays
<1>11. SignedUpWhole'
  BY <1>1, <1>2, WholeStays
<1> QED
  BY <1>3, <1>5, <1>6, <1>8, <1>9, <1>10, <1>11 DEF WInv

\* Nothing happens.
LEMMA WStutter ==
  ASSUME ConstantsOK, WInv, UNCHANGED vars
  PROVE  WInv'
<1>1. UNCHANGED <<tenant, user, client, session, picking, staff, request, mishaps>> /\ TypeOK
  BY DEF vars, WInv
<1>2. TablesGo /\ StaffShrinks
  BY <1>1 DEF TablesGo, SessionsGo, StaffShrinks
<1>3. (\A q \in Requests : HandlerOK(request[q]))'
  BY <1>1, <1>2, HandlersRest
<1>4. PickersOK'
  BY <1>1, <1>2, PickersStay DEF TablesGo
<1>5. TypeOK'
  BY <1>1 DEF TypeOK
<1>6. \A q \in Requests : Busy(q)' => Busy(q) /\ request'[q] = request[q]
  BY <1>1 DEF Busy
<1>7. Alone'
  BY <1>1, <1>6, AloneStays
<1>8. RoomKept'
  BY <1>1, <1>6, RoomStays
<1>9. Unspent'
  BY <1>1, <1>6, UnspentStays
<1>10. SignedUpWhole'
  BY <1>1, <1>2, WholeStays
<1> QED
  BY <1>3, <1>4, <1>5, <1>7, <1>8, <1>9, <1>10 DEF WInv

-----------------------------------------------------------------------------
(* The invariant of the specification.                                       *)

\* It holds at first.
LEMMA WInitInv == ASSUME ConstantsOK, Init PROVE WInv
<1>1. /\ tenant = [t \in Tenants |-> IF t \in Founded THEN [by |-> Founder, slug |-> "name"]
                                     ELSE NoTenant]
      /\ user = EndUsers \cup (Founded \X {Founder}) /\ client = Founded
      /\ session = <<>> /\ picking = {} /\ request = [r \in Requests |-> Idle] /\ mishaps = {}
      /\ staff = Booted([e \in Emails |-> NoStaff])
  BY DEF Init
<1>2. session \in Seq(Session) /\ Len(session) = 0 /\ DOMAIN session = {}
  BY <1>1
<1>3. tenant \in [Tenants -> [by : Emails \cup {Nobody}, slug : {"none", "id", "name"}]]
  <2>1. NoTenant \in [by : Emails \cup {Nobody}, slug : {"none", "id", "name"}]
    BY DEF NoTenant
  <2>2. Founded # {} => [by |-> Founder, slug |-> "name"]
                          \in [by : Emails \cup {Nobody}, slug : {"none", "id", "name"}]
    BY DEF ConstantsOK
  <2> QED
    BY <1>1, <2>1, <2>2
<1>4. staff \in [Emails -> [active : BOOLEAN, roles : SUBSET Roles]]
  <2>1. [e \in Emails |-> NoStaff] \in [Emails -> [active : BOOLEAN, roles : SUBSET Roles]]
    BY DEF NoStaff
  <2> QED
    BY <1>1, <2>1, BootedRows
<1>5. user \subseteq Tenants \X Emails /\ client \subseteq Tenants
  BY <1>1 DEF ConstantsOK
<1>6. TypeOK
  BY <1>1, <1>2, <1>3, <1>4, <1>5 DEF TypeOK, ConstantsOK
<1>7. PickersOK
  BY <1>1 DEF PickersOK
<1>8. \A r \in Requests : ~Busy(r) /\ HandlerOK(request[r])
  BY <1>1 DEF Busy, HandlerOK
<1>9. Alone
  BY <1>8 DEF Alone
<1>10. Unspent
  BY <1>2, <1>8 DEF Unspent
<1>11. RoomKept
  <2>1. Minters = {}
    BY <1>8 DEF Minters
  <2> QED
    BY <1>2, <2>1, FS_EmptySet DEF RoomKept, ConstantsOK
<1>12. SignedUpWhole
  <2>1. ASSUME NEW t \in Tenants, tenant[t].slug = "name" PROVE t \in Founded
    BY <1>1, <2>1 DEF NoTenant
  <2>2. ASSUME NEW t \in Tenants, tenant[t].slug = "name"
        PROVE  t \in client /\ \E e \in Emails : <<t, e>> \in user
    <3>1. t \in Founded /\ Founder \in Emails
      BY <2>1, <2>2 DEF ConstantsOK
    <3>2. <<t, Founder>> \in user
      BY <1>1, <3>1
    <3> QED
      BY <1>1, <3>1, <3>2
  <2> QED
    BY <1>2, <2>2 DEF SignedUpWhole
<1> QED
  BY <1>6, <1>7, <1>8, <1>9, <1>10, <1>11, <1>12 DEF WInv

\* Any call of a handler keeps it.
LEMMA HandlerStep ==
  ASSUME ConstantsOK, WInv, NEW r \in Requests, Step(r)
  PROVE  WInv'
<1>1. Busy(r)
  BY DEF Step
<1> QED
  BY <1>1, CurrentOwnerStep, IsWorkspaceOwnerStep, FindSessionStep, DropSessionStep,
     SignupOwnedStep, SigninOwnedStep, SlugFreeStep, ProvisionTenantStep, FailStep,
     FindUserStep, CreateUserStep, MintOwnerSessionStep, StaffActiveStep, StaffRolesStep,
     SetTenantOwnerStep DEF Step

\* Every step keeps it.
LEMMA WNextInv == ASSUME ConstantsOK, WInv, [Next]_vars PROVE WInv'
<1>1. ASSUME NEW r \in Requests, Step(r) PROVE WInv'
  BY <1>1, HandlerStep
<1>2. ASSUME NEW r \in Requests, NEW s \in DOMAIN session, Begin(r, s) PROVE WInv'
  BY <1>2, BeginStep
<1>3. ASSUME NEW at \in Staging, NEW e \in Emails, GoogleLeg(at, e) PROVE WInv'
  BY <1>3, GoogleLegStep
<1>4. ASSUME NEW e \in Emails, Demote(e) PROVE WInv'
  BY <1>4, DemoteStep
<1>5. ASSUME NEW e \in Emails, NEW role \in Roles, StripRole(e, role) PROVE WInv'
  BY <1>5, StripRoleStep
<1>6. ASSUME NEW s \in DOMAIN session, Lapse(s) PROVE WInv'
  BY <1>6, LapseStep
<1>7. CASE Restart
  BY <1>7, RestartStep
<1>8. CASE UNCHANGED vars
  BY <1>8, WStutter
<1> QED
  BY <1>1, <1>2, <1>3, <1>4, <1>5, <1>6, <1>7, <1>8 DEF Next

-----------------------------------------------------------------------------
(* What a step may not do.                                                   *)

\* A request begins without touching a row.
LEMMA BeginReads ==
  ASSUME NEW r \in Requests, NEW s \in DOMAIN session, Begin(r, s)
  PROVE  UNCHANGED Rows
BY DEF Begin, OwnerCallback, StaffCallback, StaffLogout, SignupCallback, OwnerSelect,
       OwnerRequest, StaffRequest, Arrive

\* Only an administrator's assignment changes a registered workspace.
LEMMA RegistryStep ==
  ASSUME ConstantsOK, WInv, [Next]_vars
  PROVE  RegistryEntitled
<1> SUFFICES ASSUME NEW t \in Tenants, tenant'[t] # tenant[t], tenant[t] # NoTenant
             PROVE  \E r \in Requests : At(r, "assign") /\ request[r].admin
  BY DEF RegistryEntitled
<1>1. ASSUME NEW r \in Requests, Step(r)
      PROVE  At(r, "assign") /\ request[r].admin
  <2>1. ProvisionTenant(r) \/ SetTenantOwner(r)
    BY <1>1 DEF Step, CurrentOwner, IsWorkspaceOwner, FindSession, DropSession, SignupOwned,
       SigninOwned, SlugFree, ProvisionFails, FindUser, CreateUser, MintOwnerSession, MintFails,
       StaffActive, StaffRoles, AssignFails, Rows, Registry
  <2>2. ~ProvisionTenant(r)
    BY DEF ProvisionTenant, Provisionable, WInv, TypeOK
  <2>3. PICK h : h = request[r]
    OBVIOUS
  <2>4. h \in Handler /\ StepsOK(h) /\ StaffOK(h) /\ h.step = "assign"
    BY <1>1, <2>1, <2>2, <2>3, Holds DEF Step, SetTenantOwner, At
  <2> QED
    BY <2>3, <2>4 DEF At, StepsOK, StaffOK, StaffOps
<1>2. ASSUME NEW r \in Requests, NEW s \in DOMAIN session, Begin(r, s) PROVE FALSE
  BY <1>2, BeginReads DEF Rows, Registry
<1> QED
  BY <1>1, <1>2
  DEF Next, GoogleLeg, Demote, StripRole, Lapse, Restart, Registry, vars

\* What a step may do to sessions, once a session made or ended by a handler r is known.
LEMMA SessionsUntouched ==
  ASSUME UNCHANGED session \/ UNCHANGED request, TypeOK,
         \A s \in DOMAIN session' \ DOMAIN session : session'[s].at \notin Tenants
  PROVE  SessionsEntitled
BY DEF SessionsEntitled

\* A handler that makes a session: its sender owned the workspace or founds it.
LEMMA SessionMint ==
  ASSUME ConstantsOK, WInv, NEW r \in Requests, Busy(r),
         ProvisionTenant(r) \/ MintOwnerSession(r)
  PROVE  SessionsEntitled
<1>1. PICK h : h = request[r]
  OBVIOUS
<1>2. h \in Handler /\ RightsOK(h) /\ PlacesOK(h) /\ StepsOK(h)
  BY <1>1, Holds
<1>3. PICK one : one = [at |-> h.at, email |-> h.email, live |-> TRUE, bought |-> 0]
  OBVIOUS
<1>4. /\ one \in Session /\ one.at = h.at /\ one.email = h.email
  BY <1>2, <1>3 DEF Handler, Session
<1>5. PICK paid : /\ paid = session \/ paid = [session EXCEPT ![h.by].bought = @ + 1]
                  /\ session' = Append(paid, one)
  BY <1>1, <1>3 DEF ProvisionTenant, MintOwnerSession
<1>6. /\ paid \in Seq(Session) /\ Len(paid) = Len(session)
      /\ \A s \in DOMAIN session : /\ paid[s].at = session[s].at
                                   /\ paid[s].email = session[s].email
                                   /\ paid[s].live = session[s].live
  <2>1. TypeOK
    BY DEF WInv
  <2>2. CASE paid = session
    BY <2>1, <2>2 DEF TypeOK
  <2>3. CASE paid = [session EXCEPT ![h.by].bought = @ + 1]
    <3>1. PICK by : by = h.by /\ by \in DOMAIN session
      BY <1>2 DEF PlacesOK
    <3>2. paid = Spent(by)
      BY <2>3, <3>1 DEF Spent
    <3> QED
      BY <2>1, <3>1, <3>2, Paid
  <2> QED
    BY <1>5, <2>2, <2>3
<1>7. /\ DOMAIN session' = DOMAIN session \cup {Len(session) + 1}
      /\ session'[Len(session) + 1] = one
      /\ \A s \in DOMAIN session : session'[s] = paid[s]
  <2>1. TypeOK
    BY DEF WInv
  <2> QED
    BY <1>4, <1>5, <1>6, <2>1, SessionMade
<1>8. request'[r] = Idle
  BY DEF ProvisionTenant, Entitle, MintOwnerSession, Answer, Go, WInv, TypeOK
<1>9. h.at \in h.rights \/ tenant[h.at] = NoTenant
  <2>1. CASE ProvisionTenant(r)
    BY <1>1, <2>1 DEF ProvisionTenant, Provisionable
  <2>2. CASE MintOwnerSession(r)
    BY <1>1, <1>2, <2>2 DEF MintOwnerSession, At, StepsOK
  <2> QED
    BY <2>1, <2>2
<1>10. ASSUME NEW s \in DOMAIN session', s \notin DOMAIN session
       PROVE  \E q \in Requests :
                /\ Busy(q) /\ request'[q] = Idle /\ request[q].email = session'[s].email
                /\ session'[s].at \in request[q].rights \/ tenant[session'[s].at] = NoTenant
  <2>1. session'[s] = one
    BY <1>7, <1>10
  <2> QED
    BY <1>1, <1>4, <1>8, <1>9, <2>1
<1>11. \A s \in DOMAIN session : session[s].live => session'[s].live
  BY <1>6, <1>7
<1> QED
  BY <1>10, <1>11 DEF SessionsEntitled

\* A handler that ends a session: staff, or who owned its workspace and was in it.
LEMMA SessionDrop ==
  ASSUME ConstantsOK, WInv, NEW r \in Requests, Busy(r), DropSession(r)
  PROVE  SessionsEntitled
<1>1. PICK h : h = request[r]
  OBVIOUS
<1>2. h \in Handler /\ RightsOK(h) /\ PlacesOK(h) /\ StepsOK(h) /\ StaffOK(h) /\ h.step = "drop"
  BY <1>1, Holds DEF DropSession, At
<1>3. CASE UNCHANGED session
  BY <1>3 DEF SessionsEntitled
<1>4. CASE session' = [s \in DOMAIN session |->
                         [session[s] EXCEPT !.live = @ /\ s \notin {h.target}]]
  <2>1. PICK ends : ends = {h.target} /\ ends \in SUBSET DOMAIN session
    BY <1>2 DEF PlacesOK
  <2>2. TypeOK /\ session' = [s \in DOMAIN session |->
                                [session[s] EXCEPT !.live = @ /\ s \notin ends]]
    BY <1>4, <2>1 DEF WInv
  <2>3. /\ DOMAIN session' = DOMAIN session /\ SessionsGo
        /\ \A s \in DOMAIN session : session'[s].live <=> session[s].live /\ s \notin ends
    BY <2>1, <2>2, SessionsEnd
  <2>4. request'[r] # request[r]
    <3>1. PICK k : k = IF h.op \in {"switch", "select"} THEN [h EXCEPT !.step = "user"] ELSE Idle
      OBVIOUS
    <3>2. Go(r, k)
      BY <1>1, <3>1 DEF DropSession, Goto, Answer
    <3>3. request'[r] = k
      BY <3>2 DEF Go, WInv, TypeOK
    <3>4. k.step # "drop"
      BY <1>2, <3>1 DEF Handler, Idle
    <3> QED
      BY <1>1, <1>2, <3>3, <3>4
  <2>5. ASSUME NEW s \in DOMAIN session, session'[s].at \in Tenants, session[s].live,
               ~session'[s].live
        PROVE  \/ /\ session[s].at = session[request[r].by].at
                  /\ session[s].at \in request[r].rights
               \/ request[r].admin
    <3>1. s = h.target /\ session[s].at \in Tenants
      BY <2>1, <2>3, <2>5 DEF SessionsGo
    <3>2. h.op \in OwnerOps \cup {"select", "enter", "leave", "expel"}
      BY <1>2 DEF StepsOK
    <3>3. CASE h.op \in {"switch", "logout"}
      BY <1>1, <1>2, <3>1, <3>3 DEF PlacesOK, OwnerOps
    <3>4. CASE h.op = "revoke"
      BY <1>1, <1>2, <3>1, <3>4 DEF PlacesOK, StepsOK, OwnerOps
    <3>5. CASE h.op \in {"select", "enter", "leave"}
      BY <1>2, <3>1, <3>5 DEF PlacesOK, ConstantsOK
    <3>6. CASE h.op = "expel"
      BY <1>1, <1>2, <3>6 DEF StaffOK, StaffOps
    <3> QED
      BY <3>2, <3>3, <3>4, <3>5, <3>6 DEF OwnerOps
  <2> QED
    BY <2>3, <2>4, <2>5 DEF SessionsEntitled
<1> QED
  BY <1>1, <1>3, <1>4 DEF DropSession, Dropped

\* Sessions come and go as their workspace's owners and staff may.
LEMMA SessionsStep ==
  ASSUME ConstantsOK, WInv, [Next]_vars
  PROVE  SessionsEntitled
<1>1. TypeOK
  BY DEF WInv
<1>2. ASSUME UNCHANGED session PROVE SessionsEntitled
  BY <1>2 DEF SessionsEntitled
<1>3. ASSUME NEW r \in Requests, Step(r) PROVE SessionsEntitled
  <2>1. Busy(r)
    BY <1>3 DEF Step
  <2>2. \/ UNCHANGED session \/ DropSession(r) \/ ProvisionTenant(r) \/ MintOwnerSession(r)
    BY <1>3 DEF Step, CurrentOwner, IsWorkspaceOwner, FindSession, SignupOwned,
       SigninOwned, SlugFree, ProvisionFails, FindUser, CreateUser, MintFails,
       StaffActive, StaffRoles, SetTenantOwner, AssignFails, Rows
  <2> QED
    BY <1>2, <2>1, <2>2, SessionDrop, SessionMint
<1>4. ASSUME NEW r \in Requests, NEW s \in DOMAIN session, Begin(r, s) PROVE SessionsEntitled
  BY <1>2, <1>4, BeginReads DEF Rows
<1>5. ASSUME NEW at \in Staging, NEW e \in Emails, GoogleLeg(at, e) PROVE SessionsEntitled
  <2>1. PICK one : one = [at |-> at, email |-> e, live |-> TRUE, bought |-> 0]
    OBVIOUS
  <2>2. one \in Session /\ one.at \notin Tenants
    BY <2>1 DEF Session, ConstantsOK
  <2>3. session' = Append(session, one) /\ session \in Seq(Session)
    BY <1>1, <1>5, <2>1 DEF GoogleLeg, TypeOK
  <2>4. PICK paid : paid = session
    OBVIOUS
  <2>5. /\ DOMAIN session' = DOMAIN session \cup {Len(session) + 1}
        /\ session'[Len(session) + 1] = one
        /\ \A s \in DOMAIN session : session'[s] = paid[s]
    <3>1. paid \in Seq(Session) /\ Len(paid) = Len(session) /\ session' = Append(paid, one)
      BY <2>3, <2>4
    <3>2. \A s \in DOMAIN session : paid[s].at = session[s].at /\ paid[s].email = session[s].email
                                    /\ paid[s].live = session[s].live
      BY <2>4
    <3> QED
      BY <1>1, <2>2, <3>1, <3>2, SessionMade
  <2> QED
    BY <2>2, <2>4, <2>5 DEF SessionsEntitled
<1>6. ASSUME NEW s \in DOMAIN session, Lapse(s) PROVE SessionsEntitled
  BY <1>1, <1>6 DEF Lapse, SessionsEntitled, TypeOK
<1> QED
  BY <1>2, <1>3, <1>4, <1>5, <1>6 DEF Next, Demote, StripRole, Restart, vars

\* Neither a restart nor anything else reactivates an account.
LEMMA StaffStep ==
  ASSUME ConstantsOK, WInv, [Next]_vars
  PROVE  DeactivationSticks
<1>1. ASSUME StaffShrinks PROVE DeactivationSticks
  BY <1>1 DEF StaffShrinks, DeactivationSticks
<1>2. ASSUME UNCHANGED staff PROVE DeactivationSticks
  BY <1>2 DEF DeactivationSticks
<1>3. ASSUME NEW r \in Requests, Step(r) PROVE UNCHANGED staff
  BY <1>3 DEF Step, CurrentOwner, IsWorkspaceOwner, FindSession, DropSession, SignupOwned,
     SigninOwned, SlugFree, ProvisionTenant, ProvisionFails, FindUser, CreateUser,
     MintOwnerSession, MintFails, StaffActive, StaffRoles, SetTenantOwner, AssignFails, Rows
<1>4. ASSUME NEW r \in Requests, NEW s \in DOMAIN session, Begin(r, s) PROVE UNCHANGED staff
  BY <1>4, BeginReads DEF Rows
<1>5. CASE Restart
  BY <1>5, BootedRows DEF Restart, WInv, TypeOK, DeactivationSticks
<1>6. ASSUME NEW e \in Emails, Demote(e) PROVE StaffShrinks
  BY <1>6, DemoteStep
<1>7. ASSUME NEW e \in Emails, NEW role \in Roles, StripRole(e, role) PROVE StaffShrinks
  BY <1>7, StripRoleStep
<1> QED
  BY <1>1, <1>2, <1>3, <1>4, <1>5, <1>6, <1>7 DEF Next, GoogleLeg, Lapse, vars

-----------------------------------------------------------------------------
\* The variables keep their types, handlers hold what they rely on, sign-ups are
\* whole and there is room for the sessions under way, in every behaviour of the
\* consoles (signup_console.go, admin_console.go).
THEOREM WorkspacesInvariant == ASSUME ConstantsOK PROVE Spec => []WInv
<1>1. Init => WInv
  BY WInitInv
<1>2. WInv /\ [Next]_vars => WInv'
  BY WNextInv
<1> QED
  BY <1>1, <1>2, PTL DEF Spec

\* Every registered workspace that came from sign-up has a user and a client, and
\* every session in a workspace its user (ProvisionTenant, mintOwnerSession).
THEOREM WorkspacesWhole == ASSUME ConstantsOK PROVE Spec => []SignedUpWhole
<1>1. WInv => SignedUpWhole
  BY DEF WInv
<1> QED
  BY <1>1, WorkspacesInvariant, PTL

\* While requests come one at a time and the store is up, a pick of a workspace is
\* good for one session (OwnerSelect, signup_console.go:467).
THEOREM PicksBuyOne == ASSUME ConstantsOK PROVE Spec => []PickBuysOne
<1>1. WInv => PickBuysOne
  BY DEF WInv, Unspent, PickBuysOne
<1> QED
  BY <1>1, WorkspacesInvariant, PTL

\* A registered workspace changes hands only by a request that an active
\* administrator began, however staff change meanwhile (SetTenantOwner).
THEOREM WorkspacesChangeHands == ASSUME ConstantsOK PROVE Spec => [][RegistryEntitled]_vars
<1>1. WInv /\ [Next]_vars => [RegistryEntitled]_vars
  BY RegistryStep
<1> QED
  BY <1>1, WorkspacesInvariant, PTL DEF Spec

\* A session in a workspace is made only for who owned it since the request began
\* or founds it, and ended only by such an owner from within it, or by staff
\* (currentOwner, isWorkspaceOwner, revokeSession).
THEOREM SessionsOfTheEntitled == ASSUME ConstantsOK PROVE Spec => [][SessionsEntitled]_vars
<1>1. WInv /\ [Next]_vars => [SessionsEntitled]_vars
  BY SessionsStep
<1> QED
  BY <1>1, WorkspacesInvariant, PTL DEF Spec

\* A staff account once deactivated stays so, restarts included, unless it is one
\* of the break-glass accounts (ensureStaff, admin_console.go:87).
THEOREM StaffStayDeactivated == ASSUME ConstantsOK PROVE Spec => [][DeactivationSticks]_vars
<1>1. WInv /\ [Next]_vars => [DeactivationSticks]_vars
  BY StaffStep
<1> QED
  BY <1>1, WorkspacesInvariant, PTL DEF Spec
-----------------------------------------------------------------------------
(***************************************************************************)
(* Consoles, for any number of workspaces, clients, flows, round trips and *)
(* overlapping requests; O is that specification, and the names it shares  *)
(* with Workspaces have an O before them.                                  *)
(*                                                                         *)
(* The argument: a handler changes rows of the workspace its sender owned, *)
(* whatever it has read of them, because an upsert moves no flow to        *)
(* another workspace and deletes carry the workspace in their condition.   *)
(* What it read may be stale; the invariant says of a copy that it is what *)
(* the table has only of a handler that is alone, which is what the secret *)
(* shown last relies on.  Enabling a flow disables the workspace's others  *)
(* in the same statement, and a round trip is taken off the session by the *)
(* call that sends it to /token.                                           *)
(***************************************************************************)
CONSTANTS
  ORequests, OTenants, DevTenant, OEmails, ClientIds, Uris, Settings,
  TypeNames, States, NumFlows, Ops, MaxMade, MaxSecrets, OMaxMishaps
VARIABLES
  owner, settings, types, flow, nextFlow, app, nextMade, nextSecret,
  developer, remembered, trip, demand, trouble, shown, exchanged

O == INSTANCE Consoles WITH
  client <- app, Emails <- OEmails, MaxMishaps <- OMaxMishaps,
  mishaps <- trouble, request <- demand, Requests <- ORequests,
  Tenants <- OTenants

OwnersOps == O!ClientOps \cup O!FlowOps \cup O!RowOps

\* An owner's handler: who sent it owned the workspace by the time it is found to,
\* and what it carries is of that workspace.
OwnerOK(h) ==
  h.op \in OwnersOps =>
    /\ h.op \in Ops
    /\ \A t \in OTenants : owner[t] = h.email => t \in h.rights
    /\ h.step # "tenant" => h.at \in h.rights
    /\ h.op = "uris" => h.arg \in Uris
    /\ h.op \in {"set", "clear"} => h.arg \in Settings
    /\ h.op \in {"define", "undefine"} => h.arg \in TypeNames
    /\ h.op \in O!FlowOps \ {"create"} => h.id \in 1..nextFlow
    /\ h.step \in {"client", "put"} => h.op \in O!ClientOps
    /\ h.step = "put" => h.copy \in O!Client /\ h.copy.tenant = h.at /\ h.id \in ClientIds
    /\ h.step \in {"flow", "upsert"} => h.op \in O!FlowOps
    /\ h.step = "upsert" =>
         /\ h.copy \in O!Flow /\ h.copy.tenant = h.at /\ h.id \in 1..nextFlow
         /\ flow[h.id] = O!NoFlow \/ flow[h.id].tenant = h.at
    /\ h.step = "row" => h.op \in O!RowOps

\* The handler of a round trip is the only one of it, and the first.
TripOK(h) ==
  h.op = "exchange" => trip[h.id] = "gone" /\ exchanged[h.id] = 0

OHandlerOK(h) == h # O!Idle => OwnerOK(h) /\ TripOK(h)

\* A handler alone holds what the table has.
CopyOK(h) ==
  h.step = "put" =>
    IF h.op = "register" THEN app[h.id] = O!NoClient ELSE app[h.id] = h.copy

\* Flows are made in order, and one is of one workspace only.
FlowsOK ==
  /\ \A f \in O!FlowIds : f > nextFlow => flow[f] = O!NoFlow
  /\ \A t \in OTenants, f, g \in O!FlowIds :
       O!OfTenant(f, t) /\ flow[f].enabled /\ O!OfTenant(g, t) /\ flow[g].enabled => f = g
  /\ \A r, q \in ORequests :
       O!At(r, "upsert") /\ O!At(q, "upsert") /\ demand[r].id = demand[q].id
         => demand[r].at = demand[q].at

TripsOK ==
  /\ \A x \in States : exchanged[x] <= 1 /\ (trip[x] # "gone" => exchanged[x] = 0)
  /\ \A r, q \in ORequests :
       O!Does(r, "exchange") /\ O!Does(q, "exchange") /\ demand[r].id = demand[q].id => r = q

AloneOK ==
  "overlap" \notin trouble =>
    /\ \A r, q \in ORequests : O!Busy(r) /\ O!Busy(q) => r = q
    /\ \A r \in ORequests : O!Busy(r) => CopyOK(demand[r])

CInv ==
  /\ O!TypeOK /\ FlowsOK /\ TripsOK /\ AloneOK /\ O!LastShownOpens
  /\ \A r \in ORequests : OHandlerOK(demand[r])
-----------------------------------------------------------------------------
(* Handlers.                                                                 *)

OwnerHandler ==
  [op : OwnersOps, step : {"tenant", "client", "put", "flow", "upsert", "row"},
   email : OEmails, at : OTenants, arg : Uris \cup Settings \cup TypeNames \cup {""},
   id : ClientIds \cup O!FlowIds \cup {0}, copy : O!Client \cup O!Flow \cup {O!NoClient, O!NoFlow},
   rights : SUBSET OTenants]

\* Three kinds of handlers, told apart by their operation, and mostly by their step.
LEMMA HandlerKinds ==
  ASSUME NEW h \in O!Handler
  PROVE  /\ h # O!Idle /\ h.step # "idle"
         /\ \/ h.op \in OwnersOps /\ h \in OwnerHandler
            \/ /\ h.op = "register" /\ h.op \notin OwnersOps /\ h.step \in {"lookup", "put"}
               /\ h.id \in ClientIds /\ h.uri \in Uris
            \/ /\ h.op = "exchange" /\ h.op \notin OwnersOps /\ h.step = "token"
               /\ h.id \in States
<1>1. CASE h \in OwnerHandler
  <2>1. h.op \in OwnersOps /\ h.step # "idle"
    BY <1>1 DEF OwnerHandler
  <2> QED
    BY <1>1, <2>1 DEF O!Idle
<1>2. CASE h \in [op : {"register"}, step : {"lookup", "put"}, id : ClientIds, uri : Uris]
  BY <1>2 DEF O!Idle, OwnersOps, O!ClientOps, O!FlowOps, O!RowOps
<1>3. CASE h \in [op : {"exchange"}, step : {"token"}, id : States]
  BY <1>3 DEF O!Idle, OwnersOps, O!ClientOps, O!FlowOps, O!RowOps
<1> QED
  BY <1>1, <1>2, <1>3 DEF O!Handler, OwnerHandler, OwnersOps

\* What a busy handler is and holds.
LEMMA OHolds ==
  ASSUME CInv, NEW r \in ORequests, O!Busy(r)
  PROVE  demand[r] \in O!Handler /\ OwnerOK(demand[r]) /\ TripOK(demand[r])
BY HandlerKinds DEF CInv, O!TypeOK, OHandlerOK, O!Busy

\* A handler goes on or ends.
LEMMA OOneMoves ==
  ASSUME CInv, NEW r \in ORequests, NEW k \in O!Handler \cup {O!Idle}, O!Go(r, k)
  PROVE  /\ demand' \in [ORequests -> O!Handler \cup {O!Idle}]
         /\ \A q \in ORequests : demand'[q] = IF q = r THEN k ELSE demand[q]
BY DEF O!Go, CInv, O!TypeOK

\* An owner's handler keeps what it holds while owners stay and flows keep to their
\* workspaces.
LEMMA OwnerStays ==
  ASSUME NEW h \in O!Handler, OwnerOK(h), nextFlow \in Nat, nextFlow' \in Nat,
         nextFlow <= nextFlow', UNCHANGED owner,
         h.step = "upsert" => flow'[h.id] = O!NoFlow \/ flow'[h.id].tenant = h.at
  PROVE  OwnerOK(h)'
<1>1. \A f \in 1..nextFlow : f \in 1..nextFlow'
  OBVIOUS
<1> QED
  BY <1>1 DEF OwnerOK

\* The flows other handlers are about to put stay of their workspaces, and the round
\* trips other handlers are on stay theirs.
FlowsKeep(r) ==
  \A q \in ORequests \ {r} : O!Busy(q) /\ O!At(q, "upsert") =>
    flow'[demand[q].id] = O!NoFlow \/ flow'[demand[q].id].tenant = demand[q].at
TripsKeep(r) ==
  \A q \in ORequests \ {r} : O!Does(q, "exchange") =>
    trip'[demand[q].id] = "gone" /\ exchanged'[demand[q].id] = 0

LEMMA HandlersMove ==
  ASSUME CInv, NEW r \in ORequests, NEW k \in O!Handler \cup {O!Idle}, O!Go(r, k), OHandlerOK(k)',
         UNCHANGED owner, nextFlow' \in Nat, nextFlow <= nextFlow', FlowsKeep(r), TripsKeep(r),
         NumFlows \in Nat
  PROVE  (\A q \in ORequests : OHandlerOK(demand[q]))'
<1> SUFFICES ASSUME NEW q \in ORequests PROVE OHandlerOK(demand[q])'
  OBVIOUS
<1>1. PICK h : h = demand'[q]
  OBVIOUS
<1>2. OHandlerOK(h)'
  <2>1. CASE q = r
    <3>1. h = k
      BY <1>1, <2>1, OOneMoves
    <3> QED
      BY <3>1
  <2>2. CASE q # r
    <3>1. h = demand[q]
      BY <1>1, <2>2, OOneMoves
    <3>2. CASE h = O!Idle
      BY <3>2 DEF OHandlerOK
    <3>3. CASE h # O!Idle
      <4>1. O!Busy(q) /\ h \in O!Handler /\ OwnerOK(h) /\ TripOK(h)
        BY <3>1, <3>3, OHolds DEF O!Busy
      <4>2. nextFlow \in Nat
        BY DEF CInv, O!TypeOK
      <4>3. h.step = "upsert" => flow'[h.id] = O!NoFlow \/ flow'[h.id].tenant = h.at
        BY <2>2, <3>1, <4>1 DEF FlowsKeep, O!At
      <4>4. OwnerOK(h)'
        BY <4>1, <4>2, <4>3, OwnerStays
      <4>5. TripOK(h)'
        BY <2>2, <3>1, <4>1 DEF TripsKeep, TripOK, O!Does
      <4> QED
        BY <4>4, <4>5 DEF OHandlerOK
    <3> QED
      BY <3>2, <3>3
  <2> QED
    BY <2>1, <2>2
<1> QED
  BY <1>1, <1>2 DEF OHandlerOK, OwnerOK, TripOK

\* While flows and round trips stay, they stay the handlers'.
LEMMA Keeps ==
  ASSUME CInv, NEW r \in ORequests
  PROVE  /\ UNCHANGED flow => FlowsKeep(r)
         /\ UNCHANGED <<trip, exchanged>> => TripsKeep(r)
<1>1. ASSUME NEW q \in ORequests, O!Busy(q), O!At(q, "upsert")
      PROVE  flow[demand[q].id] = O!NoFlow \/ flow[demand[q].id].tenant = demand[q].at
  <2>1. PICK h : h = demand[q]
    OBVIOUS
  <2>2. h \in O!Handler /\ OwnerOK(h) /\ h.step = "upsert"
    BY <1>1, <2>1, OHolds DEF O!At
  <2>3. h.op \in OwnersOps
    BY <2>2, HandlerKinds
  <2> QED
    BY <2>1, <2>2, <2>3 DEF OwnerOK
<1>2. ASSUME NEW q \in ORequests, O!Does(q, "exchange")
      PROVE  trip[demand[q].id] = "gone" /\ exchanged[demand[q].id] = 0
  BY <1>2, OHolds DEF O!Does, TripOK
<1> QED
  BY <1>1, <1>2 DEF FlowsKeep, TripsKeep
-----------------------------------------------------------------------------
(* The parts of the invariant that relate handlers to each other.            *)

\* One request at a time: the one that moves knows the row it holds.
LEMMA AloneMoves ==
  ASSUME CInv, NEW r \in ORequests, NEW k \in O!Handler \cup {O!Idle}, O!Go(r, k),
         trouble \subseteq trouble', O!Busy(r) \/ (k # O!Idle /\ O!Overlaps(r)),
         "overlap" \notin trouble' /\ k # O!Idle => CopyOK(k)'
  PROVE  AloneOK'
<1> SUFFICES ASSUME "overlap" \notin trouble'
             PROVE  /\ \A p, q \in ORequests : O!Busy(p)' /\ O!Busy(q)' => p = q
                    /\ \A q \in ORequests : O!Busy(q)' => CopyOK(demand[q])'
  BY DEF AloneOK
<1>1. \A q \in ORequests : demand'[q] = IF q = r THEN k ELSE demand[q]
  BY OOneMoves
<1>2. \A p, q \in ORequests : O!Busy(p) /\ O!Busy(q) => p = q
  BY DEF CInv, AloneOK
<1>3. ASSUME k # O!Idle PROVE \A q \in ORequests : O!Busy(q) => q = r
  BY <1>2, <1>3 DEF O!Overlaps, O!Trouble
<1>4. CASE k = O!Idle
  BY <1>1, <1>2, <1>4 DEF O!Busy
<1>5. CASE k # O!Idle
  <2>1. \A q \in ORequests : O!Busy(q)' => q = r
    BY <1>1, <1>3, <1>5 DEF O!Busy
  <2>2. CopyOK(k)' /\ demand'[r] = k
    BY <1>1, <1>5
  <2> QED
    BY <2>1, <2>2 DEF CopyOK
<1> QED
  BY <1>4, <1>5

\* While clients and what was shown stay, the secrets do.
LEMMA SecretsStay ==
  ASSUME CInv, UNCHANGED <<app, shown>>, trouble \subseteq trouble'
  PROVE  O!LastShownOpens'
BY DEF CInv, O!LastShownOpens

\* While round trips stay and no handler starts one, they are of one handler each.
LEMMA TripsStay ==
  ASSUME CInv, NEW r \in ORequests, NEW k \in O!Handler \cup {O!Idle}, O!Go(r, k),
         UNCHANGED <<trip, exchanged>>, k # O!Idle => k.op # "exchange"
  PROVE  TripsOK'
<1>1. \A q \in ORequests : demand'[q] = IF q = r THEN k ELSE demand[q]
  BY OOneMoves
<1>2. \A q \in ORequests : O!Does(q, "exchange")' =>
        O!Does(q, "exchange") /\ demand'[q] = demand[q]
  BY <1>1 DEF O!Does, O!Busy
<1> QED
  BY <1>2 DEF CInv, TripsOK

\* While flows stay, a handler that is about to put one agrees with the others.
LEMMA FlowsStay ==
  ASSUME CInv, NEW r \in ORequests, NEW k \in O!Handler \cup {O!Idle}, O!Go(r, k),
         UNCHANGED <<flow, nextFlow>>,
         k.step = "upsert" => \A q \in ORequests :
           O!At(q, "upsert") /\ demand[q].id = k.id => demand[q].at = k.at
  PROVE  FlowsOK'
<1>1. \A q \in ORequests : demand'[q] = IF q = r THEN k ELSE demand[q]
  BY OOneMoves
<1>2. ASSUME NEW p \in ORequests, NEW q \in ORequests, O!At(p, "upsert")', O!At(q, "upsert")',
             demand'[p].id = demand'[q].id
      PROVE  demand'[p].at = demand'[q].at
  BY <1>1, <1>2 DEF O!At, CInv, FlowsOK
<1>3. /\ \A f \in O!FlowIds : f > nextFlow' => flow'[f] = O!NoFlow
      /\ \A t \in OTenants, f, g \in O!FlowIds :
           O!OfTenant(f, t)' /\ flow'[f].enabled /\ O!OfTenant(g, t)' /\ flow'[g].enabled => f = g
  BY DEF CInv, FlowsOK, O!OfTenant
<1> QED
  BY <1>2, <1>3 DEF FlowsOK

\* A handler goes on or ends, and nothing else happens.
LEMMA Moves ==
  ASSUME O!ConstantsOK, CInv, NEW r \in ORequests, NEW k \in O!Handler \cup {O!Idle}, O!Go(r, k),
         UNCHANGED <<O!Workspace, O!Clients, O!Developers>>,
         trouble' \subseteq O!Kinds, trouble \subseteq trouble',
         O!Busy(r) \/ (k # O!Idle /\ O!Overlaps(r)),
         k # O!Idle => OwnerOK(k) /\ k.op # "exchange",
         k.step = "upsert" => \A q \in ORequests :
           O!At(q, "upsert") /\ demand[q].id = k.id => demand[q].at = k.at,
         "overlap" \notin trouble /\ k # O!Idle => CopyOK(k)
  PROVE  CInv'
<1>1. /\ UNCHANGED <<owner, settings, types, flow, nextFlow, app, nextMade, nextSecret, shown>>
      /\ UNCHANGED <<developer, remembered, trip, exchanged>>
  BY DEF O!Workspace, O!Clients, O!Developers
<1>2. NumFlows \in Nat /\ nextFlow \in Nat /\ O!TypeOK
  BY DEF O!ConstantsOK, CInv, O!TypeOK
<1>3. O!TypeOK'
  BY <1>1, <1>2, OOneMoves DEF O!TypeOK
<1>4. FlowsKeep(r) /\ TripsKeep(r)
  BY <1>1, Keeps
<1>5. OHandlerOK(k)'
  <2>1. CASE k = O!Idle
    BY <2>1 DEF OHandlerOK
  <2>2. CASE k # O!Idle
    BY <1>1, <2>2 DEF OHandlerOK, OwnerOK, TripOK
  <2> QED
    BY <2>1, <2>2
<1>6. (\A q \in ORequests : OHandlerOK(demand[q]))'
  BY <1>1, <1>2, <1>4, <1>5, HandlersMove
<1>7. FlowsOK'
  BY <1>1, FlowsStay
<1>8. TripsOK'
  BY <1>1, TripsStay
<1>9. "overlap" \notin trouble' /\ k # O!Idle => CopyOK(k)'
  BY <1>1 DEF CopyOK
<1>10. AloneOK'
  BY <1>9, AloneMoves
<1>11. O!LastShownOpens'
  BY <1>1, SecretsStay
<1> QED
  BY <1>3, <1>6, <1>7, <1>8, <1>10, <1>11 DEF CInv

\* Trouble is of the kinds there are.
LEMMA OMishapsStay ==
  ASSUME CInv, O!Calm \/ \E kind \in O!Kinds : O!Trouble(kind)
  PROVE  trouble' \subseteq O!Kinds /\ trouble \subseteq trouble'
BY DEF CInv, O!TypeOK, O!Calm, O!Trouble

\* A handler that ends without effect.
LEMMA OAnswers ==
  ASSUME O!ConstantsOK, CInv, NEW r \in ORequests, O!Busy(r), O!Answer(r),
         UNCHANGED <<O!Workspace, O!Clients, O!Developers>>,
         trouble' \subseteq O!Kinds, trouble \subseteq trouble'
  PROVE  CInv'
<1>1. PICK k : k = O!Idle
  OBVIOUS
<1>2. k \in O!Handler \cup {O!Idle} /\ O!Go(r, k) /\ k.step # "upsert" /\ k = O!Idle
  BY <1>1 DEF O!Answer, O!Idle
<1> QED
  BY <1>2, Moves
-----------------------------------------------------------------------------
(* What owners' handlers read.                                               *)

\* A request starts.
LEMMA OwnerRequestStep ==
  ASSUME O!ConstantsOK, CInv, NEW r \in ORequests, NEW op \in Ops, NEW e \in OEmails,
         NEW t \in OTenants, NEW id \in O!Ids(op), NEW arg \in O!Args(op),
         O!OwnerRequest(r, op, e, t, id, arg)
  PROVE  CInv'
<1>1. PICK k : k = [op |-> op, step |-> "tenant", email |-> e, at |-> t, arg |-> arg, id |-> id,
                    copy |-> O!NoClient, rights |-> {u \in OTenants : owner[u] = e}]
  OBVIOUS
<1>2. /\ ~O!Busy(r) /\ O!Overlaps(r) /\ O!Go(r, k) /\ UNCHANGED <<O!Workspace, O!Clients, O!Developers>>
  BY <1>1 DEF O!OwnerRequest
<1>3. op \in OwnersOps
  BY DEF O!ConstantsOK, OwnersOps
<1>4. nextFlow \in 0..NumFlows /\ NumFlows \in Nat
  BY DEF CInv, O!TypeOK, O!ConstantsOK
<1>5. arg \in Uris \cup Settings \cup TypeNames \cup {""}
  BY <1>3 DEF O!Args, OwnersOps, O!ClientOps, O!FlowOps, O!RowOps
<1>6. id \in ClientIds \cup O!FlowIds \cup {0} /\ (op \in O!FlowOps \ {"create"} => id \in 1..nextFlow)
  BY <1>4 DEF O!Ids, O!FlowIds
<1>7. k \in OwnerHandler
  BY <1>1, <1>3, <1>5, <1>6 DEF OwnerHandler
<1>8. k \in O!Handler /\ k # O!Idle
  BY <1>7, HandlerKinds DEF O!Handler, OwnerHandler, OwnersOps
<1>9. /\ k.op = op /\ k.step = "tenant" /\ k.email = e /\ k.at = t /\ k.arg = arg /\ k.id = id
      /\ k.rights = {u \in OTenants : owner[u] = e}
  BY <1>1
<1>10. OwnerOK(k)
  <2>1. /\ op = "uris" => arg \in Uris
        /\ op \in {"set", "clear"} => arg \in Settings
        /\ op \in {"define", "undefine"} => arg \in TypeNames
    BY DEF O!Args
  <2> QED
    BY <1>6, <1>9, <2>1 DEF OwnerOK
<1>11. k.op # "exchange" /\ k.step # "upsert" /\ CopyOK(k)
  BY <1>3, <1>9 DEF OwnersOps, O!ClientOps, O!FlowOps, O!RowOps, CopyOK
<1>12. trouble' \subseteq O!Kinds /\ trouble \subseteq trouble'
  BY <1>2, OMishapsStay DEF O!Overlaps, O!Kinds
<1> QED
  BY <1>2, <1>8, <1>10, <1>11, <1>12, Moves

\* Who the request is from is found to own its workspace.
LEMMA OCurrentOwnerStep ==
  ASSUME O!ConstantsOK, CInv, NEW r \in ORequests, O!Busy(r), O!CurrentOwner(r)
  PROVE  CInv'
<1>1. PICK h : h = demand[r]
  OBVIOUS
<1>2. h \in O!Handler /\ OwnerOK(h) /\ h.step = "tenant"
  BY <1>1, OHolds DEF O!CurrentOwner, O!At
<1>3. h.op \in OwnersOps /\ h \in OwnerHandler
  BY <1>2, HandlerKinds
<1>4. UNCHANGED <<O!Workspace, O!Clients, O!Developers, trouble>> /\ trouble \subseteq O!Kinds
  BY DEF O!CurrentOwner, CInv, O!TypeOK
<1>5. CASE O!Answer(r)
  BY <1>4, <1>5, OAnswers
<1>6. CASE ~O!Answer(r)
  <2>1. PICK step : /\ step = CASE h.op \in O!ClientOps -> "client" [] h.op \in O!FlowOps -> "flow"
                                [] OTHER -> "row"
                    /\ O!Goto(r, step) /\ owner[h.at] = h.email
    BY <1>1, <1>6 DEF O!CurrentOwner, O!Owns
  <2>2. /\ step \in {"client", "flow", "row"}
        /\ step = "client" => h.op \in O!ClientOps
        /\ step = "flow" => h.op \in O!FlowOps
        /\ step = "row" => h.op \in O!RowOps
    BY <1>3, <2>1 DEF OwnersOps, O!ClientOps, O!FlowOps, O!RowOps
  <2>3. PICK k : k = [h EXCEPT !.step = step]
    OBVIOUS
  <2>4. /\ k \in OwnerHandler /\ k.step = step /\ k.op = h.op /\ k.at = h.at /\ k.email = h.email
        /\ k.rights = h.rights /\ k.id = h.id /\ k.arg = h.arg /\ k.copy = h.copy
    BY <1>3, <2>2, <2>3 DEF OwnerHandler
  <2>5. k \in O!Handler /\ k # O!Idle /\ k.op # "exchange" /\ k.step # "upsert" /\ CopyOK(k)
    <3>1. k \in O!Handler
      BY <2>4 DEF O!Handler, OwnerHandler, OwnersOps
    <3>2. h.op # "exchange"
      BY <1>3 DEF OwnersOps, O!ClientOps, O!FlowOps, O!RowOps
    <3> QED
      BY <2>2, <2>4, <3>1, <3>2, HandlerKinds DEF CopyOK
  <2>6. h.at \in h.rights
    BY <1>2, <1>3, <2>1 DEF OwnerOK, OwnerHandler
  <2>7. OwnerOK(k)
    BY <1>2, <1>3, <2>2, <2>4, <2>6 DEF OwnerOK
  <2>8. O!Go(r, k)
    BY <1>1, <2>1, <2>3 DEF O!Goto
  <2> QED
    BY <1>4, <2>5, <2>7, <2>8, Moves
<1> QED
  BY <1>5, <1>6

\* One of the newest of a workspace's clients: a set of numbers within a bound has a
\* greatest, for the numbers above it are the fewest.
LEMMA NewestClient ==
  ASSUME O!ConstantsOK, O!TypeOK, NEW cs \in SUBSET ClientIds, cs # {},
         \A c \in cs : app[c] \in O!Client
  PROVE  O!Newest(cs) \in cs
<1>1. PICK above : above = [c \in cs |-> {n \in 1..MaxMade : n > app[c].made}]
  OBVIOUS
<1>2. PICK sets : sets = {above[c] : c \in cs}
  OBVIOUS
<1>3. IsFiniteSet(1..MaxMade) /\ MaxMade \in Nat
  BY FS_Interval DEF O!ConstantsOK
<1>4. IsWellFoundedOn(StrictSubsetOrdering(1..MaxMade), FiniteSubsetsOf(1..MaxMade))
  BY <1>3, FS_StrictSubsetOrderingWellFounded
<1>5. sets \subseteq FiniteSubsetsOf(1..MaxMade) /\ sets # {}
  <2>1. \A c \in cs : above[c] \in SUBSET (1..MaxMade) /\ IsFiniteSet(above[c])
    BY <1>1, <1>3, FS_Subset
  <2> QED
    BY <1>2, <2>1 DEF FiniteSubsetsOf
<1>6. PICK least \in sets : \A other \in sets :
        ~(<<other, least>> \in StrictSubsetOrdering(1..MaxMade))
  BY <1>4, <1>5, WFMin
<1>7. PICK c \in cs : least = above[c]
  BY <1>2
<1>8. ASSUME NEW d \in cs PROVE app[d].made <= app[c].made
  <2>1. app[d].made \in 1..MaxMade /\ app[c].made \in 1..MaxMade
    BY DEF O!Client
  <2> SUFFICES ASSUME app[d].made > app[c].made PROVE FALSE
    BY <1>3, <2>1
  <2>2. above[d] \subseteq above[c] /\ app[d].made \in above[c] /\ app[d].made \notin above[d]
    BY <1>1, <1>3, <2>1
  <2>3. above[d] \in sets /\ above[d] \in SUBSET (1..MaxMade) /\ above[c] \in SUBSET (1..MaxMade)
    BY <1>1, <1>2
  <2>4. <<above[d], above[c]>> \in StrictSubsetOrdering(1..MaxMade)
    BY <2>2, <2>3 DEF StrictSubsetOrdering
  <2> QED
    BY <1>6, <1>7, <2>3, <2>4
<1> QED
  BY <1>8 DEF O!Newest

\* The owner's handler reads the client it is to change.
LEMMA TenantClientStep ==
  ASSUME O!ConstantsOK, CInv, NEW r \in ORequests, O!Busy(r), O!TenantClient(r)
  PROVE  CInv'
<1>1. PICK h : h = demand[r]
  OBVIOUS
<1>2. h \in O!Handler /\ OwnerOK(h) /\ h.step = "client"
  BY <1>1, OHolds DEF O!TenantClient, O!At
<1>3. h.op \in OwnersOps /\ h \in OwnerHandler
  BY <1>2, HandlerKinds
<1>4. UNCHANGED <<O!Workspace, O!Clients, O!Developers, trouble>> /\ trouble \subseteq O!Kinds
  BY DEF O!TenantClient, CInv, O!TypeOK
<1>5. CASE O!Answer(r)
  BY <1>4, <1>5, OAnswers
<1>6. CASE ~O!Answer(r)
  <2>1. PICK cs, c : cs = O!TenantClients(h.at) /\ cs # {} /\ c = O!Newest(cs)
    BY <1>1, <1>6 DEF O!TenantClient
  <2>2. O!TypeOK
    BY DEF CInv
  <2>3. cs \in SUBSET ClientIds /\ \A d \in cs : app[d] \in O!Client /\ app[d].tenant = h.at
    BY <2>1, <2>2 DEF O!TenantClients, O!TypeOK
  <2>4. c \in cs
    BY <2>1, <2>2, <2>3, NewestClient
  <2>5. PICK copy : copy = app[c] /\ copy \in O!Client /\ copy.tenant = h.at
    BY <2>3, <2>4
  <2>6. PICK k : k = [h EXCEPT !.step = "put", !.id = c, !.copy = copy]
    OBVIOUS
  <2>7. O!Go(r, k)
    BY <1>1, <1>6, <2>1, <2>5, <2>6 DEF O!TenantClient
  <2>8. /\ k \in OwnerHandler /\ k.step = "put" /\ k.op = h.op /\ k.at = h.at /\ k.email = h.email
        /\ k.rights = h.rights /\ k.id = c /\ k.arg = h.arg /\ k.copy = copy
    BY <1>3, <2>3, <2>4, <2>5, <2>6 DEF OwnerHandler
  <2>9. k \in O!Handler /\ k # O!Idle
    BY <2>8, HandlerKinds DEF O!Handler, OwnerHandler, OwnersOps
  <2>10. h.op \in O!ClientOps
    BY <1>2, <1>3 DEF OwnerOK
  <2>11. k.op # "exchange" /\ k.op # "register" /\ k.op \notin O!FlowOps
    BY <2>8, <2>10 DEF O!ClientOps, O!FlowOps
  <2>12. OwnerOK(k)
    BY <1>2, <1>3, <2>3, <2>4, <2>5, <2>8, <2>10, <2>11 DEF OwnerOK
  <2>13. CopyOK(k)
    BY <2>5, <2>8, <2>11 DEF CopyOK
  <2>14. k.step # "upsert"
    BY <2>8
  <2> QED
    BY <1>4, <2>7, <2>9, <2>11, <2>12, <2>13, <2>14, Moves
<1> QED
  BY <1>5, <1>6

\* The owner's handler finds the flow in its workspace.
LEMMA GetFlowStep ==
  ASSUME O!ConstantsOK, CInv, NEW r \in ORequests, O!Busy(r), O!GetFlow(r)
  PROVE  CInv'
<1>1. PICK h : h = demand[r]
  OBVIOUS
<1>2. h \in O!Handler /\ OwnerOK(h) /\ h.step = "flow" /\ h.op \in {"save", "enable", "disable"}
  BY <1>1, OHolds DEF O!GetFlow, O!At
<1>3. h.op \in OwnersOps /\ h \in OwnerHandler
  BY <1>2, HandlerKinds
<1>4. UNCHANGED <<O!Workspace, O!Clients, O!Developers, trouble>> /\ trouble \subseteq O!Kinds
  BY DEF O!GetFlow, CInv, O!TypeOK
<1>5. CASE O!Answer(r)
  BY <1>4, <1>5, OAnswers
<1>6. CASE ~O!Answer(r)
  <2>1. PICK copy :
          /\ \E on \in O!Enabling(h.op) : copy = [tenant |-> h.at, enabled |-> on]
          /\ O!OfTenant(h.id, h.at)
          /\ O!Go(r, [h EXCEPT !.step = "upsert", !.copy = copy])
    BY <1>1, <1>6 DEF O!GetFlow
  <2>2. PICK on \in BOOLEAN : copy = [tenant |-> h.at, enabled |-> on]
    BY <2>1 DEF O!Enabling
  <2>3. copy \in O!Flow /\ copy.tenant = h.at
    <3>1. h.at \in OTenants
      BY <1>3 DEF OwnerHandler
    <3> QED
      BY <2>2, <3>1 DEF O!Flow
  <2>4. PICK k : k = [h EXCEPT !.step = "upsert", !.copy = copy]
    OBVIOUS
  <2>5. /\ k \in OwnerHandler /\ k.step = "upsert" /\ k.op = h.op /\ k.at = h.at
        /\ k.email = h.email /\ k.rights = h.rights /\ k.id = h.id /\ k.arg = h.arg
        /\ k.copy = copy
    BY <1>3, <2>3, <2>4 DEF OwnerHandler
  <2>6. k \in O!Handler /\ k # O!Idle
    BY <2>5, HandlerKinds DEF O!Handler, OwnerHandler, OwnersOps
  <2>7. k.op # "exchange" /\ CopyOK(k) /\ h.op \in O!FlowOps \ {"create"}
    BY <1>2, <2>5 DEF CopyOK, O!FlowOps
  <2>8. OwnerOK(k)
    <3>1. h.id \in 1..nextFlow /\ flow[h.id].tenant = h.at /\ h.at \in h.rights
      BY <1>2, <1>3, <2>1, <2>7 DEF OwnerOK, O!OfTenant
    <3> QED
      BY <1>2, <1>3, <2>3, <2>5, <2>7, <3>1 DEF OwnerOK, O!ClientOps, O!RowOps, O!FlowOps
  <2>9. ASSUME NEW q \in ORequests, O!At(q, "upsert"), demand[q].id = k.id
        PROVE  demand[q].at = k.at
    <3>1. PICK g : g = demand[q]
      OBVIOUS
    <3>2. O!Busy(q)
      BY <2>9 DEF O!Busy, O!At, O!Idle
    <3>3. g \in O!Handler /\ OwnerOK(g) /\ g.step = "upsert"
      BY <2>9, <3>1, <3>2, OHolds DEF O!At
    <3>4. g.op \in OwnersOps
      BY <3>3, HandlerKinds
    <3>5. flow[g.id] = O!NoFlow \/ flow[g.id].tenant = g.at
      BY <3>3, <3>4 DEF OwnerOK
    <3> QED
      BY <2>1, <2>5, <2>9, <3>1, <3>5 DEF O!OfTenant
  <2> QED
    BY <1>4, <2>1, <2>4, <2>6, <2>7, <2>8, <2>9, Moves
<1> QED
  BY <1>5, <1>6
-----------------------------------------------------------------------------
(* What handlers write.                                                      *)

\* A handler ends with a write that leaves owners, flows and round trips alone.
LEMMA Ends ==
  ASSUME O!ConstantsOK, CInv, NEW r \in ORequests, O!Busy(r), O!Answer(r),
         UNCHANGED <<owner, flow, nextFlow, trip, exchanged>>,
         trouble \subseteq trouble', O!TypeOK', O!LastShownOpens'
  PROVE  CInv'
<1>1. PICK k : k = O!Idle
  OBVIOUS
<1>2. k \in O!Handler \cup {O!Idle} /\ O!Go(r, k) /\ OHandlerOK(k)' /\ k.step # "upsert"
  BY <1>1 DEF O!Answer, O!Idle, OHandlerOK
<1>3. FlowsKeep(r) /\ TripsKeep(r) /\ nextFlow \in Nat /\ NumFlows \in Nat
  BY Keeps DEF CInv, O!TypeOK, O!ConstantsOK
<1>4. (\A q \in ORequests : OHandlerOK(demand[q]))'
  BY <1>2, <1>3, HandlersMove
<1>5. FlowsOK'
  BY <1>2, FlowsStay
<1>6. TripsOK'
  BY <1>1, <1>2, TripsStay
<1>7. AloneOK'
  BY <1>1, <1>2, AloneMoves
<1> QED
  BY <1>4, <1>5, <1>6, <1>7 DEF CInv

\* An owner's handler that writes a client holds its row.
LEMMA HoldsClient ==
  ASSUME CInv, NEW r \in ORequests, O!Busy(r), O!At(r, "put"), demand[r].op \in O!ClientOps
  PROVE  /\ demand[r] \in OwnerHandler /\ demand[r].copy \in O!Client
         /\ demand[r].id \in ClientIds /\ demand[r].copy.tenant = demand[r].at
         /\ demand[r].at \in demand[r].rights
         /\ "overlap" \notin trouble => app[demand[r].id] = demand[r].copy
<1>1. PICK h : h = demand[r]
  OBVIOUS
<1>2. h \in O!Handler /\ OwnerOK(h) /\ h.step = "put" /\ h.op \in OwnersOps /\ h.op # "register"
  BY <1>1, OHolds DEF O!At, OwnersOps, O!ClientOps
<1>3. "overlap" \notin trouble => app[h.id] = h.copy
  BY <1>1, <1>2 DEF CInv, AloneOK, CopyOK
<1> QED
  BY <1>1, <1>2, <1>3, HandlerKinds DEF OwnerOK

\* The workspace's client gets a new secret, whether or not the owner is told.
LEMMA RegenerateSecretStep ==
  ASSUME O!ConstantsOK, CInv, NEW r \in ORequests, O!Busy(r), O!RegenerateSecret(r)
  PROVE  CInv'
<1>1. PICK h : h = demand[r]
  OBVIOUS
<1>2. /\ O!Answer(r) /\ UNCHANGED <<owner, settings, types, flow, nextFlow, nextMade>>
      /\ UNCHANGED <<developer, remembered, trip, exchanged>>
      /\ nextSecret < MaxSecrets /\ nextSecret' = nextSecret + 1
  BY DEF O!RegenerateSecret, O!Workspace, O!Developers
<1>3. h.copy \in O!Client /\ h.id \in ClientIds
  BY <1>1, HoldsClient DEF O!RegenerateSecret, O!ClientOps
<1>4. O!TypeOK /\ MaxSecrets \in Nat /\ nextSecret' \in 0..MaxSecrets
  BY <1>2 DEF CInv, O!TypeOK, O!ConstantsOK
<1>5. PICK new : new = [h.copy EXCEPT !.secret = nextSecret']
  OBVIOUS
<1>6. new \in O!Client /\ new.secret = nextSecret'
  BY <1>3, <1>4, <1>5 DEF O!Client
<1>7. \/ app' = [app EXCEPT ![h.id] = new] /\ O!Calm /\ shown' = [shown EXCEPT ![h.id] = nextSecret']
      \/ app' = [app EXCEPT ![h.id] = new] /\ O!Trouble("fault") /\ UNCHANGED shown
      \/ UNCHANGED <<app, shown>> /\ O!Trouble("fault")
  BY <1>1, <1>5 DEF O!RegenerateSecret, O!Heard, O!Unheard
<1>8. trouble' \subseteq O!Kinds /\ trouble \subseteq trouble'
  BY <1>7, OMishapsStay DEF O!Kinds
<1>9. /\ app' \in [ClientIds -> O!Client \cup {O!NoClient}]
      /\ shown' \in [ClientIds -> 0..MaxSecrets]
  BY <1>3, <1>4, <1>6, <1>7 DEF O!TypeOK
<1>10. O!TypeOK'
  <2>1. demand' \in [ORequests -> O!Handler \cup {O!Idle}]
    BY <1>2, OOneMoves DEF O!Answer
  <2> QED
    BY <1>2, <1>4, <1>8, <1>9, <2>1 DEF O!TypeOK
<1>11. O!LastShownOpens'
  <2>1. CASE app' = [app EXCEPT ![h.id] = new] /\ O!Calm
             /\ shown' = [shown EXCEPT ![h.id] = nextSecret']
    BY <1>3, <1>4, <1>6, <2>1 DEF CInv, O!LastShownOpens, O!TypeOK, O!Calm
  <2>2. CASE O!Trouble("fault")
    BY <2>2 DEF O!LastShownOpens, O!Trouble
  <2> QED
    BY <1>7, <2>1, <2>2
<1> QED
  BY <1>2, <1>8, <1>10, <1>11, Ends

\* The workspace's client is put back with a new address.
LEMMA UpdateClientStep ==
  ASSUME O!ConstantsOK, CInv, NEW r \in ORequests, O!Busy(r), O!UpdateClient(r)
  PROVE  CInv'
<1>1. PICK h : h = demand[r]
  OBVIOUS
<1>2. /\ O!Answer(r) /\ UNCHANGED <<owner, settings, types, flow, nextFlow, nextMade, nextSecret>>
      /\ UNCHANGED <<developer, remembered, trip, exchanged, shown>>
  BY DEF O!UpdateClient, O!Workspace, O!Developers
<1>3. /\ h.copy \in O!Client /\ h.id \in ClientIds /\ h.arg \in Uris
      /\ "overlap" \notin trouble => app[h.id] = h.copy
  <2>1. O!At(r, "put") /\ h.op = "uris" /\ h.op \in O!ClientOps /\ h.op \in OwnersOps
    BY <1>1 DEF O!UpdateClient, O!ClientOps, OwnersOps
  <2>2. OwnerOK(h)
    BY <1>1, OHolds
  <2> QED
    BY <1>1, <2>1, <2>2, HoldsClient DEF OwnerOK
<1>4. O!TypeOK
  BY DEF CInv
<1>5. PICK new : new = [h.copy EXCEPT !.uri = h.arg]
  OBVIOUS
<1>6. new \in O!Client /\ new.secret = h.copy.secret
  BY <1>3, <1>5 DEF O!Client
<1>7. \/ app' = [app EXCEPT ![h.id] = new] /\ O!Calm
      \/ UNCHANGED app /\ O!Trouble("fault")
  BY <1>1, <1>5 DEF O!UpdateClient, O!Edited, O!Heard, O!Unheard
<1>8. trouble' \subseteq O!Kinds /\ trouble \subseteq trouble'
  BY <1>7, OMishapsStay DEF O!Kinds
<1>9. O!TypeOK'
  <2>1. demand' \in [ORequests -> O!Handler \cup {O!Idle}]
    BY <1>2, OOneMoves DEF O!Answer
  <2>2. app' \in [ClientIds -> O!Client \cup {O!NoClient}]
    BY <1>3, <1>4, <1>6, <1>7 DEF O!TypeOK
  <2> QED
    BY <1>2, <1>4, <1>8, <2>1, <2>2 DEF O!TypeOK
<1>10. O!LastShownOpens'
  <2>1. CASE app' = [app EXCEPT ![h.id] = new] /\ O!Calm
    <3> SUFFICES ASSUME trouble' \cap {"overlap", "fault"} = {},
                        NEW c \in ClientIds, app'[c] # O!NoClient
                 PROVE  app'[c].secret = shown[c]
      BY <1>2 DEF O!LastShownOpens
    <3>1. \A d \in ClientIds : app[d] # O!NoClient => app[d].secret = shown[d]
      BY <2>1 DEF CInv, O!LastShownOpens, O!Calm
    <3>2. app[h.id] = h.copy /\ h.copy # O!NoClient
      BY <1>3, <2>1 DEF O!Calm, O!Client, O!NoClient
    <3> QED
      BY <1>3, <1>4, <1>6, <2>1, <3>1, <3>2 DEF O!TypeOK
  <2>2. CASE O!Trouble("fault")
    BY <2>2 DEF O!LastShownOpens, O!Trouble
  <2> QED
    BY <1>7, <2>1, <2>2
<1> QED
  BY <1>2, <1>8, <1>9, <1>10, Ends

\* A column of the tenant's row, or a transaction type, is written.
LEMMA EditStep ==
  ASSUME O!ConstantsOK, CInv, NEW r \in ORequests, O!Busy(r), O!EditSettings(r) \/ O!EditTypes(r)
  PROVE  CInv'
<1>1. PICK h : h = demand[r]
  OBVIOUS
<1>2. /\ O!Answer(r) /\ UNCHANGED <<owner, flow, nextFlow, app, nextMade, nextSecret, shown>>
      /\ UNCHANGED <<developer, remembered, trip, exchanged>>
      /\ O!Calm \/ O!Trouble("fault")
  BY DEF O!EditSettings, O!EditTypes, O!Clients, O!Developers, O!Heard, O!Unheard
<1>3. h \in O!Handler /\ OwnerOK(h) /\ h.step = "row"
  BY <1>1, OHolds DEF O!EditSettings, O!EditTypes, O!At
<1>4. h.op \in OwnersOps /\ h.at \in OTenants
  BY <1>3, HandlerKinds DEF OwnerHandler
<1>5. O!TypeOK
  BY DEF CInv
<1>6. trouble' \subseteq O!Kinds /\ trouble \subseteq trouble'
  BY <1>2, OMishapsStay DEF O!Kinds
<1>7. settings' \in [OTenants -> SUBSET Settings] /\ types' \subseteq OTenants \X TypeNames
  <2>1. CASE O!EditSettings(r)
    <3>1. h.arg \in Settings
      BY <1>1, <1>3, <1>4, <2>1 DEF O!EditSettings, OwnerOK
    <3>2. PICK row : row = settings[h.at] /\ row \subseteq Settings
      BY <1>4, <1>5 DEF O!TypeOK
    <3>3. \/ settings' = [settings EXCEPT ![h.at] = row \cup {h.arg}]
          \/ settings' = [settings EXCEPT ![h.at] = row \ {h.arg}]
          \/ UNCHANGED settings
      BY <1>1, <2>1, <3>2 DEF O!EditSettings, O!SetTenant
    <3> QED
      BY <1>5, <2>1, <3>1, <3>2, <3>3 DEF O!EditSettings, O!TypeOK
  <2>2. CASE O!EditTypes(r)
    <3>1. h.arg \in TypeNames
      BY <1>1, <1>3, <1>4, <2>2 DEF O!EditTypes, OwnerOK
    <3> QED
      BY <1>1, <1>4, <1>5, <2>2, <3>1 DEF O!EditTypes, O!PutType, O!TypeOK
  <2> QED
    BY <2>1, <2>2
<1>8. O!TypeOK'
  <2>1. demand' \in [ORequests -> O!Handler \cup {O!Idle}]
    BY <1>2, OOneMoves DEF O!Answer
  <2> QED
    BY <1>2, <1>5, <1>6, <1>7, <2>1 DEF O!TypeOK
<1>9. O!LastShownOpens'
  BY <1>2, <1>6, SecretsStay
<1> QED
  BY <1>2, <1>6, <1>8, <1>9, Ends

\* A new flow gets an id that nobody has.
LEMMA NewFlowStep ==
  ASSUME O!ConstantsOK, CInv, NEW r \in ORequests, O!Busy(r), O!NewFlow(r)
  PROVE  CInv'
<1>1. PICK h : h = demand[r]
  OBVIOUS
<1>2. h \in O!Handler /\ OwnerOK(h) /\ h.step = "flow" /\ h.op = "create" /\ h.op \in OwnersOps
  BY <1>1, OHolds DEF O!NewFlow, O!At, OwnersOps, O!FlowOps
<1>3. h \in OwnerHandler
  BY <1>2, HandlerKinds
<1>4. /\ UNCHANGED <<owner, settings, types, flow, app, nextMade, nextSecret, shown>>
      /\ UNCHANGED <<developer, remembered, trip, exchanged, trouble>> /\ O!TypeOK
      /\ nextFlow \in Nat /\ nextFlow' = nextFlow + 1 /\ nextFlow < NumFlows /\ NumFlows \in Nat
  BY DEF O!NewFlow, O!Clients, O!Developers, CInv, O!TypeOK, O!ConstantsOK
<1>5. PICK copy, id :
        /\ \E on \in BOOLEAN : copy = [tenant |-> h.at, enabled |-> on]
        /\ id = nextFlow + 1
        /\ O!Go(r, [h EXCEPT !.step = "upsert", !.id = id, !.copy = copy])
  BY <1>1, <1>4 DEF O!NewFlow
<1>6. copy \in O!Flow /\ copy.tenant = h.at /\ id \in O!FlowIds /\ id \in 1..nextFlow'
  <2>1. copy \in O!Flow /\ copy.tenant = h.at
    <3>1. PICK on \in BOOLEAN : copy = [tenant |-> h.at, enabled |-> on]
      BY <1>5
    <3>2. h.at \in OTenants
      BY <1>3 DEF OwnerHandler
    <3> QED
      BY <3>1, <3>2 DEF O!Flow
  <2>2. id \in O!FlowIds /\ id \in 1..nextFlow'
    BY <1>4, <1>5 DEF O!FlowIds
  <2> QED
    BY <2>1, <2>2
<1>7. PICK k : k = [h EXCEPT !.step = "upsert", !.id = id, !.copy = copy]
  OBVIOUS
<1>8. /\ k \in OwnerHandler /\ k.step = "upsert" /\ k.op = h.op /\ k.at = h.at
      /\ k.email = h.email /\ k.rights = h.rights /\ k.id = id /\ k.arg = h.arg
      /\ k.copy = copy
  BY <1>3, <1>6, <1>7 DEF OwnerHandler
<1>9. k \in O!Handler /\ k # O!Idle
  BY <1>8, HandlerKinds DEF O!Handler, OwnerHandler, OwnersOps
<1>10. flow[id] = O!NoFlow
  BY <1>4, <1>5, <1>6 DEF CInv, FlowsOK
<1>11. h.at \in h.rights /\ \A t \in OTenants : owner[t] = h.email => t \in h.rights
  BY <1>2 DEF OwnerOK
<1>12. OHandlerOK(k)'
  <2>1. k.op = "create" /\ k.op # "exchange"
    BY <1>2, <1>8
  <2>2. TripOK(k)'
    BY <2>1 DEF TripOK
  <2>3. OwnerOK(k)'
    <3>1. k.op \in Ops
      BY <1>2, <1>8 DEF OwnerOK
    <3>2. \A t \in OTenants : owner'[t] = k.email => t \in k.rights
      BY <1>4, <1>8, <1>11
    <3>3. flow'[k.id] = O!NoFlow
      BY <1>4, <1>8, <1>10
    <3>4. k.op \in O!FlowOps
      BY <2>1 DEF O!FlowOps
    <3> QED
      BY <1>6, <1>8, <1>11, <2>1, <3>1, <3>2, <3>3, <3>4 DEF OwnerOK
  <2> QED
    BY <2>2, <2>3 DEF OHandlerOK
<1>13. (\A q \in ORequests : OHandlerOK(demand[q]))'
  <2>1. FlowsKeep(r) /\ TripsKeep(r)
    BY <1>4, Keeps
  <2>2. O!Go(r, k) /\ nextFlow' \in Nat /\ nextFlow <= nextFlow'
    BY <1>4, <1>5, <1>7
  <2> QED
    BY <1>4, <1>9, <1>12, <2>1, <2>2, HandlersMove
<1>14. demand' \in [ORequests -> O!Handler \cup {O!Idle}]
       /\ \A q \in ORequests : demand'[q] = IF q = r THEN k ELSE demand[q]
  BY <1>5, <1>7, <1>9, OOneMoves
<1>15. O!TypeOK'
  <2>1. nextFlow' \in 0..NumFlows
    BY <1>4
  <2> QED
    BY <1>4, <1>14, <2>1 DEF O!TypeOK
<1>16. FlowsOK'
  <2>1. ASSUME NEW q \in ORequests, q # r, O!At(q, "upsert")' PROVE demand'[q].id # id
    <3>1. PICK g : g = demand[q]
      OBVIOUS
    <3>2. O!At(q, "upsert") /\ O!Busy(q)
      BY <1>14, <2>1 DEF O!At, O!Busy, O!Idle
    <3>3. g \in O!Handler /\ OwnerOK(g) /\ g.step = "upsert"
      BY <3>1, <3>2, OHolds DEF O!At
    <3>4. g.op \in OwnersOps
      BY <3>3, HandlerKinds
    <3>5. g.id \in 1..nextFlow
      BY <3>3, <3>4 DEF OwnerOK
    <3> QED
      BY <1>4, <1>5, <1>14, <2>1, <3>1, <3>5
  <2>2. ASSUME NEW p \in ORequests, NEW q \in ORequests, O!At(p, "upsert")', O!At(q, "upsert")',
               demand'[p].id = demand'[q].id
        PROVE  demand'[p].at = demand'[q].at
    <3>1. CASE p # r /\ q # r
      BY <1>14, <2>2, <3>1 DEF O!At, CInv, FlowsOK
    <3>2. CASE p = r \/ q = r
      <4>1. demand'[r].id = id
        BY <1>8, <1>14
      <4> QED
        BY <2>1, <2>2, <3>2, <4>1
    <3> QED
      BY <3>1, <3>2
  <2>3. /\ \A f \in O!FlowIds : f > nextFlow' => flow'[f] = O!NoFlow
        /\ \A t \in OTenants, f, g \in O!FlowIds :
             O!OfTenant(f, t)' /\ flow'[f].enabled /\ O!OfTenant(g, t)' /\ flow'[g].enabled => f = g
    <3>1. \A f \in O!FlowIds : f > nextFlow' => f > nextFlow
      BY <1>4 DEF O!FlowIds
    <3> QED
      BY <1>4, <3>1 DEF CInv, FlowsOK, O!OfTenant
  <2> QED
    BY <2>2, <2>3 DEF FlowsOK
<1>17. TripsOK'
  <2>1. k.op # "exchange"
    BY <1>2, <1>8
  <2> QED
    BY <1>4, <1>5, <1>7, <1>9, <2>1, TripsStay
<1>18. AloneOK'
  <2>1. CopyOK(k)'
    BY <1>8 DEF CopyOK
  <2> QED
    BY <1>4, <1>5, <1>7, <1>9, <2>1, AloneMoves
<1>19. O!LastShownOpens'
  BY <1>4, SecretsStay
<1> QED
  BY <1>13, <1>15, <1>16, <1>17, <1>18, <1>19 DEF CInv

\* What the handler that puts a flow holds of it.
LEMMA HoldsFlow ==
  ASSUME CInv, NEW r \in ORequests, O!Busy(r), O!At(r, "upsert")
  PROVE  /\ demand[r] \in OwnerHandler /\ demand[r].copy \in O!Flow
         /\ demand[r].copy.tenant = demand[r].at /\ demand[r].id \in 1..nextFlow
         /\ flow[demand[r].id] = O!NoFlow \/ flow[demand[r].id].tenant = demand[r].at
         /\ demand[r].at \in demand[r].rights /\ demand[r].op \in Ops
<1>1. PICK h : h = demand[r]
  OBVIOUS
<1>2. h \in O!Handler /\ OwnerOK(h) /\ h.step = "upsert"
  BY <1>1, OHolds DEF O!At
<1>3. h \in OwnerHandler /\ h.op \in OwnersOps
  BY <1>2, HandlerKinds
<1> QED
  BY <1>1, <1>2, <1>3 DEF OwnerOK

\* A flow put with the others of its workspace demoted: of each, what is left.
LEMMA Upserting ==
  ASSUME O!TypeOK, NEW id \in O!FlowIds, NEW def \in O!Flow, flow' = O!Upserted(id, def)
  PROVE  /\ flow' \in [O!FlowIds -> O!Flow \cup {O!NoFlow}] /\ flow'[id] = def
         /\ \A f \in O!FlowIds \ {id} :
              /\ flow[f] = O!NoFlow => flow'[f] = O!NoFlow
              /\ flow[f] # O!NoFlow => /\ flow'[f] # O!NoFlow /\ flow'[f].tenant = flow[f].tenant
                                       /\ flow'[f].enabled => flow[f].enabled
              /\ def.enabled /\ flow[f] # O!NoFlow /\ flow[f].tenant = def.tenant
                   => ~flow'[f].enabled
              /\ flow'[f] # flow[f] => flow[f] # O!NoFlow /\ flow[f].tenant = def.tenant
<1>1. ASSUME NEW f \in O!FlowIds, f # id
      PROVE  /\ flow'[f] \in O!Flow \cup {O!NoFlow}
             /\ flow[f] = O!NoFlow => flow'[f] = O!NoFlow
             /\ flow[f] # O!NoFlow => /\ flow'[f] # O!NoFlow /\ flow'[f].tenant = flow[f].tenant
                                      /\ flow'[f].enabled => flow[f].enabled
             /\ def.enabled /\ flow[f] # O!NoFlow /\ flow[f].tenant = def.tenant
                  => ~flow'[f].enabled
             /\ flow'[f] # flow[f] => flow[f] # O!NoFlow /\ flow[f].tenant = def.tenant
  <2>1. PICK one : one = flow[f] /\ one \in O!Flow \cup {O!NoFlow}
    BY DEF O!TypeOK
  <2>2. flow'[f] = IF def.enabled /\ one # O!NoFlow /\ one.tenant = def.tenant
                   THEN [one EXCEPT !.enabled = FALSE] ELSE one
    BY <1>1, <2>1 DEF O!Upserted, O!OfTenant
  <2>3. CASE def.enabled /\ one # O!NoFlow /\ one.tenant = def.tenant
    <3>1. PICK two : two = [one EXCEPT !.enabled = FALSE]
      OBVIOUS
    <3>2. one \in O!Flow
      BY <2>1, <2>3
    <3>3. two \in O!Flow /\ two.tenant = one.tenant /\ two.enabled = FALSE
      BY <3>1, <3>2 DEF O!Flow
    <3>4. two # O!NoFlow
      <4>1. DOMAIN two = {"tenant", "enabled"} /\ DOMAIN O!NoFlow = {"enabled"}
        BY <3>3 DEF O!Flow, O!NoFlow
      <4> QED
        BY <4>1
    <3> QED
      BY <2>1, <2>2, <2>3, <3>1, <3>3, <3>4
  <2>4. CASE ~(def.enabled /\ one # O!NoFlow /\ one.tenant = def.tenant)
    BY <2>1, <2>2, <2>4
  <2> QED
    BY <2>3, <2>4
<1>2. flow'[id] = def
  BY DEF O!Upserted
<1>3. flow' = [f \in O!FlowIds |-> flow'[f]]
  BY DEF O!Upserted
<1>4. flow' \in [O!FlowIds -> O!Flow \cup {O!NoFlow}]
  BY <1>1, <1>2, <1>3
<1> QED
  BY <1>1, <1>2, <1>4

\* A flow is put, or the store fails.
LEMMA UpsertFlowStep ==
  ASSUME O!ConstantsOK, CInv, NEW r \in ORequests, O!Busy(r), O!UpsertFlow(r)
  PROVE  CInv'
<1>1. PICK h : h = demand[r]
  OBVIOUS
<1>2. /\ O!Answer(r) /\ UNCHANGED <<owner, settings, types, nextFlow, app, nextMade>>
      /\ UNCHANGED <<nextSecret, shown, developer, remembered, trip, exchanged>> /\ O!TypeOK
  BY DEF O!UpsertFlow, O!Clients, O!Developers, CInv
<1>3. /\ h \in OwnerHandler /\ h.copy \in O!Flow /\ h.copy.tenant = h.at /\ h.id \in 1..nextFlow
      /\ flow[h.id] = O!NoFlow \/ flow[h.id].tenant = h.at
  BY <1>1, HoldsFlow DEF O!UpsertFlow
<1>4. nextFlow \in Nat /\ NumFlows \in Nat /\ h.id \in O!FlowIds
  BY <1>2, <1>3 DEF O!TypeOK, O!ConstantsOK, O!FlowIds
<1>5. (flow' = O!Upserted(h.id, h.copy) /\ O!Calm) \/ (UNCHANGED flow /\ O!Trouble("fault"))
  BY <1>1 DEF O!UpsertFlow, O!Heard, O!Unheard
<1>6. trouble' \subseteq O!Kinds /\ trouble \subseteq trouble'
  BY <1>5, OMishapsStay DEF O!Kinds
<1>7. O!LastShownOpens'
  BY <1>2, <1>6, SecretsStay
<1>8. /\ demand' \in [ORequests -> O!Handler \cup {O!Idle}]
      /\ \A q \in ORequests : demand'[q] = IF q = r THEN O!Idle ELSE demand[q]
  BY <1>2, OOneMoves DEF O!Answer
<1>9. CASE UNCHANGED flow
  <2>1. O!TypeOK'
    BY <1>2, <1>6, <1>8, <1>9 DEF O!TypeOK
  <2> QED
    BY <1>2, <1>6, <1>7, <1>9, <2>1, Ends
<1>10. CASE flow' = O!Upserted(h.id, h.copy)
  <2>1. PICK id, def : id = h.id /\ def = h.copy /\ id \in O!FlowIds /\ def \in O!Flow
    BY <1>3, <1>4
  <2>2. /\ flow' \in [O!FlowIds -> O!Flow \cup {O!NoFlow}] /\ flow'[id] = def
        /\ \A f \in O!FlowIds \ {id} :
             /\ flow[f] = O!NoFlow => flow'[f] = O!NoFlow
             /\ flow[f] # O!NoFlow => /\ flow'[f] # O!NoFlow /\ flow'[f].tenant = flow[f].tenant
                                      /\ flow'[f].enabled => flow[f].enabled
             /\ def.enabled /\ flow[f] # O!NoFlow /\ flow[f].tenant = def.tenant
                  => ~flow'[f].enabled
    BY <1>2, <1>10, <2>1, Upserting
  <2>3. O!TypeOK'
    BY <1>2, <1>6, <1>8, <2>2 DEF O!TypeOK
  <2>4. FlowsKeep(r)
    <3> SUFFICES ASSUME NEW q \in ORequests, q # r, O!Busy(q), O!At(q, "upsert")
                 PROVE  flow'[demand[q].id] = O!NoFlow
                        \/ flow'[demand[q].id].tenant = demand[q].at
      BY DEF FlowsKeep
    <3>1. PICK g : g = demand[q]
      OBVIOUS
    <3>2. g.id \in 1..nextFlow /\ (flow[g.id] = O!NoFlow \/ flow[g.id].tenant = g.at)
      BY <3>1, HoldsFlow
    <3>3. g.id \in O!FlowIds
      BY <1>2, <1>4, <3>2 DEF O!TypeOK, O!FlowIds
    <3>4. CASE g.id = id
      <4>1. O!At(r, "upsert")
        BY DEF O!UpsertFlow
      <4>2. g.at = h.at
        BY <1>1, <2>1, <3>1, <3>4, <4>1 DEF CInv, FlowsOK
      <4> QED
        BY <1>3, <2>1, <2>2, <3>1, <3>4, <4>2
    <3>5. CASE g.id # id
      BY <2>2, <3>1, <3>2, <3>3, <3>5
    <3> QED
      BY <3>4, <3>5
  <2>5. (\A q \in ORequests : OHandlerOK(demand[q]))'
    <3>1. PICK k : k = O!Idle /\ k \in O!Handler \cup {O!Idle} /\ O!Go(r, k) /\ OHandlerOK(k)'
      BY <1>2 DEF O!Answer, OHandlerOK
    <3>2. TripsKeep(r)
      BY <1>2, Keeps
    <3> QED
      BY <1>2, <1>4, <2>4, <3>1, <3>2, HandlersMove
  <2>6. FlowsOK'
    <3>1. ASSUME NEW f \in O!FlowIds, f > nextFlow' PROVE flow'[f] = O!NoFlow
      <4>1. f # id /\ flow[f] = O!NoFlow
        BY <1>2, <1>3, <1>4, <2>1, <3>1 DEF CInv, FlowsOK, O!FlowIds
      <4> QED
        BY <2>2, <4>1
    <3>2. ASSUME NEW t \in OTenants, NEW f \in O!FlowIds, NEW g \in O!FlowIds,
                 O!OfTenant(f, t)', flow'[f].enabled, O!OfTenant(g, t)', flow'[g].enabled
          PROVE  f = g
      <4>1. ASSUME NEW i \in O!FlowIds, O!OfTenant(i, t)', flow'[i].enabled, i # id
            PROVE  O!OfTenant(i, t) /\ flow[i].enabled /\ ~(def.enabled /\ def.tenant = t)
        BY <2>2, <4>1 DEF O!OfTenant
      <4>2. CASE def.enabled /\ def.tenant = t
        BY <3>2, <4>1, <4>2
      <4>3. CASE ~(def.enabled /\ def.tenant = t)
        <5>1. f # id /\ g # id
          BY <2>2, <3>2, <4>3 DEF O!OfTenant
        <5>2. O!OfTenant(f, t) /\ flow[f].enabled /\ O!OfTenant(g, t) /\ flow[g].enabled
          BY <3>2, <4>1, <5>1
        <5> QED
          BY <5>2 DEF CInv, FlowsOK
      <4> QED
        BY <4>2, <4>3
    <3>3. ASSUME NEW p \in ORequests, NEW q \in ORequests, O!At(p, "upsert")', O!At(q, "upsert")',
                 demand'[p].id = demand'[q].id
          PROVE  demand'[p].at = demand'[q].at
      BY <1>8, <3>3 DEF O!At, O!Idle, CInv, FlowsOK
    <3> QED
      BY <3>1, <3>2, <3>3 DEF FlowsOK
  <2>7. TripsOK' /\ AloneOK'
    <3>1. PICK k : k = O!Idle /\ k \in O!Handler \cup {O!Idle} /\ O!Go(r, k)
      BY <1>2 DEF O!Answer
    <3> QED
      BY <1>2, <1>6, <3>1, TripsStay, AloneMoves
  <2> QED
    BY <1>7, <2>3, <2>5, <2>6, <2>7 DEF CInv
<1> QED
  BY <1>5, <1>9, <1>10

\* A flow is deleted from its workspace.
LEMMA DeleteFlowStep ==
  ASSUME O!ConstantsOK, CInv, NEW r \in ORequests, O!Busy(r), O!DeleteFlow(r)
  PROVE  CInv'
<1>1. PICK h : h = demand[r]
  OBVIOUS
<1>2. /\ O!Answer(r) /\ UNCHANGED <<owner, settings, types, nextFlow, app, nextMade>>
      /\ UNCHANGED <<nextSecret, shown, developer, remembered, trip, exchanged>> /\ O!TypeOK
  BY DEF O!DeleteFlow, O!Clients, O!Developers, CInv
<1>3. nextFlow \in Nat /\ NumFlows \in Nat
  BY <1>2 DEF O!TypeOK, O!ConstantsOK
<1>4. O!Calm \/ O!Trouble("fault")
  BY DEF O!DeleteFlow, O!Heard, O!Unheard
<1>5. trouble' \subseteq O!Kinds /\ trouble \subseteq trouble'
  BY <1>4, OMishapsStay DEF O!Kinds
<1>6. O!LastShownOpens'
  BY <1>2, <1>5, SecretsStay
<1>7. /\ demand' \in [ORequests -> O!Handler \cup {O!Idle}]
      /\ \A q \in ORequests : demand'[q] = IF q = r THEN O!Idle ELSE demand[q]
  BY <1>2, OOneMoves DEF O!Answer
<1>8. /\ flow' \in [O!FlowIds -> O!Flow \cup {O!NoFlow}]
      /\ \A f \in O!FlowIds : flow'[f] = flow[f] \/ flow'[f] = O!NoFlow
  BY <1>1, <1>2 DEF O!DeleteFlow, O!TypeOK
<1>9. O!TypeOK'
  BY <1>2, <1>5, <1>7, <1>8 DEF O!TypeOK
<1>10. FlowsKeep(r)
  <2> SUFFICES ASSUME NEW q \in ORequests, O!Busy(q), O!At(q, "upsert")
               PROVE  flow'[demand[q].id] = O!NoFlow
                      \/ flow'[demand[q].id].tenant = demand[q].at
    BY DEF FlowsKeep
  <2>1. PICK g : g = demand[q]
    OBVIOUS
  <2>2. g.id \in 1..nextFlow /\ (flow[g.id] = O!NoFlow \/ flow[g.id].tenant = g.at)
    BY <2>1, HoldsFlow
  <2>3. g.id \in O!FlowIds
    BY <1>2, <1>3, <2>2 DEF O!TypeOK, O!FlowIds
  <2> QED
    BY <1>8, <2>1, <2>2, <2>3
<1>11. PICK k : k = O!Idle /\ k \in O!Handler \cup {O!Idle} /\ O!Go(r, k) /\ OHandlerOK(k)'
  BY <1>2 DEF O!Answer, OHandlerOK
<1>12. (\A q \in ORequests : OHandlerOK(demand[q]))'
  <2>1. TripsKeep(r)
    BY <1>2, Keeps
  <2> QED
    BY <1>2, <1>3, <1>10, <1>11, <2>1, HandlersMove
<1>13. FlowsOK'
  <2>1. ASSUME NEW f \in O!FlowIds, f > nextFlow' PROVE flow'[f] = O!NoFlow
    BY <1>2, <1>8, <2>1 DEF CInv, FlowsOK
  <2>2. ASSUME NEW t \in OTenants, NEW f \in O!FlowIds, NEW g \in O!FlowIds,
               O!OfTenant(f, t)', flow'[f].enabled, O!OfTenant(g, t)', flow'[g].enabled
        PROVE  f = g
    <3>1. O!OfTenant(f, t) /\ flow[f].enabled /\ O!OfTenant(g, t) /\ flow[g].enabled
      BY <1>8, <2>2 DEF O!OfTenant
    <3> QED
      BY <3>1 DEF CInv, FlowsOK
  <2>3. ASSUME NEW p \in ORequests, NEW q \in ORequests, O!At(p, "upsert")', O!At(q, "upsert")',
               demand'[p].id = demand'[q].id
        PROVE  demand'[p].at = demand'[q].at
    BY <1>7, <2>3 DEF O!At, O!Idle, CInv, FlowsOK
  <2> QED
    BY <2>1, <2>2, <2>3 DEF FlowsOK
<1>14. TripsOK' /\ AloneOK'
  BY <1>2, <1>5, <1>11, TripsStay, AloneMoves
<1> QED
  BY <1>6, <1>9, <1>12, <1>13, <1>14 DEF CInv
-----------------------------------------------------------------------------
(* Developers.                                                               *)

\* A developer's registration starts, or finds its id taken or free.
LEMMA DevRegisterStep ==
  ASSUME O!ConstantsOK, CInv, NEW r \in ORequests, NEW c \in ClientIds, NEW uri \in Uris,
         O!DevRegister(r, c, uri)
  PROVE  CInv'
<1>1. PICK k : k = [op |-> "register", step |-> "lookup", id |-> c, uri |-> uri]
  OBVIOUS
<1>2. /\ ~O!Busy(r) /\ O!Overlaps(r) /\ O!Go(r, k) /\ UNCHANGED <<O!Workspace, O!Clients, O!Developers>>
  BY <1>1 DEF O!DevRegister
<1>3. k \in O!Handler /\ k.op = "register" /\ k.step = "lookup"
  BY <1>1 DEF O!Handler
<1>4. k # O!Idle /\ OwnerOK(k) /\ CopyOK(k)
  BY <1>3, HandlerKinds DEF OwnerOK, OwnersOps, O!ClientOps, O!FlowOps, O!RowOps, CopyOK
<1>5. trouble' \subseteq O!Kinds /\ trouble \subseteq trouble'
  BY <1>2, OMishapsStay DEF O!Overlaps, O!Kinds
<1>6. k.op # "exchange" /\ k.step # "upsert"
  BY <1>3
<1> QED
  BY <1>2, <1>3, <1>4, <1>5, <1>6, Moves

LEMMA DevLookupStep ==
  ASSUME O!ConstantsOK, CInv, NEW r \in ORequests, O!Busy(r), O!DevLookup(r)
  PROVE  CInv'
<1>1. PICK h : h = demand[r]
  OBVIOUS
<1>2. h \in O!Handler /\ h.step = "lookup"
  BY <1>1, OHolds DEF O!DevLookup, O!At
<1>3. h \in [op : {"register"}, step : {"lookup", "put"}, id : ClientIds, uri : Uris]
  BY <1>2 DEF O!Handler
<1>4. UNCHANGED <<O!Workspace, O!Clients, O!Developers, trouble>> /\ trouble \subseteq O!Kinds
  BY DEF O!DevLookup, CInv, O!TypeOK
<1>5. CASE O!Answer(r)
  BY <1>4, <1>5, OAnswers
<1>6. CASE ~O!Answer(r)
  <2>1. PICK k : k = [h EXCEPT !.step = "put"] /\ O!Go(r, k) /\ app[h.id] = O!NoClient
    BY <1>1, <1>6 DEF O!DevLookup, O!Goto, O!IdFree
  <2>2. k \in O!Handler /\ k.op = "register" /\ k.step = "put" /\ k.id = h.id
    BY <1>3, <2>1 DEF O!Handler
  <2>3. k # O!Idle /\ OwnerOK(k) /\ CopyOK(k)
    BY <2>1, <2>2, HandlerKinds DEF OwnerOK, OwnersOps, O!ClientOps, O!FlowOps, O!RowOps, CopyOK
  <2>4. k.op # "exchange" /\ k.step # "upsert"
    BY <2>2
  <2> QED
    BY <1>4, <2>1, <2>2, <2>3, <2>4, Moves
<1> QED
  BY <1>5, <1>6

\* A client without a secret is put for the developer.
LEMMA DevPutStep ==
  ASSUME O!ConstantsOK, CInv, NEW r \in ORequests, O!Busy(r), O!DevPut(r)
  PROVE  CInv'
<1>1. PICK h : h = demand[r]
  OBVIOUS
<1>2. /\ O!Answer(r) /\ UNCHANGED <<owner, settings, types, flow, nextFlow, nextSecret>>
      /\ UNCHANGED <<developer, trip, exchanged>> /\ O!TypeOK /\ nextMade < MaxMade
  BY DEF O!DevPut, O!Workspace, CInv
<1>3. h \in O!Handler /\ h.op = "register" /\ h.id \in ClientIds /\ h.uri \in Uris
  BY <1>1, OHolds, HandlerKinds DEF O!DevPut, OwnersOps, O!ClientOps, O!FlowOps, O!RowOps
<1>4. PICK new : new = [tenant |-> DevTenant, secret |-> 0, uri |-> h.uri, made |-> nextMade']
  OBVIOUS
<1>5. \/ /\ nextMade' = nextMade + 1 /\ app' = [app EXCEPT ![h.id] = new]
         /\ shown' = [shown EXCEPT ![h.id] = 0] /\ remembered' = remembered \cup {h.id} /\ O!Calm
      \/ UNCHANGED <<app, nextMade, shown, remembered>> /\ O!Trouble("fault")
  BY <1>1, <1>4 DEF O!DevPut, O!Heard, O!Unheard
<1>6. MaxMade \in Nat /\ MaxSecrets \in Nat /\ nextMade \in 0..MaxMade
  BY <1>2 DEF O!TypeOK, O!ConstantsOK
<1>7. trouble' \subseteq O!Kinds /\ trouble \subseteq trouble'
  BY <1>5, OMishapsStay DEF O!Kinds
<1>8. demand' \in [ORequests -> O!Handler \cup {O!Idle}]
  BY <1>2, OOneMoves DEF O!Answer
<1>9. CASE O!Trouble("fault") /\ UNCHANGED <<app, nextMade, shown, remembered>>
  <2>1. O!TypeOK'
    BY <1>2, <1>7, <1>8, <1>9 DEF O!TypeOK
  <2>2. O!LastShownOpens'
    BY <1>9, <1>7, SecretsStay
  <2> QED
    BY <1>2, <1>7, <2>1, <2>2, Ends
<1>10. CASE /\ nextMade' = nextMade + 1 /\ app' = [app EXCEPT ![h.id] = new]
            /\ shown' = [shown EXCEPT ![h.id] = 0] /\ remembered' = remembered \cup {h.id} /\ O!Calm
  <2>1. nextMade' \in 0..MaxMade /\ nextMade' \in 1..MaxMade
    BY <1>2, <1>6, <1>10
  <2>2. new \in O!Client /\ new.secret = 0
    BY <1>3, <1>4, <1>6, <2>1 DEF O!Client, O!AllTenants
  <2>3. app' \in [ClientIds -> O!Client \cup {O!NoClient}] /\ shown' \in [ClientIds -> 0..MaxSecrets]
    BY <1>2, <1>3, <1>6, <1>10, <2>2 DEF O!TypeOK
  <2>4. O!TypeOK'
    BY <1>2, <1>3, <1>7, <1>8, <1>10, <2>1, <2>3 DEF O!TypeOK
  <2>5. O!LastShownOpens'
    BY <1>2, <1>3, <1>10, <2>2 DEF CInv, O!LastShownOpens, O!TypeOK, O!Calm
  <2> QED
    BY <1>2, <1>7, <2>4, <2>5, Ends
<1> QED
  BY <1>5, <1>9, <1>10

\* The callback takes the round trip it is called for.
LEMMA OIDCCallbackStep ==
  ASSUME O!ConstantsOK, CInv, NEW r \in ORequests, NEW x \in States, O!OIDCCallback(r, x)
  PROVE  CInv'
<1>1. PICK k : k = [op |-> "exchange", step |-> "token", id |-> x]
  OBVIOUS
<1>2. /\ ~O!Busy(r) /\ O!Overlaps(r) /\ O!Go(r, k) /\ trip[x] = "out"
      /\ UNCHANGED <<owner, settings, types, flow, nextFlow, app, nextMade, nextSecret, shown>>
      /\ UNCHANGED <<developer, remembered, exchanged>> /\ trip' = [trip EXCEPT ![x] = "gone"]
  BY <1>1 DEF O!OIDCCallback, O!TakeOIDCFlow, O!Workspace, O!Clients
<1>3. k \in O!Handler /\ k.op = "exchange" /\ k.step = "token" /\ k.id = x
  BY <1>1 DEF O!Handler
<1>4. k # O!Idle /\ OwnerOK(k)' /\ CopyOK(k)'
  BY <1>3, HandlerKinds DEF OwnerOK, OwnersOps, O!ClientOps, O!FlowOps, O!RowOps, CopyOK
<1>5. trouble' \subseteq O!Kinds /\ trouble \subseteq trouble' /\ O!TypeOK /\ NumFlows \in Nat
  BY <1>2, OMishapsStay DEF O!Overlaps, O!Kinds, CInv, O!ConstantsOK
<1>6. /\ demand' \in [ORequests -> O!Handler \cup {O!Idle}]
      /\ \A q \in ORequests : demand'[q] = IF q = r THEN k ELSE demand[q]
  BY <1>2, <1>3, OOneMoves
<1>7. /\ trip' \in [States -> {"none", "out", "gone"}]
      /\ \A y \in States : trip'[y] = IF y = x THEN "gone" ELSE trip[y]
  BY <1>2, <1>5 DEF O!TypeOK
<1>8. exchanged[x] = 0
  BY <1>2 DEF CInv, TripsOK
<1>9. O!TypeOK'
  BY <1>2, <1>5, <1>6, <1>7 DEF O!TypeOK
<1>10. ASSUME NEW q \in ORequests, O!Does(q, "exchange")
       PROVE  /\ demand[q].id \in States /\ demand[q].id # x
              /\ trip[demand[q].id] = "gone" /\ exchanged[demand[q].id] = 0
  <2>1. PICK h : h = demand[q]
    OBVIOUS
  <2>2. h \in O!Handler /\ TripOK(h) /\ h.op = "exchange"
    BY <1>10, <2>1, OHolds DEF O!Does
  <2> QED
    BY <1>2, <2>1, <2>2, HandlerKinds DEF TripOK, OwnersOps, O!ClientOps, O!FlowOps, O!RowOps
<1>11. TripsKeep(r)
  BY <1>2, <1>7, <1>10 DEF TripsKeep
<1>12. OHandlerOK(k)'
  <2>1. TripOK(k)'
    BY <1>2, <1>3, <1>7, <1>8 DEF TripOK
  <2> QED
    BY <1>4, <2>1 DEF OHandlerOK
<1>13. (\A q \in ORequests : OHandlerOK(demand[q]))'
  <2>1. FlowsKeep(r) /\ nextFlow \in Nat
    BY <1>2, <1>5, Keeps DEF O!TypeOK
  <2> QED
    BY <1>2, <1>3, <1>5, <1>11, <1>12, <2>1, HandlersMove
<1>14. FlowsOK'
  BY <1>2, <1>3, FlowsStay
<1>15. TripsOK'
  <2>1. ASSUME NEW y \in States
        PROVE  exchanged'[y] <= 1 /\ (trip'[y] # "gone" => exchanged'[y] = 0)
    BY <1>2, <1>7 DEF CInv, TripsOK
  <2>2. ASSUME NEW p \in ORequests, NEW q \in ORequests, O!Does(p, "exchange")',
               O!Does(q, "exchange")', demand'[p].id = demand'[q].id
        PROVE  p = q
    <3>1. \A s \in ORequests \ {r} : O!Does(s, "exchange")' => demand'[s] = demand[s]
                                                            /\ O!Does(s, "exchange")
      BY <1>6 DEF O!Does, O!Busy
    <3>2. \A s \in ORequests \ {r} : O!Does(s, "exchange")' => demand'[s].id # x
      BY <1>10, <3>1
    <3>3. demand'[r].id = x
      BY <1>3, <1>6
    <3>4. CASE p # r /\ q # r
      BY <2>2, <3>1, <3>4 DEF CInv, TripsOK
    <3>5. CASE p = r \/ q = r
      BY <2>2, <3>2, <3>3, <3>5
    <3> QED
      BY <3>4, <3>5
  <2> QED
    BY <2>1, <2>2 DEF TripsOK
<1>16. AloneOK'
  BY <1>2, <1>3, <1>4, <1>5, AloneMoves
<1>17. O!LastShownOpens'
  BY <1>2, <1>5, SecretsStay
<1> QED
  BY <1>9, <1>13, <1>14, <1>15, <1>16, <1>17 DEF CInv

\* The code of the round trip goes to /token.
LEMMA ExchangeCodeStep ==
  ASSUME O!ConstantsOK, CInv, NEW r \in ORequests, O!Busy(r), O!ExchangeCode(r)
  PROVE  CInv'
<1>1. PICK h : h = demand[r]
  OBVIOUS
<1>2. h \in O!Handler /\ TripOK(h) /\ h.step = "token"
  BY <1>1, OHolds DEF O!ExchangeCode, O!At
<1>3. h.op = "exchange" /\ h.id \in States
  <2>1. h.op \notin OwnersOps
    <3>1. h \notin OwnerHandler
      BY <1>2 DEF OwnerHandler
    <3> QED
      BY <1>2, <3>1, HandlerKinds
  <2> QED
    BY <1>2, <2>1, HandlerKinds
<1>4. /\ O!Answer(r) /\ exchanged' = [exchanged EXCEPT ![h.id] = @ + 1]
      /\ UNCHANGED <<owner, settings, types, flow, nextFlow, app, nextMade, nextSecret, shown>>
      /\ UNCHANGED <<developer, remembered, trip, trouble>> /\ O!TypeOK /\ NumFlows \in Nat
  BY <1>1 DEF O!ExchangeCode, O!Workspace, O!Clients, CInv, O!ConstantsOK
<1>5. exchanged[h.id] = 0 /\ trip[h.id] = "gone"
  BY <1>2, <1>3 DEF TripOK
<1>6. /\ exchanged' \in [States -> Nat]
      /\ \A y \in States : exchanged'[y] = IF y = h.id THEN 1 ELSE exchanged[y]
  BY <1>3, <1>4, <1>5 DEF O!TypeOK
<1>7. PICK k : k = O!Idle /\ k \in O!Handler \cup {O!Idle} /\ O!Go(r, k) /\ OHandlerOK(k)'
  BY <1>4 DEF O!Answer, OHandlerOK
<1>8. /\ demand' \in [ORequests -> O!Handler \cup {O!Idle}]
      /\ \A q \in ORequests : demand'[q] = IF q = r THEN k ELSE demand[q]
  BY <1>7, OOneMoves
<1>9. O!TypeOK'
  BY <1>4, <1>6, <1>8 DEF O!TypeOK
<1>10. ASSUME NEW q \in ORequests, q # r, O!Does(q, "exchange")
       PROVE  /\ demand[q].id \in States /\ demand[q].id # h.id
              /\ trip[demand[q].id] = "gone" /\ exchanged[demand[q].id] = 0
  <2>1. PICK g : g = demand[q]
    OBVIOUS
  <2>2. g \in O!Handler /\ TripOK(g) /\ g.op = "exchange"
    BY <1>10, <2>1, OHolds DEF O!Does
  <2>3. O!Does(r, "exchange")
    BY <1>1, <1>3 DEF O!Does
  <2>4. g.id # h.id
    BY <1>1, <1>10, <2>1, <2>3 DEF CInv, TripsOK
  <2> QED
    BY <2>1, <2>2, <2>4, HandlerKinds DEF TripOK, OwnersOps, O!ClientOps, O!FlowOps, O!RowOps
<1>11. TripsKeep(r)
  BY <1>4, <1>6, <1>10 DEF TripsKeep
<1>12. (\A q \in ORequests : OHandlerOK(demand[q]))'
  <2>1. FlowsKeep(r) /\ nextFlow \in Nat
    BY <1>4, Keeps DEF O!TypeOK
  <2> QED
    BY <1>4, <1>7, <1>11, <2>1, HandlersMove
<1>13. FlowsOK'
  <2>1. k.step # "upsert"
    BY <1>7 DEF O!Idle
  <2> QED
    BY <1>4, <1>7, <2>1, FlowsStay
<1>14. TripsOK'
  <2>1. ASSUME NEW y \in States
        PROVE  exchanged'[y] <= 1 /\ (trip'[y] # "gone" => exchanged'[y] = 0)
    BY <1>4, <1>5, <1>6 DEF CInv, TripsOK
  <2>2. \A q \in ORequests : O!Does(q, "exchange")' => O!Does(q, "exchange")
                                                    /\ demand'[q] = demand[q]
    BY <1>7, <1>8 DEF O!Does, O!Busy
  <2> QED
    BY <2>1, <2>2 DEF TripsOK, CInv
<1>15. AloneOK'
  BY <1>4, <1>7, AloneMoves
<1>16. O!LastShownOpens'
  BY <1>4, SecretsStay
<1> QED
  BY <1>9, <1>12, <1>13, <1>14, <1>15, <1>16 DEF CInv
-----------------------------------------------------------------------------
(* What happens beside owners' and developers' handlers.                     *)

\* While no handler moves and flows stay, the handlers keep what they hold.
LEMMA Beside ==
  ASSUME O!ConstantsOK, CInv, UNCHANGED <<demand, owner, flow, nextFlow, exchanged>>,
         \A x \in States : trip[x] = "gone" => trip'[x] = "gone",
         \A x \in States : trip'[x] # "gone" => trip[x] # "gone",
         trouble \subseteq trouble', O!TypeOK', O!LastShownOpens',
         "overlap" \notin trouble' => UNCHANGED app \/ \A r \in ORequests : ~O!Busy(r)
  PROVE  CInv'
<1>1. ASSUME NEW q \in ORequests PROVE OHandlerOK(demand[q])'
  <2>1. PICK h : h = demand[q]
    OBVIOUS
  <2>2. CASE h = O!Idle
    BY <2>1, <2>2 DEF OHandlerOK
  <2>3. CASE h # O!Idle
    <3>1. O!Busy(q) /\ h \in O!Handler /\ OwnerOK(h) /\ TripOK(h)
      BY <2>1, <2>3, OHolds DEF O!Busy
    <3>2. OwnerOK(h)'
      BY <3>1 DEF OwnerOK
    <3>3. TripOK(h)'
      <4>1. h.op = "exchange" => h.id \in States
        BY <3>1, HandlerKinds DEF OwnersOps, O!ClientOps, O!FlowOps, O!RowOps
      <4> QED
        BY <3>1, <4>1 DEF TripOK
    <3> QED
      BY <2>1, <3>2, <3>3 DEF OHandlerOK, OwnerOK, TripOK
  <2> QED
    BY <2>2, <2>3
<1>2. FlowsOK'
  BY DEF CInv, FlowsOK, O!At, O!OfTenant
<1>3. TripsOK'
  BY DEF CInv, TripsOK, O!Does, O!Busy
<1>4. AloneOK'
  <2>1. CASE UNCHANGED app
    BY <2>1 DEF CInv, AloneOK, CopyOK, O!Busy
  <2>2. CASE \A r \in ORequests : ~O!Busy(r)
    BY <2>2 DEF AloneOK, O!Busy
  <2>3. CASE "overlap" \in trouble'
    BY <2>3 DEF AloneOK
  <2> QED
    BY <2>1, <2>2, <2>3
<1> QED
  BY <1>1, <1>2, <1>3, <1>4 DEF CInv

\* Staff put a client without a secret, or delete one.
LEMMA OStaffStep ==
  ASSUME O!ConstantsOK, CInv, NEW c \in ClientIds,
         \/ \E t \in OTenants, uri \in Uris : O!StaffRegisterClient(c, t, uri)
         \/ O!StaffDeleteClient(c)
  PROVE  CInv'
<1>1. /\ UNCHANGED <<owner, settings, types, flow, nextFlow, nextSecret, demand>>
      /\ UNCHANGED <<developer, remembered, trip, exchanged>> /\ O!TypeOK
      /\ IF \E r \in ORequests : O!Busy(r) THEN O!Trouble("overlap") ELSE O!Calm
      /\ shown' = [shown EXCEPT ![c] = 0]
  BY DEF O!StaffRegisterClient, O!StaffDeleteClient, O!Workspace, O!Developers, CInv
<1>2. MaxMade \in Nat /\ MaxSecrets \in Nat /\ nextMade \in 0..MaxMade
  BY <1>1 DEF O!TypeOK, O!ConstantsOK
<1>3. PICK new \in O!Client \cup {O!NoClient} :
        /\ app' = [app EXCEPT ![c] = new] /\ nextMade' \in 0..MaxMade
        /\ new # O!NoClient => new.secret = 0
  <2>1. ASSUME NEW t \in OTenants, NEW uri \in Uris, O!StaffRegisterClient(c, t, uri)
        PROVE  \E new \in O!Client \cup {O!NoClient} :
                 /\ app' = [app EXCEPT ![c] = new] /\ nextMade' \in 0..MaxMade
                 /\ new # O!NoClient => new.secret = 0
    <3>1. nextMade' \in 0..MaxMade /\ nextMade' \in 1..MaxMade
      BY <1>2, <2>1 DEF O!StaffRegisterClient
    <3>2. PICK new : new = [tenant |-> t, secret |-> 0, uri |-> uri, made |-> nextMade']
      OBVIOUS
    <3>3. new \in O!Client /\ new.secret = 0
      BY <1>2, <3>1, <3>2 DEF O!Client, O!AllTenants
    <3> QED
      BY <2>1, <3>1, <3>2, <3>3 DEF O!StaffRegisterClient
  <2>2. CASE O!StaffDeleteClient(c)
    BY <1>2, <2>2 DEF O!StaffDeleteClient
  <2> QED
    BY <2>1, <2>2
<1>4. trouble' \subseteq O!Kinds /\ trouble \subseteq trouble'
  BY <1>1, OMishapsStay DEF O!Kinds
<1>5. /\ app' \in [ClientIds -> O!Client \cup {O!NoClient}] /\ shown' \in [ClientIds -> 0..MaxSecrets]
      /\ \A d \in ClientIds : /\ app'[d] = IF d = c THEN new ELSE app[d]
                              /\ shown'[d] = IF d = c THEN 0 ELSE shown[d]
  BY <1>1, <1>2, <1>3 DEF O!TypeOK
<1>6. O!TypeOK'
  BY <1>1, <1>3, <1>4, <1>5 DEF O!TypeOK
<1>7. O!LastShownOpens'
  BY <1>3, <1>4, <1>5 DEF CInv, O!LastShownOpens
<1>8. "overlap" \notin trouble' => \A r \in ORequests : ~O!Busy(r)
  BY <1>1 DEF O!Trouble
<1> QED
  BY <1>1, <1>4, <1>6, <1>7, <1>8, Beside

\* Developers come and go, and round trips start and lapse.
LEMMA DeveloperStep ==
  ASSUME O!ConstantsOK, CInv,
         \/ O!DevSignIn \/ O!DevLogout
         \/ \E x \in States : O!TripLapses(x) \/ \E c \in ClientIds : O!StartOIDC(x, c)
  PROVE  CInv'
<1>1. /\ UNCHANGED <<owner, settings, types, flow, nextFlow, nextSecret, nextMade, demand>>
      /\ UNCHANGED <<app, shown, remembered, exchanged>> /\ O!TypeOK
      /\ O!Calm \/ O!Trouble("fault") \/ O!Trouble("lapse")
  BY DEF O!DevSignIn, O!DevLogout, O!TripLapses, O!StartOIDC, O!Workspace, O!Clients, CInv, O!Calm
<1>2. trouble' \subseteq O!Kinds /\ trouble \subseteq trouble'
  BY <1>1, OMishapsStay DEF O!Kinds
<1>3. /\ developer' \in BOOLEAN /\ trip' \in [States -> {"none", "out", "gone"}]
      /\ \A x \in States : trip[x] = "gone" => trip'[x] = "gone"
      /\ \A x \in States : trip'[x] # "gone" => trip[x] # "gone"
  BY <1>1 DEF O!DevSignIn, O!DevLogout, O!TripLapses, O!StartOIDC, O!TypeOK
<1>4. O!TypeOK'
  BY <1>1, <1>2, <1>3 DEF O!TypeOK
<1>5. O!LastShownOpens'
  BY <1>1, <1>2, SecretsStay
<1> QED
  BY <1>1, <1>2, <1>3, <1>4, <1>5, Beside

\* A workspace gets another owner, and handlers of that owner learn of it.
LEMMA ReassignStep ==
  ASSUME O!ConstantsOK, CInv, NEW t \in OTenants, NEW e \in OEmails, O!Reassign(t, e)
  PROVE  CInv'
<1>1. /\ owner' = [owner EXCEPT ![t] = e] /\ O!TypeOK /\ trouble' = trouble
      /\ UNCHANGED <<settings, types, flow, nextFlow, nextSecret, nextMade>>
      /\ UNCHANGED <<app, shown, developer, remembered, trip, exchanged>>
  BY DEF O!Reassign, O!Clients, O!Developers, CInv
<1>2. ASSUME NEW q \in ORequests
      PROVE  \/ demand'[q] = demand[q] /\ (O!Busy(q) /\ demand[q].op \in OwnersOps
                                             => demand[q].email # e)
             \/ /\ O!Busy(q) /\ demand[q].op \in Ops /\ demand[q] \in OwnerHandler
                /\ demand[q].email = e
                /\ demand'[q] = [demand[q] EXCEPT !.rights = @ \cup {t}]
  <2>1. CASE O!Busy(q) /\ demand[q].op \in Ops /\ demand[q].email = e
    <3>1. demand[q].op \in OwnersOps
      BY <2>1 DEF O!ConstantsOK, OwnersOps
    <3>2. demand[q] \in OwnerHandler
      BY <2>1, <3>1, OHolds, HandlerKinds
    <3> QED
      BY <2>1, <3>2 DEF O!Reassign
  <2>2. CASE ~(O!Busy(q) /\ demand[q].op \in Ops /\ demand[q].email = e)
    <3>1. demand'[q] = demand[q]
      BY <2>2 DEF O!Reassign
    <3>2. O!Busy(q) /\ demand[q].op \in OwnersOps => demand[q].op \in Ops
      BY OHolds DEF OwnerOK
    <3> QED
      BY <2>2, <3>1, <3>2
  <2> QED
    BY <2>1, <2>2
<1>3. ASSUME NEW q \in ORequests
      PROVE  /\ demand'[q] \in O!Handler \cup {O!Idle}
             /\ (demand'[q] # O!Idle) <=> O!Busy(q)
             /\ O!Busy(q) => /\ demand'[q].op = demand[q].op /\ demand'[q].id = demand[q].id
             /\ O!Busy(q) => demand'[q].step = demand[q].step
             /\ O!Busy(q) /\ demand[q].op \in OwnersOps =>
                  demand'[q].at = demand[q].at /\ demand'[q].copy = demand[q].copy
             /\ OHandlerOK(demand[q])'
  <2>1. PICK h, k : h = demand[q] /\ k = demand'[q]
    OBVIOUS
  <2>2. CASE k = h /\ (h # O!Idle /\ h.op \in OwnersOps => h.email # e)
    <3>1. CASE h = O!Idle
      BY <2>1, <2>2, <3>1 DEF O!Busy, OHandlerOK
    <3>2. CASE h # O!Idle
      <4>1. O!Busy(q) /\ h \in O!Handler /\ OwnerOK(h) /\ TripOK(h)
        BY <2>1, <3>2, OHolds DEF O!Busy
      <4>2. h.op \in OwnersOps => \A u \in OTenants : owner'[u] = h.email => u \in h.rights
        BY <1>1, <2>2, <3>2, <4>1 DEF OwnerOK, O!TypeOK
      <4>3. OwnerOK(k)'
        BY <1>1, <2>2, <4>1, <4>2 DEF OwnerOK
      <4>4. TripOK(k)'
        BY <1>1, <2>2, <4>1 DEF TripOK
      <4>5. OHandlerOK(demand[q])'
        BY <2>1, <4>3, <4>4 DEF OHandlerOK, OwnerOK, TripOK
      <4> QED
        BY <2>1, <2>2, <3>2, <4>1, <4>5
    <3> QED
      BY <3>1, <3>2
  <2>3. CASE h # O!Idle /\ h \in OwnerHandler /\ k = [h EXCEPT !.rights = @ \cup {t}] /\ h.email = e
    <3>1. O!Busy(q) /\ h \in O!Handler /\ OwnerOK(h)
      BY <2>1, <2>3, OHolds DEF O!Busy
    <3>2. /\ k \in OwnerHandler /\ k.op = h.op /\ k.step = h.step /\ k.at = h.at
          /\ k.email = h.email /\ k.rights = h.rights \cup {t} /\ k.id = h.id
          /\ k.arg = h.arg /\ k.copy = h.copy
      BY <2>3 DEF OwnerHandler
    <3>3. k \in O!Handler /\ k # O!Idle /\ k.op # "exchange" /\ k.op \in OwnersOps
      <4>1. k \in O!Handler
        BY <3>2 DEF O!Handler, OwnerHandler, OwnersOps
      <4>2. k.op \in OwnersOps /\ k.op # "exchange"
        BY <3>2 DEF OwnerHandler, OwnersOps, O!ClientOps, O!FlowOps, O!RowOps
      <4> QED
        BY <4>1, <4>2, HandlerKinds
    <3>4. \A u \in OTenants : owner'[u] = k.email => u \in k.rights
      BY <1>1, <3>1, <3>2, <3>3 DEF OwnerOK, O!TypeOK
    <3>5. OwnerOK(k)'
      BY <1>1, <3>1, <3>2, <3>3, <3>4 DEF OwnerOK
    <3>6. OHandlerOK(demand[q])'
      BY <2>1, <3>3, <3>5 DEF OHandlerOK, OwnerOK, TripOK
    <3> QED
      BY <2>1, <3>1, <3>2, <3>3, <3>6
  <2> QED
    BY <1>2, <2>1, <2>2, <2>3 DEF O!Busy
<1>4. O!TypeOK'
  <2>1. demand' = [q \in ORequests |-> demand'[q]]
    BY DEF O!Reassign
  <2>2. demand' \in [ORequests -> O!Handler \cup {O!Idle}]
    BY <1>3, <2>1
  <2>3. owner' \in [OTenants -> OEmails]
    BY <1>1 DEF O!TypeOK
  <2> QED
    BY <1>1, <2>2, <2>3 DEF O!TypeOK
<1>5. FlowsOK'
  <2>1. ASSUME NEW q \in ORequests, O!At(q, "upsert")'
        PROVE  /\ O!At(q, "upsert") /\ demand'[q].id = demand[q].id
               /\ demand'[q].at = demand[q].at
    <3>1. O!Busy(q) /\ O!At(q, "upsert") /\ demand'[q].id = demand[q].id
      BY <1>3, <2>1 DEF O!At, O!Idle, O!Busy
    <3>2. demand[q].op \in OwnersOps
      BY <3>1, HoldsFlow DEF OwnerHandler
    <3> QED
      BY <1>3, <3>1, <3>2
  <2> QED
    BY <1>1, <2>1 DEF CInv, FlowsOK, O!OfTenant
<1>6. TripsOK'
  <2>1. \A q \in ORequests : O!Does(q, "exchange")' => O!Does(q, "exchange")
                                                    /\ demand'[q].id = demand[q].id
    BY <1>3 DEF O!Does, O!Busy
  <2> QED
    BY <1>1, <2>1 DEF CInv, TripsOK
<1>7. AloneOK'
  <2> SUFFICES ASSUME "overlap" \notin trouble'
               PROVE  /\ \A p, q \in ORequests : O!Busy(p)' /\ O!Busy(q)' => p = q
                      /\ \A q \in ORequests : O!Busy(q)' => CopyOK(demand[q])'
    BY DEF AloneOK
  <2>1. \A p, q \in ORequests : O!Busy(p)' /\ O!Busy(q)' => p = q
    BY <1>1, <1>3 DEF CInv, AloneOK, O!Busy
  <2>2. ASSUME NEW q \in ORequests, O!Busy(q)' PROVE CopyOK(demand[q])'
    <3>1. PICK h, k : h = demand[q] /\ k = demand'[q]
      OBVIOUS
    <3>2. O!Busy(q) /\ k.op = h.op /\ k.id = h.id /\ k.step = h.step /\ CopyOK(h)
      BY <1>1, <1>3, <2>2, <3>1 DEF CInv, AloneOK, O!Busy
    <3>3. h.step = "put" /\ h.op # "register" => h.op \in OwnersOps
      <4>1. h \in O!Handler
        BY <3>1, <3>2, OHolds
      <4> QED
        BY <4>1, HandlerKinds
    <3>4. h.step = "put" /\ h.op # "register" => k.copy = h.copy
      BY <1>3, <3>1, <3>2, <3>3
    <3> QED
      BY <1>1, <3>1, <3>2, <3>4 DEF CopyOK
  <2> QED
    BY <2>1, <2>2
<1>8. O!LastShownOpens'
  BY <1>1, SecretsStay
<1> QED
  BY <1>3, <1>4, <1>5, <1>6, <1>7, <1>8 DEF CInv

\* A restart ends every handler and every round trip under way.
LEMMA ORestartStep == ASSUME O!ConstantsOK, CInv, O!Restart PROVE CInv'
<1>1. /\ UNCHANGED <<owner, settings, types, flow, nextFlow, nextSecret, nextMade>>
      /\ UNCHANGED <<app, shown, developer, exchanged>> /\ O!TypeOK /\ remembered' = {}
      /\ demand' = [r \in ORequests |-> O!Idle]
      /\ trip' = [x \in States |-> IF trip[x] = "out" THEN "gone" ELSE trip[x]]
  BY DEF O!Restart, O!Workspace, O!Clients, CInv
<1>2. trouble' \subseteq O!Kinds /\ trouble \subseteq trouble'
  BY OMishapsStay DEF O!Restart, O!Kinds
<1>3. O!TypeOK'
  BY <1>1, <1>2 DEF O!TypeOK
<1>4. \A q \in ORequests : ~O!Busy(q)' /\ ~O!At(q, "upsert")' /\ OHandlerOK(demand[q])'
  BY <1>1 DEF O!Busy, O!At, O!Idle, OHandlerOK
<1>5. FlowsOK'
  BY <1>1, <1>4 DEF CInv, FlowsOK, O!OfTenant
<1>6. TripsOK'
  BY <1>1, <1>4 DEF CInv, TripsOK, O!Does
<1>7. AloneOK'
  BY <1>4 DEF AloneOK
<1>8. O!LastShownOpens'
  BY <1>1, <1>2, SecretsStay
<1> QED
  BY <1>3, <1>4, <1>5, <1>6, <1>7, <1>8 DEF CInv
-----------------------------------------------------------------------------
(* The invariant of the specification.                                       *)

\* It holds at first.
LEMMA InitInv == ASSUME O!ConstantsOK, O!Init PROVE CInv
<1>1. {NumFlows, MaxMade, MaxSecrets} \subseteq Nat
  BY DEF O!ConstantsOK
<1>2. O!TypeOK
  <2>1. settings \in [OTenants -> SUBSET Settings] /\ types \subseteq OTenants \X TypeNames
    BY DEF O!Init
  <2>2. flow \in [O!FlowIds -> O!Flow \cup {O!NoFlow}] /\ app \in [ClientIds -> O!Client \cup {O!NoClient}]
    BY DEF O!Init
  <2>3. nextFlow \in 0..NumFlows /\ nextMade \in 0..MaxMade /\ nextSecret \in 0..MaxSecrets
    BY <1>1 DEF O!Init
  <2>4. trip \in [States -> {"none", "out", "gone"}] /\ demand \in [ORequests -> O!Handler \cup {O!Idle}]
    BY DEF O!Init
  <2>5. shown \in [ClientIds -> 0..MaxSecrets] /\ exchanged \in [States -> Nat]
    BY <1>1 DEF O!Init
  <2> QED
    BY <2>1, <2>2, <2>3, <2>4, <2>5 DEF O!Init, O!TypeOK
<1>3. \A q \in ORequests : ~O!Busy(q) /\ ~O!At(q, "upsert") /\ OHandlerOK(demand[q])
  BY DEF O!Init, O!Busy, O!At, O!Idle, OHandlerOK
<1>4. FlowsOK
  BY <1>3 DEF O!Init, FlowsOK, O!OfTenant
<1>5. TripsOK
  BY <1>3 DEF O!Init, TripsOK, O!Does
<1>6. AloneOK
  BY <1>3 DEF AloneOK
<1>7. O!LastShownOpens
  BY DEF O!Init, O!LastShownOpens
<1> QED
  BY <1>2, <1>3, <1>4, <1>5, <1>6, <1>7 DEF CInv

\* Nothing happens.
LEMMA Stutter == ASSUME O!ConstantsOK, CInv, UNCHANGED O!vars PROVE CInv'
<1>1. O!TypeOK'
  BY DEF CInv, O!TypeOK, O!vars
<1>2. O!LastShownOpens'
  BY SecretsStay DEF O!vars
<1> QED
  BY <1>1, <1>2, Beside DEF O!vars

\* Every step keeps it.
LEMMA NextInv == ASSUME O!ConstantsOK, CInv, [O!Next]_O!vars PROVE CInv'
<1>1. ASSUME NEW r \in ORequests, O!Step(r) PROVE CInv'
  <2>1. O!Busy(r)
    BY <1>1 DEF O!Step
  <2> QED
    BY <1>1, <2>1, OCurrentOwnerStep, TenantClientStep, RegenerateSecretStep, UpdateClientStep,
       EditStep, NewFlowStep, GetFlowStep, UpsertFlowStep, DeleteFlowStep, DevLookupStep,
       DevPutStep, ExchangeCodeStep DEF O!Step
<1>2. ASSUME NEW r \in ORequests, NEW op \in Ops, NEW e \in OEmails, NEW t \in OTenants,
             NEW id \in O!Ids(op), NEW arg \in O!Args(op), O!OwnerRequest(r, op, e, t, id, arg)
      PROVE  CInv'
  BY <1>2, OwnerRequestStep
<1>3. ASSUME NEW c \in ClientIds, NEW t \in OTenants, NEW uri \in Uris,
             O!StaffRegisterClient(c, t, uri)
      PROVE  CInv'
  BY <1>3, OStaffStep
<1>4. ASSUME NEW c \in ClientIds, O!StaffDeleteClient(c) PROVE CInv'
  BY <1>4, OStaffStep
<1>5. ASSUME NEW t \in OTenants, NEW e \in OEmails, O!Reassign(t, e) PROVE CInv'
  BY <1>5, ReassignStep
<1>6. CASE O!DevSignIn \/ O!DevLogout
  BY <1>6, DeveloperStep
<1>7. ASSUME NEW r \in ORequests, NEW c \in ClientIds, NEW uri \in Uris, O!DevRegister(r, c, uri)
      PROVE  CInv'
  BY <1>7, DevRegisterStep
<1>8. ASSUME NEW x \in States, NEW c \in ClientIds, O!StartOIDC(x, c) PROVE CInv'
  BY <1>8, DeveloperStep
<1>9. ASSUME NEW r \in ORequests, NEW x \in States, O!OIDCCallback(r, x) PROVE CInv'
  BY <1>9, OIDCCallbackStep
<1>10. ASSUME NEW x \in States, O!TripLapses(x) PROVE CInv'
  BY <1>10, DeveloperStep
<1>11. CASE O!Restart
  BY <1>11, ORestartStep
<1>12. CASE UNCHANGED O!vars
  BY <1>12, Stutter
<1> QED
  BY <1>1, <1>2, <1>3, <1>4, <1>5, <1>6, <1>7, <1>8, <1>9, <1>10, <1>11, <1>12 DEF O!Next
-----------------------------------------------------------------------------
(* Who may change rows.                                                      *)

\* Which steps leave the rows of workspaces alone.
LEMMA RowsQuiet ==
  ASSUME [O!Next]_O!vars,
         \A r \in ORequests :
           ~(O!Busy(r) /\ (O!EditSettings(r) \/ O!EditTypes(r) \/ O!UpsertFlow(r) \/ O!DeleteFlow(r)))
  PROVE  UNCHANGED <<settings, types, flow>>
<1>1. ASSUME NEW r \in ORequests, O!Step(r) PROVE UNCHANGED <<settings, types, flow>>
  BY <1>1 DEF O!Step, O!CurrentOwner, O!TenantClient, O!RegenerateSecret, O!UpdateClient, O!NewFlow,
     O!GetFlow, O!DevLookup, O!DevPut, O!ExchangeCode, O!Workspace
<1> QED
  BY <1>1 DEF O!Next, O!vars, O!Workspace, O!OwnerRequest, O!StaffRegisterClient, O!StaffDeleteClient,
     O!Reassign, O!DevSignIn, O!DevLogout, O!DevRegister, O!StartOIDC, O!OIDCCallback, O!TripLapses, O!Restart

\* Rows of a workspace are changed by a handler whose sender owned it.
LEMMA RowsStep == ASSUME O!ConstantsOK, CInv, [O!Next]_O!vars PROVE O!RowsEntitled
<1>1. ASSUME NEW r \in ORequests, O!Busy(r), O!EditSettings(r) \/ O!EditTypes(r)
      PROVE  O!RowsEntitled
  <2>1. PICK h : h = demand[r]
    OBVIOUS
  <2>2. h \in O!Handler /\ OwnerOK(h) /\ h.step = "row" /\ UNCHANGED flow /\ O!Answer(r)
    BY <1>1, <2>1, OHolds DEF O!EditSettings, O!EditTypes, O!At
  <2>3. h.op \in OwnersOps
    BY <2>2, HandlerKinds
  <2>4. demand'[r] = O!Idle
    BY <2>2 DEF O!Answer, O!Go, CInv, O!TypeOK
  <2>5. O!Acting(r, h.at)
    BY <1>1, <2>1, <2>2, <2>3, <2>4 DEF O!Acting, OwnerOK
  <2>6. ASSUME NEW t \in OTenants, settings'[t] # settings[t] PROVE t = h.at
    BY <1>1, <2>1, <2>6 DEF O!EditSettings, O!EditTypes, O!SetTenant, CInv, O!TypeOK
  <2>7. ASSUME NEW t \in OTenants, {n \in TypeNames : <<t, n>> \in types'}
                                    # {n \in TypeNames : <<t, n>> \in types}
        PROVE  t = h.at
    <3>1. PICK n \in TypeNames : ~(<<t, n>> \in types' <=> <<t, n>> \in types)
      BY <2>7
    <3>2. \/ UNCHANGED types \/ types' = types \cup {<<h.at, h.arg>>}
          \/ types' = types \ {<<h.at, h.arg>>}
      BY <1>1, <2>1 DEF O!EditSettings, O!EditTypes, O!PutType
    <3>3. <<t, n>> = <<h.at, h.arg>>
      BY <3>1, <3>2
    <3> QED
      BY <3>3
  <2> QED
    BY <2>2, <2>5, <2>6, <2>7 DEF O!RowsEntitled
<1>2. ASSUME NEW r \in ORequests, O!Busy(r), O!UpsertFlow(r) \/ O!DeleteFlow(r)
      PROVE  O!RowsEntitled
  <2>1. PICK h : h = demand[r]
    OBVIOUS
  <2>2. h \in O!Handler /\ OwnerOK(h) /\ UNCHANGED <<settings, types>> /\ O!Answer(r) /\ O!TypeOK
    BY <1>2, <2>1, OHolds DEF O!UpsertFlow, O!DeleteFlow, CInv
  <2>3. h.op \in OwnersOps /\ h.step # "tenant"
    <3>1. h.step \in {"flow", "upsert"}
      BY <1>2, <2>1 DEF O!UpsertFlow, O!DeleteFlow, O!At
    <3> QED
      BY <2>2, <3>1, HandlerKinds
  <2>4. demand'[r] = O!Idle
    BY <2>2 DEF O!Answer, O!Go, O!TypeOK
  <2>5. O!Acting(r, h.at)
    BY <1>2, <2>1, <2>2, <2>3, <2>4 DEF O!Acting, OwnerOK
  <2>6. ASSUME NEW f \in O!FlowIds, flow'[f] # flow[f], NEW row \in {flow[f], flow'[f]}, row # O!NoFlow
        PROVE  row.tenant = h.at
    <3>1. CASE O!DeleteFlow(r)
      BY <2>1, <2>2, <2>6, <3>1 DEF O!DeleteFlow, O!OfTenant, O!TypeOK
    <3>2. CASE O!UpsertFlow(r)
      <4>1. PICK id, def : id = h.id /\ def = h.copy
        OBVIOUS
      <4>2. /\ def \in O!Flow /\ def.tenant = h.at /\ id \in 1..nextFlow
            /\ flow[id] = O!NoFlow \/ flow[id].tenant = h.at
        BY <1>2, <2>1, <3>2, <4>1, HoldsFlow DEF O!UpsertFlow
      <4>3. id \in O!FlowIds
        BY <2>2, <4>2 DEF O!TypeOK, O!ConstantsOK, O!FlowIds
      <4>4. flow' = O!Upserted(id, def)
        BY <2>1, <2>6, <3>2, <4>1 DEF O!UpsertFlow
      <4>5. /\ flow'[id] = def
            /\ \A g \in O!FlowIds \ {id} :
                 /\ flow[g] # O!NoFlow => flow'[g].tenant = flow[g].tenant
                 /\ flow'[g] # flow[g] => flow[g] # O!NoFlow /\ flow[g].tenant = def.tenant
        BY <2>2, <4>2, <4>3, <4>4, Upserting
      <4>6. CASE f = id
        BY <2>6, <4>2, <4>5, <4>6
      <4>7. CASE f # id
        BY <2>6, <4>2, <4>5, <4>7
      <4> QED
        BY <4>6, <4>7
    <3> QED
      BY <1>2, <3>1, <3>2
  <2> QED
    BY <2>2, <2>5, <2>6 DEF O!RowsEntitled
<1>3. CASE \A r \in ORequests :
             ~(O!Busy(r) /\ (O!EditSettings(r) \/ O!EditTypes(r) \/ O!UpsertFlow(r) \/ O!DeleteFlow(r)))
  BY <1>3, RowsQuiet DEF O!RowsEntitled
<1> QED
  BY <1>1, <1>2, <1>3

\* A handler changes the client of a workspace its sender owned, or puts a new one.
LEMMA ClientsStep == ASSUME O!ConstantsOK, CInv, [O!Next]_O!vars PROVE O!ClientsEntitled
<1>1. ASSUME NEW r \in ORequests, O!Busy(r), O!RegenerateSecret(r) \/ O!UpdateClient(r)
      PROVE  O!ClientsEntitled
  <2>1. PICK h : h = demand[r]
    OBVIOUS
  <2>2. h \in OwnerHandler /\ h.copy \in O!Client /\ h.id \in ClientIds /\ h.copy.tenant = h.at
        /\ h.at \in h.rights
    <3>1. O!At(r, "put") /\ demand[r].op \in O!ClientOps
      BY <1>1 DEF O!RegenerateSecret, O!UpdateClient, O!ClientOps
    <3> QED
      BY <1>1, <2>1, <3>1, HoldsClient
  <2>3. h.op \in Ops /\ O!Answer(r)
    BY <1>1, <2>1, OHolds DEF O!RegenerateSecret, O!UpdateClient, OwnerOK, OwnersOps, O!ClientOps
  <2>4. demand'[r] = O!Idle
    BY <2>3 DEF O!Answer, O!Go, CInv, O!TypeOK
  <2>5. O!Acting(r, h.at)
    BY <1>1, <2>1, <2>2, <2>3, <2>4 DEF O!Acting
  <2>6. ASSUME NEW c \in ClientIds, app'[c] # app[c]
        PROVE  app'[c] # O!NoClient /\ app'[c].tenant = h.at
    <3>1. PICK new : /\ new = [h.copy EXCEPT !.secret = nextSecret']
                       \/ new = [h.copy EXCEPT !.uri = h.arg]
                     /\ app' = [app EXCEPT ![h.id] = new]
      BY <1>1, <2>1, <2>6 DEF O!RegenerateSecret, O!UpdateClient, O!Edited
    <3>2. new.tenant = h.at /\ new.made = h.copy.made
      BY <2>2, <3>1 DEF O!Client
    <3>3. new # O!NoClient
      BY <2>2, <3>2 DEF O!Client, O!NoClient
    <3>4. app'[c] = new
      BY <2>2, <2>6, <3>1 DEF CInv, O!TypeOK
    <3> QED
      BY <3>2, <3>3, <3>4
  <2> QED
    BY <2>5, <2>6 DEF O!ClientsEntitled
<1>2. ASSUME NEW r \in ORequests, O!Busy(r), O!DevPut(r)
      PROVE  O!ClientsEntitled
  <2>1. PICK h : h = demand[r]
    OBVIOUS
  <2>2. O!Does(r, "register") /\ h.op = "register" /\ h.step = "put"
    BY <1>2, <2>1 DEF O!DevPut, O!Does, O!At
  <2>3. "overlap" \in trouble \/ app[h.id] = O!NoClient
    BY <1>2, <2>1, <2>2 DEF CInv, AloneOK, CopyOK
  <2>4. ASSUME NEW c \in ClientIds, app'[c] # app[c] PROVE c = h.id
    BY <1>2, <2>1, <2>4 DEF O!DevPut, CInv, O!TypeOK
  <2> QED
    BY <2>2, <2>3, <2>4 DEF O!ClientsEntitled
<1>3. CASE \A r \in ORequests :
             ~(O!Busy(r) /\ (O!RegenerateSecret(r) \/ O!UpdateClient(r) \/ O!DevPut(r)))
  <2>1. ASSUME NEW r \in ORequests, O!Step(r) PROVE UNCHANGED app
    BY <1>3, <2>1 DEF O!Step, O!CurrentOwner, O!TenantClient, O!EditSettings, O!EditTypes, O!NewFlow,
       O!GetFlow, O!UpsertFlow, O!DeleteFlow, O!DevLookup, O!ExchangeCode, O!Clients
  <2>2. UNCHANGED app \/ UNCHANGED demand
    BY <2>1 DEF O!Next, O!vars, O!Clients, O!OwnerRequest, O!StaffRegisterClient, O!StaffDeleteClient,
       O!Reassign, O!DevSignIn, O!DevLogout, O!DevRegister, O!StartOIDC, O!OIDCCallback, O!TripLapses, O!Restart
  <2> QED
    BY <2>2 DEF O!ClientsEntitled
<1> QED
  BY <1>1, <1>2, <1>3
-----------------------------------------------------------------------------
\* The variables keep their types and handlers hold what they rely on in every
\* behaviour of the consoles (signup_console.go, admin_console.go, dev_console.go).
THEOREM ConsolesInvariant == ASSUME O!ConstantsOK PROVE O!Spec => []CInv
<1>1. O!Init => CInv
  BY InitInv
<1>2. CInv /\ [O!Next]_O!vars => CInv'
  BY NextInv
<1> QED
  BY <1>1, <1>2, PTL DEF O!Spec

\* An owner's request changes rows only of a workspace its sender owned at some time
\* since it began (currentOwner, GetFlow, UpsertFlow).
THEOREM RowsOfTheEntitled == ASSUME O!ConstantsOK PROVE O!Spec => [][O!RowsEntitled]_O!vars
<1>1. CInv /\ [O!Next]_O!vars => [O!RowsEntitled]_O!vars
  BY RowsStep
<1> QED
  BY <1>1, ConsolesInvariant, PTL DEF O!Spec

\* The same of clients; and one request at a time a developer takes no client that
\* exists (tenantClient, RegenerateSecret, UpdateClient, RegisterClient).
THEOREM ClientsOfTheEntitled == ASSUME O!ConstantsOK PROVE O!Spec => [][O!ClientsEntitled]_O!vars
<1>1. CInv /\ [O!Next]_O!vars => [O!ClientsEntitled]_O!vars
  BY ClientsStep
<1> QED
  BY <1>1, ConsolesInvariant, PTL DEF O!Spec

\* Consoles counts as FiniteSets does.
LEMMA SameCardinality == \A S : O!Cardinality(S) = Cardinality(S)
BY Zenon DEF O!Cardinality, Cardinality

\* A workspace has one enabled flow at most, however saves, switches and deletions of
\* its owners interleave (UpsertFlow's transaction).
THEOREM FlowsOneEnabled == ASSUME O!ConstantsOK PROVE O!Spec => []O!OneEnabledFlow
<1>1. ASSUME CInv, NEW t \in OTenants
      PROVE  Cardinality({f \in O!FlowIds : O!OfTenant(f, t) /\ flow[f].enabled}) <= 1
  <2>1. PICK on : on = {f \in O!FlowIds : O!OfTenant(f, t) /\ flow[f].enabled}
    OBVIOUS
  <2>2. CASE on = {}
    BY <2>1, <2>2, FS_EmptySet
  <2>3. ASSUME NEW f \in on PROVE Cardinality(on) = 1
    <3>1. on = {f}
      BY <1>1, <2>1 DEF CInv, FlowsOK
    <3> QED
      BY <3>1, FS_Singleton
  <2> QED
    BY <2>1, <2>2, <2>3
<1>2. CInv => O!OneEnabledFlow
  BY <1>1, SameCardinality DEF O!OneEnabledFlow
<1> QED
  BY <1>2, ConsolesInvariant, PTL

\* One request at a time, with every answer heard, the secret an owner was shown last
\* is the one the client has (RegenerateSecret).
THEOREM ShownSecretsOpen == ASSUME O!ConstantsOK PROVE O!Spec => []O!LastShownOpens
<1>1. CInv => O!LastShownOpens
  BY DEF CInv
<1> QED
  BY <1>1, ConsolesInvariant, PTL

\* A developer's round trip goes to /token once at most (takeOIDCFlow).
THEOREM TripsExchangedOnce == ASSUME O!ConstantsOK PROVE O!Spec => []O!TripExchangedOnce
<1>1. CInv => O!TripExchangedOnce
  BY DEF CInv, TripsOK, O!TripExchangedOnce
<1> QED
  BY <1>1, ConsolesInvariant, PTL
=============================================================================
