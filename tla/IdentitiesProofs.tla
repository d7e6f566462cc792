--------------------------- MODULE IdentitiesProofs ---------------------------
(***************************************************************************)
(* Theorems about Identities, for any number of accounts, numbers, flows   *)
(* and overlapping requests.                                               *)
(*                                                                         *)
(* The argument: the properties speak of sessions, wrong codes and rows    *)
(* that are written; each is decided earlier, by what a handler took with  *)
(* it when it started.  So the invariant says what every handler holds: a  *)
(* state nonce nobody else has, the account its number is anchored to, the *)
(* count of tries of a flow nobody else is on, a number that is free to be *)
(* set.  The last two hold of a handler that is alone.                     *)
(*                                                                         *)
(* After them, the theorems about the modules Verifications (V) and        *)
(* Delegation (D), instances with constants and variables of their own:    *)
(* they have nothing in common with Identities but the library they use.   *)
(***************************************************************************)
EXTENDS Identities, SequenceTheorems, TLAPS

Quiet == mishaps \cap {"fault", "restart", "removed", "overlap"} = {}

\* The histories have the types of what they count.
HistoriesOK ==
  /\ born \in 0..NumUsers
  /\ started \in [1..2 -> Nat] /\ started[1] <= NumFlows /\ started[2] <= NumStates
  /\ guesses \in [FlowIds -> Nat] /\ bought \in [States -> Nat]
  /\ logins \subseteq Phones \X Users /\ freed \subseteq Phones

\* What a handler holds, by its next call.
Wired(h) ==
  /\ h.step \in {"check", "miss", "hit"} =>
       /\ h.flow \in FlowIds /\ h.flow <= started[1]
       /\ h.phone \in Phones /\ h.value = NoValue
  /\ h.step \in {"anchor", "load", "bind", "rollback", "clear", "set"} =>
       h.phone \in Phones /\ h.value = NoValue
  /\ h.step \in {"load", "bind", "rollback", "session", "restart", "linkload", "linkwrite",
                 "unlink", "patch", "clear", "set", "mdlclear", "mdlset"} => h.user \in Users
  /\ h.step \in {"profile", "byEmail"} => h.phone = NoValue /\ h.state \in States
  /\ h.step = "create" /\ h.phone # NoValue => h.value = NoValue
  /\ h.step \in {"create", "session"} /\ h.phone = NoValue => h.state \in States
  /\ h.step = "byEmail" \/ (h.step = "create" /\ h.phone = NoValue) => h.value \in Emails
  /\ h.step \in {"linkload", "linkwrite"} => h.value \in Emails
  /\ h.step = "patch" => h.value \in Emails \cup {NoValue}
  /\ h.step \in {"mdlclear", "mdlset"} => h.value \in Issuers

\* A number's account, as long as no owner takes the number away.
Named(p, u) == p \in freed \/ owner[p] = u
NumberOK(h) == h.step \in {"load", "session"} /\ h.phone # NoValue => Named(h.phone, h.user)
Numbers ==
  /\ \A l \in logins : Named(l[1], l[2])
  /\ \A r \in Requests : NumberOK(request[r])

\* A state nonce is not handed out yet, pending, carried by one callback, or gone.
Carries(h, n) ==
  h.step \in {"profile", "byEmail", "create", "session"} /\ h.phone = NoValue /\ h.state = n
Nonces ==
  \A n \in States :
    /\ bought[n] <= 1
    /\ n > started[2] => bought[n] = 0 /\ n \notin pending
    /\ n \in pending => bought[n] = 0
    /\ \A r \in Requests :
         Carries(request[r], n) =>
           /\ bought[n] = 0 /\ n \notin pending /\ n <= started[2]
           /\ \A q \in Requests : Carries(request[q], n) => q = r

Fresh == \A f \in FlowIds : f > started[1] => flow[f] = NoFlow /\ guesses[f] = 0
Solo == "overlap" \notin mishaps => \A r, q \in Requests : Busy(r) /\ Busy(q) => r = q

\* A handler that is alone carries the count of its flow.
GuessOK(h) ==
  /\ h.step \in {"check", "miss"} => h.tries < MaxOTP
  /\ h.step = "check" => guesses[h.flow] = h.tries
  /\ h.step = "miss" => guesses[h.flow] = h.tries + 1
Missing(f) == \E r \in Requests : request[r].step = "miss" /\ request[r].flow = f
Guesses ==
  "overlap" \notin mishaps =>
    /\ \A r \in Requests : GuessOK(request[r])
    /\ \A f \in FlowIds :
         /\ guesses[f] <= MaxOTP
         /\ flow[f] # NoFlow /\ ~Missing(f) =>
              guesses[f] = flow[f].tries /\ flow[f].tries < MaxOTP

\* An account without a way in is about to get one, or to be removed.
Expected(u) ==
  \E r \in Requests :
    request[r].step \in {"bind", "rollback", "set"} /\ request[r].user = u
HomeOK(h) ==
  /\ h.step = "clear" => owner[h.phone] \in {Nobody, h.user}
  /\ h.step = "set" => owner[h.phone] = Nobody
  /\ h.step = "patch" /\ h.value = NoValue => Held(h.user) # {}
Homes ==
  Quiet =>
    /\ \A r \in Requests : HomeOK(request[r])
    /\ \A u \in Users : Exists(u) => Reachable(u) \/ Expected(u)

IdInv ==
  /\ TypeOK /\ HistoriesOK
  /\ \A r \in Requests : Wired(request[r])
  /\ Numbers /\ Nonces /\ Fresh /\ Solo /\ Guesses /\ Homes

-----------------------------------------------------------------------------
\* The bounds are numbers, and the absent email is apart.
LEMMA NumbersAre ==
  ASSUME ConstantsOK
  PROVE  /\ NumUsers \in Nat /\ NumFlows \in Nat /\ NumStates \in Nat
         /\ MaxOTP \in Nat /\ MaxOTP >= 1 /\ Reusable \in BOOLEAN
         /\ NoValue \notin Phones /\ NoValue \notin Emails /\ NoValue # "none"
         /\ "none" \notin Emails
BY DEF ConstantsOK

\* Who has a call to make is a handler.
LEMMA AtHandler ==
  ASSUME TypeOK, NEW r \in Requests, request[r].step # "idle"
  PROVE  request[r] \in Handler /\ Busy(r)
BY DEF TypeOK, Busy, Idle

\* A handler is not idle.
LEMMA HandlerBusy ==
  ASSUME NEW h \in Handler
  PROVE  h # Idle /\ h.step # "idle"
<1>1. h.step # "idle"
  BY DEF Handler
<1> QED
  BY <1>1 DEF Idle

\* An idle handler holds nothing.
LEMMA IdleHolds ==
  /\ Idle.step = "idle" /\ Wired(Idle) /\ NumberOK(Idle) /\ HomeOK(Idle) /\ GuessOK(Idle)
  /\ Wired(Idle)' /\ NumberOK(Idle)' /\ HomeOK(Idle)' /\ GuessOK(Idle)'
  /\ \A n \in States : ~Carries(Idle, n)
<1>1. Idle.step = "idle"
  BY DEF Idle
<1> QED
  BY <1>1 DEF Wired, NumberOK, HomeOK, GuessOK, Carries

\* A request that moves is the only one that does.
LEMMA Moves ==
  ASSUME TypeOK, NEW r \in Requests, NEW h \in Handler \cup {Idle}, Go(r, h)
  PROVE  /\ request' \in [Requests -> Handler \cup {Idle}]
         /\ request'[r] = h
         /\ \A q \in Requests : q # r => request'[q] = request[q]
BY DEF TypeOK, Go

\* The initial states satisfy the invariant.
LEMMA InitInv == ASSUME ConstantsOK PROVE Init => IdInv
<1> SUFFICES ASSUME Init PROVE IdInv
  OBVIOUS
<1>1. \A r \in Requests : request[r] = Idle
  BY DEF Init
<1>2. TypeOK
  BY NumbersAre DEF Init, TypeOK
<1>3. HistoriesOK
  <2>1. started \in [1..2 -> Nat] /\ started[1] = 0 /\ started[2] = 0
    BY DEF Init
  <2> QED
    BY <2>1, NumbersAre DEF Init, HistoriesOK
<1>4. \A r \in Requests : Wired(request[r])
  BY <1>1, IdleHolds
<1>5. Numbers
  BY <1>1, IdleHolds DEF Numbers, Init
<1>6. Nonces
  BY <1>1, IdleHolds DEF Nonces, Init
<1>7. Fresh
  BY DEF Fresh, Init
<1>8. Solo
  BY <1>1 DEF Solo, Busy
<1>9. Guesses
  BY <1>1, IdleHolds, NumbersAre DEF Guesses, Init
<1>10. Homes
  BY <1>1, IdleHolds DEF Homes, Init, Exists
<1> QED
  BY <1>2, <1>3, <1>4, <1>5, <1>6, <1>7, <1>8, <1>9, <1>10 DEF IdInv

-----------------------------------------------------------------------------
(* What each part of the invariant survives.                                 *)

\* A flow that was handed out stays so.
LEMMA WiredStays ==
  ASSUME HistoriesOK, HistoriesOK', NEW h \in Handler \cup {Idle},
         started[1] <= started'[1], Wired(h)
  PROVE  Wired(h)'
<1>1. CASE h.step \in {"check", "miss", "hit"}
  <2>1. h.flow <= started'[1]
    BY <1>1 DEF Wired, FlowIds, HistoriesOK
  <2> QED
    BY <1>1, <2>1 DEF Wired
<1>2. CASE h.step \notin {"check", "miss", "hit"}
  BY <1>2 DEF Wired
<1> QED
  BY <1>1, <1>2

\* Numbers change hands only when an owner takes them away.
OwnersKept ==
  /\ freed \subseteq freed'
  /\ \A p \in Phones : owner[p] # Nobody => owner'[p] = owner[p] \/ p \in freed'

\* A number's account stays its account.
LEMMA NamedStays ==
  ASSUME NEW p \in Phones, NEW u \in Users, OwnersKept, Named(p, u)
  PROVE  Named(p, u)'
BY DEF Named, OwnersKept, Users, Nobody

\* What a handler says of its number stays true.
LEMMA NumberStays ==
  ASSUME NEW h \in Handler \cup {Idle}, Wired(h), OwnersKept, NumberOK(h)
  PROVE  NumberOK(h)'
<1>1. CASE h.step \in {"load", "session"} /\ h.phone # NoValue
  <2>1. h \in Handler
    BY <1>1, IdleHolds
  <2>2. h.phone \in Phones /\ h.user \in Users
    BY <1>1, <2>1 DEF Wired, Handler
  <2> QED
    BY <1>1, <2>2, NamedStays DEF NumberOK
<1>2. CASE ~(h.step \in {"load", "session"} /\ h.phone # NoValue)
  BY <1>2 DEF NumberOK
<1> QED
  BY <1>1, <1>2

\* Sessions opened by phone stay with their accounts.
LEMMA LoginsStay ==
  ASSUME HistoriesOK, OwnersKept, \A l \in logins : Named(l[1], l[2])
  PROVE  \A l \in logins : Named(l[1], l[2])'
<1> SUFFICES ASSUME NEW l \in logins PROVE Named(l[1], l[2])'
  OBVIOUS
<1>1. l[1] \in Phones /\ l[2] \in Users
  BY DEF HistoriesOK
<1> QED
  BY <1>1, NamedStays

\* Numbers, when a handler moves.
LEMMA NumbersMove ==
  ASSUME IdInv, NEW r \in Requests, NEW h \in Handler \cup {Idle}, Go(r, h),
         OwnersKept, logins' = logins, NumberOK(h)'
  PROVE  Numbers'
<1>1. \A l \in logins' : Named(l[1], l[2])'
  BY LoginsStay DEF IdInv, Numbers
<1>2. ASSUME NEW q \in Requests PROVE NumberOK(request[q])'
  <2>1. CASE q = r
    BY <2>1, Moves DEF IdInv
  <2>2. CASE q # r
    <3> PICK g : g = request[q] /\ g = request'[q]
      BY <2>2, Moves DEF IdInv
    <3>1. g \in Handler \cup {Idle} /\ Wired(g) /\ NumberOK(g)
      BY DEF IdInv, TypeOK, Numbers
    <3>2. NumberOK(g)'
      BY <3>1, NumberStays
    <3> QED
      BY <3>2 DEF NumberOK, Named
  <2> QED
    BY <2>1, <2>2
<1> QED
  BY <1>1, <1>2 DEF Numbers

\* Numbers, when no handler moves.
LEMMA NumbersRest ==
  ASSUME IdInv, OwnersKept, logins' = logins, request' = request
  PROVE  Numbers'
<1>1. \A l \in logins' : Named(l[1], l[2])'
  BY LoginsStay DEF IdInv, Numbers
<1>2. ASSUME NEW q \in Requests PROVE NumberOK(request[q])'
  <2> PICK g : g = request[q] /\ g = request'[q]
    OBVIOUS
  <2>1. g \in Handler \cup {Idle} /\ Wired(g) /\ NumberOK(g)
    BY DEF IdInv, TypeOK, Numbers
  <2>2. NumberOK(g)'
    BY <2>1, NumberStays
  <2> QED
    BY <2>2 DEF NumberOK, Named
<1> QED
  BY <1>1, <1>2 DEF Numbers

\* Nonces, when a handler moves that takes none up.
LEMMA NoncesMove ==
  ASSUME IdInv, NEW r \in Requests, NEW h \in Handler \cup {Idle}, Go(r, h),
         \A n \in States : Carries(h, n) => Carries(request[r], n),
         bought' = bought, started' = started, pending' \subseteq pending
  PROVE  Nonces'
<1>1. \A q \in Requests, n \in States : Carries(request'[q], n) => Carries(request[q], n)
  BY Moves DEF IdInv
<1> QED
  BY <1>1 DEF IdInv, Nonces

\* Nonces, when no handler moves and none is handed out.
LEMMA NoncesRest ==
  ASSUME IdInv, request' = request, bought' = bought, started'[2] = started[2],
         pending' \subseteq pending
  PROVE  Nonces'
BY DEF IdInv, Nonces

\* Overlap is noticed.
LEMMA SoloStep ==
  ASSUME IdInv, NEW r \in Requests, NEW h \in Handler \cup {Idle}, Go(r, h), Busy(r),
         mishaps \subseteq mishaps'
  PROVE  Solo'
BY Moves DEF IdInv, Solo, Busy

\* A request that starts is alone, or noticed.
LEMMA SoloStart ==
  ASSUME IdInv, NEW r \in Requests, NEW h \in Handler, Begin(r, h)
  PROVE  /\ Go(r, h) /\ mishaps \subseteq mishaps' /\ Solo'
         /\ "overlap" \notin mishaps' => \A q \in Requests : ~Busy(q)
<1>1. Go(r, h) /\ mishaps \subseteq mishaps'
  BY DEF Begin, Overlaps, Trouble, Calm
<1>2. "overlap" \notin mishaps' => \A q \in Requests : ~Busy(q)
  BY DEF Begin, Overlaps, Trouble, Calm
<1>3. Solo'
  BY <1>1, <1>2, Moves DEF IdInv, Solo, Busy
<1> QED
  BY <1>1, <1>2, <1>3

\* Solo, when no handler moves.
LEMMA SoloRest ==
  ASSUME IdInv, request' = request, mishaps \subseteq mishaps'
  PROVE  Solo'
BY DEF IdInv, Solo, Busy

\* Counts, when a handler moves that has nothing to do with them.
LEMMA GuessesMove ==
  ASSUME IdInv, NEW r \in Requests, NEW h \in Handler \cup {Idle}, Go(r, h),
         UNCHANGED <<flow, guesses>>, mishaps \subseteq mishaps',
         "overlap" \notin mishaps' => GuessOK(h),
         h.step # "miss", request[r].step # "miss"
  PROVE  Guesses'
<1> SUFFICES ASSUME "overlap" \notin mishaps'
             PROVE  /\ \A q \in Requests : GuessOK(request[q])'
                    /\ \A f \in FlowIds :
                         /\ guesses[f] <= MaxOTP
                         /\ flow[f] # NoFlow /\ ~Missing(f)' =>
                              guesses[f] = flow[f].tries /\ flow[f].tries < MaxOTP
  BY DEF Guesses
<1>1. /\ \A q \in Requests : GuessOK(request[q])
      /\ \A f \in FlowIds :
           /\ guesses[f] <= MaxOTP
           /\ flow[f] # NoFlow /\ ~Missing(f) =>
                guesses[f] = flow[f].tries /\ flow[f].tries < MaxOTP
  BY DEF IdInv, Guesses
<1>2. ASSUME NEW q \in Requests PROVE GuessOK(request[q])'
  <2>1. CASE q = r
    BY <2>1, Moves DEF IdInv, GuessOK
  <2>2. CASE q # r
    BY <1>1, <2>2, Moves DEF IdInv, GuessOK
  <2> QED
    BY <2>1, <2>2
<1>3. \A f \in FlowIds : Missing(f) => Missing(f)'
  BY Moves DEF IdInv, Missing
<1> QED
  BY <1>1, <1>2, <1>3

\* Counts, when no handler moves.
LEMMA GuessesRest ==
  ASSUME IdInv, request' = request, guesses' = guesses, mishaps \subseteq mishaps',
         \A f \in FlowIds :
           flow'[f] = flow[f] \/ flow'[f] = NoFlow \/
             (guesses[f] = 0 /\ flow'[f].tries = 0),
         ConstantsOK
  PROVE  Guesses'
<1>1. MaxOTP \in Nat /\ MaxOTP >= 1
  BY NumbersAre
<1>2. \A f \in FlowIds : Missing(f)' <=> Missing(f)
  BY DEF Missing
<1>3. \A q \in Requests : GuessOK(request[q])' <=> GuessOK(request[q])
  BY DEF GuessOK
<1> QED
  BY <1>1, <1>2, <1>3 DEF IdInv, Guesses

\* Rows, when a handler moves that was nobody's way in.
LEMMA HomesMove ==
  ASSUME IdInv, NEW r \in Requests, NEW h \in Handler \cup {Idle}, Go(r, h),
         UNCHANGED <<email, owner>>, mishaps \subseteq mishaps',
         Quiet' => HomeOK(h) /\ request[r].step \notin {"bind", "rollback", "set"}
  PROVE  Homes'
<1> SUFFICES ASSUME Quiet'
             PROVE  /\ \A q \in Requests : HomeOK(request[q])'
                    /\ \A u \in Users : Exists(u)' => Reachable(u)' \/ Expected(u)'
  BY DEF Homes
<1>1. Quiet
  BY DEF Quiet
<1>2. ASSUME NEW q \in Requests PROVE HomeOK(request[q])'
  <2>1. CASE q = r
    BY <2>1, Moves DEF IdInv, HomeOK, Held
  <2>2. CASE q # r
    BY <1>1, <2>2, Moves DEF IdInv, Homes, HomeOK, Held
  <2> QED
    BY <2>1, <2>2
<1>3. \A u \in Users : Expected(u) => Expected(u)'
  BY Moves DEF IdInv, Expected
<1> QED
  BY <1>1, <1>2, <1>3 DEF IdInv, Homes, Exists, Reachable, Held

\* A handler that is alone, and nobody's way in, finds everybody with one.
LEMMA AloneFindsHomes ==
  ASSUME IdInv, Quiet, NEW r \in Requests,
         request[r].step \notin {"bind", "rollback", "set"},
         \A q \in Requests : Busy(q) => q = r
  PROVE  \A u \in Users : Exists(u) => Reachable(u)
<1>1. \A u \in Users : ~Expected(u)
  <2> SUFFICES ASSUME NEW u \in Users, NEW q \in Requests,
                      request[q].step \in {"bind", "rollback", "set"}
               PROVE  FALSE
    BY DEF Expected
  <2>1. Busy(q)
    BY AtHandler DEF IdInv
  <2> QED
    BY <2>1
<1> QED
  BY <1>1 DEF IdInv, Homes

\* A handler that writes neither rows nor flows keeps everything it leaves alone.
LEMMA HandlerMoves ==
  ASSUME IdInv, NEW r \in Requests, NEW h \in Handler \cup {Idle}, Go(r, h),
         UNCHANGED <<email, owner, flow, started, guesses>>,
         mishaps \subseteq mishaps', Solo', HistoriesOK', Numbers', Nonces',
         pending' \subseteq States,
         licence' \in [Issuers -> {Nobody} \cup Users],
         link' \in [Users -> {"none", "offered", "started"}],
         Wired(h), h.step # "miss", request[r].step # "miss",
         "overlap" \notin mishaps' => GuessOK(h),
         Quiet' => HomeOK(h) /\ request[r].step \notin {"bind", "rollback", "set"}
  PROVE  IdInv'
<1>1. TypeOK'
  BY Moves DEF IdInv, TypeOK
<1>2. ASSUME NEW q \in Requests PROVE Wired(request[q])'
  <2>1. CASE q = r
    BY <2>1, Moves DEF IdInv, Wired
  <2>2. CASE q # r
    BY <2>2, Moves DEF IdInv, Wired
  <2> QED
    BY <2>1, <2>2
<1>3. Fresh'
  BY DEF IdInv, Fresh
<1>4. Guesses'
  BY GuessesMove
<1>5. Homes'
  BY HomesMove
<1> QED
  BY <1>1, <1>2, <1>3, <1>4, <1>5 DEF IdInv

\* A handler that only reads, or writes what nobody counts, keeps everything.
LEMMA HandsOn ==
  ASSUME IdInv, NEW r \in Requests, NEW h \in Handler \cup {Idle}, Go(r, h),
         UNCHANGED <<email, owner, born, flow, pending, started, guesses, logins, bought, freed>>,
         mishaps \subseteq mishaps', Solo',
         licence' \in [Issuers -> {Nobody} \cup Users],
         link' \in [Users -> {"none", "offered", "started"}],
         Wired(h), NumberOK(h), Quiet' => HomeOK(h),
         \A n \in States : Carries(h, n) => Carries(request[r], n),
         h.step \notin {"check", "miss"}, request[r].step # "miss",
         Quiet' => request[r].step \notin {"bind", "rollback", "set"}
  PROVE  IdInv'
<1>1. HistoriesOK' /\ pending' \subseteq States
  BY DEF IdInv, HistoriesOK, TypeOK
<1>2. OwnersKept
  BY DEF OwnersKept
<1>3. NumberOK(h)'
  BY DEF NumberOK, Named
<1>4. Numbers'
  BY <1>2, <1>3, NumbersMove
<1>5. Nonces'
  BY NoncesMove
<1>6. GuessOK(h)
  BY DEF GuessOK
<1> QED
  BY <1>1, <1>4, <1>5, <1>6, HandlerMoves

\* A handler that writes rows keeps everything but, perhaps, somebody's way in.
LEMMA RowsMove ==
  ASSUME IdInv, NEW r \in Requests, NEW h \in Handler \cup {Idle}, Go(r, h), Busy(r),
         UNCHANGED <<flow, pending, started, guesses, logins, bought, link, licence>>,
         mishaps \subseteq mishaps', HistoriesOK', OwnersKept,
         email' \in [Users -> Emails \cup {NoValue, "none"}],
         owner' \in [Phones -> {Nobody} \cup Users],
         Wired(h), NumberOK(h)',
         \A n \in States : Carries(h, n) => Carries(request[r], n),
         h.step \notin {"check", "miss"}, request[r].step # "miss", Homes'
  PROVE  IdInv'
<1>1. TypeOK'
  BY Moves DEF IdInv, TypeOK
<1>2. ASSUME NEW q \in Requests PROVE Wired(request[q])'
  <2>1. CASE q = r
    BY <2>1, Moves DEF IdInv, Wired
  <2>2. CASE q # r
    BY <2>2, Moves DEF IdInv, Wired
  <2> QED
    BY <2>1, <2>2
<1>3. Numbers'
  BY NumbersMove
<1>4. Nonces'
  BY NoncesMove
<1>5. Fresh' /\ Solo'
  BY SoloStep DEF IdInv, Fresh
<1>6. GuessOK(h)
  BY DEF GuessOK
<1>7. Guesses'
  BY <1>6, GuessesMove
<1> QED
  BY <1>1, <1>2, <1>3, <1>4, <1>5, <1>7 DEF IdInv

\* Rows that change while no handler moves.
LEMMA RowsRest ==
  ASSUME ConstantsOK, IdInv, request' = request,
         UNCHANGED <<flow, started, guesses, logins, bought, link, licence>>,
         pending' \subseteq pending, mishaps \subseteq mishaps', HistoriesOK', OwnersKept,
         email' \in [Users -> Emails \cup {NoValue, "none"}],
         owner' \in [Phones -> {Nobody} \cup Users], Homes'
  PROVE  IdInv'
<1>1. TypeOK'
  BY DEF IdInv, TypeOK
<1>2. \A q \in Requests : Wired(request[q])'
  BY DEF IdInv, Wired
<1>3. Numbers'
  BY NumbersRest
<1>4. Nonces' /\ Solo'
  BY NoncesRest, SoloRest
<1>5. Fresh'
  BY DEF IdInv, Fresh
<1>6. Guesses'
  BY GuessesRest
<1> QED
  BY <1>1, <1>2, <1>3, <1>4, <1>5, <1>6 DEF IdInv

-----------------------------------------------------------------------------
(* Handlers at their reads.                                                  *)

\* What a handler with a call to make holds.
LEMMA Holding ==
  ASSUME IdInv, NEW r \in Requests, NEW s, s # "idle", At(r, s)
  PROVE  /\ request[r] \in Handler /\ request[r].step = s
         /\ Busy(r) /\ Wired(request[r]) /\ NumberOK(request[r])
         /\ Quiet => HomeOK(request[r])
         /\ "overlap" \notin mishaps =>
              /\ GuessOK(request[r]) /\ \A q \in Requests : Busy(q) => q = r
BY AtHandler DEF At, IdInv, Numbers, Homes, Guesses, Solo

\* A number is not the absent value.
LEMMA NumberOf == ASSUME ConstantsOK PROVE \A p \in Phones : p # NoValue
BY DEF ConstantsOK

\* Anchor keeps the invariant.
LEMMA AnchorKeeps ==
  ASSUME IdInv, NEW r \in Requests, Anchor(r)
  PROVE  IdInv'
<1> PICK h : h = request[r]
  OBVIOUS
<1>1. At(r, "anchor")
  BY DEF Anchor
<1>2. h \in Handler /\ h.step = "anchor" /\ Busy(r) /\ Wired(h)
  BY <1>1, Holding
<1>3. h.phone \in Phones /\ h.value = NoValue
  BY <1>2 DEF Wired
<1>4. /\ UNCHANGED <<email, owner, born, flow, pending, started, guesses, logins, bought, freed>>
      /\ mishaps' = mishaps /\ link' = link /\ licence' = licence
  BY DEF Anchor, Rows, Memory, History
<1>5. link \in [Users -> {"none", "offered", "started"}]
      /\ licence \in [Issuers -> {Nobody} \cup Users]
  BY DEF IdInv, TypeOK
<1>6. CASE owner[h.phone] = Nobody
  <2>1. Go(r, Idle)
    BY <1>6 DEF Anchor, Answer
  <2> QED
    BY <1>2, <1>4, <1>5, <2>1, SoloStep, IdleHolds, HandsOn
<1>7. CASE owner[h.phone] # Nobody
  <2> PICK g : g = [h EXCEPT !.step = "load", !.user = owner[h.phone]]
    OBVIOUS
  <2>1. Go(r, g)
    BY <1>7 DEF Anchor
  <2>2. owner[h.phone] \in Users
    BY <1>3, <1>7 DEF IdInv, TypeOK
  <2>3. g \in Handler /\ g.step = "load" /\ g.user = owner[h.phone]
        /\ g.phone = h.phone /\ g.value = h.value
    BY <1>2, <2>2 DEF Handler
  <2>4. Wired(g)
    BY <1>3, <2>2, <2>3 DEF Wired
  <2>5. NumberOK(g) /\ HomeOK(g) /\ \A n \in States : ~Carries(g, n)
    BY <2>3 DEF NumberOK, HomeOK, Carries, Named
  <2>6. Solo'
    BY <1>2, <1>4, <2>1, <2>3, SoloStep
  <2> QED
    BY <1>2, <1>4, <1>5, <2>1, <2>3, <2>4, <2>5, <2>6, HandsOn
<1> QED
  BY <1>6, <1>7

\* Giving up where nothing is at stake keeps the invariant.
LEMMA AnswerKeeps ==
  ASSUME IdInv, NEW r \in Requests, Busy(r), Answer(r),
         UNCHANGED <<email, owner, born, flow, pending, started, guesses, logins, bought, freed>>,
         mishaps \subseteq mishaps',
         licence' \in [Issuers -> {Nobody} \cup Users],
         link' \in [Users -> {"none", "offered", "started"}],
         request[r].step # "miss",
         Quiet' => request[r].step \notin {"bind", "rollback", "set"}
  PROVE  IdInv'
<1>1. Go(r, Idle)
  BY DEF Answer
<1>2. Solo'
  BY <1>1, SoloStep
<1> QED
  BY <1>1, <1>2, IdleHolds, HandsOn

\* Load keeps the invariant.
LEMMA LoadKeeps ==
  ASSUME ConstantsOK, IdInv, NEW r \in Requests, Load(r)
  PROVE  IdInv'
<1> PICK h : h = request[r]
  OBVIOUS
<1>1. At(r, "load")
  BY DEF Load
<1>2. h \in Handler /\ h.step = "load" /\ Busy(r) /\ Wired(h) /\ NumberOK(h)
  BY <1>1, Holding
<1>3. h.phone \in Phones /\ h.phone # NoValue /\ h.user \in Users
  BY <1>2, NumberOf DEF Wired
<1>4. /\ UNCHANGED <<email, owner, born, flow, pending, started, guesses, logins, bought, freed>>
      /\ mishaps' = mishaps /\ link' = link /\ licence' = licence
  BY DEF Load, Rows, Memory, History
<1>5. link \in [Users -> {"none", "offered", "started"}]
      /\ licence \in [Issuers -> {Nobody} \cup Users]
  BY DEF IdInv, TypeOK
<1>6. CASE ~Exists(h.user)
  BY <1>2, <1>4, <1>5, <1>6, AnswerKeeps DEF Load
<1>7. CASE Exists(h.user)
  <2> PICK g : g = [h EXCEPT !.step = "session"]
    OBVIOUS
  <2>1. Go(r, g)
    BY <1>7 DEF Load, Goto
  <2>3. g \in Handler /\ g.step = "session" /\ g.user = h.user /\ g.phone = h.phone
    BY <1>2 DEF Handler
  <2>4. Wired(g)
    BY <1>3, <2>3 DEF Wired
  <2>5. NumberOK(g) /\ HomeOK(g) /\ \A n \in States : ~Carries(g, n)
    BY <1>2, <1>3, <2>3 DEF NumberOK, HomeOK, Carries
  <2>6. Solo'
    BY <1>2, <1>4, <2>1, <2>3, SoloStep
  <2> QED
    BY <1>2, <1>4, <1>5, <2>1, <2>3, <2>4, <2>5, <2>6, HandsOn
<1> QED
  BY <1>6, <1>7

\* Profile keeps the invariant.
LEMMA ProfileKeeps ==
  ASSUME IdInv, NEW r \in Requests, Profile(r)
  PROVE  IdInv'
<1> PICK h : h = request[r]
  OBVIOUS
<1>1. At(r, "profile")
  BY DEF Profile
<1>2. h \in Handler /\ h.step = "profile" /\ Busy(r) /\ Wired(h)
  BY <1>1, Holding
<1>3. h.phone = NoValue /\ h.state \in States
  BY <1>2 DEF Wired
<1>4. /\ UNCHANGED <<email, owner, born, flow, pending, started, guesses, logins, bought, freed>>
      /\ mishaps' = mishaps /\ link' = link /\ licence' = licence
  BY DEF Profile, Rows, Memory, History
<1>5. link \in [Users -> {"none", "offered", "started"}]
      /\ licence \in [Issuers -> {Nobody} \cup Users]
  BY DEF IdInv, TypeOK
<1>6. CASE Answer(r)
  BY <1>2, <1>4, <1>5, <1>6, AnswerKeeps
<1>7. ASSUME NEW e \in Emails, Go(r, [h EXCEPT !.step = "byEmail", !.value = e])
      PROVE  IdInv'
  <2> PICK g : g = [h EXCEPT !.step = "byEmail", !.value = e]
    OBVIOUS
  <2>1. Go(r, g)
    BY <1>7
  <2>3. g \in Handler /\ g.step = "byEmail" /\ g.value = e /\ g.phone = h.phone
        /\ g.state = h.state
    BY <1>2 DEF Handler, Values
  <2>4. Wired(g)
    BY <1>3, <2>3 DEF Wired
  <2>5. NumberOK(g) /\ HomeOK(g) /\ \A n \in States : Carries(g, n) => Carries(h, n)
    BY <1>2, <1>3, <2>3 DEF NumberOK, HomeOK, Carries
  <2>6. Solo'
    BY <1>2, <1>4, <2>1, <2>3, SoloStep
  <2> QED
    BY <1>2, <1>4, <1>5, <2>1, <2>3, <2>4, <2>5, <2>6, HandsOn
<1> QED
  BY <1>6, <1>7 DEF Profile

\* ByEmail keeps the invariant.
LEMMA ByEmailKeeps ==
  ASSUME IdInv, NEW r \in Requests, ByEmail(r)
  PROVE  IdInv'
<1> PICK h : h = request[r]
  OBVIOUS
<1>1. At(r, "byEmail")
  BY DEF ByEmail
<1>2. h \in Handler /\ h.step = "byEmail" /\ Busy(r) /\ Wired(h)
  BY <1>1, Holding
<1>3. h.phone = NoValue /\ h.state \in States /\ h.value \in Emails
  BY <1>2 DEF Wired
<1>4. /\ UNCHANGED <<email, owner, born, flow, pending, started, guesses, logins, bought, freed>>
      /\ mishaps' = mishaps /\ link' = link /\ licence' = licence
  BY DEF ByEmail, Rows, Memory, History
<1>5. link \in [Users -> {"none", "offered", "started"}]
      /\ licence \in [Issuers -> {Nobody} \cup Users]
  BY DEF IdInv, TypeOK
<1>6. ASSUME NEW g \in Handler, Go(r, g), g.step \in {"create", "session"},
             g.phone = NoValue, g.state = h.state, g.value = h.value,
             g.step = "session" => g.user \in Users
      PROVE  IdInv'
  <2>4. Wired(g)
    BY <1>3, <1>6 DEF Wired
  <2>5. NumberOK(g) /\ HomeOK(g) /\ \A n \in States : Carries(g, n) => Carries(h, n)
    BY <1>2, <1>3, <1>6 DEF NumberOK, HomeOK, Carries
  <2>6. Solo'
    BY <1>2, <1>4, <1>6, SoloStep
  <2> QED
    BY <1>2, <1>4, <1>5, <1>6, <2>4, <2>5, <2>6, HandsOn
<1>7. CASE UsersWith(h.value) = {}
  <2> PICK g : g = [h EXCEPT !.step = "create"]
    OBVIOUS
  <2>1. Go(r, g)
    BY <1>7 DEF ByEmail, Goto
  <2>2. g \in Handler /\ g.step = "create" /\ g.value = h.value /\ g.phone = h.phone
        /\ g.state = h.state
    BY <1>2 DEF Handler
  <2> QED
    BY <1>3, <1>6, <2>1, <2>2
<1>8. CASE UsersWith(h.value) # {}
  <2> PICK u : u = CHOOSE v \in UsersWith(h.value) : TRUE
    OBVIOUS
  <2>1. u \in Users
    BY <1>8 DEF UsersWith
  <2> PICK g : g = [h EXCEPT !.step = "session", !.user = u]
    OBVIOUS
  <2>2. Go(r, g)
    BY <1>8 DEF ByEmail
  <2>3. g \in Handler /\ g.step = "session" /\ g.value = h.value /\ g.phone = h.phone
        /\ g.state = h.state /\ g.user = u
    BY <1>2, <2>1 DEF Handler
  <2> QED
    BY <1>3, <1>6, <2>1, <2>2, <2>3
<1> QED
  BY <1>7, <1>8

-----------------------------------------------------------------------------
(* Handlers that start without a flow or a nonce.                            *)

\* Starting with nothing at stake keeps the invariant.
LEMMA BeginKeeps ==
  ASSUME IdInv, NEW r \in Requests, NEW g \in Handler, Begin(r, g),
         UNCHANGED <<Rows, Memory, texted, History>>,
         Wired(g), NumberOK(g), \A n \in States : ~Carries(g, n),
         g.step \notin {"check", "miss"},
         Quiet /\ (\A q \in Requests : ~Busy(q)) => HomeOK(g)
  PROVE  IdInv'
<1>1. /\ Go(r, g) /\ mishaps \subseteq mishaps' /\ Solo'
      /\ "overlap" \notin mishaps' => \A q \in Requests : ~Busy(q)
  BY SoloStart
<1>2. Quiet' => HomeOK(g)
  BY <1>1 DEF Quiet
<1>3. request[r].step = "idle"
  BY IdleHolds DEF Begin, Busy
<1>4. /\ UNCHANGED <<email, owner, born, flow, pending, started, guesses, logins, bought, freed>>
      /\ link' = link /\ licence' = licence
  BY DEF Rows, Memory, History
<1>5. link \in [Users -> {"none", "offered", "started"}]
      /\ licence \in [Issuers -> {Nobody} \cup Users]
  BY DEF IdInv, TypeOK
<1> QED
  BY <1>1, <1>2, <1>3, <1>4, <1>5, HandsOn

\* The zeros of a blank handler.
LEMMA ZerosAre ==
  ASSUME ConstantsOK
  PROVE  0 \in 0..NumFlows /\ 0 \in 0..NumStates /\ 0 \in 0..MaxOTP
BY NumbersAre

\* The link handlers keep the invariant when they start.
LEMMA OnLinkKeeps ==
  ASSUME ConstantsOK, IdInv, NEW r \in Requests, NEW u \in Users,
         NEW s \in {"restart", "linkload", "unlink"}, NEW e \in Emails \cup {NoValue},
         s = "linkload" => e \in Emails, OnLink(r, u, s, e)
  PROVE  IdInv'
<1> PICK g : g = [Blank EXCEPT !.step = s, !.user = u, !.value = e]
  OBVIOUS
<1>1. Begin(r, g) /\ UNCHANGED <<Rows, Memory, texted, History>>
  BY DEF OnLink
<1>2. g \in Handler
  BY ZerosAre DEF Handler, Values, Blank
<1>3. g.step = s /\ g.user = u /\ g.value = e
  BY DEF Blank
<1>4. Wired(g) /\ NumberOK(g) /\ HomeOK(g) /\ \A n \in States : ~Carries(g, n)
  BY <1>3 DEF Wired, NumberOK, HomeOK, Carries
<1> QED
  BY <1>1, <1>2, <1>3, <1>4, BeginKeeps

\* LinkStart, LinkCallback and Skip keep the invariant.
LEMMA LinkStartsKeep ==
  ASSUME ConstantsOK, IdInv, NEW r \in Requests, NEW u \in Users,
         \/ LinkStart(r, u) \/ Skip(r, u)
         \/ \E e \in Emails : LinkCallback(r, u, e)
  PROVE  IdInv'
<1>1. CASE LinkStart(r, u)
  BY <1>1, OnLinkKeeps DEF LinkStart
<1>2. CASE Skip(r, u)
  BY <1>2, OnLinkKeeps DEF Skip
<1>3. ASSUME NEW e \in Emails, LinkCallback(r, u, e) PROVE IdInv'
  BY <1>3, OnLinkKeeps DEF LinkCallback
<1> QED
  BY <1>1, <1>2, <1>3

\* Patch keeps the invariant.
LEMMA PatchKeeps ==
  ASSUME ConstantsOK, IdInv, NEW r \in Requests, NEW u \in Users, Patch(r, u)
  PROVE  IdInv'
<1> PICK e \in Emails \cup {email[u]} :
      Begin(r, [Blank EXCEPT !.step = "patch", !.user = u, !.value = e])
  BY DEF Patch
<1> PICK g : g = [Blank EXCEPT !.step = "patch", !.user = u, !.value = e]
  OBVIOUS
<1>1. Begin(r, g) /\ UNCHANGED <<Rows, Memory, texted, History>>
  BY DEF Patch
<1>2. Exists(u) /\ email[u] \in Emails \cup {NoValue}
  BY DEF Patch, Exists, IdInv, TypeOK
<1>3. g \in Handler
  BY <1>2, ZerosAre DEF Handler, Values, Blank
<1>4. g.step = "patch" /\ g.user = u /\ g.value = e
  BY DEF Blank
<1>5. Wired(g) /\ NumberOK(g) /\ \A n \in States : ~Carries(g, n)
  BY <1>2, <1>4 DEF Wired, NumberOK, Carries
<1>6. ASSUME Quiet, \A q \in Requests : ~Busy(q)
      PROVE  HomeOK(g)
  <2>1. request[r].step = "idle"
    BY <1>6, IdleHolds DEF Busy
  <2>2. Reachable(u)
    BY <1>2, <1>6, <2>1, AloneFindsHomes
  <2>3. e = NoValue => Held(u) # {}
    BY <2>2, NumbersAre DEF Reachable
  <2> QED
    BY <1>4, <2>3 DEF HomeOK
<1> QED
  BY <1>1, <1>3, <1>4, <1>5, <1>6, BeginKeeps

\* SetUserPhone keeps the invariant.
LEMMA SetUserPhoneKeeps ==
  ASSUME ConstantsOK, IdInv, NEW r \in Requests, NEW u \in Users, NEW p \in Phones,
         SetUserPhone(r, u, p)
  PROVE  IdInv'
<1> PICK g : g = [Blank EXCEPT !.step = "clear", !.user = u, !.phone = p]
  OBVIOUS
<1>1. Begin(r, g) /\ UNCHANGED <<Rows, Memory, texted, History>>
  BY DEF SetUserPhone
<1>2. g \in Handler
  BY ZerosAre DEF Handler, Values, Blank
<1>3. g.step = "clear" /\ g.user = u /\ g.value = NoValue /\ g.phone = p
  BY DEF Blank
<1>4. Wired(g) /\ NumberOK(g) /\ HomeOK(g) /\ \A n \in States : ~Carries(g, n)
  BY <1>3 DEF Wired, NumberOK, HomeOK, Carries, SetUserPhone
<1> QED
  BY <1>1, <1>2, <1>3, <1>4, BeginKeeps

\* RecordMDL keeps the invariant.
LEMMA RecordMDLKeeps ==
  ASSUME ConstantsOK, IdInv, NEW r \in Requests, NEW u \in Users, NEW i \in Issuers,
         RecordMDL(r, u, i)
  PROVE  IdInv'
<1> PICK g : g = [Blank EXCEPT !.step = "mdlclear", !.user = u, !.value = i]
  OBVIOUS
<1>1. Begin(r, g) /\ UNCHANGED <<Rows, Memory, texted, History>>
  BY DEF RecordMDL
<1>2. g \in Handler
  BY ZerosAre DEF Handler, Values, Blank
<1>3. g.step = "mdlclear" /\ g.user = u /\ g.value = i
  BY DEF Blank
<1>4. Wired(g) /\ NumberOK(g) /\ HomeOK(g) /\ \A n \in States : ~Carries(g, n)
  BY <1>3 DEF Wired, NumberOK, HomeOK, Carries
<1> QED
  BY <1>1, <1>2, <1>3, <1>4, BeginKeeps

-----------------------------------------------------------------------------
(* Handlers on links and licences.                                           *)

\* PutLink and DropLink keep the invariant.
LEMMA PutLinkKeeps ==
  ASSUME IdInv, NEW r \in Requests, PutLink(r) \/ DropLink(r)
  PROVE  IdInv'
<1>1. PICK s \in {"restart", "unlink"} : At(r, s)
  BY DEF PutLink, DropLink
<1>2. request[r].step = s /\ Busy(r)
  BY <1>1, Holding
<1>3. /\ UNCHANGED <<email, owner, born, flow, pending, started, guesses, logins, bought, freed>>
      /\ mishaps' = mishaps /\ licence' = licence /\ Answer(r)
  BY DEF PutLink, DropLink, Rows, History
<1>4. licence \in [Issuers -> {Nobody} \cup Users]
      /\ link' \in [Users -> {"none", "offered", "started"}]
  BY DEF PutLink, DropLink, IdInv, TypeOK
<1> QED
  BY <1>2, <1>3, <1>4, AnswerKeeps

\* LinkLoad keeps the invariant.
LEMMA LinkLoadKeeps ==
  ASSUME IdInv, NEW r \in Requests, LinkLoad(r)
  PROVE  IdInv'
<1> PICK h : h = request[r]
  OBVIOUS
<1>1. At(r, "linkload")
  BY DEF LinkLoad
<1>2. h \in Handler /\ h.step = "linkload" /\ Busy(r) /\ Wired(h)
  BY <1>1, Holding
<1>3. h.user \in Users /\ h.value \in Emails
  BY <1>2 DEF Wired
<1>4. /\ UNCHANGED <<email, owner, born, flow, pending, started, guesses, logins, bought, freed>>
      /\ mishaps' = mishaps /\ link' = link /\ licence' = licence
  BY DEF LinkLoad, Rows, Memory, History
<1>5. link \in [Users -> {"none", "offered", "started"}]
      /\ licence \in [Issuers -> {Nobody} \cup Users]
  BY DEF IdInv, TypeOK
<1>6. CASE ~Exists(h.user)
  BY <1>2, <1>4, <1>5, <1>6, AnswerKeeps DEF LinkLoad
<1>7. CASE Exists(h.user)
  <2> PICK g : g = [h EXCEPT !.step = "linkwrite"]
    OBVIOUS
  <2>1. Go(r, g)
    BY <1>7 DEF LinkLoad, Goto
  <2>2. g \in Handler /\ g.step = "linkwrite" /\ g.user = h.user /\ g.value = h.value
    BY <1>2 DEF Handler
  <2>3. Wired(g) /\ NumberOK(g) /\ HomeOK(g) /\ \A n \in States : ~Carries(g, n)
    BY <1>3, <2>2 DEF Wired, NumberOK, HomeOK, Carries
  <2>4. Solo'
    BY <1>2, <1>4, <2>1, <2>2, SoloStep
  <2> QED
    BY <1>2, <1>4, <1>5, <2>1, <2>2, <2>3, <2>4, HandsOn
<1> QED
  BY <1>6, <1>7

\* ClearLicence keeps the invariant.
LEMMA ClearLicenceKeeps ==
  ASSUME IdInv, NEW r \in Requests, ClearLicence(r)
  PROVE  IdInv'
<1> PICK h : h = request[r]
  OBVIOUS
<1>1. At(r, "mdlclear")
  BY DEF ClearLicence
<1>2. h \in Handler /\ h.step = "mdlclear" /\ Busy(r) /\ Wired(h)
  BY <1>1, Holding
<1>3. h.user \in Users /\ h.value \in Issuers
  BY <1>2 DEF Wired
<1>4. /\ UNCHANGED <<email, owner, born, flow, pending, started, guesses, logins, bought, freed>>
      /\ mishaps' = mishaps /\ link' = link
  BY DEF ClearLicence, Memory, History
<1>5. link \in [Users -> {"none", "offered", "started"}]
      /\ licence' \in [Issuers -> {Nobody} \cup Users]
  BY DEF ClearLicence, IdInv, TypeOK
<1> PICK g : g = [h EXCEPT !.step = "mdlset"]
  OBVIOUS
<1>6. Go(r, g)
  BY DEF ClearLicence, Goto
<1>7. g \in Handler /\ g.step = "mdlset" /\ g.user = h.user /\ g.value = h.value
  BY <1>2 DEF Handler
<1>8. Wired(g) /\ NumberOK(g) /\ HomeOK(g) /\ \A n \in States : ~Carries(g, n)
  BY <1>3, <1>7 DEF Wired, NumberOK, HomeOK, Carries
<1>9. Solo'
  BY <1>2, <1>4, <1>6, <1>7, SoloStep
<1> QED
  BY <1>2, <1>4, <1>5, <1>6, <1>7, <1>8, <1>9, HandsOn

\* ClearLicenceFails keeps the invariant.
LEMMA ClearLicenceFailsKeeps ==
  ASSUME IdInv, NEW r \in Requests, ClearLicenceFails(r)
  PROVE  IdInv'
<1> PICK h : h = request[r]
  OBVIOUS
<1>1. At(r, "mdlclear")
  BY DEF ClearLicenceFails
<1>2. h \in Handler /\ h.step = "mdlclear" /\ Busy(r) /\ Wired(h)
  BY <1>1, Holding
<1>3. h.user \in Users /\ h.value \in Issuers
  BY <1>2 DEF Wired
<1>4. /\ UNCHANGED <<email, owner, born, flow, pending, started, guesses, logins, bought, freed>>
      /\ mishaps \subseteq mishaps' /\ ~Quiet' /\ link' = link
  BY DEF ClearLicenceFails, Trouble, Quiet, Memory, History
<1>5. link \in [Users -> {"none", "offered", "started"}]
      /\ licence' \in [Issuers -> {Nobody} \cup Users]
  BY DEF ClearLicenceFails, IdInv, TypeOK
<1> PICK g : g = [h EXCEPT !.step = "mdlset"]
  OBVIOUS
<1>6. Go(r, g)
  BY DEF ClearLicenceFails, Goto
<1>7. g \in Handler /\ g.step = "mdlset" /\ g.user = h.user /\ g.value = h.value
  BY <1>2 DEF Handler
<1>8. Wired(g) /\ NumberOK(g) /\ HomeOK(g) /\ \A n \in States : ~Carries(g, n)
  BY <1>3, <1>7 DEF Wired, NumberOK, HomeOK, Carries
<1>9. Solo'
  BY <1>2, <1>4, <1>6, <1>7, SoloStep
<1> QED
  BY <1>2, <1>4, <1>5, <1>6, <1>7, <1>8, <1>9, HandsOn

\* StoreLicence keeps the invariant.
LEMMA StoreLicenceKeeps ==
  ASSUME IdInv, NEW r \in Requests, StoreLicence(r)
  PROVE  IdInv'
<1>1. At(r, "mdlset")
  BY DEF StoreLicence
<1>2. request[r] \in Handler /\ request[r].step = "mdlset" /\ Busy(r) /\ Wired(request[r])
  BY <1>1, Holding
<1>3. /\ UNCHANGED <<email, owner, born, flow, pending, started, guesses, logins, bought, freed>>
      /\ mishaps' = mishaps /\ link' = link /\ Answer(r)
  BY DEF StoreLicence, Memory
<1>4. request[r].user \in Users
  BY <1>2 DEF Wired
<1>5. link \in [Users -> {"none", "offered", "started"}]
      /\ licence' \in [Issuers -> {Nobody} \cup Users]
  BY <1>4 DEF StoreLicence, IdInv, TypeOK
<1> QED
  BY <1>2, <1>3, <1>5, AnswerKeeps

-----------------------------------------------------------------------------
(* Phone flows and their one-time codes.                                     *)

\* Submit keeps the invariant.
LEMMA SubmitKeeps ==
  ASSUME ConstantsOK, IdInv, NEW p \in Phones, Submit(p)
  PROVE  IdInv'
<1> PICK f : f = started[1] + 1
  OBVIOUS
<1> PICK a : a = [phone |-> p, isNew |-> owner[p] = Nobody, tries |-> 0]
  OBVIOUS
<1>1. /\ started[1] \in Nat /\ started[1] < NumFlows /\ started \in [1..2 -> Nat]
      /\ NumFlows \in Nat /\ started[2] \in Nat /\ started[2] <= NumStates
  BY NumbersAre DEF Submit, IdInv, HistoriesOK
<1>2. f \in FlowIds /\ started' = [started EXCEPT ![1] = f]
  BY <1>1 DEF FlowIds, Submit
<1>3. started'[1] = f /\ started'[2] = started[2] /\ started' \in [1..2 -> Nat]
  BY <1>1, <1>2
<1>4. flow' = [flow EXCEPT ![f] = a]
  BY DEF Submit
<1>5. /\ UNCHANGED <<email, owner, licence, born, link, pending, request, mishaps>>
      /\ UNCHANGED <<guesses, logins, bought, refused, freed>>
  BY DEF Submit, Rows, History
<1>6. a \in Flow /\ a.tries = 0
  BY NumbersAre DEF Flow
<1>7. TypeOK'
  BY <1>2, <1>4, <1>5, <1>6 DEF IdInv, TypeOK
<1>8. HistoriesOK'
  BY <1>1, <1>2, <1>3, <1>5 DEF IdInv, HistoriesOK
<1>9. ASSUME NEW q \in Requests PROVE Wired(request[q])'
  <2> PICK h : h = request[q] /\ h = request'[q]
    BY <1>5
  <2>1. h \in Handler \cup {Idle} /\ Wired(h)
    BY DEF IdInv, TypeOK
  <2>2. Wired(h)'
    BY <1>1, <1>3, <1>8, <2>1, WiredStays DEF IdInv
  <2> QED
    BY <2>2 DEF Wired
<1>10. Numbers'
  <2>1. OwnersKept
    BY <1>5 DEF OwnersKept
  <2> QED
    BY <1>5, <2>1, NumbersRest
<1>11. Nonces' /\ Solo'
  BY <1>3, <1>5, NoncesRest, SoloRest
<1>12. guesses[f] = 0
  BY <1>1, <1>2 DEF IdInv, Fresh
<1>13. Fresh'
  BY <1>1, <1>2, <1>3, <1>4, <1>5 DEF IdInv, Fresh, FlowIds, TypeOK
<1>14. Guesses'
  <2>1. \A g \in FlowIds : flow'[g] = flow[g] \/ (guesses[g] = 0 /\ flow'[g].tries = 0)
    BY <1>2, <1>4, <1>6, <1>12 DEF IdInv, TypeOK
  <2> QED
    BY <1>5, <2>1, GuessesRest
<1>15. Homes'
  BY <1>5 DEF IdInv, Homes, HomeOK, Exists, Reachable, Held, Expected, Quiet
<1> QED
  BY <1>7, <1>8, <1>9, <1>10, <1>11, <1>13, <1>14, <1>15 DEF IdInv

\* Verify keeps the invariant.
LEMMA VerifyKeeps ==
  ASSUME ConstantsOK, IdInv, NEW r \in Requests, NEW f \in FlowIds, Verify(r, f)
  PROVE  IdInv'
<1> PICK g : g = [Blank EXCEPT !.flow = f, !.phone = flow[f].phone,
                               !.isNew = flow[f].isNew, !.tries = flow[f].tries]
  OBVIOUS
<1>1. Begin(r, g) /\ UNCHANGED <<Rows, Memory, texted, History>>
  BY DEF Verify
<1>2. flow[f] # NoFlow /\ flow[f] \in Flow
  BY DEF Verify, Has, IdInv, TypeOK
<1>3. flow[f].phone \in Phones /\ flow[f].isNew \in BOOLEAN /\ flow[f].tries \in 0..MaxOTP
  BY <1>2 DEF Flow
<1>4. g \in Handler
  <2>1. f \in 0..NumFlows
    BY NumbersAre DEF FlowIds
  <2>2. flow[f].phone \in Phones \cup {NoValue} /\ NoValue \in Values
    BY <1>3 DEF Values
  <2> QED
    BY <1>3, <2>1, <2>2, ZerosAre DEF Handler, Blank
<1>5. g.step = "check" /\ g.flow = f /\ g.phone = flow[f].phone /\ g.value = NoValue
      /\ g.tries = flow[f].tries
  BY DEF Blank
<1>6. f <= started[1]
  <2>1. f \in Nat /\ started[1] \in Nat
    BY DEF FlowIds, IdInv, HistoriesOK
  <2>2. ~(f > started[1])
    BY <1>2 DEF IdInv, Fresh
  <2> QED
    BY <2>1, <2>2
<1>7. Wired(g) /\ NumberOK(g) /\ HomeOK(g) /\ \A n \in States : ~Carries(g, n)
  BY <1>3, <1>5, <1>6 DEF Wired, NumberOK, HomeOK, Carries
<1>8. /\ Go(r, g) /\ mishaps \subseteq mishaps' /\ Solo'
      /\ "overlap" \notin mishaps' => \A q \in Requests : ~Busy(q)
  BY <1>1, <1>4, SoloStart
<1>9. /\ UNCHANGED <<email, owner, born, flow, pending, started, guesses, logins, bought, freed>>
      /\ link' = link /\ licence' = licence
  BY <1>1 DEF Rows, Memory, History
<1>10. request[r].step = "idle"
  BY <1>1, IdleHolds DEF Begin, Busy
<1>11. "overlap" \notin mishaps' => GuessOK(g)
  <2> SUFFICES ASSUME "overlap" \notin mishaps' PROVE GuessOK(g)
    OBVIOUS
  <2>1. "overlap" \notin mishaps /\ ~Missing(f)
    BY <1>8, AtHandler DEF Missing, IdInv
  <2>2. guesses[f] = flow[f].tries /\ flow[f].tries < MaxOTP
    BY <1>2, <2>1 DEF IdInv, Guesses
  <2> QED
    BY <1>5, <2>2 DEF GuessOK
<1>12. HistoriesOK'
  BY <1>9 DEF IdInv, HistoriesOK
<1>13. OwnersKept
  BY <1>9 DEF OwnersKept
<1>14. NumberOK(g)'
  BY <1>5 DEF NumberOK
<1>15. Numbers'
  BY <1>4, <1>8, <1>9, <1>13, <1>14, NumbersMove
<1>16. Nonces'
  BY <1>4, <1>7, <1>8, <1>9, NoncesMove
<1>17. /\ pending' \subseteq States /\ licence' \in [Issuers -> {Nobody} \cup Users]
       /\ link' \in [Users -> {"none", "offered", "started"}]
  BY <1>9 DEF IdInv, TypeOK
<1> QED
  BY <1>4, <1>5, <1>7, <1>8, <1>9, <1>10, <1>11, <1>12, <1>15, <1>16, <1>17, HandlerMoves

\* A wrong code keeps the invariant.
LEMMA WrongKeeps ==
  ASSUME ConstantsOK, IdInv, NEW r \in Requests, CheckCode(r), Goto(r, "miss"),
         guesses' = [guesses EXCEPT ![request[r].flow] = @ + 1]
  PROVE  IdInv'
<1> PICK h : h = request[r]
  OBVIOUS
<1>1. At(r, "check")
  BY DEF CheckCode
<1>2. /\ h \in Handler /\ h.step = "check" /\ Busy(r) /\ Wired(h)
      /\ "overlap" \notin mishaps => GuessOK(h) /\ \A q \in Requests : Busy(q) => q = r
  BY <1>1, Holding
<1>3. h.flow \in FlowIds /\ h.flow <= started[1] /\ h.phone \in Phones /\ h.value = NoValue
  BY <1>2 DEF Wired
<1>4. /\ UNCHANGED <<email, owner, born, licence, flow, link, pending, started>>
      /\ UNCHANGED <<logins, bought, freed, mishaps>>
  BY DEF CheckCode, Rows, Memory
<1> PICK g : g = [h EXCEPT !.step = "miss"]
  OBVIOUS
<1>5. Go(r, g)
  BY DEF Goto
<1>6. g \in Handler /\ g.step = "miss" /\ g.flow = h.flow /\ g.phone = h.phone
      /\ g.value = h.value /\ g.tries = h.tries
  BY <1>2 DEF Handler
<1>7. TypeOK'
  BY <1>4, <1>5, <1>6, Moves DEF IdInv, TypeOK
<1>8. HistoriesOK'
  BY <1>3, <1>4 DEF IdInv, HistoriesOK
<1>9. Wired(g)
  BY <1>3, <1>6 DEF Wired
<1>10. ASSUME NEW q \in Requests PROVE Wired(request[q])'
  <2>1. CASE q = r
    <3>1. request'[q] = g
      BY <1>5, <1>6, <2>1, Moves DEF IdInv
    <3> QED
      BY <1>4, <1>9, <3>1 DEF Wired
  <2>2. CASE q # r
    BY <1>4, <1>5, <1>6, <2>2, Moves DEF IdInv, Wired
  <2> QED
    BY <2>1, <2>2
<1>11. Numbers'
  <2>1. OwnersKept
    BY <1>4 DEF OwnersKept
  <2>2. NumberOK(g)'
    BY <1>6 DEF NumberOK
  <2> QED
    BY <1>4, <1>5, <1>6, <2>1, <2>2, NumbersMove
<1>12. Nonces'
  <2>1. \A n \in States : ~Carries(g, n)
    BY <1>6 DEF Carries
  <2> QED
    BY <1>4, <1>5, <1>6, <2>1, NoncesMove
<1>13. Solo'
  BY <1>2, <1>4, <1>5, <1>6, SoloStep
<1>14. Homes'
  <2>1. HomeOK(g)
    BY <1>6 DEF HomeOK
  <2> QED
    BY <1>2, <1>4, <1>5, <1>6, <2>1, HomesMove
<1>15. Fresh'
  BY <1>3, <1>4 DEF IdInv, Fresh, HistoriesOK, FlowIds
<1>16. Guesses'
  <2> SUFFICES ASSUME "overlap" \notin mishaps
               PROVE  /\ \A q \in Requests : GuessOK(request[q])'
                      /\ \A f \in FlowIds :
                           /\ guesses'[f] <= MaxOTP
                           /\ flow[f] # NoFlow /\ ~Missing(f)' =>
                                guesses'[f] = flow[f].tries /\ flow[f].tries < MaxOTP
    BY <1>4 DEF Guesses
  <2>1. h.tries < MaxOTP /\ guesses[h.flow] = h.tries /\ h.tries \in Nat
    BY <1>2 DEF GuessOK, Handler
  <2>2. guesses'[h.flow] = h.tries + 1 /\ h.tries + 1 <= MaxOTP
    BY <1>3, <2>1, NumbersAre DEF IdInv, HistoriesOK
  <2>3. \A f \in FlowIds : f # h.flow => guesses'[f] = guesses[f]
    BY <1>3 DEF IdInv, HistoriesOK
  <2>4. ASSUME NEW q \in Requests PROVE GuessOK(request[q])'
    <3>1. CASE q = r
      <4>1. request'[q] = g
        BY <1>5, <1>6, <3>1, Moves DEF IdInv
      <4> QED
        BY <1>6, <2>1, <2>2, <4>1 DEF GuessOK
    <3>2. CASE q # r
      <4>1. request'[q] = request[q] /\ request[q].step = "idle"
        BY <1>2, <1>5, <1>6, <3>2, Moves, IdleHolds DEF IdInv, Busy
      <4> QED
        BY <4>1 DEF GuessOK
    <3> QED
      BY <3>1, <3>2
  <2>5. Missing(h.flow)'
    BY <1>5, <1>6, Moves DEF Missing, IdInv
  <2>6. \A f \in FlowIds : Missing(f) => Missing(f)'
    BY <1>2, <1>5, <1>6, Moves DEF Missing, IdInv
  <2> QED
    BY <2>2, <2>3, <2>4, <2>5, <2>6 DEF IdInv, Guesses
<1> QED
  BY <1>7, <1>8, <1>10, <1>11, <1>12, <1>13, <1>14, <1>15, <1>16 DEF IdInv

\* CheckCode keeps the invariant.
LEMMA CheckCodeKeeps ==
  ASSUME ConstantsOK, IdInv, NEW r \in Requests, CheckCode(r)
  PROVE  IdInv'
<1> PICK h : h = request[r]
  OBVIOUS
<1>1. At(r, "check")
  BY DEF CheckCode
<1>2. h \in Handler /\ h.step = "check" /\ Busy(r) /\ Wired(h)
  BY <1>1, Holding
<1>3. h.flow \in FlowIds /\ h.flow <= started[1] /\ h.phone \in Phones /\ h.value = NoValue
  BY <1>2 DEF Wired
<1>4. /\ UNCHANGED <<email, owner, born, licence, flow, link, pending, started>>
      /\ UNCHANGED <<logins, bought, freed, mishaps>>
  BY DEF CheckCode, Rows, Memory
<1>5. link \in [Users -> {"none", "offered", "started"}]
      /\ licence \in [Issuers -> {Nobody} \cup Users]
  BY DEF IdInv, TypeOK
<1>6. CASE Answer(r) /\ guesses' = guesses
  BY <1>2, <1>4, <1>5, <1>6, AnswerKeeps
<1>7. CASE Goto(r, "miss") /\ guesses' = [guesses EXCEPT ![h.flow] = @ + 1]
  BY <1>7, WrongKeeps
<1>8. CASE Goto(r, "hit") /\ guesses' = guesses
  <2> PICK g : g = [h EXCEPT !.step = "hit"]
    OBVIOUS
  <2>1. Go(r, g)
    BY <1>8 DEF Goto
  <2>2. g \in Handler /\ g.step = "hit" /\ g.flow = h.flow /\ g.phone = h.phone
        /\ g.value = h.value
    BY <1>2 DEF Handler
  <2>3. Wired(g) /\ NumberOK(g) /\ HomeOK(g) /\ \A n \in States : ~Carries(g, n)
    BY <1>3, <2>2 DEF Wired, NumberOK, HomeOK, Carries
  <2>4. Solo'
    BY <1>2, <1>4, <2>1, <2>2, SoloStep
  <2> QED
    BY <1>2, <1>4, <1>5, <1>8, <2>1, <2>2, <2>3, <2>4, HandsOn
<1> QED
  BY <1>6, <1>7, <1>8 DEF CheckCode

\* A flow that is dropped, or put back with its count, keeps the invariant.
LEMMA FlowWritten ==
  ASSUME ConstantsOK, IdInv, NEW r \in Requests, NEW h \in Handler \cup {Idle}, Go(r, h), Busy(r),
         NEW f \in FlowIds, f <= started[1], NEW a \in Flow \cup {NoFlow},
         flow' = [flow EXCEPT ![f] = a],
         UNCHANGED <<email, owner, born, licence, link, pending, started>>,
         UNCHANGED <<guesses, logins, bought, freed, mishaps>>,
         Wired(h), NumberOK(h), HomeOK(h), \A n \in States : ~Carries(h, n),
         h.step \notin {"check", "miss"},
         request[r].step \notin {"bind", "rollback", "set"},
         request[r].step = "miss" => request[r].flow = f,
         "overlap" \notin mishaps /\ a # NoFlow => guesses[f] = a.tries /\ a.tries < MaxOTP
  PROVE  IdInv'
<1>1. TypeOK'
  BY Moves DEF IdInv, TypeOK
<1>2. HistoriesOK'
  BY DEF IdInv, HistoriesOK
<1>3. ASSUME NEW q \in Requests PROVE Wired(request[q])'
  <2>1. CASE q = r
    BY <2>1, Moves DEF IdInv, Wired
  <2>2. CASE q # r
    BY <2>2, Moves DEF IdInv, Wired
  <2> QED
    BY <2>1, <2>2
<1>4. Numbers'
  <2>1. OwnersKept /\ NumberOK(h)'
    BY DEF OwnersKept, NumberOK, Named
  <2> QED
    BY <2>1, NumbersMove
<1>5. Nonces' /\ Solo'
  BY NoncesMove, SoloStep
<1>6. Homes'
  BY HomesMove
<1>7. Fresh'
  BY DEF IdInv, Fresh, HistoriesOK, FlowIds
<1>8. Guesses'
  <2> SUFFICES ASSUME "overlap" \notin mishaps
               PROVE  /\ \A q \in Requests : GuessOK(request[q])'
                      /\ \A k \in FlowIds :
                           /\ guesses[k] <= MaxOTP
                           /\ flow'[k] # NoFlow /\ ~Missing(k)' =>
                                guesses[k] = flow'[k].tries /\ flow'[k].tries < MaxOTP
    BY DEF Guesses
  <2>1. \A q \in Requests : q # r => request[q] = Idle
    BY DEF IdInv, Solo, Busy
  <2>2. ASSUME NEW q \in Requests PROVE GuessOK(request[q])'
    <3>1. request'[q] = h \/ request'[q] = Idle
      BY <2>1, Moves DEF IdInv
    <3>2. request'[q].step \notin {"check", "miss"}
      BY <3>1, IdleHolds
    <3> QED
      BY <3>2 DEF GuessOK
  <2>3. ASSUME NEW k \in FlowIds, k # f PROVE ~Missing(k) /\ flow'[k] = flow[k]
    <3>1. ~Missing(k)
      BY <2>1, <2>3, IdleHolds DEF Missing
    <3> QED
      BY <2>3, <3>1 DEF IdInv, TypeOK
  <2>4. flow'[f] = a
    BY DEF IdInv, TypeOK
  <2> QED
    BY <2>2, <2>3, <2>4 DEF IdInv, Guesses
<1> QED
  BY <1>1, <1>2, <1>3, <1>4, <1>5, <1>6, <1>7, <1>8 DEF IdInv

\* Miss keeps the invariant.
LEMMA MissKeepsInv ==
  ASSUME ConstantsOK, IdInv, NEW r \in Requests, Miss(r)
  PROVE  IdInv'
<1> PICK h : h = request[r]
  OBVIOUS
<1>1. At(r, "miss")
  BY DEF Miss
<1>2. /\ h \in Handler /\ h.step = "miss" /\ Busy(r) /\ Wired(h)
      /\ "overlap" \notin mishaps => GuessOK(h)
  BY <1>1, Holding
<1>3. h.flow \in FlowIds /\ h.flow <= started[1] /\ h.phone \in Phones
  BY <1>2 DEF Wired
<1>4. h.tries \in 0..MaxOTP /\ h.isNew \in BOOLEAN /\ MaxOTP \in Nat
  BY <1>2, NumbersAre DEF Handler
<1> PICK a : a = IF h.tries + 1 >= MaxOTP THEN NoFlow
                 ELSE [phone |-> h.phone, isNew |-> h.isNew, tries |-> h.tries + 1]
  OBVIOUS
<1>5. a \in Flow \cup {NoFlow} /\ (a # NoFlow => a.tries = h.tries + 1 /\ a.tries < MaxOTP)
  BY <1>3, <1>4 DEF Flow
<1>6. "overlap" \notin mishaps /\ a # NoFlow => guesses[h.flow] = a.tries /\ a.tries < MaxOTP
  BY <1>2, <1>5 DEF GuessOK
<1>7. /\ UNCHANGED <<email, owner, born, licence, link, pending, started>>
      /\ UNCHANGED <<guesses, logins, bought, freed, mishaps>>
      /\ Go(r, Idle) /\ flow' = [flow EXCEPT ![h.flow] = a]
  BY DEF Miss, Rows, History, Answer
<1> QED
  BY <1>2, <1>3, <1>5, <1>6, <1>7, IdleHolds, FlowWritten

\* Hit keeps the invariant.
LEMMA HitKeeps ==
  ASSUME ConstantsOK, IdInv, NEW r \in Requests, Hit(r)
  PROVE  IdInv'
<1> PICK h : h = request[r]
  OBVIOUS
<1>1. At(r, "hit")
  BY DEF Hit
<1>2. h \in Handler /\ h.step = "hit" /\ Busy(r) /\ Wired(h)
  BY <1>1, Holding
<1>3. h.flow \in FlowIds /\ h.flow <= started[1] /\ h.phone \in Phones /\ h.value = NoValue
  BY <1>2 DEF Wired
<1> PICK s : s = IF h.isNew THEN "create" ELSE "anchor"
  OBVIOUS
<1> PICK g : g = [h EXCEPT !.step = s, !.flow = 0, !.tries = 0]
  OBVIOUS
<1>4. s \in {"create", "anchor"}
  OBVIOUS
<1>5. g \in Handler /\ g.step = s /\ g.phone = h.phone /\ g.value = h.value
  BY <1>2, <1>4, ZerosAre DEF Handler
<1>6. g.phone # NoValue
  BY <1>3, <1>5, NumbersAre
<1>7. Wired(g) /\ NumberOK(g) /\ HomeOK(g) /\ \A n \in States : ~Carries(g, n)
  BY <1>3, <1>4, <1>5, <1>6 DEF Wired, NumberOK, HomeOK, Carries
<1>8. /\ UNCHANGED <<email, owner, born, licence, link, pending, started>>
      /\ UNCHANGED <<guesses, logins, bought, freed, mishaps>>
      /\ Go(r, g) /\ flow' = [flow EXCEPT ![h.flow] = NoFlow]
  BY DEF Hit, Rows, History
<1> QED
  BY <1>2, <1>3, <1>4, <1>5, <1>7, <1>8, FlowWritten

-----------------------------------------------------------------------------
(* State nonces and the sessions they open.                                  *)

\* SocialAuthorize keeps the invariant.
LEMMA SocialAuthorizeKeeps ==
  ASSUME ConstantsOK, IdInv, SocialAuthorize
  PROVE  IdInv'
<1> PICK k : k = started[2] + 1
  OBVIOUS
<1>1. /\ started[2] \in Nat /\ started[2] < NumStates /\ started \in [1..2 -> Nat]
      /\ NumStates \in Nat /\ started[1] \in Nat /\ started[1] <= NumFlows
  BY NumbersAre DEF SocialAuthorize, IdInv, HistoriesOK
<1>2. k \in States /\ started' = [started EXCEPT ![2] = k] /\ pending' = pending \cup {k}
  BY <1>1 DEF States, SocialAuthorize
<1>3. started'[2] = k /\ started'[1] = started[1] /\ started' \in [1..2 -> Nat]
  BY <1>1, <1>2
<1>4. /\ UNCHANGED <<email, owner, licence, born, flow, link, request, mishaps>>
      /\ UNCHANGED <<guesses, logins, bought, refused, freed>>
  BY DEF SocialAuthorize, Rows, History
<1>5. TypeOK'
  BY <1>2, <1>4 DEF IdInv, TypeOK
<1>6. HistoriesOK'
  BY <1>1, <1>2, <1>3, <1>4 DEF IdInv, HistoriesOK
<1>7. \A q \in Requests : Wired(request[q])'
  BY <1>3, <1>4 DEF IdInv, Wired
<1>8. Numbers'
  <2>1. OwnersKept
    BY <1>4 DEF OwnersKept
  <2> QED
    BY <1>4, <2>1, NumbersRest
<1>9. Nonces'
  <2>1. bought[k] = 0 /\ \A q \in Requests : ~Carries(request[q], k)
    BY <1>1, <1>2 DEF IdInv, Nonces, States
  <2>2. \A n \in States : n > started'[2] => n > started[2] /\ n # k
    BY <1>1, <1>3 DEF States
  <2>3. \A n \in States : n <= started[2] => n <= started'[2]
    BY <1>1, <1>3 DEF States
  <2> QED
    BY <1>2, <1>4, <2>1, <2>2, <2>3 DEF IdInv, Nonces
<1>10. Solo'
  BY <1>4, SoloRest
<1>11. Fresh'
  BY <1>3, <1>4 DEF IdInv, Fresh
<1>12. Guesses'
  BY <1>4, GuessesRest
<1>13. Homes'
  BY <1>4 DEF IdInv, Homes, HomeOK, Exists, Reachable, Held, Expected, Quiet
<1> QED
  BY <1>5, <1>6, <1>7, <1>8, <1>9, <1>10, <1>11, <1>12, <1>13 DEF IdInv

\* Callback keeps the invariant.
LEMMA CallbackKeeps ==
  ASSUME ConstantsOK, IdInv, NEW r \in Requests, NEW n \in States, Callback(r, n)
  PROVE  IdInv'
<1> PICK g : g = [Blank EXCEPT !.step = "profile", !.state = n]
  OBVIOUS
<1>1. /\ Begin(r, g) /\ n \in pending /\ pending' = pending \ {n}
      /\ UNCHANGED <<email, owner, licence, born, flow, link, started>>
      /\ UNCHANGED <<guesses, logins, bought, refused, freed>>
  BY DEF Callback, Rows, History
<1>2. g \in Handler
  <2>1. n \in 0..NumStates /\ NoValue \in Values
    BY NumbersAre DEF States, Values
  <2> QED
    BY <2>1, ZerosAre DEF Handler, Blank
<1>3. g.step = "profile" /\ g.state = n /\ g.phone = NoValue
  BY DEF Blank
<1>4. Wired(g) /\ NumberOK(g)' /\ HomeOK(g) /\ GuessOK(g)
  BY <1>3 DEF Wired, NumberOK, HomeOK, GuessOK
<1>5. Go(r, g) /\ mishaps \subseteq mishaps' /\ Solo'
  BY <1>1, <1>2, SoloStart
<1>6. request[r].step = "idle"
  BY <1>1, IdleHolds DEF Begin, Busy
<1>7. HistoriesOK'
  BY <1>1 DEF IdInv, HistoriesOK
<1>8. Numbers'
  <2>1. OwnersKept
    BY <1>1 DEF OwnersKept
  <2> QED
    BY <1>1, <1>2, <1>4, <1>5, <2>1, NumbersMove
<1>9. Nonces'
  <2>1. bought[n] = 0 /\ n <= started[2]
    <3>1. started[2] \in Nat /\ n \in Nat
      BY DEF States, IdInv, HistoriesOK
    <3> QED
      BY <1>1, <3>1 DEF IdInv, Nonces
  <2>2. \A q \in Requests : ~Carries(request[q], n)
    BY <1>1 DEF IdInv, Nonces
  <2>3. \A q \in Requests : q # r => request'[q] = request[q]
    BY <1>2, <1>5, Moves DEF IdInv
  <2>4. request'[r] = g /\ \A m \in States : Carries(g, m) <=> m = n
    BY <1>2, <1>3, <1>5, Moves DEF IdInv, Carries
  <2> QED
    BY <1>1, <2>1, <2>2, <2>3, <2>4 DEF IdInv, Nonces
<1>10. /\ pending' \subseteq States /\ licence' \in [Issuers -> {Nobody} \cup Users]
       /\ link' \in [Users -> {"none", "offered", "started"}]
  BY <1>1 DEF IdInv, TypeOK
<1> QED
  BY <1>1, <1>2, <1>3, <1>4, <1>5, <1>6, <1>7, <1>8, <1>9, <1>10, HandlerMoves

\* OpenSession keeps the invariant.
LEMMA OpenSessionKeeps ==
  ASSUME ConstantsOK, IdInv, NEW r \in Requests, OpenSession(r)
  PROVE  IdInv'
<1> PICK h : h = request[r]
  OBVIOUS
<1>1. At(r, "session")
  BY DEF OpenSession
<1>2. h \in Handler /\ h.step = "session" /\ Busy(r) /\ Wired(h) /\ NumberOK(h)
  BY <1>1, Holding
<1>3. h.user \in Users /\ (h.phone = NoValue => h.state \in States)
      /\ h.phone \in Phones \cup {NoValue}
  BY <1>2 DEF Wired, Handler
<1>4. /\ Go(r, Idle)
      /\ UNCHANGED <<email, owner, licence, born, flow, pending, started>>
      /\ UNCHANGED <<guesses, refused, freed, mishaps>>
  BY DEF OpenSession, Answer, Rows
<1>5. Solo'
  BY <1>2, <1>4, SoloStep
<1>6. /\ pending' \subseteq States /\ licence' \in [Issuers -> {Nobody} \cup Users]
      /\ link' \in [Users -> {"none", "offered", "started"}]
  BY <1>3, <1>4 DEF OpenSession, IdInv, TypeOK
<1>7. \A q \in Requests : q # r => request'[q] = request[q]
  BY <1>4, Moves DEF IdInv
<1>8. request'[r] = Idle
  BY <1>4, Moves DEF IdInv
<1>9. OwnersKept /\ NumberOK(Idle)'
  BY <1>4, IdleHolds DEF OwnersKept
<1>10. HistoriesOK' /\ Numbers' /\ Nonces'
  <2>1. CASE h.phone # NoValue
    <3>1. logins' = logins \cup {<<h.phone, h.user>>} /\ bought' = bought
      BY <2>1 DEF OpenSession
    <3>2. HistoriesOK'
      BY <1>3, <1>4, <2>1, <3>1 DEF IdInv, HistoriesOK
    <3>3. Named(h.phone, h.user)
      BY <1>2, <2>1 DEF NumberOK
    <3>4. \A q \in Requests : NumberOK(request[q])'
      <4> SUFFICES ASSUME NEW q \in Requests PROVE NumberOK(request[q])'
        OBVIOUS
      <4>1. CASE q = r
        BY <1>8, <1>9, <4>1
      <4>2. CASE q # r
        BY <1>4, <1>7, <4>2 DEF IdInv, Numbers, NumberOK, Named
      <4> QED
        BY <4>1, <4>2
    <3>5. \A l \in logins' : Named(l[1], l[2])'
      BY <1>4, <3>1, <3>3 DEF IdInv, Numbers, Named
    <3>6. Numbers'
      BY <3>4, <3>5 DEF Numbers
    <3>7. Nonces'
      BY <1>4, <3>1, IdleHolds, NoncesMove
    <3> QED
      BY <3>2, <3>6, <3>7
  <2>2. CASE h.phone = NoValue
    <3>1. bought' = [bought EXCEPT ![h.state] = @ + 1] /\ logins' = logins
      BY <2>2 DEF OpenSession
    <3>2. HistoriesOK'
      BY <1>3, <1>4, <2>2, <3>1 DEF IdInv, HistoriesOK
    <3>3. Numbers'
      BY <1>4, <1>9, <3>1, NumbersMove
    <3> PICK n : n = h.state
      OBVIOUS
    <3>4. n \in States /\ Carries(request[r], n)
      BY <1>2, <1>3, <2>2 DEF Carries
    <3>5. /\ bought[n] = 0 /\ n \notin pending /\ n <= started[2]
          /\ \A q \in Requests : Carries(request[q], n) => q = r
      BY <3>4 DEF IdInv, Nonces
    <3>6. bought'[n] = 1 /\ \A m \in States : m # n => bought'[m] = bought[m]
      BY <3>1, <3>4, <3>5 DEF IdInv, HistoriesOK
    <3>7. \A q \in Requests : ~Carries(request'[q], n)
      BY <1>7, <1>8, <3>4, <3>5, IdleHolds
    <3>8. \A q \in Requests, m \in States : Carries(request'[q], m) => Carries(request[q], m)
      BY <1>7, <1>8, IdleHolds
    <3>9. ~(n > started[2])
      BY <3>4, <3>5 DEF States, IdInv, HistoriesOK
    <3>10. Nonces'
      BY <1>4, <3>5, <3>6, <3>7, <3>8, <3>9 DEF IdInv, Nonces
    <3> QED
      BY <3>2, <3>3, <3>10
  <2> QED
    BY <2>1, <2>2
<1> QED
  BY <1>2, <1>4, <1>5, <1>6, <1>10, IdleHolds, HandlerMoves

-----------------------------------------------------------------------------
(* Rows and anchors that are written.                                        *)

\* A number handed to somebody takes it from nobody.
LEMMA OwnersGrow ==
  ASSUME NEW p \in Phones, owner[p] = Nobody, freed' = freed, TypeOK,
         NEW u, owner' = [owner EXCEPT ![p] = u]
  PROVE  OwnersKept /\ owner'[p] = u /\ \A q \in Phones : q # p => owner'[q] = owner[q]
BY DEF OwnersKept, TypeOK

\* Create keeps the invariant.
LEMMA CreateKeeps ==
  ASSUME ConstantsOK, IdInv, NEW r \in Requests, Create(r)
  PROVE  IdInv'
<1> PICK h : h = request[r]
  OBVIOUS
<1>1. At(r, "create")
  BY DEF Create
<1>2. h \in Handler /\ h.step = "create" /\ Busy(r) /\ Wired(h)
  BY <1>1, Holding
<1>3. /\ h.phone # NoValue => h.value = NoValue
      /\ h.phone = NoValue => h.state \in States /\ h.value \in Emails
      /\ h.phone \in Phones \cup {NoValue}
  BY <1>2 DEF Wired, Handler
<1>4. /\ UNCHANGED <<owner, licence, flow, link, pending, started>>
      /\ UNCHANGED <<guesses, logins, bought, refused, freed, mishaps>>
  BY DEF Create, Memory, History
<1>5. link \in [Users -> {"none", "offered", "started"}]
      /\ licence \in [Issuers -> {Nobody} \cup Users]
  BY DEF IdInv, TypeOK
<1>6. CASE Answer(r) /\ UNCHANGED <<email, born>>
  BY <1>2, <1>4, <1>5, <1>6, AnswerKeeps
<1>7. CASE ~(Answer(r) /\ UNCHANGED <<email, born>>)
  <2> PICK u : u = born + 1
    OBVIOUS
  <2> PICK s : s = IF h.phone = NoValue THEN "session" ELSE "bind"
    OBVIOUS
  <2> PICK g : g = [h EXCEPT !.user = u, !.step = s]
    OBVIOUS
  <2>1. /\ NewUser(h.value) /\ Go(r, g)
    BY <1>7 DEF Create
  <2>2. /\ born \in Nat /\ born < NumUsers /\ born' = u /\ NumUsers \in Nat
        /\ email' = [email EXCEPT ![u] = h.value]
    BY <2>1, NumbersAre DEF NewUser, IdInv, HistoriesOK
  <2>3. u \in Users /\ u \in 0..NumUsers
    BY <2>2 DEF Users
  <2>4. s \in {"session", "bind"} /\ (s = "session" <=> h.phone = NoValue)
    OBVIOUS
  <2>5. g \in Handler /\ g.step = s /\ g.user = u /\ g.phone = h.phone /\ g.state = h.state
        /\ g.value = h.value
    BY <1>2, <2>3, <2>4 DEF Handler
  <2>6. Wired(g)
    BY <1>3, <2>3, <2>4, <2>5 DEF Wired
  <2>7. NumberOK(g)' /\ HomeOK(g)' /\ \A n \in States : Carries(g, n) => Carries(h, n)
    BY <1>2, <2>4, <2>5 DEF NumberOK, HomeOK, Carries
  <2>8. HistoriesOK' /\ OwnersKept
    BY <1>4, <2>2, <2>3 DEF IdInv, HistoriesOK, OwnersKept
  <2>9. /\ email' \in [Users -> Emails \cup {NoValue, "none"}]
        /\ owner' \in [Phones -> {Nobody} \cup Users]
    BY <1>3, <1>4, <2>2, <2>3 DEF IdInv, TypeOK
  <2>10. Homes'
    <3> SUFFICES ASSUME Quiet
                 PROVE  /\ \A q \in Requests : HomeOK(request[q])'
                        /\ \A v \in Users : Exists(v)' => Reachable(v)' \/ Expected(v)'
      BY <1>4 DEF Homes, Quiet
    <3>1. /\ request'[r] = g
          /\ \A q \in Requests : q # r => request'[q] = request[q]
      BY <2>1, <2>5, Moves DEF IdInv
    <3>2. ASSUME NEW q \in Requests PROVE HomeOK(request[q])'
      <4>1. CASE q = r
        BY <2>7, <3>1, <4>1 DEF HomeOK
      <4>2. CASE q # r
        BY <1>4, <3>1, <4>2 DEF IdInv, Homes, HomeOK, Held
      <4> QED
        BY <4>1, <4>2
    <3>3. ASSUME NEW v \in Users, v # u, Exists(v)' PROVE Reachable(v)' \/ Expected(v)'
      <4>1. email'[v] = email[v]
        BY <2>2, <3>3 DEF IdInv, TypeOK
      <4>2. Reachable(v) \/ Expected(v)
        BY <3>3, <4>1 DEF Exists, IdInv, Homes
      <4>3. Expected(v) => Expected(v)'
        BY <1>2, <3>1 DEF Expected
      <4>4. Reachable(v) => Reachable(v)'
        BY <1>4, <4>1 DEF Reachable, Held
      <4> QED
        BY <4>2, <4>3, <4>4
    <3>4. Reachable(u)' \/ Expected(u)'
      <4>1. CASE h.phone = NoValue
        <5>1. email'[u] = h.value /\ h.value # NoValue
          BY <1>3, <2>2, <2>3, <4>1, NumbersAre DEF IdInv, TypeOK
        <5> QED
          BY <5>1 DEF Reachable
      <4>2. CASE h.phone # NoValue
        BY <2>4, <2>5, <3>1, <4>2 DEF Expected
      <4> QED
        BY <4>1, <4>2
    <3> QED
      BY <3>2, <3>3, <3>4
  <2> QED
    BY <1>2, <1>4, <2>1, <2>4, <2>5, <2>6, <2>7, <2>8, <2>9, <2>10, RowsMove
<1> QED
  BY <1>6, <1>7

\* A number bound to its account keeps the invariant.
LEMMA BoundKeeps ==
  ASSUME ConstantsOK, IdInv, NEW r \in Requests, Bind(r), owner[request[r].phone] = Nobody
  PROVE  IdInv'
<1> PICK h : h = request[r]
  OBVIOUS
<1>1. At(r, "bind")
  BY DEF Bind
<1>2. /\ h \in Handler /\ h.step = "bind" /\ Busy(r) /\ Wired(h)
      /\ "overlap" \notin mishaps => \A q \in Requests : Busy(q) => q = r
  BY <1>1, Holding
<1>3. h.phone \in Phones /\ h.value = NoValue /\ h.user \in Users /\ h.phone # NoValue
  BY <1>2, NumberOf DEF Wired
<1>4. /\ UNCHANGED <<email, born, licence, flow, link, pending, started>>
      /\ UNCHANGED <<guesses, logins, bought, refused, freed, mishaps>>
  BY DEF Bind, Memory, History
<1> PICK g : g = [h EXCEPT !.step = "session"]
  OBVIOUS
<1>5. Go(r, g) /\ owner' = [owner EXCEPT ![h.phone] = h.user]
  BY DEF Bind, Goto
<1>6. g \in Handler /\ g.step = "session" /\ g.user = h.user /\ g.phone = h.phone
      /\ g.value = h.value
  BY <1>2 DEF Handler
<1>7. OwnersKept /\ owner'[h.phone] = h.user
      /\ \A q \in Phones : q # h.phone => owner'[q] = owner[q]
  BY <1>3, <1>4, <1>5, OwnersGrow DEF IdInv
<1>8. Wired(g) /\ HomeOK(g)' /\ \A n \in States : ~Carries(g, n)
  BY <1>3, <1>6 DEF Wired, HomeOK, Carries
<1>9. NumberOK(g)'
  BY <1>6, <1>7 DEF NumberOK, Named
<1>10. HistoriesOK'
  BY <1>4 DEF IdInv, HistoriesOK
<1>11. /\ email' \in [Users -> Emails \cup {NoValue, "none"}]
       /\ owner' \in [Phones -> {Nobody} \cup Users]
  BY <1>3, <1>4, <1>5 DEF IdInv, TypeOK
<1>12. Homes'
  <2> SUFFICES ASSUME Quiet
               PROVE  /\ \A q \in Requests : HomeOK(request[q])'
                      /\ \A v \in Users : Exists(v)' => Reachable(v)' \/ Expected(v)'
    BY <1>4 DEF Homes, Quiet
  <2>1. \A q \in Requests : q # r => request'[q] = Idle
    BY <1>2, <1>5, <1>6, Moves DEF IdInv, Quiet, Busy
  <2>2. request'[r] = g
    BY <1>5, <1>6, Moves DEF IdInv
  <2>3. \A q \in Requests : HomeOK(request[q])'
    BY <1>8, <2>1, <2>2, IdleHolds DEF HomeOK
  <2>4. ASSUME NEW v \in Users, v # h.user, Exists(v)' PROVE Reachable(v)'
    <3>1. ~Expected(v)
      BY <1>2, <2>4, IdleHolds DEF Expected, Busy, Quiet
    <3>2. Reachable(v)
      BY <1>4, <2>4, <3>1 DEF Exists, IdInv, Homes
    <3> QED
      BY <1>3, <1>4, <1>7, <3>2 DEF Reachable, Held, Users, Nobody
  <2>5. Reachable(h.user)'
    BY <1>3, <1>7 DEF Reachable, Held
  <2> QED
    BY <2>3, <2>4, <2>5
<1> QED
  BY <1>2, <1>4, <1>5, <1>6, <1>7, <1>8, <1>9, <1>10, <1>11, <1>12, RowsMove

\* A number that is not bound keeps the invariant: the account is to be removed.
LEMMA UnboundKeeps ==
  ASSUME ConstantsOK, IdInv, NEW r \in Requests, At(r, "bind"), Goto(r, "rollback"),
         owner' = owner \/ ~Quiet',
         UNCHANGED <<email, born, licence, Memory, texted, History>>,
         mishaps \subseteq mishaps', OwnersKept,
         owner' \in [Phones -> {Nobody} \cup Users]
  PROVE  IdInv'
<1> PICK h : h = request[r]
  OBVIOUS
<1>2. h \in Handler /\ h.step = "bind" /\ Busy(r) /\ Wired(h)
  BY Holding
<1>3. h.phone \in Phones /\ h.value = NoValue /\ h.user \in Users
  BY <1>2 DEF Wired
<1> PICK g : g = [h EXCEPT !.step = "rollback"]
  OBVIOUS
<1>5. Go(r, g)
  BY DEF Goto
<1>6. g \in Handler /\ g.step = "rollback" /\ g.user = h.user /\ g.phone = h.phone
      /\ g.value = h.value
  BY <1>2 DEF Handler
<1>7. Wired(g) /\ NumberOK(g)' /\ \A n \in States : ~Carries(g, n)
  BY <1>3, <1>6 DEF Wired, NumberOK, Carries
<1>8. HistoriesOK'
  BY DEF IdInv, HistoriesOK, Memory, History
<1>9. email' \in [Users -> Emails \cup {NoValue, "none"}]
  BY DEF IdInv, TypeOK
<1>10. Homes'
  <2> SUFFICES ASSUME Quiet'
               PROVE  /\ \A q \in Requests : HomeOK(request[q])'
                      /\ \A v \in Users : Exists(v)' => Reachable(v)' \/ Expected(v)'
    BY DEF Homes
  <2>1. Quiet /\ UNCHANGED <<owner, email>>
    BY DEF Quiet
  <2>2. request'[r] = g /\ \A q \in Requests : q # r => request'[q] = request[q]
    BY <1>5, <1>6, Moves DEF IdInv
  <2>3. ASSUME NEW q \in Requests PROVE HomeOK(request[q])'
    <3>1. CASE q = r
      BY <1>6, <2>2, <3>1 DEF HomeOK
    <3>2. CASE q # r
      BY <2>1, <2>2, <3>2 DEF IdInv, Homes, HomeOK, Held
    <3> QED
      BY <3>1, <3>2
  <2>4. \A v \in Users : Expected(v) => Expected(v)'
    <3> SUFFICES ASSUME NEW v \in Users, Expected(v) PROVE Expected(v)'
      OBVIOUS
    <3> PICK q \in Requests : request[q].step \in {"bind", "rollback", "set"} /\ request[q].user = v
      BY DEF Expected
    <3>1. request'[q].step \in {"bind", "rollback", "set"} /\ request'[q].user = v
      BY <1>6, <2>2
    <3> QED
      BY <3>1 DEF Expected
  <2> QED
    BY <2>1, <2>3, <2>4 DEF IdInv, Homes, Exists, Reachable, Held
<1> QED
  BY <1>2, <1>5, <1>6, <1>7, <1>8, <1>9, <1>10, RowsMove DEF Memory, History

\* Bind keeps the invariant, whether it succeeds, collides or fails.
LEMMA BindKeeps ==
  ASSUME ConstantsOK, IdInv, NEW r \in Requests, Bind(r) \/ BindFails(r)
  PROVE  IdInv'
<1>1. At(r, "bind")
  BY DEF Bind, BindFails
<1>2. request[r] \in Handler /\ Wired(request[r]) /\ request[r].step = "bind"
  BY <1>1, Holding
<1>3. request[r].phone \in Phones /\ request[r].user \in Users
  BY <1>2 DEF Wired
<1>4. CASE Bind(r) /\ owner[request[r].phone] = Nobody
  BY <1>4, BoundKeeps
<1>5. CASE Bind(r) /\ owner[request[r].phone] # Nobody
  <2>1. /\ Goto(r, "rollback") /\ mishaps' = mishaps
        /\ UNCHANGED <<owner, email, born, licence, Memory, texted, History>>
    BY <1>5 DEF Bind
  <2>2. OwnersKept /\ owner' \in [Phones -> {Nobody} \cup Users]
    BY <2>1 DEF OwnersKept, History, IdInv, TypeOK
  <2> QED
    BY <1>1, <2>1, <2>2, UnboundKeeps
<1>6. CASE BindFails(r)
  <2>1. /\ Goto(r, "rollback") /\ mishaps \subseteq mishaps' /\ ~Quiet'
        /\ UNCHANGED <<email, born, licence, Memory, texted, History>>
    BY <1>6 DEF BindFails, Trouble, Quiet
  <2>2. freed' = freed
    BY <2>1 DEF History
  <2>3. OwnersKept
    BY <1>3, <1>6, <2>2 DEF BindFails, OwnersKept, IdInv, TypeOK
  <2>4. owner' \in [Phones -> {Nobody} \cup Users]
    BY <1>3, <1>6 DEF BindFails, IdInv, TypeOK
  <2> QED
    BY <1>1, <2>1, <2>3, <2>4, UnboundKeeps
<1> QED
  BY <1>4, <1>5, <1>6

\* Rollback keeps the invariant.
LEMMA RollbackKeeps ==
  ASSUME ConstantsOK, IdInv, NEW r \in Requests, Rollback(r)
  PROVE  IdInv'
<1> PICK h : h = request[r]
  OBVIOUS
<1>1. At(r, "rollback")
  BY DEF Rollback
<1>2. h \in Handler /\ h.step = "rollback" /\ Busy(r) /\ Wired(h)
  BY <1>1, Holding
<1>3. h.user \in Users
  BY <1>2 DEF Wired
<1>4. /\ Go(r, Idle) /\ email' = [email EXCEPT ![h.user] = "none"]
      /\ UNCHANGED <<owner, born, licence, flow, link, pending, started>>
      /\ UNCHANGED <<guesses, logins, bought, refused, freed, mishaps>>
  BY DEF Rollback, Answer, Memory, History
<1>5. HistoriesOK' /\ OwnersKept
  BY <1>4 DEF IdInv, HistoriesOK, OwnersKept
<1>6. /\ email' \in [Users -> Emails \cup {NoValue, "none"}]
      /\ owner' \in [Phones -> {Nobody} \cup Users]
  BY <1>4 DEF IdInv, TypeOK
<1>7. Homes'
  <2> SUFFICES ASSUME Quiet
               PROVE  /\ \A q \in Requests : HomeOK(request[q])'
                      /\ \A v \in Users : Exists(v)' => Reachable(v)' \/ Expected(v)'
    BY <1>4 DEF Homes, Quiet
  <2>1. request'[r] = Idle /\ \A q \in Requests : q # r => request'[q] = request[q]
    BY <1>4, Moves DEF IdInv
  <2>2. ASSUME NEW q \in Requests PROVE HomeOK(request[q])'
    <3>1. CASE q = r
      BY <2>1, <3>1, IdleHolds
    <3>2. CASE q # r
      BY <1>4, <2>1, <3>2 DEF IdInv, Homes, HomeOK, Held
    <3> QED
      BY <3>1, <3>2
  <2>3. ASSUME NEW v \in Users, Exists(v)' PROVE Reachable(v)' \/ Expected(v)'
    <3>1. v # h.user /\ email'[v] = email[v]
      BY <1>3, <1>4, <2>3 DEF Exists, IdInv, TypeOK
    <3>2. Reachable(v) \/ Expected(v)
      BY <2>3, <3>1 DEF Exists, IdInv, Homes
    <3>3. Expected(v) => Expected(v)'
      BY <2>1, <3>1 DEF Expected
    <3>4. Reachable(v) => Reachable(v)'
      BY <1>4, <3>1 DEF Reachable, Held
    <3> QED
      BY <3>2, <3>3, <3>4
  <2> QED
    BY <2>2, <2>3
<1> QED
  BY <1>2, <1>4, <1>5, <1>6, <1>7, IdleHolds, RowsMove

\* A row written back, by a link or a PATCH, keeps the invariant.
LEMMA WriteKeeps ==
  ASSUME ConstantsOK, IdInv, NEW r \in Requests, LinkWrite(r) \/ PatchWrite(r)
  PROVE  IdInv'
<1> PICK h : h = request[r]
  OBVIOUS
<1>1. PICK s \in {"linkwrite", "patch"} : At(r, s)
  BY DEF LinkWrite, PatchWrite
<1>2. /\ h \in Handler /\ h.step = s /\ Busy(r) /\ Wired(h) /\ (Quiet => HomeOK(h))
      /\ "overlap" \notin mishaps => \A q \in Requests : Busy(q) => q = r
  BY <1>1, Holding
<1>3. /\ h.user \in Users /\ h.value \in Emails \cup {NoValue}
      /\ s = "linkwrite" => h.value \in Emails
  BY <1>2 DEF Wired
<1> PICK u : u = h.user
  OBVIOUS
<1> PICK g : g = IF s = "patch" THEN Idle ELSE [h EXCEPT !.step = "unlink"]
  OBVIOUS
<1>4. /\ Go(r, g) /\ Written(u, h.value)
      /\ UNCHANGED <<owner, born, licence, flow, link, pending, started>>
      /\ UNCHANGED <<guesses, logins, bought, refused, freed, mishaps>>
  BY <1>2 DEF LinkWrite, PatchWrite, WriteUser, At, Memory, History
<1>5. g = Idle \/ (g \in Handler /\ g.step = "unlink" /\ g.user = u)
  BY <1>2 DEF Handler
<1>6. Wired(g) /\ NumberOK(g)' /\ HomeOK(g)' /\ g \in Handler \cup {Idle}
      /\ g.step \in {"idle", "unlink"} /\ \A n \in States : ~Carries(g, n)
  BY <1>3, <1>5, IdleHolds DEF Wired, NumberOK, HomeOK, Carries
<1>7. HistoriesOK' /\ OwnersKept
  BY <1>4 DEF IdInv, HistoriesOK, OwnersKept
<1>8. /\ email' \in [Users -> Emails \cup {NoValue, "none"}]
      /\ owner' \in [Phones -> {Nobody} \cup Users]
  BY <1>3, <1>4 DEF Written, IdInv, TypeOK
<1>9. \/ email' = email
      \/ Exists(u) /\ email' = [email EXCEPT ![u] = h.value]
  BY <1>4 DEF Written
<1>10. Homes'
  <2> SUFFICES ASSUME Quiet
               PROVE  /\ \A q \in Requests : HomeOK(request[q])'
                      /\ \A v \in Users : Exists(v)' => Reachable(v)' \/ Expected(v)'
    BY <1>4 DEF Homes, Quiet
  <2>1. request'[r] = g /\ \A q \in Requests : q # r => request'[q] = request[q]
    BY <1>4, <1>6, Moves DEF IdInv
  <2>2. ASSUME NEW q \in Requests PROVE HomeOK(request[q])'
    <3>1. CASE q = r
      BY <1>6, <2>1, <3>1 DEF HomeOK
    <3>2. CASE q # r
      BY <1>4, <2>1, <3>2 DEF IdInv, Homes, HomeOK, Held
    <3> QED
      BY <3>1, <3>2
  <2>3. \A v \in Users : Exists(v) => Reachable(v)
    BY <1>2, AloneFindsHomes DEF Quiet
  <2>4. ASSUME NEW v \in Users, email'[v] = email[v], Exists(v)' PROVE Reachable(v)'
    BY <1>4, <2>3, <2>4 DEF Exists, Reachable, Held
  <2>5. ASSUME email'[u] = h.value PROVE Reachable(u)'
    <3>1. CASE h.value \in Emails
      BY <2>5, <3>1, NumbersAre DEF Reachable
    <3>2. CASE h.value = NoValue
      <4>1. Held(u) # {}
        BY <1>2, <1>3, <3>2, NumbersAre DEF HomeOK
      <4> QED
        BY <1>4, <4>1 DEF Reachable, Held
    <3> QED
      BY <1>3, <3>1, <3>2
  <2>6. \A v \in Users : email'[v] = email[v] \/ (v = u /\ email'[u] = h.value)
    BY <1>3, <1>9 DEF IdInv, TypeOK
  <2> QED
    BY <2>2, <2>4, <2>5, <2>6
<1> QED
  BY <1>2, <1>4, <1>6, <1>7, <1>8, <1>10, RowsMove

\* Clear keeps the invariant.
LEMMA ClearKeeps ==
  ASSUME ConstantsOK, IdInv, NEW r \in Requests, Clear(r)
  PROVE  IdInv'
<1> PICK h : h = request[r]
  OBVIOUS
<1>1. At(r, "clear")
  BY DEF Clear
<1>2. /\ h \in Handler /\ h.step = "clear" /\ Busy(r) /\ Wired(h) /\ (Quiet => HomeOK(h))
      /\ "overlap" \notin mishaps => \A q \in Requests : Busy(q) => q = r
  BY <1>1, Holding
<1>3. h.phone \in Phones /\ h.value = NoValue /\ h.user \in Users
  BY <1>2 DEF Wired
<1> PICK g : g = [h EXCEPT !.step = "set"]
  OBVIOUS
<1>4. /\ Go(r, g) /\ freed' = freed \cup Held(h.user)
      /\ owner' = [p \in Phones |-> IF p \in Held(h.user) THEN Nobody ELSE owner[p]]
      /\ UNCHANGED <<email, born, licence, flow, link, pending, started>>
      /\ UNCHANGED <<guesses, logins, bought, refused, mishaps>>
  BY DEF Clear, Memory, Goto
<1>5. g \in Handler /\ g.step = "set" /\ g.user = h.user /\ g.phone = h.phone
      /\ g.value = h.value
  BY <1>2 DEF Handler
<1>6. Wired(g) /\ NumberOK(g)' /\ \A n \in States : ~Carries(g, n)
  BY <1>3, <1>5 DEF Wired, NumberOK, Carries
<1>7. HistoriesOK'
  BY <1>4 DEF IdInv, HistoriesOK, Held
<1>8. OwnersKept
  BY <1>4 DEF OwnersKept
<1>9. /\ email' \in [Users -> Emails \cup {NoValue, "none"}]
      /\ owner' \in [Phones -> {Nobody} \cup Users]
  BY <1>4 DEF IdInv, TypeOK
<1>10. Homes'
  <2> SUFFICES ASSUME Quiet
               PROVE  /\ \A q \in Requests : HomeOK(request[q])'
                      /\ \A v \in Users : Exists(v)' => Reachable(v)' \/ Expected(v)'
    BY <1>4 DEF Homes, Quiet
  <2>1. request'[r] = g /\ \A q \in Requests : q # r => request'[q] = Idle
    BY <1>2, <1>4, <1>5, Moves DEF IdInv, Quiet, Busy
  <2>2. owner'[h.phone] = Nobody
    BY <1>2, <1>3, <1>4 DEF HomeOK, Held
  <2>3. \A q \in Requests : HomeOK(request[q])'
    BY <1>5, <2>1, <2>2, IdleHolds DEF HomeOK
  <2>4. \A v \in Users : Exists(v) => Reachable(v)
    BY <1>2, AloneFindsHomes DEF Quiet
  <2>5. ASSUME NEW v \in Users, v # h.user, Exists(v)' PROVE Reachable(v)'
    <3>1. Held(v) \subseteq Held(v)'
      BY <1>4, <2>5 DEF Held
    <3>2. Reachable(v)
      BY <1>4, <2>4, <2>5 DEF Exists
    <3> QED
      BY <1>4, <3>1, <3>2 DEF Reachable
  <2>6. Expected(h.user)'
    BY <1>5, <2>1 DEF Expected
  <2> QED
    BY <2>3, <2>5, <2>6
<1> QED
  BY <1>2, <1>4, <1>5, <1>6, <1>7, <1>8, <1>9, <1>10, RowsMove

\* ClearFails keeps the invariant: what it removes is freed, and it is a fault.
LEMMA ClearFailsKeeps ==
  ASSUME ConstantsOK, IdInv, NEW r \in Requests, ClearFails(r)
  PROVE  IdInv'
<1> PICK h : h = request[r]
  OBVIOUS
<1>1. At(r, "clear")
  BY DEF ClearFails
<1>2. h \in Handler /\ h.step = "clear" /\ Busy(r) /\ Wired(h)
  BY <1>1, Holding
<1>3. h.phone \in Phones /\ h.value = NoValue /\ h.user \in Users
  BY <1>2 DEF Wired
<1> PICK g : g = [h EXCEPT !.step = "set"]
  OBVIOUS
<1>4. /\ Go(r, g) /\ mishaps \subseteq mishaps' /\ ~Quiet'
      /\ UNCHANGED <<email, born, licence, flow, link, pending, started>>
      /\ UNCHANGED <<guesses, logins, bought, refused>>
  BY DEF ClearFails, Trouble, Quiet, Memory, Goto
<1> PICK removed \in SUBSET Held(h.user) :
      /\ owner' = [p \in Phones |-> IF p \in removed THEN Nobody ELSE owner[p]]
      /\ freed' = freed \cup removed
  BY DEF ClearFails
<1>5. g \in Handler /\ g.step = "set" /\ g.user = h.user /\ g.phone = h.phone
      /\ g.value = h.value
  BY <1>2 DEF Handler
<1>6. Wired(g) /\ NumberOK(g)' /\ \A n \in States : ~Carries(g, n)
  BY <1>3, <1>5 DEF Wired, NumberOK, Carries
<1>7. HistoriesOK'
  BY <1>4 DEF IdInv, HistoriesOK, Held
<1>8. OwnersKept
  BY <1>4 DEF OwnersKept
<1>9. /\ email' \in [Users -> Emails \cup {NoValue, "none"}]
      /\ owner' \in [Phones -> {Nobody} \cup Users]
  BY <1>4 DEF IdInv, TypeOK
<1>10. Homes'
  BY <1>4 DEF Homes, Quiet
<1> QED
  BY <1>2, <1>4, <1>5, <1>6, <1>7, <1>8, <1>9, <1>10, RowsMove

\* Set keeps the invariant.
LEMMA SetKeeps ==
  ASSUME ConstantsOK, IdInv, NEW r \in Requests, Set(r)
  PROVE  IdInv'
<1> PICK h : h = request[r]
  OBVIOUS
<1>1. At(r, "set")
  BY DEF Set
<1>2. /\ h \in Handler /\ h.step = "set" /\ Busy(r) /\ Wired(h) /\ (Quiet => HomeOK(h))
      /\ "overlap" \notin mishaps => \A q \in Requests : Busy(q) => q = r
  BY <1>1, Holding
<1>3. h.phone \in Phones /\ h.value = NoValue /\ h.user \in Users
  BY <1>2 DEF Wired
<1>4. /\ Go(r, Idle)
      /\ owner' = [owner EXCEPT ![h.phone] = IF @ = Nobody THEN h.user ELSE @]
      /\ UNCHANGED <<email, born, licence, flow, link, pending, started>>
      /\ UNCHANGED <<guesses, logins, bought, refused, freed, mishaps>>
  BY DEF Set, Memory, Answer, History
<1>5. HistoriesOK'
  BY <1>4 DEF IdInv, HistoriesOK
<1>6. \A p \in Phones :
        owner'[p] = owner[p] \/ (p = h.phone /\ owner[p] = Nobody /\ owner'[p] = h.user)
  BY <1>3, <1>4 DEF IdInv, TypeOK
<1>7. OwnersKept
  BY <1>4, <1>6 DEF OwnersKept
<1>8. /\ email' \in [Users -> Emails \cup {NoValue, "none"}]
      /\ owner' \in [Phones -> {Nobody} \cup Users]
  BY <1>3, <1>4 DEF IdInv, TypeOK
<1>9. Homes'
  <2> SUFFICES ASSUME Quiet
               PROVE  /\ \A q \in Requests : HomeOK(request[q])'
                      /\ \A v \in Users : Exists(v)' => Reachable(v)' \/ Expected(v)'
    BY <1>4 DEF Homes, Quiet
  <2>1. \A q \in Requests : request'[q] = Idle
    BY <1>2, <1>4, Moves DEF IdInv, Quiet, Busy
  <2>2. \A q \in Requests : HomeOK(request[q])'
    BY <2>1, IdleHolds
  <2>3. owner'[h.phone] = h.user
    BY <1>2, <1>3, <1>4 DEF HomeOK, IdInv, TypeOK
  <2>4. Reachable(h.user)'
    BY <1>3, <2>3 DEF Reachable, Held
  <2>5. ASSUME NEW v \in Users, v # h.user, Exists(v)' PROVE Reachable(v)'
    <3>1. ~Expected(v)
      BY <1>2, <2>5, IdleHolds DEF Expected, Busy, Quiet
    <3>2. Reachable(v)
      BY <1>4, <2>5, <3>1 DEF Exists, IdInv, Homes
    <3>3. Held(v) \subseteq Held(v)'
      BY <1>6 DEF Held, Users, Nobody
    <3> QED
      BY <1>4, <3>2, <3>3 DEF Reachable
  <2> QED
    BY <2>2, <2>4, <2>5
<1> QED
  BY <1>2, <1>4, <1>5, <1>7, <1>8, <1>9, IdleHolds, RowsMove

-----------------------------------------------------------------------------
(* Failures, the users API, owners, expiry and restarts.                     *)

\* StoreFails keeps the invariant.
LEMMA StoreFailsKeeps ==
  ASSUME ConstantsOK, IdInv, NEW r \in Requests, StoreFails(r)
  PROVE  IdInv'
<1>1. Busy(r) /\ Answer(r) /\ request[r].step # "miss" /\ mishaps \subseteq mishaps' /\ ~Quiet'
  BY DEF StoreFails, Trouble, Quiet
<1>2. /\ UNCHANGED <<email, owner, born, flow, pending, started, guesses, logins, bought, freed>>
      /\ link' = link /\ licence' = licence
  BY DEF StoreFails, Rows, Memory, History
<1>3. link \in [Users -> {"none", "offered", "started"}]
      /\ licence \in [Issuers -> {Nobody} \cup Users]
  BY DEF IdInv, TypeOK
<1> QED
  BY <1>1, <1>2, <1>3, AnswerKeeps

\* CreateUser keeps the invariant.
LEMMA CreateUserKeeps ==
  ASSUME ConstantsOK, IdInv, NEW e \in Emails, CreateUser(e)
  PROVE  IdInv'
<1> PICK u : u = born + 1
  OBVIOUS
<1>1. /\ born \in Nat /\ born < NumUsers /\ born' = u /\ NumUsers \in Nat
      /\ email' = [email EXCEPT ![u] = e]
  BY NumbersAre DEF CreateUser, NewUser, IdInv, HistoriesOK
<1>2. u \in Users /\ u \in 0..NumUsers
  BY <1>1 DEF Users
<1>3. /\ UNCHANGED <<owner, licence, flow, link, pending, started, request>>
      /\ UNCHANGED <<guesses, logins, bought, refused, freed, mishaps>>
  BY DEF CreateUser, Memory, History
<1>4. HistoriesOK' /\ OwnersKept
  BY <1>1, <1>2, <1>3 DEF IdInv, HistoriesOK, OwnersKept
<1>5. /\ email' \in [Users -> Emails \cup {NoValue, "none"}]
      /\ owner' \in [Phones -> {Nobody} \cup Users]
  BY <1>1, <1>3 DEF IdInv, TypeOK
<1>6. Homes'
  <2>1. \A v \in Users : v # u => email'[v] = email[v]
    BY <1>1 DEF IdInv, TypeOK
  <2>2. email'[u] = e /\ e # NoValue
    BY <1>1, <1>2, NumbersAre DEF IdInv, TypeOK
  <2> QED
    BY <1>3, <2>1, <2>2 DEF IdInv, Homes, HomeOK, Held, Exists, Reachable, Expected, Quiet
<1> QED
  BY <1>3, <1>4, <1>5, <1>6, RowsRest

\* DeleteUser keeps the invariant.
LEMMA DeleteUserKeeps ==
  ASSUME ConstantsOK, IdInv, NEW u \in Users, DeleteUser(u)
  PROVE  IdInv'
<1>1. /\ UNCHANGED <<owner, licence, born, flow, link, pending, started, request>>
      /\ UNCHANGED <<guesses, logins, bought, refused, freed>>
      /\ mishaps \subseteq mishaps' /\ email' = [email EXCEPT ![u] = "none"]
  BY DEF DeleteUser, Trouble, Memory, History
<1>2. HistoriesOK' /\ OwnersKept
  BY <1>1 DEF IdInv, HistoriesOK, OwnersKept
<1>3. /\ email' \in [Users -> Emails \cup {NoValue, "none"}]
      /\ owner' \in [Phones -> {Nobody} \cup Users]
  BY <1>1 DEF IdInv, TypeOK
<1>4. Homes'
  <2>1. \A v \in Users : Exists(v)' => email'[v] = email[v]
    BY <1>1 DEF IdInv, TypeOK, Exists
  <2> QED
    BY <1>1, <2>1 DEF IdInv, Homes, HomeOK, Held, Exists, Reachable, Expected, Quiet
<1> QED
  BY <1>1, <1>2, <1>3, <1>4, RowsRest

\* RemoveIdentity keeps the invariant.
LEMMA RemoveIdentityKeeps ==
  ASSUME ConstantsOK, IdInv, NEW p \in Phones, RemoveIdentity(p)
  PROVE  IdInv'
<1>1. /\ UNCHANGED <<email, licence, born, flow, link, pending, started, request>>
      /\ UNCHANGED <<guesses, logins, bought, refused>>
      /\ mishaps \subseteq mishaps' /\ ~Quiet'
      /\ owner' = [owner EXCEPT ![p] = Nobody] /\ freed' = freed \cup {p}
  BY DEF RemoveIdentity, Trouble, Memory, Quiet
<1>2. HistoriesOK' /\ OwnersKept
  BY <1>1 DEF IdInv, HistoriesOK, OwnersKept, TypeOK
<1>3. /\ email' \in [Users -> Emails \cup {NoValue, "none"}]
      /\ owner' \in [Phones -> {Nobody} \cup Users]
  BY <1>1 DEF IdInv, TypeOK
<1>4. Homes'
  BY <1>1 DEF Homes
<1> QED
  BY <1>1, <1>2, <1>3, <1>4, RowsRest

\* Expire keeps the invariant.
LEMMA ExpireKeeps ==
  ASSUME ConstantsOK, IdInv, Expire
  PROVE  IdInv'
<1>1. /\ UNCHANGED <<email, owner, licence, born, flow, link, started, request>>
      /\ UNCHANGED <<guesses, logins, bought, refused, freed>>
      /\ mishaps \subseteq mishaps' /\ pending' \subseteq pending
  BY DEF Expire, Trouble, Rows, History
<1>2. HistoriesOK' /\ OwnersKept
  BY <1>1 DEF IdInv, HistoriesOK, OwnersKept
<1>3. /\ email' \in [Users -> Emails \cup {NoValue, "none"}]
      /\ owner' \in [Phones -> {Nobody} \cup Users]
  BY <1>1 DEF IdInv, TypeOK
<1>4. Homes'
  BY <1>1 DEF IdInv, Homes, HomeOK, Held, Exists, Reachable, Expected, Quiet
<1> QED
  BY <1>1, <1>2, <1>3, <1>4, RowsRest

\* Restart keeps the invariant.
LEMMA RestartKeeps ==
  ASSUME ConstantsOK, IdInv, Restart
  PROVE  IdInv'
<1>1. /\ UNCHANGED <<email, owner, licence, born, started>>
      /\ UNCHANGED <<guesses, logins, bought, refused, freed>>
      /\ mishaps \subseteq mishaps' /\ ~Quiet' /\ pending' = {}
      /\ flow' = [f \in FlowIds |-> NoFlow] /\ link' = [u \in Users |-> "none"]
      /\ request' = [r \in Requests |-> Idle]
  BY DEF Restart, Trouble, Rows, History, Quiet
<1>2. TypeOK'
  BY <1>1 DEF IdInv, TypeOK
<1>3. HistoriesOK' /\ OwnersKept
  BY <1>1 DEF IdInv, HistoriesOK, OwnersKept
<1>4. \A r \in Requests : request'[r] = Idle
  BY <1>1
<1>5. \A r \in Requests : Wired(request[r])' /\ NumberOK(request[r])' /\ GuessOK(request[r])'
  BY <1>4, IdleHolds DEF Wired, NumberOK, GuessOK
<1>6. Numbers'
  <2>1. \A l \in logins : Named(l[1], l[2])'
    BY <1>3, LoginsStay DEF IdInv, Numbers
  <2> QED
    BY <1>1, <1>5, <2>1 DEF Numbers
<1>7. Nonces'
  BY <1>1, <1>4, IdleHolds DEF IdInv, Nonces
<1>8. Fresh' /\ Solo'
  BY <1>1, <1>4 DEF IdInv, Fresh, Solo, Busy
<1>9. Guesses'
  BY <1>1, <1>5 DEF IdInv, Guesses
<1>10. Homes'
  BY <1>1 DEF Homes
<1> QED
  BY <1>2, <1>3, <1>5, <1>6, <1>7, <1>8, <1>9, <1>10 DEF IdInv

\* A step that changes nothing keeps the invariant.
LEMMA StutterKeeps ==
  ASSUME IdInv, UNCHANGED vars
  PROVE  IdInv'
<1>1. /\ UNCHANGED <<email, owner, licence, flow, link, stale, texted, pending, request>>
      /\ UNCHANGED <<mishaps, started, born, guesses, logins, bought, refused, freed>>
  BY DEF vars
<1>2. TypeOK' /\ HistoriesOK' /\ Fresh' /\ Solo'
  BY <1>1 DEF IdInv, TypeOK, HistoriesOK, Fresh, Solo, Busy
<1>3. Numbers' /\ Nonces' /\ \A r \in Requests : Wired(request[r])'
  BY <1>1 DEF IdInv, Numbers, NumberOK, Named, Nonces, Wired
<1>4. Guesses' /\ Homes'
  BY <1>1 DEF IdInv, Guesses, GuessOK, Missing, Homes, HomeOK, Held, Exists, Reachable,
              Expected, Quiet
<1> QED
  BY <1>2, <1>3, <1>4 DEF IdInv

\* Every step keeps the invariant.
LEMMA NextInv == ASSUME ConstantsOK PROVE IdInv /\ [Next]_vars => IdInv'
<1> SUFFICES ASSUME IdInv, [Next]_vars PROVE IdInv'
  OBVIOUS
<1>1. CASE Environment
  BY <1>1, SubmitKeeps, RemoveIdentityKeeps, SocialAuthorizeKeeps, CreateUserKeeps,
     DeleteUserKeeps, ExpireKeeps, RestartKeeps DEF Environment
<1>2. ASSUME NEW r \in Requests, Step(r) PROVE IdInv'
  <2>1. CASE CheckCode(r) \/ Miss(r) \/ Hit(r) \/ Anchor(r) \/ Load(r)
    BY <2>1, CheckCodeKeeps, MissKeepsInv, HitKeeps, AnchorKeeps, LoadKeeps
  <2>2. CASE Create(r) \/ Bind(r) \/ BindFails(r) \/ Rollback(r) \/ OpenSession(r)
    BY <2>2, CreateKeeps, BindKeeps, RollbackKeeps, OpenSessionKeeps
  <2>3. CASE Profile(r) \/ ByEmail(r) \/ PutLink(r) \/ LinkLoad(r) \/ LinkWrite(r) \/ DropLink(r)
    BY <2>3, ProfileKeeps, ByEmailKeeps, PutLinkKeeps, LinkLoadKeeps, WriteKeeps
  <2>4. CASE PatchWrite(r) \/ Clear(r) \/ ClearFails(r) \/ Set(r)
    BY <2>4, WriteKeeps, ClearKeeps, ClearFailsKeeps, SetKeeps
  <2>5. CASE ClearLicence(r) \/ ClearLicenceFails(r) \/ StoreLicence(r) \/ StoreFails(r)
    BY <2>5, ClearLicenceKeeps, ClearLicenceFailsKeeps, StoreLicenceKeeps, StoreFailsKeeps
  <2> QED
    BY <1>2, <2>1, <2>2, <2>3, <2>4, <2>5 DEF Step
<1>3. ASSUME NEW r \in Requests, Start(r) PROVE IdInv'
  BY <1>3, VerifyKeeps, CallbackKeeps, LinkStartsKeep, PatchKeeps, SetUserPhoneKeeps,
     RecordMDLKeeps DEF Start
<1>4. CASE UNCHANGED vars
  BY <1>4, StutterKeeps
<1> QED
  BY <1>1, <1>2, <1>3, <1>4 DEF Next

-----------------------------------------------------------------------------
\* IdInv is an invariant.
THEOREM Invariance == ASSUME ConstantsOK PROVE Spec => []IdInv
<1>1. Init => IdInv
  BY InitInv
<1>2. IdInv /\ [Next]_vars => IdInv'
  BY NextInv
<1> QED
  BY <1>1, <1>2, PTL DEF Spec

\* Users, anchors, flows, links, nonces and handlers keep their types.
THEOREM TypeCorrect == ASSUME ConstantsOK PROVE Spec => []TypeOK
<1>1. IdInv => TypeOK
  BY DEF IdInv
<1> QED
  BY <1>1, Invariance, PTL

\* A number signs in as one account, whatever races, fails or is deleted, until
\* an owner takes the number away (resolveUser, SetUserPhone, RemoveIdentity).
THEOREM OneAccount == ASSUME ConstantsOK PROVE Spec => []OneAccountPerNumber
<1>1. IdInv => OneAccountPerNumber
  BY DEF IdInv, Numbers, Named, OneAccountPerNumber
<1> QED
  BY <1>1, Invariance, PTL

\* While nothing fails, stops, overlaps or is taken away, an account has an email
\* or a number, or a handler that is about to bind or remove it (resolveUser,
\* SetUserPhone, the whole-row PATCH).
THEOREM NobodyStranded == ASSUME ConstantsOK PROVE Spec => []NoStrandedUser
<1>1. ASSUME IdInv PROVE NoStrandedUser
  <2>1. \A u \in Users : Expected(u) => InHand(u)
    BY <1>1, AtHandler DEF Expected, InHand, IdInv
  <2> QED
    BY <1>1, <2>1 DEF IdInv, Homes, Quiet, NoStrandedUser
<1> QED
  BY <1>1, Invariance, PTL

\* phoneMaxOTP bounds the wrong codes of a flow when requests do not overlap
\* (Verify of phone_login.go, which counts on a copy).
THEOREM GuessesLimited == ASSUME ConstantsOK PROVE Spec => []GuessesBounded
<1>1. IdInv => GuessesBounded
  BY DEF IdInv, Guesses, GuessesBounded
<1> QED
  BY <1>1, Invariance, PTL

\* However many callbacks race with one state nonce, it opens at most one
\* session (takePending).
THEOREM NonceBuysOne == ASSUME ConstantsOK PROVE Spec => []StateBuysOne
<1>1. IdInv => StateBuysOne
  BY DEF IdInv, Nonces, StateBuysOne
<1> QED
  BY <1>1, Invariance, PTL

-----------------------------------------------------------------------------
(***************************************************************************)
(* Verifications, for any number of workspaces, wallets, verifications and *)
(* overlapping requests; V is that specification, and the names it shares  *)
(* with Identities have a V before them.                                   *)
(*                                                                         *)
(* The argument: a proof is minted for the row it is written on, and only  *)
(* pending rows are purged, so that a proof once read from its row is of a *)
(* verification that stays.  What a submission holds is weaker, since its  *)
(* row may be purged, or written by another submission, under it; that is  *)
(* why an outcome is final only while no two requests overlap, and the     *)
(* invariant says what a submission that is alone may rely on.             *)
(***************************************************************************)
CONSTANTS
  VRequests, VTenants, NumVerifications, VTTL, ProofTTL, Strict, VNumKeys,
  VMaxMishaps, VMaxTime
VARIABLES
  row, opened, signing, held, accepted, clock, submission, trouble

V == INSTANCE Verifications WITH
  cached <- held, MaxMishaps <- VMaxMishaps, MaxTime <- VMaxTime,
  mishaps <- trouble, now <- clock, NumKeys <- VNumKeys,
  published <- signing, request <- submission, Requests <- VRequests,
  Tenants <- VTenants, TTL <- VTTL

\* A wallet's part in a proof: its device signed the request handed out for
\* this verification, and its issuer is anchored where that is required.
Backed(p) ==
  /\ p.bound => p.by.over = p.vrf /\ p.vrf \in opened
  /\ p.trusted \/ Strict => p.by.anchored

\* A verification that came to its end, for workspace t.
Ended(v, t) == v \in DOMAIN row /\ row[v].status \in V!Settled /\ row[v].tenant = t

\* A proof stands on the row it was minted for.
RowOK(v) ==
  row[v].status # "gone" /\ row[v].proof # V!NoProof =>
    /\ row[v].status \in V!Settled
    /\ Backed(row[v].proof)
    /\ row[v].proof.vrf = v /\ row[v].proof.tenant = row[v].tenant

\* A submission carries a proof for its row, as long as that is there.
SubmissionOK(h) ==
  h.op = "submit" =>
    /\ h.id \in DOMAIN row
    /\ h.proof # V!NoProof =>
         /\ Backed(h.proof) /\ h.proof.vrf = h.id
         /\ row[h.id].status # "gone" => row[h.id].tenant = h.proof.tenant

\* A poll carries a proof of a verification that ended.
PollingOK(h) ==
  h.op \in {"keys", "check", "refetch"} =>
    Backed(h.proof) /\ Ended(h.proof.vrf, h.proof.tenant)

AcceptedOK(one) == Backed(one.proof) /\ Ended(one.proof.vrf, one.tenant)

\* One request at a time: nobody settles the row of a submission before it does.
Alone ==
  "overlap" \notin trouble =>
    /\ \A r, q \in VRequests : V!Busy(r) /\ V!Busy(q) => r = q
    /\ \A r \in VRequests :
         V!At(r, "submit") => row[submission[r].id].status \in {"pending", "gone"}

VInv ==
  /\ V!TypeOK /\ Alone
  /\ \A v \in DOMAIN row : RowOK(v)
  /\ \A one \in accepted : AcceptedOK(one)
  /\ \A r \in VRequests : SubmissionOK(submission[r]) /\ PollingOK(submission[r])
-----------------------------------------------------------------------------
\* The bounds are numbers.
LEMMA NumbersOK ==
  ASSUME V!ConstantsOK
  PROVE  /\ NumVerifications \in Nat /\ VTTL \in Nat /\ ProofTTL \in Nat
         /\ VMaxTime \in Nat /\ VNumKeys \in Nat /\ VNumKeys >= 1
BY DEF V!ConstantsOK

\* The operation of a handler tells what it holds.
LEMMA HandlerKinds ==
  ASSUME NEW h \in V!Handler \cup {V!Idle}
  PROVE  /\ h.op = "submit" => h \in V!Submission
         /\ h.op \in {"keys", "check", "refetch"} => h \in V!Polling
         /\ h # V!Idle => h.op # "idle"
BY DEF V!Handler, V!Submission, V!Polling, V!Idle

\* An idle handler holds nothing.
LEMMA IdleOK ==
  /\ SubmissionOK(V!Idle) /\ PollingOK(V!Idle) /\ SubmissionOK(V!Idle)' /\ PollingOK(V!Idle)'
<1>1. V!Idle.op \notin {"submit", "keys", "check", "refetch"}
  BY DEF V!Idle
<1> QED
  BY <1>1 DEF SubmissionOK, PollingOK, V!Idle

\* The initial states satisfy the invariant.
LEMMA VInitInv == ASSUME V!ConstantsOK PROVE V!Init => VInv
<1> SUFFICES ASSUME V!Init PROVE VInv
  OBVIOUS
<1>1. V!TypeOK
  BY NumbersOK DEF V!Init, V!TypeOK, V!NoKey
<1>2. \A r \in VRequests : submission[r] = V!Idle
  BY DEF V!Init
<1>3. Alone
  BY <1>2 DEF Alone, V!Busy, V!At, V!Idle
<1>4. \A r \in VRequests : SubmissionOK(submission[r]) /\ PollingOK(submission[r])
  BY <1>2, IdleOK
<1>5. DOMAIN row = {} /\ accepted = {}
  BY DEF V!Init
<1> QED
  BY <1>1, <1>3, <1>4, <1>5 DEF VInv
-----------------------------------------------------------------------------
(* How rows and request objects change under those who hold proofs.          *)

\* Rows are added, settled and purged while pending; request objects are handed
\* out and not taken back.
RowsGo ==
  /\ DOMAIN row \subseteq DOMAIN row' /\ opened \subseteq opened'
  /\ \A v \in DOMAIN row :
       /\ row[v].status \in V!Settled =>
            row'[v].status \in V!Settled /\ row'[v].tenant = row[v].tenant
       /\ row'[v].status # "gone" =>
            row[v].status # "gone" /\ row'[v].tenant = row[v].tenant

\* Nothing at all happens to them.
LEMMA NoRowGoes == UNCHANGED <<row, opened>> => RowsGo
BY DEF RowsGo

\* A wallet's part is not taken back.
LEMMA BackedStays ==
  ASSUME NEW p, RowsGo, Backed(p)
  PROVE  Backed(p)'
BY DEF RowsGo, Backed

\* A verification that ended stays ended.
LEMMA EndedStays ==
  ASSUME NEW v, NEW t, RowsGo, Ended(v, t)
  PROVE  Ended(v, t)'
BY DEF RowsGo, Ended

\* A handler that does not move keeps what it holds.
LEMMA HandlerStays ==
  ASSUME NEW h, RowsGo, SubmissionOK(h), PollingOK(h)
  PROVE  SubmissionOK(h)' /\ PollingOK(h)'
<1>1. SubmissionOK(h)'
  <2> SUFFICES ASSUME h.op = "submit"
               PROVE  /\ h.id \in DOMAIN row'
                      /\ h.proof # V!NoProof =>
                           /\ Backed(h.proof)' /\ h.proof.vrf = h.id
                           /\ row'[h.id].status # "gone" =>
                                row'[h.id].tenant = h.proof.tenant
    BY DEF SubmissionOK
  <2>1. h.id \in DOMAIN row /\ h.id \in DOMAIN row'
    BY DEF SubmissionOK, RowsGo
  <2>2. ASSUME h.proof # V!NoProof
        PROVE  /\ Backed(h.proof)' /\ h.proof.vrf = h.id
               /\ row'[h.id].status # "gone" => row'[h.id].tenant = h.proof.tenant
    <3>1. PICK p : p = h.proof
      OBVIOUS
    <3>2. Backed(p) /\ p.vrf = h.id
      BY <2>2, <3>1 DEF SubmissionOK
    <3>3. Backed(p)'
      BY <3>2, BackedStays
    <3>4. row'[h.id].status # "gone" => row'[h.id].tenant = h.proof.tenant
      BY <2>1, <2>2 DEF SubmissionOK, RowsGo
    <3> QED
      BY <3>1, <3>2, <3>3, <3>4
  <2> QED
    BY <2>1, <2>2
<1>2. PollingOK(h)'
  BY BackedStays, EndedStays DEF PollingOK
<1> QED
  BY <1>1, <1>2

\* One handler moves on, and the others keep what they hold.
LEMMA HandlersStay ==
  ASSUME VInv, RowsGo, NEW r \in VRequests, NEW k, V!Go(r, k), SubmissionOK(k)', PollingOK(k)'
  PROVE  (\A q \in VRequests : SubmissionOK(submission[q]) /\ PollingOK(submission[q]))'
<1> SUFFICES ASSUME NEW q \in VRequests
             PROVE  SubmissionOK(submission[q])' /\ PollingOK(submission[q])'
  OBVIOUS
<1>1. submission' = [submission EXCEPT ![r] = k] /\ submission \in [VRequests -> V!Handler \cup {V!Idle}]
  BY DEF V!Go, VInv, V!TypeOK
<1>2. PICK h : h = submission'[q]
  OBVIOUS
<1>3. SubmissionOK(h)' /\ PollingOK(h)'
  <2>1. CASE q = r
    <3>1. h = k
      BY <1>1, <1>2, <2>1
    <3> QED
      BY <3>1
  <2>2. CASE q # r
    <3>1. h = submission[q]
      BY <1>1, <1>2, <2>2
    <3>2. SubmissionOK(h) /\ PollingOK(h)
      BY <3>1 DEF VInv
    <3> QED
      BY <3>2, HandlerStays
  <2> QED
    BY <2>1, <2>2
<1> QED
  BY <1>2, <1>3 DEF SubmissionOK, PollingOK

\* Handlers stay, or are idle.
LEMMA HandlersRest ==
  ASSUME VInv, RowsGo, \A q \in VRequests : submission'[q] \in {submission[q], V!Idle}
  PROVE  (\A q \in VRequests : SubmissionOK(submission[q]) /\ PollingOK(submission[q]))'
<1> SUFFICES ASSUME NEW q \in VRequests
             PROVE  SubmissionOK(submission[q])' /\ PollingOK(submission[q])'
  OBVIOUS
<1>1. PICK h : h = submission'[q]
  OBVIOUS
<1>2. SubmissionOK(h)' /\ PollingOK(h)'
  <2>1. CASE h = V!Idle
    BY <2>1, IdleOK DEF SubmissionOK, PollingOK
  <2>2. CASE h = submission[q]
    <3>1. SubmissionOK(h) /\ PollingOK(h)
      BY <2>2 DEF VInv
    <3> QED
      BY <3>1, HandlerStays
  <2> QED
    BY <1>1, <2>1, <2>2
<1> QED
  BY <1>1, <1>2 DEF SubmissionOK, PollingOK

\* Proofs on rows and proofs accepted, while rows do not change.
LEMMA RowsStay ==
  ASSUME VInv, UNCHANGED row, opened \subseteq opened'
  PROVE  (\A v \in DOMAIN row : RowOK(v))'
<1> SUFFICES ASSUME NEW v \in DOMAIN row PROVE RowOK(v)'
  BY DEF RowOK
<1>1. RowOK(v) /\ RowsGo
  BY DEF VInv, RowsGo
<1> QED
  BY <1>1 DEF RowOK, Backed

\* What was accepted stays acceptable.
LEMMA AcceptedStay ==
  ASSUME VInv, RowsGo, UNCHANGED accepted
  PROVE  (\A one \in accepted : AcceptedOK(one))'
<1> SUFFICES ASSUME NEW one \in accepted PROVE AcceptedOK(one)'
  BY DEF AcceptedOK
<1>1. AcceptedOK(one)
  BY DEF VInv
<1> QED
  <2>1. PICK p, v : p = one.proof /\ v = p.vrf
    OBVIOUS
  <2>2. Backed(p)' /\ Ended(v, one.tenant)'
    BY <1>1, <2>1, BackedStays, EndedStays DEF AcceptedOK
  <2> QED
    BY <2>1, <2>2 DEF AcceptedOK, Backed, Ended

\* Requests end, and rows that wait keep waiting or are purged.
LEMMA AloneStays ==
  ASSUME VInv, trouble \subseteq trouble',
         \A q \in VRequests : /\ V!Busy(q)' => V!Busy(q)
                              /\ V!At(q, "submit")' => submission'[q] = submission[q],
         \A v \in DOMAIN row : row[v].status \in {"pending", "gone"} =>
                                 row'[v].status \in {"pending", "gone"}
  PROVE  Alone'
<1> SUFFICES ASSUME "overlap" \notin trouble'
             PROVE  /\ \A r, q \in VRequests : V!Busy(r)' /\ V!Busy(q)' => r = q
                    /\ \A r \in VRequests : V!At(r, "submit")' =>
                         row'[submission'[r].id].status \in {"pending", "gone"}
  BY DEF Alone
<1>1. /\ \A r, q \in VRequests : V!Busy(r) /\ V!Busy(q) => r = q
      /\ \A r \in VRequests :
           V!At(r, "submit") => row[submission[r].id].status \in {"pending", "gone"}
  BY DEF VInv, Alone
<1>2. ASSUME NEW r \in VRequests, V!At(r, "submit")'
      PROVE  row'[submission'[r].id].status \in {"pending", "gone"}
  <2>1. V!At(r, "submit") /\ submission'[r] = submission[r]
    BY <1>2 DEF V!At
  <2>2. submission[r].id \in DOMAIN row
    BY <2>1 DEF VInv, SubmissionOK, V!At
  <2> QED
    BY <1>1, <2>1, <2>2
<1> QED
  BY <1>1, <1>2

\* A request that arrives while another is in flight is an overlap.
LEMMA AloneArrives ==
  ASSUME VInv, NEW r \in VRequests, NEW k, NEW kinds, V!Arrive(r, k, kinds), UNCHANGED row,
         k.op = "submit" => row[k.id].status \in {"pending", "gone"}
  PROVE  Alone'
<1> SUFFICES ASSUME "overlap" \notin trouble'
             PROVE  /\ \A p, q \in VRequests : V!Busy(p)' /\ V!Busy(q)' => p = q
                    /\ \A q \in VRequests : V!At(q, "submit")' =>
                         row'[submission'[q].id].status \in {"pending", "gone"}
  BY DEF Alone
<1>1. \A q \in VRequests : ~V!Busy(q)
  BY DEF V!Arrive, V!Mixed, V!Overlapping
<1>2. submission' = [submission EXCEPT ![r] = k] /\ submission \in [VRequests -> V!Handler \cup {V!Idle}]
  BY DEF V!Arrive, V!Go, VInv, V!TypeOK
<1>3. \A q \in VRequests : submission'[q] = IF q = r THEN k ELSE V!Idle
  BY <1>1, <1>2 DEF V!Busy
<1>4. V!Idle.op # "submit"
  BY DEF V!Idle
<1> QED
  BY <1>3, <1>4 DEF V!Busy, V!At

\* The kinds of trouble there are.
LEMMA MishapsStay ==
  ASSUME VInv,
         \/ V!Calm \/ \E kind \in V!Kinds : V!Trouble(kind)
         \/ \E kinds \in SUBSET V!Kinds : V!Mixed(V!Overlapping \cup kinds)
  PROVE  trouble' \subseteq V!Kinds /\ trouble \subseteq trouble'
<1>1. V!Overlapping \subseteq V!Kinds
  BY DEF V!Overlapping, V!Kinds
<1> QED
  BY <1>1 DEF VInv, V!TypeOK, V!Calm, V!Trouble, V!Mixed
-----------------------------------------------------------------------------
(* The steps.                                                                *)

\* A row is one.
LEMMA RowsAre ==
  ASSUME V!ConstantsOK, VInv, NEW v \in DOMAIN row
  PROVE  v \in V!Ids /\ row[v] \in V!Row \cup {V!Gone}
<1>1. row \in Seq(V!Row \cup {V!Gone}) /\ Len(row) <= NumVerifications
  BY DEF VInv, V!TypeOK
<1>2. DOMAIN row = 1..Len(row) /\ Len(row) \in Nat
  BY <1>1, LenProperties
<1>3. v \in V!Ids
  BY <1>1, <1>2, NumbersOK DEF V!Ids
<1>4. row[v] \in V!Row \cup {V!Gone}
  BY <1>1, <1>2, ElementOfSeq
<1> QED
  BY <1>3, <1>4

\* A new verification waits, and has no proof.
LEMMA CreateVerificationStep ==
  ASSUME V!ConstantsOK, VInv, NEW t \in VTenants, V!CreateVerification(t)
  PROVE  VInv'
<1> DEFINE n == Len(row) + 1
           new == [status |-> "pending", tenant |-> t, exp |-> clock + VTTL, proof |-> V!NoProof]
<1>1. row \in Seq(V!Row \cup {V!Gone}) /\ Len(row) \in Nat /\ DOMAIN row = 1..Len(row)
  BY LenProperties DEF VInv, V!TypeOK
<1>2. new \in V!Row
  <2>1. clock + VTTL \in 0..(VMaxTime + VTTL)
    BY NumbersOK DEF VInv, V!TypeOK
  <2> QED
    BY <2>1 DEF V!Row
<1>3. row' = Append(row, new) /\ Len(row) < NumVerifications
  BY DEF V!CreateVerification
<1>4. row' \in Seq(V!Row \cup {V!Gone}) /\ Len(row') = n
  BY <1>1, <1>2, <1>3
<1>5. DOMAIN row' = DOMAIN row \cup {n} /\ n \notin DOMAIN row
  BY <1>1, <1>4, LenProperties
<1>6. row'[n] = new /\ \A v \in DOMAIN row : row'[v] = row[v]
  BY <1>1, <1>2, <1>3
<1>7. RowsGo
  BY <1>5, <1>6 DEF RowsGo, V!CreateVerification
<1>8. V!TypeOK'
  <2>1. Len(row') <= NumVerifications
    BY <1>1, <1>3, <1>4, NumbersOK
  <2>2. opened' \subseteq DOMAIN row'
    BY <1>5 DEF V!CreateVerification, VInv, V!TypeOK
  <2> QED
    BY <1>4, <2>1, <2>2 DEF V!CreateVerification, V!Authn, VInv, V!TypeOK
<1>9. (\A v \in DOMAIN row : RowOK(v))'
  <2> SUFFICES ASSUME NEW v \in DOMAIN row' PROVE RowOK(v)'
    BY DEF RowOK
  <2>1. CASE v = n
    <3>1. row'[v].proof = V!NoProof
      BY <1>6, <2>1
    <3> QED
      BY <3>1 DEF RowOK, V!NoProof
  <2>2. CASE v \in DOMAIN row
    <3>1. row'[v] = row[v] /\ RowOK(v) /\ UNCHANGED opened
      BY <1>6, <2>2 DEF VInv, V!CreateVerification
    <3> QED
      BY <3>1 DEF RowOK, Backed
  <2> QED
    BY <1>5, <2>1, <2>2
<1>10. (\A one \in accepted : AcceptedOK(one))'
  BY <1>7, AcceptedStay DEF V!CreateVerification, V!Authn
<1>11. (\A q \in VRequests : SubmissionOK(submission[q]) /\ PollingOK(submission[q]))'
  BY <1>7, HandlersRest DEF V!CreateVerification
<1>12. Alone'
  BY <1>6, AloneStays DEF V!CreateVerification, V!Busy
<1> QED
  BY <1>8, <1>9, <1>10, <1>11, <1>12 DEF VInv

\* A request object is handed out.
LEMMA OID4VPRequestStep ==
  ASSUME VInv, NEW v \in DOMAIN row, V!OID4VPRequest(v)
  PROVE  VInv'
<1>1. /\ UNCHANGED <<row, signing, held, accepted, clock, submission, trouble>>
      /\ opened' = opened \cup {v}
  BY DEF V!OID4VPRequest, V!Authn
<1>2. RowsGo
  BY <1>1 DEF RowsGo
<1>3. V!TypeOK'
  BY <1>1 DEF VInv, V!TypeOK
<1>4. (\A w \in DOMAIN row : RowOK(w))'
  BY <1>1, RowsStay
<1>5. (\A one \in accepted : AcceptedOK(one))'
  BY <1>1, <1>2, AcceptedStay
<1>6. (\A q \in VRequests : SubmissionOK(submission[q]) /\ PollingOK(submission[q]))'
  BY <1>1, <1>2, HandlersRest
<1>7. Alone'
  BY <1>1, AloneStays DEF V!Busy
<1> QED
  BY <1>3, <1>4, <1>5, <1>6, <1>7 DEF VInv

\* What only moves its handler on, with what it may hold.
VQuiet == UNCHANGED <<row, opened, signing, accepted, clock>>
LEMMA QuietStep ==
  ASSUME VInv, NEW r \in VRequests, NEW k \in V!Handler \cup {V!Idle}, V!Go(r, k), VQuiet,
         held' \in 0..VNumKeys, trouble' \subseteq V!Kinds,
         SubmissionOK(k), PollingOK(k), Alone'
  PROVE  VInv'
<1>1. RowsGo
  BY NoRowGoes DEF VQuiet
<1>2. SubmissionOK(k)' /\ PollingOK(k)'
  BY <1>1, HandlerStays
<1>3. (\A q \in VRequests : SubmissionOK(submission[q]) /\ PollingOK(submission[q]))'
  BY <1>1, <1>2, HandlersStay
<1>4. V!TypeOK'
  BY DEF VInv, V!TypeOK, VQuiet, V!Go
<1>5. (\A v \in DOMAIN row : RowOK(v))'
  BY RowsStay DEF VQuiet
<1>6. (\A one \in accepted : AcceptedOK(one))'
  BY <1>1, AcceptedStay DEF VQuiet
<1> QED
  BY <1>3, <1>4, <1>5, <1>6 DEF VInv

\* A submission holds a proof minted for its row, or none.
LEMMA SubmitResponseStep ==
  ASSUME V!ConstantsOK, VInv, NEW r \in VRequests, NEW v \in V!Pending, NEW a \in V!Answers,
         V!Sent(a), V!SubmitResponse(r, v, a)
  PROVE  VInv'
<1>1. v \in DOMAIN row /\ row[v].status = "pending" /\ v \in V!Ids /\ row[v] \in V!Row
  BY RowsAre DEF V!Pending, V!Gone
<1>2. PICK status \in V!Settled, proof \in {V!NoProof, V!MintProof(v, a)}, kinds \in SUBSET V!Kinds :
        /\ V!Arrive(r, [op |-> "submit", id |-> v, status |-> status, proof |-> proof], kinds)
        /\ proof = V!NoProof \/ V!VerifyDeviceResponse(a, v)
  BY DEF V!SubmitResponse, V!Settled, V!Kinds
<1>3. PICK k : k = [op |-> "submit", id |-> v, status |-> status, proof |-> proof]
  OBVIOUS
<1>4. ASSUME proof # V!NoProof
      PROVE  /\ proof \in V!Proof /\ Backed(proof)
             /\ proof.vrf = v /\ proof.tenant = row[v].tenant
  <2>1. proof = V!MintProof(v, a) /\ V!VerifyDeviceResponse(a, v)
    BY <1>2, <1>4
  <2>2. row[v].tenant \in VTenants /\ signing \in 1..VNumKeys
    BY <1>1 DEF V!Row, VInv, V!TypeOK
  <2>3. clock + ProofTTL \in 0..(VMaxTime + ProofTTL)
    BY NumbersOK DEF VInv, V!TypeOK
  <2>4. a.anchored \in BOOLEAN
    BY DEF V!Answers
  <2>5. proof \in V!Proof
    BY <1>1, <2>1, <2>2, <2>3, <2>4 DEF V!MintProof, V!Proof
  <2>6. /\ proof.vrf = v /\ proof.tenant = row[v].tenant /\ proof.by = a
        /\ proof.bound = (a.auth = "signature") /\ proof.trusted = a.anchored
    BY <2>1 DEF V!MintProof
  <2>7. Backed(proof)
    BY <2>1, <2>6 DEF Backed, V!VerifyDeviceResponse, V!ChainOk, V!DeviceOk, V!Sent
  <2> QED
    BY <2>5, <2>6, <2>7
<1>5. k \in V!Submission /\ k.op = "submit" /\ k.id = v /\ k.proof = proof
  BY <1>1, <1>2, <1>3, <1>4 DEF V!Submission
<1>6. SubmissionOK(k) /\ PollingOK(k)
  BY <1>1, <1>4, <1>5 DEF SubmissionOK, PollingOK
<1>7. V!Arrive(r, k, kinds) /\ VQuiet /\ UNCHANGED held
  BY <1>2, <1>3 DEF V!SubmitResponse, VQuiet, V!Authn
<1>8. Alone'
  BY <1>1, <1>5, <1>7, AloneArrives DEF VQuiet
<1>9. trouble' \subseteq V!Kinds
  BY <1>7, MishapsStay DEF V!Arrive
<1>10. held' \in 0..VNumKeys /\ V!Go(r, k)
  BY <1>7 DEF VInv, V!TypeOK, V!Arrive
<1> QED
  BY <1>5, <1>6, <1>7, <1>8, <1>9, <1>10, QuietStep DEF V!Handler

\* The outcome is written on a row that is there.
LEMMA UpdatedRows ==
  ASSUME V!ConstantsOK, VInv, NEW h \in V!Submission, SubmissionOK(h)
  PROVE  /\ V!Updated(h) \in Seq(V!Row \cup {V!Gone}) /\ Len(V!Updated(h)) = Len(row)
         /\ DOMAIN V!Updated(h) = DOMAIN row
         /\ \A v \in DOMAIN row :
              IF v = h.id /\ row[v] # V!Gone
              THEN /\ row[v] \in V!Row
                   /\ V!Updated(h)[v] = [row[v] EXCEPT !.status = h.status, !.proof = h.proof]
              ELSE V!Updated(h)[v] = row[v]
<1>1. row \in Seq(V!Row \cup {V!Gone}) /\ h.id \in DOMAIN row /\ DOMAIN row = 1..Len(row)
  BY LenProperties DEF VInv, V!TypeOK, SubmissionOK, V!Submission
<1>2. CASE row[h.id] = V!Gone
  BY <1>1, <1>2 DEF V!Updated
<1>3. CASE row[h.id] # V!Gone
  <2>1. row[h.id] \in V!Row
    BY <1>1, <1>3, RowsAre
  <2> DEFINE new == [row[h.id] EXCEPT !.status = h.status, !.proof = h.proof]
  <2>2. new \in V!Row
    BY <2>1 DEF V!Row, V!Submission
  <2>3. V!Updated(h) = [row EXCEPT ![h.id] = new]
    BY <1>1, <1>3, <2>1 DEF V!Updated, V!Row
  <2> HIDE DEF new
  <2>4. [row EXCEPT ![h.id] = new] \in Seq(V!Row \cup {V!Gone})
    BY <1>1, <2>2, ExceptSeq
  <2>5. Len([row EXCEPT ![h.id] = new]) = Len(row)
    BY <1>1, <2>2, ExceptSeq
  <2>6. /\ DOMAIN [row EXCEPT ![h.id] = new] = DOMAIN row
        /\ \A v \in DOMAIN row :
             [row EXCEPT ![h.id] = new][v] = IF v = h.id THEN new ELSE row[v]
    OBVIOUS
  <2>7. \A v \in DOMAIN row : IF v = h.id THEN V!Updated(h)[v] = new ELSE V!Updated(h)[v] = row[v]
    BY <2>3, <2>6
  <2> QED
    BY <1>1, <1>3, <2>1, <2>3, <2>4, <2>5, <2>6, <2>7 DEF new
<1> QED
  BY <1>2, <1>3

\* Update: the row of the submission ends, if it is there.
LEMMA UpdateStep ==
  ASSUME V!ConstantsOK, VInv, NEW r \in VRequests, V!Update(r)
  PROVE  VInv'
<1>1. PICK h \in V!Submission : h = submission[r] /\ h.op = "submit"
  BY HandlerKinds DEF V!Update, V!At, VInv, V!TypeOK
<1>2. V!Go(r, V!Idle) /\ UNCHANGED <<opened, signing, held, accepted, clock>>
  BY DEF V!Update, V!Answer, V!Authn
<1>3. SubmissionOK(h) /\ h.status \in V!Settled
  BY <1>1 DEF VInv, V!Submission
<1>4. trouble' \subseteq V!Kinds /\ trouble \subseteq trouble'
  BY MishapsStay DEF V!Update, V!Kinds
<1>5. \A q \in VRequests : submission'[q] = IF q = r THEN V!Idle ELSE submission[q]
  BY <1>2 DEF V!Go, VInv, V!TypeOK
<1>6. CASE UNCHANGED row
  <2>1. VQuiet /\ held' \in 0..VNumKeys
    BY <1>2, <1>6 DEF VQuiet, VInv, V!TypeOK
  <2>2. Alone'
    BY <1>4, <1>5, <1>6, AloneStays DEF V!Busy, V!At, V!Idle
  <2> QED
    BY <1>2, <1>4, <2>1, <2>2, IdleOK, QuietStep
<1>7. CASE row' = V!Updated(h)
  <2>1. /\ row' \in Seq(V!Row \cup {V!Gone}) /\ Len(row') = Len(row) /\ DOMAIN row' = DOMAIN row
        /\ \A v \in DOMAIN row :
             IF v = h.id /\ row[v] # V!Gone
             THEN /\ row[v] \in V!Row
                  /\ row'[v] = [row[v] EXCEPT !.status = h.status, !.proof = h.proof]
             ELSE row'[v] = row[v]
    BY <1>3, <1>7, UpdatedRows
  <2>2. h.id \in DOMAIN row
    BY <1>1, <1>3 DEF SubmissionOK
  <2>3. row[h.id] # V!Gone =>
          /\ row'[h.id].status = h.status /\ row'[h.id].proof = h.proof
          /\ row'[h.id].tenant = row[h.id].tenant /\ row[h.id].status # "gone"
    BY <2>1, <2>2 DEF V!Row, V!Settled
  <2>4. V!Gone.status = "gone" /\ "gone" \notin V!Settled
    BY DEF V!Gone, V!Settled
  <2>5. \A v \in DOMAIN row : v # h.id \/ row[v] = V!Gone => row'[v] = row[v]
    BY <2>1
  <2>6. RowsGo
    <3> SUFFICES ASSUME NEW v \in DOMAIN row
                 PROVE  /\ row[v].status \in V!Settled =>
                             row'[v].status \in V!Settled /\ row'[v].tenant = row[v].tenant
                        /\ row'[v].status # "gone" =>
                             row[v].status # "gone" /\ row'[v].tenant = row[v].tenant
      BY <1>2, <2>1 DEF RowsGo
    <3>1. CASE v = h.id /\ row[v] # V!Gone
      BY <1>3, <2>3, <2>4, <3>1
    <3>2. CASE v # h.id \/ row[v] = V!Gone
      BY <2>5, <3>2
    <3> QED
      BY <3>1, <3>2
  <2>7. V!TypeOK'
    BY <1>2, <1>4, <2>1 DEF VInv, V!TypeOK, V!Go
  <2>8. (\A v \in DOMAIN row : RowOK(v))'
    <3> SUFFICES ASSUME NEW v \in DOMAIN row PROVE RowOK(v)'
      BY <2>1 DEF RowOK
    <3>1. CASE v = h.id /\ row[v] # V!Gone
      <4>1. ASSUME h.proof # V!NoProof
            PROVE  /\ Backed(h.proof) /\ h.proof.vrf = v
                   /\ h.proof.tenant = row[v].tenant
        BY <1>1, <1>3, <2>3, <3>1, <4>1 DEF SubmissionOK
      <4>2. PICK p : p = h.proof
        OBVIOUS
      <4>3. p # V!NoProof => Backed(p)'
        BY <1>2, <4>1, <4>2 DEF Backed
      <4> QED
        BY <1>3, <2>3, <3>1, <4>1, <4>2, <4>3 DEF RowOK, Backed
    <3>2. CASE v # h.id \/ row[v] = V!Gone
      <4>1. row'[v] = row[v] /\ RowOK(v)
        BY <2>5, <3>2 DEF VInv
      <4> QED
        BY <1>2, <4>1 DEF RowOK, Backed
    <3> QED
      BY <3>1, <3>2
  <2>9. (\A one \in accepted : AcceptedOK(one))'
    BY <1>2, <2>6, AcceptedStay
  <2>10. (\A q \in VRequests : SubmissionOK(submission[q]) /\ PollingOK(submission[q]))'
    BY <1>2, <2>6, IdleOK, HandlersStay
  <2>11. Alone'
    <3> SUFFICES ASSUME "overlap" \notin trouble'
                 PROVE  /\ \A p, q \in VRequests : V!Busy(p)' /\ V!Busy(q)' => p = q
                        /\ \A q \in VRequests : V!At(q, "submit")' =>
                             row'[submission'[q].id].status \in {"pending", "gone"}
      BY DEF Alone
    <3>1. V!Busy(r)
      BY <1>1 DEF V!Busy, V!Idle
    <3>2. \A q \in VRequests : V!Busy(q) => q = r
      BY <1>4, <3>1 DEF VInv, Alone
    <3>3. \A q \in VRequests : submission'[q] = V!Idle
      BY <1>5, <3>2 DEF V!Busy
    <3> QED
      BY <3>3 DEF V!Busy, V!At, V!Idle
  <2> QED
    BY <2>7, <2>8, <2>9, <2>10, <2>11 DEF VInv
<1> QED
  BY <1>1, <1>6, <1>7 DEF V!Update

\* The sweeper purges what waits, and nobody has accepted that.
LEMMA PurgeExpiredStep ==
  ASSUME V!ConstantsOK, VInv, V!PurgeExpired
  PROVE  VInv'
<1>1. /\ UNCHANGED <<opened, signing, held, accepted, clock, submission, trouble>>
      /\ row' = [v \in DOMAIN row |->
                   IF row[v].status = "pending" /\ clock > row[v].exp THEN V!Gone ELSE row[v]]
  BY DEF V!PurgeExpired, V!Authn
<1>2. DOMAIN row' = DOMAIN row /\ \A v \in DOMAIN row :
        row'[v] = row[v] \/ (row'[v] = V!Gone /\ row[v].status = "pending")
  BY <1>1
<1>3. V!Gone.status = "gone"
  BY DEF V!Gone
<1>4. RowsGo
  BY <1>1, <1>2, <1>3 DEF RowsGo, V!Settled
<1>5. row' \in Seq(V!Row \cup {V!Gone}) /\ Len(row') = Len(row)
  <2>1. row \in Seq(V!Row \cup {V!Gone}) /\ DOMAIN row = 1..Len(row) /\ Len(row) \in Nat
    BY LenProperties DEF VInv, V!TypeOK
  <2>2. \A v \in 1..Len(row) : row'[v] \in V!Row \cup {V!Gone}
    BY <1>2, <2>1, ElementOfSeq
  <2>3. row' \in [1..Len(row) -> V!Row \cup {V!Gone}]
    BY <1>1, <2>1, <2>2
  <2> QED
    BY <2>1, <2>3
<1>6. V!TypeOK'
  BY <1>1, <1>2, <1>5 DEF VInv, V!TypeOK
<1>7. (\A v \in DOMAIN row : RowOK(v))'
  <2> SUFFICES ASSUME NEW v \in DOMAIN row PROVE RowOK(v)'
    BY <1>2 DEF RowOK
  <2>1. RowOK(v)
    BY DEF VInv
  <2> QED
    BY <1>1, <1>2, <1>3, <2>1 DEF RowOK, Backed
<1>8. (\A one \in accepted : AcceptedOK(one))'
  BY <1>1, <1>4, AcceptedStay
<1>9. (\A q \in VRequests : SubmissionOK(submission[q]) /\ PollingOK(submission[q]))'
  BY <1>1, <1>4, HandlersRest
<1>10. Alone'
  BY <1>1, <1>2, <1>3, AloneStays DEF V!Busy
<1> QED
  BY <1>6, <1>7, <1>8, <1>9, <1>10 DEF VInv

\* A poll reads a proof of a row that ended.
LEMMA PollStep ==
  ASSUME V!ConstantsOK, VInv, NEW r \in VRequests, NEW v \in DOMAIN row, NEW t \in VTenants,
         V!Poll(r, v, t)
  PROVE  VInv'
<1>1. PICK k : k = [op |-> "keys", tenant |-> t, proof |-> row[v].proof, key |-> V!NoKey,
                    forced |-> FALSE]
  OBVIOUS
<1>2. V!Arrive(r, k, {}) /\ VQuiet /\ UNCHANGED held
  BY <1>1 DEF V!Poll, VQuiet, V!Authn
<1>3. /\ row[v] \in V!Row /\ row[v].status = "verified" /\ row[v].tenant = t
      /\ row[v].proof \in V!Proof /\ row[v].proof # V!NoProof
  BY RowsAre DEF V!Poll, V!Row
<1>4. /\ Backed(row[v].proof) /\ row[v].proof.vrf = v
      /\ row[v].proof.tenant = row[v].tenant
  BY <1>3 DEF VInv, RowOK
<1>5. k \in V!Polling /\ k.op = "keys" /\ k.proof = row[v].proof
  BY <1>1, <1>3, NumbersOK DEF V!Polling, V!NoKey
<1>6. SubmissionOK(k)
  BY <1>5 DEF SubmissionOK
<1>7. PollingOK(k)
  BY <1>3, <1>4, <1>5 DEF PollingOK, Ended, V!Settled
<1>8. Alone'
  BY <1>2, <1>5, AloneArrives DEF VQuiet
<1>9. trouble' \subseteq V!Kinds /\ held' \in 0..VNumKeys /\ V!Go(r, k)
  BY <1>2, MishapsStay DEF V!Arrive, VInv, V!TypeOK
<1> QED
  BY <1>2, <1>5, <1>6, <1>7, <1>8, <1>9, QuietStep DEF V!Handler

\* The handler of a poll moves on with the proof it has.
LEMMA PollMoves ==
  ASSUME VInv, NEW r \in VRequests, NEW h \in V!Polling, h = submission[r],
         NEW k \in V!Polling, k.proof = h.proof, V!Go(r, k), VQuiet, V!Calm,
         held' \in 0..VNumKeys
  PROVE  VInv'
<1>1. h.op \in {"keys", "check", "refetch"} /\ k.op \in {"keys", "check", "refetch"}
  BY DEF V!Polling
<1>2. PollingOK(k) /\ SubmissionOK(k)
  BY <1>1 DEF VInv, PollingOK, SubmissionOK
<1>3. \A q \in VRequests : submission'[q] = IF q = r THEN k ELSE submission[q]
  BY DEF V!Go, VInv, V!TypeOK
<1>4. V!Busy(r)
  BY <1>1 DEF V!Busy, V!Idle
<1>5. Alone'
  BY <1>1, <1>3, <1>4, AloneStays DEF VQuiet, V!Calm, V!Busy, V!At
<1>6. trouble' \subseteq V!Kinds
  BY DEF V!Calm, VInv, V!TypeOK
<1> QED
  BY <1>2, <1>5, <1>6, QuietStep DEF V!Handler

\* ... or answers.
LEMMA PollEnds ==
  ASSUME VInv, NEW r \in VRequests, V!Answer(r), VQuiet, held' \in 0..VNumKeys,
         V!Calm \/ \E kind \in V!Kinds : V!Trouble(kind)
  PROVE  VInv'
<1>1. \A q \in VRequests : submission'[q] = IF q = r THEN V!Idle ELSE submission[q]
  BY DEF V!Answer, V!Go, VInv, V!TypeOK
<1>2. trouble' \subseteq V!Kinds /\ trouble \subseteq trouble'
  BY MishapsStay
<1>3. Alone'
  BY <1>1, <1>2, AloneStays DEF VQuiet, V!Busy, V!At, V!Idle
<1> QED
  BY <1>2, <1>3, IdleOK, QuietStep DEF V!Answer

\* The key set is fetched, or found.
LEMMA FetchStep ==
  ASSUME V!ConstantsOK, VInv, NEW r \in VRequests, NEW h \in V!Polling, h = submission[r],
         NEW forced \in BOOLEAN, V!Fetch(r, forced), VQuiet, V!Calm
  PROVE  VInv'
<1>1. PICK k : k = [h EXCEPT !.op = "check", !.key = signing, !.forced = forced]
  OBVIOUS
<1>2. signing \in 1..VNumKeys /\ signing \in 0..VNumKeys
  BY NumbersOK DEF VInv, V!TypeOK
<1>3. k \in V!Polling /\ k.proof = h.proof
  BY <1>1, <1>2 DEF V!Polling
<1>4. V!Go(r, k) /\ held' \in 0..VNumKeys
  BY <1>1, <1>2 DEF V!Fetch
<1> QED
  BY <1>3, <1>4, PollMoves

\* Keys and Refetch.
LEMMA KeysStep ==
  ASSUME V!ConstantsOK, VInv, NEW r \in VRequests, V!Keys(r) \/ V!Refetch(r)
  PROVE  VInv'
<1>1. PICK h \in V!Polling : h = submission[r]
  BY HandlerKinds DEF V!Keys, V!Refetch, V!At, VInv, V!TypeOK
<1>2. VQuiet /\ V!Calm
  BY DEF V!Keys, V!Refetch, VQuiet, V!Calm
<1>3. CASE \E forced \in BOOLEAN : V!Fetch(r, forced)
  BY <1>1, <1>2, <1>3, FetchStep
<1>4. CASE V!Go(r, [h EXCEPT !.op = "check", !.key = held]) /\ UNCHANGED held
  <2>1. PICK k : k = [h EXCEPT !.op = "check", !.key = held]
    OBVIOUS
  <2>2. held \in 0..VNumKeys /\ held' \in 0..VNumKeys
    BY <1>4 DEF VInv, V!TypeOK
  <2>3. k \in V!Polling /\ k.proof = h.proof
    BY <2>1, <2>2 DEF V!Polling
  <2> QED
    BY <1>1, <1>2, <1>4, <2>1, <2>2, <2>3, PollMoves
<1> QED
  BY <1>1, <1>3, <1>4 DEF V!Keys, V!Refetch

\* VerifyProof accepts what was read from a row that ended, for its workspace.
LEMMA VerifyProofStep ==
  ASSUME V!ConstantsOK, VInv, NEW r \in VRequests, V!VerifyProof(r)
  PROVE  VInv'
<1>1. PICK h \in V!Polling : h = submission[r] /\ h.op = "check"
  BY HandlerKinds DEF V!VerifyProof, V!At, VInv, V!TypeOK
<1>2. /\ UNCHANGED <<row, opened, signing, held, clock, trouble>> /\ V!Calm
      /\ held' \in 0..VNumKeys
  BY DEF V!VerifyProof, V!Calm, VInv, V!TypeOK
<1>3. CASE UNCHANGED accepted /\ V!Answer(r)
  BY <1>2, <1>3, PollEnds DEF VQuiet
<1>4. CASE UNCHANGED accepted /\ V!Go(r, [h EXCEPT !.op = "refetch"])
  <2>1. PICK k : k = [h EXCEPT !.op = "refetch"]
    OBVIOUS
  <2>2. k \in V!Polling /\ k.proof = h.proof
    BY <2>1 DEF V!Polling
  <2> QED
    BY <1>1, <1>2, <1>4, <2>1, <2>2, PollMoves DEF VQuiet
<1>5. CASE /\ V!Answer(r) /\ V!MeantFor(h.proof, h.tenant)
           /\ accepted' = accepted \cup {[proof |-> h.proof, tenant |-> h.tenant]}
  <2>1. Backed(h.proof) /\ Ended(h.proof.vrf, h.tenant)
    BY <1>1, <1>5 DEF VInv, PollingOK, V!MeantFor
  <2>2. RowsGo
    BY <1>2, NoRowGoes
  <2>3. (\A one \in accepted : AcceptedOK(one))'
    <3> SUFFICES ASSUME NEW one \in accepted' PROVE AcceptedOK(one)'
      BY DEF AcceptedOK
    <3>1. AcceptedOK(one)
      BY <1>5, <2>1 DEF VInv, AcceptedOK
    <3> QED
      BY <1>2, <3>1 DEF AcceptedOK, Backed, Ended
  <2>4. \A q \in VRequests : submission'[q] = IF q = r THEN V!Idle ELSE submission[q]
    BY <1>5 DEF V!Answer, V!Go, VInv, V!TypeOK
  <2>5. V!TypeOK'
    <3>1. submission' \in [VRequests -> V!Handler \cup {V!Idle}]
      BY <1>5 DEF V!Answer, V!Go, VInv, V!TypeOK
    <3>2. accepted' \subseteq [proof : V!Proof, tenant : VTenants]
      BY <1>5 DEF V!Polling, VInv, V!TypeOK
    <3> QED
      BY <1>2, <3>1, <3>2 DEF VInv, V!TypeOK
  <2>6. (\A v \in DOMAIN row : RowOK(v))'
    BY <1>2, RowsStay
  <2>7. (\A q \in VRequests : SubmissionOK(submission[q]) /\ PollingOK(submission[q]))'
    BY <2>2, <2>4, HandlersRest
  <2>8. Alone'
    BY <1>2, <2>4, AloneStays DEF V!Busy, V!At, V!Idle
  <2> QED
    BY <2>3, <2>5, <2>6, <2>7, <2>8 DEF VInv
<1> QED
  BY <1>1, <1>3, <1>4, <1>5 DEF V!VerifyProof

\* Restarts end requests; the key set may be forgotten or the key be new.
LEMMA RestartStep ==
  ASSUME V!ConstantsOK, VInv, V!RestartId \/ V!RestartAuthn
  PROVE  VInv'
<1>1. UNCHANGED <<row, opened, accepted, clock>> /\ V!Trouble("restart")
  BY DEF V!RestartId, V!RestartAuthn, V!Authn
<1>2. signing' \in 1..VNumKeys /\ held' \in 0..VNumKeys
  BY NumbersOK DEF V!RestartId, V!RestartAuthn, V!Authn, VInv, V!TypeOK, V!NoKey
<1>3. \A q \in VRequests : submission'[q] \in {submission[q], V!Idle}
  BY DEF V!RestartId, V!RestartAuthn
<1>4. submission' \in [VRequests -> V!Handler \cup {V!Idle}]
  <2>1. submission' = [q \in VRequests |-> submission'[q]]
    BY DEF V!RestartId, V!RestartAuthn
  <2> QED
    BY <1>3, <2>1 DEF VInv, V!TypeOK
<1>5. trouble' \subseteq V!Kinds /\ trouble \subseteq trouble'
  BY <1>1, MishapsStay DEF V!Kinds
<1>6. V!TypeOK'
  BY <1>1, <1>2, <1>4, <1>5 DEF VInv, V!TypeOK
<1>7. RowsGo
  BY <1>1, NoRowGoes
<1>8. (\A v \in DOMAIN row : RowOK(v))'
  BY <1>1, RowsStay
<1>9. (\A one \in accepted : AcceptedOK(one))'
  BY <1>1, <1>7, AcceptedStay
<1>10. (\A q \in VRequests : SubmissionOK(submission[q]) /\ PollingOK(submission[q]))'
  BY <1>3, <1>7, HandlersRest
<1>11. Alone'
  BY <1>1, <1>3, <1>5, AloneStays DEF V!Busy, V!At, V!Idle
<1> QED
  BY <1>6, <1>8, <1>9, <1>10, <1>11 DEF VInv

\* The clock, and steps that are none.
LEMMA IdleStep ==
  ASSUME V!ConstantsOK, VInv, V!Tick \/ UNCHANGED V!vars
  PROVE  VInv'
<1>1. UNCHANGED <<row, opened, signing, held, accepted, submission, trouble>>
  BY DEF V!Tick, V!vars, V!Authn
<1>2. clock' \in 0..VMaxTime
  BY NumbersOK DEF V!Tick, V!vars, VInv, V!TypeOK
<1>3. V!TypeOK'
  BY <1>1, <1>2 DEF VInv, V!TypeOK
<1>4. RowsGo
  BY <1>1, NoRowGoes
<1>5. (\A v \in DOMAIN row : RowOK(v))'
  BY <1>1, RowsStay
<1>6. (\A one \in accepted : AcceptedOK(one))'
  BY <1>1, <1>4, AcceptedStay
<1>7. (\A q \in VRequests : SubmissionOK(submission[q]) /\ PollingOK(submission[q]))'
  BY <1>1, <1>4, HandlersRest
<1>8. Alone'
  BY <1>1, AloneStays DEF V!Busy
<1> QED
  BY <1>3, <1>5, <1>6, <1>7, <1>8 DEF VInv

\* Every step keeps the invariant.
LEMMA StepInv == ASSUME V!ConstantsOK PROVE VInv /\ [V!Next]_V!vars => VInv'
<1> SUFFICES ASSUME VInv, [V!Next]_V!vars PROVE VInv'
  OBVIOUS
<1>1. ASSUME NEW t \in VTenants, V!CreateVerification(t) PROVE VInv'
  BY <1>1, CreateVerificationStep
<1>2. ASSUME NEW v \in DOMAIN row, V!OID4VPRequest(v) PROVE VInv'
  BY <1>2, OID4VPRequestStep
<1>3. ASSUME NEW r \in V!Resting, NEW v \in V!Pending, NEW a \in V!Answers, V!Sent(a),
             V!SubmitResponse(r, v, a)
      PROVE  VInv'
  BY <1>3, SubmitResponseStep DEF V!Resting
<1>4. ASSUME NEW r \in V!Resting, NEW v \in DOMAIN row, NEW t \in VTenants, V!Poll(r, v, t)
      PROVE  VInv'
  BY <1>4, PollStep DEF V!Resting
<1>5. ASSUME NEW r \in VRequests, V!FetchFails(r) PROVE VInv'
  <2>1. V!Answer(r) /\ VQuiet /\ held' \in 0..VNumKeys /\ V!Trouble("fault")
    BY <1>5 DEF V!FetchFails, VQuiet, V!Authn, VInv, V!TypeOK
  <2> QED
    BY <2>1, PollEnds DEF V!Kinds
<1>6. ASSUME NEW r \in VRequests, V!Update(r) \/ V!Keys(r) \/ V!Refetch(r) \/ V!VerifyProof(r)
      PROVE  VInv'
  BY <1>6, UpdateStep, KeysStep, VerifyProofStep
<1>7. CASE V!PurgeExpired \/ V!RestartId \/ V!RestartAuthn \/ V!Tick \/ UNCHANGED V!vars
  BY <1>7, PurgeExpiredStep, RestartStep, IdleStep
<1> QED
  BY <1>1, <1>2, <1>3, <1>4, <1>5, <1>6, <1>7 DEF V!Next

\* The invariant of the specification.
THEOREM VInvariance == ASSUME V!ConstantsOK PROVE V!Spec => []VInv
<1>1. V!Init => VInv
  BY VInitInv
<1>2. VInv /\ [V!Next]_V!vars => VInv'
  BY StepInv
<1> QED
  BY <1>1, <1>2, PTL DEF V!Spec

\* The variables keep their types, whatever overlaps, fails or restarts.
THEOREM VTypeCorrect == ASSUME V!ConstantsOK PROVE V!Spec => []V!TypeOK
<1>1. VInv => V!TypeOK
  BY DEF VInv
<1> QED
  BY <1>1, VInvariance, PTL
-----------------------------------------------------------------------------
(* What a workspace may rely on.                                             *)

\* A step that leaves the rows alone leaves the outcomes alone.
LEMMA SameOutcome ==
  ASSUME \A v \in DOMAIN row : row'[v] = row[v]
  PROVE  V!OutcomeKept
BY DEF V!OutcomeKept

\* Update writes a row that waits, when nothing overlaps; else the outcome changes,
\* from one end to another.
LEMMA UpdateKeeps ==
  ASSUME V!ConstantsOK, VInv, NEW r \in VRequests, V!Update(r)
  PROVE  V!OutcomeKept
<1>1. PICK h \in V!Submission : h = submission[r] /\ h.op = "submit"
  BY HandlerKinds DEF V!Update, V!At, VInv, V!TypeOK
<1>2. SubmissionOK(h) /\ h.status \in V!Settled
  BY <1>1 DEF VInv, V!Submission
<1>3. CASE UNCHANGED row
  BY <1>3, SameOutcome
<1>4. CASE row' = V!Updated(h)
  <2>1. \A v \in DOMAIN row :
          IF v = h.id /\ row[v] # V!Gone
          THEN /\ row[v] \in V!Row
               /\ row'[v] = [row[v] EXCEPT !.status = h.status, !.proof = h.proof]
          ELSE row'[v] = row[v]
    BY <1>2, <1>4, UpdatedRows
  <2>2. "overlap" \notin trouble' => row[h.id].status \in {"pending", "gone"}
    <3>1. trouble \subseteq trouble'
      BY MishapsStay DEF V!Update, V!Kinds
    <3> QED
      BY <1>1, <3>1 DEF VInv, Alone, V!At
  <2>3. \A v \in DOMAIN row : v = h.id /\ row[v] # V!Gone => row'[v].status = h.status
    BY <2>1 DEF V!Row
  <2> QED
    BY <1>2, <2>1, <2>2, <2>3 DEF V!OutcomeKept, V!Settled
<1> QED
  BY <1>1, <1>3, <1>4 DEF V!Update

\* Only what waits is purged, and what is purged stays so.
LEMMA PurgeKeeps ==
  ASSUME V!PurgeExpired
  PROVE  V!OutcomeKept
<1>1. \A v \in DOMAIN row :
        row'[v] = row[v] \/ (row'[v] = V!Gone /\ row[v].status = "pending")
  BY DEF V!PurgeExpired
<1> QED
  BY <1>1 DEF V!OutcomeKept, V!Settled

\* A new row leaves the others alone.
LEMMA VCreateKeeps ==
  ASSUME VInv, NEW t \in VTenants, V!CreateVerification(t)
  PROVE  V!OutcomeKept
<1>1. row \in Seq(V!Row \cup {V!Gone}) /\ DOMAIN row = 1..Len(row) /\ Len(row) \in Nat
  BY LenProperties DEF VInv, V!TypeOK
<1>2. PICK new : row' = Append(row, new)
  BY DEF V!CreateVerification
<1>3. \A v \in DOMAIN row : row'[v] = row[v]
  BY <1>1, <1>2
<1> QED
  BY <1>3, SameOutcome

\* No step changes an outcome.
LEMMA StepKeeps ==
  ASSUME V!ConstantsOK, VInv, [V!Next]_V!vars
  PROVE  V!OutcomeKept
<1>1. CASE \E t \in VTenants : V!CreateVerification(t)
  BY <1>1, VCreateKeeps
<1>2. CASE \E r \in VRequests : V!Update(r)
  BY <1>2, UpdateKeeps
<1>3. CASE V!PurgeExpired
  BY <1>3, PurgeKeeps
<1>4. CASE UNCHANGED row
  BY <1>4, SameOutcome
<1> QED
  BY <1>1, <1>2, <1>3, <1>4
     DEF V!Next, V!vars, V!OID4VPRequest, V!SubmitResponse, V!Poll, V!Keys, V!Refetch, V!VerifyProof,
         V!FetchFails, V!RestartId, V!RestartAuthn, V!Tick

\* Outcomes and accepted proofs, as the run states them.
ProofsStand == []V!ProofsBacked /\ [][V!OutcomeKept]_V!vars

\* What authentication-service accepts is what a wallet presented for that very
\* verification and workspace; a verification that ended stays ended and one that
\* was purged does not come back; one request at a time its outcome and its proof
\* are final (SubmitResponse, HTTPMDLProofVerifier).
THEOREM Proven == ASSUME V!ConstantsOK PROVE V!Spec => ProofsStand
<1>1. VInv => V!ProofsBacked
  <2> SUFFICES ASSUME VInv, NEW one \in accepted
               PROVE  LET p == one.proof IN
                      /\ row[p.vrf] # V!Gone /\ row[p.vrf].tenant = one.tenant
                      /\ p.bound => p.by.over = p.vrf /\ p.vrf \in opened
                      /\ p.trusted \/ Strict => p.by.anchored
    BY DEF V!ProofsBacked
  <2>1. AcceptedOK(one)
    BY DEF VInv
  <2>2. row[one.proof.vrf].status # "gone"
    BY <2>1 DEF AcceptedOK, Ended, V!Settled
  <2> QED
    BY <2>1, <2>2 DEF AcceptedOK, Backed, Ended, V!Gone
<1>2. VInv /\ [V!Next]_V!vars => [V!OutcomeKept]_V!vars
  BY StepKeeps
<1> QED
  BY <1>1, <1>2, VInvariance, PTL DEF V!Spec, ProofsStand

-----------------------------------------------------------------------------
(***************************************************************************)
(* Delegation, for any number of workspaces, clients, issuers, assertions  *)
(* and overlapping requests; D is that specification, and the names it     *)
(* shares with the others have a D before them.                            *)
(*                                                                         *)
(* The argument: what a handler holds stays true while others run.  An     *)
(* assertion is never changed once it is made, and a jti once recorded     *)
(* stays recorded until its assertion has expired; so a redemption that    *)
(* recorded its jti is the only one to have paid with it.  An exchange is  *)
(* different, since what it looked up may be edited under it: it keeps     *)
(* abreast of what the registry offers and of the token it began with, and *)
(* what it was told was so at some moment since it began.                  *)
(***************************************************************************)
CONSTANTS
  DRequests, Tenants, Clients, TenantOf, Subjects, IdTokens, ClientOf,
  Resources, Here, DIssuers, Self, Scopes, Caps, TTL, Leeway, NumAssertions,
  NumSessions, NumKeys, MaxEdits, DMaxMishaps, MaxTime
VARIABLES
  server, idp, published, cached, subject, assertion, used, session, token,
  now, errand, edits, setbacks, burned

D == INSTANCE Delegation WITH
  Issuers <- DIssuers, MaxMishaps <- DMaxMishaps, mishaps <- setbacks,
  request <- errand, Requests <- DRequests

Paid == {"session", "token"}
Redeeming == {"trust", "keys", "check", "refetch", "burn"} \cup Paid
Exchanging == {"deny", "server", "sign"}

\* What the jti table has lost has expired.
RecordKept == \A a \in burned : a \in used \/ now > assertion[a].exp

\* A redemption is of an assertion there is, and has recorded its jti and
\* narrowed its scopes by the time it makes a session.
RedeemOK(h) ==
  h.step \in Redeeming =>
    /\ h.from \in D!Made
    /\ h.step \in Paid =>
         h.from \in burned /\ h.granted \subseteq D!Allowed(assertion[h.from].scopes, h.cap)

\* A token that stands did when the exchange began, and what the registry
\* offers now it has offered since.
Abreast(h) ==
  /\ subject[h.subject] = "live" => h.stood
  /\ D!Offered(server, h.subject, h.resource) \subseteq h.offers

\* What the deny list and the registry were asked and answered.
Vetted(h) ==
  /\ h.step \in {"server", "sign"} /\ h.declared = "access_token" =>
       h.stood /\ h.subject \notin IdTokens
  /\ h.step = "sign" =>
       \E scopes \in h.offers : scopes = {} \/ h.granted \subseteq scopes
ExchangeOK(h) == h.step \in Exchanging => Abreast(h) /\ Vetted(h)

DInv ==
  /\ D!TypeOK /\ RecordKept
  /\ \A r \in DRequests : RedeemOK(errand[r]) /\ ExchangeOK(errand[r])
-----------------------------------------------------------------------------
(* The type invariant in parts, one per group of variables.                  *)
RegistryTypes ==
  /\ server \in [Tenants \X Resources -> D!Entry \cup {D!NoEntry}]
  /\ idp \in [Tenants \X DIssuers -> D!Entry \cup {D!NoEntry}]
KeyTypes ==
  /\ published \in [DIssuers \cup {Self} -> 1..NumKeys]
  /\ cached \in [DIssuers \cup {Self} -> 0..NumKeys]
SubjectTypes == subject \in [Subjects -> {"live", "revoked", "over"}]
AssertionTypes == assertion \in Seq(D!Assertion) /\ Len(assertion) <= NumAssertions
RecordTypes == used \subseteq burned /\ burned \subseteq D!Made
TokenTypes == session \in Seq(burned) /\ token \in Seq([from : burned, scopes : SUBSET Scopes])
CounterTypes == now \in 0..MaxTime /\ edits \in 0..MaxEdits
MishapTypes == setbacks \subseteq D!Kinds
RequestTypes == errand \in [DRequests -> D!Handler \cup {D!Idle}]

Types ==
  /\ RegistryTypes /\ KeyTypes /\ SubjectTypes /\ AssertionTypes /\ RecordTypes
  /\ TokenTypes /\ CounterTypes /\ MishapTypes /\ RequestTypes

\* The parts are the whole.
LEMMA TypeParts == D!TypeOK <=> Types
BY DEF D!TypeOK, Types, RegistryTypes, KeyTypes, SubjectTypes, AssertionTypes, RecordTypes,
       TokenTypes, CounterTypes, MishapTypes, RequestTypes

\* ... after a step as well.
LEMMA TypePartsNext == D!TypeOK' <=> Types'
BY DEF D!TypeOK, Types, RegistryTypes, KeyTypes, SubjectTypes, AssertionTypes, RecordTypes,
       TokenTypes, CounterTypes, MishapTypes, RequestTypes

\* The bounds are numbers.
LEMMA DNumbersOK ==
  ASSUME D!ConstantsOK
  PROVE  /\ TTL \in Nat /\ Leeway \in Nat /\ NumAssertions \in Nat /\ NumSessions \in Nat
         /\ MaxEdits \in Nat /\ MaxTime \in Nat /\ NumKeys \in Nat /\ NumKeys >= 1
BY DEF D!ConstantsOK

\* The initial states satisfy the invariant.
LEMMA DInitInv == ASSUME D!ConstantsOK PROVE D!Init => DInv
<1> SUFFICES ASSUME D!Init PROVE DInv
  OBVIOUS
<1>1. RegistryTypes /\ KeyTypes /\ SubjectTypes
  BY DEF D!Init, D!ConstantsOK, RegistryTypes, KeyTypes, SubjectTypes, D!NoKey
<1>2. AssertionTypes /\ RecordTypes /\ TokenTypes
  BY DEF D!Init, D!ConstantsOK, AssertionTypes, RecordTypes, TokenTypes
<1>3. CounterTypes /\ MishapTypes /\ RequestTypes
  BY DEF D!Init, D!ConstantsOK, CounterTypes, MishapTypes, RequestTypes
<1>4. RecordKept
  BY DEF D!Init, RecordKept
<1>5. ASSUME NEW r \in DRequests PROVE RedeemOK(errand[r]) /\ ExchangeOK(errand[r])
  <2>1. errand[r] = D!Idle
    BY DEF D!Init
  <2>2. D!Idle.step \notin Redeeming \cup Exchanging
    BY DEF D!Idle, Redeeming, Paid, Exchanging
  <2> QED
    BY <2>1, <2>2 DEF RedeemOK, ExchangeOK
<1> QED
  BY <1>1, <1>2, <1>3, <1>4, <1>5, TypeParts DEF DInv, Types
-----------------------------------------------------------------------------
(* What every handler keeps while another one runs.                          *)
Grown ==
  /\ D!Made \subseteq D!Made' /\ \A a \in D!Made : assertion'[a] = assertion[a]
  /\ burned \subseteq burned'
DQuiet ==
  UNCHANGED <<server, idp, published, subject, assertion, used, session, token,
              burned, now, edits>>

\* The step of a handler tells which operation it belongs to.
LEMMA StepKinds ==
  ASSUME NEW h \in D!Handler \cup {D!Idle}
  PROVE  /\ h.step \in Redeeming => h \in D!Redemption
         /\ h.step \in Exchanging => h \in D!Exchange
         /\ h.step = "idle" => h = D!Idle
BY DEF D!Handler, D!Exchange, D!Redemption, D!Idle, Redeeming, Exchanging, Paid

\* An idle handler claims nothing.
LEMMA DIdleOK == RedeemOK(D!Idle) /\ ExchangeOK(D!Idle) /\ RedeemOK(D!Idle)' /\ ExchangeOK(D!Idle)'
<1>1. D!Idle.step \notin Redeeming \cup Exchanging
  BY DEF D!Idle, Redeeming, Paid, Exchanging
<1> QED
  BY <1>1 DEF RedeemOK, ExchangeOK, D!Idle

\* Assertions and records are only added to.
LEMMA RedeemKept ==
  ASSUME NEW h, Grown, RedeemOK(h)
  PROVE  RedeemOK(h)'
<1> SUFFICES ASSUME h.step \in Redeeming
             PROVE  /\ h.from \in D!Made'
                    /\ h.step \in Paid =>
                         /\ h.from \in burned'
                         /\ h.granted \subseteq D!Allowed(assertion'[h.from].scopes, h.cap)
  BY DEF RedeemOK, D!Allowed
<1>1. h.from \in D!Made /\ assertion'[h.from] = assertion[h.from] /\ h.from \in D!Made'
  BY DEF RedeemOK, Grown
<1> QED
  BY <1>1 DEF RedeemOK, Grown

\* What an exchange was told depends on the servers and the subject tokens.
LEMMA ExchangeKept ==
  ASSUME NEW h, UNCHANGED <<server, subject>>, ExchangeOK(h)
  PROVE  ExchangeOK(h)'
BY DEF ExchangeOK, Abreast, Vetted, D!Offered

\* One handler moves on and the others stay as they are.
LEMMA RequestsKept ==
  ASSUME DInv, NEW r \in DRequests, NEW k, D!Go(r, k), Grown, UNCHANGED <<server, subject>>,
         RedeemOK(k)', ExchangeOK(k)'
  PROVE  (\A q \in DRequests : RedeemOK(errand[q]) /\ ExchangeOK(errand[q]))'
<1> SUFFICES ASSUME NEW q \in DRequests
             PROVE  RedeemOK(errand[q])' /\ ExchangeOK(errand[q])'
  OBVIOUS
<1>1. errand' = [errand EXCEPT ![r] = k]
  BY DEF D!Go
<1>2. errand \in [DRequests -> D!Handler \cup {D!Idle}]
  BY DEF DInv, D!TypeOK
<1>3. PICK h : h = errand'[q]
  OBVIOUS
<1>4. RedeemOK(h)' /\ ExchangeOK(h)'
  <2>1. CASE q = r
    <3>1. h = k
      BY <1>1, <1>2, <1>3, <2>1
    <3> QED
      BY <3>1
  <2>2. CASE q # r
    <3>1. h = errand[q]
      BY <1>1, <1>2, <1>3, <2>2
    <3>2. RedeemOK(h) /\ ExchangeOK(h)
      BY <3>1 DEF DInv
    <3> QED
      BY <3>2, RedeemKept, ExchangeKept
  <2> QED
    BY <2>1, <2>2
<1> QED
  BY <1>3, <1>4 DEF RedeemOK, ExchangeOK, Abreast, Vetted, D!Offered

\* Nobody moves, and the registries stay.
LEMMA RequestsStay ==
  ASSUME DInv, Grown, UNCHANGED <<errand, server, subject>>
  PROVE  (\A q \in DRequests : RedeemOK(errand[q]) /\ ExchangeOK(errand[q]))'
<1> SUFFICES ASSUME NEW q \in DRequests
             PROVE  (RedeemOK(errand[q]) /\ ExchangeOK(errand[q]))'
  OBVIOUS
<1>1. PICK h : h = errand[q] /\ h = errand'[q]
  BY Zenon
<1>2. RedeemOK(h) /\ ExchangeOK(h)
  BY <1>1 DEF DInv
<1>3. RedeemOK(h)' /\ ExchangeOK(h)'
  BY <1>2, RedeemKept, ExchangeKept
<1> QED
  BY <1>1, <1>3 DEF RedeemOK, ExchangeOK, Abreast, Vetted, D!Offered

\* A step that only moves its handler on, and perhaps fills the key cache.
LEMMA DQuietStep ==
  ASSUME DInv, NEW r \in DRequests, NEW k \in D!Handler \cup {D!Idle}, D!Go(r, k), DQuiet,
         KeyTypes', MishapTypes', RedeemOK(k), ExchangeOK(k)
  PROVE  DInv'
<1>1. RequestTypes'
  BY DEF DInv, D!TypeOK, RequestTypes, D!Go
<1>2. (RegistryTypes /\ SubjectTypes /\ AssertionTypes /\ RecordTypes /\ TokenTypes
       /\ CounterTypes)'
  <2>1. Types
    BY TypeParts DEF DInv
  <2>2. (RegistryTypes /\ SubjectTypes /\ AssertionTypes)'
    BY <2>1 DEF Types, DQuiet, RegistryTypes, SubjectTypes, AssertionTypes
  <2>3. (RecordTypes /\ TokenTypes /\ CounterTypes)'
    BY <2>1 DEF Types, DQuiet, RecordTypes, TokenTypes, CounterTypes, D!Made
  <2> QED
    BY <2>2, <2>3
<1>3. RecordKept'
  BY DEF DInv, DQuiet, RecordKept
<1>4. Grown /\ UNCHANGED <<server, subject>>
  BY DEF DQuiet, Grown, D!Made
<1>5. RedeemOK(k)' /\ ExchangeOK(k)'
  BY <1>4, RedeemKept, ExchangeKept
<1>6. (\A q \in DRequests : RedeemOK(errand[q]) /\ ExchangeOK(errand[q]))'
  BY <1>4, <1>5, RequestsKept
<1>7. D!TypeOK'
  BY <1>1, <1>2, TypePartsNext DEF Types
<1> QED
  BY <1>3, <1>6, <1>7 DEF DInv

\* Trouble is of the kinds there are.
LEMMA DMishapsStay ==
  ASSUME DInv, NEW kind \in D!Kinds, D!Calm \/ D!Trouble(kind)
  PROVE  MishapTypes'
BY DEF DInv, D!TypeOK, MishapTypes, D!Calm, D!Trouble

\* An arrival is calm or an overlap.
LEMMA ArriveStays ==
  ASSUME DInv, NEW r \in DRequests, NEW h, D!Arrive(r, h)
  PROVE  MishapTypes' /\ D!Go(r, h)
BY DMishapsStay DEF D!Arrive, D!Kinds

\* A key that is kept is of its type.
LEMMA KeysStay ==
  ASSUME DInv, UNCHANGED D!Keyring
  PROVE  KeyTypes'
BY DEF DInv, D!TypeOK, KeyTypes, D!Keyring

\* Answering needs nothing.
LEMMA AnswerStep ==
  ASSUME DInv, NEW r \in DRequests, D!Answer(r), DQuiet, KeyTypes', MishapTypes'
  PROVE  DInv'
BY DQuietStep, DIdleOK DEF D!Answer
-----------------------------------------------------------------------------
(* Issuance.                                                                 *)

\* What a registry offers are scope lists.
LEMMA OfferedTyped ==
  ASSUME D!ConstantsOK, NEW s \in Subjects, NEW x \in Resources,
         NEW registry \in [Tenants \X Resources -> D!Entry \cup {D!NoEntry}]
  PROVE  D!Offered(registry, s, x) \in SUBSET Caps
<1>1. PICK entry \in D!Entry \cup {D!NoEntry} : entry = registry[TenantOf[ClientOf[s]], x]
  BY DEF D!ConstantsOK
<1>2. entry.enabled => entry.scopes \in Caps
  BY DEF D!Entry, D!NoEntry
<1> QED
  BY <1>1, <1>2 DEF D!Offered

\* An exchange begins abreast, and nobody has vetted it.
LEMMA TokenExchangeStep ==
  ASSUME D!ConstantsOK, DInv, NEW r \in DRequests, NEW s \in Subjects,
         NEW caller \in Clients \cup {""}, NEW x \in Resources,
         NEW declared \in D!Declarable, NEW asked \in Caps,
         D!TokenExchange(r, s, caller, x, declared, asked)
  PROVE  DInv'
<1> DEFINE at == IF declared = "id_token" THEN "server" ELSE "deny"
<1> DEFINE stood == subject[s] = "live"
<1>1. PICK k : k = [op |-> "exchange", step |-> at, subject |-> s, declared |-> declared,
                    resource |-> x, asked |-> asked, granted |-> {}, stood |-> stood,
                    offers |-> D!Offered(server, s, x)]
  OBVIOUS
<1>2. D!Arrive(r, k) /\ DQuiet /\ UNCHANGED D!Keyring
  BY <1>1 DEF D!TokenExchange, DQuiet, D!Registries, D!Redeemed, D!Keyring
<1>3. D!Offered(server, s, x) \in SUBSET Caps
  BY OfferedTyped DEF DInv, D!TypeOK
<1>4. k \in D!Exchange
  BY <1>1, <1>3 DEF D!Exchange, D!ConstantsOK
<1>5. RedeemOK(k)
  BY <1>1 DEF RedeemOK, Redeeming, Paid
<1>6. ExchangeOK(k)
  BY <1>1 DEF ExchangeOK, Abreast, Vetted, D!Declarable
<1> QED
  BY <1>2, <1>4, <1>5, <1>6, DQuietStep, ArriveStays, KeysStay DEF D!Handler

\* The deny list lets live tokens through.
LEMMA GetTokenByHashStep ==
  ASSUME DInv, NEW r \in DRequests, D!GetTokenByHash(r)
  PROVE  DInv'
<1>1. DQuiet /\ KeyTypes' /\ MishapTypes'
  BY KeysStay, DMishapsStay
     DEF D!GetTokenByHash, DQuiet, D!Registries, D!Redeemed, D!Keyring, D!Calm, D!Kinds
<1>2. errand[r] \in D!Exchange
  BY StepKinds DEF D!GetTokenByHash, D!At, Exchanging, DInv, D!TypeOK
<1>3. CASE D!NotDenied(errand[r].subject)
  <2>1. PICK g \in D!Exchange : g = errand[r]
    BY <1>2
  <2>2. PICK k : k = [g EXCEPT !.step = "server"]
    OBVIOUS
  <2>3. /\ k \in D!Exchange /\ k.step = "server" /\ k.subject = g.subject
        /\ k.resource = g.resource /\ k.stood = g.stood /\ k.offers = g.offers
    BY <2>1, <2>2 DEF D!Exchange
  <2>4. Abreast(g)
    BY <2>1 DEF D!GetTokenByHash, D!At, DInv, ExchangeOK, Exchanging
  <2>5. RedeemOK(k)
    BY <2>3 DEF RedeemOK, Redeeming, Paid
  <2>6. ExchangeOK(k)
    BY <1>3, <2>1, <2>3, <2>4 DEF ExchangeOK, Abreast, Vetted, D!NotDenied
  <2>7. D!Go(r, k)
    BY <1>3, <2>1, <2>2 DEF D!GetTokenByHash, D!Goto
  <2> QED
    BY <1>1, <2>3, <2>5, <2>6, <2>7, DQuietStep DEF D!Handler
<1>4. CASE ~D!NotDenied(errand[r].subject)
  BY <1>1, <1>4, AnswerStep DEF D!GetTokenByHash
<1> QED
  BY <1>3, <1>4

\* An enabled server grants within what it is authorised for.
LEMMA AuthorizedMCPServerStep ==
  ASSUME D!ConstantsOK, DInv, NEW r \in DRequests, D!AuthorizedMCPServer(r)
  PROVE  DInv'
<1>1. DQuiet /\ KeyTypes' /\ MishapTypes'
  BY KeysStay, DMishapsStay
     DEF D!AuthorizedMCPServer, DQuiet, D!Registries, D!Redeemed, D!Keyring, D!Calm, D!Kinds
<1>2. errand[r] \in D!Exchange
  BY StepKinds DEF D!AuthorizedMCPServer, D!At, Exchanging, DInv, D!TypeOK
<1>3. PICK h \in D!Exchange : h = errand[r]
  BY <1>2
<1>4. PICK entry \in D!Entry \cup {D!NoEntry} :
        entry = server[TenantOf[ClientOf[h.subject]], h.resource]
  BY <1>2, <1>3 DEF DInv, D!TypeOK, D!Exchange, D!ConstantsOK
<1>5. CASE D!Enabled(entry) /\ D!ScopesOk(entry.scopes, h.asked)
  <2>1. PICK k : k = [h EXCEPT !.step = "sign",
                               !.granted = D!GrantedScopes(entry.scopes, h.asked)]
    OBVIOUS
  <2>2. entry \in D!Entry
    BY <1>5 DEF D!NoEntry, D!Enabled
  <2>3. D!GrantedScopes(entry.scopes, h.asked) \subseteq Scopes
    BY <2>2, <1>3 DEF D!GrantedScopes, D!Entry, D!ConstantsOK, D!Exchange
  <2>4. /\ k \in D!Exchange /\ k.step = "sign" /\ k.subject = h.subject
        /\ k.resource = h.resource /\ k.declared = h.declared
        /\ k.stood = h.stood /\ k.offers = h.offers
        /\ k.granted = D!GrantedScopes(entry.scopes, h.asked)
    BY <2>1, <2>3 DEF D!Exchange
  <2>5. RedeemOK(k)
    BY <2>4 DEF RedeemOK, Redeeming, Paid
  <2>6. h.step = "server" /\ Abreast(h) /\ Vetted(h)
    BY <1>3 DEF D!AuthorizedMCPServer, D!At, DInv, ExchangeOK, Exchanging
  <2>7. entry.scopes \in h.offers /\ (entry.scopes = {} \/ k.granted \subseteq entry.scopes)
    BY <1>4, <1>5, <2>4, <2>6
       DEF D!GrantedScopes, D!ScopesOk, D!Enabled, D!Offered, Abreast
  <2>8. ExchangeOK(k)
    BY <2>4, <2>6, <2>7 DEF ExchangeOK, Abreast, Vetted
  <2>9. D!Go(r, k)
    BY <1>3, <1>4, <1>5, <2>1 DEF D!AuthorizedMCPServer
  <2> QED
    BY <1>1, <2>4, <2>5, <2>8, <2>9, DQuietStep DEF D!Handler
<1>6. CASE ~(D!Enabled(entry) /\ D!ScopesOk(entry.scopes, h.asked))
  <2>1. D!Answer(r)
    BY <1>3, <1>4, <1>6 DEF D!AuthorizedMCPServer
  <2> QED
    BY <1>1, <2>1, AnswerStep
<1> QED
  BY <1>5, <1>6

\* Making an assertion leaves the others alone.
LEMMA SignAppends ==
  ASSUME D!ConstantsOK, DInv, UNCHANGED burned,
         NEW iss \in DIssuers, NEW aud \in Resources \cup {Here},
         NEW client \in Clients, NEW scopes \in SUBSET Scopes,
         D!Sign(iss, aud, client, scopes, now + TTL)
  PROVE  /\ AssertionTypes' /\ Grown
         /\ D!Made' = D!Made \cup {Len(assertion) + 1} /\ Len(assertion) + 1 \notin D!Made
         /\ assertion'[Len(assertion) + 1].iss = iss
         /\ assertion'[Len(assertion) + 1].aud = aud
         /\ assertion'[Len(assertion) + 1].client = client
         /\ assertion'[Len(assertion) + 1].scopes = scopes
<1> DEFINE new == [iss |-> iss, aud |-> aud, client |-> client, scopes |-> scopes,
                   exp |-> now + TTL, key |-> published[iss]]
<1>1. assertion \in Seq(D!Assertion) /\ Len(assertion) \in Nat /\ Len(assertion) < NumAssertions
  BY LenProperties DEF DInv, D!TypeOK, D!Sign
<1>2. assertion' = Append(assertion, new)
  BY DEF D!Sign
<1>3. new \in D!Assertion
  <2>1. now + TTL \in 0..(MaxTime + TTL)
    BY DNumbersOK, TypeParts DEF DInv, Types, CounterTypes
  <2>2. published[iss] \in 0..NumKeys
    BY DNumbersOK, TypeParts DEF DInv, Types, KeyTypes
  <2> QED
    BY <2>1, <2>2 DEF D!Assertion
<1>4. assertion' \in Seq(D!Assertion) /\ Len(assertion') = Len(assertion) + 1
  BY <1>1, <1>2, <1>3
<1>5. D!Made = 1..Len(assertion) /\ D!Made' = 1..(Len(assertion) + 1)
  BY <1>1, <1>4, LenProperties DEF D!Made
<1>6. /\ \A a \in D!Made : assertion'[a] = assertion[a]
      /\ assertion'[Len(assertion) + 1] = new
  BY <1>1, <1>2, <1>3, <1>5
<1>7. AssertionTypes'
  BY <1>1, <1>4 DEF AssertionTypes, D!ConstantsOK
<1>8. Grown
  BY <1>1, <1>5, <1>6 DEF Grown
<1>9. D!Made' = D!Made \cup {Len(assertion) + 1} /\ Len(assertion) + 1 \notin D!Made
  BY <1>1, <1>5
<1> HIDE DEF new
<1>10. /\ new.iss = iss /\ new.aud = aud /\ new.client = client /\ new.scopes = scopes
  BY DEF new
<1> QED
  BY <1>6, <1>7, <1>8, <1>9, <1>10

\* A new assertion breaks nothing.
LEMMA NewAssertion ==
  ASSUME D!ConstantsOK, DInv, Grown, AssertionTypes', RequestTypes', D!Made \subseteq D!Made',
         (\A q \in DRequests : RedeemOK(errand[q]) /\ ExchangeOK(errand[q]))',
         UNCHANGED <<D!Registries, D!Keyring, subject, D!Redeemed, now, edits, setbacks>>
  PROVE  DInv'
<1>1. Types
  BY TypeParts DEF DInv
<1>2. (RegistryTypes /\ KeyTypes /\ SubjectTypes)'
  BY <1>1 DEF Types, D!Registries, D!Keyring, RegistryTypes, KeyTypes, SubjectTypes
<1>3. (RecordTypes /\ TokenTypes /\ CounterTypes /\ MishapTypes)'
  BY <1>1 DEF Types, D!Redeemed, RecordTypes, TokenTypes, CounterTypes, MishapTypes
<1>4. D!TypeOK'
  BY <1>2, <1>3, TypePartsNext DEF Types
<1>5. RecordKept'
  <2> SUFFICES ASSUME NEW a \in burned PROVE a \in used \/ now > assertion'[a].exp
    BY DEF RecordKept, D!Redeemed
  <2>1. a \in D!Made /\ assertion'[a] = assertion[a]
    BY <1>1 DEF Types, RecordTypes, Grown
  <2> QED
    BY <2>1 DEF DInv, RecordKept
<1> QED
  BY <1>4, <1>5 DEF DInv

\* SignTyped, of what the exchange was granted.
LEMMA SignTypedStep ==
  ASSUME D!ConstantsOK, DInv, NEW r \in DRequests, D!SignTyped(r)
  PROVE  DInv'
<1>1. PICK h \in D!Exchange : h = errand[r]
  BY StepKinds DEF D!SignTyped, D!At, Exchanging, DInv, D!TypeOK
<1>2. D!Sign(Self, h.resource, ClientOf[h.subject], h.granted, now + TTL)
  BY <1>1 DEF D!SignTyped
<1>3. /\ ClientOf[h.subject] \in Clients /\ h.resource \in Resources
      /\ h.granted \in SUBSET Scopes /\ Self \in DIssuers
  BY DEF D!Exchange, D!ConstantsOK
<1>4. AssertionTypes' /\ Grown
  BY <1>2, <1>3, SignAppends DEF D!SignTyped, D!Redeemed
<1>5. D!Go(r, D!Idle) /\ RequestTypes'
  BY DEF D!SignTyped, D!Answer, D!Go, DInv, D!TypeOK, RequestTypes
<1>6. (\A q \in DRequests : RedeemOK(errand[q]) /\ ExchangeOK(errand[q]))'
  BY <1>4, <1>5, DIdleOK, RequestsKept DEF D!SignTyped, D!Registries
<1> QED
  BY <1>4, <1>5, <1>6, NewAssertion DEF D!SignTyped, Grown

\* Another provider's assertion touches no handler.
LEMMA ForeignStep ==
  ASSUME D!ConstantsOK, DInv, NEW i \in DIssuers, NEW aud \in Resources \cup {Here},
         NEW c \in Clients, NEW scopes \in Caps, D!Foreign(i, aud, c, scopes)
  PROVE  DInv'
<1>1. AssertionTypes' /\ Grown
  BY SignAppends DEF D!Foreign, D!ConstantsOK, D!Redeemed
<1>2. RequestTypes'
  BY DEF D!Foreign, DInv, D!TypeOK, RequestTypes
<1>3. (\A q \in DRequests : RedeemOK(errand[q]) /\ ExchangeOK(errand[q]))'
  BY <1>1, RequestsStay DEF D!Foreign, D!Registries
<1> QED
  BY <1>1, <1>2, <1>3, NewAssertion DEF D!Foreign, Grown

\* A new key, an edit of nobody's registry.
LEMMA RotateKeyStep ==
  ASSUME D!ConstantsOK, DInv, NEW i \in DIssuers, D!RotateKey(i)
  PROVE  DInv'
<1>1. Types
  BY TypeParts DEF DInv
<1>2. KeyTypes'
  <2>1. published[i] + 1 \in 1..NumKeys
    BY <1>1 DEF Types, KeyTypes, D!RotateKey, D!ConstantsOK
  <2> QED
    BY <1>1, <2>1 DEF Types, KeyTypes, D!RotateKey
<1>3. CounterTypes'
  BY <1>1 DEF Types, CounterTypes, D!RotateKey, D!ConstantsOK
<1>4. (RegistryTypes /\ SubjectTypes /\ AssertionTypes)'
  BY <1>1 DEF Types, D!RotateKey, D!Registries, RegistryTypes, SubjectTypes, AssertionTypes
<1>5. (RecordTypes /\ TokenTypes /\ MishapTypes /\ RequestTypes)'
  BY <1>1 DEF Types, D!RotateKey, D!Redeemed, D!Made, RecordTypes, TokenTypes, MishapTypes,
              RequestTypes
<1>6. D!TypeOK'
  BY <1>2, <1>3, <1>4, <1>5, TypePartsNext DEF Types
<1>7. RecordKept'
  BY DEF D!RotateKey, D!Redeemed, DInv, RecordKept
<1>8. (\A q \in DRequests : RedeemOK(errand[q]) /\ ExchangeOK(errand[q]))'
  BY RequestsStay DEF D!RotateKey, D!Registries, D!Redeemed, Grown, D!Made
<1> QED
  BY <1>6, <1>7, <1>8 DEF DInv
-----------------------------------------------------------------------------
(* Redemption.                                                               *)

\* An assertion there is is one.
LEMMA AssertionsAre ==
  ASSUME DInv, NEW a \in D!Made
  PROVE  assertion[a] \in D!Assertion
<1>1. assertion \in Seq(D!Assertion)
  BY DEF DInv, D!TypeOK
<1>2. a \in 1..Len(assertion)
  BY <1>1, LenProperties DEF D!Made
<1> QED
  BY <1>1, <1>2, ElementOfSeq

\* A redemption begins with an assertion there is.
LEMMA JWTBearerStep ==
  ASSUME D!ConstantsOK, DInv, NEW r \in DRequests, NEW a \in D!Made, NEW c \in Clients,
         NEW asked \in Caps, D!JWTBearer(r, a, c, asked)
  PROVE  DInv'
<1>1. PICK k : k = [op |-> "redeem", step |-> "trust", from |-> a, client |-> c,
                    asked |-> asked, cap |-> {}, key |-> D!NoKey, seen |-> 0,
                    forced |-> FALSE, granted |-> {}]
  OBVIOUS
<1>2. D!Arrive(r, k) /\ DQuiet /\ UNCHANGED D!Keyring
  BY <1>1 DEF D!JWTBearer, DQuiet, D!Registries, D!Redeemed, D!Keyring
<1>3. a \in 1..NumAssertions
  BY LenProperties DEF DInv, D!TypeOK, D!Made, D!ConstantsOK
<1>4. k \in D!Redemption
  BY <1>1, <1>3 DEF D!Redemption, D!ConstantsOK, D!NoKey
<1>5. RedeemOK(k) /\ ExchangeOK(k)
  BY <1>1 DEF RedeemOK, ExchangeOK, Redeeming, Paid, Exchanging
<1> QED
  BY <1>2, <1>4, <1>5, DQuietStep, ArriveStays, KeysStay DEF D!Handler

\* The workspace's cap is read with the trust in the issuer.
LEMMA TrustedIDPStep ==
  ASSUME D!ConstantsOK, DInv, NEW r \in DRequests, D!TrustedIDP(r)
  PROVE  DInv'
<1>1. DQuiet /\ KeyTypes' /\ MishapTypes'
  BY KeysStay, DMishapsStay
     DEF D!TrustedIDP, DQuiet, D!Registries, D!Redeemed, D!Keyring, D!Calm, D!Kinds
<1>2. PICK h \in D!Redemption : h = errand[r]
  BY StepKinds DEF D!TrustedIDP, D!At, Redeeming, DInv, D!TypeOK
<1>3. h.step = "trust" /\ h.from \in D!Made
  BY <1>2 DEF D!TrustedIDP, D!At, DInv, RedeemOK, Redeeming
<1>4. assertion[h.from].iss \in DIssuers /\ TenantOf[h.client] \in Tenants
  BY <1>3, AssertionsAre DEF D!Assertion, D!Redemption, D!ConstantsOK
<1>5. CASE D!Trusts(TenantOf[h.client], assertion[h.from].iss)
  <2>1. PICK entry \in D!Entry \cup {D!NoEntry} :
          entry = idp[<<TenantOf[h.client], assertion[h.from].iss>>]
    BY <1>4 DEF DInv, D!TypeOK
  <2>2. PICK k : k = [h EXCEPT !.step = "keys", !.cap = entry.scopes, !.seen = now]
    OBVIOUS
  <2>3. D!Go(r, k)
    BY <1>2, <1>5, <2>1, <2>2 DEF D!TrustedIDP
  <2>4. entry \in D!Entry
    <3>1. entry.enabled
      BY <1>5, <2>1 DEF D!Trusts
    <3> QED
      BY <2>1, <3>1 DEF D!NoEntry
  <2>5. entry.scopes \subseteq Scopes /\ now \in 0..MaxTime
    BY <2>4 DEF D!Entry, D!ConstantsOK, DInv, D!TypeOK
  <2>6. k \in D!Redemption /\ k.step = "keys" /\ k.from = h.from
    BY <2>2, <2>5 DEF D!Redemption
  <2>7. RedeemOK(k) /\ ExchangeOK(k)
    BY <1>3, <2>6 DEF RedeemOK, ExchangeOK, Redeeming, Paid, Exchanging
  <2> QED
    BY <1>1, <2>3, <2>6, <2>7, DQuietStep DEF D!Handler
<1>6. CASE ~D!Trusts(TenantOf[h.client], assertion[h.from].iss)
  BY <1>1, <1>2, <1>6, AnswerStep DEF D!TrustedIDP
<1> QED
  BY <1>5, <1>6

\* Fetching the issuer's key, or finding it cached, brings a key of the issuer's.
LEMMA DFetchStep ==
  ASSUME D!ConstantsOK, DInv, NEW r \in DRequests, NEW forced \in BOOLEAN, DQuiet, D!Calm,
         NEW h \in D!Redemption, h = errand[r], h.step \in {"keys", "refetch"},
         D!Fetch(r, forced)
  PROVE  DInv'
<1> DEFINE i == assertion[h.from].iss
<1>1. h.from \in D!Made /\ i \in DIssuers
  <2>1. h.from \in D!Made
    BY DEF DInv, RedeemOK, Redeeming
  <2> QED
    BY <2>1, AssertionsAre DEF D!Assertion
<1>2. published[i] \in 0..NumKeys
  BY <1>1, TypeParts, DNumbersOK DEF DInv, Types, KeyTypes
<1>3. PICK k : k = [h EXCEPT !.step = "check", !.key = published[i], !.forced = forced]
  OBVIOUS
<1>4. D!Go(r, k) /\ cached' = [cached EXCEPT ![i] = published[i]]
  BY <1>3 DEF D!Fetch
<1>5. k \in D!Redemption /\ k.step = "check" /\ k.from = h.from
  BY <1>2, <1>3 DEF D!Redemption
<1>6. RedeemOK(k) /\ ExchangeOK(k)
  BY <1>1, <1>5 DEF RedeemOK, ExchangeOK, Redeeming, Paid, Exchanging
<1>7. KeyTypes'
  BY <1>2, <1>4, TypeParts DEF DInv, Types, KeyTypes, DQuiet
<1>8. MishapTypes'
  BY TypeParts DEF DInv, Types, MishapTypes, D!Calm
<1> QED
  BY <1>4, <1>5, <1>6, <1>7, <1>8, DQuietStep DEF D!Handler

\* Keys, with or without a fetch.
LEMMA DKeysStep ==
  ASSUME D!ConstantsOK, DInv, NEW r \in DRequests, D!Keys(r)
  PROVE  DInv'
<1>1. DQuiet /\ D!Calm
  BY DEF D!Keys, DQuiet, D!Calm, D!Registries, D!Redeemed
<1>2. PICK h \in D!Redemption : h = errand[r]
  BY StepKinds DEF D!Keys, D!At, Redeeming, DInv, D!TypeOK
<1>3. h.step = "keys" /\ h.from \in D!Made
  BY <1>2 DEF D!Keys, D!At, DInv, RedeemOK, Redeeming
<1>4. CASE cached[assertion[h.from].iss] = D!NoKey
  BY <1>1, <1>2, <1>3, <1>4, DFetchStep DEF D!Keys
<1>5. CASE cached[assertion[h.from].iss] # D!NoKey
  <2> DEFINE key == cached[assertion[h.from].iss]
  <2>1. key \in 0..NumKeys
    BY <1>3, AssertionsAre, TypeParts DEF D!Assertion, DInv, Types, KeyTypes
  <2>2. PICK k : k = [h EXCEPT !.step = "check", !.key = key]
    OBVIOUS
  <2>3. D!Go(r, k) /\ UNCHANGED cached
    BY <1>2, <1>5, <2>2 DEF D!Keys
  <2>4. k \in D!Redemption /\ k.step = "check" /\ k.from = h.from
    BY <2>1, <2>2 DEF D!Redemption
  <2>5. RedeemOK(k) /\ ExchangeOK(k)
    BY <1>3, <2>4 DEF RedeemOK, ExchangeOK, Redeeming, Paid, Exchanging
  <2>6. KeyTypes' /\ MishapTypes'
    BY <1>1, <2>3, KeysStay, DMishapsStay DEF DQuiet, D!Keyring, D!Kinds
  <2> QED
    BY <1>1, <2>3, <2>4, <2>5, <2>6, DQuietStep DEF D!Handler
<1> QED
  BY <1>4, <1>5

\* Refetch, of a key that did not verify.
LEMMA RefetchStep ==
  ASSUME D!ConstantsOK, DInv, NEW r \in DRequests, D!Refetch(r)
  PROVE  DInv'
<1>1. DQuiet /\ D!Calm
  BY DEF D!Refetch, DQuiet, D!Calm, D!Registries, D!Redeemed
<1>2. PICK h \in D!Redemption : h = errand[r]
  BY StepKinds DEF D!Refetch, D!At, Redeeming, DInv, D!TypeOK
<1> QED
  BY <1>1, <1>2, DFetchStep DEF D!Refetch, D!At

\* Check, of signature, window, audience and client.
LEMMA CheckStep ==
  ASSUME D!ConstantsOK, DInv, NEW r \in DRequests, D!Check(r)
  PROVE  DInv'
<1>1. DQuiet /\ KeyTypes' /\ MishapTypes'
  BY KeysStay, DMishapsStay
     DEF D!Check, DQuiet, D!Registries, D!Redeemed, D!Keyring, D!Calm, D!Kinds
<1>2. PICK h \in D!Redemption : h = errand[r]
  BY StepKinds DEF D!Check, D!At, Redeeming, DInv, D!TypeOK
<1>3. h.step = "check" /\ h.from \in D!Made
  BY <1>2 DEF D!Check, D!At, DInv, RedeemOK, Redeeming
<1>4. CASE D!Answer(r)
  BY <1>1, <1>4, AnswerStep
<1>5. ASSUME NEW k, D!Go(r, k),
             \/ k = [h EXCEPT !.step = "burn", !.key = D!NoKey, !.seen = 0, !.forced = FALSE]
             \/ k = [h EXCEPT !.step = "refetch"]
      PROVE  DInv'
  <2>1. k \in D!Redemption /\ k.step \in {"burn", "refetch"} /\ k.from = h.from
    <3>1. 0 \in 0..NumKeys /\ 0 \in 0..MaxTime
      BY DNumbersOK
    <3> QED
      BY <1>5, <3>1 DEF D!Redemption, D!NoKey
  <2>2. RedeemOK(k) /\ ExchangeOK(k)
    BY <1>3, <2>1 DEF RedeemOK, ExchangeOK, Redeeming, Paid, Exchanging
  <2> QED
    BY <1>1, <1>5, <2>1, <2>2, DQuietStep DEF D!Handler
<1> QED
  BY <1>2, <1>4, <1>5 DEF D!Check, D!Goto

\* Whatever fails, the handler answers and nothing else happens.
LEMMA FailsStep ==
  ASSUME DInv, NEW r \in DRequests, D!Fails(r)
  PROVE  DInv'
<1>1. DQuiet /\ KeyTypes' /\ MishapTypes'
  BY KeysStay, DMishapsStay DEF D!Fails, DQuiet, D!Registries, D!Redeemed, D!Keyring, D!Kinds
<1> QED
  BY <1>1, AnswerStep DEF D!Fails

\* A restart empties the cache and ends every request.
LEMMA DRestartStep ==
  ASSUME D!ConstantsOK, DInv, D!Restart
  PROVE  DInv'
<1>1. Types
  BY TypeParts DEF DInv
<1>2. KeyTypes'
  BY <1>1, DNumbersOK DEF Types, KeyTypes, D!Restart, D!NoKey
<1>3. (RegistryTypes /\ SubjectTypes /\ AssertionTypes /\ CounterTypes)'
  BY <1>1 DEF Types, D!Restart, D!Registries, RegistryTypes, SubjectTypes, AssertionTypes,
              CounterTypes
<1>4. (RecordTypes /\ TokenTypes)'
  BY <1>1 DEF Types, D!Restart, D!Redeemed, D!Made, RecordTypes, TokenTypes
<1>5. MishapTypes' /\ RequestTypes'
  BY DMishapsStay DEF D!Restart, D!Kinds, RequestTypes
<1>6. D!TypeOK'
  BY <1>2, <1>3, <1>4, <1>5, TypePartsNext DEF Types
<1>7. RecordKept'
  BY DEF D!Restart, D!Redeemed, DInv, RecordKept
<1>8. (\A q \in DRequests : RedeemOK(errand[q]) /\ ExchangeOK(errand[q]))'
  <2> SUFFICES ASSUME NEW q \in DRequests
               PROVE  (RedeemOK(errand[q]) /\ ExchangeOK(errand[q]))'
    OBVIOUS
  <2>1. errand'[q] = D!Idle
    BY DEF D!Restart
  <2> QED
    BY <2>1, DIdleOK DEF RedeemOK, ExchangeOK
<1> QED
  BY <1>6, <1>7, <1>8 DEF DInv

\* What a redemption records or makes: the tables it writes only grow.
LEMMA RedeemedStep ==
  ASSUME DInv, NEW r \in DRequests, NEW k \in D!Handler \cup {D!Idle}, D!Go(r, k),
         UNCHANGED <<D!Registries, D!Keyring, subject, assertion, now, edits>>,
         MishapTypes', burned \subseteq burned', RecordTypes', TokenTypes', RecordKept',
         RedeemOK(k)', ExchangeOK(k)
  PROVE  DInv'
<1>1. Types
  BY TypeParts DEF DInv
<1>2. (RegistryTypes /\ KeyTypes /\ SubjectTypes)'
  BY <1>1 DEF Types, D!Registries, D!Keyring, RegistryTypes, KeyTypes, SubjectTypes
<1>3. (AssertionTypes /\ CounterTypes /\ RequestTypes)'
  BY <1>1 DEF Types, AssertionTypes, CounterTypes, RequestTypes, D!Go
<1>4. D!TypeOK'
  BY <1>2, <1>3, TypePartsNext DEF Types
<1>5. Grown /\ UNCHANGED <<server, subject>>
  BY DEF Grown, D!Made, D!Registries
<1>6. (\A q \in DRequests : RedeemOK(errand[q]) /\ ExchangeOK(errand[q]))'
  BY <1>5, RequestsKept, ExchangeKept
<1> QED
  BY <1>4, <1>6 DEF DInv

\* The tokens stay typed as more jtis are recorded.
LEMMA TokensStay ==
  ASSUME DInv, UNCHANGED <<session, token>>, burned \subseteq burned'
  PROVE  TokenTypes'
<1>1. session \in Seq(burned) /\ token \in Seq([from : burned, scopes : SUBSET Scopes])
  BY DEF DInv, D!TypeOK
<1>2. session \in Seq(burned')
  BY <1>1, SeqMonotonic
<1>3. [from : burned, scopes : SUBSET Scopes] \subseteq [from : burned', scopes : SUBSET Scopes]
  OBVIOUS
<1>4. token \in Seq([from : burned', scopes : SUBSET Scopes])
  BY <1>1, <1>3, SeqMonotonic
<1> QED
  BY <1>2, <1>4 DEF TokenTypes

\* The sweep forgets only what has expired, and this jti is recorded.
LEMMA RecordStays ==
  ASSUME DInv, UNCHANGED <<assertion, now>>, NEW S \in SUBSET D!Made,
         used' = D!Swept \cup S, burned' = burned \cup S
  PROVE  RecordKept' /\ RecordTypes'
<1>1. used \subseteq burned /\ burned \subseteq D!Made
  BY DEF DInv, D!TypeOK
<1>2. RecordTypes'
  BY <1>1 DEF RecordTypes, D!Swept, D!Made
<1>3. RecordKept'
  <2> SUFFICES ASSUME NEW a \in burned, a \notin D!Swept PROVE now > assertion[a].exp
    BY DEF RecordKept
  <2>1. CASE a \in used
    <3>1. ~(now <= assertion[a].exp)
      BY <2>1 DEF D!Swept
    <3>2. assertion[a].exp \in Int /\ now \in Int
      <4>1. a \in D!Made
        BY <1>1
      <4> QED
        BY <4>1, AssertionsAre, TypeParts DEF D!Assertion, DInv, Types, CounterTypes
    <3> QED
      BY <3>1, <3>2
  <2>2. CASE a \notin used
    BY <2>2 DEF DInv, RecordKept
  <2> QED
    BY <2>1, <2>2
<1> QED
  BY <1>2, <1>3

\* RedeemIDJAGJTI: recorded first, then narrowed and capped.
LEMMA RedeemIDJAGJTIStep ==
  ASSUME D!ConstantsOK, DInv, NEW r \in DRequests, D!RedeemIDJAGJTI(r)
  PROVE  DInv'
<1>1. PICK h \in D!Redemption : h = errand[r]
  BY StepKinds DEF D!RedeemIDJAGJTI, D!At, Redeeming, DInv, D!TypeOK
<1>2. h.step = "burn" /\ h.from \in D!Made
  BY <1>1 DEF D!RedeemIDJAGJTI, D!At, DInv, RedeemOK, Redeeming
<1> DEFINE carried == assertion[h.from].scopes
           granted == D!IntersectScopes(D!Narrowed(carried, h.asked), h.cap)
<1>3. UNCHANGED <<D!Registries, D!Keyring, subject, assertion, now, edits, session, token>>
  BY DEF D!RedeemIDJAGJTI
<1>4. MishapTypes'
  BY DMishapsStay DEF D!RedeemIDJAGJTI, D!Kinds
<1>5. CASE h.from \in D!Swept
  <2>1. D!Go(r, D!Idle) /\ used' = D!Swept \cup {} /\ burned' = burned \cup {}
    BY <1>1, <1>5 DEF D!RedeemIDJAGJTI, D!Answer
  <2>2. RecordKept' /\ RecordTypes'
    <3>1. {} \in SUBSET D!Made
      OBVIOUS
    <3> QED
      BY <1>3, <2>1, <3>1, RecordStays
  <2>3. TokenTypes'
    BY <1>3, <2>1, TokensStay
  <2> QED
    BY <1>3, <1>4, <2>1, <2>2, <2>3, DIdleOK, RedeemedStep
<1>6. CASE h.from \notin D!Swept
  <2>1. used' = D!Swept \cup {h.from} /\ burned' = burned \cup {h.from}
    BY <1>1, <1>6 DEF D!RedeemIDJAGJTI
  <2>2. RecordKept' /\ RecordTypes'
    BY <1>2, <1>3, <2>1, RecordStays
  <2>3. TokenTypes'
    BY <1>3, <2>1, TokensStay
  <2>4. CASE D!Go(r, D!Idle)
    BY <1>3, <1>4, <2>1, <2>2, <2>3, <2>4, DIdleOK, RedeemedStep
  <2>5. CASE /\ D!NarrowOk(carried, h.asked)
             /\ D!Go(r, [h EXCEPT !.step = "session", !.asked = {}, !.granted = granted])
    <3>1. PICK k : k = [h EXCEPT !.step = "session", !.asked = {}, !.granted = granted]
      OBVIOUS
    <3>2. carried \subseteq Scopes
      BY <1>2, AssertionsAre DEF D!Assertion
    <3>3. D!Narrowed(carried, h.asked) \subseteq carried
      BY <2>5 DEF D!NarrowOk, D!ScopesOk, D!Narrowed
    <3>4. granted \subseteq D!Allowed(carried, h.cap) /\ granted \in SUBSET Scopes
      BY <3>2, <3>3 DEF D!IntersectScopes, D!Allowed
    <3> HIDE DEF granted
    <3>5. /\ k \in D!Redemption /\ k.step = "session" /\ k.from = h.from /\ k.cap = h.cap
          /\ k.granted = granted
      BY <3>1, <3>4 DEF D!Redemption
    <3>6. RedeemOK(k)'
      <4>1. /\ k.from \in D!Made' /\ k.from \in burned'
            /\ k.granted \subseteq D!Allowed(assertion'[k.from].scopes, k.cap)
        BY <1>2, <1>3, <2>1, <3>4, <3>5 DEF D!Made
      <4> QED
        BY <4>1 DEF RedeemOK, D!Allowed
    <3>7. ExchangeOK(k)
      BY <3>5 DEF ExchangeOK, Exchanging
    <3>8. D!Go(r, k)
      BY <2>5, <3>1
    <3> QED
      BY <1>3, <1>4, <2>1, <2>2, <2>3, <3>5, <3>6, <3>7, <3>8, RedeemedStep DEF D!Handler
  <2> QED
    BY <1>1, <1>6, <2>4, <2>5 DEF D!RedeemIDJAGJTI, D!Answer
<1> QED
  BY <1>5, <1>6

\* CreateSession, for an assertion that is recorded.
LEMMA CreateSessionStep ==
  ASSUME DInv, NEW r \in DRequests, D!CreateSession(r)
  PROVE  DInv'
<1>1. PICK h \in D!Redemption : h = errand[r]
  BY StepKinds DEF D!CreateSession, D!At, Redeeming, Paid, DInv, D!TypeOK
<1>2. h.step = "session" /\ RedeemOK(h)
  BY <1>1 DEF D!CreateSession, D!At, DInv
<1>3. h.from \in burned /\ h.from \in D!Made
  BY <1>2 DEF RedeemOK, Redeeming, Paid
<1>4. /\ UNCHANGED <<D!Registries, D!Keyring, subject, assertion, now, edits>>
      /\ UNCHANGED <<used, burned, token>> /\ session' = Append(session, h.from)
  BY <1>1 DEF D!CreateSession
<1>5. TokenTypes'
  BY <1>3, <1>4, TypeParts DEF DInv, Types, TokenTypes
<1>6. RecordTypes' /\ RecordKept'
  BY <1>4 DEF DInv, D!TypeOK, RecordTypes, RecordKept, D!Made
<1>7. MishapTypes'
  BY DMishapsStay DEF D!CreateSession, D!Kinds
<1>8. CASE D!Answer(r)
  BY <1>4, <1>5, <1>6, <1>7, <1>8, DIdleOK, RedeemedStep DEF D!Answer
<1>9. CASE D!Goto(r, "token")
  <2>1. PICK k : k = [h EXCEPT !.step = "token"]
    OBVIOUS
  <2>2. /\ k \in D!Redemption /\ k.step = "token" /\ k.from = h.from /\ k.cap = h.cap
        /\ k.granted = h.granted
    BY <2>1 DEF D!Redemption
  <2>3. RedeemOK(k) /\ ExchangeOK(k)
    BY <1>2, <2>2 DEF RedeemOK, ExchangeOK, Redeeming, Paid, Exchanging
  <2>4. RedeemOK(k)'
    BY <1>4, <2>3, RedeemKept DEF Grown, D!Made
  <2>5. D!Go(r, k)
    BY <1>1, <1>9, <2>1 DEF D!Goto
  <2> QED
    BY <1>4, <1>5, <1>6, <1>7, <2>2, <2>3, <2>4, <2>5, RedeemedStep DEF D!Handler
<1> QED
  BY <1>8, <1>9 DEF D!CreateSession

\* PutToken, for an assertion that is recorded.
LEMMA PutTokenStep ==
  ASSUME DInv, NEW r \in DRequests, D!PutToken(r)
  PROVE  DInv'
<1>1. PICK h \in D!Redemption : h = errand[r]
  BY StepKinds DEF D!PutToken, D!At, Redeeming, Paid, DInv, D!TypeOK
<1>2. h.step = "token" /\ RedeemOK(h)
  BY <1>1 DEF D!PutToken, D!At, DInv
<1>3. h.from \in burned /\ h.granted \subseteq Scopes
  BY <1>2 DEF RedeemOK, Redeeming, Paid, D!Redemption
<1>4. /\ UNCHANGED <<D!Registries, D!Keyring, subject, assertion, now, edits>>
      /\ UNCHANGED <<used, burned, session>> /\ D!Answer(r)
      /\ token' = Append(token, [from |-> h.from, scopes |-> h.granted])
  BY <1>1 DEF D!PutToken
<1>5. TokenTypes'
  <2>1. [from |-> h.from, scopes |-> h.granted] \in [from : burned, scopes : SUBSET Scopes]
    BY <1>3
  <2> QED
    BY <1>4, <2>1, TypeParts DEF DInv, Types, TokenTypes
<1>6. RecordTypes' /\ RecordKept'
  BY <1>4 DEF DInv, D!TypeOK, RecordTypes, RecordKept, D!Made
<1>7. MishapTypes'
  BY DMishapsStay DEF D!PutToken, D!Kinds
<1> QED
  BY <1>4, <1>5, <1>6, <1>7, DIdleOK, RedeemedStep DEF D!Answer
-----------------------------------------------------------------------------
(* Edits and time.                                                           *)

\* The exchanges in flight note what the edited registry offers, redemptions
\* are left alone.
LEMMA NotedStays ==
  ASSUME D!ConstantsOK, DInv, UNCHANGED <<assertion, burned, subject>>, RegistryTypes',
         errand' = D!Noted(server')
  PROVE  /\ RequestTypes'
         /\ (\A q \in DRequests : RedeemOK(errand[q]) /\ ExchangeOK(errand[q]))'
<1>1. ASSUME NEW q \in DRequests
      PROVE  /\ errand'[q] \in D!Handler \cup {D!Idle}
             /\ RedeemOK(errand[q])' /\ ExchangeOK(errand[q])'
  <2>1. PICK h \in D!Handler \cup {D!Idle} : h = errand[q]
    BY DEF DInv, D!TypeOK
  <2>2. RedeemOK(h) /\ ExchangeOK(h)
    BY <2>1 DEF DInv
  <2>3. PICK k : k = errand'[q]
    OBVIOUS
  <2>4. PICK new : new = D!Offered(server', h.subject, h.resource)
    OBVIOUS
  <2>5. k = IF h # D!Idle /\ h.op = "exchange" THEN [h EXCEPT !.offers = h.offers \cup new] ELSE h
    BY <2>1, <2>3, <2>4 DEF D!Noted, D!Busy
  <2>6. CASE h \in D!Exchange
    <3>1. h # D!Idle /\ h.op = "exchange"
      BY <2>6 DEF D!Exchange, D!Idle
    <3>2. new \in SUBSET Caps
      BY <2>4, <2>6, OfferedTyped DEF RegistryTypes, D!Exchange
    <3>3. /\ k \in D!Exchange /\ k.offers = h.offers \cup new
          /\ k.step = h.step /\ k.subject = h.subject /\ k.resource = h.resource
          /\ k.declared = h.declared /\ k.stood = h.stood /\ k.granted = h.granted
      BY <2>5, <2>6, <3>1, <3>2 DEF D!Exchange
    <3>4. k.step \in Exchanging /\ k.step \notin Redeeming
      BY <3>3 DEF D!Exchange, Exchanging, Redeeming, Paid
    <3>5. RedeemOK(k)'
      BY <3>4 DEF RedeemOK
    <3>6. Abreast(k)'
      BY <2>2, <2>4, <3>3, <3>4 DEF ExchangeOK, Abreast
    <3>7. Vetted(k)
      BY <2>2, <3>3, <3>4 DEF ExchangeOK, Vetted
    <3>8. ExchangeOK(k)'
      BY <3>6, <3>7 DEF ExchangeOK, Vetted
    <3> QED
      BY <2>3, <3>3, <3>5, <3>8 DEF D!Handler, RedeemOK, ExchangeOK, Abreast, Vetted, D!Offered
  <2>7. CASE h \in D!Redemption
    <3>1. k = h /\ h.step \notin Exchanging
      BY <2>5, <2>7 DEF D!Redemption, Exchanging
    <3>2. RedeemOK(k)'
      BY <2>2, <3>1, RedeemKept DEF Grown, D!Made
    <3>3. ExchangeOK(k)'
      BY <3>1 DEF ExchangeOK
    <3> QED
      BY <2>1, <2>3, <3>1, <3>2, <3>3 DEF RedeemOK, ExchangeOK, Abreast, Vetted, D!Offered
  <2>8. CASE h = D!Idle
    <3>1. k = D!Idle
      BY <2>5, <2>8
    <3> QED
      BY <2>3, <3>1, DIdleOK DEF RedeemOK, ExchangeOK, Abreast, Vetted, D!Offered
  <2> QED
    BY <2>6, <2>7, <2>8 DEF D!Handler
<1>2. errand' \in [DRequests -> D!Handler \cup {D!Idle}]
  <2>1. errand' = [q \in DRequests |-> errand'[q]]
    BY DEF D!Noted
  <2> QED
    BY <1>1, <2>1
<1> QED
  BY <1>1, <1>2 DEF RequestTypes

\* A token that falls takes nothing from an exchange: it stood before.
LEMMA FallenStay ==
  ASSUME DInv, UNCHANGED <<errand, server, assertion, burned>>,
         \A s \in Subjects : subject'[s] = "live" => subject[s] = "live"
  PROVE  (\A q \in DRequests : RedeemOK(errand[q]) /\ ExchangeOK(errand[q]))'
<1> SUFFICES ASSUME NEW q \in DRequests
             PROVE  (RedeemOK(errand[q]) /\ ExchangeOK(errand[q]))'
  OBVIOUS
<1>1. PICK h \in D!Handler \cup {D!Idle} : h = errand[q]
  BY DEF DInv, D!TypeOK
<1>2. h = errand'[q]
  BY <1>1, Zenon
<1>3. RedeemOK(h) /\ ExchangeOK(h)
  BY <1>1 DEF DInv
<1>4. RedeemOK(h)'
  BY <1>3, RedeemKept DEF Grown, D!Made
<1>5. ExchangeOK(h)'
  <2> SUFFICES ASSUME h.step \in Exchanging PROVE Abreast(h)' /\ Vetted(h)
    BY DEF ExchangeOK, Vetted
  <2>1. h.subject \in Subjects
    BY StepKinds DEF D!Exchange
  <2> QED
    BY <1>3, <2>1 DEF ExchangeOK, Abreast, D!Offered
<1> QED
  BY <1>2, <1>4, <1>5 DEF RedeemOK, ExchangeOK, Abreast, Vetted, D!Offered

\* Whatever the owners edit, if the registries stay typed and the handlers
\* keep what they hold.
LEMMA EditStep ==
  ASSUME D!ConstantsOK, DInv, D!Edit, RegistryTypes', SubjectTypes', RequestTypes',
         (\A q \in DRequests : RedeemOK(errand[q]) /\ ExchangeOK(errand[q]))'
  PROVE  DInv'
<1>1. Types
  BY TypeParts DEF DInv
<1>2. (KeyTypes /\ AssertionTypes /\ MishapTypes)'
  BY <1>1 DEF Types, D!Edit, D!Keyring, KeyTypes, AssertionTypes, MishapTypes
<1>3. (RecordTypes /\ TokenTypes)'
  BY <1>1 DEF Types, D!Edit, D!Redeemed, D!Made, RecordTypes, TokenTypes
<1>4. CounterTypes'
  BY <1>1, DNumbersOK DEF Types, D!Edit, CounterTypes
<1>5. D!TypeOK'
  BY <1>2, <1>3, <1>4, TypePartsNext DEF Types
<1>6. RecordKept'
  BY DEF D!Edit, D!Redeemed, DInv, RecordKept
<1> QED
  BY <1>5, <1>6 DEF DInv

\* An entry is created enabled, switched or deleted.
LEMMA EntryTypes ==
  ASSUME D!ConstantsOK, NEW Keys_, NEW key \in Keys_,
         NEW registry \in [Keys_ -> D!Entry \cup {D!NoEntry}], NEW scopes \in Caps
  PROVE  /\ D!Created(registry, key, scopes) \in [Keys_ -> D!Entry \cup {D!NoEntry}]
         /\ registry[key] # D!NoEntry =>
              D!Toggled(registry, key) \in [Keys_ -> D!Entry \cup {D!NoEntry}]
         /\ D!Deleted(registry, key) \in [Keys_ -> D!Entry \cup {D!NoEntry}]
<1>1. [enabled |-> TRUE, scopes |-> scopes] \in D!Entry
  BY DEF D!Entry
<1>2. registry[key] # D!NoEntry =>
        [registry[key] EXCEPT !.enabled = ~registry[key].enabled] \in D!Entry
  BY DEF D!Entry
<1> QED
  BY <1>1, <1>2 DEF D!Created, D!Toggled, D!Deleted

\* The registry of MCP servers.
LEMMA ServerStep ==
  ASSUME D!ConstantsOK, DInv, NEW t \in Tenants, NEW x \in Resources,
         D!CreateMCPServer(t, x) \/ D!ToggleMCPServer(t, x) \/ D!DeleteMCPServer(t, x)
  PROVE  DInv'
<1>1. RegistryTypes /\ SubjectTypes
  BY TypeParts DEF DInv, Types
<1>2. D!Edit /\ errand' = D!Noted(server') /\ UNCHANGED <<idp, subject>>
  BY DEF D!CreateMCPServer, D!ToggleMCPServer, D!DeleteMCPServer, D!EditServers
<1>3. server' \in [Tenants \X Resources -> D!Entry \cup {D!NoEntry}]
  <2>1. <<t, x>> \in Tenants \X Resources
    OBVIOUS
  <2>2. CASE D!CreateMCPServer(t, x)
    <3>1. PICK scopes \in Caps : server' = D!Created(server, <<t, x>>, scopes)
      BY <2>2 DEF D!CreateMCPServer
    <3>2. server \in [Tenants \X Resources -> D!Entry \cup {D!NoEntry}]
      BY <1>1 DEF RegistryTypes
    <3>3. D!Created(server, <<t, x>>, scopes) \in [Tenants \X Resources -> D!Entry \cup {D!NoEntry}]
      BY <2>1, <3>2, EntryTypes, Zenon
    <3> QED
      BY <3>1, <3>3
  <2>3. CASE D!ToggleMCPServer(t, x) \/ D!DeleteMCPServer(t, x)
    <3>1. /\ server[<<t, x>>] # D!NoEntry
          /\ server' \in {D!Toggled(server, <<t, x>>), D!Deleted(server, <<t, x>>)}
      BY <2>3 DEF D!ToggleMCPServer, D!DeleteMCPServer
    <3>2. server[<<t, x>>].scopes \in Caps
      BY <1>1, <2>1, <3>1 DEF RegistryTypes, D!Entry
    <3>3. server \in [Tenants \X Resources -> D!Entry \cup {D!NoEntry}]
      BY <1>1 DEF RegistryTypes
    <3>4. D!Toggled(server, <<t, x>>) \in [Tenants \X Resources -> D!Entry \cup {D!NoEntry}]
      BY <2>1, <3>1, <3>2, <3>3, EntryTypes, Zenon
    <3>5. D!Deleted(server, <<t, x>>) \in [Tenants \X Resources -> D!Entry \cup {D!NoEntry}]
      BY <2>1, <3>2, <3>3, EntryTypes, Zenon
    <3> QED
      BY <3>1, <3>4, <3>5
  <2> QED
    BY <2>2, <2>3
<1>4. RegistryTypes' /\ SubjectTypes'
  BY <1>1, <1>2, <1>3 DEF RegistryTypes, SubjectTypes
<1>5. /\ RequestTypes'
      /\ (\A q \in DRequests : RedeemOK(errand[q]) /\ ExchangeOK(errand[q]))'
  BY <1>2, <1>4, NotedStays DEF D!Edit, D!Redeemed
<1> QED
  BY <1>2, <1>4, <1>5, EditStep

\* The registry of trusted identity providers.
LEMMA IdpStep ==
  ASSUME D!ConstantsOK, DInv, NEW t \in Tenants, NEW i \in DIssuers,
         D!CreateTrustedIDP(t, i) \/ D!ToggleTrustedIDP(t, i) \/ D!DeleteTrustedIDP(t, i)
  PROVE  DInv'
<1>1. RegistryTypes /\ SubjectTypes
  BY TypeParts DEF DInv, Types
<1>2. D!Edit /\ UNCHANGED <<server, subject, errand>>
  BY DEF D!CreateTrustedIDP, D!ToggleTrustedIDP, D!DeleteTrustedIDP, D!EditIDPs
<1>3. idp' \in [Tenants \X DIssuers -> D!Entry \cup {D!NoEntry}]
  <2>1. <<t, i>> \in Tenants \X DIssuers
    OBVIOUS
  <2>2. CASE D!CreateTrustedIDP(t, i)
    <3>1. PICK scopes \in Caps : idp' = D!Created(idp, <<t, i>>, scopes)
      BY <2>2 DEF D!CreateTrustedIDP
    <3>2. idp \in [Tenants \X DIssuers -> D!Entry \cup {D!NoEntry}]
      BY <1>1 DEF RegistryTypes
    <3>3. D!Created(idp, <<t, i>>, scopes) \in [Tenants \X DIssuers -> D!Entry \cup {D!NoEntry}]
      BY <2>1, <3>2, EntryTypes, Zenon
    <3> QED
      BY <3>1, <3>3
  <2>3. CASE D!ToggleTrustedIDP(t, i) \/ D!DeleteTrustedIDP(t, i)
    <3>1. /\ idp[<<t, i>>] # D!NoEntry
          /\ idp' \in {D!Toggled(idp, <<t, i>>), D!Deleted(idp, <<t, i>>)}
      BY <2>3 DEF D!ToggleTrustedIDP, D!DeleteTrustedIDP
    <3>2. idp[<<t, i>>].scopes \in Caps
      BY <1>1, <2>1, <3>1 DEF RegistryTypes, D!Entry
    <3>3. idp \in [Tenants \X DIssuers -> D!Entry \cup {D!NoEntry}]
      BY <1>1 DEF RegistryTypes
    <3>4. D!Toggled(idp, <<t, i>>) \in [Tenants \X DIssuers -> D!Entry \cup {D!NoEntry}]
      BY <2>1, <3>1, <3>2, <3>3, EntryTypes, Zenon
    <3>5. D!Deleted(idp, <<t, i>>) \in [Tenants \X DIssuers -> D!Entry \cup {D!NoEntry}]
      BY <2>1, <3>2, <3>3, EntryTypes, Zenon
    <3> QED
      BY <3>1, <3>4, <3>5
  <2> QED
    BY <2>2, <2>3
<1>4. RegistryTypes' /\ SubjectTypes'
  BY <1>1, <1>2, <1>3 DEF RegistryTypes, SubjectTypes
<1>5. RequestTypes'
  BY <1>2 DEF RequestTypes, DInv, D!TypeOK
<1>6. (\A q \in DRequests : RedeemOK(errand[q]) /\ ExchangeOK(errand[q]))'
  BY <1>2, RequestsStay DEF D!Edit, D!Redeemed, Grown, D!Made
<1> QED
  BY <1>2, <1>4, <1>5, <1>6, EditStep

\* Access tokens are revoked and every token lapses: none stands again.
LEMMA SubjectStep ==
  ASSUME D!ConstantsOK, DInv, NEW s \in Subjects, D!RevokeSubject(s) \/ D!SubjectLapses(s)
  PROVE  DInv'
<1>1. RegistryTypes /\ SubjectTypes
  BY TypeParts DEF DInv, Types
<1>2. D!Edit /\ UNCHANGED <<D!Registries, errand>>
  BY DEF D!RevokeSubject, D!SubjectLapses
<1>3. RegistryTypes' /\ SubjectTypes'
  BY <1>1, <1>2 DEF RegistryTypes, SubjectTypes, D!Registries, D!RevokeSubject, D!SubjectLapses
<1>4. RequestTypes'
  BY <1>2 DEF RequestTypes, DInv, D!TypeOK
<1>5. \A v \in Subjects : subject'[v] = "live" => subject[v] = "live"
  BY <1>1 DEF D!RevokeSubject, D!SubjectLapses, SubjectTypes
<1>6. (\A q \in DRequests : RedeemOK(errand[q]) /\ ExchangeOK(errand[q]))'
  BY <1>2, <1>5, FallenStay DEF D!Edit, D!Redeemed, D!Registries
<1> QED
  BY <1>2, <1>3, <1>4, <1>6, EditStep

\* The clock.
LEMMA TickStep ==
  ASSUME D!ConstantsOK, DInv, D!Tick
  PROVE  DInv'
<1>1. Types
  BY TypeParts DEF DInv
<1>2. (RegistryTypes /\ KeyTypes /\ SubjectTypes /\ AssertionTypes)'
  BY <1>1 DEF Types, D!Tick, D!Registries, D!Keyring, RegistryTypes, KeyTypes, SubjectTypes,
              AssertionTypes
<1>3. (RecordTypes /\ TokenTypes /\ MishapTypes /\ RequestTypes)'
  BY <1>1 DEF Types, D!Tick, D!Redeemed, D!Made, RecordTypes, TokenTypes, MishapTypes, RequestTypes
<1>4. CounterTypes'
  BY <1>1, DNumbersOK DEF Types, D!Tick, CounterTypes
<1>5. D!TypeOK'
  BY <1>2, <1>3, <1>4, TypePartsNext DEF Types
<1>6. RecordKept'
  <2> SUFFICES ASSUME NEW a \in burned, a \notin used PROVE now' > assertion[a].exp
    BY DEF RecordKept, D!Tick, D!Redeemed
  <2>1. a \in D!Made /\ now > assertion[a].exp
    BY <1>1 DEF Types, RecordTypes, DInv, RecordKept
  <2>2. assertion[a].exp \in Int /\ now \in Int /\ now' = now + 1
    BY <1>1, <2>1, AssertionsAre DEF D!Assertion, Types, CounterTypes, D!Tick
  <2> QED
    BY <2>1, <2>2
<1>7. (\A q \in DRequests : RedeemOK(errand[q]) /\ ExchangeOK(errand[q]))'
  BY RequestsStay DEF D!Tick, D!Registries, D!Redeemed, Grown, D!Made
<1> QED
  BY <1>5, <1>6, <1>7 DEF DInv
-----------------------------------------------------------------------------
(* The invariant.                                                            *)

\* A stutter keeps it.
LEMMA Stutter ==
  ASSUME DInv, UNCHANGED D!vars
  PROVE  DInv'
<1>1. Types' <=> Types
  BY DEF D!vars, Types, RegistryTypes, KeyTypes, SubjectTypes, AssertionTypes, RecordTypes,
         TokenTypes, CounterTypes, MishapTypes, RequestTypes, D!Made
<1>2. D!TypeOK'
  BY <1>1, TypeParts, TypePartsNext DEF DInv
<1>3. RecordKept'
  BY DEF D!vars, DInv, RecordKept
<1>4. (\A q \in DRequests : RedeemOK(errand[q]) /\ ExchangeOK(errand[q]))'
  BY RequestsStay DEF D!vars, Grown, D!Made
<1> QED
  BY <1>2, <1>3, <1>4 DEF DInv

\* Every step keeps it.
LEMMA DStepInv == ASSUME D!ConstantsOK PROVE DInv /\ [D!Next]_D!vars => DInv'
<1> SUFFICES ASSUME DInv, [D!Next]_D!vars PROVE DInv'
  OBVIOUS
<1>1. ASSUME NEW r \in DRequests, D!Step(r) PROVE DInv'
  BY <1>1, GetTokenByHashStep, AuthorizedMCPServerStep, SignTypedStep, TrustedIDPStep,
     DKeysStep, CheckStep, RefetchStep, RedeemIDJAGJTIStep, CreateSessionStep, PutTokenStep,
     FailsStep DEF D!Step
<1>2. ASSUME NEW r \in DRequests, NEW s \in Subjects, NEW caller \in Clients \cup {""},
             NEW x \in Resources, NEW declared \in D!Declarable, NEW asked \in Caps,
             D!TokenExchange(r, s, caller, x, declared, asked)
      PROVE  DInv'
  BY <1>2, TokenExchangeStep
<1>3. ASSUME NEW r \in DRequests, NEW a \in D!Made, NEW c \in Clients, NEW asked \in Caps,
             D!JWTBearer(r, a, c, asked)
      PROVE  DInv'
  BY <1>3, JWTBearerStep
<1>4. ASSUME NEW i \in DIssuers, NEW aud \in Resources \cup {Here}, NEW c \in Clients,
             NEW scopes \in Caps, D!Foreign(i, aud, c, scopes)
      PROVE  DInv'
  BY <1>4, ForeignStep
<1>5. ASSUME NEW i \in DIssuers, D!RotateKey(i) PROVE DInv'
  BY <1>5, RotateKeyStep
<1>6. CASE \E t \in Tenants, x \in Resources :
             D!CreateMCPServer(t, x) \/ D!ToggleMCPServer(t, x) \/ D!DeleteMCPServer(t, x)
  BY <1>6, ServerStep
<1>7. CASE \E t \in Tenants, i \in DIssuers :
             D!CreateTrustedIDP(t, i) \/ D!ToggleTrustedIDP(t, i) \/ D!DeleteTrustedIDP(t, i)
  BY <1>7, IdpStep
<1>8. CASE \E s \in Subjects : D!RevokeSubject(s) \/ D!SubjectLapses(s)
  BY <1>8, SubjectStep
<1>9. CASE D!Tick \/ D!Restart
  BY <1>9, TickStep, DRestartStep
<1>10. CASE UNCHANGED D!vars
  BY <1>10, Stutter
<1> QED
  BY <1>1, <1>2, <1>3, <1>4, <1>5, <1>6, <1>7, <1>8, <1>9, <1>10 DEF D!Next

\* The invariant of the specification.
THEOREM DInvariance == ASSUME D!ConstantsOK PROVE D!Spec => []DInv
<1>1. D!Init => DInv
  BY DInitInv
<1>2. DInv /\ [D!Next]_D!vars => DInv'
  BY DStepInv
<1> QED
  BY <1>1, <1>2, PTL DEF D!Spec

\* The variables keep their types, whatever is in flight, edited or restarted:
\* in particular no token is made of an assertion whose jti was not recorded.
THEOREM DTypeCorrect == ASSUME D!ConstantsOK PROVE D!Spec => []D!TypeOK
<1>1. DInv => D!TypeOK
  BY DEF DInv
<1> QED
  BY <1>1, DInvariance, PTL
-----------------------------------------------------------------------------
(* Issuance.                                                                 *)

\* Assertions are made by SignTyped and by other providers only.
LEMMA OthersMakeNone ==
  ASSUME [D!Next]_D!vars, D!Made' # D!Made
  PROVE  \/ \E r \in DRequests : D!SignTyped(r)
         \/ \E i \in DIssuers, aud \in Resources \cup {Here}, c \in Clients, scopes \in Caps :
              D!Foreign(i, aud, c, scopes)
<1>1. UNCHANGED assertion => D!Made' = D!Made
  BY DEF D!Made
<1>2. ASSUME NEW r \in DRequests, D!Step(r) PROVE D!SignTyped(r) \/ UNCHANGED assertion
  BY <1>2 DEF D!Step, D!GetTokenByHash, D!AuthorizedMCPServer, D!TrustedIDP, D!Keys, D!Check, D!Refetch,
              D!RedeemIDJAGJTI, D!CreateSession, D!PutToken, D!Fails
<1>3. ASSUME NEW r \in DRequests, NEW s \in Subjects, NEW caller \in Clients \cup {""},
             NEW x \in Resources, NEW declared \in D!Declarable, NEW asked \in Caps,
             D!TokenExchange(r, s, caller, x, declared, asked)
      PROVE  UNCHANGED assertion
  BY <1>3 DEF D!TokenExchange
<1>4. ASSUME NEW r \in DRequests, NEW a \in D!Made, NEW c \in Clients, NEW asked \in Caps,
             D!JWTBearer(r, a, c, asked)
      PROVE  UNCHANGED assertion
  BY <1>4 DEF D!JWTBearer
<1>5. ASSUME NEW i \in DIssuers, D!RotateKey(i) PROVE UNCHANGED assertion
  BY <1>5 DEF D!RotateKey
<1>6. ASSUME D!Edit PROVE UNCHANGED assertion
  BY <1>6 DEF D!Edit
<1>7. CASE \E t \in Tenants, x \in Resources :
             D!CreateMCPServer(t, x) \/ D!ToggleMCPServer(t, x) \/ D!DeleteMCPServer(t, x)
  BY <1>1, <1>6, <1>7 DEF D!CreateMCPServer, D!ToggleMCPServer, D!DeleteMCPServer, D!EditServers
<1>8. CASE \E t \in Tenants, i \in DIssuers :
             D!CreateTrustedIDP(t, i) \/ D!ToggleTrustedIDP(t, i) \/ D!DeleteTrustedIDP(t, i)
  BY <1>1, <1>6, <1>8 DEF D!CreateTrustedIDP, D!ToggleTrustedIDP, D!DeleteTrustedIDP, D!EditIDPs
<1>9. CASE \E s \in Subjects : D!RevokeSubject(s) \/ D!SubjectLapses(s)
  BY <1>1, <1>6, <1>9 DEF D!RevokeSubject, D!SubjectLapses
<1>10. CASE D!Tick \/ D!Restart \/ UNCHANGED D!vars
  BY <1>1, <1>10 DEF D!Tick, D!Restart, D!vars
<1> QED
  BY <1>1, <1>2, <1>3, <1>4, <1>5, <1>7, <1>8, <1>9, <1>10 DEF D!Next

\* What is signed is for what the exchange was told.
LEMMA SignTypedEntitled ==
  ASSUME D!ConstantsOK, DInv, NEW r \in DRequests, D!SignTyped(r)
  PROVE  D!DelegationsEntitled
<1>1. PICK h \in D!Exchange : h = errand[r]
  BY StepKinds DEF D!SignTyped, D!At, Exchanging, DInv, D!TypeOK
<1>2. /\ D!Sign(Self, h.resource, ClientOf[h.subject], h.granted, now + TTL)
      /\ UNCHANGED burned /\ h.step = "sign" /\ D!At(r, "sign")
  BY <1>1 DEF D!SignTyped, D!Redeemed, D!At
<1>3. /\ ClientOf[h.subject] \in Clients /\ h.resource \in Resources
      /\ h.granted \in SUBSET Scopes /\ Self \in DIssuers
  BY DEF D!Exchange, D!ConstantsOK
<1> DEFINE n == Len(assertion) + 1
<1>4. /\ D!Made' = D!Made \cup {n}
      /\ assertion'[n].aud = h.resource /\ assertion'[n].client = ClientOf[h.subject]
      /\ assertion'[n].scopes = h.granted
  BY <1>2, <1>3, SignAppends
<1>5. errand'[r] = D!Idle
  BY DEF D!SignTyped, D!Answer, D!Go, DInv, D!TypeOK
<1>6. Vetted(h)
  BY <1>1, <1>2 DEF DInv, ExchangeOK, Exchanging
<1>7. D!SignedBy(r, n)
  BY <1>1, <1>2, <1>4, <1>5 DEF D!SignedBy
<1>8. /\ \E scopes \in errand[r].offers :
           scopes = {} \/ assertion'[n].scopes \subseteq scopes
      /\ errand[r].declared = "access_token" =>
           errand[r].stood /\ errand[r].subject \notin IdTokens
  BY <1>1, <1>2, <1>4, <1>6 DEF Vetted
<1>9. ASSUME NEW a \in D!New PROVE a = n
  BY <1>4 DEF D!New, D!Made
<1> HIDE DEF n
<1> QED
  BY <1>7, <1>8, <1>9, Zenon DEF D!DelegationsEntitled

\* Another provider's assertion is not this service's.
LEMMA ForeignEntitled ==
  ASSUME D!ConstantsOK, DInv, NEW i \in DIssuers, NEW aud \in Resources \cup {Here},
         NEW c \in Clients, NEW scopes \in Caps, D!Foreign(i, aud, c, scopes)
  PROVE  D!DelegationsEntitled
<1>1. D!Sign(i, aud, c, scopes, now + TTL) /\ UNCHANGED burned /\ i # Self
  BY DEF D!Foreign, D!Redeemed
<1>2. scopes \in SUBSET Scopes
  BY DEF D!ConstantsOK
<1> DEFINE n == Len(assertion) + 1
<1>3. D!Made' = D!Made \cup {n} /\ assertion'[n].iss = i
  BY <1>1, <1>2, SignAppends
<1> QED
  BY <1>1, <1>3 DEF D!DelegationsEntitled, D!New, D!Made

\* An assertion of this service is for the client of its token, a server and
\* scopes that the workspace offered at some moment of the request; and if the
\* caller declared an access token, it was one and stood when the request began
\* (idjag.go:137-192).
THEOREM Entitled == ASSUME D!ConstantsOK PROVE D!Spec => [][D!DelegationsEntitled]_D!vars
<1>1. DInv /\ [D!Next]_D!vars => D!DelegationsEntitled
  <2> SUFFICES ASSUME DInv, [D!Next]_D!vars PROVE D!DelegationsEntitled
    OBVIOUS
  <2>1. CASE D!Made' = D!Made
    BY <2>1 DEF D!DelegationsEntitled, D!New, D!Made
  <2>2. CASE D!Made' # D!Made
    BY <2>2, OthersMakeNone, SignTypedEntitled, ForeignEntitled
  <2> QED
    BY <2>1, <2>2
<1>2. DInv /\ [D!Next]_D!vars => [D!DelegationsEntitled]_D!vars
  BY <1>1
<1> QED
  BY <1>2, DInvariance, PTL DEF D!Spec
-----------------------------------------------------------------------------
(* The refinement of SingleUse.                                              *)
Promise == INSTANCE SingleUse WITH
  Requests <- DRequests,
  Assertions <- 1..NumAssertions, clock <- D!Clock, expiry <- D!Lives, accepted <- D!Accepted,
  guest <- D!Guests, paid <- D!Burned, token <- D!Tokens

\* Redemption does what SingleUse promises.
RedemptionsSingleUse == Promise!Spec

\* Where a handler stands in the eyes of SingleUse.
Admitted == {"keys", "check", "refetch", "burn", "session", "token"}
GuestOf(h) ==
  IF h.step \in Admitted
  THEN [stage |-> IF h.step \in Paid THEN "paid" ELSE "in",
        from |-> h.from, upto |-> D!Allowed(assertion[h.from].scopes, h.cap)]
  ELSE D!NoGuest

\* The view, one handler at a time.
LEMMA GuestsAre ==
  /\ D!Guests = [q \in DRequests |-> GuestOf(errand[q])]
  /\ D!Guests' = [q \in DRequests |-> GuestOf(errand[q])']
<1>1. ASSUME NEW h, h.step \in Admitted PROVE h # D!Idle
  BY <1>1 DEF D!Idle, Admitted
<1> QED
  BY <1>1 DEF D!Guests, GuestOf, D!Busy, Admitted, Paid

\* A handler that does not move is seen where it was.
LEMMA GuestKept ==
  ASSUME NEW h, Grown, RedeemOK(h)
  PROVE  GuestOf(h)' = GuestOf(h)
<1>1. CASE h.step \in Admitted
  <2>1. h.from \in D!Made
    BY <1>1 DEF RedeemOK, Redeeming, Paid, Admitted
  <2>2. assertion'[h.from] = assertion[h.from]
    BY <2>1 DEF Grown
  <2> QED
    BY <2>2 DEF GuestOf, D!Allowed
<1>2. CASE h.step \notin Admitted
  BY <1>2 DEF GuestOf
<1> QED
  BY <1>1, <1>2

\* One handler moves, in the eyes of SingleUse.
LEMMA GuestMoves ==
  ASSUME DInv, NEW r \in DRequests, NEW k, D!Go(r, k), Grown
  PROVE  /\ D!Guests' = [D!Guests EXCEPT ![r] = GuestOf(k)']
         /\ D!Guests[r] = GuestOf(errand[r])
<1>1. errand' = [errand EXCEPT ![r] = k] /\ errand \in [DRequests -> D!Handler \cup {D!Idle}]
  BY DEF D!Go, DInv, D!TypeOK
<1>2. ASSUME NEW q \in DRequests, q # r
      PROVE  GuestOf(errand[q])' = GuestOf(errand[q])
  <2>1. PICK h : h = errand[q]
    OBVIOUS
  <2>2. h = errand'[q] /\ RedeemOK(h)
    BY <1>1, <1>2, <2>1 DEF DInv
  <2>3. GuestOf(h)' = GuestOf(h)
    BY <2>2, GuestKept
  <2> QED
    BY <2>1, <2>2, <2>3 DEF GuestOf
<1>3. GuestOf(errand[r])' = GuestOf(k)'
  <2>1. errand'[r] = k
    BY <1>1
  <2> QED
    BY <2>1 DEF GuestOf
<1> QED
  BY <1>2, <1>3, GuestsAre

\* Nobody moves.
LEMMA GuestsStay ==
  ASSUME DInv, Grown, UNCHANGED errand
  PROVE  D!Guests' = D!Guests
<1>1. ASSUME NEW q \in DRequests
      PROVE  GuestOf(errand[q])' = GuestOf(errand[q])
  <2>1. PICK h : h = errand[q] /\ h = errand'[q]
    BY Zenon
  <2>2. GuestOf(h)' = GuestOf(h)
    BY <2>1, GuestKept DEF DInv
  <2> QED
    BY <2>1, <2>2 DEF GuestOf
<1> QED
  BY <1>1, GuestsAre

\* Whatever leaves guests, payments and tokens alone is the world's.
LEMMA WorldStep ==
  ASSUME DInv, Grown, now' >= now, UNCHANGED <<burned, token>>, D!Guests' = D!Guests
  PROVE  Promise!Next
<1>1. Promise!World
  BY DEF Promise!World, D!Clock, D!Lives, D!Burned, D!Tokens, D!Made, Grown
<1> QED
  BY <1>1 DEF Promise!Next

\* A handler that moves without being seen to.
LEMMA UnseenStep ==
  ASSUME DInv, NEW r \in DRequests, NEW k, D!Go(r, k), Grown, UNCHANGED <<burned, token, now>>,
         GuestOf(k)' = GuestOf(errand[r])
  PROVE  Promise!Next
<1>1. D!Guests' = D!Guests
  BY GuestMoves, GuestsAre
<1>2. now' >= now
  BY DEF DInv, D!TypeOK
<1> QED
  BY <1>1, <1>2, WorldStep

\* An idle handler is no guest.
LEMMA IdleNoGuest == GuestOf(D!Idle) = D!NoGuest /\ GuestOf(D!Idle)' = D!NoGuest
BY DEF GuestOf, D!Idle, Admitted

\* A handler that answers leaves, whatever it was.
LEMMA LeaveStep ==
  ASSUME DInv, NEW r \in DRequests, D!Answer(r),
         UNCHANGED <<now, assertion, idp, burned, token>>
  PROVE  Promise!Next
<1>1. Grown
  BY DEF Grown, D!Made
<1>2. D!Guests' = [D!Guests EXCEPT ![r] = D!NoGuest]
  BY <1>1, GuestMoves, IdleNoGuest DEF D!Answer
<1>3. \A q \in DRequests : D!Guests'[q] \in {D!Guests[q], Promise!Nobody}
  BY <1>2, GuestsAre DEF Promise!Nobody, D!NoGuest
<1>4. UNCHANGED <<D!Clock, D!Lives, D!Accepted, D!Burned, D!Tokens>>
  BY DEF D!Clock, D!Lives, D!Accepted, D!Burned, D!Tokens, D!Made, D!Allowed, D!Nothing
<1>5. Promise!Leave
  BY <1>3, <1>4 DEF Promise!Leave
<1> QED
  BY <1>5 DEF Promise!Next

\* At first nobody is in and nothing is paid.
LEMMA PromiseInit == ASSUME D!ConstantsOK PROVE D!Init => Promise!Init
<1> SUFFICES ASSUME D!Init PROVE Promise!Init
  OBVIOUS
<1>1. D!Clock = 0 /\ D!Burned = {} /\ D!Tokens = <<>>
  BY DEF D!Init, D!Clock, D!Burned, D!Tokens
<1>2. D!Made = {}
  BY DEF D!Init, D!Made
<1>3. D!Lives \in [{} -> Nat]
  BY <1>2 DEF D!Lives
<1>4. D!Accepted \in [Tenants \X (1..NumAssertions) -> [upto : SUBSET Scopes, ok : BOOLEAN]]
  <2>1. D!Accepted = [ta \in Tenants \X (1..NumAssertions) |-> D!Nothing]
    BY <1>2 DEF D!Accepted, D!NoEntry
  <2>2. D!Nothing \in [upto : SUBSET Scopes, ok : BOOLEAN]
    BY DEF D!Nothing
  <2> QED
    BY <2>1, <2>2
<1>5. D!Guests = [q \in DRequests |-> Promise!Nobody]
  <2>1. \A q \in DRequests : errand[q] = D!Idle
    BY DEF D!Init
  <2>2. \A q \in DRequests : GuestOf(errand[q]) = D!NoGuest
    BY <2>1, IdleNoGuest
  <2> QED
    BY <2>2, GuestsAre DEF D!NoGuest, Promise!Nobody
<1> QED
  BY <1>1, <1>3, <1>4, <1>5 DEF Promise!Init

\* A redemption is let in when the workspace of its client trusts the issuer.
LEMMA TrustedIDPAdmits ==
  ASSUME D!ConstantsOK, DInv, NEW r \in DRequests, D!TrustedIDP(r)
  PROVE  Promise!Next
<1>1. PICK h \in D!Redemption : h = errand[r]
  BY StepKinds DEF D!TrustedIDP, D!At, Redeeming, DInv, D!TypeOK
<1>2. h.step = "trust" /\ h.from \in D!Made
  BY <1>1 DEF D!TrustedIDP, D!At, DInv, RedeemOK, Redeeming
<1> DEFINE t == TenantOf[h.client]
           a == h.from
           entry == idp[<<t, assertion[a].iss>>]
<1>3. t \in Tenants /\ a \in 1..NumAssertions
  BY DEF D!Redemption, D!ConstantsOK
<1>4. UNCHANGED <<now, assertion, idp, burned, token>> /\ Grown
  BY DEF D!TrustedIDP, D!Registries, D!Redeemed, Grown, D!Made
<1>5. CASE ~D!Trusts(t, assertion[a].iss)
  <2>1. D!Answer(r)
    BY <1>1, <1>5 DEF D!TrustedIDP
  <2> QED
    BY <1>4, <2>1, LeaveStep
<1>6. CASE D!Trusts(t, assertion[a].iss)
  <2>1. entry.enabled
    BY <1>6 DEF D!Trusts
  <2>2. PICK k : k = [h EXCEPT !.step = "keys", !.cap = entry.scopes, !.seen = now]
    OBVIOUS
  <2>3. D!Go(r, k)
    BY <1>1, <1>6, <2>2 DEF D!TrustedIDP
  <2>4. k.step = "keys" /\ k.from = a /\ k.cap = entry.scopes
    BY <2>2 DEF D!Redemption
  <2>5. D!Accepted[<<t, a>>] = [ok |-> TRUE, upto |-> D!Allowed(assertion[a].scopes, entry.scopes)]
    <3>1. <<t, a>> \in Tenants \X (1..NumAssertions)
      BY <1>3
    <3> QED
      BY <1>2, <2>1, <3>1 DEF D!Accepted
  <2>6. GuestOf(k)' = [stage |-> "in", from |-> a, upto |-> D!Accepted[<<t, a>>].upto]
    <3>1. GuestOf(k)' = [stage |-> "in", from |-> a,
                         upto |-> D!Allowed(assertion[a].scopes, entry.scopes)]
      BY <1>4, <2>4 DEF GuestOf, Admitted, Paid, D!Allowed
    <3> QED
      BY <2>5, <3>1
  <2>7. D!Guests[r] = Promise!Nobody
    BY <1>1, <1>2, GuestsAre DEF GuestOf, Admitted, D!NoGuest, Promise!Nobody
  <2>8. D!Guests' = [D!Guests EXCEPT ![r] = [stage |-> "in", from |-> a,
                                         upto |-> D!Accepted[<<t, a>>].upto]]
    BY <1>4, <2>3, <2>6, GuestMoves
  <2>9. UNCHANGED <<D!Clock, D!Lives, D!Accepted, D!Burned, D!Tokens>>
    BY <1>4 DEF D!Clock, D!Lives, D!Accepted, D!Burned, D!Tokens, D!Made, D!Allowed, D!Nothing
  <2>10. a \in DOMAIN D!Lives /\ D!Accepted[<<t, a>>].ok
    BY <1>2, <2>5 DEF D!Lives
  <2> HIDE DEF t, a
  <2>11. Promise!Admit(r, t, a)
    BY <2>7, <2>8, <2>9, <2>10 DEF Promise!Admit
  <2> QED
    BY <1>3, <2>11 DEF Promise!Next
<1> QED
  BY <1>5, <1>6

\* A redemption pays when it records a jti that was not there, or has expired.
LEMMA RedeemIDJAGJTIPays ==
  ASSUME D!ConstantsOK, DInv, NEW r \in DRequests, D!RedeemIDJAGJTI(r)
  PROVE  Promise!Next
<1>1. PICK h \in D!Redemption : h = errand[r]
  BY StepKinds DEF D!RedeemIDJAGJTI, D!At, Redeeming, DInv, D!TypeOK
<1>2. h.step = "burn" /\ h.from \in D!Made
  BY <1>1 DEF D!RedeemIDJAGJTI, D!At, DInv, RedeemOK, Redeeming
<1>3. UNCHANGED <<now, assertion, idp, token>>
  BY DEF D!RedeemIDJAGJTI, D!Registries
<1>4. CASE h.from \in D!Swept
  BY <1>1, <1>3, <1>4, LeaveStep DEF D!RedeemIDJAGJTI
<1>5. CASE h.from \notin D!Swept
  <2> DEFINE carried == assertion[h.from].scopes
             granted == D!IntersectScopes(D!Narrowed(carried, h.asked), h.cap)
  <2>1. burned' = burned \cup {h.from}
    BY <1>1, <1>5 DEF D!RedeemIDJAGJTI
  <2>2. Grown
    BY <1>3, <2>1 DEF Grown, D!Made
  <2>3. h.from \notin D!Burned \/ D!Clock > D!Lives[h.from]
    <3>1. CASE h.from \notin used
      BY <1>2, <3>1 DEF D!Burned, D!Clock, D!Lives, DInv, RecordKept
    <3>2. CASE h.from \in used
      <4>1. ~(now <= assertion[h.from].exp)
        BY <1>5, <3>2 DEF D!Swept
      <4>2. assertion[h.from].exp \in Int /\ now \in Int
        BY <1>2, AssertionsAre, TypeParts DEF D!Assertion, DInv, Types, CounterTypes
      <4> QED
        BY <1>2, <4>1, <4>2 DEF D!Clock, D!Lives
    <3> QED
      BY <3>1, <3>2
  <2>4. /\ D!Guests \in [DRequests -> {GuestOf(errand[q]) : q \in DRequests}]
        /\ D!Guests[r] = [stage |-> "in", from |-> h.from,
                        upto |-> D!Allowed(carried, h.cap)]
    BY <1>1, <1>2, GuestsAre DEF GuestOf, Admitted, Paid
  <2>5. UNCHANGED <<D!Clock, D!Lives, D!Accepted, D!Tokens>> /\ D!Burned' = D!Burned \cup {D!Guests[r].from}
    BY <1>3, <2>1, <2>4 DEF D!Clock, D!Lives, D!Accepted, D!Burned, D!Tokens, D!Made, D!Allowed, D!Nothing
  <2>6. D!Guests' \in {[D!Guests EXCEPT ![r].stage = "paid"], [D!Guests EXCEPT ![r] = D!NoGuest]}
    <3>1. CASE D!Go(r, D!Idle)
      BY <2>2, <3>1, GuestMoves, IdleNoGuest
    <3>2. CASE D!Go(r, [h EXCEPT !.step = "session", !.asked = {}, !.granted = granted])
      <4>1. PICK k : k = [h EXCEPT !.step = "session", !.asked = {}, !.granted = granted]
        OBVIOUS
      <4> HIDE DEF granted
      <4>2. k.step = "session" /\ k.from = h.from /\ k.cap = h.cap
        BY <4>1 DEF D!Redemption
      <4>3. GuestOf(k)' = [stage |-> "paid", from |-> h.from, upto |-> D!Allowed(carried, h.cap)]
        BY <1>3, <4>2 DEF GuestOf, Admitted, Paid, D!Allowed
      <4>4. GuestOf(k)' = [D!Guests[r] EXCEPT !.stage = "paid"]
        BY <2>4, <4>3
      <4>5. D!Guests' = [D!Guests EXCEPT ![r] = GuestOf(k)']
        BY <2>2, <3>2, <4>1, GuestMoves
      <4>6. D!Guests' = [D!Guests EXCEPT ![r].stage = "paid"]
        BY <4>4, <4>5
      <4> QED
        BY <4>6
    <3> QED
      BY <1>1, <1>5, <3>1, <3>2 DEF D!RedeemIDJAGJTI, D!Answer
  <2>7. Promise!Pay(r)
    BY <2>3, <2>4, <2>5, <2>6 DEF Promise!Pay, Promise!Nobody, D!NoGuest
  <2> QED
    BY <2>7 DEF Promise!Next
<1> QED
  BY <1>4, <1>5

\* PutToken issues what was paid for, within what was accepted.
LEMMA PutTokenIssues ==
  ASSUME DInv, NEW r \in DRequests, D!PutToken(r)
  PROVE  Promise!Next
<1>1. PICK h \in D!Redemption : h = errand[r]
  BY StepKinds DEF D!PutToken, D!At, Redeeming, Paid, DInv, D!TypeOK
<1>2. h.step = "token" /\ RedeemOK(h)
  BY <1>1 DEF D!PutToken, D!At, DInv
<1>3. h.granted \subseteq D!Allowed(assertion[h.from].scopes, h.cap)
  BY <1>2 DEF RedeemOK, Redeeming, Paid
<1>4. /\ UNCHANGED <<now, assertion, idp, burned>> /\ D!Go(r, D!Idle)
      /\ token' = Append(token, [from |-> h.from, scopes |-> h.granted])
  BY <1>1 DEF D!PutToken, D!Registries, D!Answer
<1>5. Grown
  BY <1>4 DEF Grown, D!Made
<1>6. D!Guests[r] = [stage |-> "paid", from |-> h.from,
                   upto |-> D!Allowed(assertion[h.from].scopes, h.cap)]
  BY <1>1, <1>2, GuestsAre DEF GuestOf, Admitted, Paid
<1>7. D!Guests' = [D!Guests EXCEPT ![r] = D!NoGuest]
  BY <1>4, <1>5, GuestMoves, IdleNoGuest
<1>8. UNCHANGED <<D!Clock, D!Lives, D!Accepted, D!Burned>>
  BY <1>4 DEF D!Clock, D!Lives, D!Accepted, D!Burned, D!Made, D!Allowed, D!Nothing
<1>9. \E scopes \in SUBSET D!Guests[r].upto :
        D!Tokens' = Append(D!Tokens, [from |-> D!Guests[r].from, scopes |-> scopes])
  <2>1. h.granted \in SUBSET D!Guests[r].upto
    BY <1>3, <1>6
  <2>2. D!Tokens' = Append(D!Tokens, [from |-> D!Guests[r].from, scopes |-> h.granted])
    BY <1>4, <1>6 DEF D!Tokens
  <2> QED
    BY <2>1, <2>2
<1>10. D!Guests[r].stage = "paid"
  BY <1>6
<1>11. Promise!Issue(r)
  BY <1>7, <1>8, <1>9, <1>10, Zenon DEF Promise!Issue, Promise!Nobody, D!NoGuest
<1> QED
  BY <1>11 DEF Promise!Next

\* The steps of an exchange, and those of a redemption that only look, are unseen.
LEMMA LooksUnseen ==
  ASSUME D!ConstantsOK, DInv, NEW r \in DRequests,
         \/ D!GetTokenByHash(r) \/ D!AuthorizedMCPServer(r) \/ D!SignTyped(r)
         \/ D!Keys(r) \/ D!Check(r) \/ D!Refetch(r) \/ D!CreateSession(r) \/ D!Fails(r)
  PROVE  Promise!Next
<1>1. PICK h \in D!Handler \cup {D!Idle} : h = errand[r]
  BY DEF DInv, D!TypeOK
<1>2. ASSUME NEW k, k.step = "sign" \/ k.step = "server", D!Go(r, k), Grown,
             UNCHANGED <<burned, token, now>>, h.step \in Exchanging
      PROVE  Promise!Next
  <2>1. GuestOf(k)' = GuestOf(errand[r])
    BY <1>1, <1>2 DEF GuestOf, Exchanging, Admitted
  <2> QED
    BY <1>2, <2>1, UnseenStep
<1>3. ASSUME NEW k, D!Go(r, k), UNCHANGED <<assertion, burned, token, now>>,
             h.step \in Admitted, k.step \in Admitted, h.step \in Paid <=> k.step \in Paid,
             k.from = h.from, k.cap = h.cap
      PROVE  Promise!Next
  <2>1. GuestOf(k)' = GuestOf(errand[r])
    BY <1>1, <1>3 DEF GuestOf, D!Allowed
  <2>2. Grown
    BY <1>3 DEF Grown, D!Made
  <2> QED
    BY <1>3, <2>1, <2>2, UnseenStep
<1>4. CASE D!GetTokenByHash(r)
  <2>1. h \in D!Exchange /\ h.step = "deny"
    BY <1>1, <1>4, StepKinds DEF D!GetTokenByHash, D!At, Exchanging
  <2>2. UNCHANGED <<now, assertion, idp, burned, token>> /\ Grown
    BY <1>4 DEF D!GetTokenByHash, D!Registries, D!Redeemed, Grown, D!Made
  <2>3. CASE D!Answer(r)
    BY <2>2, <2>3, LeaveStep
  <2>4. CASE D!Goto(r, "server")
    <3>1. PICK k : k = [h EXCEPT !.step = "server"]
      OBVIOUS
    <3>2. D!Go(r, k) /\ k.step = "server"
      BY <1>1, <2>1, <2>4, <3>1 DEF D!Goto, D!Exchange
    <3> QED
      BY <1>2, <2>1, <2>2, <3>2 DEF Exchanging
  <2> QED
    BY <1>4, <2>3, <2>4 DEF D!GetTokenByHash
<1>5. CASE D!AuthorizedMCPServer(r)
  <2>1. h \in D!Exchange /\ h.step = "server"
    BY <1>1, <1>5, StepKinds DEF D!AuthorizedMCPServer, D!At, Exchanging
  <2>2. UNCHANGED <<now, assertion, idp, burned, token>> /\ Grown
    BY <1>5 DEF D!AuthorizedMCPServer, D!Registries, D!Redeemed, Grown, D!Made
  <2>3. CASE D!Answer(r)
    BY <2>2, <2>3, LeaveStep
  <2>4. CASE \E granted : D!Go(r, [h EXCEPT !.step = "sign", !.granted = granted])
    <3>1. PICK granted : D!Go(r, [h EXCEPT !.step = "sign", !.granted = granted])
      BY <2>4
    <3>2. PICK k : k = [h EXCEPT !.step = "sign", !.granted = granted]
      OBVIOUS
    <3>3. D!Go(r, k) /\ k.step = "sign"
      BY <2>1, <3>1, <3>2 DEF D!Exchange
    <3> QED
      BY <1>2, <2>1, <2>2, <3>3 DEF Exchanging
  <2> QED
    BY <1>1, <1>5, <2>3, <2>4 DEF D!AuthorizedMCPServer
<1>6. CASE D!SignTyped(r)
  <2>1. h \in D!Exchange /\ h.step = "sign"
    BY <1>1, <1>6, StepKinds DEF D!SignTyped, D!At, Exchanging
  <2>2. /\ D!Sign(Self, h.resource, ClientOf[h.subject], h.granted, now + TTL)
        /\ UNCHANGED <<now, burned, token>> /\ D!Go(r, D!Idle)
    BY <1>1, <1>6 DEF D!SignTyped, D!Redeemed, D!Answer
  <2>3. /\ ClientOf[h.subject] \in Clients /\ h.resource \in Resources
        /\ h.granted \in SUBSET Scopes /\ Self \in DIssuers
    BY <2>1 DEF D!Exchange, D!ConstantsOK
  <2>4. Grown
    BY <2>2, <2>3, SignAppends
  <2>5. GuestOf(errand[r]) = D!NoGuest
    BY <1>1, <2>1 DEF GuestOf, Admitted
  <2> QED
    BY <2>2, <2>4, <2>5, IdleNoGuest, UnseenStep
<1>7. CASE D!Fails(r)
  BY <1>7, LeaveStep DEF D!Fails, D!Registries, D!Redeemed
<1>8. CASE D!Keys(r) \/ D!Refetch(r)
  <2>1. h \in D!Redemption /\ h.step \in {"keys", "refetch"}
    BY <1>1, <1>8, StepKinds DEF D!Keys, D!Refetch, D!At, Redeeming
  <2>2. UNCHANGED <<assertion, burned, token, now>>
    BY <1>8 DEF D!Keys, D!Refetch, D!Redeemed
  <2>3. \E key, forced : D!Go(r, [h EXCEPT !.step = "check", !.key = key, !.forced = forced])
    <3>1. CASE \E forced \in BOOLEAN : D!Fetch(r, forced)
      BY <1>1, <3>1 DEF D!Fetch
    <3>2. CASE \E key : D!Go(r, [h EXCEPT !.step = "check", !.key = key])
      <4>1. PICK key : D!Go(r, [h EXCEPT !.step = "check", !.key = key])
        BY <3>2
      <4>2. [h EXCEPT !.step = "check", !.key = key]
              = [h EXCEPT !.step = "check", !.key = key, !.forced = h.forced]
        BY <2>1 DEF D!Redemption
      <4> QED
        BY <4>1, <4>2
    <3> QED
      BY <1>1, <1>8, <3>1, <3>2 DEF D!Keys, D!Refetch
  <2>4. PICK key, forced : D!Go(r, [h EXCEPT !.step = "check", !.key = key, !.forced = forced])
    BY <2>3
  <2>5. PICK k : k = [h EXCEPT !.step = "check", !.key = key, !.forced = forced]
    OBVIOUS
  <2>6. D!Go(r, k) /\ k.step = "check" /\ k.from = h.from /\ k.cap = h.cap
    BY <2>1, <2>4, <2>5 DEF D!Redemption
  <2> QED
    BY <1>3, <2>1, <2>2, <2>6 DEF Admitted, Paid
<1>9. CASE D!Check(r)
  <2>1. h \in D!Redemption /\ h.step = "check"
    BY <1>1, <1>9, StepKinds DEF D!Check, D!At, Redeeming
  <2>2. UNCHANGED <<now, assertion, idp, burned, token>>
    BY <1>9 DEF D!Check, D!Registries, D!Redeemed
  <2>3. CASE D!Answer(r)
    BY <2>2, <2>3, LeaveStep
  <2>4. ASSUME NEW k, D!Go(r, k),
               \/ k = [h EXCEPT !.step = "burn", !.key = D!NoKey, !.seen = 0, !.forced = FALSE]
               \/ k = [h EXCEPT !.step = "refetch"]
        PROVE  Promise!Next
    <3>1. k.step \in {"burn", "refetch"} /\ k.from = h.from /\ k.cap = h.cap
      BY <2>1, <2>4 DEF D!Redemption
    <3> QED
      BY <1>3, <2>1, <2>2, <2>4, <3>1 DEF Admitted, Paid
  <2> QED
    BY <1>1, <1>9, <2>3, <2>4 DEF D!Check, D!Goto
<1>10. CASE D!CreateSession(r)
  <2>1. h \in D!Redemption /\ h.step = "session"
    BY <1>1, <1>10, StepKinds DEF D!CreateSession, D!At, Redeeming, Paid
  <2>2. UNCHANGED <<now, assertion, idp, burned, token>>
    BY <1>10 DEF D!CreateSession, D!Registries
  <2>3. CASE D!Answer(r)
    BY <2>2, <2>3, LeaveStep
  <2>4. CASE D!Goto(r, "token")
    <3>1. PICK k : k = [h EXCEPT !.step = "token"]
      OBVIOUS
    <3>2. D!Go(r, k) /\ k.step = "token" /\ k.from = h.from /\ k.cap = h.cap
      BY <1>1, <2>1, <2>4, <3>1 DEF D!Goto, D!Redemption
    <3> QED
      BY <1>3, <2>1, <2>2, <3>2 DEF Admitted, Paid
  <2> QED
    BY <1>10, <2>3, <2>4 DEF D!CreateSession
<1> QED
  BY <1>4, <1>5, <1>6, <1>7, <1>8, <1>9, <1>10

\* A request that arrives is no guest yet.
LEMMA ArrivalUnseen ==
  ASSUME DInv, NEW r \in DRequests, NEW k, D!Arrive(r, k), k.step \notin Admitted,
         UNCHANGED <<assertion, D!Redeemed, now>>
  PROVE  Promise!Next
<1>1. errand[r] = D!Idle /\ D!Go(r, k)
  BY DEF D!Arrive, D!Busy
<1>2. GuestOf(k)' = GuestOf(errand[r])
  <2>1. GuestOf(k)' = D!NoGuest
    BY DEF GuestOf
  <2>2. GuestOf(errand[r]) = D!NoGuest
    BY <1>1, IdleNoGuest
  <2> QED
    BY <2>1, <2>2
<1> QED
  BY <1>1, <1>2, UnseenStep DEF Grown, D!Made, D!Redeemed

\* Edits change what workspaces accept, and nothing else that is seen: what the
\* exchanges in flight note is theirs.
LEMMA EditUnseen ==
  ASSUME DInv, D!Edit, UNCHANGED errand \/ errand' = D!Noted(server')
  PROVE  Promise!Next
<1>1. Grown /\ UNCHANGED <<burned, token, now>> /\ now' >= now
  BY DEF D!Edit, D!Redeemed, Grown, D!Made, DInv, D!TypeOK
<1>2. ASSUME NEW q \in DRequests
      PROVE  GuestOf(errand[q])' = GuestOf(errand[q])
  <2>1. PICK h \in D!Handler \cup {D!Idle} : h = errand[q]
    BY DEF DInv, D!TypeOK
  <2>2. PICK k : k = errand'[q]
    OBVIOUS
  <2>3. \/ k = h
        \/ /\ h # D!Idle /\ h.op = "exchange"
           /\ \E noted : k = [h EXCEPT !.offers = noted]
    <3>1. CASE UNCHANGED errand
      BY <2>1, <2>2, <3>1
    <3>2. CASE errand' = D!Noted(server')
      <4>1. k = IF h # D!Idle /\ h.op = "exchange"
                THEN [h EXCEPT !.offers = @ \cup D!Offered(server', h.subject, h.resource)]
                ELSE h
        BY <2>1, <2>2, <3>2 DEF D!Noted, D!Busy
      <4> QED
        BY <4>1
    <3> QED
      BY <3>1, <3>2
  <2>4. GuestOf(h)' = GuestOf(h)
    BY <1>1, <2>1, GuestKept DEF DInv
  <2>5. CASE h \in D!Exchange
    <3>1. h.step \notin Admitted
      BY <2>5 DEF D!Exchange, Admitted
    <3>2. k.step = h.step
      BY <2>3, <2>5 DEF D!Exchange
    <3> QED
      BY <2>1, <2>2, <3>1, <3>2 DEF GuestOf
  <2>6. CASE h \notin D!Exchange
    <3>1. k = h
      BY <2>3, <2>6 DEF D!Handler, D!Redemption
    <3> QED
      BY <2>1, <2>2, <2>4, <3>1 DEF GuestOf
  <2> QED
    BY <2>5, <2>6
<1>3. D!Guests' = D!Guests
  BY <1>2, GuestsAre
<1> QED
  BY <1>1, <1>3, WorldStep

\* A restart sends every guest away.
LEMMA RestartLeaves ==
  ASSUME DInv, D!Restart
  PROVE  Promise!Next
<1>1. \A q \in DRequests : D!Guests'[q] = D!NoGuest
  <2>1. \A q \in DRequests : GuestOf(errand[q])' = D!NoGuest
    <3> SUFFICES ASSUME NEW q \in DRequests PROVE GuestOf(errand[q])' = D!NoGuest
      OBVIOUS
    <3>1. errand'[q] = D!Idle
      BY DEF D!Restart
    <3> QED
      BY <3>1, IdleNoGuest DEF GuestOf
  <2> QED
    BY <2>1, GuestsAre
<1>2. \A q \in DRequests : D!Guests'[q] \in {D!Guests[q], Promise!Nobody}
  BY <1>1 DEF D!NoGuest, Promise!Nobody
<1>3. UNCHANGED <<D!Clock, D!Lives, D!Accepted, D!Burned, D!Tokens>>
  BY DEF D!Restart, D!Registries, D!Redeemed, D!Clock, D!Lives, D!Accepted, D!Burned, D!Tokens, D!Made,
         D!Allowed, D!Nothing
<1>4. Promise!Leave
  BY <1>2, <1>3 DEF Promise!Leave
<1> QED
  BY <1>4 DEF Promise!Next

\* A stutter is one.
LEMMA PromiseStutter ==
  ASSUME UNCHANGED D!vars
  PROVE  UNCHANGED Promise!vars
BY DEF D!vars, Promise!vars, D!Clock, D!Lives, D!Accepted, D!Guests, D!Burned, D!Tokens, D!Made, D!Allowed,
       D!Nothing, D!Busy

\* Every step of Delegation is one of SingleUse, or none.
LEMMA PromiseStep ==
  ASSUME D!ConstantsOK
  PROVE  DInv /\ [D!Next]_D!vars => [Promise!Next]_Promise!vars
<1> SUFFICES ASSUME DInv, [D!Next]_D!vars PROVE Promise!Next \/ UNCHANGED Promise!vars
  OBVIOUS
<1>1. ASSUME NEW r \in DRequests, D!Step(r) PROVE Promise!Next
  BY <1>1, LooksUnseen, TrustedIDPAdmits, RedeemIDJAGJTIPays, PutTokenIssues DEF D!Step
<1>2. ASSUME NEW r \in DRequests, NEW s \in Subjects, NEW caller \in Clients \cup {""},
             NEW x \in Resources, NEW declared \in D!Declarable, NEW asked \in Caps,
             D!TokenExchange(r, s, caller, x, declared, asked)
      PROVE  Promise!Next
  <2> DEFINE at == IF declared = "id_token" THEN "server" ELSE "deny"
  <2> DEFINE stood == subject[s] = "live"
  <2>1. PICK k : k = [op |-> "exchange", step |-> at, subject |-> s, declared |-> declared,
                      resource |-> x, asked |-> asked, granted |-> {}, stood |-> stood,
                      offers |-> D!Offered(server, s, x)]
    OBVIOUS
  <2>2. D!Arrive(r, k) /\ UNCHANGED <<assertion, D!Redeemed, now>>
    BY <1>2, <2>1 DEF D!TokenExchange
  <2>3. k.step \notin Admitted
    BY <2>1 DEF Admitted
  <2> QED
    BY <2>2, <2>3, ArrivalUnseen
<1>3. ASSUME NEW r \in DRequests, NEW a \in D!Made, NEW c \in Clients, NEW asked \in Caps,
             D!JWTBearer(r, a, c, asked)
      PROVE  Promise!Next
  <2>1. PICK k : k = [op |-> "redeem", step |-> "trust", from |-> a, client |-> c,
                      asked |-> asked, cap |-> {}, key |-> D!NoKey, seen |-> 0,
                      forced |-> FALSE, granted |-> {}]
    OBVIOUS
  <2>2. D!Arrive(r, k) /\ UNCHANGED <<assertion, D!Redeemed, now>>
    BY <1>3, <2>1 DEF D!JWTBearer
  <2>3. k.step \notin Admitted
    BY <2>1 DEF Admitted
  <2> QED
    BY <2>2, <2>3, ArrivalUnseen
<1>4. ASSUME NEW i \in DIssuers, NEW aud \in Resources \cup {Here}, NEW c \in Clients,
             NEW scopes \in Caps, D!Foreign(i, aud, c, scopes)
      PROVE  Promise!Next
  <2>1. /\ D!Sign(i, aud, c, scopes, now + TTL) /\ scopes \in SUBSET Scopes
        /\ UNCHANGED <<burned, token, errand, now>> /\ now' >= now
    BY <1>4 DEF D!Foreign, D!Redeemed, D!ConstantsOK, DInv, D!TypeOK
  <2>2. Grown
    BY <2>1, SignAppends
  <2>3. D!Guests' = D!Guests
    BY <2>1, <2>2, GuestsStay
  <2> QED
    BY <2>1, <2>2, <2>3, WorldStep
<1>5. CASE (\E i \in DIssuers : D!RotateKey(i)) \/ D!Tick
  <2>1. /\ UNCHANGED <<assertion, burned, token, errand>> /\ now' >= now
    BY <1>5 DEF D!RotateKey, D!Tick, D!Redeemed, DInv, D!TypeOK
  <2>2. Grown
    BY <2>1 DEF Grown, D!Made
  <2>3. D!Guests' = D!Guests
    BY <2>1, <2>2, GuestsStay
  <2> QED
    BY <2>1, <2>2, <2>3, WorldStep
<1>6. CASE \E t \in Tenants, x \in Resources :
             D!CreateMCPServer(t, x) \/ D!ToggleMCPServer(t, x) \/ D!DeleteMCPServer(t, x)
  BY <1>6, EditUnseen DEF D!CreateMCPServer, D!ToggleMCPServer, D!DeleteMCPServer, D!EditServers
<1>7. CASE \E t \in Tenants, i \in DIssuers :
             D!CreateTrustedIDP(t, i) \/ D!ToggleTrustedIDP(t, i) \/ D!DeleteTrustedIDP(t, i)
  BY <1>7, EditUnseen DEF D!CreateTrustedIDP, D!ToggleTrustedIDP, D!DeleteTrustedIDP, D!EditIDPs
<1>8. CASE \E s \in Subjects : D!RevokeSubject(s) \/ D!SubjectLapses(s)
  BY <1>8, EditUnseen DEF D!RevokeSubject, D!SubjectLapses
<1>9. CASE D!Restart
  BY <1>9, RestartLeaves
<1>10. CASE UNCHANGED D!vars
  BY <1>10, PromiseStutter
<1> QED
  BY <1>1, <1>2, <1>3, <1>4, <1>5, <1>6, <1>7, <1>8, <1>9, <1>10 DEF D!Next

\* Redemption by the jti table, the trust registry and the key cache does what
\* SingleUse promises: an assertion is paid with once until it expires, let in
\* while its issuer is trusted, for one token within assertion and cap, however
\* many redemptions overlap, fail or are cut off (RedeemIDJAGJTI, trustedIDP).
THEOREM SingleUseKept == ASSUME D!ConstantsOK PROVE D!Spec => RedemptionsSingleUse
<1>1. D!Init => Promise!Init
  BY PromiseInit
<1>2. DInv /\ [D!Next]_D!vars => [Promise!Next]_Promise!vars
  BY PromiseStep
<1> QED
  BY <1>1, <1>2, DInvariance, PTL DEF D!Spec, RedemptionsSingleUse, Promise!Spec

====
