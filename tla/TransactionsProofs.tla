------------------------ MODULE TransactionsProofs ------------------------
(***************************************************************************)
(* Theorems about Transactions, for any number of transactions, sessions   *)
(* and overlapping requests.                                               *)
(*                                                                         *)
(* The argument: a row is written back whole, but only two kinds of        *)
(* handler write it.  The one that created it is alone with it while it is *)
(* pending; every later one read it when it waited for its step-up and     *)
(* carries the row's own tier, session and challenge, so what it writes    *)
(* back keeps them.  What backs a session is therefore never taken away.   *)
(*                                                                         *)
(* Two more invariants carry what needs requests one at a time: FInv, that *)
(* only one request holds a settled transaction, waiting for its step-up   *)
(* (a decision is final), and HInv, that a copy carries its row's history. *)
(***************************************************************************)
EXTENDS Transactions, FiniteSetTheorems, TLAPS

Strong == {"medium", "high"}
Creating == {"risk", "challenge", "session", "reevaluate"}
Verifying == {"verify", "answer", "reject", "upgrade", "promote"}

Settled(t) == row[t].decision \notin {"unborn", "pending"}

\* Some transaction of the session, proved, carries the risk level of row w.
Backed(s, w) ==
  w.stepUp => \E t \in proved : row[t].session = s /\ row[t].tier = w.risk

\* A handler that waits to create a decision holds a pending row.
CreatingOK(h) ==
  h.step \in Creating =>
    /\ h.txn \in Txns /\ row[h.txn].decision = "pending"
    /\ h.copy.session = row[h.txn].session
    /\ h.step = "challenge" => h.copy.tier \in Strong
    /\ h.step = "session" => h.of \in Sessions

\* A handler of a step-up carries what the row will keep.
VerifyingOK(h) ==
  h.step \in Verifying =>
    /\ h.txn \in Txns /\ Settled(h.txn)
    /\ row[h.txn].challenge = h.txn /\ row[h.txn].tier \in Strong
    /\ h.copy.challenge = h.txn
    /\ h.copy.tier = row[h.txn].tier
    /\ h.copy.session = row[h.txn].session /\ h.of = row[h.txn].session
    /\ h.step \in {"upgrade", "promote"} => h.txn \in proved /\ h.of \in Sessions

\* A first decision rests on the tier, a second one on the proof.
PersistOK(h) ==
  h.step = "persist" =>
    /\ h.txn \in Txns /\ row[h.txn].decision # "unborn"
    /\ h.copy.session = row[h.txn].session
    /\ row[h.txn].decision = "pending" =>
         /\ h.copy.decision \in {"allow", "deny", "error", "step_up_required"}
         /\ h.copy.decision = "allow" => h.copy.tier \in {"low", "medium"}
         /\ h.copy.decision = "step_up_required" =>
              h.copy.tier \in Strong /\ h.copy.challenge = h.txn
    /\ Settled(h.txn) =>
         /\ h.copy.decision \in {"step_up_satisfied", "error"}
         /\ h.copy.decision = "step_up_satisfied" => h.txn \in proved
         /\ row[h.txn].challenge = h.txn /\ row[h.txn].tier \in Strong
         /\ h.copy.challenge = h.txn
         /\ h.copy.tier = row[h.txn].tier

\* A session row in hand was backed when it was read.
HeldOK(h) ==
  h.step \in {"promote", "extend", "invalidate"} =>
    h.of \in Sessions /\ Backed(h.of, h.held)

\* A handler without a transaction only deals with a session.
FreeOK(h) ==
  IF h.txn = 0 THEN h.step \in {"idle", "extend", "invalidate"}
  ELSE row[h.txn].decision # "unborn"

HandlerOK(h) == CreatingOK(h) /\ VerifyingOK(h) /\ PersistOK(h) /\ HeldOK(h) /\ FreeOK(h)

RowOK(t) ==
  /\ row[t].decision = "allow" => row[t].tier \in {"low", "medium"}
  /\ row[t].decision \in {"step_up_required", "step_up_satisfied"} =>
       row[t].challenge = t /\ row[t].tier \in Strong
  /\ row[t].decision = "step_up_satisfied" => t \in proved

\* A pending row has one handler at most.
Alone ==
  \A q, r \in Requests :
    q # r /\ handler[q].txn = handler[r].txn /\ handler[q].txn # 0
      => Settled(handler[q].txn)

IInv ==
  /\ TypeOK
  /\ \A r \in Requests : HandlerOK(handler[r])
  /\ \A t \in Txns : RowOK(t)
  /\ \A t \in proved : Settled(t)
  /\ Alone
  /\ \A s \in Sessions : Backed(s, session[s])

-----------------------------------------------------------------------------
(* What the updates of the records do.                                     *)

LEMMA Servings ==
  \A s \in Steps, t \in TxnId, f \in BOOLEAN, c \in Row, o \in SessionId :
    /\ Serving(s, t, f, c, o) \in Handler
    /\ Serving(s, t, f, c, o).step = s /\ Serving(s, t, f, c, o).txn = t
    /\ Serving(s, t, f, c, o).copy = c /\ Serving(s, t, f, c, o).of = o
  <1>1. Login("low") \in Session
    BY DEF Login, Session
  <1> QED BY <1>1 DEF Handler, Serving

LEMMA Moves ==
  \A h \in Handler, s \in Steps :
    /\ [h EXCEPT !.step = s] \in Handler
    /\ [h EXCEPT !.step = s].step = s /\ [h EXCEPT !.step = s].txn = h.txn
    /\ [h EXCEPT !.step = s].copy = h.copy /\ [h EXCEPT !.step = s].held = h.held
    /\ [h EXCEPT !.step = s].of = h.of
  BY DEF Handler

LEMMA Constants ==
  /\ NoRow \in Row /\ Idle \in Handler /\ Login("low") \in Session
  /\ Idle.step = "idle" /\ Idle.txn = 0
  /\ NoRow.tier = "" /\ NoRow.decision = "unborn"
  <1>1. NoRow \in Row
    BY TransactionsAssumption DEF NoRow, Row, Decisions, Tiers, TxnId, SessionId
  <1>2. Login("low") \in Session
    BY DEF Login, Session
  <1>3. 0 \in TxnId /\ "idle" \in Steps
    BY TransactionsAssumption DEF TxnId, Steps
  <1>4. Idle \in Handler
    BY <1>1, <1>3, Servings DEF Idle, SessionId
  <1> QED BY <1>1, <1>2, <1>4 DEF Idle, Serving, NoRow

\* The names the code uses are among the names it may use.
LEMMA Names ==
  /\ Creating \subseteq Steps /\ Verifying \subseteq Steps
  /\ {"idle", "persist", "extend", "invalidate"} \subseteq Steps
  /\ Decided \cup {"pending", "unborn", "step_up_required"} \subseteq Decisions
  /\ Strong \subseteq Tiers /\ {"low", "unknown"} \subseteq Tiers
  /\ {"low", "medium", "high"} \subseteq Tiers
  /\ Txns \subseteq TxnId /\ 0 \in TxnId /\ 0 \notin Txns
  BY TransactionsAssumption
  DEF Creating, Verifying, Steps, Decided, Decisions, Strong, Tiers, Txns, TxnId

-----------------------------------------------------------------------------
(* How a step carries the invariant.                                       *)

Kept(t) ==
  /\ Settled(t)'
  /\ row'[t].tier = row[t].tier
  /\ row'[t].session = row[t].session
  /\ row'[t].challenge = row[t].challenge

\* What backs a session row goes on backing it.
LEMMA BackedKept ==
  ASSUME NEW s, NEW w, Backed(s, w), proved \subseteq proved',
         \A t \in proved : Kept(t)
  PROVE  Backed(s, w)'
  BY DEF Backed, Kept

\* A handler that does not move stays right if its row is kept.
LEMMA HandlerKept ==
  ASSUME NEW h \in Handler, HandlerOK(h), proved \subseteq proved',
         \A t \in proved : Kept(t),
         h.txn \in Txns => row'[h.txn] = row[h.txn] \/ (Settled(h.txn) /\ Kept(h.txn))
  PROVE  HandlerOK(h)'
  <1>1. HeldOK(h)'
    BY BackedKept DEF HandlerOK, HeldOK
  <1>2. CreatingOK(h)'
    BY DEF HandlerOK, CreatingOK, Settled, Kept
  <1>3. VerifyingOK(h)'
    BY DEF HandlerOK, VerifyingOK, Settled, Kept
  <1>4. PersistOK(h)'
    BY DEF HandlerOK, PersistOK, Settled, Kept
  <1>5. FreeOK(h)'
    BY Names DEF HandlerOK, FreeOK, Settled, Kept, Handler, Txns, TxnId
  <1> QED BY <1>1, <1>2, <1>3, <1>4, <1>5 DEF HandlerOK

\* One request moves to k; the rows that change are settled, its own or new.
LEMMA StepIInv ==
  ASSUME IInv, NEW r \in Requests, NEW k \in Handler, Becomes(r, k), HandlerOK(k)',
         row' \in [Txns -> Row], session' \in [Sessions -> Session],
         challenge' \in [Txns -> {"unborn", "pending", "failed", "completed"}],
         now' \in Time, mishaps' \subseteq Trouble, missed' \in [Txns -> Nat],
         proved \subseteq proved', proved' \subseteq Txns,
         \A t \in proved' : Settled(t)',
         \A t \in Txns : Settled(t) => Kept(t),
         \A t \in Txns : \/ row'[t] = row[t] \/ Settled(t)
                         \/ row[t].decision = "unborn" \/ t = handler[r].txn,
         \A t \in Txns : RowOK(t)',
         \A q \in Requests \ {r} : handler[q].txn = k.txn /\ k.txn # 0 => Settled(k.txn)',
         \A s \in Sessions : Backed(s, session[s])'
  PROVE  IInv'
  <1>1. handler' \in [Requests -> Handler] /\ handler'[r] = k
        /\ \A q \in Requests \ {r} : handler'[q] = handler[q]
    BY DEF IInv, TypeOK, Becomes
  <1>2. TypeOK'
    BY <1>1 DEF TypeOK
  <1>3. \A t \in proved : Kept(t)
    BY DEF IInv, TypeOK
  <1>4. ASSUME NEW q \in Requests \ {r} PROVE HandlerOK(handler[q])'
    <2>1. PICK g \in Handler : g = handler[q]
      BY DEF IInv, TypeOK
    <2>2. HandlerOK(g)
      BY <2>1 DEF IInv
    <2>3. ASSUME g.txn \in Txns
          PROVE  row'[g.txn] = row[g.txn] \/ (Settled(g.txn) /\ Kept(g.txn))
      <3>1. g.txn # 0
        BY <2>3, Names
      <3>2. row[g.txn].decision # "unborn"
        BY <2>2, <3>1 DEF HandlerOK, FreeOK
      <3>3. g.txn = handler[r].txn => Settled(g.txn)
        BY <2>1, <3>1 DEF IInv, Alone
      <3> QED BY <2>3, <3>2, <3>3
    <2>4. HandlerOK(g)'
      BY <1>3, <2>2, <2>3, HandlerKept
    <2> QED BY <1>1, <2>1, <2>4
  <1>5. \A q \in Requests : HandlerOK(handler[q])'
    BY <1>1, <1>4
  <1>6. Alone'
    <2> SUFFICES ASSUME NEW p \in Requests, NEW q \in Requests, p # q,
                        handler'[p].txn = handler'[q].txn, handler'[p].txn # 0
                 PROVE  Settled(handler[p].txn)'
      BY DEF Alone
    <2>1. CASE p # r /\ q # r
      <3>1. Settled(handler[p].txn) /\ handler'[p].txn = handler[p].txn
        BY <1>1, <2>1 DEF IInv, Alone
      <3>2. handler[p].txn \in TxnId
        BY DEF IInv, TypeOK, Handler
      <3>3. handler[p].txn \in Txns
        BY <3>1, <3>2 DEF Txns, TxnId
      <3> QED BY <3>1, <3>3 DEF Kept
    <2>2. CASE p = r
      BY <1>1, <2>2
    <2>3. CASE q = r
      BY <1>1, <2>3
    <2> QED BY <2>1, <2>2, <2>3
  <1> QED BY <1>2, <1>5, <1>6 DEF IInv

\* The same for a step that leaves rows, sessions and proofs alone.
LEMMA QuietIInv ==
  ASSUME IInv, NEW r \in Requests, NEW k \in Handler, Becomes(r, k), HandlerOK(k),
         UNCHANGED <<row, session, proved, now>>,
         challenge' \in [Txns -> {"unborn", "pending", "failed", "completed"}],
         mishaps' \subseteq Trouble, missed' \in [Txns -> Nat],
         \/ k.txn \in {0, handler[r].txn}
         \/ k.txn \in Txns /\ Settled(k.txn)
  PROVE  IInv'
  <1>1. HandlerOK(k)'
    BY DEF HandlerOK, CreatingOK, VerifyingOK, PersistOK, HeldOK, FreeOK, Backed, Settled
  <1>2. \A t \in Txns : RowOK(t)' /\ (Settled(t) => Kept(t))
    BY DEF IInv, RowOK, Settled, Kept
  <1>3. \A q \in Requests \ {r} : handler[q].txn = k.txn /\ k.txn # 0 => Settled(k.txn)'
    BY DEF IInv, Alone, Settled
  <1>4. \A s \in Sessions : Backed(s, session[s])'
    BY DEF IInv, Backed
  <1>5. \A t \in proved' : Settled(t)'
    BY DEF IInv, Settled
  <1> QED BY <1>1, <1>2, <1>3, <1>4, <1>5, StepIInv DEF IInv, TypeOK

-----------------------------------------------------------------------------
(* The handlers' next states.                                              *)

LEMMA Troubles ==
  ASSUME TypeOK, NEW what \in Trouble, Suffer(what)
  PROVE  mishaps' \subseteq Trouble
  BY DEF TypeOK, Suffer

LEMMA Beginnings ==
  ASSUME TypeOK, NEW r \in Requests, NEW k, Begins(r, k)
  PROVE  Becomes(r, k) /\ mishaps' \subseteq Trouble /\ ~Busy(r)
  BY Troubles DEF Begins, Trouble, TypeOK

LEMMA IdleOK == HandlerOK(Idle)
  BY Constants DEF HandlerOK, CreatingOK, VerifyingOK, PersistOK, HeldOK, FreeOK,
     Creating, Verifying

\* A decided copy is ready to be written.
LEMMA DecidedOK ==
  ASSUME NEW t \in Txns, NEW c \in Row, row[t].decision # "unborn",
         c.session = row[t].session,
         row[t].decision = "pending" =>
           /\ c.decision \in {"allow", "deny", "error", "step_up_required"}
           /\ c.decision = "allow" => c.tier \in {"low", "medium"}
           /\ c.decision = "step_up_required" => c.tier \in Strong /\ c.challenge = t,
         Settled(t) =>
           /\ c.decision \in {"step_up_satisfied", "error"}
           /\ c.decision = "step_up_satisfied" => t \in proved
           /\ row[t].challenge = t /\ row[t].tier \in Strong
           /\ c.challenge = t /\ c.tier = row[t].tier,
         NEW k, k = Serving("persist", t, FALSE, c, NoSession)
  PROVE  k \in Handler /\ HandlerOK(k) /\ k.txn = t
  <1>1. NoSession \in SessionId /\ t \in TxnId /\ "persist" \in Steps
    BY Names DEF SessionId
  <1>2. k \in Handler /\ k.step = "persist" /\ k.txn = t /\ k.copy = c
    BY <1>1, Constants DEF Handler, Serving
  <1>3. t # 0
    BY Names
  <1> QED
    BY <1>2, <1>3 DEF HandlerOK, CreatingOK, VerifyingOK, PersistOK, HeldOK, FreeOK,
       Creating, Verifying

\* markError can be reached from every step before the last.
LEMMA ErrorOK ==
  ASSUME IInv, NEW r \in Requests, handler[r].step \in Creating \cup Verifying,
         MarkError(r)
  PROVE  \E k \in Handler : Becomes(r, k) /\ HandlerOK(k) /\ k.txn = handler[r].txn
  <1>1. PICK h \in Handler : h = handler[r] /\ HandlerOK(h)
    BY DEF IInv, TypeOK
  <1>2. PICK b \in Row : b = h.copy
    BY DEF Handler
  <1> DEFINE c == [b EXCEPT !.decision = "error"]
  <1>3. c \in Row /\ c.decision = "error" /\ c.tier = h.copy.tier
        /\ c.challenge = h.copy.challenge /\ c.session = h.copy.session
    BY <1>2 DEF Row, Decisions
  <1>4. Becomes(r, Serving("persist", h.txn, FALSE, c, NoSession))
    BY <1>1, <1>2 DEF MarkError, Decides
  <1>5. h.txn \in Txns /\ row[h.txn].decision # "unborn" /\ h.copy.session = row[h.txn].session
    BY <1>1 DEF HandlerOK, CreatingOK, VerifyingOK, Settled
  <1>6. Settled(h.txn) => /\ row[h.txn].challenge = h.txn /\ row[h.txn].tier \in Strong
                          /\ h.copy.challenge = h.txn /\ h.copy.tier = row[h.txn].tier
    BY <1>1 DEF HandlerOK, CreatingOK, VerifyingOK, Settled
  <1> HIDE DEF c
  <1>7. PICK k : k = Serving("persist", h.txn, FALSE, c, NoSession)
    OBVIOUS
  <1>8. k \in Handler /\ HandlerOK(k) /\ k.txn = h.txn
    BY <1>3, <1>5, <1>6, <1>7, DecidedOK
  <1> QED BY <1>1, <1>4, <1>7, <1>8

\* So can the end of a step-up, with the proof that the step gives or finds.
LEMMA SatisfiedOK ==
  ASSUME IInv, NEW r \in Requests, handler[r].step \in Verifying,
         handler[r].txn \in proved', UNCHANGED row, Satisfied(r)
  PROVE  \E k \in Handler : Becomes(r, k) /\ HandlerOK(k)' /\ k.txn = handler[r].txn
  <1>1. PICK h \in Handler : h = handler[r] /\ HandlerOK(h)
    BY DEF IInv, TypeOK
  <1>2. PICK b \in Row : b = h.copy
    BY DEF Handler
  <1> DEFINE c == [b EXCEPT !.decision = "step_up_satisfied"]
  <1>3. c \in Row /\ c.decision = "step_up_satisfied" /\ c.tier = h.copy.tier
        /\ c.challenge = h.copy.challenge /\ c.session = h.copy.session
    BY <1>2 DEF Row, Decisions
  <1>4. Becomes(r, Serving("persist", h.txn, FALSE, c, NoSession))
    BY <1>1, <1>2 DEF Satisfied, Decides
  <1>5. /\ h.txn \in Txns /\ Settled(h.txn) /\ h.copy.session = row[h.txn].session
        /\ row[h.txn].challenge = h.txn /\ row[h.txn].tier \in Strong
        /\ h.copy.challenge = h.txn /\ h.copy.tier = row[h.txn].tier
    BY <1>1 DEF HandlerOK, VerifyingOK
  <1> HIDE DEF c
  <1>6. PICK k : k = Serving("persist", h.txn, FALSE, c, NoSession)
    OBVIOUS
  <1>7. NoSession \in SessionId /\ h.txn \in TxnId /\ "persist" \in Steps
    BY <1>5, Names DEF SessionId
  <1>8. k \in Handler /\ k.step = "persist" /\ k.txn = h.txn /\ k.copy = c
    BY <1>3, <1>6, <1>7, Constants DEF Handler, Serving
  <1>9. HandlerOK(k)'
    BY <1>1, <1>3, <1>5, <1>8, Names DEF Settled, HandlerOK, CreatingOK, VerifyingOK,
       PersistOK, HeldOK, FreeOK, Creating, Verifying
  <1> QED BY <1>1, <1>4, <1>6, <1>8, <1>9

\* A first decision on the tier that risk-service answered.
LEMMA TierOK ==
  ASSUME IInv, NEW r \in Requests, handler[r].step \in Creating,
         NEW x \in Tiers, NEW d \in {"allow", "deny", "error"},
         d = "allow" => x \in {"low", "medium"},
         Decides(r, [handler[r].copy EXCEPT !.tier = x, !.decision = d])
  PROVE  \E k \in Handler : Becomes(r, k) /\ HandlerOK(k) /\ k.txn = handler[r].txn
  <1>1. PICK h \in Handler : h = handler[r] /\ HandlerOK(h)
    BY DEF IInv, TypeOK
  <1>2. PICK b \in Row : b = h.copy
    BY DEF Handler
  <1> DEFINE c == [b EXCEPT !.tier = x, !.decision = d]
  <1>3. c \in Row /\ c.decision = d /\ c.tier = x /\ c.session = h.copy.session
    BY <1>2 DEF Row, Decisions
  <1>4. Becomes(r, Serving("persist", h.txn, FALSE, c, NoSession))
    BY <1>1, <1>2 DEF Decides
  <1>5. h.txn \in Txns /\ row[h.txn].decision = "pending" /\ h.copy.session = row[h.txn].session
    BY <1>1 DEF HandlerOK, CreatingOK
  <1> HIDE DEF c
  <1>6. PICK k : k = Serving("persist", h.txn, FALSE, c, NoSession)
    OBVIOUS
  <1>7. k \in Handler /\ HandlerOK(k) /\ k.txn = h.txn
    BY <1>3, <1>5, <1>6, DecidedOK DEF Settled
  <1> QED BY <1>1, <1>4, <1>6, <1>7

\* A verdict of authorize is such a decision.
LEMMA JudgedOK ==
  ASSUME IInv, NEW r \in Requests, handler[r].step \in Creating, NEW x \in Tiers,
         Judged(r, x)
  PROVE  \E k \in Handler : Becomes(r, k) /\ HandlerOK(k) /\ k.txn = handler[r].txn
  <1>1. PICK d : d = Verdict(x)
    OBVIOUS
  <1>2. d \in {"allow", "deny", "error"} /\ (d = "allow" => x \in {"low", "medium"})
    BY <1>1 DEF Verdict
  <1>3. Decides(r, [handler[r].copy EXCEPT !.tier = x, !.decision = d])
    BY <1>1 DEF Judged
  <1> QED BY <1>2, <1>3, TierOK

\* The challenge exists before the transaction waits for it.
LEMMA RequiredOK ==
  ASSUME IInv, NEW r \in Requests, At(r, "challenge"),
         Decides(r, [handler[r].copy EXCEPT !.decision = "step_up_required",
                                            !.challenge = handler[r].txn])
  PROVE  \E k \in Handler : Becomes(r, k) /\ HandlerOK(k) /\ k.txn = handler[r].txn
  <1>1. PICK h \in Handler : h = handler[r] /\ HandlerOK(h)
    BY DEF IInv, TypeOK
  <1>2. PICK b \in Row : b = h.copy
    BY DEF Handler
  <1>3. PICK t \in TxnId : t = h.txn
    BY DEF Handler
  <1> DEFINE c == [b EXCEPT !.decision = "step_up_required", !.challenge = t]
  <1>4. c \in Row /\ c.decision = "step_up_required" /\ c.tier = h.copy.tier
        /\ c.challenge = h.txn /\ c.session = h.copy.session
    BY <1>2, <1>3 DEF Row, Decisions
  <1>5. Becomes(r, Serving("persist", h.txn, FALSE, c, NoSession))
    BY <1>1, <1>2, <1>3 DEF Decides
  <1>6. h.txn \in Txns /\ row[h.txn].decision = "pending"
        /\ h.copy.session = row[h.txn].session /\ h.copy.tier \in Strong
    BY <1>1 DEF HandlerOK, CreatingOK, Creating, At
  <1> HIDE DEF c
  <1>7. PICK k : k = Serving("persist", h.txn, FALSE, c, NoSession)
    OBVIOUS
  <1>8. k \in Handler /\ HandlerOK(k) /\ k.txn = h.txn
    BY <1>4, <1>6, <1>7, DecidedOK DEF Settled
  <1> QED BY <1>1, <1>5, <1>7, <1>8

\* A handler goes on with the copy it has.
LEMMA GoesOK ==
  ASSUME IInv, NEW r \in Requests, NEW st \in Steps, Goes(r, st),
         \/ handler[r].step \in Verifying /\ st \in {"answer", "reject"}
         \/ handler[r].step \in Creating /\ st = "reevaluate"
  PROVE  \E k \in Handler : Becomes(r, k) /\ HandlerOK(k) /\ k.txn = handler[r].txn
  <1>1. PICK h \in Handler : h = handler[r] /\ HandlerOK(h)
    BY DEF IInv, TypeOK
  <1>2. PICK k : k = [h EXCEPT !.step = st]
    OBVIOUS
  <1>3. k \in Handler /\ k.step = st /\ k.txn = h.txn /\ k.copy = h.copy /\ k.of = h.of
    BY <1>2, Moves
  <1>4. HandlerOK(k)
    BY <1>1, <1>3, Names DEF HandlerOK, CreatingOK, VerifyingOK, PersistOK, HeldOK, FreeOK,
       Settled, Creating, Verifying
  <1> QED BY <1>1, <1>2, <1>3, <1>4 DEF Goes

-----------------------------------------------------------------------------
(* The steps.                                                              *)

\* A step that only moves the request along.
LEMMA MovesOn ==
  ASSUME IInv, NEW r \in Requests,
         \E k \in Handler : Becomes(r, k) /\ HandlerOK(k) /\ k.txn = handler[r].txn,
         UNCHANGED <<row, session, proved, now, missed, mishaps>>,
         challenge' \in [Txns -> {"unborn", "pending", "failed", "completed"}]
  PROVE  IInv'
  BY QuietIInv DEF IInv, TypeOK

LEMMA ChallengeUpdates ==
  ASSUME TypeOK, NEW t,
         NEW x \in {"pending", "failed", "completed"},
         challenge' = [challenge EXCEPT ![t] = x] \/ UNCHANGED challenge
  PROVE  challenge' \in [Txns -> {"unborn", "pending", "failed", "completed"}]
  BY DEF TypeOK

LEMMA AdviceRiskIInv ==
  ASSUME IInv, NEW r \in Requests, AdviceRisk(r)
  PROVE  IInv'
  <1>1. PICK h \in Handler : h = handler[r] /\ HandlerOK(h)
    BY DEF IInv, TypeOK
  <1>2. handler[r].step \in Creating /\ h.step = "risk"
    BY <1>1 DEF AdviceRisk, At, Creating
  <1>3. challenge' \in [Txns -> {"unborn", "pending", "failed", "completed"}]
    BY DEF AdviceRisk, IInv, TypeOK
  <1>4. UNCHANGED <<row, session, proved, now, missed, mishaps>>
    BY DEF AdviceRisk
  <1>5. \E k \in Handler : Becomes(r, k) /\ HandlerOK(k) /\ k.txn = handler[r].txn
    <2>1. CASE MarkError(r)
      BY <1>2, <2>1, ErrorOK
    <2>2. CASE Decides(r, [handler[r].copy EXCEPT !.tier = "low", !.decision = "allow"])
      BY <1>2, <2>2, TierOK, Names
    <2>3. CASE Decides(r, [handler[r].copy EXCEPT !.tier = "unknown", !.decision = "error"])
      BY <1>2, <2>3, TierOK, Names
    <2>4. ASSUME NEW x \in Strong,
                 Becomes(r, [handler[r] EXCEPT !.step = "challenge",
                                               !.copy = [handler[r].copy EXCEPT !.tier = x]])
          PROVE  \E k \in Handler : Becomes(r, k) /\ HandlerOK(k) /\ k.txn = handler[r].txn
      <3>1. PICK b \in Row : b = h.copy
        BY DEF Handler
      <3>2. PICK c : c = [b EXCEPT !.tier = x]
        OBVIOUS
      <3>3. c \in Row /\ c.tier = x /\ c.session = h.copy.session
        BY <3>1, <3>2 DEF Row, Tiers, Strong
      <3>4. PICK k : k = [h EXCEPT !.step = "challenge", !.copy = c]
        OBVIOUS
      <3>5. k \in Handler /\ k.step = "challenge" /\ k.txn = h.txn /\ k.copy = c
        BY <3>3, <3>4 DEF Handler, Steps
      <3>6. HandlerOK(k)
        BY <1>1, <1>2, <3>3, <3>5, Names DEF HandlerOK, CreatingOK, VerifyingOK, PersistOK,
           HeldOK, FreeOK, Creating, Verifying
      <3> QED BY <1>1, <2>4, <3>1, <3>2, <3>4, <3>5, <3>6
    <2> QED BY <2>1, <2>2, <2>3, <2>4 DEF AdviceRisk, Strong
  <1> QED BY <1>3, <1>4, <1>5, MovesOn

LEMMA CreateChallengeIInv ==
  ASSUME IInv, NEW r \in Requests, CreateChallenge(r)
  PROVE  IInv'
  <1>1. handler[r].step \in Creating /\ At(r, "challenge")
    BY DEF CreateChallenge, At, Creating
  <1>2. challenge' \in [Txns -> {"unborn", "pending", "failed", "completed"}]
    BY ChallengeUpdates DEF CreateChallenge, IInv
  <1>3. UNCHANGED <<row, session, proved, now, missed, mishaps>>
    BY DEF CreateChallenge
  <1>4. \E k \in Handler : Becomes(r, k) /\ HandlerOK(k) /\ k.txn = handler[r].txn
    BY <1>1, ErrorOK, RequiredOK DEF CreateChallenge
  <1> QED BY <1>2, <1>3, <1>4, MovesOn

LEMMA VerifyGateIInv ==
  ASSUME IInv, NEW r \in Requests, VerifyGate(r)
  PROVE  IInv'
  <1>1. handler[r].step \in Verifying /\ "answer" \in Steps
    BY Names DEF VerifyGate, At, Verifying
  <1>2. \E k \in Handler : Becomes(r, k) /\ HandlerOK(k) /\ k.txn = handler[r].txn
    BY <1>1, ErrorOK, GoesOK DEF VerifyGate
  <1> QED BY <1>2, MovesOn DEF VerifyGate, IInv, TypeOK

LEMMA UpgradeIInv ==
  ASSUME IInv, NEW r \in Requests, Upgrade(r)
  PROVE  IInv'
  <1>1. PICK h \in Handler : h = handler[r] /\ HandlerOK(h)
    BY DEF IInv, TypeOK
  <1>2. handler[r].step \in Verifying /\ h.step = "upgrade"
    BY <1>1 DEF Upgrade, At, Verifying
  <1>3. ASSUME ReadSession(r, h.of, "promote")
        PROVE  \E k \in Handler : Becomes(r, k) /\ HandlerOK(k) /\ k.txn = handler[r].txn
    <2>1. h.of \in Sessions
      BY <1>1, <1>2 DEF HandlerOK, VerifyingOK
    <2>2. PICK w \in Session : w = session[h.of] /\ Backed(h.of, w)
      BY <2>1 DEF IInv, TypeOK
    <2>3. PICK k : k = [h EXCEPT !.step = "promote", !.held = w]
      OBVIOUS
    <2>4. /\ k \in Handler /\ k.step = "promote" /\ k.txn = h.txn /\ k.copy = h.copy
          /\ k.held = w /\ k.of = h.of
      BY <2>3 DEF Handler, Steps
    <2>5. HandlerOK(k)
      BY <1>1, <1>2, <2>1, <2>2, <2>4, Names DEF HandlerOK, CreatingOK, VerifyingOK,
         PersistOK, HeldOK, FreeOK, Creating, Verifying
    <2> QED BY <1>1, <1>3, <2>2, <2>3, <2>4, <2>5 DEF ReadSession
  <1>4. \E k \in Handler : Becomes(r, k) /\ HandlerOK(k) /\ k.txn = handler[r].txn
    BY <1>1, <1>2, <1>3, ErrorOK DEF Upgrade
  <1> QED BY <1>4, MovesOn DEF Upgrade, IInv, TypeOK

LEMMA GetSessionIInv ==
  ASSUME IInv, NEW r \in Requests, GetSession(r)
  PROVE  IInv'
  <1>1. PICK h \in Handler : h = handler[r] /\ HandlerOK(h)
    BY DEF IInv, TypeOK
  <1>2. handler[r].step \in Creating /\ h.step = "session" /\ "reevaluate" \in Steps
    BY <1>1, Names DEF GetSession, At, Creating
  <1>3. session[h.of].risk \in Tiers
    <2>1. h.of \in Sessions
      BY <1>1, <1>2 DEF HandlerOK, CreatingOK, Creating
    <2> QED BY <2>1, Names DEF IInv, TypeOK, Session
  <1>4. \E k \in Handler : Becomes(r, k) /\ HandlerOK(k) /\ k.txn = handler[r].txn
    BY <1>1, <1>2, <1>3, ErrorOK, GoesOK, JudgedOK DEF GetSession
  <1> QED BY <1>4, MovesOn DEF GetSession, IInv, TypeOK

LEMMA ReevaluateIInv ==
  ASSUME IInv, NEW r \in Requests, Reevaluate(r)
  PROVE  IInv'
  <1>1. handler[r].step \in Creating
    BY DEF Reevaluate, At, Creating
  <1>2. \E k \in Handler : Becomes(r, k) /\ HandlerOK(k) /\ k.txn = handler[r].txn
    BY <1>1, ErrorOK, JudgedOK DEF Reevaluate
  <1> QED BY <1>2, MovesOn DEF Reevaluate, IInv, TypeOK

\* A step that leaves the rows alone and may add a proof or change sessions.
LEMMA RowsKeptIInv ==
  ASSUME IInv, NEW r \in Requests, UNCHANGED <<row, now>>,
         \E k \in Handler : /\ Becomes(r, k) /\ HandlerOK(k)'
                            /\ k.txn = 0 \/ k.txn = handler[r].txn,
         challenge' \in [Txns -> {"unborn", "pending", "failed", "completed"}],
         mishaps' \subseteq Trouble, missed' \in [Txns -> Nat],
         session' \in [Sessions -> Session],
         proved \subseteq proved', proved' \subseteq Txns,
         \A t \in proved' : Settled(t) /\ (RowOK(t) => RowOK(t)'),
         \A s \in Sessions : Backed(s, session[s])'
  PROVE  IInv'
  <1>1. PICK k \in Handler : /\ Becomes(r, k) /\ HandlerOK(k)'
                             /\ k.txn = 0 \/ k.txn = handler[r].txn
    OBVIOUS
  <1>2. \A t \in Txns : (Settled(t) => Kept(t)) /\ row'[t] = row[t]
    BY DEF Kept, Settled
  <1>3. \A t \in Txns : RowOK(t)'
    BY DEF IInv, RowOK
  <1>4. \A t \in proved' : Settled(t)'
    BY DEF Settled
  <1>5. \A q \in Requests \ {r} : handler[q].txn = k.txn /\ k.txn # 0 => Settled(k.txn)'
    BY <1>1 DEF IInv, Alone, Settled
  <1> QED BY <1>1, <1>2, <1>3, <1>4, <1>5, StepIInv DEF IInv, TypeOK

LEMMA SameRows ==
  ASSUME NEW h, HandlerOK(h), UNCHANGED row, proved \subseteq proved'
  PROVE  HandlerOK(h)'
  BY DEF HandlerOK, CreatingOK, VerifyingOK, PersistOK, HeldOK, FreeOK, Backed, Settled

LEMMA VerifyChallengeIInv ==
  ASSUME IInv, NEW r \in Requests, VerifyChallenge(r)
  PROVE  IInv'
  <1>1. PICK h \in Handler : h = handler[r] /\ HandlerOK(h)
    BY DEF IInv, TypeOK
  <1>2. handler[r].step \in Verifying /\ h.step = "answer"
    BY <1>1 DEF VerifyChallenge, At, Verifying
  <1>3. h.txn \in Txns /\ Settled(h.txn) /\ h.copy.challenge = h.txn
        /\ h.of = row[h.txn].session
    BY <1>1, <1>2 DEF HandlerOK, VerifyingOK
  <1>4. challenge' \in [Txns -> {"unborn", "pending", "failed", "completed"}]
    BY ChallengeUpdates DEF VerifyChallenge, IInv
  <1>5. UNCHANGED <<row, session, now, mishaps>>
    BY DEF VerifyChallenge
  <1>6. missed' \in [Txns -> Nat]
    <2>1. ASSUME NEW t \in Txns PROVE [missed EXCEPT ![t] = @ + 1] \in [Txns -> Nat]
      BY DEF IInv, TypeOK
    <2> QED BY <1>1, <1>3, <2>1 DEF VerifyChallenge, IInv, TypeOK
  <1>7. proved' = proved \/ proved' = proved \cup {h.txn}
    BY <1>1, <1>3 DEF VerifyChallenge
  <1>8. \E k \in Handler : Becomes(r, k) /\ HandlerOK(k)' /\ k.txn = handler[r].txn
    <2>1. CASE MarkError(r)
      BY <1>2, <1>5, <1>7, <2>1, ErrorOK, SameRows
    <2>2. CASE Goes(r, "reject")
      BY <1>2, <1>5, <1>7, <2>2, GoesOK, SameRows, Names DEF Verifying
    <2>3. CASE Verified(r) /\ h.txn \in proved'
      <3>1. CASE h.of # NoSession
        <4>1. PICK k : k = [h EXCEPT !.step = "upgrade"]
          OBVIOUS
        <4>2. /\ k \in Handler /\ k.step = "upgrade" /\ k.txn = h.txn
              /\ k.copy = h.copy /\ k.of = h.of
          BY <4>1, Moves DEF Steps
        <4>3. h.of \in Sessions
          BY <3>1 DEF Handler, SessionId
        <4>4. HandlerOK(k)'
          BY <1>1, <1>2, <1>5, <2>3, <4>2, <4>3, Names DEF HandlerOK, CreatingOK,
             VerifyingOK, PersistOK, HeldOK, FreeOK, Settled, Creating, Verifying
        <4> QED BY <1>1, <2>3, <3>1, <4>1, <4>2, <4>4 DEF Verified, Goes
      <3>2. CASE h.of = NoSession
        BY <1>1, <1>2, <1>5, <2>3, <3>2, SatisfiedOK DEF Verified
      <3> QED BY <3>1, <3>2
    <2> QED BY <1>1, <1>3, <2>1, <2>2, <2>3 DEF VerifyChallenge, Rejected
  <1>9. \A t \in proved' : Settled(t) /\ (RowOK(t) => RowOK(t)')
    BY <1>3, <1>5, <1>7 DEF IInv, RowOK
  <1>10. \A s \in Sessions : Backed(s, session[s])'
    BY <1>5, <1>7 DEF IInv, Backed
  <1> QED
    BY <1>3, <1>4, <1>5, <1>6, <1>7, <1>8, <1>9, <1>10, RowsKeptIInv DEF IInv, TypeOK

\* What a session handler writes back is backed as what it read.
LEMMA SessionWritten ==
  ASSUME IInv, NEW s \in Sessions, NEW w \in Session, UpdateSession(s, w),
         UNCHANGED <<row, proved>>, Backed(s, w)
  PROVE  session' \in [Sessions -> Session] /\ \A u \in Sessions : Backed(u, session[u])'
  <1>1. PICK n \in Nat : n = now
    BY TransactionsAssumption DEF IInv, TypeOK, Time
  <1>2. PICK v : v = [w EXCEPT !.updated = n]
    OBVIOUS
  <1>3. v \in Session /\ v.stepUp = w.stepUp /\ v.risk = w.risk
    BY <1>2 DEF Session
  <1>4. session' = [session EXCEPT ![s] = v]
    BY <1>1, <1>2 DEF UpdateSession
  <1>5. session' \in [Sessions -> Session] /\ session'[s] = v
        /\ \A u \in Sessions \ {s} : session'[u] = session[u]
    BY <1>3, <1>4 DEF IInv, TypeOK
  <1>6. Backed(s, v)'
    BY <1>3 DEF Backed
  <1>7. \A u \in Sessions \ {s} : Backed(u, session[u])'
    BY <1>5 DEF IInv, Backed
  <1> QED BY <1>5, <1>6, <1>7

LEMMA PromoteIInv ==
  ASSUME IInv, NEW r \in Requests, Promote(r)
  PROVE  IInv'
  <1>1. PICK h \in Handler : h = handler[r] /\ HandlerOK(h)
    BY DEF IInv, TypeOK
  <1>2. handler[r].step \in Verifying /\ h.step = "promote"
    BY <1>1 DEF Promote, At, Verifying
  <1>3. /\ h.txn \in proved /\ h.of \in Sessions /\ h.of = row[h.txn].session
        /\ h.copy.tier = row[h.txn].tier /\ h.copy.tier \in Strong
    BY <1>1, <1>2 DEF HandlerOK, VerifyingOK, Verifying
  <1>4. UNCHANGED <<row, challenge, now, mishaps, proved, missed>>
    BY DEF Promote
  <1>5. PICK w \in Session : w = h.held
    BY DEF Handler
  <1>6. PICK x \in Strong : x = h.copy.tier
    BY <1>3
  <1>7. PICK v : v = [w EXCEPT !.risk = x, !.stepUp = TRUE]
    OBVIOUS
  <1>8. v \in Session /\ v.risk = x
    BY <1>7 DEF Session, Strong
  <1>9. Backed(h.of, v)
    BY <1>3, <1>6, <1>8 DEF Backed
  <1>10. session' \in [Sessions -> Session] /\ \A u \in Sessions : Backed(u, session[u])'
    <2>1. CASE UpdateSession(h.of, v)
      BY <1>3, <1>4, <1>8, <1>9, <2>1, SessionWritten
    <2>2. CASE UNCHANGED session
      BY <1>4, <2>2 DEF IInv, TypeOK, Backed
    <2> QED BY <1>1, <1>5, <1>6, <1>7, <2>1, <2>2 DEF Promote
  <1>11. \E k \in Handler : Becomes(r, k) /\ HandlerOK(k)' /\ k.txn = handler[r].txn
    BY <1>1, <1>2, <1>3, <1>4, ErrorOK, SatisfiedOK, SameRows DEF Promote
  <1>12. \A t \in proved' : Settled(t) /\ (RowOK(t) => RowOK(t)')
    BY <1>4 DEF IInv, RowOK
  <1> QED BY <1>4, <1>10, <1>11, <1>12, RowsKeptIInv DEF IInv, TypeOK

LEMMA SessionWriteIInv ==
  ASSUME IInv, NEW r \in Requests, SessionWrite(r)
  PROVE  IInv'
  <1>1. PICK h \in Handler : h = handler[r] /\ HandlerOK(h)
    BY DEF IInv, TypeOK
  <1>2. h.of \in Sessions /\ Backed(h.of, h.held)
    BY <1>1 DEF SessionWrite, HandlerOK, HeldOK
  <1>3. UNCHANGED <<row, challenge, now, mishaps, proved, missed>> /\ Becomes(r, Idle)
    BY DEF SessionWrite, Answers
  <1>4. PICK w \in Session : w = h.held
    BY DEF Handler
  <1>5. PICK v : v = [w EXCEPT !.status = "invalidated"]
    OBVIOUS
  <1>6. v \in Session /\ v.risk = w.risk /\ v.stepUp = w.stepUp
    BY <1>5 DEF Session
  <1>7. Backed(h.of, w) /\ Backed(h.of, v)
    BY <1>2, <1>4, <1>6 DEF Backed
  <1>8. session' \in [Sessions -> Session] /\ \A u \in Sessions : Backed(u, session[u])'
    <2>1. CASE UpdateSession(h.of, w)
      BY <1>2, <1>3, <1>7, <2>1, SessionWritten
    <2>2. CASE UpdateSession(h.of, v)
      BY <1>2, <1>3, <1>6, <1>7, <2>2, SessionWritten
    <2>3. CASE UNCHANGED session
      BY <1>3, <2>3 DEF IInv, TypeOK, Backed
    <2> QED BY <1>1, <1>4, <1>5, <2>1, <2>2, <2>3 DEF SessionWrite
  <1>9. Idle \in Handler /\ HandlerOK(Idle)' /\ Idle.txn = 0
    BY <1>3, Constants, IdleOK, SameRows
  <1>10. \A t \in proved' : Settled(t) /\ (RowOK(t) => RowOK(t)')
    BY <1>3 DEF IInv, RowOK
  <1> QED BY <1>3, <1>8, <1>9, <1>10, RowsKeptIInv DEF IInv, TypeOK

LEMMA SessionReadIInv ==
  ASSUME IInv, NEW r \in Requests, NEW s \in Sessions, SessionRead(r, s)
  PROVE  IInv'
  <1>1. PICK w \in Session : w = session[s] /\ Backed(s, w)
    BY DEF IInv, TypeOK
  <1>2. PICK o \in SessionId : o = s
    BY DEF SessionId
  <1>3. PICK st \in {"extend", "invalidate"} :
          Begins(r, [Idle EXCEPT !.step = st, !.held = w, !.of = o])
    BY <1>1, <1>2 DEF SessionRead
  <1>4. PICK i \in Handler : i = Idle
    BY Constants
  <1>5. PICK k : k = [i EXCEPT !.step = st, !.held = w, !.of = o]
    OBVIOUS
  <1>6. k \in Handler /\ k.step = st /\ k.txn = i.txn /\ k.held = w /\ k.of = o
    BY <1>5 DEF Handler, Steps
  <1>7. k.txn = 0
    BY <1>4, <1>6, Constants
  <1>8. Becomes(r, k) /\ mishaps' \subseteq Trouble
    BY <1>3, <1>4, <1>5, Beginnings DEF IInv
  <1>9. HandlerOK(k)
    BY <1>1, <1>2, <1>6, <1>7 DEF HandlerOK, CreatingOK, VerifyingOK, PersistOK, HeldOK,
       FreeOK, Creating, Verifying
  <1> QED BY <1>6, <1>7, <1>8, <1>9, QuietIInv DEF SessionRead, IInv, TypeOK

LEMMA StepUpVerifyIInv ==
  ASSUME IInv, NEW r \in Requests, NEW t \in Txns, NEW c \in Txns, StepUpVerify(r, t, c)
  PROVE  IInv'
  <1>1. row[t].decision = "step_up_required" /\ row[t].challenge = c /\ c = t
        /\ row[t].tier \in Strong
    BY DEF StepUpVerify, Awaits, IInv, RowOK
  <1>2. PICK b \in Row : b = row[t]
    BY DEF IInv, TypeOK
  <1>3. PICK d \in TxnId : d = c
    BY Names
  <1>4. PICK e : e = [b EXCEPT !.challenge = d]
    OBVIOUS
  <1>5. e \in Row /\ e.tier = b.tier /\ e.challenge = d /\ e.session = b.session
    BY <1>4 DEF Row
  <1>6. PICK k : k = Serving("verify", t, FALSE, e, b.session)
    OBVIOUS
  <1>7. b.session \in SessionId /\ t \in TxnId /\ "verify" \in Steps /\ t # 0
    BY Names DEF Row, Steps
  <1>8. k \in Handler /\ k.step = "verify" /\ k.txn = t /\ k.copy = e /\ k.of = b.session
    BY <1>5, <1>6, <1>7, Constants DEF Handler, Serving
  <1>9. Becomes(r, k) /\ mishaps' \subseteq Trouble
    BY <1>2, <1>3, <1>4, <1>6, Beginnings DEF StepUpVerify, IInv
  <1>10. Settled(t)
    BY <1>1 DEF Settled
  <1>11. HandlerOK(k)
    BY <1>1, <1>2, <1>3, <1>5, <1>7, <1>8, <1>10 DEF HandlerOK, CreatingOK, VerifyingOK,
       PersistOK, HeldOK, FreeOK, Creating, Verifying
  <1> QED BY <1>8, <1>9, <1>10, <1>11, QuietIInv DEF StepUpVerify, IInv, TypeOK

\* A new row has the handler that makes it, and no other.
LEMMA CreateIInv ==
  ASSUME IInv, NEW r \in Requests, NEW t \in Txns, NEW s \in SessionId, NEW step,
         NEW fresh \in BOOLEAN, Create(r, t, s, step, fresh),
         step = "risk" \/ (step = "session" /\ s \in Sessions),
         UNCHANGED <<session, challenge, now, proved, missed>>
  PROVE  IInv'
  <1>1. PICK n \in Row : n = NoRow
    BY Constants
  <1>2. PICK e : e = [n EXCEPT !.decision = "pending", !.session = s]
    OBVIOUS
  <1>3. e \in Row /\ e.decision = "pending" /\ e.session = s
    BY <1>2 DEF Row, Decisions
  <1>4. row[t].decision = "unborn" /\ row' = [row EXCEPT ![t] = e]
        /\ Begins(r, Serving(step, t, fresh, e, s))
    BY <1>1, <1>2 DEF Create
  <1>5. PICK k : k = Serving(step, t, fresh, e, s)
    OBVIOUS
  <1>6. t \in TxnId /\ step \in Steps /\ t # 0
    BY Names DEF Steps
  <1>7. k \in Handler /\ k.step = step /\ k.txn = t /\ k.copy = e /\ k.of = s
    BY <1>3, <1>5, <1>6, Servings
  <1>8. Becomes(r, k) /\ mishaps' \subseteq Trouble
    BY <1>4, <1>5, Beginnings DEF IInv
  <1>9. row' \in [Txns -> Row] /\ row'[t] = e /\ \A u \in Txns \ {t} : row'[u] = row[u]
    BY <1>3, <1>4 DEF IInv, TypeOK
  <1>10. \A u \in Txns : Settled(u) => Kept(u)
    BY <1>4, <1>9 DEF Settled, Kept
  <1>11. t \notin proved
    BY <1>4 DEF IInv, Settled
  <1>12. \A u \in proved' : Settled(u)'
    BY <1>10 DEF IInv, TypeOK, Kept
  <1>13. \A u \in Txns : RowOK(u)'
    BY <1>3, <1>9 DEF IInv, RowOK
  <1>14. \A q \in Requests : handler[q].txn # t
    BY <1>4, <1>6 DEF IInv, HandlerOK, FreeOK
  <1>15. HandlerOK(k)'
    BY <1>3, <1>6, <1>7, <1>9 DEF HandlerOK, CreatingOK, VerifyingOK, PersistOK, HeldOK,
       FreeOK, Creating, Verifying
  <1>16. \A u \in proved : Kept(u)
    BY <1>10 DEF IInv, TypeOK
  <1>17. \A u \in Sessions : Backed(u, session[u])'
    BY <1>16, BackedKept DEF IInv, Backed, Kept
  <1> QED
    BY <1>4, <1>7, <1>8, <1>9, <1>10, <1>12, <1>13, <1>14, <1>15, <1>17, StepIInv
    DEF IInv, TypeOK

\* A step that ends the request and writes row e of its transaction.
LEMMA RowWritten ==
  ASSUME IInv, NEW r \in Requests, Becomes(r, Idle),
         NEW t \in Txns, t = handler[r].txn,
         NEW e \in Row, row' = [row EXCEPT ![t] = e],
         UNCHANGED <<session, challenge, now, proved, missed>>, mishaps' \subseteq Trouble,
         Settled(t) => Kept(t), RowOK(t)'
  PROVE  IInv'
  <1>2. row' \in [Txns -> Row] /\ row'[t] = e /\ \A u \in Txns \ {t} : row'[u] = row[u]
    BY DEF IInv, TypeOK
  <1>3. \A u \in Txns : Settled(u) => Kept(u)
    BY <1>2 DEF Settled, Kept
  <1>4. \A u \in Txns : RowOK(u)'
    BY <1>2 DEF IInv, RowOK
  <1>5. \A u \in proved : Kept(u)
    BY <1>3 DEF IInv, TypeOK
  <1>6. \A u \in proved' : Settled(u)'
    BY <1>5 DEF Kept
  <1>7. \A u \in Sessions : Backed(u, session[u])'
    BY <1>5, BackedKept DEF IInv, Backed, Kept
  <1>8. PICK k \in Handler : k = Idle /\ k.txn = 0 /\ k.step = "idle"
    BY Constants
  <1>9. HandlerOK(k)'
    BY <1>8 DEF HandlerOK, CreatingOK, VerifyingOK, PersistOK, HeldOK, FreeOK, Creating,
       Verifying
  <1> QED
    BY <1>2, <1>3, <1>4, <1>6, <1>7, <1>8, <1>9, StepIInv DEF IInv, TypeOK

\* A step that ends the request, and no more.
LEMMA IdleIInv ==
  ASSUME IInv, NEW r \in Requests, Becomes(r, Idle), mishaps' \subseteq Trouble,
         UNCHANGED <<row, session, challenge, now, proved, missed>>
  PROVE  IInv'
  BY Constants, IdleOK, QuietIInv DEF IInv, TypeOK

LEMMA PersistIInv ==
  ASSUME IInv, NEW r \in Requests, Persist(r)
  PROVE  IInv'
  <1>1. PICK h \in Handler : h = handler[r] /\ HandlerOK(h)
    BY DEF IInv, TypeOK
  <1>2. h.step = "persist" /\ Becomes(r, Idle)
        /\ UNCHANGED <<session, challenge, now, proved, missed>>
    BY <1>1 DEF Persist, At, Answers
  <1>3. CASE row' = [row EXCEPT ![h.txn] = h.copy] /\ UNCHANGED mishaps
    <2>1. PICK e \in Row : e = h.copy
      BY DEF Handler
    <2>2. PICK t \in Txns : t = h.txn
      BY <1>1, <1>2 DEF HandlerOK, PersistOK
    <2>3. row'[t] = e
      BY <1>3, <2>1, <2>2 DEF IInv, TypeOK
    <2>4. e.session = row[t].session /\ row[t].decision # "unborn"
      BY <1>1, <1>2, <2>1, <2>2 DEF HandlerOK, PersistOK
    <2>5. CASE Settled(t)
      <3>1. /\ e.decision \in {"step_up_satisfied", "error"}
            /\ e.decision = "step_up_satisfied" => t \in proved
            /\ row[t].challenge = t /\ row[t].tier \in Strong
            /\ e.challenge = t /\ e.tier = row[t].tier
        BY <1>1, <1>2, <2>1, <2>2, <2>5 DEF HandlerOK, PersistOK
      <3>2. Kept(t) /\ RowOK(t)'
        BY <1>2, <2>3, <2>4, <3>1 DEF Kept, Settled, RowOK
      <3> QED BY <1>1, <1>2, <1>3, <2>1, <2>2, <3>2, RowWritten DEF IInv, TypeOK
    <2>6. CASE row[t].decision = "pending"
      <3>1. /\ e.decision \in {"allow", "deny", "error", "step_up_required"}
            /\ e.decision = "allow" => e.tier \in {"low", "medium"}
            /\ e.decision = "step_up_required" => e.tier \in Strong /\ e.challenge = t
        BY <1>1, <1>2, <2>1, <2>2, <2>6 DEF HandlerOK, PersistOK
      <3>2. RowOK(t)' /\ ~Settled(t)
        BY <2>3, <2>6, <3>1 DEF RowOK, Settled
      <3> QED BY <1>1, <1>2, <1>3, <2>1, <2>2, <3>2, RowWritten DEF IInv, TypeOK
    <2> QED BY <2>4, <2>5, <2>6 DEF Settled
  <1>4. CASE Suffer("store") /\ UNCHANGED row
    BY <1>2, <1>4, Troubles, IdleIInv DEF IInv, Trouble
  <1> QED BY <1>1, <1>3, <1>4 DEF Persist

LEMMA RejectIInv ==
  ASSUME IInv, NEW r \in Requests, Reject(r)
  PROVE  IInv'
  <1>1. PICK h \in Handler : h = handler[r] /\ HandlerOK(h)
    BY DEF IInv, TypeOK
  <1>2. h.step = "reject" /\ Becomes(r, Idle)
        /\ UNCHANGED <<session, challenge, now, proved, missed>>
    BY <1>1 DEF Reject, At, Answers
  <1>3. CASE AppendHistory(r) /\ UNCHANGED mishaps
    <2>1. PICK t \in Txns : t = h.txn /\ Settled(t)
      BY <1>1, <1>2 DEF HandlerOK, VerifyingOK, Verifying
    <2>2. PICK b \in Row : b = row[t]
      BY DEF IInv, TypeOK
    <2>3. PICK e : e = [b EXCEPT !.rejections = @ + 1]
      OBVIOUS
    <2>4. /\ e \in Row /\ e.decision = b.decision /\ e.tier = b.tier
          /\ e.challenge = b.challenge /\ e.session = b.session
      BY <2>3 DEF Row
    <2>5. row' = [row EXCEPT ![t] = e]
      BY <1>1, <1>3, <2>1, <2>2, <2>3 DEF AppendHistory, IInv, TypeOK
    <2>6. row'[t] = e
      BY <2>5 DEF IInv, TypeOK
    <2>7. Kept(t) /\ RowOK(t)'
      BY <1>2, <2>1, <2>2, <2>4, <2>6 DEF Kept, Settled, RowOK, IInv
    <2> QED BY <1>1, <1>2, <1>3, <2>1, <2>4, <2>5, <2>7, RowWritten DEF IInv, TypeOK
  <1>4. CASE Suffer("store") /\ UNCHANGED row
    BY <1>2, <1>4, Troubles, IdleIInv DEF IInv, Trouble
  <1> QED BY <1>3, <1>4 DEF Reject

LEMMA CrashIInv ==
  ASSUME IInv, NEW r \in Requests, Crash(r)
  PROVE  IInv'
  BY Troubles, IdleIInv DEF Crash, Answers, IInv, Trouble

LEMMA PurgeSessionIInv ==
  ASSUME IInv, NEW s \in Sessions, PurgeSession(s)
  PROVE  IInv'
  <1>1. PICK w \in Session : w = session[s]
    BY DEF IInv, TypeOK
  <1>2. PICK v : v = [w EXCEPT !.status = "gone"]
    OBVIOUS
  <1>3. v \in Session /\ v.risk = w.risk /\ v.stepUp = w.stepUp
    BY <1>2 DEF Session
  <1>4. session' = [session EXCEPT ![s] = v]
        /\ UNCHANGED <<row, challenge, handler, now, mishaps, proved, missed>>
    BY <1>1, <1>2 DEF PurgeSession, IInv, TypeOK
  <1>5. session' \in [Sessions -> Session] /\ session'[s] = v
        /\ \A u \in Sessions \ {s} : session'[u] = session[u]
    BY <1>3, <1>4 DEF IInv, TypeOK
  <1>6. TypeOK'
    BY <1>4, <1>5 DEF IInv, TypeOK
  <1>7. \A r \in Requests : HandlerOK(handler[r])'
    BY <1>4, SameRows DEF IInv
  <1>8. \A u \in Sessions : Backed(u, session[u])'
    BY <1>1, <1>3, <1>4, <1>5 DEF IInv, Backed
  <1>9. (\A t \in Txns : RowOK(t)') /\ (\A t \in proved' : Settled(t)') /\ Alone'
    BY <1>4 DEF IInv, RowOK, Settled, Alone
  <1> QED BY <1>6, <1>7, <1>8, <1>9 DEF IInv

LEMMA TickIInv ==
  ASSUME IInv, UNCHANGED <<row, session, challenge, handler, mishaps, proved, missed>>,
         Tick \/ UNCHANGED now
  PROVE  IInv'
  <1>1. TypeOK'
    BY TransactionsAssumption DEF IInv, TypeOK, Tick, Time
  <1>2. \A r \in Requests : HandlerOK(handler[r])'
    BY SameRows DEF IInv
  <1>3. /\ \A t \in Txns : RowOK(t)'
        /\ \A t \in proved' : Settled(t)'
        /\ Alone'
        /\ \A u \in Sessions : Backed(u, session[u])'
    BY DEF IInv, RowOK, Settled, Alone, Backed
  <1> QED BY <1>1, <1>2, <1>3 DEF IInv

-----------------------------------------------------------------------------
(* The theorems.                                                           *)

LEMMA InitIInv ==
  ASSUME Init PROVE IInv
  <1>1. \A risk \in LoginRisks : Login(risk) \in Session /\ ~Login(risk).stepUp
    BY TransactionsAssumption DEF Login, Session
  <1>2. TypeOK
    <2>1. row \in [Txns -> Row] /\ handler \in [Requests -> Handler]
      BY Constants DEF Init
    <2>2. session \in [Sessions -> Session]
      BY <1>1 DEF Init
    <2>3. now \in Time
      BY TransactionsAssumption DEF Init, Time
    <2>4. challenge \in [Txns -> {"unborn", "pending", "failed", "completed"}]
          /\ missed \in [Txns -> Nat]
      BY DEF Init
    <2> QED BY <2>1, <2>2, <2>3, <2>4 DEF Init, TypeOK
  <1>3. \A r \in Requests : HandlerOK(handler[r])
    BY IdleOK DEF Init
  <1>4. \A t \in Txns : RowOK(t)
    BY Constants DEF Init, RowOK
  <1>5. Alone
    BY Constants DEF Init, Alone
  <1>6. \A s \in Sessions : Backed(s, session[s])
    BY <1>1 DEF Init, Backed
  <1> QED BY <1>2, <1>3, <1>4, <1>5, <1>6 DEF IInv, Init

LEMMA NextIInv ==
  ASSUME IInv, [Next]_vars PROVE IInv'
  <1>1. ASSUME NEW r \in Requests, NEW t \in Txns, NEW s \in SessionId, Advice(r, t, s)
        PROVE  IInv'
    BY <1>1, CreateIInv DEF Advice
  <1>2. ASSUME NEW r \in Requests, NEW t \in Txns, NEW s \in Sessions, NEW fresh \in BOOLEAN,
               Authorize(r, t, s, fresh)
        PROVE  IInv'
    <2>1. s \in SessionId
      BY DEF SessionId
    <2> QED BY <1>2, <2>1, CreateIInv DEF Authorize
  <1>3. ASSUME NEW r \in Requests, Step(r) PROVE IInv'
    <2>1. CASE AdviceRisk(r)
      BY <2>1, AdviceRiskIInv
    <2>2. CASE CreateChallenge(r)
      BY <2>2, CreateChallengeIInv
    <2>3. CASE VerifyGate(r)
      BY <2>3, VerifyGateIInv
    <2>4. CASE VerifyChallenge(r)
      BY <2>4, VerifyChallengeIInv
    <2>5. CASE Reject(r)
      BY <2>5, RejectIInv
    <2>6. CASE Upgrade(r)
      BY <2>6, UpgradeIInv
    <2>7. CASE Promote(r)
      BY <2>7, PromoteIInv
    <2>8. CASE GetSession(r)
      BY <2>8, GetSessionIInv
    <2>9. CASE Reevaluate(r)
      BY <2>9, ReevaluateIInv
    <2>10. CASE Persist(r)
      BY <2>10, PersistIInv
    <2>11. CASE SessionWrite(r)
      BY <2>11, SessionWriteIInv
    <2> QED
      BY <1>3, <2>1, <2>2, <2>3, <2>4, <2>5, <2>6, <2>7, <2>8, <2>9, <2>10, <2>11 DEF Step
  <1>4. ASSUME NEW r \in Requests, NEW s \in Sessions, SessionRead(r, s) PROVE IInv'
    BY <1>4, SessionReadIInv
  <1>5. ASSUME NEW r \in Requests, NEW t \in Txns, NEW c \in Txns, StepUpVerify(r, t, c)
        PROVE  IInv'
    BY <1>5, StepUpVerifyIInv
  <1>6. CASE Tick
    BY <1>6, TickIInv DEF Tick
  <1>7. CASE UNCHANGED vars
    BY <1>7, TickIInv DEF vars
  <1> QED
    BY <1>1, <1>2, <1>3, <1>4, <1>5, <1>6, <1>7, CrashIInv, PurgeSessionIInv DEF Next

\* IInv is an invariant.
THEOREM Invariance == Spec => []IInv
  BY InitIInv, NextIInv, PTL DEF Spec

\* Tables and the copies in hand keep their shape.
THEOREM TypeCorrect == Spec => []TypeOK
  <1>1. IInv => TypeOK
    BY DEF IInv
  <1> QED BY <1>1, Invariance, PTL

\* However many handlers overlap, crash or lose an answer, a step-up recorded
\* as satisfied was proved by its own challenge (stepup.go:75), and an allow
\* rests on a tier of low or medium (authorize.go:83).
THEOREM Grounded == Spec => []DecisionsGrounded
  <1>1. IInv => DecisionsGrounded
    BY DEF IInv, RowOK, Strong, DecisionsGrounded
  <1> QED BY <1>1, Invariance, PTL

\* A session marked as stepped up has a proved transaction of its own behind
\* it, in spite of the whole-row writes that race the upgrade (session_risk.go).
THEOREM Promoted == Spec => []PromotedByProof
  <1>1. IInv => PromotedByProof
    BY DEF IInv, Backed, PromotedByProof
  <1> QED BY <1>1, Invariance, PTL

-----------------------------------------------------------------------------
(* Decisions are final.  Who holds a settled transaction verifies its      *)
(* step-up: it has not been allowed or denied, and as long as requests do  *)
(* not overlap it still waits for the step-up.                             *)

OneByOne == "overlap" \notin mishaps

LastWord(h) ==
  /\ h.step = "idle" => h.txn = 0
  /\ h.txn # 0 /\ Settled(h.txn) =>
       /\ row[h.txn].decision \in {"step_up_required", "step_up_satisfied", "error"}
       /\ OneByOne => row[h.txn].decision = "step_up_required"

FInv ==
  /\ IInv
  /\ \A r \in Requests : LastWord(handler[r])
  /\ OneByOne => \A q, r \in Requests : Busy(q) /\ Busy(r) => q = r

\* Request r goes on with its transaction, or is over.
Onward(r) ==
  /\ \A q \in Requests : q # r => handler'[q] = handler[q]
  /\ \/ handler'[r] = Idle
     \/ /\ handler'[r].step # "idle" /\ handler'[r].txn = handler[r].txn
        /\ handler'[r].copy.rejections = handler[r].copy.rejections

\* No update of a copy touches its history.
LEMMA HistoryCopied ==
  ASSUME NEW c \in Row
  PROVE  /\ \A d : [c EXCEPT !.decision = d].rejections = c.rejections
         /\ \A u : [c EXCEPT !.tier = u].rejections = c.rejections
         /\ \A d, u : [c EXCEPT !.tier = u, !.decision = d].rejections = c.rejections
         /\ \A d, u : [c EXCEPT !.decision = d, !.challenge = u].rejections = c.rejections
  <1>1. ASSUME NEW d, NEW u
        PROVE  [c EXCEPT !.tier = u, !.decision = d].rejections = c.rejections
    <2>1. PICK b : b = [c EXCEPT !.tier = u, !.decision = d]
      OBVIOUS
    <2>2. b.rejections = c.rejections
      BY <2>1 DEF Row
    <2> QED BY <2>1, <2>2
  <1>2. ASSUME NEW d, NEW u
        PROVE  [c EXCEPT !.decision = d, !.challenge = u].rejections = c.rejections
    <2>1. PICK b : b = [c EXCEPT !.decision = d, !.challenge = u]
      OBVIOUS
    <2>2. b.rejections = c.rejections
      BY <2>1 DEF Row
    <2> QED BY <2>1, <2>2
  <1>3. \A d : [c EXCEPT !.decision = d].rejections = c.rejections
    BY DEF Row
  <1>4. \A u : [c EXCEPT !.tier = u].rejections = c.rejections
    BY DEF Row
  <1> QED BY <1>1, <1>2, <1>3, <1>4

\* The moves a step of a request is made of.
LEMMA MovesGoOn ==
  ASSUME IInv, NEW r \in Requests
  PROVE  /\ Answers(r) => Onward(r)
         /\ \A s \in Steps \ {"idle"} : Goes(r, s) => Onward(r)
         /\ \A c : Decides(r, c) /\ c.rejections = handler[r].copy.rejections => Onward(r)
         /\ MarkError(r) => Onward(r)
         /\ \A s, w : ReadSession(r, s, w) /\ w \in Steps \ {"idle"} => Onward(r)
  <1>1. handler \in [Requests -> Handler]
    BY DEF IInv, TypeOK
  <1>2. Answers(r) => Onward(r)
    BY <1>1 DEF Answers, Becomes, Onward
  <1>3. ASSUME NEW s \in Steps \ {"idle"}, Goes(r, s) PROVE Onward(r)
    BY <1>1, <1>3, Moves DEF Goes, Becomes, Onward
  <1>4. ASSUME NEW c, Decides(r, c), c.rejections = handler[r].copy.rejections
        PROVE  Onward(r)
    <2>1. PICK k : k = Serving("persist", handler[r].txn, FALSE, c, NoSession)
      OBVIOUS
    <2>2. k.step = "persist" /\ k.txn = handler[r].txn /\ k.copy = c
      BY <2>1 DEF Serving
    <2>3. handler' = [handler EXCEPT ![r] = k]
      BY <1>4, <2>1 DEF Decides, Becomes
    <2> QED BY <1>1, <1>4, <2>2, <2>3 DEF Onward
  <1>5. MarkError(r) => Onward(r)
    BY <1>1, <1>4, HistoryCopied DEF MarkError, Handler
  <1>6. ASSUME NEW s, NEW w \in Steps \ {"idle"}, ReadSession(r, s, w) PROVE Onward(r)
    <2>1. PICK g \in Handler : g = handler[r]
      BY <1>1
    <2>2. PICK k : k = [g EXCEPT !.step = w, !.held = session[s]]
      OBVIOUS
    <2>3. k.step = w /\ k.txn = g.txn /\ k.copy = g.copy
      BY <2>2 DEF Handler
    <2>4. handler' = [handler EXCEPT ![r] = k]
      BY <1>6, <2>1, <2>2 DEF ReadSession, Becomes
    <2> QED BY <1>1, <2>1, <2>3, <2>4 DEF Onward
  <1> QED BY <1>2, <1>3, <1>4, <1>5, <1>6

\* A step or a crash goes on with the transaction, or ends the request.
LEMMA StepsGoOn ==
  ASSUME IInv, NEW r \in Requests, Step(r) \/ Crash(r)
  PROVE  Busy(r) /\ Onward(r) /\ mishaps \subseteq mishaps'
  <1>0. {"challenge", "answer", "reject", "upgrade", "promote", "reevaluate", "persist"}
          \subseteq Steps \ {"idle"}
    BY DEF Steps
  <1>7. PICK b \in Row : b = handler[r].copy
    BY DEF IInv, TypeOK, Handler
  <1>1. Busy(r)
    BY DEF Step, Busy, At, AdviceRisk, CreateChallenge, VerifyGate, VerifyChallenge, Reject,
       Upgrade, Promote, GetSession, Reevaluate, Persist, SessionWrite, Crash
  <1>2. mishaps \subseteq mishaps'
    BY DEF Step, Suffer, AdviceRisk, CreateChallenge, VerifyGate, VerifyChallenge, Reject,
       Upgrade, Promote, GetSession, Reevaluate, Persist, SessionWrite, Crash
  <1>3. CASE Reject(r) \/ Persist(r) \/ SessionWrite(r) \/ Crash(r)
    BY <1>1, <1>2, <1>3, MovesGoOn DEF Reject, Persist, SessionWrite, Crash
  <1>8. /\ Satisfied(r) => Onward(r)
        /\ \A u : Judged(r, u) => Onward(r)
    BY <1>7, MovesGoOn, HistoryCopied DEF Satisfied, Judged
  <1>4. CASE CreateChallenge(r) \/ Promote(r) \/ Reevaluate(r)
    <2>1. \/ MarkError(r) \/ Satisfied(r) \/ \E u : Judged(r, u)
          \/ Decides(r, [b EXCEPT !.decision = "step_up_required", !.challenge = handler[r].txn])
      BY <1>4, <1>7, Zenon DEF CreateChallenge, Promote, Reevaluate
    <2>2. ASSUME NEW u, Decides(r, [b EXCEPT !.decision = "step_up_required", !.challenge = u])
          PROVE  Onward(r)
      <3>1. PICK c : c = [b EXCEPT !.decision = "step_up_required", !.challenge = u]
        OBVIOUS
      <3>2. c.rejections = b.rejections /\ Decides(r, c)
        BY <2>2, <3>1, HistoryCopied
      <3> QED BY <1>7, <3>2, MovesGoOn
    <2> QED BY <1>1, <1>2, <1>8, <2>1, <2>2, MovesGoOn
  <1>5. CASE VerifyGate(r) \/ VerifyChallenge(r) \/ Upgrade(r) \/ GetSession(r)
    BY <1>0, <1>1, <1>2, <1>5, <1>8, MovesGoOn DEF VerifyGate, VerifyChallenge, Verified,
       Rejected, Upgrade, GetSession
  <1>6. CASE AdviceRisk(r)
    <2>1. \/ MarkError(r)
          \/ \E d, u : Decides(r, [b EXCEPT !.tier = u, !.decision = d])
          \/ \E tier \in {"medium", "high"} :
               Becomes(r, [handler[r] EXCEPT !.step = "challenge",
                             !.copy = [b EXCEPT !.tier = tier]])
      BY <1>6, <1>7, Zenon DEF AdviceRisk
    <2>2. ASSUME NEW c, c.rejections = b.rejections,
                 Becomes(r, [handler[r] EXCEPT !.step = "challenge", !.copy = c])
          PROVE  Onward(r)
      <3>1. PICK g \in Handler : g = handler[r]
        BY DEF IInv, TypeOK
      <3>2. PICK k : k = [g EXCEPT !.step = "challenge", !.copy = c]
        OBVIOUS
      <3>3. k.step = "challenge" /\ k.txn = g.txn /\ k.copy = c
        BY <3>2 DEF Handler
      <3>4. handler' = [handler EXCEPT ![r] = k]
        BY <2>2, <3>1, <3>2 DEF Becomes
      <3> QED BY <1>7, <2>2, <3>1, <3>3, <3>4 DEF Onward, IInv, TypeOK
    <2>3. ASSUME NEW d, NEW u, Decides(r, [b EXCEPT !.tier = u, !.decision = d])
          PROVE  Onward(r)
      <3>1. PICK c : c = [b EXCEPT !.tier = u, !.decision = d]
        OBVIOUS
      <3>2. c.rejections = b.rejections /\ Decides(r, c)
        BY <2>3, <3>1, HistoryCopied
      <3> QED BY <1>7, <3>2, MovesGoOn
    <2>4. ASSUME NEW tier,
                 Becomes(r, [handler[r] EXCEPT !.step = "challenge",
                               !.copy = [b EXCEPT !.tier = tier]])
          PROVE  Onward(r)
      <3>1. PICK c : c = [b EXCEPT !.tier = tier]
        OBVIOUS
      <3>2. c.rejections = b.rejections
        BY <3>1, HistoryCopied
      <3> QED BY <2>2, <2>4, <3>1, <3>2
    <2> QED BY <1>1, <1>2, <2>1, <2>3, <2>4, MovesGoOn
  <1> QED BY <1>3, <1>4, <1>5, <1>6 DEF Step

\* A row's decision changes only by the last step of a request, to its copy's.
LEMMA DecisionsByPersist ==
  ASSUME IInv, NEW r \in Requests, Step(r) \/ Crash(r), NEW t \in Txns,
         row'[t].decision # row[t].decision
  PROVE  /\ At(r, "persist") /\ handler[r].txn = t /\ handler'[r] = Idle
         /\ row'[t].decision = handler[r].copy.decision
  <1>1. CASE Persist(r)
    BY <1>1 DEF Persist, Answers, Becomes, IInv, TypeOK
  <1>2. CASE Reject(r)
    BY <1>2 DEF Reject, AppendHistory, IInv, TypeOK, Row
  <1>3. CASE ~Persist(r) /\ ~Reject(r)
    BY <1>3 DEF Step, AdviceRisk, CreateChallenge, VerifyGate, VerifyChallenge, Upgrade,
       Promote, GetSession, Reevaluate, SessionWrite, Crash
  <1> QED BY <1>1, <1>2, <1>3

\* What the last step writes over a settled row.
LEMMA LastWordWritten ==
  ASSUME FInv, NEW r \in Requests, Step(r) \/ Crash(r), NEW t \in Txns, Settled(t),
         row'[t].decision # row[t].decision
  PROVE  /\ row[t].decision \in {"step_up_required", "step_up_satisfied", "error"}
         /\ row'[t].decision \in {"step_up_satisfied", "error"}
         /\ OneByOne => row[t].decision = "step_up_required"
         /\ handler[r].txn = t /\ handler'[r] = Idle
  <1>1. /\ At(r, "persist") /\ handler[r].txn = t /\ handler'[r] = Idle
        /\ row'[t].decision = handler[r].copy.decision
    BY DecisionsByPersist DEF FInv
  <1>2. t # 0
    BY Names
  <1>3. handler[r].copy.decision \in {"step_up_satisfied", "error"}
    BY <1>1 DEF FInv, IInv, HandlerOK, PersistOK, At
  <1> QED BY <1>1, <1>2, <1>3 DEF FInv, LastWord

\* Steps keep the last word with the one request that has it.
LEMMA StepFInv ==
  ASSUME FInv, NEW r \in Requests, Step(r) \/ Crash(r)
  PROVE  /\ \A q \in Requests : LastWord(handler[q])'
         /\ OneByOne' => \A p, q \in Requests : Busy(p)' /\ Busy(q)' => p = q
  <1>1. Busy(r) /\ Onward(r) /\ mishaps \subseteq mishaps' /\ IInv
    BY StepsGoOn DEF FInv
  <1>2. OneByOne' => /\ \A q \in Requests : q # r => ~Busy(q)
                     /\ \A p, q \in Requests : Busy(p)' /\ Busy(q)' => p = q
    BY <1>1 DEF FInv, OneByOne, Busy, Onward
  <1>3. LastWord(Idle)'
    BY Constants DEF LastWord
  <1>4. ASSUME NEW q \in Requests PROVE LastWord(handler[q])'
    <2>1. PICK h \in Handler : h = handler[q] /\ LastWord(h) /\ HandlerOK(h)
      BY <1>1 DEF IInv, TypeOK, FInv
    <2>2. h.txn # 0 => h.txn \in Txns /\ row[h.txn].decision # "unborn"
      BY <2>1 DEF HandlerOK, FreeOK, Handler, TxnId, Txns
    <2>3. CASE q = r
      <3>1. CASE handler'[r] = Idle
        BY <1>3, <2>3, <3>1 DEF LastWord, Settled
      <3>2. CASE handler'[r].step # "idle" /\ handler'[r].txn = h.txn
        <4>1. Idle.step = "idle"
          BY Constants
        <4>2. h.txn # 0 => row'[h.txn].decision = row[h.txn].decision
          BY <1>1, <2>1, <2>2, <2>3, <3>2, <4>1, DecisionsByPersist
        <4> QED BY <1>1, <2>1, <2>3, <3>2, <4>2 DEF LastWord, Settled, OneByOne
      <3> QED BY <1>1, <2>1, <2>3, <3>1, <3>2 DEF Onward
    <2>4. CASE q # r
      <3>1. handler'[q] = h /\ (OneByOne' => h.txn = 0)
        BY <1>1, <1>2, <2>1, <2>4 DEF Onward, LastWord, Busy
      <3>2. CASE h.txn = 0
        BY <2>1, <3>1, <3>2 DEF LastWord
      <3>3. CASE h.txn # 0 /\ row'[h.txn].decision = row[h.txn].decision
        BY <2>1, <3>1, <3>3 DEF LastWord, Settled
      <3>4. CASE h.txn # 0 /\ row'[h.txn].decision # row[h.txn].decision
        <4>1. handler[r].txn = h.txn
          BY <1>1, <2>2, <3>4, DecisionsByPersist
        <4>2. Settled(h.txn)
          BY <1>1, <2>1, <2>4, <3>4, <4>1 DEF IInv, Alone
        <4> QED BY <2>1, <2>2, <3>1, <3>4, <4>2, LastWordWritten DEF LastWord, Settled
      <3> QED BY <3>2, <3>3, <3>4
    <2> QED BY <2>3, <2>4
  <1> QED BY <1>2, <1>4

\* A request begins with a row that waits for it, or with none.
LEMMA BeginFInv ==
  ASSUME FInv, NEW r \in Requests, NEW k \in Handler, Begins(r, k), k.step # "idle",
         \A t \in Txns : row'[t] = row[t] \/ row[t].decision = "unborn",
         k.txn = 0 \/ (k.txn \in Txns /\ row'[k.txn].decision \in {"pending", "step_up_required"})
  PROVE  /\ \A q \in Requests : LastWord(handler[q])'
         /\ OneByOne' => \A p, q \in Requests : Busy(p)' /\ Busy(q)' => p = q
  <1>1. /\ IInv /\ handler \in [Requests -> Handler]
        /\ handler'[r] = k /\ mishaps \subseteq mishaps'
        /\ \A q \in Requests : q # r => handler'[q] = handler[q]
    BY DEF FInv, IInv, TypeOK, Begins, Becomes, Suffer
  <1>2. OneByOne' => OneByOne /\ \A q \in Requests : ~Busy(q)
    BY <1>1 DEF Begins, OneByOne, Suffer
  <1>3. ASSUME NEW q \in Requests PROVE LastWord(handler[q])'
    <2>1. CASE q = r
      BY <1>1, <2>1 DEF LastWord, Settled
    <2>2. CASE q # r
      <3>1. PICK h \in Handler : h = handler[q] /\ LastWord(h) /\ HandlerOK(h)
        BY <1>1 DEF IInv, FInv
      <3>2. h.txn # 0 => h.txn \in Txns /\ row'[h.txn] = row[h.txn]
        BY <3>1 DEF HandlerOK, FreeOK, Handler, TxnId, Txns
      <3> QED BY <1>1, <1>2, <2>2, <3>1, <3>2 DEF LastWord, Settled
    <2> QED BY <2>1, <2>2
  <1> QED BY <1>1, <1>2, <1>3 DEF Busy

\* Every step of the system keeps it.
LEMMA NextFInv == FInv /\ [Next]_vars => FInv'
  <1> SUFFICES ASSUME FInv, [Next]_vars PROVE FInv'
    OBVIOUS
  <1>1. IInv /\ IInv'
    BY NextIInv DEF FInv
  <1>2. CASE \E r \in Requests : Step(r) \/ Crash(r)
    BY <1>1, <1>2, StepFInv DEF FInv
  <1>3. ASSUME NEW r \in Requests, NEW t \in Txns, NEW s \in SessionId,
               NEW step \in {"risk", "session"}, NEW fresh \in BOOLEAN, Create(r, t, s, step, fresh)
        PROVE  FInv'
    <2>1. PICK n \in Row : n = NoRow
      BY Constants
    <2>2. PICK e : e = [n EXCEPT !.decision = "pending", !.session = s]
      OBVIOUS
    <2>3. e \in Row /\ e.decision = "pending"
      BY <2>2 DEF Row, Decisions
    <2>4. row[t].decision = "unborn" /\ row' = [row EXCEPT ![t] = e]
          /\ Begins(r, Serving(step, t, fresh, e, s))
      BY <1>3, <2>1, <2>2 DEF Create
    <2>5. PICK k : k = Serving(step, t, fresh, e, s)
      OBVIOUS
    <2>6. k \in Handler /\ k.step = step /\ k.txn = t
      BY <2>3, <2>5, Servings, Names DEF Steps
    <2>7. row'[t].decision = "pending" /\ \A u \in Txns : u # t => row'[u] = row[u]
      BY <1>1, <2>3, <2>4 DEF IInv, TypeOK
    <2> QED BY <1>1, <2>4, <2>5, <2>6, <2>7, BeginFInv DEF FInv
  <1>4. CASE \E r \in Requests, t \in Txns :
               \/ \E s \in SessionId : Advice(r, t, s)
               \/ \E s \in Sessions, fresh \in BOOLEAN : Authorize(r, t, s, fresh)
    BY <1>3, <1>4 DEF Advice, Authorize, SessionId
  <1>5. ASSUME NEW r \in Requests, NEW t \in Txns, NEW c \in Txns, StepUpVerify(r, t, c)
        PROVE  FInv'
    <2>1. PICK b \in Row : b = row[t]
      BY <1>1 DEF IInv, TypeOK
    <2>2. PICK e : e = [b EXCEPT !.challenge = c]
      OBVIOUS
    <2>3. e \in Row /\ b.session \in SessionId
      BY <2>2, Names DEF Row
    <2>4. PICK k : k = Serving("verify", t, FALSE, e, b.session)
      OBVIOUS
    <2>5. k \in Handler /\ k.step = "verify" /\ k.txn = t
      BY <2>3, <2>4, Constants, Names DEF Steps, Handler, Serving
    <2>6. Begins(r, k) /\ row[t].decision = "step_up_required" /\ row' = row
      BY <1>5, <2>1, <2>2, <2>4 DEF StepUpVerify, Awaits
    <2> QED BY <1>1, <2>5, <2>6, BeginFInv DEF FInv
  <1>6. ASSUME NEW r \in Requests, NEW s \in Sessions, SessionRead(r, s)
        PROVE  FInv'
    <2>1. PICK w \in Session : w = session[s]
      BY <1>1 DEF IInv, TypeOK
    <2>2. PICK o \in SessionId : o = s
      BY DEF SessionId
    <2>3. PICK st \in {"extend", "invalidate"} :
            Begins(r, [Idle EXCEPT !.step = st, !.held = w, !.of = o])
      BY <1>6, <2>1, <2>2 DEF SessionRead
    <2>4. PICK i \in Handler : i = Idle
      BY Constants
    <2>5. PICK k : k = [i EXCEPT !.step = st, !.held = w, !.of = o]
      OBVIOUS
    <2>6. k \in Handler /\ k.step = st /\ k.txn = i.txn
      BY <2>5 DEF Handler, Steps
    <2>7. k.txn = 0 /\ Begins(r, k)
      BY <2>3, <2>4, <2>5, <2>6, Constants
    <2> QED BY <1>1, <1>6, <2>6, <2>7, BeginFInv DEF SessionRead, FInv
  <1>7. CASE Tick \/ UNCHANGED vars \/ \E s \in Sessions : PurgeSession(s)
    <2>1. UNCHANGED <<row, handler, mishaps>>
      BY <1>7 DEF Tick, vars, PurgeSession
    <2>2. \A q \in Requests : LastWord(handler[q])'
      BY <2>1 DEF FInv, LastWord, Settled, OneByOne
    <2> QED BY <1>1, <2>1, <2>2 DEF FInv, OneByOne, Busy
  <1> QED BY <1>2, <1>4, <1>5, <1>6, <1>7 DEF Next

\* It holds where no request is served.
LEMMA InitFInv == Init => FInv
  BY InitIInv, Constants DEF Init, FInv, LastWord, Busy

\* A decision is final: allow and deny whatever happens, a step-up's outcome
\* unless two verifications of it overlapped, when only satisfied and error
\* can replace each other (the whole-row Update at the end of each handler).
THEOREM Final == Spec => DecidedStays
  <1>1. ASSUME FInv, [Next]_vars, NEW t \in Txns, row[t].decision \in Decided,
               row'[t].decision # row[t].decision
        PROVE  /\ "overlap" \in mishaps
               /\ {row[t].decision, row'[t].decision} = {"step_up_satisfied", "error"}
    <2>1. Settled(t)
      BY <1>1 DEF Settled, Decided
    <2>2. PICK r \in Requests : Step(r) \/ Crash(r)
      BY <1>1, <2>1 DEF Next, vars, Advice, Authorize, Create, StepUpVerify, SessionRead,
         PurgeSession, Tick, Settled, FInv, IInv, TypeOK
    <2> QED BY <1>1, <2>1, <2>2, LastWordWritten DEF OneByOne, Decided
  <1>2. FInv /\ [Next]_vars =>
          [\A t \in Txns : row[t].decision \in Decided =>
             \/ row'[t].decision = row[t].decision
             \/ /\ "overlap" \in mishaps
                /\ {row[t].decision, row'[t].decision} = {"step_up_satisfied", "error"}]_vars
    BY <1>1
  <1> QED BY <1>2, InitFInv, NextFInv, PTL DEF Spec, DecidedStays

-----------------------------------------------------------------------------
(* The audit trail.  One request at a time, the copy that a handler writes *)
(* back at the end carries the history its row has.                        *)

Trailing(t) == \E r \in Requests : At(r, "reject") /\ handler[r].txn = t

Trail ==
  mishaps = {} =>
    /\ \A r \in Requests : handler[r].txn # 0 =>
         handler[r].copy.rejections = row[handler[r].txn].rejections
    /\ Miss = "body" => \A t \in Txns :
         missed[t] = row[t].rejections + (IF Trailing(t) THEN 1 ELSE 0)

Blank == \A t \in Txns : row[t].decision = "unborn" => row[t].rejections = 0

HInv == FInv /\ Blank /\ Trail

\* Where the moves of a step lead.
LEMMA MovesLead ==
  ASSUME IInv, NEW r \in Requests
  PROVE  /\ Answers(r) => handler'[r].step = "idle"
         /\ \A s : Goes(r, s) => handler'[r].step = s
         /\ \A c : Decides(r, c) => handler'[r].step = "persist"
         /\ \A s, w : ReadSession(r, s, w) => handler'[r].step = w
  <1>1. handler \in [Requests -> Handler]
    BY DEF IInv, TypeOK
  <1>2. PICK g \in Handler : g = handler[r]
    BY <1>1
  <1>3. Answers(r) => handler'[r].step = "idle"
    BY <1>1, Constants DEF Answers, Becomes
  <1>4. ASSUME NEW s, Goes(r, s) PROVE handler'[r].step = s
    BY <1>1, <1>2, <1>4 DEF Goes, Becomes, Handler
  <1>5. ASSUME NEW c, Decides(r, c) PROVE handler'[r].step = "persist"
    BY <1>1, <1>5 DEF Decides, Becomes, Serving
  <1>6. ASSUME NEW s, NEW w, ReadSession(r, s, w) PROVE handler'[r].step = w
    <2>1. PICK k : k = [g EXCEPT !.step = w, !.held = session[s]]
      OBVIOUS
    <2>2. k.step = w
      BY <2>1 DEF Handler
    <2> QED BY <1>1, <1>2, <1>6, <2>1, <2>2 DEF ReadSession, Becomes
  <1> QED BY <1>3, <1>4, <1>5, <1>6

\* A wrong response is counted when, and only when, its handler is to record it.
LEMMA MissesCounted ==
  ASSUME IInv, NEW r \in Requests, Step(r) \/ Crash(r), Miss = "body"
  PROVE  \/ handler'[r].step # "reject" /\ UNCHANGED missed
         \/ /\ At(r, "answer") /\ Goes(r, "reject")
            /\ missed' = [missed EXCEPT ![handler[r].txn] = @ + 1]
  <1>1. CASE VerifyChallenge(r)
    <2>1. \/ (\E s \in {"upgrade", "reject"} : Goes(r, s)) \/ MarkError(r) \/ Satisfied(r)
      BY <1>1 DEF VerifyChallenge, Verified, Rejected
    <2>2. MarkError(r) \/ Satisfied(r) \/ Goes(r, "upgrade") => handler'[r].step # "reject"
      BY MovesLead DEF MarkError, Satisfied
    <2> QED BY <1>1, <2>2 DEF VerifyChallenge, Verified, Rejected
  <1>2. CASE AdviceRisk(r)
    <2>1. \/ \E c : Decides(r, c)
          \/ \E c : Becomes(r, [handler[r] EXCEPT !.step = "challenge", !.copy = c])
      BY <1>2, Zenon DEF AdviceRisk, MarkError
    <2>2. ASSUME NEW c, Becomes(r, [handler[r] EXCEPT !.step = "challenge", !.copy = c])
          PROVE  handler'[r].step = "challenge"
      <3>1. PICK g \in Handler : g = handler[r]
        BY DEF IInv, TypeOK
      <3>2. PICK k : k = [g EXCEPT !.step = "challenge", !.copy = c]
        OBVIOUS
      <3>3. k.step = "challenge"
        BY <3>2 DEF Handler
      <3> QED BY <2>2, <3>1, <3>2, <3>3 DEF Becomes, IInv, TypeOK
    <2>3. UNCHANGED missed
      BY <1>2 DEF AdviceRisk
    <2> QED BY <2>1, <2>2, <2>3, MovesLead
  <1>3. CASE CreateChallenge(r) \/ VerifyGate(r) \/ Upgrade(r) \/ Promote(r)
    <2>1. \/ Goes(r, "answer") \/ MarkError(r) \/ Satisfied(r)
          \/ (\E c : Decides(r, c)) \/ \E s : ReadSession(r, s, "promote")
      BY <1>3 DEF CreateChallenge, VerifyGate, Upgrade, Promote
    <2>2. UNCHANGED missed
      BY <1>3 DEF CreateChallenge, VerifyGate, Upgrade, Promote
    <2> QED BY <2>1, <2>2, MovesLead DEF MarkError, Satisfied
  <1>4. CASE \/ Reject(r) \/ GetSession(r) \/ Reevaluate(r)
             \/ Persist(r) \/ SessionWrite(r) \/ Crash(r)
    <2>1. Answers(r) \/ Goes(r, "reevaluate") \/ MarkError(r) \/ \E u : Judged(r, u)
      BY <1>4 DEF Reject, GetSession, Reevaluate, Persist, SessionWrite, Crash
    <2>2. UNCHANGED missed
      BY <1>4 DEF Reject, GetSession, Reevaluate, Persist, SessionWrite, Crash
    <2> QED BY <2>1, <2>2, MovesLead DEF MarkError, Judged
  <1> QED BY <1>1, <1>2, <1>3, <1>4 DEF Step

\* Rows change by the final Update and by the recording of a rejection.
LEMMA RowsChange ==
  ASSUME IInv, NEW r \in Requests, Step(r) \/ Crash(r)
  PROVE  \/ UNCHANGED row /\ (At(r, "reject") => mishaps' # {})
         \/ /\ At(r, "persist") /\ handler[r].txn \in Txns
            /\ row' = [row EXCEPT ![handler[r].txn] = handler[r].copy]
         \/ At(r, "reject") /\ handler[r].txn \in Txns /\ AppendHistory(r)
  <1>1. At(r, "reject") => handler[r].txn \in Txns
    BY DEF At, IInv, HandlerOK, VerifyingOK, Verifying
  <1>2. At(r, "persist") => handler[r].txn \in Txns
    BY DEF At, IInv, HandlerOK, PersistOK
  <1>3. CASE Persist(r)
    BY <1>2, <1>3 DEF Persist, At
  <1>4. CASE Reject(r)
    BY <1>1, <1>4 DEF Reject, Suffer
  <1>5. CASE Crash(r)
    BY <1>5 DEF Crash, Suffer
  <1>6. CASE Step(r) /\ ~Persist(r) /\ ~Reject(r)
    BY <1>6 DEF Step, At, AdviceRisk, CreateChallenge, VerifyGate, VerifyChallenge, Upgrade,
       Promote, GetSession, Reevaluate, SessionWrite
  <1> QED BY <1>3, <1>4, <1>5, <1>6

\* Steps keep the history and its copy together.
LEMMA StepTrail ==
  ASSUME HInv, NEW r \in Requests, Step(r) \/ Crash(r)
  PROVE  Blank' /\ Trail'
  <1>1. /\ Busy(r) /\ Onward(r) /\ mishaps \subseteq mishaps' /\ IInv
        /\ \A q \in Requests : LastWord(handler[q])
    BY StepsGoOn DEF HInv, FInv
  <1>2. row \in [Txns -> Row] /\ handler \in [Requests -> Handler] /\ missed \in [Txns -> Nat]
    BY <1>1 DEF IInv, TypeOK
  <1>3. Blank'
    <2> SUFFICES ASSUME NEW t \in Txns, row'[t].decision = "unborn"
                 PROVE  row'[t].rejections = 0
      BY DEF Blank
    <2>1. row[t].decision = "unborn"
      <3>1. CASE Settled(t)
        <4>1. row'[t].decision \in {row[t].decision, "step_up_satisfied", "error"}
          BY <3>1, LastWordWritten DEF HInv
        <4> QED BY <3>1, <4>1 DEF Settled
      <3>2. CASE row[t].decision = "pending"
        <4>1. row'[t].decision # row[t].decision
          BY <3>2
        <4>2. At(r, "persist") /\ handler[r].txn = t
              /\ row'[t].decision = handler[r].copy.decision
          BY <1>1, <4>1, DecisionsByPersist
        <4> QED BY <1>1, <3>2, <4>2 DEF IInv, HandlerOK, PersistOK, At
      <3> QED BY <1>2, <3>1, <3>2 DEF Settled
    <2>2. handler[r].txn # t
      BY <1>1, <2>1, Names DEF IInv, HandlerOK, FreeOK
    <2>3. row'[t] = row[t]
      <3>1. PICK n : n = handler[r].txn
        OBVIOUS
      <3>2. UNCHANGED row \/ \E e : row' = [row EXCEPT ![n] = e]
        BY <1>1, <3>1, RowsChange DEF AppendHistory
      <3> QED BY <1>2, <2>2, <3>1, <3>2
    <2> QED BY <2>1, <2>3 DEF HInv, Blank
  <1>4. CASE mishaps' = {}
    <2>1. mishaps = {} /\ \A q \in Requests : q # r => ~Busy(q) /\ handler'[q] = handler[q]
      BY <1>1, <1>4 DEF HInv, FInv, OneByOne, Onward
    <2>2. \A q \in Requests : q # r => handler'[q].txn = 0 /\ handler'[q].step = "idle"
      BY <1>1, <2>1 DEF LastWord, Busy
    <2>3. PICK h \in Handler : h = handler[r]
      BY <1>2
    <2>4. Idle.txn = 0 /\ Idle.step = "idle"
      BY Constants
    <2>5. h.txn # 0 => h.txn \in Txns /\ h.copy.rejections = row[h.txn].rejections
      BY <2>1, <2>3 DEF HInv, Trail, Handler, TxnId, Txns
    <2>6. CASE At(r, "reject")
      <3>1. h.txn \in Txns /\ AppendHistory(r)
        BY <1>1, <1>4, <2>3, <2>6, RowsChange DEF At
      <3>2. handler'[r] = Idle /\ UNCHANGED missed
        BY <1>1, <2>6 DEF Step, At, AdviceRisk, CreateChallenge, VerifyGate, VerifyChallenge,
           Reject, Upgrade, Promote, GetSession, Reevaluate, Persist, SessionWrite, Crash,
           Answers, Becomes, IInv, TypeOK
      <3>3. \A q \in Requests : handler'[q].txn = 0 /\ handler'[q].step = "idle"
        BY <2>2, <2>4, <3>2
      <3>4. PICK b \in Row : b = row[h.txn]
        BY <1>2, <3>1
      <3>5. /\ row'[h.txn].rejections = b.rejections + 1
            /\ \A t \in Txns : t # h.txn => row'[t] = row[t]
        BY <1>2, <2>3, <3>1, <3>4 DEF AppendHistory, Row
      <3>6. Trailing(h.txn) /\ \A t \in Txns : t # h.txn => ~Trailing(t)
        BY <2>1, <2>3, <2>6 DEF Trailing, At, Busy
      <3>7. \A t \in Txns : ~Trailing(t)'
        BY <3>3 DEF Trailing, At
      <3>8. Miss = "body" => \A t \in Txns :
              missed'[t] = row'[t].rejections + (IF Trailing(t)' THEN 1 ELSE 0)
        BY <1>2, <2>1, <3>1, <3>2, <3>4, <3>5, <3>6, <3>7 DEF HInv, Trail, Row
      <3> QED BY <1>3, <3>3, <3>8 DEF Trail
    <2>7. CASE ~At(r, "reject")
      <3>1. \A t \in Txns : row'[t].rejections = row[t].rejections
        BY <1>1, <1>2, <2>3, <2>5, <2>7, Names, RowsChange
      <3>2. \A q \in Requests : handler'[q].txn # 0 =>
              handler'[q].copy.rejections = row'[handler'[q].txn].rejections
        BY <1>1, <2>2, <2>3, <2>4, <2>5, <3>1 DEF Onward
      <3>3. \A t \in Txns : ~Trailing(t)
        BY <2>1, <2>7 DEF Trailing, At, Busy
      <3>4. ASSUME Miss = "body", NEW t \in Txns
            PROVE  missed'[t] = row'[t].rejections + (IF Trailing(t)' THEN 1 ELSE 0)
        <4>1. missed[t] = row[t].rejections
          BY <1>2, <2>1, <3>3, <3>4 DEF HInv, Trail, Row
        <4>2. CASE handler'[r].step # "reject" /\ UNCHANGED missed
          <5>1. ~Trailing(t)'
            BY <2>2, <4>2 DEF Trailing, At
          <5> QED BY <1>2, <3>1, <4>1, <4>2, <5>1 DEF Row
        <4>3. CASE /\ At(r, "answer") /\ Goes(r, "reject")
                   /\ missed' = [missed EXCEPT ![handler[r].txn] = @ + 1]
          <5>1. handler'[r].step = "reject" /\ handler'[r].txn = h.txn
            BY <1>1, <2>3, <2>4, <4>3, MovesLead DEF Onward
          <5>2. Trailing(t)' <=> t = h.txn
            BY <2>2, <5>1 DEF Trailing, At
          <5>3. missed'[t] = IF t = h.txn THEN missed[t] + 1 ELSE missed[t]
            BY <1>2, <2>3, <4>3
          <5> QED BY <1>2, <3>1, <4>1, <5>2, <5>3 DEF Row
        <4> QED BY <1>1, <3>4, <4>2, <4>3, MissesCounted
      <3> QED BY <1>3, <3>2, <3>4 DEF Trail
    <2> QED BY <2>6, <2>7
  <1> QED BY <1>3, <1>4 DEF Trail

\* A request begins with its row's history in its copy.
LEMMA BeginTrail ==
  ASSUME HInv, NEW r \in Requests, NEW k \in Handler, Begins(r, k), k.step # "reject",
         UNCHANGED missed, Blank',
         \A t \in Txns : row'[t].rejections = row[t].rejections,
         k.txn = 0 \/ (k.txn \in Txns /\ k.copy.rejections = row'[k.txn].rejections)
  PROVE  Trail'
  <1>1. /\ IInv /\ handler \in [Requests -> Handler]
        /\ handler'[r] = k /\ mishaps \subseteq mishaps'
        /\ \A q \in Requests : q # r => handler'[q] = handler[q]
    BY DEF HInv, FInv, IInv, TypeOK, Begins, Becomes, Suffer
  <1>2. mishaps' = {} => mishaps = {} /\ \A q \in Requests : ~Busy(q)
    BY <1>1 DEF Begins, Suffer
  <1>3. mishaps' = {} =>
          \A q \in Requests : q # r => handler'[q].txn = 0 /\ handler'[q].step = "idle"
    BY <1>1, <1>2 DEF HInv, FInv, LastWord, Busy
  <1>4. mishaps' = {} => \A t \in Txns : ~Trailing(t) /\ ~Trailing(t)'
    BY <1>1, <1>2, <1>3 DEF Trailing, At, Busy
  <1> QED BY <1>1, <1>2, <1>3, <1>4 DEF HInv, Trail

\* Every step of the system keeps them together.
LEMMA NextHInv == HInv /\ [Next]_vars => HInv'
  <1> SUFFICES ASSUME HInv, [Next]_vars PROVE HInv'
    OBVIOUS
  <1>1. FInv' /\ IInv
    BY NextFInv DEF HInv, FInv
  <1>2. CASE \E r \in Requests : Step(r) \/ Crash(r)
    BY <1>1, <1>2, StepTrail DEF HInv
  <1>3. ASSUME NEW r \in Requests, NEW t \in Txns, NEW s \in SessionId,
               NEW step \in {"risk", "session"}, NEW fresh \in BOOLEAN,
               Create(r, t, s, step, fresh), UNCHANGED missed
        PROVE  HInv'
    <2>1. PICK n \in Row : n = NoRow
      BY Constants
    <2>2. PICK e : e = [n EXCEPT !.decision = "pending", !.session = s]
      OBVIOUS
    <2>3. e \in Row /\ e.decision = "pending" /\ e.rejections = 0
      BY <2>1, <2>2 DEF Row, Decisions, NoRow
    <2>4. row[t].decision = "unborn" /\ row' = [row EXCEPT ![t] = e]
          /\ Begins(r, Serving(step, t, fresh, e, s))
      BY <1>3, <2>1, <2>2 DEF Create
    <2>5. PICK k : k = Serving(step, t, fresh, e, s)
      OBVIOUS
    <2>6. k \in Handler /\ k.step = step /\ k.txn = t /\ k.copy = e
      BY <2>3, <2>5, Servings, Names DEF Steps
    <2>7. row'[t] = e /\ \A u \in Txns : u # t => row'[u] = row[u]
      BY <1>1, <2>3, <2>4 DEF IInv, TypeOK
    <2>8. Blank' /\ \A u \in Txns : row'[u].rejections = row[u].rejections
      BY <2>3, <2>4, <2>7 DEF HInv, Blank
    <2>9. Trail'
      BY <1>3, <2>3, <2>4, <2>5, <2>6, <2>7, <2>8, BeginTrail
    <2> QED BY <1>1, <2>8, <2>9 DEF HInv
  <1>4. CASE \E r \in Requests, t \in Txns :
               \/ \E s \in SessionId : Advice(r, t, s)
               \/ \E s \in Sessions, fresh \in BOOLEAN : Authorize(r, t, s, fresh)
    BY <1>3, <1>4 DEF Advice, Authorize, SessionId
  <1>5. ASSUME NEW r \in Requests, NEW t \in Txns, NEW c \in Txns, StepUpVerify(r, t, c)
        PROVE  HInv'
    <2>1. PICK b \in Row : b = row[t]
      BY <1>1 DEF IInv, TypeOK
    <2>2. PICK e : e = [b EXCEPT !.challenge = c]
      OBVIOUS
    <2>3. e \in Row /\ b.session \in SessionId /\ e.rejections = b.rejections
      BY <2>2, Names DEF Row
    <2>4. PICK k : k = Serving("verify", t, FALSE, e, b.session)
      OBVIOUS
    <2>5. k \in Handler /\ k.step = "verify" /\ k.txn = t /\ k.copy = e
      BY <2>3, <2>4, Constants, Names DEF Steps, Handler, Serving
    <2>6. Begins(r, k) /\ UNCHANGED <<row, missed>>
      BY <1>5, <2>1, <2>2, <2>4 DEF StepUpVerify
    <2>7. Blank'
      BY <2>6 DEF HInv, Blank
    <2>8. Trail'
      BY <2>1, <2>3, <2>5, <2>6, <2>7, BeginTrail
    <2> QED BY <1>1, <2>7, <2>8 DEF HInv
  <1>6. ASSUME NEW r \in Requests, NEW s \in Sessions, SessionRead(r, s)
        PROVE  HInv'
    <2>1. PICK w \in Session : w = session[s]
      BY <1>1 DEF IInv, TypeOK
    <2>2. PICK o \in SessionId : o = s
      BY DEF SessionId
    <2>3. PICK st \in {"extend", "invalidate"} :
            Begins(r, [Idle EXCEPT !.step = st, !.held = w, !.of = o])
      BY <1>6, <2>1, <2>2 DEF SessionRead
    <2>4. PICK i \in Handler : i = Idle
      BY Constants
    <2>5. PICK k : k = [i EXCEPT !.step = st, !.held = w, !.of = o]
      OBVIOUS
    <2>6. k \in Handler /\ k.step = st /\ k.txn = i.txn
      BY <2>5 DEF Handler, Steps
    <2>7. k.txn = 0 /\ Begins(r, k) /\ UNCHANGED <<row, missed>>
      BY <1>6, <2>3, <2>4, <2>5, <2>6, Constants DEF SessionRead
    <2>8. Blank'
      BY <2>7 DEF HInv, Blank
    <2>9. Trail'
      BY <2>6, <2>7, <2>8, BeginTrail
    <2> QED BY <1>1, <2>8, <2>9 DEF HInv
  <1>7. CASE Tick \/ UNCHANGED vars \/ \E s \in Sessions : PurgeSession(s)
    <2>1. UNCHANGED <<row, handler, mishaps, missed>>
      BY <1>7 DEF Tick, vars, PurgeSession
    <2> QED BY <1>1, <2>1 DEF HInv, Blank, Trail, Trailing, At
  <1> QED BY <1>2, <1>4, <1>5, <1>6, <1>7 DEF Next

\* They are together where no request is served.
LEMMA InitHInv == Init => HInv
  <1> SUFFICES ASSUME Init PROVE HInv
    OBVIOUS
  <1>1. \A r \in Requests : handler[r].step = "idle" /\ handler[r].txn = 0
    BY Constants DEF Init
  <1>2. \A t \in Txns : row[t].rejections = 0 /\ missed[t] = 0 /\ ~Trailing(t)
    BY <1>1 DEF Init, NoRow, Trailing, At
  <1> QED BY <1>1, <1>2, InitFInv DEF HInv, Blank, Trail

\* "So the audit trail is complete" (stepup.go:92): while requests are served
\* one at a time and nothing fails, every rejection reported to a caller is in
\* the history of its transaction, or about to be appended to it.
THEOREM Trailed == Spec => []TrailComplete
  <1>1. ASSUME HInv, mishaps = {}, NEW t \in Txns
        PROVE  Cardinality(Rejecting(t)) = IF Trailing(t) THEN 1 ELSE 0
    <2>1. CASE Trailing(t)
      <3>1. PICK r \in Requests : At(r, "reject") /\ handler[r].txn = t
        BY <2>1 DEF Trailing
      <3>2. \A q \in Requests : At(q, "reject") => q = r
        BY <1>1, <3>1 DEF HInv, FInv, OneByOne, Busy, At
      <3>3. Rejecting(t) = {r}
        BY <3>1, <3>2 DEF Rejecting
      <3> QED BY <2>1, <3>3, FS_Singleton
    <2>2. CASE ~Trailing(t)
      <3>1. Rejecting(t) = {}
        BY <2>2 DEF Rejecting, Trailing
      <3> QED BY <2>2, <3>1, FS_EmptySet
    <2> QED BY <2>1, <2>2
  <1>2. HInv => TrailComplete
    BY <1>1 DEF HInv, Trail, TrailComplete
  <1> QED BY <1>2, InitHInv, NextHInv, PTL DEF Spec
=============================================================================
