-------------------------- MODULE StepUpFlowsProofs --------------------------
(***************************************************************************)
(* Theorems about StepUpFlows, for any number of users, transactions,      *)
(* flows, challenges and overlapping requests, any levels and any stage    *)
(* lists.                                                                  *)
(*                                                                         *)
(* The argument: what decides whether a code may be minted (the advice,    *)
(* the strongest level the user has proved, the codes stored so far) only  *)
(* ever grows, so that a copy of a pending authorization, in a handler or  *)
(* parked, cannot become wrong by waiting.  What may be minted twice is a  *)
(* flow: that is excluded only while no two requests overlap.              *)
(***************************************************************************)
EXTENDS StepUpFlows, SequenceTheorems, TLAPS

\* What the histories range over.
HistoriesOK ==
  /\ issued \subseteq Users \X (Txns \cup {NoTxn})
  /\ minted \in [FlowIds -> Nat]
  /\ emitted \in [Txns -> Nat]
  /\ proved \in [Users -> Ranks]

\* The ledger never credits more than was proved.
LedgerEarned == \A u \in Users : ledger[u].rank <= proved[u]

\* A transaction was reported if it is completed, and then once, and its
\* code was stored first.
Reported ==
  \A t \in Txns :
    /\ emitted[t] = IF advice[t].by = NoUser THEN 0 ELSE 1
    /\ advice[t].by # NoUser => <<advice[t].by, t>> \in issued

\* What a pending authorization carries is earned, and asked for as advised;
\* its transaction's advice was given, so that nobody gives it again.
Warranted(p) ==
  /\ Earned(p) /\ WithinAdvice(p)
  /\ p.txn \in Txns => advice[p.txn].rank > 0

\* Once a deny stage applies to a request, it has not been passed yet.
Barred(h) ==
  /\ h.cursor >= 1
  /\ h.pend.barred =>
       /\ h.step = "stage" /\ h.risky
       /\ \E d \in 1..Len(h.stages) : RefusedAt(h.stages, d) /\ h.cursor <= d

\* Where a handler stands tells what it may rely on.
Placed(h) ==
  /\ h.verified =>
       /\ h.step \in {"drop", "untrack", "record", "mint", "complete"}
       /\ h.pend.target <= proved[h.pend.user]
  /\ h.step = "record" => h.verified
  /\ h.step = "complete" => h.pend.txn \in Txns /\ <<h.pend.user, h.pend.txn>> \in issued

Carries(h) == Warranted(h.pend) /\ Placed(h)

\* The invariant of any number of overlapping requests.
FlInv ==
  /\ TypeOK /\ HistoriesOK /\ LedgerEarned /\ Reported
  /\ \A f \in FlowIds : parked[f] # NoFlow => Warranted(parked[f])
  /\ \A r \in Requests : Busy(r) => Carries(request[r])

\* The same for deny stages, which only holds for some stage lists.
DenyInv ==
  /\ \A f \in FlowIds : parked[f] # NoFlow => ~parked[f].barred
  /\ \A r \in Requests : Busy(r) => Barred(request[r])

-----------------------------------------------------------------------------
(* While requests do not overlap.                                            *)

Early == {"stage", "list", "challenge", "park"}
Held == {"track", "verify", "answer", "drop", "finish", "rechallenge", "repark"}
Dropped == {"untrack", "record", "mint"}

\* A handler that is alone has an id once it has a flow; until it drops the
\* flow, the flow is there; from then on it is gone, and before the code
\* nothing was minted for it.
Owns(h) ==
  /\ h.step \in Early => h.id = 0
  /\ h.step \in Held \cup Dropped => h.id \in FlowIds /\ h.id < nextFlow /\ minted[h.id] = 0
  /\ h.step \in Held => parked[h.id] # NoFlow /\ parked[h.id].created = h.pend.created
  /\ h.step \in Dropped => parked[h.id] = NoFlow
  /\ h.step = "track" => tracked[h.id] = 0

\* Flow f is a ticket that is there or spent, and its id was handed out.
Ticket(f) ==
  /\ minted[f] <= 1
  /\ parked[f] # NoFlow => minted[f] = 0 /\ f < nextFlow /\ parked[f].created > 0
  /\ f >= nextFlow => minted[f] = 0 /\ tracked[f] = 0

\* What is parked is tracked, unless a handler is between the two maps.
Tracked(f) ==
  /\ HasFlow(f) /\ tracked[f] # parked[f].created =>
       \E r \in Requests : At(r, "track") /\ request[r].id = f
  /\ tracked[f] # 0 /\ Live(tracked[f]) /\ ~HasFlow(f) =>
       \E r \in Requests : At(r, "untrack") /\ request[r].id = f

Solo ==
  /\ \A r, s \in Requests : Busy(r) /\ Busy(s) => r = s
  /\ \A r \in Requests : Busy(r) => Owns(request[r])
  /\ \A f \in FlowIds : Ticket(f) /\ Tracked(f)

AloneInv == "overlap" \notin mishaps => Solo

-----------------------------------------------------------------------------
(* Types.                                                                    *)

\* The bounds are numbers.
LEMMA NumbersOK ==
  ASSUME ConstantsOK
  PROVE  /\ NumFlows \in Nat /\ NumChallenges \in Nat /\ MaxRank \in Nat
         /\ SmsRank \in Nat /\ FlowTTL \in Nat /\ Freshness \in Nat
         /\ LedgerTTL \in Nat /\ MaxTime \in Nat /\ MaxTime >= 1
         /\ NoUser \notin Users /\ NoTxn \notin Txns
BY DEF ConstantsOK

\* An empty slot is not a parked flow.
LEMMA NoFlowNotPending == NoFlow \notin Pending
BY DEF NoFlow, Pending

\* A handler is not idle, and its step tells.
LEMMA HandlerKinds ==
  ASSUME NEW h \in Handler \cup {Idle}
  PROVE  /\ h # Idle <=> h \in Handler
         /\ h.step # "idle" <=> h \in Handler
BY DEF Handler, Idle

\* The fields of a handler.
LEMMA HandlerFields ==
  ASSUME NEW h \in Handler
  PROVE  /\ h.pend \in Pending /\ h.id \in {0} \cup FlowIds
         /\ h.stages \in FlowDefs \cup {<<>>} /\ h.cursor \in Nat
         /\ h.risky \in BOOLEAN /\ h.verified \in BOOLEAN
         /\ h = [step |-> h.step, pend |-> h.pend, id |-> h.id, stages |-> h.stages,
                 cursor |-> h.cursor, risky |-> h.risky, verified |-> h.verified]
BY DEF Handler

\* The fields of a pending authorization.
LEMMA PendingFields ==
  ASSUME NEW p \in Pending
  PROVE  /\ p.user \in Users /\ p.txn \in Txns \cup {NoTxn} /\ p.asked \in Ranks
         /\ p.acr \in Ranks /\ p.method \in {"none", "sms", "fido2"}
         /\ p.target \in Ranks /\ p.chal \in {0} \cup ChallengeIds
         /\ p.created \in 0..MaxTime /\ p.barred \in BOOLEAN
BY DEF Pending

\* Everything but the handlers has its type.
MemoryOK ==
  /\ now \in 1..MaxTime
  /\ parked \in [FlowIds -> Pending \cup {NoFlow}]
  /\ tracked \in [FlowIds -> 0..MaxTime]
  /\ nextFlow \in 1..NumFlows + 1
  /\ ledger \in [Users -> [rank : Ranks, at : 0..MaxTime]]
  /\ advice \in [Txns -> [rank : Ranks, user : Users \cup {NoUser}, by : Users \cup {NoUser}]]
  /\ challenge \in [ChallengeIds -> {"unborn", "open", "done"}]
  /\ passkey \subseteq Users

\* A handler moves to a handler.
LEMMA GoTyped ==
  ASSUME TypeOK, MemoryOK', NEW r \in Requests, NEW h \in Handler \cup {Idle}, Go(r, h)
  PROVE  TypeOK' /\ request'[r] = h /\ \A s \in Requests \ {r} : request'[s] = request[s]
BY DEF TypeOK, MemoryOK, Go

-----------------------------------------------------------------------------
(* What waits does not become wrong.                                         *)

\* Levels proved are not taken back, advice given is not changed, a code
\* stored stays stored.
Grows ==
  /\ \A u \in Users : proved[u] <= proved'[u]
  /\ \A t \in Txns :
       advice[t].rank > 0 =>
         advice'[t].rank = advice[t].rank /\ advice'[t].user = advice[t].user
  /\ issued \subseteq issued'

\* Most steps change none of these.
LEMMA SameGrows ==
  ASSUME HistoriesOK, TypeOK, UNCHANGED <<advice, issued, proved>>
  PROVE  Grows
<1>1. \A u \in Users : proved[u] <= proved'[u]
  BY DEF HistoriesOK, Ranks
<1> QED
  BY <1>1 DEF Grows

\* Two levels and a third.
LEMMA RanksOrdered ==
  ASSUME ConstantsOK, NEW a \in Ranks, NEW b \in Ranks, NEW c \in Ranks, a <= b, b <= c
  PROVE  a <= c
BY NumbersOK DEF Ranks

\* What a pending authorization carries stays warranted.
LEMMA WarrantedStays ==
  ASSUME ConstantsOK, HistoriesOK, HistoriesOK', Grows, NEW p \in Pending, Warranted(p)
  PROVE  Warranted(p)'
<1>1. p.user \in Users /\ p.acr \in Ranks /\ proved[p.user] \in Ranks
      /\ proved'[p.user] \in Ranks
  BY PendingFields DEF HistoriesOK
<1>2. Earned(p)'
  BY <1>1, RanksOrdered DEF Warranted, Earned, Grows
<1> QED
  BY <1>2 DEF Warranted, WithinAdvice, Grows

\* So does what a handler carries.
LEMMA CarriesStays ==
  ASSUME ConstantsOK, HistoriesOK, HistoriesOK', Grows, NEW h \in Handler, Carries(h)
  PROVE  Carries(h)'
<1>1. h.pend \in Pending
  BY HandlerFields
<1>2. h.pend.user \in Users /\ h.pend.target \in Ranks /\ proved[h.pend.user] \in Ranks
      /\ proved'[h.pend.user] \in Ranks
  BY <1>1, PendingFields DEF HistoriesOK
<1>3. h.verified => h.pend.target <= proved'[h.pend.user]
  BY <1>2, RanksOrdered DEF Carries, Placed, Grows
<1>4. Placed(h)'
  BY <1>3 DEF Carries, Placed, Grows
<1> QED
  BY <1>1, <1>4, WarrantedStays DEF Carries

\* An authorization that asks the same of the same advice, with an acr that
\* is earned, is as warranted.
LEMMA WarrantedFields ==
  ASSUME NEW p, NEW q, Warranted(p), Earned(q), q.user = p.user, q.txn = p.txn,
         q.asked = p.asked
  PROVE  Warranted(q)
BY DEF Warranted, WithinAdvice

-----------------------------------------------------------------------------
(* How a step preserves the invariant: the handler that moves carries what   *)
(* is warranted, and the rest follows.                                       *)
LEMMA Moves ==
  ASSUME ConstantsOK, FlInv, Grows, HistoriesOK', MemoryOK', LedgerEarned', Reported',
         NEW r \in Requests, NEW h \in Handler \cup {Idle}, Go(r, h),
         h # Idle => Carries(h)',
         NEW q \in Pending \cup {NoFlow}, q # NoFlow => Warranted(q)',
         \A f \in FlowIds : parked'[f] \in {parked[f], NoFlow, q}
  PROVE  FlInv'
<1>1. TypeOK' /\ request'[r] = h /\ \A s \in Requests \ {r} : request'[s] = request[s]
  BY GoTyped DEF FlInv
<1>2. ASSUME NEW f \in FlowIds, parked'[f] # NoFlow
      PROVE  Warranted(parked[f])'
  <2>1. CASE parked'[f] = parked[f]
    <3>1. PICK p : p = parked[f] /\ p = parked'[f]
      BY <2>1
    <3>2. p \in Pending /\ Warranted(p)
      BY <3>1, <1>2 DEF FlInv, TypeOK
    <3>3. Warranted(p)'
      BY <3>2, WarrantedStays DEF FlInv
    <3> QED
      BY <3>1, <3>3 DEF Warranted, Earned, WithinAdvice
  <2>2. CASE parked'[f] = q
    BY <2>2, <1>2 DEF Warranted, Earned, WithinAdvice
  <2> QED
    BY <1>2, <2>1, <2>2
<1>3. ASSUME NEW s \in Requests, Busy(s)'
      PROVE  Carries(request[s])'
  <2>1. CASE s = r
    <3>1. h # Idle /\ request'[s] = h
      BY <2>1, <1>1, <1>3 DEF Busy
    <3> QED
      BY <3>1 DEF Carries, Warranted, Earned, WithinAdvice, Placed
  <2>2. CASE s # r
    <3>1. PICK g : g = request[s] /\ g = request'[s]
      BY <2>2, <1>1
    <3>2. g \in Handler /\ Carries(g)
      BY <3>1, <1>3, HandlerKinds DEF FlInv, TypeOK, Busy
    <3>3. Carries(g)'
      BY <3>2, CarriesStays DEF FlInv
    <3> QED
      BY <3>1, <3>3 DEF Carries, Warranted, Earned, WithinAdvice, Placed
  <2> QED
    BY <2>1, <2>2
<1> QED
  BY <1>1, <1>2, <1>3 DEF FlInv

\* A step that changes nothing but the handler.
LEMMA OnlyMoves ==
  ASSUME ConstantsOK, FlInv, NEW r \in Requests, NEW h \in Handler \cup {Idle}, Go(r, h),
         h # Idle => Carries(h),
         UNCHANGED <<now, Memory, advice, challenge, passkey, History>>
  PROVE  FlInv'
<1>1. HistoriesOK' /\ MemoryOK' /\ LedgerEarned' /\ Reported'
  BY DEF FlInv, TypeOK, MemoryOK, HistoriesOK, LedgerEarned, Reported, Memory, History
<1>2. Grows
  BY SameGrows DEF FlInv, History
<1>3. h # Idle => Carries(h)'
  BY <1>1, <1>2, CarriesStays DEF FlInv
<1>4. \A f \in FlowIds : parked'[f] \in {parked[f], NoFlow}
  BY DEF Memory
<1>5. \A f \in FlowIds : parked'[f] \in {parked[f], NoFlow, NoFlow}
  BY <1>4
<1> QED
  BY <1>1, <1>2, <1>3, <1>5, Moves

\* A handler answers.
LEMMA AnswerKeeps ==
  ASSUME ConstantsOK, FlInv, NEW r \in Requests, Answer(r),
         UNCHANGED <<now, Memory, advice, challenge, passkey, History>>
  PROVE  FlInv'
<1>1. Go(r, Idle)
  BY DEF Answer
<1> QED
  BY <1>1, OnlyMoves

-----------------------------------------------------------------------------
(* The initial states, and one lemma per action.                             *)

\* The initial states satisfy the invariant.
LEMMA InitInv == ASSUME ConstantsOK PROVE Init => FlInv
<1> SUFFICES ASSUME Init PROVE FlInv
  OBVIOUS
<1> USE NumbersOK DEF Init
<1>1. TypeOK
  BY DEF TypeOK, Ranks, NoAdvice
<1>2. HistoriesOK /\ LedgerEarned
  BY DEF HistoriesOK, LedgerEarned, Ranks
<1>3. Reported
  BY DEF Reported, NoAdvice
<1>4. \A f \in FlowIds : parked[f] = NoFlow
  OBVIOUS
<1>5. \A r \in Requests : ~Busy(r)
  BY DEF Busy
<1> QED
  BY <1>1, <1>2, <1>3, <1>4, <1>5 DEF FlInv

\* A handler at one of its steps is one.
LEMMA AtHandler ==
  ASSUME FlInv, NEW r \in Requests, request[r].step # "idle"
  PROVE  request[r] \in Handler /\ Busy(r) /\ Carries(request[r])
BY HandlerKinds DEF FlInv, TypeOK, Busy

\* A handler goes on to another step without verifying anything, or with
\* what it has verified.
LEMMA GotoCarries ==
  ASSUME FlInv, NEW h \in Handler, Carries(h), NEW step,
         step \in {"stage", "list", "challenge", "park", "track", "verify", "answer",
                   "drop", "untrack", "mint", "finish", "rechallenge", "repark"},
         h.verified => step \in {"drop", "untrack", "mint"}
  PROVE  [h EXCEPT !.step = step] \in Handler /\ Carries([h EXCEPT !.step = step])
<1>1. PICK k : k = [h EXCEPT !.step = step]
  OBVIOUS
<1>2. /\ k \in Handler /\ k.step = step /\ k.pend = h.pend /\ k.verified = h.verified
  BY <1>1 DEF Handler
<1>3. Carries(k)
  BY <1>2 DEF Carries, Placed
<1> QED
  BY <1>1, <1>2, <1>3

\* The same for the cursor.
LEMMA AdvanceCarries ==
  ASSUME FlInv, NEW h \in Handler, Carries(h)
  PROVE  [h EXCEPT !.cursor = @ + 1] \in Handler /\ Carries([h EXCEPT !.cursor = @ + 1])
<1>1. PICK k : k = [h EXCEPT !.cursor = @ + 1]
  OBVIOUS
<1>2. /\ k \in Handler /\ k.step = h.step /\ k.pend = h.pend /\ k.verified = h.verified
  BY <1>1 DEF Handler
<1>3. Carries(k)
  BY <1>2 DEF Carries, Placed
<1> QED
  BY <1>1, <1>2, <1>3

\* A request that carries a transaction asks for what was advised.
LEMMA AuthorizeKeeps ==
  ASSUME ConstantsOK, FlInv, NEW r \in Requests, NEW u \in Users,
         NEW t \in Txns \cup {NoTxn}, NEW a \in AcrValues, NEW s \in FlowDefs,
         Authorize(r, u, t, a, s)
  PROVE  FlInv'
<1>1. PICK p : p = [user |-> u, txn |-> t, asked |-> a.rank, acr |-> 0,
                    method |-> a.method, target |-> 0, chal |-> 0,
                    created |-> 0, barred |-> FALSE]
  OBVIOUS
<1>2. PICK h : h = [step |-> "stage", id |-> 0, stages |-> s, cursor |-> 1,
                    risky |-> FALSE, verified |-> FALSE, pend |-> p]
  OBVIOUS
<1>3. a.rank \in Ranks /\ a.method \in {"none", "sms", "fido2"}
  BY NumbersOK DEF ConstantsOK, Asked, Ranks
<1>4. p \in Pending
  BY <1>1, <1>3, NumbersOK DEF Pending, Ranks
<1>5. h \in Handler
  BY <1>2, <1>4 DEF Handler
<1>6. Go(r, h)
  BY <1>1, <1>2 DEF Authorize
<1>7. Warranted(p)
  <2>1. Earned(p)
    BY <1>1, NumbersOK DEF Earned, FlInv, HistoriesOK, Ranks
  <2> QED
    BY <1>1, <2>1 DEF Authorize, AdviceAllows, Warranted, WithinAdvice
<1>8. Placed(h)
  BY <1>2 DEF Placed
<1>9. Carries(h)
  BY <1>2, <1>7, <1>8 DEF Carries
<1> QED
  BY <1>5, <1>6, <1>9, OnlyMoves DEF Authorize

\* A stage that does not run.
LEMMA SkipKeeps ==
  ASSUME ConstantsOK, FlInv, NEW r \in Requests, Skip(r)
  PROVE  FlInv'
<1>1. request[r] \in Handler /\ Carries(request[r])
  BY AtHandler DEF Skip, At
<1>2. CASE Answer(r)
  BY <1>2, AnswerKeeps DEF Skip
<1>3. CASE Advance(r, request[r])
  BY <1>1, <1>3, AdvanceCarries, OnlyMoves DEF Skip, Advance
<1> QED
  BY <1>2, <1>3 DEF Skip

\* What an evaluation notes changes nothing that is warranted.
LEMMA RiskCarries ==
  ASSUME FlInv, NEW h \in Handler, Carries(h), NEW x \in BOOLEAN, NEW b \in BOOLEAN
  PROVE  LET k == [h EXCEPT !.risky = x, !.pend.barred = b]
         IN  k \in Handler /\ Carries(k)
<1>1. PICK k : k = [h EXCEPT !.risky = x, !.pend.barred = b]
  OBVIOUS
<1>2. PICK p : p = [h.pend EXCEPT !.barred = b]
  OBVIOUS
<1>3. k = [step |-> h.step, pend |-> p, id |-> h.id, stages |-> h.stages,
           cursor |-> h.cursor, risky |-> x, verified |-> h.verified]
  BY <1>1, <1>2 DEF Handler
<1>4. p \in Pending /\ p.user = h.pend.user /\ p.txn = h.pend.txn /\ p.asked = h.pend.asked
      /\ p.acr = h.pend.acr /\ p.target = h.pend.target
  BY <1>2, HandlerFields DEF Pending
<1>5. k \in Handler
  BY <1>3, <1>4, HandlerFields DEF Handler
<1>6. Warranted(p)
  BY <1>4, WarrantedFields DEF Carries, Warranted, Earned
<1>7. Placed(k)
  BY <1>3, <1>4 DEF Carries, Placed
<1>8. k.pend = p
  BY <1>3
<1>9. Carries(k)
  BY <1>6, <1>7, <1>8 DEF Carries
<1> QED
  BY <1>1, <1>5, <1>9

\* The risk is evaluated.
LEMMA RiskEvaluationKeeps ==
  ASSUME ConstantsOK, FlInv, NEW r \in Requests, RiskEvaluation(r)
  PROVE  FlInv'
<1>1. request[r] \in Handler /\ Carries(request[r])
  BY AtHandler DEF RiskEvaluation, StageIs, At
<1>2. PICK x \in BOOLEAN :
        Advance(r, [request[r] EXCEPT !.risky = x,
                      !.pend.barred = x /\ DeniesRisky(request[r].stages)])
  BY DEF RiskEvaluation
<1>3. (x /\ DeniesRisky(request[r].stages)) \in BOOLEAN
  OBVIOUS
<1>4. PICK k : k = [request[r] EXCEPT !.risky = x,
                      !.pend.barred = x /\ DeniesRisky(request[r].stages)]
  OBVIOUS
<1>5. k \in Handler /\ Carries(k) /\ Advance(r, k)
  BY <1>1, <1>2, <1>3, <1>4, RiskCarries
<1> QED
  BY <1>5, AdvanceCarries, OnlyMoves DEF RiskEvaluation, Advance

\* A deny stage answers.
LEMMA DenyKeeps ==
  ASSUME ConstantsOK, FlInv, NEW r \in Requests, Deny(r)
  PROVE  FlInv'
BY AnswerKeeps DEF Deny

\* What the ledger remembers was proved.
LEMMA LedgerTells ==
  ASSUME ConstantsOK, FlInv, NEW u \in Users, NEW rank \in Ranks, rank > 0,
         Satisfied(u, rank)
  PROVE  rank <= proved[u]
<1>1. ledger[u].rank \in Ranks /\ proved[u] \in Ranks /\ ledger[u].rank <= proved[u]
  BY DEF FlInv, TypeOK, HistoriesOK, LedgerEarned
<1>2. rank <= ledger[u].rank
  BY <1>1, NumbersOK DEF Satisfied, AchievedWithin, Ranks
<1> QED
  BY <1>1, <1>2, RanksOrdered

\* The challenge stage passes a request through that has earned its level,
\* and parks any other.
LEMMA AuthenticatorValidateKeeps ==
  ASSUME ConstantsOK, FlInv, NEW r \in Requests, AuthenticatorValidate(r)
  PROVE  FlInv'
<1>1. PICK h : h = request[r]
  OBVIOUS
<1>2. h \in Handler /\ Carries(h) /\ h.step = "stage"
  BY <1>1, AtHandler DEF AuthenticatorValidate, StageIs, At
<1>3. PICK p : p = h.pend
  OBVIOUS
<1>4. p \in Pending /\ Warranted(p)
  BY <1>2, <1>3, HandlerFields DEF Carries
<1>5. ~h.verified
  BY <1>2 DEF Carries, Placed
<1> DEFINE Kept == UNCHANGED <<now, Memory, advice, challenge, passkey, History>>
<1>6. ASSUME NEW q \in Pending, Leave(r, q, "list"), Warranted(q), Kept
      PROVE  FlInv'
  <2>1. PICK k : k = [step |-> "list", pend |-> q, id |-> h.id, stages |-> <<>>,
                      cursor |-> 1, risky |-> FALSE, verified |-> h.verified]
    OBVIOUS
  <2>2. Go(r, k)
    BY <1>1, <1>6, <2>1 DEF Leave
  <2>3. k \in Handler /\ Carries(k)
    <3>1. k \in Handler
      BY <1>2, <2>1, HandlerFields DEF Handler
    <3>2. k.pend = q /\ k.step = "list" /\ ~k.verified
      BY <1>5, <2>1
    <3> QED
      BY <1>6, <3>1, <3>2 DEF Carries, Placed
  <2> QED
    BY <1>6, <2>2, <2>3, OnlyMoves
<1>7. CASE /\ p.asked > 0 /\ Satisfied(p.user, p.asked)
           /\ Advance(r, [h EXCEPT !.pend.acr = p.asked]) /\ Kept
  <2>1. PICK q : q = [p EXCEPT !.acr = p.asked]
    OBVIOUS
  <2>2. PICK k : k = [h EXCEPT !.pend.acr = p.asked]
    OBVIOUS
  <2>3. k = [step |-> h.step, pend |-> q, id |-> h.id, stages |-> h.stages,
             cursor |-> h.cursor, risky |-> h.risky, verified |-> h.verified]
    BY <1>2, <1>3, <2>1, <2>2 DEF Handler
  <2>4. q \in Pending /\ q.user = p.user /\ q.txn = p.txn /\ q.asked = p.asked
        /\ q.acr = p.asked /\ q.target = p.target
    BY <1>4, <2>1, PendingFields DEF Pending
  <2>5. Earned(q)
    BY <1>4, <1>7, <2>4, LedgerTells, PendingFields DEF Earned
  <2>6. Warranted(q)
    BY <1>4, <2>4, <2>5, WarrantedFields
  <2>7. k \in Handler /\ k.pend = q /\ k.step = h.step /\ k.verified = h.verified
    BY <1>2, <2>3, <2>4, HandlerFields DEF Handler
  <2>8. Carries(k)
    BY <1>2, <1>5, <2>6, <2>7 DEF Carries, Placed
  <2> QED
    BY <1>7, <2>2, <2>7, <2>8, AdvanceCarries, OnlyMoves DEF Advance
<1>8. CASE \E m \in {"none", "sms", "fido2"} :
             Leave(r, [p EXCEPT !.method = m, !.target = p.asked], "list") /\ Kept
  <2>1. PICK m \in {"none", "sms", "fido2"} :
          Leave(r, [p EXCEPT !.method = m, !.target = p.asked], "list") /\ Kept
    BY <1>8
  <2>2. PICK q : q = [p EXCEPT !.method = m, !.target = p.asked]
    OBVIOUS
  <2>3. q \in Pending /\ q.user = p.user /\ q.txn = p.txn /\ q.asked = p.asked /\ q.acr = p.acr
    BY <1>4, <2>2, PendingFields DEF Pending
  <2>4. Warranted(q)
    BY <1>4, <2>3, WarrantedFields DEF Warranted, Earned
  <2> QED
    BY <1>6, <2>1, <2>2, <2>3, <2>4
<1>9. CASE \E m \in {"none", "sms", "fido2"} :
             Leave(r, [p EXCEPT !.method = m], "list") /\ Kept
  <2>1. PICK m \in {"none", "sms", "fido2"} :
          Leave(r, [p EXCEPT !.method = m], "list") /\ Kept
    BY <1>9
  <2>2. PICK q : q = [p EXCEPT !.method = m]
    OBVIOUS
  <2>3. q \in Pending /\ q.user = p.user /\ q.txn = p.txn /\ q.asked = p.asked /\ q.acr = p.acr
    BY <1>4, <2>2, PendingFields DEF Pending
  <2>4. Warranted(q)
    BY <1>4, <2>3, WarrantedFields DEF Warranted, Earned
  <2> QED
    BY <1>6, <2>1, <2>2, <2>3, <2>4
<1>10. CASE Advance(r, h) /\ Kept
  BY <1>2, <1>10, AdvanceCarries, OnlyMoves DEF Advance
<1>11. \A m \in Effective(LevelMethod(p.asked)) \cup Effective(p.method) :
         m \in {"none", "sms", "fido2"}
  BY <1>4, PendingFields DEF Effective, LevelMethod
<1> QED
  BY <1>1, <1>3, <1>7, <1>8, <1>9, <1>10, <1>11 DEF AuthenticatorValidate

\* A call of authenticator-service fails.
LEMMA CallFailsKeeps ==
  ASSUME ConstantsOK, FlInv, NEW r \in Requests, CallFails(r)
  PROVE  FlInv'
BY AnswerKeeps DEF CallFails, PeerFails

\* The authenticators are listed.
LEMMA ListKeeps ==
  ASSUME ConstantsOK, FlInv, NEW r \in Requests, List(r)
  PROVE  FlInv'
<1>1. PICK h : h = request[r]
  OBVIOUS
<1>2. h \in Handler /\ Carries(h) /\ h.step = "list"
  BY <1>1, AtHandler DEF List, At
<1>3. ~h.verified
  BY <1>2 DEF Carries, Placed
<1>4. PICK step \in {"challenge", "park"} : Go(r, [h EXCEPT !.step = step])
  BY <1>1 DEF List, Goto
<1> QED
  BY <1>2, <1>3, <1>4, GotoCarries, OnlyMoves DEF List

\* A challenge is created and goes into the copy.
LEMMA CreateChallengeKeeps ==
  ASSUME ConstantsOK, FlInv, NEW r \in Requests, CreateChallenge(r)
  PROVE  FlInv'
<1>1. PICK h : h = request[r]
  OBVIOUS
<1>2. h \in Handler /\ Carries(h) /\ h.step \in {"challenge", "rechallenge"}
  BY <1>1, AtHandler DEF CreateChallenge, At
<1>3. ~h.verified
  BY <1>2 DEF Carries, Placed
<1>4. PICK c \in Unborn :
               /\ challenge' = [challenge EXCEPT ![c] = "open"]
               /\ Go(r, [h EXCEPT !.pend.chal = c,
                                  !.step = IF @ = "challenge" THEN "park" ELSE "repark"])
  BY <1>1 DEF CreateChallenge
<1>5. c \in ChallengeIds
  BY DEF Unborn
<1>6. PICK step \in {"park", "repark"} : Go(r, [h EXCEPT !.pend.chal = c, !.step = step])
  BY <1>4
<1>7. PICK p : p = [h.pend EXCEPT !.chal = c]
  OBVIOUS
<1>8. PICK k : k = [h EXCEPT !.pend.chal = c, !.step = step]
  OBVIOUS
<1>9. k = [step |-> step, pend |-> p, id |-> h.id, stages |-> h.stages,
           cursor |-> h.cursor, risky |-> h.risky, verified |-> h.verified]
  BY <1>2, <1>7, <1>8 DEF Handler
<1>10. p \in Pending /\ p.user = h.pend.user /\ p.txn = h.pend.txn /\ p.asked = h.pend.asked
       /\ p.acr = h.pend.acr
  BY <1>2, <1>5, <1>7, HandlerFields DEF Pending
<1>11. k \in Handler /\ k.pend = p /\ k.step = step /\ ~k.verified
  BY <1>2, <1>3, <1>9, <1>10, HandlerFields DEF Handler
<1>12. Warranted(p)
  BY <1>2, <1>10, WarrantedFields DEF Carries, Warranted, Earned
<1>13. Carries(k)
  BY <1>11, <1>12 DEF Carries, Placed
<1>14. UNCHANGED <<now, Memory, advice, passkey, mishaps, History>>
  BY DEF CreateChallenge
<1>15. HistoriesOK' /\ LedgerEarned' /\ Reported'
  BY <1>14 DEF FlInv, HistoriesOK, LedgerEarned, Reported, Memory, History
<1>16. MemoryOK'
  <2>1. challenge' \in [ChallengeIds -> {"unborn", "open", "done"}]
    BY <1>4 DEF FlInv, TypeOK
  <2> QED
    BY <1>14, <2>1 DEF FlInv, TypeOK, MemoryOK, Memory
<1>17. Grows
  BY <1>14, SameGrows DEF FlInv, History
<1>18. Carries(k)'
  BY <1>11, <1>13, <1>15, <1>17, CarriesStays DEF FlInv
<1>19. Go(r, k)
  BY <1>6, <1>8
<1>20. \A f \in FlowIds : parked'[f] \in {parked[f], NoFlow, NoFlow}
  BY <1>14 DEF Memory
<1> QED
  BY <1>11, <1>15, <1>16, <1>17, <1>18, <1>19, <1>20, Moves

\* A copy of an authorization that is warranted, at a step that relies on
\* nothing more.
LEMMA CopyCarries ==
  ASSUME ConstantsOK, FlInv, NEW p \in Pending, Warranted(p), NEW id \in {0} \cup FlowIds,
         NEW step \in {"track", "verify", "finish"}, NEW h,
         h = [step |-> step, pend |-> p, id |-> id, stages |-> <<>>, cursor |-> 1,
              risky |-> FALSE, verified |-> FALSE]
  PROVE  h \in Handler /\ Carries(h)
<1>1. h \in Handler
  BY DEF Handler
<1>2. h.pend = p /\ h.step = step /\ ~h.verified
  OBVIOUS
<1> QED
  BY <1>1, <1>2 DEF Carries, Placed

\* A flow is parked under an id of its own.
LEMMA ParkKeeps ==
  ASSUME ConstantsOK, FlInv, NEW r \in Requests, Park(r)
  PROVE  FlInv'
<1>1. PICK h : h = request[r]
  OBVIOUS
<1>2. h \in Handler /\ Carries(h) /\ h.step = "park"
  BY <1>1, AtHandler DEF Park, At
<1>3. ~h.verified
  BY <1>2 DEF Carries, Placed
<1>4. PICK p : p = [h.pend EXCEPT !.created = now]
  OBVIOUS
<1>5. PICK id : id = nextFlow
  OBVIOUS
<1>6. p \in Pending /\ p.user = h.pend.user /\ p.txn = h.pend.txn /\ p.asked = h.pend.asked
      /\ p.acr = h.pend.acr /\ p.target = h.pend.target
  <2>1. now \in 0..MaxTime
    BY NumbersOK DEF FlInv, TypeOK
  <2>2. h.pend \in Pending
    BY <1>2, HandlerFields
  <2> QED
    BY <1>4, <2>1, <2>2 DEF Pending
<1>7. Warranted(p)
  BY <1>2, <1>6, WarrantedFields DEF Carries, Warranted, Earned
<1>8. PICK k : k = [h EXCEPT !.step = "track", !.id = id, !.pend = p]
  OBVIOUS
<1>9. k \in Handler /\ k.pend = p /\ k.step = "track" /\ ~k.verified
  <2>1. k = [step |-> "track", pend |-> p, id |-> id, stages |-> h.stages,
             cursor |-> h.cursor, risky |-> h.risky, verified |-> h.verified]
    BY <1>2, <1>8 DEF Handler
  <2>2. id \in FlowIds
    BY <1>5 DEF Park
  <2> QED
    BY <1>2, <1>3, <1>6, <2>1, <2>2, HandlerFields DEF Handler
<1>10. Carries(k)
  BY <1>7, <1>9 DEF Carries, Placed
<1>11. Go(r, k) /\ parked' = Store(id, p)
  BY <1>1, <1>4, <1>5, <1>8 DEF Park
<1>12. UNCHANGED <<now, tracked, ledger, advice, challenge, passkey, History, mishaps>>
       /\ nextFlow' = nextFlow + 1 /\ nextFlow \in FlowIds
  BY DEF Park
<1>13. \A f \in FlowIds : parked'[f] \in {parked[f], NoFlow, p}
  BY <1>11 DEF Store
<1>14. parked' \in [FlowIds -> Pending \cup {NoFlow}]
  BY <1>6, <1>11 DEF Store, FlInv, TypeOK
<1>15. nextFlow' \in 1..NumFlows + 1
  BY <1>12, NumbersOK DEF FlowIds
<1>16. MemoryOK'
  BY <1>12, <1>14, <1>15 DEF FlInv, TypeOK, MemoryOK
<1>17. HistoriesOK' /\ LedgerEarned' /\ Reported'
  BY <1>12 DEF FlInv, HistoriesOK, LedgerEarned, Reported, History
<1>18. Grows
  BY <1>12, SameGrows DEF FlInv, History
<1>19. Carries(k)' /\ Warranted(p)'
  BY <1>6, <1>7, <1>9, <1>10, <1>17, <1>18, CarriesStays, WarrantedStays DEF FlInv
<1> QED
  BY <1>6, <1>9, <1>11, <1>13, <1>16, <1>17, <1>18, <1>19, Moves

\* A step that changes the maps in memory, but writes no flow.
LEMMA MemoryMoves ==
  ASSUME ConstantsOK, FlInv, NEW r \in Requests, NEW h \in Handler \cup {Idle}, Go(r, h),
         h # Idle => Carries(h), MemoryOK',
         UNCHANGED <<ledger, advice, History>>,
         \A f \in FlowIds : parked'[f] \in {parked[f], NoFlow}
  PROVE  FlInv'
<1>1. HistoriesOK' /\ LedgerEarned' /\ Reported'
  BY DEF FlInv, HistoriesOK, LedgerEarned, Reported, History
<1>2. Grows
  BY SameGrows DEF FlInv, History
<1>3. h # Idle => Carries(h)'
  BY <1>1, <1>2, CarriesStays DEF FlInv
<1>4. \A f \in FlowIds : parked'[f] \in {parked[f], NoFlow, NoFlow}
  OBVIOUS
<1> QED
  BY <1>1, <1>2, <1>3, <1>4, Moves

\* The console's map learns of the flow.
LEMMA TrackKeeps ==
  ASSUME ConstantsOK, FlInv, NEW r \in Requests, Track(r)
  PROVE  FlInv'
<1>1. PICK h : h = request[r]
  OBVIOUS
<1>2. h \in Handler
  BY <1>1, AtHandler DEF Track, At
<1>3. h.pend.created \in 0..MaxTime
  BY <1>2, HandlerFields, PendingFields
<1>4. tracked' \in [FlowIds -> 0..MaxTime]
  <2>1. tracked' = [f \in FlowIds |-> IF f = h.id THEN h.pend.created
                                      ELSE IF Live(tracked[f]) THEN tracked[f] ELSE 0]
    BY <1>1 DEF Track
  <2>2. 0 \in 0..MaxTime
    BY NumbersOK
  <2> QED
    BY <1>3, <2>1, <2>2 DEF FlInv, TypeOK
<1>5. UNCHANGED <<now, parked, nextFlow, ledger, advice, challenge, passkey, History>>
      /\ Go(r, Idle)
  BY DEF Track, Answer
<1>6. MemoryOK'
  BY <1>4, <1>5 DEF FlInv, TypeOK, MemoryOK
<1> QED
  BY <1>5, <1>6, MemoryMoves

\* A verification or a registration takes a copy of a live flow; an expired
\* one is deleted.
LEMMA ResumeKeeps ==
  ASSUME ConstantsOK, FlInv, NEW r \in Requests, NEW id \in FlowIds,
         NEW step \in {"verify", "finish"}, Resume(r, id, step)
  PROVE  FlInv'
<1>1. CASE HasFlow(id)
  <2>1. PICK p : p = parked[id]
    OBVIOUS
  <2>2. p \in Pending /\ Warranted(p)
    BY <1>1, <2>1 DEF HasFlow, FlInv, TypeOK
  <2>3. PICK h : h = [step |-> step, pend |-> p, id |-> id, stages |-> <<>>,
                      cursor |-> 1, risky |-> FALSE, verified |-> FALSE]
    OBVIOUS
  <2>4. Go(r, h) /\ UNCHANGED <<now, Memory, advice, challenge, passkey, History>>
    BY <1>1, <2>1, <2>3 DEF Resume, Memory
  <2>5. h \in Handler /\ Carries(h)
    BY <2>2, <2>3, CopyCarries
  <2> QED
    BY <2>4, <2>5, OnlyMoves
<1>2. CASE ~HasFlow(id)
  <2>1. PICK h : h = request[r]
    OBVIOUS
  <2>2. h \in Handler \cup {Idle} /\ (h # Idle => Carries(h)) /\ Go(r, h)
    BY <1>2, <2>1 DEF Resume, Go, FlInv, TypeOK, Busy
  <2>3. /\ UNCHANGED <<now, tracked, nextFlow, ledger, advice, challenge, passkey, History>>
        /\ parked' = [parked EXCEPT ![id] = NoFlow]
    BY <1>2 DEF Resume
  <2>4. MemoryOK' /\ \A f \in FlowIds : parked'[f] \in {parked[f], NoFlow}
    BY <2>3 DEF FlInv, TypeOK, MemoryOK
  <2> QED
    BY <2>2, <2>3, <2>4, MemoryMoves
<1> QED
  BY <1>1, <1>2

\* The challenge is looked up as the call arrives.
LEMMA ArriveKeeps ==
  ASSUME ConstantsOK, FlInv, NEW r \in Requests, Arrive(r)
  PROVE  FlInv'
<1>1. PICK h : h = request[r]
  OBVIOUS
<1>2. h \in Handler /\ Carries(h) /\ h.step = "verify"
  BY <1>1, AtHandler DEF Arrive, At
<1>3. ~h.verified
  BY <1>2 DEF Carries, Placed
<1>4. CASE Answer(r)
  BY <1>4, AnswerKeeps DEF Arrive
<1>5. CASE \E step \in {"answer", "drop"} : Go(r, [h EXCEPT !.step = step])
  BY <1>2, <1>3, <1>5, GotoCarries, OnlyMoves DEF Arrive
<1> QED
  BY <1>1, <1>4, <1>5 DEF Arrive, Goto

\* One level or the other.
LEMMA RanksTotal ==
  ASSUME ConstantsOK, NEW a \in Ranks, NEW b \in Ranks
  PROVE  a <= a /\ (~(a > b) => a <= b) /\ (a > b => b <= a)
BY NumbersOK DEF Ranks

\* A right response proves the target level; the flow goes on only if the
\* answer arrives.
LEMMA RightResponseKeeps ==
  ASSUME ConstantsOK, FlInv, NEW r \in Requests, RightResponse(r)
  PROVE  FlInv'
<1>1. PICK h : h = request[r]
  OBVIOUS
<1>2. h \in Handler /\ Carries(h) /\ h.step = "answer"
  BY <1>1, AtHandler DEF RightResponse, At
<1>3. PICK u, rank : u = h.pend.user /\ rank = h.pend.target
  OBVIOUS
<1>4. u \in Users /\ rank \in Ranks /\ proved \in [Users -> Ranks]
  BY <1>2, <1>3, HandlerFields, PendingFields DEF FlInv, HistoriesOK
<1>5. /\ proved' = [proved EXCEPT ![u] = IF rank > @ THEN rank ELSE @]
      /\ challenge' = [challenge EXCEPT ![h.pend.chal] = "done"]
      /\ UNCHANGED <<now, Memory, advice, passkey, mishaps, issued, minted, emitted>>
  BY <1>1, <1>3 DEF RightResponse, Raise
<1>6. proved' \in [Users -> Ranks] /\ rank <= proved'[u]
      /\ \A v \in Users : proved[v] <= proved'[v]
  <2>1. \A v \in Users : proved[v] \in Ranks
    BY <1>4
  <2>2. proved'[u] \in Ranks /\ rank <= proved'[u] /\ proved[u] <= proved'[u]
    BY <1>4, <1>5, <2>1, RanksTotal
  <2>3. \A v \in Users : v # u => proved'[v] = proved[v]
    BY <1>4, <1>5
  <2>4. \A v \in Users : proved[v] <= proved'[v]
    BY <2>1, <2>2, <2>3, RanksTotal
  <2> QED
    BY <1>4, <1>5, <2>2, <2>4
<1>7. HistoriesOK' /\ Reported'
  BY <1>5, <1>6 DEF FlInv, HistoriesOK, Reported
<1>8. Grows
  BY <1>5, <1>6 DEF Grows
<1>9. LedgerEarned'
  <2>1. ASSUME NEW v \in Users
        PROVE  ledger'[v].rank <= proved'[v]
    <3>1. ledger[v].rank \in Ranks /\ proved[v] \in Ranks /\ proved'[v] \in Ranks
          /\ ledger[v].rank <= proved[v] /\ proved[v] <= proved'[v]
      BY <1>4, <1>6 DEF FlInv, TypeOK, LedgerEarned
    <3>2. ledger[v].rank <= proved'[v]
      BY <3>1, RanksOrdered
    <3> QED
      BY <1>5, <3>2 DEF Memory
  <2> QED
    BY <2>1 DEF LedgerEarned
<1>10. MemoryOK'
  <2>1. challenge' \in [ChallengeIds -> {"unborn", "open", "done"}]
    BY <1>5 DEF FlInv, TypeOK
  <2> QED
    BY <1>5, <2>1 DEF FlInv, TypeOK, MemoryOK, Memory
<1>11. \A f \in FlowIds : parked'[f] \in {parked[f], NoFlow, NoFlow}
  BY <1>5 DEF Memory
<1>12. CASE Answer(r)
  BY <1>7, <1>8, <1>9, <1>10, <1>11, <1>12, Moves DEF Answer
<1>13. CASE Go(r, [h EXCEPT !.step = "drop", !.verified = TRUE])
  <2>1. PICK k : k = [h EXCEPT !.step = "drop", !.verified = TRUE]
    OBVIOUS
  <2>2. k \in Handler /\ k.pend = h.pend /\ k.step = "drop" /\ k.verified
    BY <1>2, <2>1 DEF Handler
  <2>3. Warranted(h.pend)'
    BY <1>2, <1>7, <1>8, CarriesStays DEF FlInv, Carries
  <2>4. Placed(k)'
    BY <1>3, <1>6, <2>2 DEF Placed
  <2>5. Carries(k)'
    BY <2>2, <2>3, <2>4 DEF Carries
  <2> QED
    BY <1>7, <1>8, <1>9, <1>10, <1>11, <1>13, <2>1, <2>2, <2>5, Moves
<1> QED
  BY <1>1, <1>12, <1>13 DEF RightResponse

\* A wrong response ends the flow with the challenge, or ends nothing.
LEMMA WrongResponseKeeps ==
  ASSUME ConstantsOK, FlInv, NEW r \in Requests, WrongResponse(r)
  PROVE  FlInv'
<1>1. PICK h : h = request[r]
  OBVIOUS
<1>2. h \in Handler /\ Carries(h) /\ h.step = "answer"
  BY <1>1, AtHandler DEF WrongResponse, At
<1>3. ~h.verified
  BY <1>2 DEF Carries, Placed
<1>4. /\ UNCHANGED <<now, Memory, advice, passkey, History>>
      /\ challenge' \in {challenge, [challenge EXCEPT ![h.pend.chal] = "done"]}
  BY <1>1 DEF WrongResponse
<1>5. MemoryOK' /\ \A f \in FlowIds : parked'[f] \in {parked[f], NoFlow}
  BY <1>4 DEF FlInv, TypeOK, MemoryOK, Memory
<1>6. PICK k : k = [h EXCEPT !.step = "drop"]
  OBVIOUS
<1>7. k \in Handler /\ Carries(k)
  BY <1>2, <1>3, <1>6, GotoCarries
<1>8. Go(r, Idle) \/ Go(r, k)
  BY <1>1, <1>6 DEF WrongResponse, Answer, Goto
<1> QED
  BY <1>4, <1>5, <1>7, <1>8, MemoryMoves DEF Memory

\* The flow is dropped.
LEMMA DropFlowKeeps ==
  ASSUME ConstantsOK, FlInv, NEW r \in Requests, DropFlow(r)
  PROVE  FlInv'
<1>1. PICK h : h = request[r]
  OBVIOUS
<1>2. h \in Handler /\ Carries(h) /\ h.step = "drop"
  BY <1>1, AtHandler DEF DropFlow, At
<1>3. Go(r, [h EXCEPT !.step = "untrack"])
  BY <1>1 DEF DropFlow, Goto
<1>4. /\ UNCHANGED <<now, tracked, nextFlow, ledger, advice, challenge, passkey, History>>
      /\ parked' = [parked EXCEPT ![h.id] = NoFlow]
  BY <1>1 DEF DropFlow
<1>5. MemoryOK' /\ \A f \in FlowIds : parked'[f] \in {parked[f], NoFlow}
  BY <1>4 DEF FlInv, TypeOK, MemoryOK
<1>6. PICK k : k = [h EXCEPT !.step = "untrack"]
  OBVIOUS
<1>7. k \in Handler /\ Carries(k)
  BY <1>2, <1>6, GotoCarries
<1> QED
  BY <1>3, <1>4, <1>5, <1>6, <1>7, MemoryMoves

\* The console's map forgets the flow; a verified one goes on.
LEMMA UntrackKeeps ==
  ASSUME ConstantsOK, FlInv, NEW r \in Requests, Untrack(r)
  PROVE  FlInv'
<1>1. PICK h : h = request[r]
  OBVIOUS
<1>2. h \in Handler /\ Carries(h) /\ h.step = "untrack"
  BY <1>1, AtHandler DEF Untrack, At
<1>3. /\ UNCHANGED <<now, parked, nextFlow, ledger, advice, challenge, passkey, History>>
      /\ tracked' = [tracked EXCEPT ![h.id] = 0]
  BY <1>1 DEF Untrack
<1>4. tracked' \in [FlowIds -> 0..MaxTime]
  <2>1. 0 \in 0..MaxTime
    BY NumbersOK
  <2> QED
    BY <1>3, <2>1 DEF FlInv, TypeOK
<1>5. MemoryOK' /\ \A f \in FlowIds : parked'[f] \in {parked[f], NoFlow}
  BY <1>3, <1>4 DEF FlInv, TypeOK, MemoryOK
<1>6. CASE h.verified
  <2>1. PICK step \in {"record", "mint"} : Go(r, [h EXCEPT !.step = step])
    BY <1>1, <1>6 DEF Untrack, Goto
  <2>2. PICK k : k = [h EXCEPT !.step = step]
    OBVIOUS
  <2>3. k \in Handler /\ k.pend = h.pend /\ k.step = step /\ k.verified
    BY <1>2, <1>6, <2>2 DEF Handler
  <2>4. Carries(k)
    BY <1>2, <1>6, <2>3 DEF Carries, Placed
  <2> QED
    BY <1>3, <1>5, <2>1, <2>2, <2>3, <2>4, MemoryMoves
<1>7. CASE ~h.verified
  <2>1. Go(r, Idle)
    BY <1>1, <1>7 DEF Untrack, Answer
  <2> QED
    BY <1>3, <1>5, <2>1, MemoryMoves
<1> QED
  BY <1>6, <1>7

\* The ledger is credited with what was proved.
LEMMA RecordKeeps ==
  ASSUME ConstantsOK, FlInv, NEW r \in Requests, Record(r)
  PROVE  FlInv'
<1>1. PICK h : h = request[r]
  OBVIOUS
<1>2. h \in Handler /\ Carries(h) /\ h.step = "record"
  BY <1>1, AtHandler DEF Record, At
<1>3. PICK u, rank : u = h.pend.user /\ rank = h.pend.target
  OBVIOUS
<1>4. u \in Users /\ rank \in Ranks /\ rank <= proved[u] /\ h.verified /\ proved[u] \in Ranks
  BY <1>2, <1>3, HandlerFields, PendingFields DEF FlInv, HistoriesOK, Carries, Placed
<1>5. Achieved(u) \in Ranks /\ Achieved(u) <= proved[u]
  <2>1. ledger[u].rank \in Ranks /\ ledger[u].rank <= proved[u]
    BY <1>4 DEF FlInv, TypeOK, LedgerEarned
  <2>2. 0 \in Ranks /\ 0 <= proved[u]
    BY <1>4, NumbersOK DEF Ranks
  <2> QED
    BY <2>1, <2>2 DEF Achieved
<1>6. PICK most \in Ranks :
        /\ most <= proved[u]
        /\ ledger' = [ledger EXCEPT ![u] = [rank |-> most, at |-> now]]
  BY <1>1, <1>3, <1>4, <1>5 DEF Record
<1>7. UNCHANGED <<now, parked, tracked, nextFlow, advice, challenge, passkey, History, mishaps>>
  BY DEF Record
<1>8. MemoryOK'
  <2>1. now \in 0..MaxTime
    BY NumbersOK DEF FlInv, TypeOK
  <2>2. ledger' \in [Users -> [rank : Ranks, at : 0..MaxTime]]
    BY <1>6, <2>1 DEF FlInv, TypeOK
  <2> QED
    BY <1>7, <2>2 DEF FlInv, TypeOK, MemoryOK
<1>9. LedgerEarned'
  <2>1. ASSUME NEW v \in Users
        PROVE  ledger'[v].rank <= proved[v]
    <3>1. CASE v = u
      BY <1>4, <1>6, <3>1 DEF FlInv, TypeOK
    <3>2. CASE v # u
      BY <1>6, <3>2 DEF FlInv, TypeOK, LedgerEarned
    <3> QED
      BY <3>1, <3>2
  <2> QED
    BY <1>7, <2>1 DEF LedgerEarned, History
<1>10. HistoriesOK' /\ Reported'
  BY <1>7 DEF FlInv, HistoriesOK, Reported, History
<1>11. Grows
  BY <1>7, SameGrows DEF FlInv, History
<1>12. PICK p : p = [h.pend EXCEPT !.acr = rank]
  OBVIOUS
<1>13. p \in Pending /\ p.user = u /\ p.txn = h.pend.txn /\ p.asked = h.pend.asked
       /\ p.acr = rank /\ p.target = rank
  BY <1>2, <1>3, <1>4, <1>12, HandlerFields DEF Pending
<1>14. PICK k : k = [h EXCEPT !.step = "mint", !.pend.acr = rank]
  OBVIOUS
<1>15. k \in Handler /\ k.pend = p /\ k.step = "mint" /\ k.verified
  <2>1. k = [step |-> "mint", pend |-> p, id |-> h.id, stages |-> h.stages,
             cursor |-> h.cursor, risky |-> h.risky, verified |-> h.verified]
    BY <1>2, <1>12, <1>14 DEF Handler
  <2> QED
    BY <1>2, <1>4, <1>13, <2>1, HandlerFields DEF Handler
<1>16. Warranted(p)
  <2>1. Earned(p)
    BY <1>4, <1>13 DEF Earned
  <2> QED
    BY <1>2, <1>3, <1>13, <2>1, WarrantedFields DEF Carries
<1>17. Carries(k)
  BY <1>4, <1>13, <1>15, <1>16 DEF Carries, Placed
<1>18. Carries(k)'
  BY <1>10, <1>11, <1>15, <1>17, CarriesStays DEF FlInv
<1>19. Go(r, k)
  BY <1>1, <1>3, <1>14 DEF Record
<1>20. \A f \in FlowIds : parked'[f] \in {parked[f], NoFlow, NoFlow}
  BY <1>7
<1> QED
  BY <1>8, <1>9, <1>10, <1>11, <1>15, <1>18, <1>19, <1>20, Moves

\* A code is stored; one with a transaction goes on to complete it.
LEMMA MintKeeps ==
  ASSUME ConstantsOK, FlInv, NEW r \in Requests, Mint(r)
  PROVE  FlInv'
<1>1. PICK h : h = request[r]
  OBVIOUS
<1>2. h \in Handler /\ Carries(h) /\ h.step \in {"mint", "stage"}
  BY <1>1, AtHandler DEF Mint, Minting, StageIs, At
<1>3. PICK p : p = h.pend
  OBVIOUS
<1>4. p \in Pending
  BY <1>2, <1>3, HandlerFields
<1>5. PICK u, t : u = p.user /\ t = p.txn
  OBVIOUS
<1>6. u \in Users /\ t \in Txns \cup {NoTxn}
  BY <1>4, <1>5, PendingFields
<1>7. UNCHANGED <<now, Memory, advice, challenge, passkey, mishaps, emitted, proved>>
  BY DEF Mint
<1>8. issued' = issued \cup {<<u, t>>}
  BY <1>1, <1>3, <1>5 DEF Mint
<1>9. HistoriesOK'
  <2>1. minted' \in [FlowIds -> Nat]
    <3>1. minted' = IF h.id = 0 THEN minted ELSE [minted EXCEPT ![h.id] = @ + 1]
      BY <1>1 DEF Mint
    <3>2. minted \in [FlowIds -> Nat]
      BY DEF FlInv, HistoriesOK
    <3>3. CASE h.id \in FlowIds
      <4>1. minted[h.id] + 1 \in Nat
        BY <3>2, <3>3
      <4> QED
        BY <3>1, <3>2, <4>1
    <3>4. CASE h.id = 0
      BY <3>1, <3>2, <3>4
    <3> QED
      BY <1>2, <3>3, <3>4, HandlerFields
  <2>2. issued' \subseteq Users \X (Txns \cup {NoTxn})
    BY <1>6, <1>8 DEF FlInv, HistoriesOK
  <2> QED
    BY <1>7, <2>1, <2>2 DEF FlInv, HistoriesOK
<1>10. Reported' /\ LedgerEarned' /\ MemoryOK'
  BY <1>7, <1>8 DEF FlInv, Reported, LedgerEarned, TypeOK, MemoryOK, Memory
<1>11. Grows
  <2>1. \A v \in Users : proved[v] <= proved'[v]
    BY <1>7, RanksTotal DEF FlInv, HistoriesOK
  <2> QED
    BY <1>7, <1>8, <2>1 DEF Grows
<1>12. \A f \in FlowIds : parked'[f] \in {parked[f], NoFlow, NoFlow}
  BY <1>7 DEF Memory
<1>13. CASE t = NoTxn
  <2>1. Go(r, Idle)
    BY <1>1, <1>3, <1>5, <1>13 DEF Mint, Answer
  <2> QED
    BY <1>9, <1>10, <1>11, <1>12, <2>1, Moves
<1>14. CASE t # NoTxn
  <2>1. PICK k : k = [step |-> "complete", pend |-> p, id |-> h.id, stages |-> <<>>,
                      cursor |-> 1, risky |-> FALSE, verified |-> h.verified]
    OBVIOUS
  <2>2. Go(r, k)
    BY <1>1, <1>3, <1>5, <1>14, <2>1 DEF Mint, Leave
  <2>3. k \in Handler
    BY <1>2, <1>4, <2>1, HandlerFields DEF Handler
  <2>4. k.pend = p /\ k.step = "complete" /\ k.verified = h.verified
    BY <2>1
  <2>5. Carries(h)'
    BY <1>2, <1>9, <1>11, CarriesStays DEF FlInv
  <2>6. t \in Txns /\ <<u, t>> \in issued'
    BY <1>6, <1>8, <1>14
  <2>7. Warranted(p)'
    BY <1>3, <2>5 DEF Carries
  <2>8. Placed(k)'
    BY <1>3, <1>5, <2>4, <2>5, <2>6 DEF Carries, Placed
  <2>9. Carries(k)'
    BY <2>4, <2>7, <2>8 DEF Carries
  <2> QED
    BY <1>9, <1>10, <1>11, <1>12, <2>2, <2>3, <2>9, Moves
<1> QED
  BY <1>13, <1>14

\* A code that cannot be stored is answered with an error.
LEMMA MintFailsKeeps ==
  ASSUME ConstantsOK, FlInv, NEW r \in Requests, MintFails(r)
  PROVE  FlInv'
BY AnswerKeeps DEF MintFails

\* The transaction is completed, and reported, by whoever comes first.
LEMMA CompleteKeeps ==
  ASSUME ConstantsOK, FlInv, NEW r \in Requests, Complete(r)
  PROVE  FlInv'
<1>1. PICK h : h = request[r]
  OBVIOUS
<1>2. h \in Handler /\ Carries(h) /\ h.step = "complete"
  BY <1>1, AtHandler DEF Complete, At
<1>3. PICK u, t : u = h.pend.user /\ t = h.pend.txn
  OBVIOUS
<1>4. u \in Users /\ t \in Txns /\ <<u, t>> \in issued /\ u # NoUser
  BY <1>2, <1>3, HandlerFields, PendingFields, NumbersOK DEF Carries, Placed
<1>5. /\ Go(r, Idle)
      /\ UNCHANGED <<now, Memory, challenge, passkey, mishaps, issued, minted, proved>>
  BY DEF Complete, Answer
<1>6. CASE Open(t)
  <2>1. /\ advice' = [advice EXCEPT ![t].by = u]
        /\ emitted' = [emitted EXCEPT ![t] = @ + 1]
    BY <1>1, <1>3, <1>6 DEF Complete
  <2>2. advice[t].by = NoUser
    BY <1>6 DEF Open
  <2>3. advice' \in [Txns -> [rank : Ranks, user : Users \cup {NoUser},
                              by : Users \cup {NoUser}]]
    BY <1>4, <2>1 DEF FlInv, TypeOK
  <2>4. \A s \in Txns : advice'[s].rank = advice[s].rank /\ advice'[s].user = advice[s].user
    BY <1>4, <2>1 DEF FlInv, TypeOK
  <2>5. advice'[t].by = u /\ \A s \in Txns \ {t} : advice'[s] = advice[s]
    BY <1>4, <2>1 DEF FlInv, TypeOK
  <2>6. MemoryOK'
    BY <1>5, <2>3 DEF FlInv, TypeOK, MemoryOK, Memory
  <2>7. emitted' \in [Txns -> Nat] /\ emitted'[t] = emitted[t] + 1
        /\ \A s \in Txns \ {t} : emitted'[s] = emitted[s]
    BY <1>4, <2>1 DEF FlInv, HistoriesOK
  <2>8. HistoriesOK'
    BY <1>5, <2>7 DEF FlInv, HistoriesOK
  <2>9. emitted[t] = 0
    BY <1>4, <2>2 DEF FlInv, Reported
  <2>10. Reported'
    <3>1. ASSUME NEW s \in Txns
          PROVE  /\ emitted'[s] = IF advice'[s].by = NoUser THEN 0 ELSE 1
                 /\ advice'[s].by # NoUser => <<advice'[s].by, s>> \in issued'
      <4>1. CASE s = t
        BY <1>4, <1>5, <2>5, <2>7, <2>9, <4>1
      <4>2. CASE s # t
        BY <1>5, <2>5, <2>7, <4>2 DEF FlInv, Reported
      <4> QED
        BY <4>1, <4>2
    <3> QED
      BY <3>1 DEF Reported
  <2>11. LedgerEarned'
    BY <1>5 DEF FlInv, LedgerEarned, Memory
  <2>12. Grows
    <3>1. \A v \in Users : proved[v] <= proved'[v]
      BY <1>5, RanksTotal DEF FlInv, HistoriesOK
    <3> QED
      BY <1>5, <2>4, <3>1 DEF Grows
  <2>13. \A f \in FlowIds : parked'[f] \in {parked[f], NoFlow, NoFlow}
    BY <1>5 DEF Memory
  <2> QED
    BY <1>5, <2>6, <2>8, <2>10, <2>11, <2>12, <2>13, Moves
<1>7. CASE ~Open(t)
  <2>1. UNCHANGED <<advice, emitted>>
    BY <1>1, <1>3, <1>7 DEF Complete
  <2> QED
    BY <1>5, <2>1, AnswerKeeps DEF Complete, History
<1> QED
  BY <1>6, <1>7

\* A passkey is registered.
LEMMA FinishRegistrationKeeps ==
  ASSUME ConstantsOK, FlInv, NEW r \in Requests, FinishRegistration(r)
  PROVE  FlInv'
<1>1. PICK h : h = request[r]
  OBVIOUS
<1>2. h \in Handler /\ Carries(h) /\ h.step = "finish"
  BY <1>1, AtHandler DEF FinishRegistration, At
<1>3. ~h.verified
  BY <1>2 DEF Carries, Placed
<1>4. h.pend.user \in Users
  BY <1>2, HandlerFields, PendingFields
<1>5. /\ UNCHANGED <<now, Memory, advice, challenge, History>>
      /\ passkey' = passkey \cup {h.pend.user}
      /\ Go(r, [h EXCEPT !.step = "rechallenge"])
  BY <1>1 DEF FinishRegistration, Goto
<1>6. MemoryOK' /\ \A f \in FlowIds : parked'[f] \in {parked[f], NoFlow}
  BY <1>4, <1>5 DEF FlInv, TypeOK, MemoryOK, Memory
<1>7. PICK k : k = [h EXCEPT !.step = "rechallenge"]
  OBVIOUS
<1>8. k \in Handler /\ Carries(k)
  BY <1>2, <1>3, <1>7, GotoCarries
<1> QED
  BY <1>5, <1>6, <1>7, <1>8, MemoryMoves DEF Memory

\* The copy of the flow is written back with its new challenge.
LEMMA ReparkKeeps ==
  ASSUME ConstantsOK, FlInv, NEW r \in Requests, Repark(r)
  PROVE  FlInv'
<1>1. PICK h : h = request[r]
  OBVIOUS
<1>2. h \in Handler /\ Carries(h) /\ h.step = "repark"
  BY <1>1, AtHandler DEF Repark, At
<1>3. PICK p : p = h.pend
  OBVIOUS
<1>4. p \in Pending /\ Warranted(p)
  BY <1>2, <1>3, HandlerFields DEF Carries
<1>5. /\ Go(r, Idle) /\ parked' = Store(h.id, p)
      /\ UNCHANGED <<now, tracked, nextFlow, ledger, advice, challenge, passkey, History>>
  BY <1>1, <1>3 DEF Repark, Answer
<1>6. \A f \in FlowIds : parked'[f] \in {parked[f], NoFlow, p}
  BY <1>5 DEF Store
<1>7. parked' \in [FlowIds -> Pending \cup {NoFlow}]
  BY <1>4, <1>5 DEF Store, FlInv, TypeOK
<1>8. MemoryOK'
  BY <1>5, <1>7 DEF FlInv, TypeOK, MemoryOK
<1>9. HistoriesOK' /\ LedgerEarned' /\ Reported'
  BY <1>5 DEF FlInv, HistoriesOK, LedgerEarned, Reported, History
<1>10. Grows
  BY <1>5, SameGrows DEF FlInv, History
<1>11. Warranted(p)'
  BY <1>4, <1>9, <1>10, WarrantedStays DEF FlInv
<1> QED
  BY <1>4, <1>5, <1>6, <1>8, <1>9, <1>10, <1>11, Moves

-----------------------------------------------------------------------------
(* Around the handlers.                                                      *)

\* A step that no handler makes: the handlers stay, or the process restarts.
LEMMA Around ==
  ASSUME ConstantsOK, FlInv, Grows, HistoriesOK', MemoryOK', LedgerEarned', Reported',
         \/ UNCHANGED <<request, parked>>
         \/ /\ request' = [r \in Requests |-> Idle]
            /\ parked' = [f \in FlowIds |-> NoFlow]
  PROVE  FlInv'
<1>1. TypeOK'
  BY DEF FlInv, TypeOK, MemoryOK
<1>2. CASE UNCHANGED <<request, parked>>
  <2>1. ASSUME NEW f \in FlowIds, parked[f] # NoFlow
        PROVE  Warranted(parked[f])'
    <3>1. PICK p : p = parked[f] /\ p = parked'[f]
      BY <1>2
    <3>2. p \in Pending /\ Warranted(p)
      BY <2>1, <3>1 DEF FlInv, TypeOK
    <3>3. Warranted(p)'
      BY <3>2, WarrantedStays DEF FlInv
    <3> QED
      BY <3>1, <3>3 DEF Warranted, Earned, WithinAdvice
  <2>2. ASSUME NEW s \in Requests, Busy(s)
        PROVE  Carries(request[s])'
    <3>1. PICK g : g = request[s] /\ g = request'[s]
      BY <1>2
    <3>2. g \in Handler /\ Carries(g)
      BY <2>2, <3>1, HandlerKinds DEF FlInv, TypeOK, Busy
    <3>3. Carries(g)'
      BY <3>2, CarriesStays DEF FlInv
    <3> QED
      BY <3>1, <3>3 DEF Carries, Warranted, Earned, WithinAdvice, Placed
  <2> QED
    BY <1>1, <1>2, <2>1, <2>2 DEF FlInv, Busy
<1>3. CASE /\ request' = [r \in Requests |-> Idle]
           /\ parked' = [f \in FlowIds |-> NoFlow]
  <2>1. \A f \in FlowIds : parked'[f] = NoFlow
    BY <1>3
  <2>2. \A s \in Requests : ~Busy(s)'
    BY <1>3 DEF Busy
  <2> QED
    BY <1>1, <2>1, <2>2 DEF FlInv
<1> QED
  BY <1>2, <1>3

\* Advice is given for a transaction that has none.
LEMMA AdviseKeeps ==
  ASSUME ConstantsOK, FlInv, NEW t \in Txns, NEW a \in Advised, Advise(t, a.rank, a.user)
  PROVE  FlInv'
<1>1. a.rank \in Ranks /\ a.user \in Users \cup {NoUser}
  BY NumbersOK DEF ConstantsOK, Ranks
<1>2. PICK new : new = [rank |-> a.rank, user |-> a.user, by |-> NoUser]
  OBVIOUS
<1>3. /\ advice[t] = NoAdvice /\ advice' = [advice EXCEPT ![t] = new]
      /\ UNCHANGED <<now, Memory, challenge, passkey, request, History, mishaps>>
  BY <1>2 DEF Advise
<1>4. advice' \in [Txns -> [rank : Ranks, user : Users \cup {NoUser},
                            by : Users \cup {NoUser}]]
  BY <1>1, <1>2, <1>3 DEF FlInv, TypeOK
<1>5. advice[t].rank = 0 /\ advice[t].by = NoUser /\ advice'[t].by = NoUser
      /\ \A s \in Txns \ {t} : advice'[s] = advice[s]
  BY <1>2, <1>3 DEF NoAdvice, FlInv, TypeOK
<1>6. MemoryOK'
  BY <1>3, <1>4 DEF FlInv, TypeOK, MemoryOK, Memory
<1>7. HistoriesOK' /\ LedgerEarned'
  BY <1>3 DEF FlInv, HistoriesOK, LedgerEarned, Memory, History
<1>8. Reported'
  <2>1. ASSUME NEW s \in Txns
        PROVE  /\ emitted'[s] = IF advice'[s].by = NoUser THEN 0 ELSE 1
               /\ advice'[s].by # NoUser => <<advice'[s].by, s>> \in issued'
    <3>1. CASE s = t
      BY <1>3, <1>5, <3>1 DEF FlInv, Reported, History
    <3>2. CASE s # t
      BY <1>3, <1>5, <3>2 DEF FlInv, Reported, History
    <3> QED
      BY <3>1, <3>2
  <2> QED
    BY <2>1 DEF Reported
<1>9. Grows
  <2>1. \A v \in Users : proved[v] <= proved'[v]
    BY <1>3, RanksTotal DEF FlInv, HistoriesOK, History
  <2>2. ASSUME NEW s \in Txns, advice[s].rank > 0
        PROVE  advice'[s].rank = advice[s].rank /\ advice'[s].user = advice[s].user
    <3>1. s # t
      BY <1>5, <2>2
    <3> QED
      BY <1>5, <3>1
  <2> QED
    BY <1>3, <2>1, <2>2 DEF Grows, History
<1>10. UNCHANGED <<request, parked>>
  BY <1>3 DEF Memory
<1> QED
  BY <1>6, <1>7, <1>8, <1>9, <1>10, Around

\* Challenges expire, passkeys are disabled, the clock ticks, the process
\* restarts.
LEMMA OthersKeep ==
  ASSUME ConstantsOK, FlInv,
         \/ \E c \in ChallengeIds : ChallengeExpires(c)
         \/ \E u \in Users : DisablePasskey(u)
         \/ Tick
         \/ Restart
  PROVE  FlInv'
<1>1. UNCHANGED <<advice, History>>
  BY DEF ChallengeExpires, DisablePasskey, Tick, Restart
<1>2. HistoriesOK' /\ Reported'
  BY <1>1 DEF FlInv, HistoriesOK, Reported, History
<1>3. Grows
  BY <1>1, SameGrows DEF FlInv, History
<1>4. CASE Restart
  <2>1. /\ request' = [r \in Requests |-> Idle]
        /\ parked' = [f \in FlowIds |-> NoFlow]
        /\ tracked' = [f \in FlowIds |-> 0]
        /\ ledger' = [u \in Users |-> [rank |-> 0, at |-> 0]]
        /\ UNCHANGED <<now, nextFlow, advice, challenge, passkey, History>>
    BY <1>4 DEF Restart
  <2>2. 0 \in 0..MaxTime /\ 0 \in Ranks /\ \A rank \in Ranks : 0 <= rank
    BY NumbersOK DEF Ranks
  <2>3. tracked' \in [FlowIds -> 0..MaxTime]
    BY <2>1, <2>2
  <2>4. ledger' \in [Users -> [rank : Ranks, at : 0..MaxTime]]
    BY <2>1, <2>2
  <2>5. parked' \in [FlowIds -> Pending \cup {NoFlow}]
    BY <2>1
  <2>6. MemoryOK'
    BY <2>1, <2>3, <2>4, <2>5 DEF FlInv, TypeOK, MemoryOK
  <2>7. LedgerEarned'
    <3>1. \A v \in Users : proved[v] \in Ranks /\ proved'[v] = proved[v]
      BY <2>1 DEF FlInv, HistoriesOK, History
    <3>2. \A v \in Users : ledger'[v].rank = 0
      BY <2>1
    <3> QED
      BY <2>2, <3>1, <3>2 DEF LedgerEarned
  <2> QED
    BY <1>2, <1>3, <2>1, <2>6, <2>7, Around
<1>5. CASE \/ \E c \in ChallengeIds : ChallengeExpires(c)
           \/ \E u \in Users : DisablePasskey(u)
           \/ Tick
  <2>1. UNCHANGED <<Memory, request>>
    BY <1>5 DEF ChallengeExpires, DisablePasskey, Tick
  <2>2. LedgerEarned'
    BY <1>1, <2>1 DEF FlInv, LedgerEarned, Memory, History
  <2>3. now' \in 1..MaxTime
    BY <1>5, NumbersOK DEF ChallengeExpires, DisablePasskey, Tick, FlInv, TypeOK
  <2>4. challenge' \in [ChallengeIds -> {"unborn", "open", "done"}]
    BY <1>5 DEF ChallengeExpires, DisablePasskey, Tick, FlInv, TypeOK
  <2>5. passkey' \subseteq Users
    BY <1>5 DEF ChallengeExpires, DisablePasskey, Tick, FlInv, TypeOK
  <2>6. MemoryOK'
    BY <1>1, <2>1, <2>3, <2>4, <2>5 DEF FlInv, TypeOK, MemoryOK, Memory
  <2>7. UNCHANGED <<request, parked>>
    BY <2>1 DEF Memory
  <2> QED
    BY <1>2, <1>3, <2>2, <2>6, <2>7, Around
<1> QED
  BY <1>4, <1>5

\* Nothing happens.
LEMMA StutterKeeps ==
  ASSUME ConstantsOK, FlInv, UNCHANGED vars
  PROVE  FlInv'
<1>1. HistoriesOK' /\ Reported' /\ LedgerEarned' /\ MemoryOK'
  BY DEF vars, Memory, History, FlInv, HistoriesOK, Reported, LedgerEarned, TypeOK, MemoryOK
<1>2. Grows /\ UNCHANGED <<request, parked>>
  BY SameGrows DEF vars, Memory, History, FlInv
<1> QED
  BY <1>1, <1>2, Around

\* Every step preserves the invariant.
LEMMA NextInv == ASSUME ConstantsOK PROVE FlInv /\ [Next]_vars => FlInv'
<1> SUFFICES ASSUME FlInv, [Next]_vars
             PROVE  FlInv'
  OBVIOUS
<1>1. ASSUME Environment
      PROVE  FlInv'
  BY <1>1, AdviseKeeps, OthersKeep DEF Environment
<1>2. ASSUME NEW r \in Requests, Step(r)
      PROVE  FlInv'
  BY <1>2, SkipKeeps, RiskEvaluationKeeps, DenyKeeps, AuthenticatorValidateKeeps, ListKeeps,
     CreateChallengeKeeps, ParkKeeps, TrackKeeps, ArriveKeeps, RightResponseKeeps,
     WrongResponseKeeps, CallFailsKeeps, DropFlowKeeps, UntrackKeeps, RecordKeeps, MintKeeps,
     MintFailsKeeps, CompleteKeeps, FinishRegistrationKeeps, ReparkKeeps DEF Step
<1>3. ASSUME NEW r \in Requests, Start(r)
      PROVE  FlInv'
  BY <1>3, AuthorizeKeeps, ResumeKeeps DEF Start, Verify, RegisterFinish
<1>4. CASE UNCHANGED vars
  BY <1>4, StutterKeeps
<1> QED
  BY <1>1, <1>2, <1>3, <1>4 DEF Next

-----------------------------------------------------------------------------
(* What follows, however requests overlap.                                   *)

\* FlInv is an invariant.
THEOREM Invariance == ASSUME ConstantsOK PROVE Spec => []FlInv
<1>1. Init => FlInv
  BY InitInv
<1>2. FlInv /\ [Next]_vars => FlInv'
  BY NextInv
<1> QED
  BY <1>1, <1>2, PTL DEF Spec

\* The types of the ledger, of parked and running authorizations and of advice.
THEOREM TypeCorrect == ASSUME ConstantsOK PROVE Spec => []TypeOK
<1>1. FlInv => TypeOK
  BY DEF FlInv
<1> QED
  BY <1>1, Invariance, PTL

\* A transaction completes once, with a code its user holds, and risk-service
\* is told once (completeAdviceTransaction).
THEOREM CompletesOnce == ASSUME ConstantsOK PROVE Spec => [](CompletedOnce /\ CompletionBacked)
<1>1. FlInv => CompletedOnce /\ CompletionBacked
  <2> SUFFICES ASSUME FlInv, NEW t \in Txns
               PROVE  /\ emitted[t] <= 1
                      /\ advice[t].by # NoUser => <<advice[t].by, t>> \in issued
    BY DEF CompletedOnce, CompletionBacked
  <2>1. emitted[t] = 0 \/ emitted[t] = 1
    BY DEF FlInv, Reported
  <2> QED
    BY <2>1 DEF FlInv, Reported
<1> QED
  BY <1>1, Invariance, PTL

\* The request that mints carries what is warranted.
LEMMA MintsWarranted ==
  ASSUME FlInv, NEW r \in Requests, Mint(r)
  PROVE  Warranted(request[r].pend)
BY AtHandler DEF Mint, Minting, StageIs, At, Carries

\* A code carries no acr its user has not earned by a right response
\* (protection.go:186), and a code with a transaction was asked for as its
\* advice wants (oidc.go:314-319).
THEOREM CodesWarranted == ASSUME ConstantsOK PROVE Spec => AcrEarned /\ BoundToAdvice
<1>1. FlInv => MintsEarned /\ MintsWithinAdvice
  BY MintsWarranted DEF MintsEarned, MintsWithinAdvice, Warranted
<1>2. FlInv => [MintsEarned]_vars /\ [MintsWithinAdvice]_vars
  BY <1>1
<1> QED
  BY <1>2, Invariance, PTL DEF AcrEarned, BoundToAdvice

-----------------------------------------------------------------------------
(* Deny stages, for stage lists that deny before they challenge or mint.     *)

\* How a step preserves DenyInv.
LEMMA DenyMoves ==
  ASSUME TypeOK, DenyInv, NEW r \in Requests, NEW h, Go(r, h), h # Idle => Barred(h),
         NEW q, q # NoFlow => ~q.barred,
         \A f \in FlowIds : parked'[f] \in {parked[f], NoFlow, q}
  PROVE  DenyInv'
<1>1. request'[r] = h /\ \A s \in Requests \ {r} : request'[s] = request[s]
  BY DEF TypeOK, Go
<1>2. ASSUME NEW s \in Requests, Busy(s)'
      PROVE  Barred(request'[s])
  <2>1. CASE s = r
    BY <1>1, <1>2, <2>1 DEF Busy
  <2>2. CASE s # r
    BY <1>1, <1>2, <2>2 DEF Busy, DenyInv
  <2> QED
    BY <2>1, <2>2
<1>3. ASSUME NEW s \in Requests, Busy(s)'
      PROVE  Barred(request[s])'
  BY <1>2, <1>3 DEF Barred
<1>4. ASSUME NEW f \in FlowIds, parked'[f] # NoFlow
      PROVE  ~parked'[f].barred
  BY <1>4 DEF DenyInv
<1> QED
  BY <1>3, <1>4 DEF DenyInv

\* The same when no flow is written.
LEMMA DenyOnlyMoves ==
  ASSUME TypeOK, DenyInv, NEW r \in Requests, NEW h, Go(r, h), h # Idle => Barred(h),
         \A f \in FlowIds : parked'[f] \in {parked[f], NoFlow}
  PROVE  DenyInv'
<1>1. \A f \in FlowIds : parked'[f] \in {parked[f], NoFlow, NoFlow}
  OBVIOUS
<1> QED
  BY <1>1, DenyMoves

\* A barred request is at a stage that does not come after the one that
\* denies: it is neither challenged nor served.
LEMMA BarredAtStage ==
  ASSUME ConstantsOK, TypeOK, DenyInv, NEW r \in Requests, request[r].pend.barred, Busy(r)
  PROVE  /\ At(r, "stage")
         /\ ~StageIs(r, "authenticator-validate") /\ ~StageIs(r, "user-login")
<1>1. PICK h : h = request[r]
  OBVIOUS
<1>2. h \in Handler /\ Barred(h) /\ h.pend.barred
  BY <1>1, HandlerKinds DEF TypeOK, DenyInv, Busy
<1>3. PICK d \in 1..Len(h.stages) : RefusedAt(h.stages, d) /\ h.cursor <= d
  BY <1>2 DEF Barred
<1>4. h.cursor \in Nat /\ h.cursor >= 1 /\ h.stages \in FlowDefs \cup {<<>>}
  BY <1>2, HandlerFields DEF Barred
<1>5. Len(h.stages) \in Nat
  BY <1>4 DEF ConstantsOK
<1>6. h.cursor \in 1..Len(h.stages)
  BY <1>3, <1>4, <1>5
<1>7. h.stages[h.cursor].type \notin {"authenticator-validate", "user-login"}
  BY <1>3, <1>4, <1>5, <1>6 DEF RefusedAt
<1> QED
  BY <1>1, <1>2, <1>7 DEF StageIs, At, Barred

\* Where a request is neither at a stage nor idle, no deny stage applies.
LEMMA PastStages ==
  ASSUME ConstantsOK, TypeOK, DenyInv, NEW r \in Requests, request[r].step \notin {"stage", "idle"}
  PROVE  /\ ~request[r].pend.barred /\ request[r] \in Handler
         /\ request[r].cursor >= 1
<1>1. Busy(r) /\ request[r] \in Handler
  BY HandlerKinds DEF TypeOK, Busy
<1> QED
  BY <1>1, BarredAtStage DEF At, DenyInv, Barred

\* A handler with no deny stage against it may go anywhere.
LEMMA Unbars ==
  ASSUME NEW h, h.cursor >= 1, ~h.pend.barred
  PROVE  Barred(h)
BY DEF Barred

\* A stage that a barred request skips is not the one that denies.
LEMMA SkipBars ==
  ASSUME ConstantsOK, DeniesInTime, FlInv, DenyInv, NEW r \in Requests, Skip(r)
  PROVE  DenyInv'
<1>1. PICK h : h = request[r]
  OBVIOUS
<1>2. h \in Handler /\ Barred(h) /\ h.step = "stage"
  BY <1>1, AtHandler DEF Skip, At, DenyInv
<1>3. h.cursor \in Nat /\ h.cursor >= 1 /\ h.stages \in FlowDefs \cup {<<>>}
      /\ h.risky \in BOOLEAN
  BY <1>2, HandlerFields DEF Barred
<1>4. \A f \in FlowIds : parked'[f] \in {parked[f], NoFlow}
  BY DEF Skip, Memory
<1>5. CASE Go(r, Idle)
  BY <1>4, <1>5, DenyOnlyMoves DEF FlInv
<1>6. CASE h.cursor <= Len(h.stages) /\ Go(r, [h EXCEPT !.cursor = @ + 1])
  <2>1. PICK k : k = [h EXCEPT !.cursor = @ + 1]
    OBVIOUS
  <2>2. k.cursor = h.cursor + 1 /\ k.step = h.step /\ k.pend = h.pend /\ k.risky = h.risky
        /\ k.stages = h.stages
    BY <1>2, <2>1 DEF Handler
  <2>3. ASSUME k.pend.barred
        PROVE  \E d \in 1..Len(k.stages) : RefusedAt(k.stages, d) /\ k.cursor <= d
    <3>1. PICK d \in 1..Len(h.stages) : RefusedAt(h.stages, d) /\ h.cursor <= d
      BY <1>2, <2>2, <2>3 DEF Barred
    <3>2. h.risky
      BY <1>2, <2>2, <2>3 DEF Barred
    <3>3. ~Runs(h.stages[h.cursor].gate, h.risky)
      BY <1>1, <1>6 DEF Skip
    <3>4. h.stages[h.cursor].gate \notin {"always", "risky"}
      BY <3>2, <3>3 DEF Runs
    <3>5. Len(h.stages) \in Nat /\ h.stages # <<>>
      BY <1>3, <3>1 DEF ConstantsOK
    <3>6. h.stages[d].gate \in {"always", "risky"}
      <4>1. h.stages \in Seq([type : StageTypes, gate : Gates])
        BY <1>3, <3>5 DEF ConstantsOK
      <4>2. h.stages[d] \in [type : StageTypes, gate : Gates]
        BY <3>1, <4>1, ElementOfSeq
      <4> QED
        BY <3>1, <4>2 DEF RefusedAt, Gates
    <3>7. h.cursor + 1 <= d
      <4>1. h.cursor # d
        BY <3>4, <3>6
      <4>2. d \in Nat
        BY <3>1, <3>5
      <4> QED
        BY <1>3, <3>1, <4>1, <4>2
    <3> QED
      BY <2>2, <3>1, <3>7
  <2>4. k.cursor >= 1
    BY <1>3, <2>2
  <2>5. Barred(k)
    BY <1>2, <2>2, <2>3, <2>4 DEF Barred
  <2> QED
    BY <1>4, <1>6, <2>1, <2>5, DenyOnlyMoves DEF FlInv
<1>7. h.cursor > Len(h.stages) \/ h.cursor <= Len(h.stages)
  BY <1>3 DEF ConstantsOK
<1> QED
  BY <1>1, <1>5, <1>6, <1>7 DEF Skip, Answer, Advance

\* A request found risky is barred only if the deny stage is still ahead.
LEMMA RiskEvaluationBars ==
  ASSUME ConstantsOK, DeniesInTime, FlInv, DenyInv, NEW r \in Requests, RiskEvaluation(r)
  PROVE  DenyInv'
<1>1. PICK h : h = request[r]
  OBVIOUS
<1>2. h \in Handler /\ Barred(h) /\ h.step = "stage"
  BY <1>1, AtHandler DEF RiskEvaluation, StageIs, At, DenyInv
<1>3. h.cursor \in Nat /\ h.cursor >= 1 /\ h.stages \in FlowDefs \cup {<<>>}
      /\ h.pend \in Pending
  BY <1>2, HandlerFields DEF Barred
<1>4. PICK x \in BOOLEAN :
        Go(r, [[h EXCEPT !.risky = x, !.pend.barred = x /\ DeniesRisky(h.stages)]
               EXCEPT !.cursor = @ + 1])
  BY <1>1 DEF RiskEvaluation, Advance
<1>5. PICK b : b = (x /\ DeniesRisky(h.stages))
  OBVIOUS
<1>6. PICK p : p = [h.pend EXCEPT !.barred = b]
  OBVIOUS
<1>7. PICK k : k = [step |-> h.step, pend |-> p, id |-> h.id, stages |-> h.stages,
                    cursor |-> h.cursor + 1, risky |-> x, verified |-> h.verified]
  OBVIOUS
<1>8. Go(r, k)
  <2>1. PICK g : g = [h EXCEPT !.risky = x, !.pend.barred = b]
    OBVIOUS
  <2>2. g = [step |-> h.step, pend |-> p, id |-> h.id, stages |-> h.stages,
             cursor |-> h.cursor, risky |-> x, verified |-> h.verified]
    BY <1>2, <1>6, <2>1 DEF Handler
  <2>3. k = [g EXCEPT !.cursor = @ + 1]
    BY <1>7, <2>2
  <2> QED
    BY <1>4, <1>5, <2>1, <2>3
<1>9. p.barred = b
  BY <1>3, <1>6 DEF Pending
<1>10. ASSUME b
       PROVE  \E d \in 1..Len(h.stages) : RefusedAt(h.stages, d) /\ h.cursor + 1 <= d
  <2>1. DeniesRisky(h.stages)
    BY <1>5, <1>10
  <2>2. h.stages # <<>>
    BY <2>1 DEF DeniesRisky
  <2>3. h.stages \in FlowDefs
    BY <1>3, <2>2
  <2>4. PICK d \in 1..Len(h.stages) : RefusedAt(h.stages, d)
    BY <2>1, <2>3 DEF DeniesInTime
  <2>5. Len(h.stages) \in Nat
    BY <2>3 DEF ConstantsOK
  <2>6. h.cursor \in 1..Len(h.stages) /\ h.stages[h.cursor].type = "risk-evaluation"
    BY <1>1, <1>3, <2>5 DEF RiskEvaluation, StageIs
  <2>7. h.cursor < d
    BY <2>4, <2>6 DEF RefusedAt
  <2>8. h.cursor + 1 <= d
    BY <1>3, <2>5, <2>7
  <2> QED
    BY <2>4, <2>8
<1>11. Barred(k)
  <2>1. k.cursor = h.cursor + 1 /\ k.step = "stage" /\ k.risky = x /\ k.stages = h.stages
        /\ k.pend.barred = b
    BY <1>2, <1>7, <1>9
  <2>2. b => x
    BY <1>5
  <2>3. k.cursor >= 1
    BY <1>3, <2>1
  <2> QED
    BY <1>10, <2>1, <2>2, <2>3 DEF Barred
<1>12. \A f \in FlowIds : parked'[f] \in {parked[f], NoFlow}
  BY DEF RiskEvaluation, Memory
<1> QED
  BY <1>8, <1>11, <1>12, DenyOnlyMoves DEF FlInv

\* What reaches the challenge stage is not barred.
LEMMA AuthenticatorValidateBars ==
  ASSUME ConstantsOK, FlInv, DenyInv, NEW r \in Requests, AuthenticatorValidate(r)
  PROVE  DenyInv'
<1>1. PICK h : h = request[r]
  OBVIOUS
<1>2. h \in Handler /\ Barred(h) /\ Busy(r)
  BY <1>1, AtHandler DEF AuthenticatorValidate, StageIs, At, DenyInv
<1>3. PICK p : p = h.pend
  OBVIOUS
<1>4. p \in Pending /\ ~p.barred /\ h.cursor \in Nat /\ h.cursor >= 1
  BY <1>1, <1>2, <1>3, BarredAtStage, HandlerFields DEF AuthenticatorValidate, FlInv, Barred
<1>5. \A f \in FlowIds : parked'[f] \in {parked[f], NoFlow}
  BY DEF AuthenticatorValidate, Memory
<1>6. ASSUME NEW q, Leave(r, q, "list"), ~q.barred
      PROVE  DenyInv'
  <2>1. PICK k : k = [step |-> "list", pend |-> q, id |-> h.id, stages |-> <<>>,
                      cursor |-> 1, risky |-> FALSE, verified |-> h.verified]
    OBVIOUS
  <2>2. Go(r, k)
    BY <1>1, <1>6, <2>1 DEF Leave
  <2>3. Barred(k)
    <3>1. k.cursor = 1 /\ k.pend = q
      BY <2>1
    <3> QED
      BY <1>6, <3>1 DEF Barred
  <2> QED
    BY <1>5, <2>2, <2>3, DenyOnlyMoves DEF FlInv
<1>7. ASSUME NEW k, k \in Handler, k.pend.barred = p.barred, k.cursor = h.cursor, Advance(r, k)
      PROVE  DenyInv'
  <2>1. PICK g : g = [k EXCEPT !.cursor = @ + 1]
    OBVIOUS
  <2>2. g.cursor = h.cursor + 1 /\ g.pend = k.pend
    BY <1>7, <2>1 DEF Handler
  <2>3. g.cursor >= 1
    BY <1>4, <2>2
  <2>4. Barred(g)
    BY <1>4, <1>7, <2>2, <2>3, Unbars
  <2> QED
    BY <1>5, <1>7, <2>1, <2>4, DenyOnlyMoves DEF FlInv, Advance
<1>8. CASE Advance(r, [h EXCEPT !.pend.acr = p.asked])
  <2>1. PICK q : q = [p EXCEPT !.acr = p.asked]
    OBVIOUS
  <2>2. PICK k : k = [h EXCEPT !.pend.acr = p.asked]
    OBVIOUS
  <2>3. k = [step |-> h.step, pend |-> q, id |-> h.id, stages |-> h.stages,
             cursor |-> h.cursor, risky |-> h.risky, verified |-> h.verified]
    BY <1>2, <1>3, <2>1, <2>2 DEF Handler
  <2>4. q \in Pending /\ q.barred = p.barred
    BY <1>4, <2>1, PendingFields DEF Pending
  <2>5. k \in Handler /\ k.pend = q /\ k.cursor = h.cursor
    BY <1>2, <2>3, <2>4, HandlerFields DEF Handler
  <2> QED
    BY <1>7, <1>8, <2>2, <2>4, <2>5
<1>9. CASE \E m : Leave(r, [p EXCEPT !.method = m, !.target = p.asked], "list")
  <2>1. PICK m : Leave(r, [p EXCEPT !.method = m, !.target = p.asked], "list")
    BY <1>9
  <2>2. PICK q : q = [p EXCEPT !.method = m, !.target = p.asked]
    OBVIOUS
  <2>3. q.barred = p.barred
    BY <1>4, <2>2 DEF Pending
  <2> QED
    BY <1>4, <1>6, <2>1, <2>2, <2>3
<1>10. CASE \E m : Leave(r, [p EXCEPT !.method = m], "list")
  <2>1. PICK m : Leave(r, [p EXCEPT !.method = m], "list")
    BY <1>10
  <2>2. PICK q : q = [p EXCEPT !.method = m]
    OBVIOUS
  <2>3. q.barred = p.barred
    BY <1>4, <2>2 DEF Pending
  <2> QED
    BY <1>4, <1>6, <2>1, <2>2, <2>3
<1>11. CASE Advance(r, h)
  BY <1>2, <1>3, <1>7, <1>11
<1> QED
  BY <1>1, <1>3, <1>8, <1>9, <1>10, <1>11 DEF AuthenticatorValidate

\* A request starts unbarred.
LEMMA AuthorizeBars ==
  ASSUME ConstantsOK, FlInv, DenyInv, NEW r \in Requests, NEW u, NEW t, NEW a, NEW s,
         Authorize(r, u, t, a, s)
  PROVE  DenyInv'
<1>1. PICK p : p = [user |-> u, txn |-> t, asked |-> a.rank, acr |-> 0,
                    method |-> a.method, target |-> 0, chal |-> 0,
                    created |-> 0, barred |-> FALSE]
  OBVIOUS
<1>2. PICK h : h = [step |-> "stage", id |-> 0, stages |-> s, cursor |-> 1,
                    risky |-> FALSE, verified |-> FALSE, pend |-> p]
  OBVIOUS
<1>3. Go(r, h)
  BY <1>1, <1>2 DEF Authorize
<1>4. h.cursor = 1 /\ h.pend = p /\ ~p.barred
  BY <1>1, <1>2
<1>5. Barred(h)
  BY <1>4, Unbars
<1>6. \A f \in FlowIds : parked'[f] \in {parked[f], NoFlow}
  BY DEF Authorize, Memory
<1> QED
  BY <1>3, <1>5, <1>6, DenyOnlyMoves DEF FlInv

\* A copy of what is parked is not barred.
LEMMA ResumeBars ==
  ASSUME ConstantsOK, FlInv, DenyInv, NEW r \in Requests, NEW id \in FlowIds,
         NEW step, Resume(r, id, step)
  PROVE  DenyInv'
<1>1. \A f \in FlowIds : parked'[f] \in {parked[f], NoFlow}
  BY DEF Resume, FlInv, TypeOK
<1>2. CASE HasFlow(id)
  <2>1. PICK p : p = parked[id]
    OBVIOUS
  <2>2. PICK h : h = [step |-> step, pend |-> p, id |-> id, stages |-> <<>>,
                      cursor |-> 1, risky |-> FALSE, verified |-> FALSE]
    OBVIOUS
  <2>3. Go(r, h)
    BY <1>2, <2>1, <2>2 DEF Resume
  <2>4. h.cursor = 1 /\ h.pend = p /\ ~p.barred
    BY <1>2, <2>1, <2>2 DEF HasFlow, DenyInv
  <2>5. Barred(h)
    BY <2>4, Unbars
  <2> QED
    BY <1>1, <2>3, <2>5, DenyOnlyMoves DEF FlInv
<1>3. CASE ~HasFlow(id)
  <2>1. PICK h : h = request[r]
    OBVIOUS
  <2>2. Go(r, h) /\ (h # Idle => Barred(h))
    BY <1>3, <2>1 DEF Resume, Go, FlInv, TypeOK, DenyInv, Busy
  <2> QED
    BY <1>1, <2>2, DenyOnlyMoves DEF FlInv
<1> QED
  BY <1>2, <1>3

\* Past the stages a handler's copy stays what it is.
LEMMA PastStagesBars ==
  ASSUME ConstantsOK, FlInv, DenyInv, NEW r \in Requests,
         \/ List(r) \/ CreateChallenge(r) \/ Track(r) \/ Arrive(r) \/ RightResponse(r)
         \/ WrongResponse(r) \/ CallFails(r) \/ DropFlow(r) \/ Untrack(r) \/ MintFails(r)
         \/ Complete(r) \/ FinishRegistration(r) \/ Deny(r)
  PROVE  DenyInv'
<1>1. PICK h : h = request[r]
  OBVIOUS
<1>2. CASE Go(r, Idle) /\ \A f \in FlowIds : parked'[f] \in {parked[f], NoFlow}
  BY <1>2, DenyOnlyMoves DEF FlInv
<1>3. ASSUME NEW k, k.cursor = h.cursor, k.pend.barred = h.pend.barred, Go(r, k),
             h.step \notin {"stage", "idle"},
             \A f \in FlowIds : parked'[f] \in {parked[f], NoFlow}
      PROVE  DenyInv'
  <2>1. ~h.pend.barred /\ h.cursor >= 1
    BY <1>1, <1>3, PastStages DEF FlInv
  <2>2. Barred(k)
    BY <1>3, <2>1, Unbars
  <2> QED
    BY <1>3, <2>2, DenyOnlyMoves DEF FlInv
<1>4. \A f \in FlowIds : parked'[f] \in {parked[f], NoFlow}
  BY DEF List, CreateChallenge, Track, Arrive, RightResponse, WrongResponse, CallFails, PeerFails,
     DropFlow, Untrack, MintFails, Complete, FinishRegistration, Deny, Memory, FlInv, TypeOK
<1>5. ASSUME NEW step, Goto(r, step), h \in Handler, h.step \notin {"stage", "idle"}
      PROVE  DenyInv'
  <2>1. PICK k : k = [h EXCEPT !.step = step]
    OBVIOUS
  <2>2. k.cursor = h.cursor /\ k.pend = h.pend
    BY <1>5, <2>1 DEF Handler
  <2> QED
    BY <1>1, <1>3, <1>4, <1>5, <2>1, <2>2 DEF Goto
<1>6. ASSUME h.step \notin {"stage", "idle"}
      PROVE  h \in Handler
  BY <1>1, <1>6, PastStages DEF FlInv
<1>7. CASE CreateChallenge(r)
  <2>1. h.step \in {"challenge", "rechallenge"} /\ h \in Handler
    BY <1>1, <1>6, <1>7 DEF CreateChallenge, At
  <2>2. PICK c, step : Go(r, [h EXCEPT !.pend.chal = c, !.step = step])
    BY <1>1, <1>7 DEF CreateChallenge
  <2>3. PICK p : p = [h.pend EXCEPT !.chal = c]
    OBVIOUS
  <2>4. PICK k : k = [h EXCEPT !.pend.chal = c, !.step = step]
    OBVIOUS
  <2>5. k = [step |-> step, pend |-> p, id |-> h.id, stages |-> h.stages,
             cursor |-> h.cursor, risky |-> h.risky, verified |-> h.verified]
    BY <2>1, <2>3, <2>4 DEF Handler
  <2>6. p.barred = h.pend.barred
    BY <2>1, <2>3, HandlerFields DEF Pending
  <2> QED
    BY <1>3, <1>4, <2>1, <2>2, <2>4, <2>5, <2>6
<1>8. CASE RightResponse(r)
  <2>1. h.step = "answer" /\ h \in Handler
    BY <1>1, <1>6, <1>8 DEF RightResponse, At
  <2>2. CASE Go(r, [h EXCEPT !.step = "drop", !.verified = TRUE])
    <3>1. PICK k : k = [h EXCEPT !.step = "drop", !.verified = TRUE]
      OBVIOUS
    <3>2. k.cursor = h.cursor /\ k.pend = h.pend
      BY <2>1, <3>1 DEF Handler
    <3> QED
      BY <1>3, <1>4, <2>1, <2>2, <3>1, <3>2
  <2> QED
    BY <1>1, <1>2, <1>4, <1>8, <2>2 DEF RightResponse, Answer
<1>9. CASE List(r) \/ Arrive(r) \/ WrongResponse(r) \/ DropFlow(r) \/ FinishRegistration(r)
           \/ Untrack(r)
  <2>1. h.step \notin {"stage", "idle"} /\ h \in Handler
    BY <1>1, <1>6, <1>9 DEF List, Arrive, WrongResponse, DropFlow, FinishRegistration, Untrack, At
  <2>2. Answer(r) \/ \E step : Goto(r, step)
    BY <1>9 DEF List, Arrive, WrongResponse, DropFlow, FinishRegistration, Untrack
  <2> QED
    BY <1>2, <1>4, <1>5, <2>1, <2>2 DEF Answer
<1>10. CASE Track(r) \/ CallFails(r) \/ MintFails(r) \/ Complete(r) \/ Deny(r)
  BY <1>2, <1>4, <1>10 DEF Track, CallFails, PeerFails, MintFails, Complete, Deny, Answer
<1> QED
  BY <1>7, <1>8, <1>9, <1>10

\* What is parked, and parked again, was not barred.
LEMMA ParkBars ==
  ASSUME ConstantsOK, FlInv, DenyInv, NEW r \in Requests, Park(r) \/ Repark(r)
  PROVE  DenyInv'
<1>1. PICK h : h = request[r]
  OBVIOUS
<1>2. h \in Handler /\ ~h.pend.barred /\ h.cursor >= 1
  BY <1>1, PastStages DEF Park, Repark, At, FlInv
<1>3. CASE Park(r)
  <2>1. PICK p : p = [h.pend EXCEPT !.created = now]
    OBVIOUS
  <2>2. ~p.barred
    BY <1>2, <2>1, HandlerFields DEF Pending
  <2>3. PICK k : k = [h EXCEPT !.step = "track", !.id = nextFlow, !.pend = p]
    OBVIOUS
  <2>4. Go(r, k) /\ parked' = Store(nextFlow, p)
    BY <1>1, <1>3, <2>1, <2>3 DEF Park
  <2>5. k.cursor = h.cursor /\ k.pend = p
    BY <1>2, <2>3 DEF Handler
  <2>6. Barred(k)
    BY <1>2, <2>2, <2>5, Unbars
  <2>7. \A f \in FlowIds : parked'[f] \in {parked[f], NoFlow, p}
    BY <2>4 DEF Store
  <2> QED
    BY <2>2, <2>4, <2>6, <2>7, DenyMoves DEF FlInv
<1>4. CASE Repark(r)
  <2>1. PICK p : p = h.pend
    OBVIOUS
  <2>2. Go(r, Idle) /\ parked' = Store(h.id, p)
    BY <1>1, <1>4, <2>1 DEF Repark, Answer
  <2>3. \A f \in FlowIds : parked'[f] \in {parked[f], NoFlow, p}
    BY <2>2 DEF Store
  <2> QED
    BY <1>2, <2>1, <2>2, <2>3, DenyMoves DEF FlInv
<1> QED
  BY <1>3, <1>4

\* The ledger is credited, the code minted.
LEMMA MintBars ==
  ASSUME ConstantsOK, FlInv, DenyInv, NEW r \in Requests, Record(r) \/ Mint(r)
  PROVE  DenyInv'
<1>1. PICK h : h = request[r]
  OBVIOUS
<1>2. h \in Handler /\ Busy(r)
  BY <1>1, AtHandler DEF Record, Mint, Minting, StageIs, At
<1>3. ~h.pend.barred /\ h.cursor >= 1
  BY <1>1, <1>2, BarredAtStage DEF Record, Mint, Minting, At, FlInv, DenyInv, Barred
<1>4. \A f \in FlowIds : parked'[f] \in {parked[f], NoFlow}
  BY DEF Record, Mint, Memory
<1>5. CASE Record(r)
  <2>1. PICK p : p = [h.pend EXCEPT !.acr = h.pend.target]
    OBVIOUS
  <2>2. ~p.barred
    BY <1>2, <1>3, <2>1, HandlerFields DEF Pending
  <2>3. PICK k : k = [h EXCEPT !.step = "mint", !.pend.acr = h.pend.target]
    OBVIOUS
  <2>4. k = [step |-> "mint", pend |-> p, id |-> h.id, stages |-> h.stages,
             cursor |-> h.cursor, risky |-> h.risky, verified |-> h.verified]
    BY <1>2, <2>1, <2>3 DEF Handler
  <2>5. Barred(k)
    BY <1>3, <2>2, <2>4, Unbars
  <2> QED
    BY <1>1, <1>4, <1>5, <2>3, <2>5, DenyOnlyMoves DEF Record, FlInv
<1>6. CASE Mint(r)
  <2>1. PICK k : k = [step |-> "complete", pend |-> h.pend, id |-> h.id, stages |-> <<>>,
                      cursor |-> 1, risky |-> FALSE, verified |-> h.verified]
    OBVIOUS
  <2>2. k.cursor = 1 /\ k.pend = h.pend
    BY <2>1
  <2>3. Barred(k)
    BY <1>3, <2>2 DEF Barred
  <2>4. Go(r, Idle) \/ Go(r, k)
    BY <1>1, <1>6, <2>1 DEF Mint, Answer, Leave
  <2> QED
    BY <1>4, <2>3, <2>4, DenyOnlyMoves DEF FlInv
<1> QED
  BY <1>5, <1>6

\* No step of the environment bars anything.
LEMMA AroundBars ==
  ASSUME FlInv, DenyInv, Environment \/ UNCHANGED vars
  PROVE  DenyInv'
<1>1. CASE Restart
  <2>1. \A f \in FlowIds : parked'[f] = NoFlow
    BY <1>1 DEF Restart
  <2>2. \A s \in Requests : ~Busy(s)'
    BY <1>1 DEF Restart, Busy
  <2> QED
    BY <2>1, <2>2 DEF DenyInv
<1>2. CASE UNCHANGED <<parked, request>>
  BY <1>2 DEF DenyInv, Busy, Barred
<1> QED
  BY <1>1, <1>2
     DEF Environment, Advise, ChallengeExpires, DisablePasskey, Tick, Memory, vars

\* Every step preserves it.
LEMMA NextDeny ==
  ASSUME ConstantsOK, DeniesInTime
  PROVE  FlInv /\ DenyInv /\ [Next]_vars => DenyInv'
<1> SUFFICES ASSUME FlInv, DenyInv, [Next]_vars
             PROVE  DenyInv'
  OBVIOUS
<1>1. ASSUME NEW r \in Requests, Step(r)
      PROVE  DenyInv'
  BY <1>1, SkipBars, RiskEvaluationBars, AuthenticatorValidateBars, PastStagesBars, ParkBars,
     MintBars DEF Step
<1>2. ASSUME NEW r \in Requests, Start(r)
      PROVE  DenyInv'
  BY <1>2, AuthorizeBars, ResumeBars DEF Start, Verify, RegisterFinish
<1> QED
  BY <1>1, <1>2, AroundBars DEF Next

\* DenyInv is an invariant of flows that deny in time.
THEOREM DenyHolds == ASSUME ConstantsOK, DeniesInTime PROVE Spec => []DenyInv
<1>1. Init => DenyInv
  BY DEF Init, DenyInv, Busy
<1>2. FlInv /\ DenyInv /\ [Next]_vars => DenyInv'
  BY NextDeny
<1> QED
  BY <1>1, <1>2, Invariance, PTL DEF Spec

\* A request that a deny stage's policy applies to buys no code, whichever
\* way it is challenged, parked, resumed or restarted, in flows that deny
\* before they challenge or mint (flow_build.go:126).
THEOREM DeniedForGood == ASSUME ConstantsOK, DeniesInTime PROVE Spec => DenialHonoured
<1>1. FlInv /\ DenyInv => MintsUnbarred
  <2> SUFFICES ASSUME FlInv, DenyInv, NEW r \in Requests, Mint(r)
               PROVE  ~request[r].pend.barred
    BY DEF MintsUnbarred, Unbarred
  <2>1. Busy(r)
    BY AtHandler DEF Mint, Minting, StageIs, At
  <2> QED
    BY <2>1, BarredAtStage DEF Mint, Minting, At, FlInv
<1>2. FlInv /\ DenyInv => [MintsUnbarred]_vars
  BY <1>1
<1> QED
  BY <1>2, Invariance, DenyHolds, PTL DEF DenialHonoured

-----------------------------------------------------------------------------
(* While requests do not overlap.                                            *)

\* No handler is between the two maps for flow f.
Between(f) == \E r \in Requests : request[r].step \in {"track", "untrack"} /\ request[r].id = f

\* What is parked is tracked, and what is tracked is parked.
Clean(f) ==
  /\ HasFlow(f) => tracked[f] = parked[f].created
  /\ tracked[f] # 0 /\ Live(tracked[f]) => HasFlow(f)

\* The two agree where no handler is between them.
LEMMA CleanTracked ==
  ASSUME NEW f
  PROVE  /\ Clean(f) => Tracked(f)
         /\ Tracked(f) /\ ~Between(f) => Clean(f)
BY DEF Clean, Tracked, Between, At

\* The same in the next state.
LEMMA CleanTrackedNext ==
  ASSUME NEW f, Clean(f)'
  PROVE  Tracked(f)'
BY DEF Clean, Tracked

\* A trouble is never forgotten.
LEMMA TroubleStays ==
  ASSUME [Next]_vars
  PROVE  mishaps \subseteq mishaps'
<1>1. ASSUME NEW r \in Requests, Step(r)
      PROVE  mishaps' = mishaps
  BY <1>1 DEF Step, Skip, RiskEvaluation, Deny, AuthenticatorValidate, List, CreateChallenge, Park,
     Track, Arrive, RightResponse, WrongResponse, CallFails, PeerFails, DropFlow, Untrack, Record,
     Mint, MintFails, Complete, FinishRegistration, Repark
<1>2. ASSUME NEW r \in Requests, Start(r)
      PROVE  mishaps \subseteq mishaps'
  <2>1. Overlaps(r)
    BY <1>2 DEF Start, Authorize, Verify, RegisterFinish, Resume
  <2> QED
    BY <2>1 DEF Overlaps, Trouble, Calm
<1>3. ASSUME Environment
      PROVE  mishaps \subseteq mishaps'
  BY <1>3 DEF Environment, Advise, ChallengeExpires, DisablePasskey, Tick, Restart, Trouble
<1>4. CASE UNCHANGED vars
  BY <1>4 DEF vars
<1> QED
  BY <1>1, <1>2, <1>3, <1>4 DEF Next

\* How a step of the only handler preserves Solo.
LEMMA SoloMoves ==
  ASSUME TypeOK, Solo, NEW r \in Requests, \A s \in Requests \ {r} : ~Busy(s),
         NEW h, Go(r, h), h # Idle => Owns(h)',
         \A f \in FlowIds : Ticket(f)' /\ Tracked(f)'
  PROVE  Solo'
<1>1. request'[r] = h /\ \A s \in Requests \ {r} : request'[s] = request[s]
  BY DEF TypeOK, Go
<1>2. \A s \in Requests : Busy(s)' => s = r
  BY <1>1 DEF Busy
<1>3. Busy(r)' => Owns(request[r])'
  BY <1>1 DEF Busy, Owns
<1> QED
  BY <1>2, <1>3 DEF Solo

\* While one handler is busy, only that one can be between the maps.
LEMMA Lonely ==
  ASSUME TypeOK, Solo, NEW r \in Requests, \A s \in Requests \ {r} : ~Busy(s)
  PROVE  \A f \in FlowIds :
           (request[r].step \in {"track", "untrack"} /\ request[r].id = f) \/ Clean(f)
<1>1. \A s \in Requests \ {r} : request[s].step = "idle"
  BY DEF Busy, Idle
<1>2. ASSUME NEW f \in FlowIds, ~(request[r].step \in {"track", "untrack"} /\ request[r].id = f)
      PROVE  Clean(f)
  <2>1. ~Between(f)
    BY <1>1, <1>2 DEF Between
  <2> QED
    BY <2>1, CleanTracked DEF Solo
<1> QED
  BY <1>2

\* A step that leaves both maps and the codes alone.
LEMMA SoloQuiet ==
  ASSUME TypeOK, Solo, NEW r \in Requests, \A s \in Requests \ {r} : ~Busy(s),
         request[r].step \notin {"track", "untrack"},
         NEW h, Go(r, h), h # Idle => Owns(h),
         UNCHANGED <<now, parked, tracked, nextFlow, minted>>
  PROVE  Solo'
<1>1. ASSUME NEW f \in FlowIds
      PROVE  Ticket(f)' /\ Tracked(f)'
  <2>1. Clean(f) /\ Ticket(f)
    BY Lonely DEF Solo
  <2>2. Clean(f)' /\ Ticket(f)'
    BY <2>1 DEF Clean, Ticket, HasFlow, Live
  <2> QED
    BY <2>2, CleanTrackedNext
<1>2. h # Idle => Owns(h)'
  BY DEF Owns
<1> QED
  BY <1>1, <1>2, SoloMoves

\* The only handler answers, between no maps.
LEMMA SoloAnswer ==
  ASSUME TypeOK, Solo, NEW r \in Requests, \A s \in Requests \ {r} : ~Busy(s),
         request[r].step \notin {"track", "untrack"}, Answer(r),
         UNCHANGED <<now, parked, tracked, nextFlow, minted>>
  PROVE  Solo'
BY SoloQuiet DEF Answer

\* Where a handler goes without touching the maps, it owns what it owned.
LEMMA OwnsOn ==
  ASSUME Solo, NEW h, Owns(h), NEW k, k.id = h.id, k.pend.created = h.pend.created,
         \/ h.step \in Early /\ k.step \in Early
         \/ h.step \in Held /\ k.step \in Held \ {"track"}
         \/ h.step \in Dropped /\ k.step \in Dropped
         \/ k.step = "complete"
  PROVE  Owns(k)
<1>1. Early \cap Held = {} /\ Early \cap Dropped = {} /\ Held \cap Dropped = {}
  BY DEF Early, Held, Dropped
<1>2. "complete" \notin Early \cup Held \cup Dropped /\ "track" \notin Early \cup Dropped
      /\ "track" # "complete"
  BY DEF Early, Held, Dropped
<1> QED
  BY <1>1, <1>2 DEF Owns

\* The steps that touch neither map: the handler goes on with what it has.
LEMMA GoesOn ==
  ASSUME ConstantsOK, FlInv, NEW r \in Requests, NEW h, h = request[r],
         \/ Skip(r) \/ RiskEvaluation(r) \/ Deny(r) \/ AuthenticatorValidate(r)
         \/ List(r) \/ CreateChallenge(r) \/ Arrive(r) \/ RightResponse(r)
         \/ WrongResponse(r) \/ CallFails(r) \/ Record(r) \/ MintFails(r)
         \/ Complete(r) \/ FinishRegistration(r)
  PROVE  /\ UNCHANGED <<now, parked, tracked, nextFlow, minted>>
         /\ h \in Handler /\ h.step \notin {"track", "untrack"}
         /\ \/ Answer(r)
            \/ \E k : /\ Go(r, k) /\ k.id = h.id /\ k.pend.created = h.pend.created
                      /\ \/ h.step \in Early /\ k.step \in Early
                         \/ h.step \in Held /\ k.step \in Held \ {"track"}
                         \/ h.step \in Dropped /\ k.step \in Dropped
<1> USE DEF Early, Held, Dropped
<1> DEFINE Goes(k) ==
      /\ Go(r, k) /\ k.id = h.id /\ k.pend.created = h.pend.created
      /\ \/ h.step \in Early /\ k.step \in Early
         \/ h.step \in Held /\ k.step \in Held \ {"track"}
         \/ h.step \in Dropped /\ k.step \in Dropped
<1>1. UNCHANGED <<now, parked, tracked, nextFlow, minted>>
  BY DEF Skip, RiskEvaluation, Deny, AuthenticatorValidate, List, CreateChallenge, Arrive,
     RightResponse, WrongResponse, CallFails, PeerFails, Record, MintFails, Complete,
     FinishRegistration, Memory, History
<1>2. h \in Handler /\ h.step \notin {"track", "untrack"}
  BY AtHandler, HandlerKinds
     DEF Skip, RiskEvaluation, Deny, AuthenticatorValidate, List, CreateChallenge, Arrive,
     RightResponse, WrongResponse, CallFails, PeerFails, Record, MintFails, Minting, Complete,
     FinishRegistration, StageIs, At, FlInv, TypeOK, Busy
<1>3. h.pend \in Pending
  BY <1>2, HandlerFields
<1>4. ASSUME NEW step, Goto(r, step),
             \/ h.step \in Early /\ step \in Early
             \/ h.step \in Held /\ step \in Held \ {"track"}
      PROVE  \E k : Goes(k)
  <2>1. PICK k : k = [h EXCEPT !.step = step]
    OBVIOUS
  <2>2. k.id = h.id /\ k.pend = h.pend /\ k.step = step
    BY <1>2, <2>1 DEF Handler
  <2>3. Go(r, k)
    BY <1>4, <2>1 DEF Goto
  <2> QED
    BY <1>4, <2>2, <2>3
<1>5. ASSUME NEW p, p.created = h.pend.created, NEW step, NEW n, NEW x,
             Go(r, [step |-> step, pend |-> p, id |-> h.id, stages |-> h.stages, cursor |-> n,
                    risky |-> x, verified |-> h.verified]),
             \/ h.step \in Early /\ step \in Early
             \/ h.step \in Held /\ step \in Held \ {"track"}
             \/ h.step \in Dropped /\ step \in Dropped
      PROVE  \E k : Goes(k)
  BY <1>5
<1>6. CASE Skip(r)
  <2>1. h.step = "stage" /\ (Answer(r) \/ Go(r, [h EXCEPT !.cursor = @ + 1]))
    BY <1>6 DEF Skip, At, Advance
  <2>2. PICK k : k = [h EXCEPT !.cursor = @ + 1]
    OBVIOUS
  <2>3. k.id = h.id /\ k.pend = h.pend /\ k.step = "stage"
    BY <1>2, <2>1, <2>2 DEF Handler
  <2>4. Answer(r) \/ Goes(k)
    BY <2>1, <2>2, <2>3
  <2> QED
    BY <1>1, <1>2, <2>4
<1>7. CASE RiskEvaluation(r)
  <2>1. PICK x \in BOOLEAN :
          Go(r, [[h EXCEPT !.risky = x, !.pend.barred = x /\ DeniesRisky(h.stages)]
                 EXCEPT !.cursor = @ + 1])
    BY <1>7 DEF RiskEvaluation, Advance
  <2>2. PICK b : b = (x /\ DeniesRisky(h.stages))
    OBVIOUS
  <2>3. PICK p : p = [h.pend EXCEPT !.barred = b]
    OBVIOUS
  <2>4. PICK g : g = [h EXCEPT !.risky = x, !.pend.barred = b]
    OBVIOUS
  <2>5. g = [step |-> h.step, pend |-> p, id |-> h.id, stages |-> h.stages,
             cursor |-> h.cursor, risky |-> x, verified |-> h.verified]
    BY <1>2, <2>3, <2>4 DEF Handler
  <2>6. [g EXCEPT !.cursor = @ + 1] =
          [step |-> h.step, pend |-> p, id |-> h.id, stages |-> h.stages,
           cursor |-> h.cursor + 1, risky |-> x, verified |-> h.verified]
    BY <2>5
  <2>7. p.created = h.pend.created
    BY <1>3, <2>3 DEF Pending
  <2>8. h.step = "stage"
    BY <1>7 DEF RiskEvaluation, StageIs, At
  <2>9. Go(r, [g EXCEPT !.cursor = @ + 1])
    BY <2>1, <2>2, <2>4
  <2>10. Go(r, [step |-> h.step, pend |-> p, id |-> h.id, stages |-> h.stages,
                cursor |-> h.cursor + 1, risky |-> x, verified |-> h.verified])
    BY <2>6, <2>9
  <2>11. \E k : Goes(k)
    BY <1>5, <2>7, <2>8, <2>10
  <2> QED
    BY <1>1, <1>2, <2>11
<1>8. CASE AuthenticatorValidate(r)
  <2>1. h.step = "stage"
    BY <1>8 DEF AuthenticatorValidate, StageIs, At
  <2>2. ASSUME NEW q, q.created = h.pend.created, Leave(r, q, "list")
        PROVE  \E k : Goes(k)
    <3>1. PICK k : k = [step |-> "list", pend |-> q, id |-> h.id, stages |-> <<>>,
                        cursor |-> 1, risky |-> FALSE, verified |-> h.verified]
      OBVIOUS
    <3>2. Go(r, k)
      BY <2>2, <3>1 DEF Leave
    <3>3. Goes(k)
      BY <2>1, <2>2, <3>1, <3>2
    <3> QED
      BY <3>3
  <2>3. ASSUME Advance(r, [h EXCEPT !.pend.acr = h.pend.asked])
        PROVE  \E k : Goes(k)
    <3>1. PICK q : q = [h.pend EXCEPT !.acr = h.pend.asked]
      OBVIOUS
    <3>2. PICK g : g = [h EXCEPT !.pend.acr = h.pend.asked]
      OBVIOUS
    <3>3. g = [step |-> h.step, pend |-> q, id |-> h.id, stages |-> h.stages,
               cursor |-> h.cursor, risky |-> h.risky, verified |-> h.verified]
      BY <1>2, <3>1, <3>2 DEF Handler
    <3>4. [g EXCEPT !.cursor = @ + 1] =
            [step |-> h.step, pend |-> q, id |-> h.id, stages |-> h.stages,
             cursor |-> h.cursor + 1, risky |-> h.risky, verified |-> h.verified]
      BY <3>3
    <3>5. q.created = h.pend.created
      BY <1>3, <3>1 DEF Pending
    <3>6. Go(r, [g EXCEPT !.cursor = @ + 1])
      BY <2>3, <3>2 DEF Advance
    <3>7. Go(r, [step |-> h.step, pend |-> q, id |-> h.id, stages |-> h.stages,
                 cursor |-> h.cursor + 1, risky |-> h.risky, verified |-> h.verified])
      BY <3>4, <3>6
    <3> QED
      BY <1>5, <2>1, <3>5, <3>7
  <2>4. ASSUME \E m : Leave(r, [h.pend EXCEPT !.method = m, !.target = h.pend.asked], "list")
        PROVE  \E k : Goes(k)
    <3>1. PICK m : Leave(r, [h.pend EXCEPT !.method = m, !.target = h.pend.asked], "list")
      BY <2>4
    <3>2. PICK q : q = [h.pend EXCEPT !.method = m, !.target = h.pend.asked]
      OBVIOUS
    <3>3. q.created = h.pend.created
      BY <1>3, <3>2 DEF Pending
    <3> QED
      BY <2>2, <3>1, <3>2, <3>3
  <2>5. ASSUME \E m : Leave(r, [h.pend EXCEPT !.method = m], "list")
        PROVE  \E k : Goes(k)
    <3>1. PICK m : Leave(r, [h.pend EXCEPT !.method = m], "list")
      BY <2>5
    <3>2. PICK q : q = [h.pend EXCEPT !.method = m]
      OBVIOUS
    <3>3. q.created = h.pend.created
      BY <1>3, <3>2 DEF Pending
    <3> QED
      BY <2>2, <3>1, <3>2, <3>3
  <2>6. ASSUME Advance(r, h)
        PROVE  \E k : Goes(k)
    <3>1. PICK k : k = [h EXCEPT !.cursor = @ + 1]
      OBVIOUS
    <3>2. k.id = h.id /\ k.pend = h.pend /\ k.step = "stage"
      BY <1>2, <2>1, <3>1 DEF Handler
    <3>3. Goes(k)
      BY <2>1, <2>6, <3>1, <3>2 DEF Advance
    <3> QED
      BY <3>3
  <2>7. \E k : Goes(k)
    BY <1>8, <2>3, <2>4, <2>5, <2>6 DEF AuthenticatorValidate
  <2> QED
    BY <1>1, <1>2, <2>7
<1>9. CASE CreateChallenge(r)
  <2>1. PICK c : Go(r, [h EXCEPT !.pend.chal = c,
                                 !.step = IF @ = "challenge" THEN "park" ELSE "repark"])
    BY <1>9 DEF CreateChallenge
  <2>2. PICK step : step = IF h.step = "challenge" THEN "park" ELSE "repark"
    OBVIOUS
  <2>3. PICK q : q = [h.pend EXCEPT !.chal = c]
    OBVIOUS
  <2>4. PICK g : g = [h EXCEPT !.pend.chal = c, !.step = step]
    OBVIOUS
  <2>5. g = [step |-> step, pend |-> q, id |-> h.id, stages |-> h.stages,
             cursor |-> h.cursor, risky |-> h.risky, verified |-> h.verified]
    BY <1>2, <2>3, <2>4 DEF Handler
  <2>6. q.created = h.pend.created
    BY <1>3, <2>3 DEF Pending
  <2>7. Go(r, g)
    BY <2>1, <2>2, <2>4
  <2>8. Go(r, [step |-> step, pend |-> q, id |-> h.id, stages |-> h.stages,
               cursor |-> h.cursor, risky |-> h.risky, verified |-> h.verified])
    BY <2>5, <2>7
  <2>9. \/ h.step \in Early /\ step \in Early
        \/ h.step \in Held /\ step \in Held \ {"track"}
    BY <1>9, <2>2 DEF CreateChallenge, At
  <2>10. \E k : Goes(k)
    BY <1>5, <2>6, <2>8, <2>9
  <2> QED
    BY <1>1, <1>2, <2>10
<1>10. CASE RightResponse(r)
  <2>1. PICK k : k = [h EXCEPT !.step = "drop", !.verified = TRUE]
    OBVIOUS
  <2>2. k.id = h.id /\ k.pend = h.pend /\ k.step = "drop"
    BY <1>2, <2>1 DEF Handler
  <2>3. h.step = "answer" /\ (Answer(r) \/ Go(r, k))
    BY <1>10, <2>1 DEF RightResponse, At
  <2>4. Answer(r) \/ Goes(k)
    BY <2>2, <2>3
  <2> QED
    BY <1>1, <1>2, <2>4
<1>11. CASE Record(r)
  <2>1. PICK q : q = [h.pend EXCEPT !.acr = h.pend.target]
    OBVIOUS
  <2>2. PICK g : g = [h EXCEPT !.step = "mint", !.pend.acr = h.pend.target]
    OBVIOUS
  <2>3. g = [step |-> "mint", pend |-> q, id |-> h.id, stages |-> h.stages,
             cursor |-> h.cursor, risky |-> h.risky, verified |-> h.verified]
    BY <1>2, <2>1, <2>2 DEF Handler
  <2>4. q.created = h.pend.created
    BY <1>3, <2>1 DEF Pending
  <2>5. h.step = "record" /\ Go(r, g)
    BY <1>11, <2>2 DEF Record, At
  <2>6. Go(r, [step |-> "mint", pend |-> q, id |-> h.id, stages |-> h.stages,
               cursor |-> h.cursor, risky |-> h.risky, verified |-> h.verified])
    BY <2>3, <2>5
  <2>7. \E k : Goes(k)
    BY <1>5, <2>4, <2>5, <2>6
  <2> QED
    BY <1>1, <1>2, <2>7
<1>12. CASE List(r) \/ Arrive(r) \/ WrongResponse(r) \/ FinishRegistration(r)
  <2>1. \/ Answer(r)
        \/ \E step : /\ Goto(r, step)
                     /\ \/ h.step \in Early /\ step \in Early
                        \/ h.step \in Held /\ step \in Held \ {"track"}
    BY <1>12 DEF List, Arrive, WrongResponse, FinishRegistration, At
  <2>2. Answer(r) \/ \E k : Goes(k)
    BY <1>4, <2>1
  <2> QED
    BY <1>1, <1>2, <2>2
<1>13. CASE Deny(r) \/ CallFails(r) \/ MintFails(r) \/ Complete(r)
  BY <1>1, <1>2, <1>13 DEF Deny, CallFails, PeerFails, MintFails, Complete
<1> QED
  BY <1>6, <1>7, <1>8, <1>9, <1>10, <1>11, <1>12, <1>13

\* They preserve Solo.
LEMMA GoesOnSolo ==
  ASSUME ConstantsOK, FlInv, Solo, NEW r \in Requests, \A s \in Requests \ {r} : ~Busy(s),
         \/ Skip(r) \/ RiskEvaluation(r) \/ Deny(r) \/ AuthenticatorValidate(r)
         \/ List(r) \/ CreateChallenge(r) \/ Arrive(r) \/ RightResponse(r)
         \/ WrongResponse(r) \/ CallFails(r) \/ Record(r) \/ MintFails(r)
         \/ Complete(r) \/ FinishRegistration(r)
  PROVE  Solo'
<1>1. PICK h : h = request[r]
  OBVIOUS
<1>2. /\ UNCHANGED <<now, parked, tracked, nextFlow, minted>>
      /\ h \in Handler /\ h.step \notin {"track", "untrack"}
      /\ \/ Answer(r)
         \/ \E k : /\ Go(r, k) /\ k.id = h.id /\ k.pend.created = h.pend.created
                   /\ \/ h.step \in Early /\ k.step \in Early
                      \/ h.step \in Held /\ k.step \in Held \ {"track"}
                      \/ h.step \in Dropped /\ k.step \in Dropped
  BY <1>1, GoesOn
<1>3. Owns(h)
  BY <1>1, <1>2, HandlerKinds DEF Solo, Busy
<1>4. CASE Answer(r)
  BY <1>1, <1>2, <1>4, SoloAnswer DEF FlInv
<1>5. ASSUME NEW k, Go(r, k), k.id = h.id, k.pend.created = h.pend.created,
             \/ h.step \in Early /\ k.step \in Early
             \/ h.step \in Held /\ k.step \in Held \ {"track"}
             \/ h.step \in Dropped /\ k.step \in Dropped
      PROVE  Solo'
  <2>1. Owns(k)
    BY <1>3, <1>5, OwnsOn
  <2> QED
    BY <1>1, <1>2, <1>5, <2>1, SoloQuiet DEF FlInv
<1> QED
  BY <1>2, <1>4, <1>5

\* storeFlow of a flow whose age the maps agree on keeps them in agreement.
LEMMA StoreClean ==
  ASSUME Solo, NEW id \in FlowIds, NEW p, p # NoFlow, parked' = Store(id, p),
         UNCHANGED <<now, tracked>>, NEW f \in FlowIds, f # id, Clean(f), Ticket(f)
  PROVE  Clean(f)' /\ (parked'[f] # NoFlow => parked'[f] = parked[f])
<1>1. parked'[f] = IF Live(parked[f].created) THEN parked[f] ELSE NoFlow
  BY DEF Store
<1>2. CASE Live(parked[f].created)
  BY <1>1, <1>2 DEF Clean, HasFlow, Live
<1>3. CASE ~Live(parked[f].created)
  <2>1. ~HasFlow(f) /\ parked'[f] = NoFlow
    BY <1>1, <1>3 DEF HasFlow
  <2>2. ~HasFlow(f)'
    BY <2>1 DEF HasFlow
  <2>3. ~(tracked[f] # 0 /\ Live(tracked[f]))
    BY <2>1 DEF Clean
  <2>4. ~(tracked'[f] # 0 /\ Live(tracked[f])')
    BY <2>3 DEF Live
  <2> QED
    BY <2>1, <2>2, <2>4 DEF Clean
<1> QED
  BY <1>2, <1>3

\* A parked flow is a new ticket; its handler is between the maps.
LEMMA ParkSolo ==
  ASSUME ConstantsOK, FlInv, Solo, NEW r \in Requests, \A s \in Requests \ {r} : ~Busy(s),
         Park(r)
  PROVE  Solo'
<1>1. PICK h : h = request[r]
  OBVIOUS
<1>2. h \in Handler /\ h.step = "park"
  BY <1>1, AtHandler DEF Park, At
<1>3. PICK p : p = [h.pend EXCEPT !.created = now]
  OBVIOUS
<1>4. PICK id : id = nextFlow
  OBVIOUS
<1>5. id \in FlowIds /\ id \in Nat /\ now > 0 /\ now \in Nat
  BY <1>4, NumbersOK DEF Park, FlowIds, FlInv, TypeOK
<1>6. PICK k : k = [h EXCEPT !.step = "track", !.id = id, !.pend = p]
  OBVIOUS
<1>7. k.step = "track" /\ k.id = id /\ k.pend = p /\ p.created = now
  BY <1>2, <1>3, <1>6, HandlerFields DEF Handler, Pending
<1>8. Go(r, k) /\ parked' = Store(id, p) /\ nextFlow' = id + 1
      /\ UNCHANGED <<now, tracked, minted>>
  BY <1>1, <1>3, <1>4, <1>6 DEF Park, History
<1>9. p \in Pending
  <2>1. now \in 0..MaxTime
    BY NumbersOK DEF FlInv, TypeOK
  <2>2. h.pend \in Pending
    BY <1>2, HandlerFields
  <2> QED
    BY <1>3, <2>1, <2>2 DEF Pending
<1>10. p # NoFlow
  BY <1>9, NoFlowNotPending
<1>11. parked'[id] = p /\ minted[id] = 0 /\ tracked[id] = 0
  BY <1>4, <1>5, <1>8 DEF Store, Solo, Ticket
<1>12. Owns(k)'
  <2>1. id < nextFlow'
    BY <1>5, <1>8
  <2>2. "track" \notin Early /\ "track" \notin Dropped
    BY DEF Early, Dropped
  <2> QED
    BY <1>5, <1>7, <1>8, <1>10, <1>11, <2>1, <2>2 DEF Owns
<1>13. request'[r] = k
  BY <1>8 DEF Go, FlInv, TypeOK
<1>14. ASSUME NEW f \in FlowIds
       PROVE  Ticket(f)' /\ Tracked(f)'
  <2>1. f \in Nat
    BY NumbersOK DEF FlowIds
  <2>2. CASE f = id
    <3>1. Ticket(f)'
      BY <1>5, <1>7, <1>8, <1>11, <2>2 DEF Ticket
    <3>2. tracked'[f] = 0
      BY <1>8, <1>11, <2>2
    <3>3. At(r, "track")' /\ request'[r].id = f
      BY <1>7, <1>13, <2>2 DEF At
    <3>4. Tracked(f)'
      BY <3>2, <3>3 DEF Tracked
    <3> QED
      BY <3>1, <3>4
  <2>3. CASE f # id
    <3>1. Clean(f) /\ Ticket(f)
      BY <1>1, <1>2, Lonely DEF Solo, FlInv
    <3>2. Clean(f)' /\ (parked'[f] # NoFlow => parked'[f] = parked[f])
      BY <1>5, <1>8, <1>10, <2>3, <3>1, StoreClean
    <3>3. f < id => f < nextFlow'
      BY <1>5, <1>8, <2>1
    <3>4. f >= nextFlow' => f >= id
      BY <1>5, <1>8, <2>1
    <3>5. Ticket(f)'
      BY <1>4, <1>8, <3>1, <3>2, <3>3, <3>4 DEF Ticket
    <3> QED
      BY <3>2, <3>5, CleanTrackedNext
  <2> QED
    BY <2>2, <2>3
<1> QED
  BY <1>8, <1>12, <1>14, SoloMoves DEF FlInv

\* The flow written back is the ticket that is there.
LEMMA ReparkSolo ==
  ASSUME ConstantsOK, FlInv, Solo, NEW r \in Requests, \A s \in Requests \ {r} : ~Busy(s),
         Repark(r)
  PROVE  Solo'
<1>1. PICK h : h = request[r]
  OBVIOUS
<1>2. h \in Handler /\ h.step = "repark" /\ Owns(h)
  BY <1>1, AtHandler DEF Repark, At, Solo
<1>3. PICK p, id : p = h.pend /\ id = h.id
  OBVIOUS
<1>4. p \in Pending /\ p # NoFlow
  BY <1>2, <1>3, HandlerFields, NoFlowNotPending
<1>5. Go(r, Idle) /\ parked' = Store(id, p) /\ UNCHANGED <<now, tracked, nextFlow, minted>>
  BY <1>1, <1>3 DEF Repark, Answer, History
<1>6. id \in FlowIds /\ id < nextFlow /\ minted[id] = 0
      /\ parked[id] # NoFlow /\ parked[id].created = p.created
  BY <1>2, <1>3 DEF Owns, Held
<1>7. parked'[id] = p
  BY <1>5, <1>6 DEF Store
<1>8. ASSUME NEW f \in FlowIds
      PROVE  Ticket(f)' /\ Tracked(f)'
  <2>1. Clean(f) /\ Ticket(f)
    BY <1>1, <1>2, Lonely DEF Solo, FlInv
  <2>2. CASE f = id
    <3>1. Ticket(f)'
      BY <1>5, <1>6, <1>7, <2>1, <2>2 DEF Ticket
    <3>2. HasFlow(f)' <=> HasFlow(f)
      BY <1>4, <1>5, <1>6, <1>7, <2>2 DEF HasFlow, Live
    <3>3. Clean(f)'
      BY <1>5, <1>6, <1>7, <2>1, <2>2, <3>2 DEF Clean, Live
    <3> QED
      BY <3>1, <3>3, CleanTrackedNext
  <2>3. CASE f # id
    <3>1. Clean(f)' /\ (parked'[f] # NoFlow => parked'[f] = parked[f])
      BY <1>4, <1>5, <1>6, <2>1, <2>3, StoreClean
    <3>2. Ticket(f)'
      BY <1>5, <2>1, <3>1 DEF Ticket
    <3> QED
      BY <3>1, <3>2, CleanTrackedNext
  <2> QED
    BY <2>2, <2>3
<1> QED
  BY <1>5, <1>8, SoloMoves DEF FlInv

\* The second map catches up with the first.
LEMMA TrackSolo ==
  ASSUME ConstantsOK, FlInv, Solo, NEW r \in Requests, \A s \in Requests \ {r} : ~Busy(s),
         Track(r)
  PROVE  Solo'
<1>1. PICK h : h = request[r]
  OBVIOUS
<1>2. h \in Handler /\ h.step = "track" /\ Owns(h)
  BY <1>1, AtHandler DEF Track, At, Solo
<1>3. PICK at, id : at = h.pend.created /\ id = h.id
  OBVIOUS
<1>4. id \in FlowIds /\ id < nextFlow /\ minted[id] = 0
      /\ parked[id] # NoFlow /\ parked[id].created = at
  BY <1>2, <1>3 DEF Owns, Held
<1>5. /\ tracked' = [f \in FlowIds |-> IF f = id THEN at
                                       ELSE IF Live(tracked[f]) THEN tracked[f] ELSE 0]
      /\ Go(r, Idle) /\ UNCHANGED <<now, parked, nextFlow, minted>>
  BY <1>1, <1>3 DEF Track, Answer, History
<1>6. ASSUME NEW f \in FlowIds
      PROVE  Ticket(f)' /\ Tracked(f)'
  <2>1. Ticket(f)
    BY DEF Solo
  <2>2. CASE f = id
    <3>1. tracked'[f] = at
      BY <1>5, <2>2
    <3>2. Clean(f)'
      BY <1>4, <1>5, <2>2, <3>1 DEF Clean, HasFlow, Live
    <3>3. f \in Nat /\ nextFlow \in Nat
      BY NumbersOK DEF FlowIds, FlInv, TypeOK
    <3>4. ~(f >= nextFlow)
      BY <1>4, <2>2, <3>3
    <3>5. Ticket(f)'
      BY <1>5, <2>1, <3>4 DEF Ticket
    <3> QED
      BY <3>2, <3>5, CleanTrackedNext
  <2>3. CASE f # id
    <3>1. Clean(f)
      BY <1>1, <1>2, <1>3, <2>3, Lonely DEF FlInv
    <3>2. tracked'[f] = IF Live(tracked[f]) THEN tracked[f] ELSE 0
      BY <1>5, <2>3
    <3>3. HasFlow(f)' <=> HasFlow(f)
      BY <1>5 DEF HasFlow, Live
    <3>4. HasFlow(f) => Live(tracked[f])
      BY <3>1 DEF Clean, HasFlow
    <3>5. HasFlow(f) => tracked'[f] = parked'[f].created
      BY <1>5, <3>1, <3>2, <3>4 DEF Clean
    <3>6. tracked'[f] # 0 => HasFlow(f)
      BY <3>1, <3>2 DEF Clean
    <3>7. Clean(f)'
      BY <3>3, <3>5, <3>6 DEF Clean
    <3>8. Ticket(f)'
      BY <1>5, <2>1, <3>2 DEF Ticket
    <3> QED
      BY <3>7, <3>8, CleanTrackedNext
  <2> QED
    BY <2>2, <2>3
<1> QED
  BY <1>5, <1>6, SoloMoves DEF FlInv

\* The flow is dropped; its handler is between the maps.
LEMMA DropFlowSolo ==
  ASSUME ConstantsOK, FlInv, Solo, NEW r \in Requests, \A s \in Requests \ {r} : ~Busy(s),
         DropFlow(r)
  PROVE  Solo'
<1>1. PICK h : h = request[r]
  OBVIOUS
<1>2. h \in Handler /\ h.step = "drop" /\ Owns(h)
  BY <1>1, AtHandler DEF DropFlow, At, Solo
<1>3. PICK id : id = h.id
  OBVIOUS
<1>4. id \in FlowIds /\ id < nextFlow /\ minted[id] = 0
  BY <1>2, <1>3 DEF Owns, Held
<1>5. PICK k : k = [h EXCEPT !.step = "untrack"]
  OBVIOUS
<1>6. k.step = "untrack" /\ k.id = id
  BY <1>2, <1>3, <1>5 DEF Handler
<1>7. Go(r, k) /\ parked' = [parked EXCEPT ![id] = NoFlow]
      /\ UNCHANGED <<now, tracked, nextFlow, minted>>
  BY <1>1, <1>3, <1>5 DEF DropFlow, Goto, History
<1>8. parked'[id] = NoFlow /\ \A f \in FlowIds \ {id} : parked'[f] = parked[f]
  BY <1>4, <1>7 DEF FlInv, TypeOK
<1>9. Owns(k)'
  <2>1. "untrack" \notin Early /\ "untrack" \notin Held
    BY DEF Early, Held
  <2> QED
    BY <1>4, <1>6, <1>7, <1>8, <2>1 DEF Owns
<1>10. request'[r] = k
  BY <1>7 DEF Go, FlInv, TypeOK
<1>11. ASSUME NEW f \in FlowIds
       PROVE  Ticket(f)' /\ Tracked(f)'
  <2>1. Clean(f) /\ Ticket(f)
    BY <1>1, <1>2, Lonely DEF Solo, FlInv
  <2>2. CASE f = id
    <3>1. Ticket(f)'
      BY <1>7, <1>8, <2>1, <2>2 DEF Ticket
    <3>2. ~HasFlow(f)'
      BY <1>8, <2>2 DEF HasFlow
    <3>3. At(r, "untrack")' /\ request'[r].id = f
      BY <1>6, <1>10, <2>2 DEF At
    <3>4. Tracked(f)'
      BY <3>2, <3>3 DEF Tracked
    <3> QED
      BY <3>1, <3>4
  <2>3. CASE f # id
    <3>1. parked'[f] = parked[f]
      BY <1>8, <2>3
    <3>2. Clean(f)' /\ Ticket(f)'
      BY <1>7, <2>1, <3>1 DEF Clean, Ticket, HasFlow, Live
    <3> QED
      BY <3>2, CleanTrackedNext
  <2> QED
    BY <2>2, <2>3
<1> QED
  BY <1>7, <1>9, <1>11, SoloMoves DEF FlInv

\* The second map forgets it as well.
LEMMA UntrackSolo ==
  ASSUME ConstantsOK, FlInv, Solo, NEW r \in Requests, \A s \in Requests \ {r} : ~Busy(s),
         Untrack(r)
  PROVE  Solo'
<1>1. PICK h : h = request[r]
  OBVIOUS
<1>2. h \in Handler /\ h.step = "untrack" /\ Owns(h)
  BY <1>1, AtHandler DEF Untrack, At, Solo
<1>3. PICK id : id = h.id
  OBVIOUS
<1>4. id \in FlowIds /\ parked[id] = NoFlow
  BY <1>2, <1>3 DEF Owns, Dropped
<1>5. tracked' = [tracked EXCEPT ![id] = 0] /\ UNCHANGED <<now, parked, nextFlow, minted>>
  BY <1>1, <1>3 DEF Untrack, History
<1>6. tracked'[id] = 0 /\ \A f \in FlowIds \ {id} : tracked'[f] = tracked[f]
  BY <1>4, <1>5 DEF FlInv, TypeOK
<1>7. ASSUME NEW f \in FlowIds
      PROVE  Ticket(f)' /\ Tracked(f)'
  <2>1. Ticket(f)
    BY DEF Solo
  <2>2. CASE f = id
    <3>1. ~HasFlow(f)'
      BY <1>4, <1>5, <2>2 DEF HasFlow
    <3>2. Clean(f)'
      BY <1>6, <2>2, <3>1 DEF Clean
    <3>3. Ticket(f)'
      BY <1>4, <1>5, <1>6, <2>1, <2>2 DEF Ticket
    <3> QED
      BY <3>2, <3>3, CleanTrackedNext
  <2>3. CASE f # id
    <3>1. Clean(f)
      BY <1>1, <1>2, <1>3, <2>3, Lonely DEF FlInv
    <3>2. tracked'[f] = tracked[f]
      BY <1>6, <2>3
    <3>3. Clean(f)' /\ Ticket(f)'
      BY <1>5, <2>1, <3>1, <3>2 DEF Clean, Ticket, HasFlow, Live
    <3> QED
      BY <3>3, CleanTrackedNext
  <2> QED
    BY <2>2, <2>3
<1>8. CASE Go(r, Idle)
  BY <1>7, <1>8, SoloMoves DEF FlInv
<1>9. CASE \E step \in {"record", "mint"} : Go(r, [h EXCEPT !.step = step])
  <2>1. PICK step \in {"record", "mint"} : Go(r, [h EXCEPT !.step = step])
    BY <1>9
  <2>2. PICK k : k = [h EXCEPT !.step = step]
    OBVIOUS
  <2>3. k.id = h.id /\ k.pend = h.pend /\ k.step = step
    BY <1>2, <2>2 DEF Handler
  <2>4. Owns(k)
    BY <1>2, <2>3, OwnsOn DEF Dropped
  <2>5. Owns(k)'
    <3>1. k.step # "track"
      BY <2>3
    <3> QED
      BY <1>5, <2>4, <3>1 DEF Owns
  <2> QED
    BY <1>7, <2>1, <2>2, <2>5, SoloMoves DEF FlInv
<1> QED
  BY <1>1, <1>8, <1>9 DEF Untrack, Answer, Goto

\* The ticket is spent.
LEMMA MintSolo ==
  ASSUME ConstantsOK, FlInv, Solo, NEW r \in Requests, \A s \in Requests \ {r} : ~Busy(s),
         Mint(r)
  PROVE  Solo'
<1>1. PICK h : h = request[r]
  OBVIOUS
<1>2. h \in Handler /\ Owns(h) /\ h.step \in {"mint", "stage"}
  BY <1>1, AtHandler DEF Mint, Minting, StageIs, At, Solo
<1>3. PICK k : k = [step |-> "complete", pend |-> h.pend, id |-> h.id, stages |-> <<>>,
                    cursor |-> 1, risky |-> FALSE, verified |-> h.verified]
  OBVIOUS
<1>4. k.id = h.id /\ k.pend = h.pend /\ k.step = "complete"
  BY <1>3
<1>5. Go(r, Idle) \/ Go(r, k)
  BY <1>1, <1>3 DEF Mint, Answer, Leave
<1>6. UNCHANGED <<now, parked, tracked, nextFlow>>
      /\ minted' = IF h.id = 0 THEN minted ELSE [minted EXCEPT ![h.id] = @ + 1]
  BY <1>1 DEF Mint, Memory
<1>7. Owns(k)'
  BY <1>4 DEF Owns, Early, Held, Dropped
<1>8. ASSUME NEW f \in FlowIds
      PROVE  Ticket(f)' /\ Tracked(f)'
  <2>1. Clean(f) /\ Ticket(f)
    BY <1>1, <1>2, Lonely DEF Solo, FlInv
  <2>2. Clean(f)'
    BY <1>6, <2>1 DEF Clean, HasFlow, Live
  <2>3. f \in Nat /\ nextFlow \in Nat /\ f # 0
    BY NumbersOK DEF FlowIds, FlInv, TypeOK
  <2>4. CASE h.id = f
    <3>1. h.step = "mint"
      BY <1>2, <2>3, <2>4 DEF Owns, Early
    <3>2. parked[f] = NoFlow /\ minted[f] = 0 /\ f < nextFlow
      BY <1>2, <2>4, <3>1 DEF Owns, Dropped
    <3>3. minted'[f] = 1
      BY <1>6, <2>3, <2>4, <3>2 DEF FlInv, HistoriesOK
    <3>4. ~(f >= nextFlow)
      BY <2>3, <3>2
    <3> QED
      BY <1>6, <2>2, <3>2, <3>3, <3>4, CleanTrackedNext DEF Ticket
  <2>5. CASE h.id # f
    <3>1. minted'[f] = minted[f]
      BY <1>6, <2>5 DEF FlInv, HistoriesOK
    <3> QED
      BY <1>6, <2>1, <2>2, <3>1, CleanTrackedNext DEF Ticket
  <2> QED
    BY <2>4, <2>5
<1> QED
  BY <1>5, <1>7, <1>8, SoloMoves DEF FlInv

\* A request that starts without trouble finds nobody busy.
LEMMA StartsAlone ==
  ASSUME NEW r \in Requests, Overlaps(r), "overlap" \notin mishaps'
  PROVE  \A s \in Requests : ~Busy(s)
BY DEF Overlaps, Trouble

\* A request for a code starts with no flow.
LEMMA AuthorizeSolo ==
  ASSUME ConstantsOK, FlInv, Solo, NEW r \in Requests, \A s \in Requests : ~Busy(s),
         NEW u, NEW t, NEW a, NEW s, Authorize(r, u, t, a, s)
  PROVE  Solo'
<1>1. PICK h : h = [step |-> "stage", id |-> 0, stages |-> s, cursor |-> 1,
                    risky |-> FALSE, verified |-> FALSE,
                    pend |-> [user |-> u, txn |-> t, asked |-> a.rank, acr |-> 0,
                              method |-> a.method, target |-> 0, chal |-> 0,
                              created |-> 0, barred |-> FALSE]]
  OBVIOUS
<1>2. Go(r, h) /\ UNCHANGED <<now, parked, tracked, nextFlow, minted>>
  BY <1>1 DEF Authorize, Memory, History
<1>3. h.id = 0 /\ h.step = "stage"
  BY <1>1
<1>4. Owns(h)
  BY <1>3 DEF Owns, Early, Held, Dropped
<1>5. request[r].step \notin {"track", "untrack"}
  BY DEF Busy, Idle
<1> QED
  BY <1>2, <1>4, <1>5, SoloQuiet DEF FlInv

\* A verification or a registration takes the ticket that is there.
LEMMA ResumeSolo ==
  ASSUME ConstantsOK, FlInv, Solo, NEW r \in Requests, \A s \in Requests : ~Busy(s),
         NEW id \in FlowIds, NEW step \in {"verify", "finish"}, Resume(r, id, step)
  PROVE  Solo'
<1>1. request[r] = Idle /\ request[r].step \notin {"track", "untrack"}
  BY DEF Busy, Idle
<1>2. CASE HasFlow(id)
  <2>1. PICK h : h = [step |-> step, pend |-> parked[id], id |-> id, stages |-> <<>>,
                      cursor |-> 1, risky |-> FALSE, verified |-> FALSE]
    OBVIOUS
  <2>2. Go(r, h) /\ UNCHANGED <<now, parked, tracked, nextFlow, minted>>
    BY <1>2, <2>1 DEF Resume, History
  <2>3. h.id = id /\ h.step = step /\ h.pend = parked[id]
    BY <2>1
  <2>4. parked[id] # NoFlow /\ minted[id] = 0 /\ id < nextFlow
    BY <1>2 DEF HasFlow, Solo, Ticket
  <2>5. Owns(h)
    BY <2>3, <2>4 DEF Owns, Early, Held, Dropped
  <2> QED
    BY <1>1, <2>2, <2>5, SoloQuiet DEF FlInv
<1>3. CASE ~HasFlow(id)
  <2>1. Go(r, Idle)
    BY <1>1, <1>3 DEF Resume, Go, FlInv, TypeOK
  <2>2. parked' = [parked EXCEPT ![id] = NoFlow] /\ UNCHANGED <<now, tracked, nextFlow, minted>>
    BY <1>3 DEF Resume, History
  <2>3. parked'[id] = NoFlow /\ \A f \in FlowIds \ {id} : parked'[f] = parked[f]
    BY <2>2 DEF FlInv, TypeOK
  <2>4. ASSUME NEW f \in FlowIds
        PROVE  Ticket(f)' /\ Tracked(f)'
    <3>1. Clean(f) /\ Ticket(f)
      BY <1>1, Lonely DEF Solo, FlInv
    <3>2. HasFlow(f)' <=> HasFlow(f)
      BY <1>3, <2>2, <2>3 DEF HasFlow, Live
    <3>3. parked'[f] # NoFlow => parked'[f] = parked[f]
      BY <2>3
    <3>4. HasFlow(f)' => parked'[f] = parked[f]
      BY <3>3 DEF HasFlow
    <3>5. Clean(f)' /\ Ticket(f)'
      BY <2>2, <3>1, <3>2, <3>3, <3>4 DEF Clean, Ticket, Live
    <3> QED
      BY <3>5, CleanTrackedNext
  <2> QED
    BY <2>1, <2>4, SoloMoves DEF FlInv
<1> QED
  BY <1>2, <1>3

\* The clock ages both maps alike.
LEMMA TickSolo ==
  ASSUME ConstantsOK, FlInv, Solo, Tick
  PROVE  Solo'
<1>1. /\ now' = now + 1 /\ now \in Nat /\ FlowTTL \in Nat
      /\ UNCHANGED <<parked, tracked, nextFlow, minted, request>>
  BY NumbersOK DEF Tick, Memory, History, FlInv, TypeOK
<1>2. ASSUME NEW c \in Nat, Live(c)'
      PROVE  Live(c)
  BY <1>1, <1>2 DEF Live
<1>3. ASSUME NEW f \in FlowIds
      PROVE  Ticket(f)' /\ Tracked(f)'
  <2>1. Ticket(f) /\ Tracked(f)
    BY DEF Solo
  <2>2. Ticket(f)'
    BY <1>1, <2>1 DEF Ticket
  <2>3. tracked[f] \in Nat
    BY NumbersOK DEF FlInv, TypeOK
  <2>4. parked[f] # NoFlow => parked[f].created \in Nat
    BY PendingFields, NumbersOK DEF FlInv, TypeOK
  <2>5. HasFlow(f)' => HasFlow(f)
    BY <1>1, <1>2, <2>4 DEF HasFlow, Live
  <2>6. HasFlow(f)' /\ tracked'[f] # parked'[f].created =>
          \E r \in Requests : At(r, "track")' /\ request'[r].id = f
    BY <1>1, <2>1, <2>5 DEF Tracked, At
  <2>7. ASSUME tracked'[f] # 0, Live(tracked[f])', ~HasFlow(f)'
        PROVE  \E r \in Requests : At(r, "untrack")' /\ request'[r].id = f
    <3>1. tracked[f] # 0 /\ Live(tracked[f])
      BY <1>1, <1>2, <2>3, <2>7
    <3>2. CASE ~HasFlow(f)
      BY <1>1, <2>1, <3>1, <3>2 DEF Tracked, At
    <3>3. CASE HasFlow(f)
      <4>1. ~(tracked[f] = parked[f].created)
        BY <1>1, <2>7, <3>3 DEF HasFlow, Live
      <4>2. PICK r \in Requests : At(r, "track") /\ request[r].id = f
        BY <2>1, <3>3, <4>1 DEF Tracked
      <4>3. Owns(request[r])
        BY <4>2 DEF Solo, At, Busy, Idle
      <4>4. tracked[f] = 0
        BY <4>2, <4>3 DEF Owns, At
      <4> QED
        BY <3>1, <4>4
    <3> QED
      BY <3>2, <3>3
  <2>8. Tracked(f)'
    BY <2>6, <2>7 DEF Tracked
  <2> QED
    BY <2>2, <2>8
<1>4. \A r \in Requests : Busy(r)' => Owns(request[r])'
  BY <1>1 DEF Solo, Busy, Owns
<1>5. \A r, s \in Requests : Busy(r)' /\ Busy(s)' => r = s
  BY <1>1 DEF Solo, Busy
<1> QED
  BY <1>3, <1>4, <1>5 DEF Solo

\* A restart empties both maps and ends the handler.
LEMMA RestartSolo ==
  ASSUME ConstantsOK, FlInv, Solo, Restart
  PROVE  Solo'
<1>1. \A r \in Requests : ~Busy(r)'
  BY DEF Restart, Busy
<1>2. \A f \in FlowIds : parked'[f] = NoFlow /\ tracked'[f] = 0
  BY DEF Restart
<1>3. UNCHANGED <<nextFlow, minted>>
  BY DEF Restart, History
<1>4. ASSUME NEW f \in FlowIds
      PROVE  Ticket(f)' /\ Tracked(f)'
  <2>1. Ticket(f)'
    BY <1>2, <1>3 DEF Solo, Ticket
  <2>2. Clean(f)'
    BY <1>2 DEF Clean, HasFlow
  <2> QED
    BY <2>1, <2>2, CleanTrackedNext
<1> QED
  BY <1>1, <1>4 DEF Solo

\* Nothing that Solo speaks of changes.
LEMMA SameSolo ==
  ASSUME Solo, UNCHANGED <<now, parked, tracked, nextFlow, minted, request>>
  PROVE  Solo'
<1>1. \A f \in FlowIds : Ticket(f)' /\ Tracked(f)'
  BY DEF Solo, Ticket, Tracked, HasFlow, Live, At
<1>2. \A r \in Requests : Busy(r)' => Owns(request[r])'
  BY DEF Solo, Busy, Owns
<1>3. \A r, s \in Requests : Busy(r)' /\ Busy(s)' => r = s
  BY DEF Solo, Busy
<1> QED
  BY <1>1, <1>2, <1>3 DEF Solo

\* Every step preserves it.
LEMMA NextAlone ==
  ASSUME ConstantsOK
  PROVE  FlInv /\ AloneInv /\ [Next]_vars => AloneInv'
<1> SUFFICES ASSUME FlInv, AloneInv, [Next]_vars, "overlap" \notin mishaps'
             PROVE  Solo'
  BY DEF AloneInv
<1>1. Solo
  BY TroubleStays DEF AloneInv
<1>2. ASSUME NEW r \in Requests, Step(r)
      PROVE  Solo'
  <2>1. \A s \in Requests \ {r} : ~Busy(s)
    BY <1>1, <1>2 DEF Solo, Step
  <2> QED
    BY <1>1, <1>2, <2>1, GoesOnSolo, ParkSolo, ReparkSolo, TrackSolo, DropFlowSolo, UntrackSolo,
       MintSolo DEF Step
<1>3. ASSUME NEW r \in Requests, Start(r)
      PROVE  Solo'
  <2>1. Overlaps(r)
    BY <1>3 DEF Start, Authorize, Verify, RegisterFinish, Resume
  <2>2. \A s \in Requests : ~Busy(s)
    BY <2>1, StartsAlone
  <2> QED
    BY <1>1, <1>3, <2>2, AuthorizeSolo, ResumeSolo DEF Start, Verify, RegisterFinish
<1>4. ASSUME Environment
      PROVE  Solo'
  <2>1. CASE Tick
    BY <1>1, <2>1, TickSolo
  <2>2. CASE Restart
    BY <1>1, <2>2, RestartSolo
  <2>3. CASE UNCHANGED <<now, parked, tracked, nextFlow, minted, request>>
    BY <1>1, <2>3, SameSolo
  <2> QED
    BY <1>4, <2>1, <2>2, <2>3
       DEF Environment, Advise, ChallengeExpires, DisablePasskey, Memory, History
<1>5. CASE UNCHANGED vars
  BY <1>1, <1>5, SameSolo DEF vars
<1> QED
  BY <1>2, <1>3, <1>4, <1>5 DEF Next

\* The initial states are those of an idle service with empty maps.
LEMMA InitAlone == ASSUME ConstantsOK PROVE Init => AloneInv
<1> SUFFICES ASSUME Init PROVE Solo
  BY DEF AloneInv
<1>1. \A r \in Requests : ~Busy(r)
  BY DEF Init, Busy
<1>2. ASSUME NEW f \in FlowIds
      PROVE  Ticket(f) /\ Tracked(f)
  <2>1. parked[f] = NoFlow /\ tracked[f] = 0 /\ minted[f] = 0
    BY <1>2 DEF Init
  <2>2. Clean(f)
    BY <2>1 DEF Clean, HasFlow
  <2> QED
    BY <2>1, <2>2, CleanTracked DEF Ticket
<1> QED
  BY <1>1, <1>2 DEF Solo

\* AloneInv is an invariant.
THEOREM AloneHolds == ASSUME ConstantsOK PROVE Spec => []AloneInv
<1>1. FlInv /\ AloneInv /\ [Next]_vars => AloneInv'
  BY NextAlone
<1>2. Init => AloneInv
  BY InitAlone
<1> QED
  BY <1>1, <1>2, Invariance, PTL DEF Spec

\* A parked flow buys one code while no two handlers are on it at once: lost
\* answers, retries, registrations and restarts do not add a second
\* (peekFlow, dropFlow).
THEOREM OneTicket == ASSUME ConstantsOK PROVE Spec => []SingleTicket
<1>1. AloneInv => SingleTicket
  BY DEF AloneInv, Solo, Ticket, SingleTicket
<1> QED
  BY <1>1, AloneHolds, PTL

\* What the consoles list as live step-ups is what is parked, whenever no
\* handler is between the two maps (stepup_tracker.go:9-18).
THEOREM MirrorsHold == ASSUME ConstantsOK PROVE Spec => []Mirrors
<1>1. FlInv /\ AloneInv => Mirrors
  <2> SUFFICES ASSUME FlInv, AloneInv, "overlap" \notin mishaps, \A r \in Requests : ~Busy(r),
                      NEW f \in FlowIds
               PROVE  HasFlow(f) <=> (tracked[f] # 0 /\ Live(tracked[f]))
    BY DEF Mirrors
  <2>1. Solo
    BY DEF AloneInv
  <2>2. Clean(f)
    <3>1. ~Between(f)
      BY DEF Between, Busy, Idle
    <3> QED
      BY <2>1, <3>1, CleanTracked DEF Solo
  <2>3. HasFlow(f) => parked[f].created > 0 /\ Live(parked[f].created)
    BY <2>1 DEF Solo, Ticket, HasFlow
  <2>4. HasFlow(f) => parked[f].created # 0
    <3>1. parked[f] # NoFlow => parked[f].created \in 0..MaxTime
      BY PendingFields DEF FlInv, TypeOK
    <3> QED
      BY <2>3, <3>1, NumbersOK DEF HasFlow
  <2> QED
    BY <2>2, <2>3, <2>4 DEF Clean
<1> QED
  BY <1>1, Invariance, AloneHolds, PTL

====
