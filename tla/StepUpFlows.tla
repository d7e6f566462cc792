----------------------------- MODULE StepUpFlows -----------------------------
(***************************************************************************)
(* /authorize of authentication-service: the flow executor, the protection *)
(* ladder with its in-memory ledger, parked step-up flows, the challenges  *)
(* of authenticator-service as this service sees them, and the advice      *)
(* calls a finished flow completes.  Every store, map or peer call is a    *)
(* step; a handler holds copies of what it read.                           *)
(***************************************************************************)
EXTENDS Naturals, FiniteSets, Sequences

CONSTANTS
  Requests,       \* handlers in flight at most
  Users, NoUser,  \* one authorization session per user; NoUser: none named
  Txns, NoTxn,    \* advice transactions
  NumFlows,       \* bound: flow ids handed out
  NumChallenges,  \* bound: challenges created
  MaxRank,        \* strongest protection level
  SmsRank,        \* levels up to this one are met by sms
  FlowDefs,       \* stage lists a tenant may have enabled
  AcrValues,      \* what clients ask for, a part of Asked
  Advised,        \* levels and users advice calls name
  FlowTTL, Freshness, LedgerTTL,
  MaxMishaps,     \* bound: kinds of trouble one behaviour mixes
  MaxTime         \* bound: the clock

FlowIds == 1..NumFlows
ChallengeIds == 1..NumChallenges
Ranks == 0..MaxRank
StageTypes == {"risk-evaluation", "authenticator-validate", "user-login", "deny"}
Gates == {"always", "risky", "calm"}

(* matchProtection and protectionLevels, matchStepUp: a level names its     *)
(* method; effectiveStepUpSpec puts sms in the place of fido2 when the      *)
(* tenant has it switched off.                                              *)
Asked == [rank : 1..MaxRank, method : {"none"}]
         \cup [rank : {0}, method : {"none", "sms", "fido2"}]
LevelMethod(rank) == IF rank <= SmsRank THEN "sms" ELSE "fido2"
Effective(method) == IF method = "fido2" THEN {"fido2", "sms"} ELSE {method}

(* What the constants are: numbers, a clock that starts at 1, absent values  *)
(* that are no users or transactions, advice that names a level.             *)
ConstantsOK ==
  /\ {NumFlows, NumChallenges, MaxRank, SmsRank, FlowTTL, Freshness, LedgerTTL,
      MaxMishaps} \subseteq Nat
  /\ MaxTime \in Nat \ {0}
  /\ NoUser \notin Users /\ NoTxn \notin Txns
  /\ AcrValues \subseteq Asked
  /\ Advised \subseteq [rank : 1..MaxRank, user : Users \cup {NoUser}]
  /\ \A s \in FlowDefs : s \in Seq([type : StageTypes, gate : Gates])

(* Stage d of a list denies, after every evaluation and before whatever      *)
(* challenges or mints.                                                      *)
RefusedAt(s, d) ==
  /\ s[d].type = "deny" /\ s[d].gate # "calm"
  /\ \A k \in 1..Len(s) :
       /\ s[k].type = "risk-evaluation" => k < d
       /\ s[k].type \in {"authenticator-validate", "user-login"} => k > d

VARIABLES
  now,
  parked,     \* OIDCHandlers.flows: flow id -> pendingAuthorize, or NoFlow
  tracked,    \* StepUpTracker.m: flow id -> StartedAt, or 0 (times start at 1)
  nextFlow,
  ledger,     \* ProtectionLedger.m
  advice,     \* advice_calls
  challenge,  \* authenticator-service's challenges
  passkey,    \* users with an enabled fido2 authenticator there
  request,    \* handlers
  mishaps,    \* history: the kinds of trouble so far
  issued,     \* history: users and transactions of the codes stored so far
  minted,     \* history: how many codes each flow has minted
  emitted,    \* history: how many CAEP events each transaction has caused
  proved      \* history: the strongest level a right response was given for

vars == <<now, parked, tracked, nextFlow, ledger, advice, challenge, passkey,
          request, mishaps, issued, minted, emitted, proved>>
Memory == <<parked, tracked, nextFlow, ledger>>
History == <<issued, minted, emitted, proved>>
Kinds == {"overlap", "time", "restart", "expiry", "disabled"}

(* A pending authorization.  asked is the level of acr_values; target the   *)
(* level a right response earns; acr what a pass-through stamps.            *)
(* barred is history: a deny stage of this flow applies to the request.     *)
Pending == [user : Users, txn : Txns \cup {NoTxn}, asked : Ranks, acr : Ranks,
            method : {"none", "sms", "fido2"}, target : Ranks,
            chal : {0} \cup ChallengeIds, created : 0..MaxTime, barred : BOOLEAN]
NoFlow == [chal |-> 0, created |-> 0]

Handler == [step : {"stage", "list", "challenge", "park", "track",
                    "verify", "answer", "drop", "untrack", "record",
                    "mint", "complete", "finish", "rechallenge", "repark"},
            pend : Pending, id : {0} \cup FlowIds, stages : FlowDefs \cup {<<>>},
            cursor : Nat, risky : BOOLEAN, verified : BOOLEAN]
Idle == [step |-> "idle"]
Busy(r) == request[r] # Idle

Go(r, h) == request' = [request EXCEPT ![r] = h]
Answer(r) == Go(r, Idle)
At(r, step) == request[r].step = step
Goto(r, step) == Go(r, [request[r] EXCEPT !.step = step])

(* Calm: no trouble in this step.  Trouble(k): trouble of kind k.            *)
Calm == UNCHANGED mishaps
Trouble(kind) == /\ mishaps' = mishaps \cup {kind}
                 /\ Cardinality(mishaps') <= MaxMishaps
Overlaps(r) == IF \E s \in Requests : Busy(s) THEN Trouble("overlap") ELSE Calm

Live(created) == now - created <= FlowTTL

-----------------------------------------------------------------------------
(* POST /v1/advice records the call; a failed insert is only logged, and     *)
(* the id it answered is then unknown to /authorize.                         *)
NoAdvice == [rank |-> 0, user |-> NoUser, by |-> NoUser]
Advise(t, rank, user) ==
  /\ advice[t] = NoAdvice
  /\ advice' = [advice EXCEPT ![t] = [rank |-> rank, user |-> user, by |-> NoUser]]
  /\ UNCHANGED <<now, Memory, challenge, passkey, request, History, mishaps>>

(* The checks /authorize makes of a transaction id.                          *)
AdviceIgnoresRank(t, user, rank) ==
  t \in Txns =>
    advice[t].rank > 0 /\ advice[t].by = NoUser /\ advice[t].user \in {NoUser, user}
AdviceAllows(t, user, rank) ==
  t \in Txns => /\ advice[t].rank > 0
                /\ advice[t].by = NoUser
                /\ advice[t].user \in {NoUser, user}
                /\ rank >= advice[t].rank

(* The stages before the challenge that refuse a risky request.              *)
DeniesRisky(stages) ==
  \E i, j \in 1..Len(stages) :
    /\ i < j /\ stages[i].type = "risk-evaluation"
    /\ stages[j].type = "deny" /\ stages[j].gate # "calm"

(* The order of the risk-adaptive template (RiskAdaptiveFlowDefinition):     *)
(* what would deny comes before whatever challenges or mints.                *)
DeniesInTime ==
  \A s \in FlowDefs : DeniesRisky(s) => \E d \in 1..Len(s) : RefusedAt(s, d)

(* Bound: each handler without a flow may yet park one.                      *)
Room == nextFlow + Cardinality({s \in Requests : Busy(s) /\ request[s].id = 0}) <= NumFlows

Authorize(r, user, t, acr, stages) ==
  /\ ~Busy(r) /\ Room /\ Overlaps(r)
  /\ AdviceAllows(t, user, acr.rank)
  /\ Go(r, [step |-> "stage", id |-> 0, stages |-> stages, cursor |-> 1,
            risky |-> FALSE, verified |-> FALSE,
            pend |-> [user |-> user, txn |-> t, asked |-> acr.rank, acr |-> 0,
                      method |-> acr.method, target |-> 0, chal |-> 0,
                      created |-> 0, barred |-> FALSE]])
  /\ UNCHANGED <<now, Memory, advice, challenge, passkey, History>>

-----------------------------------------------------------------------------
(* The executor: one stage at a time.  A gated stage whose policy does not   *)
(* pass is skipped; risk that was never evaluated, or could not be, reads as *)
(* not risky.                                                                *)
Runs(gate, risky) == gate = "always" \/ (gate = "risky") = risky

Advance(r, h) == Go(r, [h EXCEPT !.cursor = @ + 1])

Skip(r) ==
  LET h == request[r] IN
  /\ At(r, "stage")
  /\ h.cursor <= Len(h.stages) => ~Runs(h.stages[h.cursor].gate, h.risky)
  /\ IF h.cursor > Len(h.stages) THEN Answer(r) ELSE Advance(r, h)
  /\ UNCHANGED <<now, Memory, advice, challenge, passkey, History, mishaps>>

StageIs(r, type) ==
  LET h == request[r] IN
  /\ At(r, "stage")
  /\ h.cursor <= Len(h.stages)
  /\ h.stages[h.cursor].type = type
  /\ Runs(h.stages[h.cursor].gate, h.risky)

RiskEvaluation(r) ==
  /\ StageIs(r, "risk-evaluation")
  /\ \E risky \in BOOLEAN :
       Advance(r, [request[r] EXCEPT !.risky = risky,
                     !.pend.barred = risky /\ DeniesRisky(request[r].stages)])
  /\ UNCHANGED <<now, Memory, advice, challenge, passkey, History, mishaps>>

DenyLogs(r) ==
  /\ StageIs(r, "deny")
  /\ Advance(r, request[r])
  /\ UNCHANGED <<now, Memory, advice, challenge, passkey, History, mishaps>>
Deny(r) ==
  /\ StageIs(r, "deny")
  /\ Answer(r)
  /\ UNCHANGED <<now, Memory, advice, challenge, passkey, History, mishaps>>

(* ProtectionLedger: gcLocked runs before each access.                       *)
Remembered(user) == now - ledger[user].at <= LedgerTTL
Achieved(user) == IF Remembered(user) THEN ledger[user].rank ELSE 0
AchievedWithin(user) ==
  IF Remembered(user) /\ now - ledger[user].at <= Freshness THEN ledger[user].rank ELSE 0
Satisfied(user, rank) == AchievedWithin(user) >= rank

(* What the executor knew is gone once a handler leaves it.                  *)
Leave(r, p, step) == Go(r, [step |-> step, pend |-> p, id |-> request[r].id, stages |-> <<>>,
                            cursor |-> 1, risky |-> FALSE, verified |-> request[r].verified])

AuthenticatorValidate(r) ==
  LET h == request[r]  p == h.pend IN
  /\ StageIs(r, "authenticator-validate")
  /\ \/ /\ p.asked > 0 /\ Satisfied(p.user, p.asked)
        /\ Advance(r, [h EXCEPT !.pend.acr = p.asked])
     \/ /\ p.asked > 0 /\ ~Satisfied(p.user, p.asked)
        /\ \E m \in Effective(LevelMethod(p.asked)) :
             Leave(r, [p EXCEPT !.method = m, !.target = p.asked], "list")
     \/ /\ p.asked = 0 /\ p.method # "none"
        /\ \E m \in Effective(p.method) :
             Leave(r, [p EXCEPT !.method = m], "list")
     \/ /\ p.asked = 0 /\ p.method = "none"
        /\ Advance(r, h)
  /\ UNCHANGED <<now, Memory, advice, challenge, passkey, History, mishaps>>

-----------------------------------------------------------------------------
(* startStepUpFlow and startWebAuthnStepUp.  Any call of authenticator-      *)
(* service may fail, and so does sms without a phone number on file; the     *)
(* handler then answers with nothing parked.                                 *)
PeerFails(r, steps) ==
  /\ Busy(r) /\ request[r].step \in steps
  /\ Answer(r)
  /\ UNCHANGED <<now, Memory, advice, challenge, passkey, History, mishaps>>

List(r) ==
  LET p == request[r].pend IN
  /\ At(r, "list")
  /\ Goto(r, IF p.method = "sms" \/ p.user \in passkey THEN "challenge" ELSE "park")
  /\ UNCHANGED <<now, Memory, advice, challenge, passkey, History, mishaps>>

Unborn == {c \in ChallengeIds : challenge[c] = "unborn"}
CreateChallenge(r) ==
  LET h == request[r] IN
  /\ At(r, "challenge") \/ At(r, "rechallenge")
  /\ \E c \in Unborn :
       /\ \A d \in Unborn : c <= d
       /\ challenge' = [challenge EXCEPT ![c] = "open"]
       /\ Go(r, [h EXCEPT !.pend.chal = c, !.step = IF @ = "challenge" THEN "park" ELSE "repark"])
  /\ UNCHANGED <<now, Memory, advice, passkey, History, mishaps>>

(* storeFlow drops expired rows and writes the copy it is given.             *)
Store(id, p) == [f \in FlowIds |-> IF f = id THEN p
                                   ELSE IF Live(parked[f].created) THEN parked[f] ELSE NoFlow]

Park(r) ==
  /\ At(r, "park") /\ nextFlow \in FlowIds
  /\ LET p == [request[r].pend EXCEPT !.created = now] IN
       /\ parked' = Store(nextFlow, p)
       /\ Go(r, [request[r] EXCEPT !.step = "track", !.id = nextFlow, !.pend = p])
  /\ nextFlow' = nextFlow + 1
  /\ UNCHANGED <<now, tracked, ledger, advice, challenge, passkey, History, mishaps>>

(* StepUpTracker.Start, after the flow can already be verified.              *)
Track(r) ==
  /\ At(r, "track")
  /\ tracked' = [f \in FlowIds |-> IF f = request[r].id THEN request[r].pend.created
                                   ELSE IF Live(tracked[f]) THEN tracked[f] ELSE 0]
  /\ Answer(r)
  /\ UNCHANGED <<now, parked, nextFlow, ledger, advice, challenge, passkey, History, mishaps>>

-----------------------------------------------------------------------------
(* peekFlow: a copy of a live flow; an expired one is deleted on the way.    *)
HasFlow(id) == parked[id] # NoFlow /\ Live(parked[id].created)

Resume(r, id, step) ==
  /\ ~Busy(r) /\ parked[id] # NoFlow
  /\ Overlaps(r)
  /\ IF HasFlow(id)
     THEN /\ Go(r, [step |-> step, pend |-> parked[id], id |-> id, stages |-> <<>>,
                    cursor |-> 1, risky |-> FALSE, verified |-> FALSE])
          /\ UNCHANGED parked
     ELSE parked' = [parked EXCEPT ![id] = NoFlow] /\ UNCHANGED request
  /\ UNCHANGED <<now, tracked, nextFlow, ledger, advice, challenge, passkey, History>>

(* AuthorizeVerify.  The peer decides on the challenge as it was when the    *)
(* call arrived; a flow parked for registration has none.                    *)
Verify(r, id) == Resume(r, id, "verify")

Arrive(r) ==
  LET c == request[r].pend.chal IN
  /\ At(r, "verify")
  /\ IF c = 0 THEN Answer(r)
     ELSE Goto(r, IF challenge[c] = "open" THEN "answer" ELSE "drop")
  /\ UNCHANGED <<now, Memory, advice, challenge, passkey, History, mishaps>>

Raise(user, rank) == [proved EXCEPT ![user] = IF rank > @ THEN rank ELSE @]

(* Right: the flow is dropped and goes on to mint.  If the answer is lost,   *)
(* the client reads it as an outage and keeps the flow.                      *)
RightResponse(r) ==
  LET h == request[r] IN
  /\ At(r, "answer")
  /\ challenge' = [challenge EXCEPT ![h.pend.chal] = "done"]
  /\ proved' = Raise(h.pend.user, h.pend.target)
  /\ \/ Go(r, [h EXCEPT !.step = "drop", !.verified = TRUE])
     \/ Answer(r)
  /\ UNCHANGED <<now, Memory, advice, passkey, mishaps, issued, minted, emitted>>

(* Wrong, throttled, or out of attempts: only the last one ends the flow.    *)
WrongResponse(r) ==
  LET h == request[r] IN
  /\ At(r, "answer")
  /\ \/ Answer(r) /\ UNCHANGED challenge
     \/ /\ challenge' = [challenge EXCEPT ![h.pend.chal] = "done"]
        /\ Goto(r, "drop")
  /\ UNCHANGED <<now, Memory, advice, passkey, History, mishaps>>

DropFlowLate(r) ==
  /\ At(r, "drop")
  /\ Goto(r, "untrack")
  /\ UNCHANGED <<now, Memory, advice, challenge, passkey, History, mishaps>>
DropFlow(r) ==
  /\ At(r, "drop")
  /\ parked' = [parked EXCEPT ![request[r].id] = NoFlow]
  /\ Goto(r, "untrack")
  /\ UNCHANGED <<now, tracked, nextFlow, ledger, advice, challenge, passkey, History, mishaps>>

UntrackVerified(r) ==
  LET h == request[r] IN
  /\ At(r, "untrack")
  /\ tracked' = IF h.verified THEN [tracked EXCEPT ![h.id] = 0] ELSE tracked
  /\ IF h.verified THEN Goto(r, IF h.pend.target > 0 THEN "record" ELSE "mint") ELSE Answer(r)
  /\ UNCHANGED <<now, parked, nextFlow, ledger, advice, challenge, passkey, History, mishaps>>
Untrack(r) ==
  LET h == request[r] IN
  /\ At(r, "untrack")
  /\ tracked' = [tracked EXCEPT ![h.id] = 0]
  /\ IF h.verified THEN Goto(r, IF h.pend.target > 0 THEN "record" ELSE "mint") ELSE Answer(r)
  /\ UNCHANGED <<now, parked, nextFlow, ledger, advice, challenge, passkey, History, mishaps>>

(* ProtectionLedger.Record keeps the strongest rank and refreshes its time.  *)
RecordAdds(r) ==
  LET p == request[r].pend IN
  /\ At(r, "record")
  /\ ledger' = [ledger EXCEPT ![p.user] =
                  [rank |-> Achieved(p.user) + p.target, at |-> now]]
  /\ Go(r, [request[r] EXCEPT !.step = "mint", !.pend.acr = p.target])
  /\ UNCHANGED <<now, parked, tracked, nextFlow, advice, challenge, passkey, History, mishaps>>
Record(r) ==
  LET p == request[r].pend IN
  /\ At(r, "record")
  /\ ledger' = [ledger EXCEPT ![p.user] =
                  [rank |-> IF p.target > Achieved(p.user) THEN p.target ELSE Achieved(p.user),
                   at |-> now]]
  /\ Go(r, [request[r] EXCEPT !.step = "mint", !.pend.acr = p.target])
  /\ UNCHANGED <<now, parked, tracked, nextFlow, advice, challenge, passkey, History, mishaps>>

-----------------------------------------------------------------------------
(* mintCodeAndRedirect: store the code (or answer 500), then complete the    *)
(* transaction.                                                              *)
Minting(r) == At(r, "mint") \/ StageIs(r, "user-login")
Mint(r) ==
  LET h == request[r]  p == h.pend IN
  /\ Minting(r)
  /\ issued' = issued \cup {<<p.user, p.txn>>}
  /\ minted' = IF h.id = 0 THEN minted ELSE [minted EXCEPT ![h.id] = @ + 1]
  /\ IF p.txn = NoTxn THEN Answer(r) ELSE Leave(r, p, "complete")
  /\ UNCHANGED <<now, Memory, advice, challenge, passkey, mishaps, emitted, proved>>

(* The code is not stored, and the transaction not completed either.         *)
MintFailsQuietly(r) ==
  /\ Minting(r)
  /\ IF request[r].pend.txn = NoTxn THEN Answer(r) ELSE Leave(r, request[r].pend, "complete")
  /\ UNCHANGED <<now, Memory, advice, challenge, passkey, History, mishaps>>
MintFails(r) ==
  /\ Minting(r)
  /\ Answer(r)
  /\ UNCHANGED <<now, Memory, advice, challenge, passkey, History, mishaps>>

(* MarkAdviceCallCompleted: an update conditional on completed_at being      *)
(* null.  Only the call that made the transition emits.                      *)
OpenAlways(t) == TRUE
Open(t) == advice[t].by = NoUser
CompleteIfOpen(r) ==
  LET p == request[r].pend IN
  /\ At(r, "complete") /\ Open(p.txn)
  /\ advice' = [advice EXCEPT ![p.txn].by = p.user]
  /\ emitted' = [emitted EXCEPT ![p.txn] = @ + 1]
  /\ Answer(r)
  /\ UNCHANGED <<now, Memory, challenge, passkey, mishaps, issued, minted, proved>>
Complete(r) ==
  LET p == request[r].pend IN
  /\ At(r, "complete")
  /\ IF Open(p.txn)
     THEN /\ advice' = [advice EXCEPT ![p.txn].by = p.user]
          /\ emitted' = [emitted EXCEPT ![p.txn] = @ + 1]
     ELSE UNCHANGED <<advice, emitted>>
  /\ Answer(r)
  /\ UNCHANGED <<now, Memory, challenge, passkey, mishaps, issued, minted, proved>>

-----------------------------------------------------------------------------
(* AuthorizeWebAuthnRegisterFinish: a passkey is registered for the user of  *)
(* a parked fido2 flow, a challenge created, and the copy of the flow        *)
(* written back with it, whatever has become of the flow meanwhile.          *)
RegisterFinish(r, id) ==
  /\ parked[id] # NoFlow => parked[id].method = "fido2"
  /\ Resume(r, id, "finish")

FinishRegistration(r) ==
  /\ At(r, "finish")
  /\ passkey' = passkey \cup {request[r].pend.user}
  /\ Goto(r, "rechallenge")
  /\ UNCHANGED <<now, Memory, advice, challenge, History, mishaps>>

Repark(r) ==
  /\ At(r, "repark")
  /\ parked' = Store(request[r].id, request[r].pend)
  /\ Answer(r)
  /\ UNCHANGED <<now, tracked, nextFlow, ledger, advice, challenge, passkey, History, mishaps>>

-----------------------------------------------------------------------------
(* Around the handlers: a challenge expires, a passkey is disabled, time     *)
(* passes, the process restarts and loses what it keeps in memory.           *)
ChallengeExpires(c) ==
  /\ Trouble("expiry")
  /\ challenge[c] = "open"
  /\ challenge' = [challenge EXCEPT ![c] = "done"]
  /\ UNCHANGED <<now, Memory, advice, passkey, request, History>>

DisablePasskey(user) ==
  /\ Trouble("disabled")
  /\ user \in passkey
  /\ passkey' = passkey \ {user}
  /\ UNCHANGED <<now, Memory, advice, challenge, request, History>>

Tick ==
  /\ Trouble("time")
  /\ now < MaxTime /\ now' = now + 1
  /\ UNCHANGED <<Memory, advice, challenge, passkey, request, History>>

Restart ==
  /\ Trouble("restart")
  /\ parked' = [f \in FlowIds |-> NoFlow]
  /\ tracked' = [f \in FlowIds |-> 0]
  /\ ledger' = [u \in Users |-> [rank |-> 0, at |-> 0]]
  /\ request' = [r \in Requests |-> Idle]
  /\ UNCHANGED <<now, nextFlow, advice, challenge, passkey, History>>

Init ==
  /\ now = 1
  /\ parked = [f \in FlowIds |-> NoFlow]
  /\ tracked = [f \in FlowIds |-> 0]
  /\ nextFlow = 1
  /\ ledger = [u \in Users |-> [rank |-> 0, at |-> 0]]
  /\ advice = [t \in Txns |-> NoAdvice]
  /\ challenge = [c \in ChallengeIds |-> "unborn"]
  /\ passkey = {}
  /\ request = [r \in Requests |-> Idle]
  /\ mishaps = {} /\ issued = {}
  /\ minted = [f \in FlowIds |-> 0]
  /\ emitted = [t \in Txns |-> 0] /\ proved = [u \in Users |-> 0]

CallFails(r) == PeerFails(r, {"list", "challenge", "rechallenge", "finish", "verify", "answer"})

(* A handler's own next step.                                                *)
Step(r) ==
  /\ Busy(r)
  /\ \/ Skip(r) \/ RiskEvaluation(r) \/ Deny(r) \/ AuthenticatorValidate(r)
     \/ List(r) \/ CreateChallenge(r) \/ Park(r) \/ Track(r)
     \/ Arrive(r) \/ RightResponse(r) \/ WrongResponse(r) \/ CallFails(r)
     \/ DropFlow(r) \/ Untrack(r) \/ Record(r)
     \/ Mint(r) \/ MintFails(r) \/ Complete(r)
     \/ FinishRegistration(r) \/ Repark(r)

Start(r) ==
  /\ ~Busy(r)
  /\ \/ \E u \in Users, t \in Txns \cup {NoTxn}, a \in AcrValues, s \in FlowDefs :
          Authorize(r, u, t, a, s)
     \/ \E f \in FlowIds : Verify(r, f) \/ RegisterFinish(r, f)

Environment ==
  \/ \E t \in Txns, a \in Advised : Advise(t, a.rank, a.user)
  \/ \E c \in ChallengeIds : ChallengeExpires(c)
  \/ \E u \in Users : DisablePasskey(u)
  \/ Tick \/ Restart

Next == Environment \/ \E r \in Requests : Step(r) \/ Start(r)
Spec == Init /\ [][Next]_vars
FairSpec == Spec /\ \A r \in Requests : WF_vars(Step(r))

-----------------------------------------------------------------------------
TypeOK ==
  /\ now \in 1..MaxTime
  /\ parked \in [FlowIds -> Pending \cup {NoFlow}]
  /\ tracked \in [FlowIds -> 0..MaxTime]
  /\ nextFlow \in 1..NumFlows + 1
  /\ ledger \in [Users -> [rank : Ranks, at : 0..MaxTime]]
  /\ advice \in [Txns -> [rank : Ranks, user : Users \cup {NoUser}, by : Users \cup {NoUser}]]
  /\ challenge \in [ChallengeIds -> {"unborn", "open", "done"}]
  /\ passkey \subseteq Users
  /\ request \in [Requests -> Handler \cup {Idle}]

(* An acr on a code is a level the user has earned in this session, by a     *)
(* right response to a challenge of that level or a stronger one: neither    *)
(* the ledger's pass-through (protection.go:186) nor a flow in any order of  *)
(* failures stamps more.                                                     *)
Earned(p) == p.acr <= proved[p.user]
MintsEarned == \A r \in Requests : Mint(r) => Earned(request[r].pend)
AcrEarned == [][MintsEarned]_vars

(* A code that carries a transaction was asked for at the advised level or   *)
(* above, by the user the advice named (oidc.go:314-319), however long the   *)
(* flow was parked.                                                          *)
WithinAdvice(p) == p.txn \in Txns => /\ p.asked >= advice[p.txn].rank
                               /\ advice[p.txn].user \in {NoUser, p.user}
MintsWithinAdvice == \A r \in Requests : Mint(r) => WithinAdvice(request[r].pend)
BoundToAdvice == [][MintsWithinAdvice]_vars

(* However many flows carry one transaction, it completes once and risk-     *)
(* service is told once (completeAdviceTransaction).                         *)
CompletedOnce == \A t \in Txns : emitted[t] <= 1

(* A transaction marked completed has a code the user can exchange: the      *)
(* code is stored first, so a failure there leaves the transaction usable.   *)
CompletionBacked ==
  \A t \in Txns : advice[t].by # NoUser => <<advice[t].by, t>> \in issued

(* A parked flow is a ticket for one code, as long as no two handlers are on *)
(* it at once; lost answers, retries and registrations do not add a second.  *)
SingleTicket == "overlap" \notin mishaps => \A f \in FlowIds : minted[f] <= 1

(* What the consoles show as live step-ups is what is parked, whenever no    *)
(* handler is between the two maps (stepup_tracker.go:9-18).                 *)
Mirrors ==
  ("overlap" \notin mishaps /\ \A r \in Requests : ~Busy(r)) =>
    \A f \in FlowIds : HasFlow(f) <=> (tracked[f] # 0 /\ Live(tracked[f]))

(* A request that a deny stage's policy applies to buys no code.             *)
Unbarred(p) == ~p.barred
MintsUnbarred == \A r \in Requests : Mint(r) => Unbarred(request[r].pend)
DenialHonoured == [][MintsUnbarred]_vars

(* Every handler answers.                                                    *)
EveryRequestAnswered == \A r \in Requests : Busy(r) ~> ~Busy(r)
==============================================================================
