--------------------------- MODULE Transactions ---------------------------
(***************************************************************************)
(* transaction-service: the advice, step-up and authorize handlers, with   *)
(* the sessions of authentication-service they promote and the challenges  *)
(* of authenticator-service they forward.                                  *)
(*                                                                         *)
(* A handler works on a copy of its row and writes the whole copy back at  *)
(* the end; so do the session handlers.  A call of a peer may succeed,     *)
(* fail, or succeed with its answer lost, which the client (clients.go)    *)
(* reports as a failure.  A challenge is known by the transaction it was   *)
(* created for; a row's history is the number of rejections it records.    *)
(* risk-service answers any tier.  `now' counts minutes.                   *)
(***************************************************************************)
EXTENDS Integers, FiniteSets

CONSTANTS
  NumTxns,        \* transactions one behaviour may create (a bound)
  Sessions,       \* sessions of authentication-service
  LoginRisks,     \* risk levels a login of this instance may record (a bound)
  NoSession,      \* the empty session_id
  Requests,       \* goroutines serving requests
  StaleAfter,     \* SessionStaleAfter
  MaxTime,        \* the last minute of the model (a bound)
  MaxRejections,  \* wrong responses of a behaviour, to one transaction (a bound)
  MaxMishaps,     \* kinds of trouble one behaviour may contain (a bound)
  Miss            \* how the peer reports a wrong response: in the "body" of a
                  \* 200, or by a "status" of 401

ASSUME TransactionsAssumption ==
  /\ NumTxns \in Nat /\ StaleAfter \in Nat /\ MaxTime \in Nat
  /\ MaxRejections \in Nat /\ MaxMishaps \in Nat
  /\ LoginRisks \subseteq {"low", "medium", "high"}
  /\ NoSession \notin Sessions /\ Miss \in {"body", "status"}

VARIABLES
  row,        \* the transactions table
  session,    \* authentication-service's sessions table
  challenge,  \* authenticator-service's challenges, by transaction
  handler,    \* what each request is doing, and the copies it holds
  now,
  mishaps,    \* history: what went wrong so far
  proved,     \* history: challenges answered rightly
  missed      \* history: wrong responses reported to callers

vars == <<row, session, challenge, handler, now, mishaps, proved, missed>>

Txns == 1..NumTxns
TxnId == 0..NumTxns  \* 0: none
SessionId == Sessions \cup {NoSession}
Time == 0..MaxTime
Trouble == {"overlap", "store", "crash"}
Tiers == {"", "low", "medium", "high", "unknown"}
Decisions == {"unborn", "pending", "allow", "deny", "step_up_required",
              "step_up_satisfied", "error"}
Steps == {"idle", "risk", "challenge", "verify", "answer", "reject", "upgrade",
          "promote", "session", "reevaluate", "persist", "extend", "invalidate"}

Row == [decision: Decisions, tier: Tiers, challenge: TxnId,
        session: SessionId, rejections: Nat]
Session == [status: {"live", "invalidated", "gone"}, risk: {"low", "medium", "high"},
            stepUp: BOOLEAN, updated: Nat]
Handler == [step: Steps, txn: TxnId, fresh: BOOLEAN, copy: Row, held: Session,
            of: SessionId]

\* Tables and copies keep their shape.
TypeOK ==
  /\ row \in [Txns -> Row]
  /\ session \in [Sessions -> Session]
  /\ challenge \in [Txns -> {"unborn", "pending", "failed", "completed"}]
  /\ handler \in [Requests -> Handler]
  /\ now \in Time
  /\ mishaps \subseteq Trouble /\ proved \subseteq Txns
  /\ missed \in [Txns -> Nat]

NoRow == [decision |-> "unborn", tier |-> "", challenge |-> 0,
          session |-> NoSession, rejections |-> 0]
Login(risk) == [status |-> "live", risk |-> risk, stepUp |-> FALSE,
                updated |-> 0]
Serving(step, t, fresh, copy, s) ==
  [step |-> step, txn |-> t, fresh |-> fresh, copy |-> copy,
   held |-> Login("low"), of |-> s]
Idle == Serving("idle", 0, FALSE, NoRow, NoSession)

Init ==
  /\ row = [t \in Txns |-> NoRow]
  /\ \E risk \in LoginRisks :
       session = [s \in Sessions |-> Login(risk)]
  /\ challenge = [t \in Txns |-> "unborn"]
  /\ handler = [r \in Requests |-> Idle]
  /\ now = 0 /\ mishaps = {} /\ proved = {}
  /\ missed = [t \in Txns |-> 0]

-----------------------------------------------------------------------------
(* Handlers, and what goes wrong with them.                                *)

Busy(r) == handler[r].step # "idle"
At(r, step) == handler[r].step = step
Becomes(r, h) == handler' = [handler EXCEPT ![r] = h]
Goes(r, step) == Becomes(r, [handler[r] EXCEPT !.step = step])
Answers(r) == Becomes(r, Idle)

Suffer(what) ==
  /\ mishaps' = mishaps \cup {what}
  /\ Cardinality(mishaps') <= MaxMishaps

Begins(r, h) ==
  /\ ~Busy(r)
  /\ Becomes(r, h)
  /\ IF \E q \in Requests : Busy(q) THEN Suffer("overlap") ELSE UNCHANGED mishaps

\* The copy is decided and goes to the final Update.
Decides(r, copy) ==
  Becomes(r, Serving("persist", handler[r].txn, FALSE, copy, NoSession))

\* markError, and the 502 that follows it.
MarkError(r) == Decides(r, [handler[r].copy EXCEPT !.decision = "error"])

Create(r, t, s, step, fresh) ==
  LET new == [NoRow EXCEPT !.decision = "pending", !.session = s] IN
  /\ row[t].decision = "unborn"
  /\ \A u \in Txns : u < t => row[u].decision # "unborn"
  /\ row' = [row EXCEPT ![t] = new]
  /\ Begins(r, Serving(step, t, fresh, new, s))

\* The whole copy is written.  A failure is logged; the answer is the same.
Persist(r) ==
  /\ At(r, "persist") /\ Answers(r)
  /\ \/ row' = [row EXCEPT ![handler[r].txn] = handler[r].copy] /\ UNCHANGED mishaps
     \/ Suffer("store") /\ UNCHANGED row
  /\ UNCHANGED <<session, challenge, now, proved, missed>>

-----------------------------------------------------------------------------
(* POST /v1/advice.                                                        *)

Advice(r, t, s) ==
  /\ Create(r, t, s, "risk", FALSE)
  /\ UNCHANGED <<session, challenge, now, proved, missed>>

AdviceRisk(r) ==
  LET copy == handler[r].copy IN
  /\ At(r, "risk")
  /\ \/ MarkError(r)
     \/ Decides(r, [copy EXCEPT !.tier = "low", !.decision = "allow"])
     \/ \E tier \in {"medium", "high"} :
          Becomes(r, [handler[r] EXCEPT !.step = "challenge",
                                        !.copy = [copy EXCEPT !.tier = tier]])
     \/ Decides(r, [copy EXCEPT !.tier = "unknown", !.decision = "error"])
  /\ UNCHANGED <<row, session, challenge, now, mishaps, proved, missed>>

\* Mutant: the call's failure is not looked at.
CreateChallengeBlind(r) ==
  LET t == handler[r].txn IN
  /\ At(r, "challenge")
  /\ \/ challenge' = [challenge EXCEPT ![t] = "pending"] \/ UNCHANGED challenge
  /\ UNCHANGED handler
  /\ UNCHANGED <<row, session, now, mishaps, proved, missed>>

CreateChallenge(r) ==
  LET t == handler[r].txn IN
  /\ At(r, "challenge")
  /\ \/ /\ challenge' = [challenge EXCEPT ![t] = "pending"]
        /\ Decides(r, [handler[r].copy EXCEPT !.decision = "step_up_required",
                                             !.challenge = t])
     \/ /\ \/ challenge' = [challenge EXCEPT ![t] = "pending"]
           \/ UNCHANGED challenge
        /\ MarkError(r)
  /\ UNCHANGED <<row, session, now, mishaps, proved, missed>>

-----------------------------------------------------------------------------
(* POST /v1/step-up/verify: transaction t, challenge c as presented.       *)

\* Mutant: any challenge of the caller's will do.
AwaitsAny(t, c) == row[t].decision = "step_up_required"

\* Mutant: a transaction once decided may be stepped up again.
AwaitsAlways(t, c) == row[t].challenge = c

Awaits(t, c) == row[t].decision = "step_up_required" /\ row[t].challenge = c

\* The presented challenge rides in the copy, where the stored one equals it.
StepUpVerify(r, t, c) ==
  /\ Awaits(t, c)
  /\ Begins(r, Serving("verify", t, FALSE, [row[t] EXCEPT !.challenge = c],
                       row[t].session))
  /\ UNCHANGED <<row, session, challenge, now, proved, missed>>

\* The peer reads the challenge: closed, locked out, too soon, or unreachable.
VerifyGate(r) ==
  /\ At(r, "verify")
  /\ \/ challenge[handler[r].copy.challenge] = "pending" /\ Goes(r, "answer")
     \/ MarkError(r)
  /\ UNCHANGED <<row, session, challenge, now, mishaps, proved, missed>>

Satisfied(r) == Decides(r, [handler[r].copy EXCEPT !.decision = "step_up_satisfied"])

Verified(r) == IF handler[r].of # NoSession THEN Goes(r, "upgrade") ELSE Satisfied(r)

\* Mutant: an answer without an error is taken for a success.
RejectedUnseen(r) == Verified(r)

\* A 200 says whether the response was right; a 401 is an error to the client.
Rejected(r) == IF Miss = "body" THEN Goes(r, "reject") ELSE MarkError(r)

\* Bound: only one transaction of a behaviour is answered wrongly.
MayMiss(t) ==
  /\ missed[t] < MaxRejections
  /\ \A u \in Txns \ {t} : missed[u] = 0

\* The peer checks the response and updates its row, closed meanwhile or not.
VerifyChallenge(r) ==
  LET c == handler[r].copy.challenge IN
  /\ At(r, "answer")
  /\ \/ /\ challenge' = [challenge EXCEPT ![c] = "completed"]
        /\ proved' = proved \cup {c}
        /\ Verified(r) \/ MarkError(r)
        /\ UNCHANGED missed
     \/ /\ MayMiss(handler[r].txn)
        /\ challenge' = [challenge EXCEPT ![c] = "failed"] \/ UNCHANGED challenge
        /\ \/ Rejected(r) /\ missed' = [missed EXCEPT ![handler[r].txn] = @ + 1]
           \/ MarkError(r) /\ UNCHANGED missed
        /\ UNCHANGED proved
     \/ MarkError(r) /\ UNCHANGED <<challenge, proved, missed>>
  /\ UNCHANGED <<row, session, now, mishaps>>

\* Mutant: the copy is written back as it was read.
AppendHistoryLost(r) ==
  row' = [row EXCEPT ![handler[r].txn] = handler[r].copy]

\* One statement on the row as it is; a failure is ignored.
AppendHistory(r) ==
  row' = [row EXCEPT ![handler[r].txn].rejections = @ + 1]

Reject(r) ==
  /\ At(r, "reject") /\ Answers(r)
  /\ \/ AppendHistory(r) /\ UNCHANGED mishaps
     \/ Suffer("store") /\ UNCHANGED row
  /\ UNCHANGED <<session, challenge, now, proved, missed>>

-----------------------------------------------------------------------------
(* The session handlers of authentication-service: read, then write back.  *)

SessionLive(s) == session[s].status = "live"

ReadSession(r, s, step) ==
  Becomes(r, [handler[r] EXCEPT !.step = step, !.held = session[s]])

\* UpdateSession stamps updated_at; it does not bring back a purged row.
UpdateSession(s, row_) ==
  session' = [session EXCEPT ![s] = [row_ EXCEPT !.updated = now]]

\* The upgrade call: missing or invalidated answers 4xx, and any failure is an error.
Upgrade(r) ==
  LET s == handler[r].of IN
  /\ At(r, "upgrade")
  /\ \/ SessionLive(s) /\ ReadSession(r, s, "promote")
     \/ MarkError(r)
  /\ UNCHANGED <<row, session, challenge, now, mishaps, proved, missed>>

\* Mutant: a missing answer is taken for a success.
PromoteForgets(r) ==
  LET s == handler[r].of IN
  /\ At(r, "promote") /\ Answers(r)
  /\ session[s].status # "gone"
  /\ UpdateSession(s, [handler[r].held EXCEPT !.risk = handler[r].copy.tier,
                                              !.stepUp = TRUE])
  /\ UNCHANGED <<row, challenge, now, mishaps, proved, missed>>

\* The risk level becomes the tier that called for the step-up.
Promote(r) ==
  LET s == handler[r].of IN
  /\ At(r, "promote")
  /\ \/ /\ session[s].status # "gone"
        /\ UpdateSession(s, [handler[r].held EXCEPT !.risk = handler[r].copy.tier,
                                                    !.stepUp = TRUE])
        /\ Satisfied(r) \/ MarkError(r)
     \/ MarkError(r) /\ UNCHANGED session
  /\ UNCHANGED <<row, challenge, now, mishaps, proved, missed>>

\* Other clients refresh and invalidate sessions in the same two steps.
SessionRead(r, s) ==
  /\ SessionLive(s)
  /\ \E step \in {"extend", "invalidate"} :
       Begins(r, [Idle EXCEPT !.step = step, !.held = session[s], !.of = s])
  /\ UNCHANGED <<row, session, challenge, now, proved, missed>>

SessionWrite(r) ==
  LET s == handler[r].of IN
  /\ handler[r].step \in {"extend", "invalidate"} /\ Answers(r)
  /\ IF session[s].status = "gone" THEN UNCHANGED session
     ELSE UpdateSession(s, IF At(r, "extend") THEN handler[r].held
                           ELSE [handler[r].held EXCEPT !.status = "invalidated"])
  /\ UNCHANGED <<row, challenge, now, mishaps, proved, missed>>

PurgeSession(s) ==
  /\ session[s].status # "gone"
  /\ session' = [session EXCEPT ![s].status = "gone"]
  /\ UNCHANGED <<row, challenge, handler, now, mishaps, proved, missed>>

-----------------------------------------------------------------------------
(* POST /v1/authorize.  `fresh': the resource is of high or critical       *)
(* sensitivity.                                                            *)

Authorize(r, t, s, fresh) ==
  /\ Create(r, t, s, "session", fresh)
  /\ UNCHANGED <<session, challenge, now, proved, missed>>

Stale(s) == now - session[s].updated > StaleAfter

\* Mutant: an unknown tier becomes the decision.
VerdictPassedOn(tier) ==
  CASE tier \in {"low", "medium"} -> "allow"
    [] tier = "high" -> "deny"
    [] OTHER -> tier

\* Low and medium are allowed, high is not, anything else is an error.
Verdict(tier) ==
  CASE tier \in {"low", "medium"} -> "allow"
    [] tier = "high" -> "deny"
    [] OTHER -> "error"

Judged(r, tier) ==
  Decides(r, [handler[r].copy EXCEPT !.tier = tier, !.decision = Verdict(tier)])

\* An invalidated session is served as well; a 4xx asks for a new evaluation.
GetSession(r) ==
  LET s == handler[r].of IN
  /\ At(r, "session")
  /\ \/ /\ session[s].status = "gone" \/ handler[r].fresh \/ Stale(s)
        /\ Goes(r, "reevaluate")
     \/ /\ session[s].status # "gone" /\ ~handler[r].fresh /\ ~Stale(s)
        /\ Judged(r, session[s].risk)
     \/ MarkError(r)
  /\ UNCHANGED <<row, session, challenge, now, mishaps, proved, missed>>

Reevaluate(r) ==
  /\ At(r, "reevaluate")
  /\ MarkError(r) \/ \E tier \in Tiers \ {""} : Judged(r, tier)
  /\ UNCHANGED <<row, session, challenge, now, mishaps, proved, missed>>

-----------------------------------------------------------------------------
\* A goroutine may stop between any two steps, with its process.
Crash(r) ==
  /\ Busy(r) /\ Answers(r) /\ Suffer("crash")
  /\ UNCHANGED <<row, session, challenge, now, proved, missed>>

Tick ==
  /\ now < MaxTime /\ now' = now + 1
  /\ UNCHANGED <<row, session, challenge, handler, mishaps, proved, missed>>

Step(r) ==
  \/ AdviceRisk(r) \/ CreateChallenge(r)
  \/ VerifyGate(r) \/ VerifyChallenge(r) \/ Reject(r) \/ Upgrade(r) \/ Promote(r)
  \/ GetSession(r) \/ Reevaluate(r) \/ Persist(r) \/ SessionWrite(r)

Next ==
  \/ \E r \in Requests, t \in Txns :
       \/ \E s \in SessionId : Advice(r, t, s)
       \/ \E s \in Sessions, fresh \in BOOLEAN : Authorize(r, t, s, fresh)
       \/ \E c \in Txns : StepUpVerify(r, t, c)
  \/ \E r \in Requests : Step(r) \/ Crash(r) \/ \E s \in Sessions : SessionRead(r, s)
  \/ \E s \in Sessions : PurgeSession(s)
  \/ Tick

Spec == Init /\ [][Next]_vars

\* Goroutines run, and every call of a peer ends (clients.go:21 bounds it).
FairSpec == Spec /\ \A r \in Requests : WF_vars(Step(r))
-----------------------------------------------------------------------------
(* Safety.                                                                 *)

\* However handlers interleave, crash or lose their peers' answers: what is
\* recorded as satisfied was proved by a response to that transaction's own
\* challenge (stepup.go:75), and nothing is recorded as allowed on a tier
\* that risk-service did not call low or medium.
DecisionsGrounded ==
  \A t \in Txns :
    /\ row[t].decision = "allow" => row[t].tier \in {"low", "medium"}
    /\ row[t].decision = "step_up_satisfied" =>
         t \in proved /\ row[t].challenge = t /\ row[t].tier \in {"medium", "high"}

\* A session that says its step-up is completed carries the tier of a
\* transaction of its own whose challenge was answered rightly, in spite of the
\* whole-row writes of refreshes and invalidations that raced the upgrade.
PromotedByProof ==
  \A s \in Sessions : session[s].stepUp =>
    \E t \in proved : row[t].session = s /\ row[t].tier = session[s].risk

Rejecting(t) == {r \in Requests : At(r, "reject") /\ handler[r].txn = t}

\* "So the audit trail is complete" (stepup.go:92): while requests are served
\* one at a time, every rejection reported to a caller is in the history, and
\* stays there through the final whole-row Update.
TrailComplete ==
  mishaps = {} /\ Miss = "body" => \A t \in Txns :
    row[t].rejections + Cardinality(Rejecting(t)) = missed[t]

Decided == {"allow", "deny", "step_up_satisfied", "error"}

\* A decision is final: allow and deny whatever happens; a step-up's outcome
\* unless two verifications of the same transaction overlap, when the loser's
\* copy may turn satisfied into error or back, and nothing else.
DecidedStays ==
  [][\A t \in Txns : row[t].decision \in Decided =>
       \/ row'[t].decision = row[t].decision
       \/ /\ "overlap" \in mishaps
          /\ {row[t].decision, row'[t].decision} = {"step_up_satisfied", "error"}]_vars

\* stepup.go:26: "Verification 401/false -> 401 to caller, transaction stays
\* step_up_required".
MissIsSoft ==
  [][\A r \in Requests : At(r, "answer") /\ missed' # missed =>
       handler'[r].copy.decision = "step_up_required"]_vars

-----------------------------------------------------------------------------
(* Liveness.                                                               *)

\* No handler waits for another: each request is answered, or dies.
EveryRequestAnswered == \A r \in Requests : Busy(r) ~> ~Busy(r)

Owed(t) ==
  \/ row[t].decision = "pending"
  \/ row[t].decision = "step_up_required" /\ t \in proved

\* "So we always have a paper trail" (advice.go:52): without a crash, a failing
\* store or an overlap, no transaction stays pending, and none whose challenge
\* was answered rightly stays waiting for it.
OutcomesRecorded ==
  \A t \in Txns : Owed(t) ~> (~Owed(t) \/ mishaps # {})
=============================================================================
