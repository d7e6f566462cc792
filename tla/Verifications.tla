---------------------------- MODULE Verifications ----------------------------
(***************************************************************************)
(* Identity proofs from a mobile driving licence: a workspace asks         *)
(* id-service for a verification, a wallet answers on the page its link    *)
(* opens, the outcome and a signed proof are written on the row, and       *)
(* authentication-service polls for the proof and accepts it               *)
(* (enroll_mdl.go, mdl_proof.go).                                          *)
(***************************************************************************)
EXTENDS Naturals, FiniteSets, Sequences

CONSTANTS
  Requests,           \* handlers in flight at most
  Tenants,
  NumVerifications,   \* bound: verifications created
  TTL, ProofTTL,      \* VERIFICATION_TTL; proofValidity and jwtx.Leeway
  Strict,             \* TRUST_MODE is strict
  NumKeys,            \* bound: signing keys id-service goes through
  MaxMishaps,         \* bound: kinds of trouble one behaviour mixes
  MaxTime             \* bound on now

ConstantsOK ==
  /\ {NumVerifications, TTL, ProofTTL, MaxMishaps, MaxTime} \subseteq Nat
  /\ NumKeys \in Nat \ {0} /\ Strict \in BOOLEAN

VARIABLES
  row,        \* verifications
  opened,     \* verifications whose request object a page handed out
  published,  \* the key id-service signs with and publishes
  cached,     \* the key set authentication-service holds
  accepted,   \* proofs accepted by authentication-service, with the tenant
  now, request,
  mishaps     \* history: kinds of trouble so far

vars == <<row, opened, published, cached, accepted, now, request, mishaps>>
Authn == <<cached, accepted>>

Ids == 1..NumVerifications
Settled == {"verified", "failed", "expired"}
Gone == [status |-> "gone"]
NoProof == [vrf |-> 0]
NoKey == 0
Kinds == {"overlap", "fault", "restart"}

(* What a wallet sends: a credential that is genuine and in its validity     *)
(* period or not, from an issuer that is anchored or not, with a device      *)
(* signature over the transcript of verification over, a MAC, or nothing.    *)
Answers == {a \in [genuine : BOOLEAN, anchored : BOOLEAN,
                   auth : {"signature", "mac", "none"}, over : Ids] :
              a.auth = "signature" \/ a.over = 1}
Proof == [vrf : Ids, tenant : Tenants, key : 1..NumKeys, exp : 0..(MaxTime + ProofTTL),
          trusted : BOOLEAN, bound : BOOLEAN, by : Answers]
Row == [status : {"pending"} \cup Settled, tenant : Tenants, exp : 0..(MaxTime + TTL),
        proof : Proof \cup {NoProof}]
Submission == [op : {"submit"}, id : Ids, status : Settled, proof : Proof \cup {NoProof}]
Polling == [op : {"keys", "check", "refetch"}, tenant : Tenants, proof : Proof,
            key : 0..NumKeys, forced : BOOLEAN]
Handler == Submission \cup Polling
Idle == [op |-> "idle"]
Busy(r) == request[r] # Idle

Go(r, h) == request' = [request EXCEPT ![r] = h]
Answer(r) == Go(r, Idle)
At(r, op) == request[r].op = op

Calm == UNCHANGED mishaps
Mixed(kinds) == /\ mishaps' = mishaps \cup kinds
                /\ Cardinality(mishaps') <= MaxMishaps
Trouble(kind) == Mixed({kind})
Overlapping == {kind \in {"overlap"} : \E q \in Requests : Busy(q)}
Arrive(r, h, kinds) == ~Busy(r) /\ Go(r, h) /\ Mixed(Overlapping \cup kinds)

-----------------------------------------------------------------------------
(* CreateVerification, with a link whose token names the row.                *)
CreateVerification(t) ==
  /\ Len(row) < NumVerifications
  /\ row' = Append(row, [status |-> "pending", tenant |-> t, exp |-> now + TTL,
                         proof |-> NoProof])
  /\ UNCHANGED <<opened, published, Authn, now, request, mishaps>>

(* GetByToken: a cached token resolves to the same row or, when that is      *)
(* gone, the store is asked.  The request object is handed out while the     *)
(* verification is pending.                                                  *)
GetByToken(v) == row[v]
OID4VPRequest(v) ==
  LET found == GetByToken(v) IN
  /\ found.status = "pending" /\ now <= found.exp
  /\ opened' = opened \cup {v}
  /\ UNCHANGED <<row, published, Authn, now, request, mishaps>>

-----------------------------------------------------------------------------
(* TrustStore.Verify and verifyDeviceResponse.  A device signature is        *)
(* checked over this verification's transcript; a MAC is let pass unbound.   *)
ChainOk(a) == a.anchored \/ ~Strict
\* Mutant: a signature over any transcript will do.
AnyTranscript(a, v) == a.auth \in {"signature", "mac"}
DeviceOk(a, v) == a.auth = "mac" \/ (a.auth = "signature" /\ a.over = v)
VerifyDeviceResponse(a, v) == a.genuine /\ ChainOk(a) /\ DeviceOk(a, v)

(* mintProof: bound to the workspace by its audience.                        *)
MintProof(v, a) ==
  [vrf |-> v, tenant |-> row[v].tenant, key |-> published, exp |-> now + ProofTTL,
   trusted |-> a.anchored, bound |-> a.auth = "signature", by |-> a]

(* SubmitResponse reads the row and judges it; the outcome is written in a   *)
(* second store call.  A signature that cannot be made is only logged.       *)
SubmitResponse(r, v, a) ==
  LET outcome(status, proof) == [op |-> "submit", id |-> v, status |-> status, proof |-> proof]
      ok == VerifyDeviceResponse(a, v) IN
  /\ row[v].status = "pending"
  /\ \/ now > row[v].exp /\ Arrive(r, outcome("expired", NoProof), {})
     \/ now <= row[v].exp /\ ~ok /\ Arrive(r, outcome("failed", NoProof), {})
     \/ now <= row[v].exp /\ ok /\ Arrive(r, outcome("verified", MintProof(v, a)), {})
     \/ now <= row[v].exp /\ ok /\ Arrive(r, outcome("verified", NoProof), {"fault"})
  /\ UNCHANGED <<row, opened, published, Authn, now>>

(* Update writes status and result of a row that is still there.             *)
\* Mutant: the row is put back whole.
PutBack(h) ==
  [row EXCEPT ![h.id] = [status |-> h.status, proof |-> h.proof,
     tenant |-> IF @ = Gone THEN CHOOSE t \in Tenants : TRUE ELSE @.tenant, exp |-> now]]
Updated(h) ==
  IF row[h.id] = Gone THEN row
  ELSE [row EXCEPT ![h.id].status = h.status, ![h.id].proof = h.proof]
Update(r) ==
  /\ At(r, "submit") /\ Answer(r)
  /\ \/ row' = Updated(request[r]) /\ Calm
     \/ UNCHANGED row /\ Trouble("fault")
  /\ UNCHANGED <<opened, published, Authn, now>>

(* The sweeper deletes what is pending past its time.                        *)
PurgeExpired ==
  /\ row' = [v \in DOMAIN row |->
       IF row[v].status = "pending" /\ now > row[v].exp THEN Gone ELSE row[v]]
  /\ row' # row
  /\ UNCHANGED <<opened, published, Authn, now, request, mishaps>>

-----------------------------------------------------------------------------
(* EnrollMDLStatus polls in the tenant of its session; a verified row with a *)
(* proof goes to the verifier.                                               *)
Poll(r, v, t) ==
  /\ row[v] # Gone /\ row[v].tenant = t
  /\ row[v].status = "verified" /\ row[v].proof # NoProof
  /\ Arrive(r, [op |-> "keys", tenant |-> t, proof |-> row[v].proof, key |-> NoKey,
                forced |-> FALSE], {})
  /\ UNCHANGED <<row, opened, published, Authn, now>>

(* HTTPMDLProofVerifier: the key set is fetched once, and again when the     *)
(* proof does not verify with it.                                            *)
Fetch(r, forced) ==
  /\ cached' = published
  /\ Go(r, [request[r] EXCEPT !.op = "check", !.key = published, !.forced = forced])
Keys(r) ==
  /\ At(r, "keys")
  /\ IF cached = NoKey THEN Fetch(r, FALSE)
     ELSE Go(r, [request[r] EXCEPT !.op = "check", !.key = cached]) /\ UNCHANGED cached
  /\ UNCHANGED <<row, opened, published, accepted, now, mishaps>>
Refetch(r) ==
  /\ At(r, "refetch") /\ Fetch(r, TRUE)
  /\ UNCHANGED <<row, opened, published, accepted, now, mishaps>>

Valid(proof, key) == proof.key = key /\ now <= proof.exp
MeantFor(proof, t) == proof.tenant = t
VerifyProof(r) ==
  LET h == request[r] IN
  /\ At(r, "check")
  /\ CASE Valid(h.proof, h.key) ->
            /\ Answer(r)
            /\ accepted' = IF MeantFor(h.proof, h.tenant)
                           THEN accepted \cup {[proof |-> h.proof, tenant |-> h.tenant]}
                           ELSE accepted
       [] OTHER ->
            /\ IF h.forced THEN Answer(r) ELSE Go(r, [h EXCEPT !.op = "refetch"])
            /\ UNCHANGED accepted
  /\ UNCHANGED <<row, opened, published, cached, now, mishaps>>

(* A fetch fails; the page polls again.                                      *)
FetchFails(r) ==
  /\ \E op \in {"keys", "refetch"} : At(r, op)
  /\ Answer(r) /\ Trouble("fault")
  /\ UNCHANGED <<row, opened, published, Authn, now>>

-----------------------------------------------------------------------------
(* A restart of id-service, which may bring a new key (none is configured),  *)
(* and one of authentication-service, which forgets the key set.             *)
RestartId ==
  /\ Trouble("restart")
  /\ published' \in {published, published + 1} \cap (1..NumKeys)
  /\ request' = [r \in Requests |-> IF At(r, "submit") THEN Idle ELSE request[r]]
  /\ UNCHANGED <<row, opened, Authn, now>>
RestartAuthn ==
  /\ Trouble("restart")
  /\ cached' = NoKey
  /\ request' = [r \in Requests |-> IF At(r, "submit") THEN request[r] ELSE Idle]
  /\ UNCHANGED <<row, opened, published, accepted, now>>
Tick ==
  /\ now < MaxTime /\ now' = now + 1
  /\ UNCHANGED <<row, opened, published, Authn, request, mishaps>>

Init ==
  /\ row = <<>> /\ opened = {}
  /\ published = 1 /\ cached = NoKey /\ accepted = {}
  /\ now = 0 /\ mishaps = {}
  /\ request = [r \in Requests |-> Idle]

(* A wallet signs only for a request object it was handed.                   *)
Sent(a) == a.auth = "signature" => a.over \in opened
Resting == {r \in Requests : ~Busy(r)}
Pending == {v \in DOMAIN row : row[v].status = "pending"}

Next ==
  \/ \E t \in Tenants : CreateVerification(t)
  \/ \E v \in DOMAIN row : OID4VPRequest(v)
  \/ \E r \in Resting, v \in Pending : \E a \in Answers : Sent(a) /\ SubmitResponse(r, v, a)
  \/ \E r \in Resting, v \in DOMAIN row, t \in Tenants : Poll(r, v, t)
  \/ \E r \in Requests :
       Update(r) \/ Keys(r) \/ Refetch(r) \/ VerifyProof(r) \/ FetchFails(r)
  \/ PurgeExpired \/ RestartId \/ RestartAuthn \/ Tick

Spec == Init /\ [][Next]_vars

-----------------------------------------------------------------------------
(* The types of the variables.                                               *)
TypeOK ==
  /\ row \in Seq(Row \cup {Gone}) /\ Len(row) <= NumVerifications
  /\ opened \subseteq DOMAIN row
  /\ published \in 1..NumKeys /\ cached \in 0..NumKeys
  /\ accepted \subseteq [proof : Proof, tenant : Tenants]
  /\ now \in 0..MaxTime /\ mishaps \subseteq Kinds
  /\ request \in [Requests -> Handler \cup {Idle}]

(* A settled verification does not become pending again and one that was     *)
(* purged does not come back, whatever is in flight; one request at a time   *)
(* its outcome and its proof are final (service.go:171).                     *)
OutcomeKept ==
  \A v \in DOMAIN row :
    /\ row[v] = Gone => row'[v] = Gone
    /\ row[v].status \in Settled => row'[v].status \in Settled
    /\ row[v].status \in Settled /\ "overlap" \notin mishaps' => row'[v] = row[v]

(* What authentication-service accepts was asked for by that workspace and   *)
(* is what a wallet presented: bound only by a device's signature over the   *)
(* request handed out for this very verification, trusted only if anchored   *)
(* (id-service README.md:11).                                                *)
ProofsBacked ==
  \A one \in accepted :
    LET p == one.proof IN
    /\ row[p.vrf] # Gone /\ row[p.vrf].tenant = one.tenant
    /\ p.bound => p.by.over = p.vrf /\ p.vrf \in opened
    /\ p.trusted \/ Strict => p.by.anchored
=============================================================================
