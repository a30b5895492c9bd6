----------------------------- MODULE ReleaseGate -----------------------------
(***************************************************************************)
(* The release gate: ReleaseService, its SQLite nonce store, the signer    *)
(* allowlist and the registry reader, over the registry contract.          *)
(*                                                                         *)
(* A handler is split where it awaits.  Start is everything up to the      *)
(* registry read, Finish is everything after it, so transactions, blocks,  *)
(* other requests and restarts fall in between.  The reader pins all its   *)
(* calls to one block number; the answer may be that of any block sealed   *)
(* so far, because the RPC node may lag and the answer may be late.        *)
(* A request refused before its first await changes nothing and is no step.*)
(***************************************************************************)
EXTENDS Registry, Sequences

CONSTANTS
    Documents,  \* clearance records (digest and bindings) proposals carry
    Signers,    \* addresses that may be configured as Ledger signers
    Tenants,    \* accounts
    NoTenant,   \* accountId undefined: the demo routes
    Nonces,     \* values nonceFactory may draw
    Requests,   \* prepare and consume calls that may be in flight at once
    Ttl         \* intentTtlSeconds

OrNone(S) == S \cup {NoTenant}

(* digestClearance is injective on the documents in play.                  *)
ASSUME ReleaseAssumption ==
    /\ Documents \subseteq [digest : Digests, bindings : Bindings]
    /\ \A x, y \in Documents : x.digest = y.digest => x = y
    /\ NoTenant \notin Tenants
    /\ Ttl \in 1..900
    /\ Documents # {} /\ Signers # {}

VARIABLES
    chain,     \* sealed blocks, the block number being the index
    policy,    \* AuthorizedSignerPolicy of the running process
    rows,      \* release_requests: nonce -> row, durable
    requests,  \* in-flight handlers, lost in a restart
    answers    \* nonce -> how many callers received an authorization

gateVars == <<chain, policy, rows, requests, answers>>
vars == <<registryVars, gateVars>>

Block == [timestamp      : Nat,
          clearances     : [OrZero(Digests) -> Clearance],
          digestByIdHash : [OrZero(Ids) -> OrZero(Digests)]]

\* issuedAt and expiresAt are the intent's; postcheck, authorizedAt and
\* recovered are the authorization's.
IssuedRow ==
    [state : {"ISSUED"}, doc : Documents, tenant : OrNone(Tenants), signer : Signers,
     precheck : Nat, issuedAt : Nat, expiresAt : Nat]
ConsumedRow ==
    [state : {"CONSUMED"}, doc : Documents, tenant : OrNone(Tenants), signer : Signers,
     precheck : Nat, issuedAt : Nat, expiresAt : Nat,
     postcheck : Nat, authorizedAt : Nat, recovered : Signers]
NoRow == [state |-> "NONE"]

Idle == [phase |-> "IDLE"]
Request ==
    {Idle}
    \cup [phase : {"PREPARE"}, doc : Documents, tenant : OrNone(Tenants), signer : Signers]
    \cup [phase : {"CONSUME"}, nonce : Nonces, tenant : OrNone(Tenants),
          signer : Signers, loaded : IssuedRow]
    \cup [phase : {"ANSWER"}, nonce : Nonces]

GateTypeOK ==
    /\ RegistryTypeOK
    /\ chain \in Seq(Block)
    /\ policy \in SUBSET Signers
    /\ rows \in [Nonces -> {NoRow} \cup IssuedRow \cup ConsumedRow]
    /\ requests \in [Requests -> Request]
    /\ answers \in [Nonces -> Nat]

-----------------------------------------------------------------------------
(* readExactClearance at a block followed by assertClearanceSnapshotEligible: *)
(* the id hash maps to the digest, and the stored record is CLEAR, live at    *)
(* that block and equal to the document in every binding.                     *)
EligibleAt(h, doc) ==
    LET stored == chain[h].clearances[doc.digest]
    IN  /\ chain[h].digestByIdHash[doc.bindings.id] = doc.digest
        /\ IsValidAt(stored, chain[h].timestamp)
        /\ stored.bindings = doc.bindings

\* computeExpiry
Expiry(timestamp, doc) ==
    IF timestamp + Ttl < doc.bindings.expiresAt THEN timestamp + Ttl
                                                ELSE doc.bindings.expiresAt

\* The account filter of SqliteReleaseStore.load and consume.
VisibleTo(row, tenant) == tenant = NoTenant \/ row.tenant = tenant

-----------------------------------------------------------------------------
PrepareStart(r, doc, tenant, signer) ==
    /\ requests[r] = Idle
    /\ signer \in policy
    /\ requests' = [requests EXCEPT ![r] =
          [phase |-> "PREPARE", doc |-> doc, tenant |-> tenant, signer |-> signer]]
    /\ UNCHANGED <<registryVars, chain, policy, rows, answers>>

(* createDeploymentIntent checks the intent against the clearance window;  *)
(* a nonce already in the table breaks the primary key.                    *)
PrepareFinish(r, h, n) ==
    LET q == requests[r]
        t == chain[h].timestamp
    IN  /\ q.phase = "PREPARE"
        /\ EligibleAt(h, q.doc)
        /\ t < Expiry(t, q.doc)
        /\ q.doc.bindings.issuedAt <= t
        /\ rows[n] = NoRow
        /\ rows' = [rows EXCEPT ![n] =
              [state |-> "ISSUED", doc |-> q.doc, tenant |-> q.tenant,
               signer |-> q.signer, precheck |-> h, issuedAt |-> t,
               expiresAt |-> Expiry(t, q.doc)]]
        /\ requests' = [requests EXCEPT ![r] = Idle]
        /\ UNCHANGED <<registryVars, chain, policy, answers>>

\* Mutant: the signer of the intent is not compared with the allowlist.
ConsumeStartUnlisted(r, n, tenant, signer) ==
    /\ requests[r] = Idle
    /\ rows[n].state = "ISSUED"
    /\ VisibleTo(rows[n], tenant)
    /\ signer = rows[n].signer
    /\ requests' = [requests EXCEPT ![r] =
          [phase |-> "CONSUME", nonce |-> n, tenant |-> tenant,
           signer |-> signer, loaded |-> rows[n]]]
    /\ UNCHANGED <<registryVars, chain, policy, rows, answers>>

ConsumeStart(r, n, tenant, signer) ==
    /\ requests[r] = Idle
    /\ rows[n].state = "ISSUED"
    /\ VisibleTo(rows[n], tenant)
    /\ rows[n].signer \in policy
    /\ signer = rows[n].signer
    /\ requests' = [requests EXCEPT ![r] =
          [phase |-> "CONSUME", nonce |-> n, tenant |-> tenant,
           signer |-> signer, loaded |-> rows[n]]]
    /\ UNCHANGED <<registryVars, chain, policy, rows, answers>>

\* Mutant: the UPDATE does not ask that the row be ISSUED.
StillPresent(q) == VisibleTo(rows[q.nonce], q.tenant)

\* The conditional UPDATE of SqliteReleaseStore.consume.
StillConsumable(q) ==
    /\ rows[q.nonce].state = "ISSUED"
    /\ VisibleTo(rows[q.nonce], q.tenant)

\* Mutant: the post-check does not look at the clearance.
ConsumeUnread(r, h) ==
    LET q == requests[r]
        t == chain[h].timestamp
    IN  /\ q.phase = "CONSUME"
        /\ q.loaded.precheck <= h
        /\ t < q.loaded.expiresAt
        /\ StillConsumable(q)
        /\ LET row == rows[q.nonce]
           IN  rows' = [rows EXCEPT ![q.nonce] =
                  [state |-> "CONSUMED", doc |-> row.doc, tenant |-> row.tenant,
                   signer |-> row.signer, precheck |-> row.precheck,
                   issuedAt |-> row.issuedAt, expiresAt |-> row.expiresAt,
                   postcheck |-> h, authorizedAt |-> t, recovered |-> q.signer]]
        /\ requests' = [requests EXCEPT ![r] = [phase |-> "ANSWER", nonce |-> q.nonce]]
        /\ UNCHANGED <<registryVars, chain, policy, answers>>

\* Mutant: an intent is still good at its last second.
ConsumeAtExpiry(r, h) ==
    LET q == requests[r]
        t == chain[h].timestamp
    IN  /\ q.phase = "CONSUME"
        /\ EligibleAt(h, q.loaded.doc)
        /\ q.loaded.precheck <= h
        /\ t <= q.loaded.expiresAt
        /\ StillConsumable(q)
        /\ LET row == rows[q.nonce]
           IN  rows' = [rows EXCEPT ![q.nonce] =
                  [state |-> "CONSUMED", doc |-> row.doc, tenant |-> row.tenant,
                   signer |-> row.signer, precheck |-> row.precheck,
                   issuedAt |-> row.issuedAt, expiresAt |-> row.expiresAt,
                   postcheck |-> h, authorizedAt |-> t, recovered |-> q.signer]]
        /\ requests' = [requests EXCEPT ![r] = [phase |-> "ANSWER", nonce |-> q.nonce]]
        /\ UNCHANGED <<registryVars, chain, policy, answers>>

ConsumeFinish(r, h) ==
    LET q == requests[r]
        t == chain[h].timestamp
    IN  /\ q.phase = "CONSUME"
        /\ EligibleAt(h, q.loaded.doc)
        /\ q.loaded.precheck <= h
        /\ t < q.loaded.expiresAt
        /\ StillConsumable(q)
        /\ LET row == rows[q.nonce]
           IN  rows' = [rows EXCEPT ![q.nonce] =
                  [state |-> "CONSUMED", doc |-> row.doc, tenant |-> row.tenant,
                   signer |-> row.signer, precheck |-> row.precheck,
                   issuedAt |-> row.issuedAt, expiresAt |-> row.expiresAt,
                   postcheck |-> h, authorizedAt |-> t, recovered |-> q.signer]]
        /\ requests' = [requests EXCEPT ![r] = [phase |-> "ANSWER", nonce |-> q.nonce]]
        /\ UNCHANGED <<registryVars, chain, policy, answers>>

(* The read failed, or one of the checks after it did: the handler throws  *)
(* and leaves the store alone.                                             *)
Fail(r) ==
    /\ requests[r].phase \in {"PREPARE", "CONSUME"}
    /\ requests' = [requests EXCEPT ![r] = Idle]
    /\ UNCHANGED <<registryVars, chain, policy, rows, answers>>

(* The response reaches the caller; a restart between the committed UPDATE *)
(* and this step loses it.                                                 *)
Answer(r) ==
    /\ requests[r].phase = "ANSWER"
    /\ answers' = [answers EXCEPT ![requests[r].nonce] = @ + 1]
    /\ requests' = [requests EXCEPT ![r] = Idle]
    /\ UNCHANGED <<registryVars, chain, policy, rows>>

(* The process stops and starts with another ROVAULTA_AUTHORIZED_SIGNERS:  *)
(* at least one signer is required.                                        *)
Restart(allowlist) ==
    /\ allowlist # {}
    /\ policy' = allowlist
    /\ requests' = [r \in Requests |-> Idle]
    /\ UNCHANGED <<registryVars, chain, rows, answers>>

SealBlock ==
    /\ MineBlock
    /\ chain' = Append(chain, [timestamp |-> now, clearances |-> clearances,
                               digestByIdHash |-> digestByIdHash])
    /\ UNCHANGED <<policy, rows, requests, answers>>

Transact == Transaction /\ UNCHANGED gateVars

-----------------------------------------------------------------------------
Init ==
    /\ RegistryInit
    /\ chain = <<>>
    /\ policy \in SUBSET Signers \ {{}}
    /\ rows = [n \in Nonces |-> NoRow]
    /\ requests = [r \in Requests |-> Idle]
    /\ answers = [n \in Nonces |-> 0]

Next ==
    \/ Transact
    \/ SealBlock
    \/ \E allowlist \in SUBSET Signers : Restart(allowlist)
    \/ \E r \in Requests :
          \/ \E doc \in Documents, tenant \in OrNone(Tenants), signer \in Signers :
                PrepareStart(r, doc, tenant, signer)
          \/ \E h \in DOMAIN chain, n \in Nonces : PrepareFinish(r, h, n)
          \/ \E n \in Nonces, tenant \in OrNone(Tenants), signer \in Signers :
                ConsumeStart(r, n, tenant, signer)
          \/ \E h \in DOMAIN chain : ConsumeFinish(r, h)
          \/ Fail(r)
          \/ Answer(r)

Spec == Init /\ [][Next]_vars

-----------------------------------------------------------------------------
(* A consumed nonce was checked twice, in order, and its clearance was     *)
(* registered, unrevoked, unexpired and equal to the signed one in every   *)
(* block from the precheck to the postcheck: two point reads bracket the   *)
(* whole interval because the registry never revalidates.                  *)
ValidThroughout ==
    \A n \in Nonces :
        LET row == rows[n]
        IN  row.state = "CONSUMED" =>
              /\ row.precheck \in DOMAIN chain /\ row.postcheck \in DOMAIN chain
              /\ row.precheck <= row.postcheck
              /\ \A h \in row.precheck..row.postcheck : EligibleAt(h, row.doc)

(* Every intent and authorization is inside its clearance window: issued   *)
(* at the precheck block, consumed strictly before it expires, and never   *)
(* outliving the clearance or the TTL.                                     *)
WithinWindow ==
    \A n \in Nonces :
        LET row == rows[n]
        IN  /\ row.state # "NONE" =>
                 /\ row.doc.bindings.issuedAt <= row.issuedAt
                 /\ row.issuedAt < row.expiresAt
                 /\ row.expiresAt <= row.doc.bindings.expiresAt
                 /\ row.expiresAt <= row.issuedAt + Ttl
            /\ row.state = "CONSUMED" =>
                 /\ row.issuedAt <= row.authorizedAt
                 /\ row.authorizedAt < row.expiresAt
                 /\ row.recovered = row.signer

(* A nonce gives at most one caller an authorization, counting answers on  *)
(* their way, and only once its row is CONSUMED: concurrent consumers,     *)
(* retries after a lost answer and restarts included.                      *)
InFlightAnswers(n) ==
    {r \in Requests : requests[r].phase = "ANSWER" /\ requests[r].nonce = n}

AtMostOneAnswer ==
    \A n \in Nonces :
        /\ answers[n] \in {0, 1}
        /\ answers[n] = 1 => rows[n].state = "CONSUMED" /\ InFlightAnswers(n) = {}
        /\ \A r, q \in InFlightAnswers(n) : r = q
        /\ InFlightAnswers(n) # {} => rows[n].state = "CONSUMED"

(* A nonce is only consumed for a signer the running process allows, even  *)
(* if the intent was issued before a restart changed the allowlist.        *)
PolicyIsCurrent ==
    [][\A n \in Nonces :
          rows[n].state = "ISSUED" /\ rows'[n].state = "CONSUMED"
              => rows[n].signer \in policy]_vars

(* The gate implements a one-shot permit per nonce: issued once with terms *)
(* that never change, used at most once, answered at most once.            *)
RowTerms(row) ==
    IF row.state = "NONE" THEN NoRow
    ELSE [doc |-> row.doc, tenant |-> row.tenant, signer |-> row.signer,
          precheck |-> row.precheck, issuedAt |-> row.issuedAt,
          expiresAt |-> row.expiresAt]

Permit == INSTANCE ReleasePermit WITH
    Unissued <- NoRow,
    terms    <- [n \in Nonces |-> RowTerms(rows[n])],
    used     <- {n \in Nonces : rows[n].state = "CONSUMED"},
    answered <- answers

OneShotPermits == Permit!PermitSpec
=============================================================================
