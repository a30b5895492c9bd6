-------------------------- MODULE ReleaseGateProofs --------------------------
(***************************************************************************)
(* What the release gate guarantees for any documents, signers, accounts,  *)
(* nonces, TTL and number of concurrent requests.  The invariant has one   *)
(* part per component: the chain of sealed blocks only ever grows and what *)
(* a block records the later ones keep; every row of the nonce store was   *)
(* justified by blocks of that chain; every suspended handler holds a copy *)
(* of its row that is still true; and answers never outnumber permits.     *)
(* The theorems of the registry contract come first.                       *)
(***************************************************************************)
EXTENDS ReleaseGate, TLAPS

-----------------------------------------------------------------------------
(***************************************************************************)
(* What the registry contract guarantees for any set of accounts, digests, *)
(* ids and calldata.  RegistryInv is the inductive invariant: types, the   *)
(* agreement of the two mappings, and that every recorded clearance was    *)
(* validated against a block no later than the current one.                *)
(***************************************************************************)

RecordedIsValidated ==
    \A d \in OrZero(Digests) :
        Exists(d) =>
            LET c == clearances[d]
            IN  /\ c.issuer \in Accounts
                /\ c.bindings.id \in Ids
                /\ c.bindings.content \in Contents
                /\ c.bindings.issuedAt <= now
                /\ c.bindings.expiresAt <= MaxProtocolTimestamp

RegistryInv == RegistryTypeOK /\ IdIndexAgrees /\ RecordedIsValidated

USE RegistryAssumption DEF OrZero

-----------------------------------------------------------------------------
(* The blank slot is a clearance, and so is what recordClearance writes.   *)
LEMMA ClearanceTypes ==
    /\ BlankClearance \in Clearance
    /\ \A b \in Calldata, v \in {"CLEAR", "REJECT"}, s \in Accounts :
          [bindings |-> b, verdict |-> v, issuer |-> s, status |-> "RECORDED"]
              \in Clearance
<1>1. BlankClearance \in Clearance
  BY DEF BlankClearance, Clearance, Bindings, Verdicts
<1>2. ASSUME NEW b \in Calldata, NEW v \in {"CLEAR", "REJECT"}, NEW s \in Accounts
      PROVE [bindings |-> b, verdict |-> v, issuer |-> s, status |-> "RECORDED"]
                \in Clearance
  <2>1. b \in Bindings
    OBVIOUS
  <2> QED BY <2>1 DEF Clearance, Verdicts
<1> QED BY <1>1, <1>2

LEMMA InitInv == RegistryInit => RegistryInv
<1> SUFFICES ASSUME RegistryInit PROVE RegistryInv
  OBVIOUS
<1> USE DEF RegistryInit
<1>1. RegistryTypeOK
  BY ClearanceTypes DEF RegistryTypeOK
<1>2. \A d \in OrZero(Digests) : ~Exists(d)
  BY DEF Exists, BlankClearance
<1>3. IdIndexAgrees
  BY <1>2 DEF IdIndexAgrees
<1>4. RecordedIsValidated
  BY <1>2 DEF RecordedIsValidated
<1> QED BY <1>1, <1>3, <1>4 DEF RegistryInv
-----------------------------------------------------------------------------
(* Each kind of step preserves the inductive invariant. *)
LEMMA RecordInv ==
    ASSUME RegistryInv,
           NEW sender \in Accounts, NEW digest \in OrZero(Digests),
           NEW b \in Calldata, NEW verdict \in {"CLEAR", "REJECT"},
           RecordClearance(sender, digest, b, verdict)
    PROVE  RegistryInv'
<1> USE DEF RegistryInv, RecordClearance, ValidInput
<1> DEFINE new == [bindings |-> b, verdict |-> verdict,
                   issuer |-> sender, status |-> "RECORDED"]
<1>1. b \in Bindings /\ new \in Clearance
  BY ClearanceTypes
<1>2. RegistryTypeOK'
  BY <1>1 DEF RegistryTypeOK, Bindings
<1>3. /\ clearances'[digest] = new
      /\ \A d \in OrZero(Digests) \ {digest} : clearances'[d] = clearances[d]
  BY DEF RegistryTypeOK
<1>4. /\ digestByIdHash'[b.id] = digest
      /\ \A i \in OrZero(Ids) \ {b.id} : digestByIdHash'[i] = digestByIdHash[i]
  BY <1>1 DEF RegistryTypeOK, Bindings
<1>5. \A d \in OrZero(Digests) : Exists(d)' <=> (d = digest \/ Exists(d))
  BY <1>3 DEF Exists
<1>6. IdIndexAgrees'
  <2>1. ASSUME NEW d \in OrZero(Digests), Exists(d)'
        PROVE  d # Zero /\ digestByIdHash'[clearances'[d].bindings.id] = d
    <3>1. CASE d = digest
      BY <3>1, <1>3, <1>4
    <3>2. CASE d # digest
      <4>1. d # Zero /\ digestByIdHash[clearances[d].bindings.id] = d
        BY <2>1, <3>2, <1>5 DEF IdIndexAgrees
      <4>2. clearances[d].bindings.id \in OrZero(Ids)
        BY DEF RegistryTypeOK, Clearance, Bindings
      <4>3. clearances[d].bindings.id # b.id
        BY <4>1
      <4> QED BY <4>1, <4>2, <4>3, <3>2, <1>3, <1>4
    <3> QED BY <3>1, <3>2
  <2>2. ASSUME NEW i \in OrZero(Ids), digestByIdHash'[i] # Zero
        PROVE  /\ Exists(digestByIdHash[i])'
               /\ clearances'[digestByIdHash'[i]].bindings.id = i
    <3>1. CASE i = b.id
      BY <3>1, <1>3, <1>4, <1>5
    <3>2. CASE i # b.id
      <4> DEFINE e == digestByIdHash[i]
      <4>1. e # Zero /\ Exists(e) /\ clearances[e].bindings.id = i /\ e \in OrZero(Digests)
        BY <2>2, <3>2, <1>4 DEF IdIndexAgrees, RegistryTypeOK
      <4>2. e # digest
        BY <4>1
      <4> QED BY <4>1, <4>2, <3>2, <1>3, <1>4 DEF Exists
    <3> QED BY <3>1, <3>2
  <2> QED BY <2>1, <2>2 DEF IdIndexAgrees
<1>7. RecordedIsValidated'
  <2> SUFFICES ASSUME NEW d \in OrZero(Digests), Exists(d)'
               PROVE  /\ clearances'[d].issuer \in Accounts
                      /\ clearances'[d].bindings.id \in Ids
                      /\ clearances'[d].bindings.content \in Contents
                      /\ clearances'[d].bindings.issuedAt <= now'
                      /\ clearances'[d].bindings.expiresAt <= MaxProtocolTimestamp
    BY DEF RecordedIsValidated
  <2>1. CASE d = digest
    BY <2>1, <1>1, <1>3 DEF Bindings
  <2>2. CASE d # digest
    BY <2>2, <1>3, <1>5 DEF RecordedIsValidated
  <2> QED BY <2>1, <2>2
<1> QED BY <1>2, <1>6, <1>7

LEMMA RevokeInv ==
    ASSUME RegistryInv, NEW sender \in Accounts, NEW digest \in OrZero(Digests),
           RevokeClearance(sender, digest)
    PROVE  RegistryInv'
<1> USE DEF RegistryInv, RevokeClearance
<1>1. RegistryTypeOK'
  BY DEF RegistryTypeOK, Clearance
<1>2. \A d \in OrZero(Digests) :
          /\ clearances'[d].bindings = clearances[d].bindings
          /\ clearances'[d].issuer = clearances[d].issuer
          /\ Exists(d)' <=> Exists(d)
  BY DEF RegistryTypeOK, Clearance, Exists
<1>3. IdIndexAgrees'
  BY <1>2 DEF IdIndexAgrees, RegistryTypeOK
<1>4. RecordedIsValidated'
  BY <1>2 DEF RecordedIsValidated
<1> QED BY <1>1, <1>3, <1>4

LEMMA QuietInv ==
    ASSUME RegistryInv,
           UNCHANGED <<clearances, digestByIdHash>>,
           now' \in Nat, now <= now', registrars' \in SUBSET Accounts
    PROVE  RegistryInv'
<1> USE DEF RegistryInv
<1>1. RegistryTypeOK'
  BY DEF RegistryTypeOK
<1>2. IdIndexAgrees'
  BY DEF IdIndexAgrees, Exists
<1>3. RecordedIsValidated'
  <2> SUFFICES ASSUME NEW d \in OrZero(Digests), Exists(d)
               PROVE  clearances[d].bindings.issuedAt <= now'
    BY DEF RecordedIsValidated, Exists
  <2>1. clearances[d].bindings.issuedAt \in Nat /\ now \in Nat
    BY DEF RegistryTypeOK, Clearance, Bindings
  <2>2. clearances[d].bindings.issuedAt <= now
    BY DEF RecordedIsValidated
  <2> QED BY <2>1, <2>2
<1> QED BY <1>1, <1>2, <1>3

LEMMA StepInv == RegistryInv /\ [RegistryNext]_registryVars => RegistryInv'
<1> SUFFICES ASSUME RegistryInv, [RegistryNext]_registryVars PROVE RegistryInv'
  OBVIOUS
<1>1. ASSUME NEW sender \in Accounts, NEW registrar \in OrZero(Accounts),
             NEW authorized \in BOOLEAN, SetRegistrar(sender, registrar, authorized)
      PROVE  RegistryInv'
  BY <1>1, QuietInv DEF SetRegistrar, RegistryInv, RegistryTypeOK
<1>2. ASSUME NEW sender \in Accounts, NEW digest \in OrZero(Digests),
             NEW b \in Calldata, NEW verdict \in {"CLEAR", "REJECT"},
             RecordClearance(sender, digest, b, verdict)
      PROVE  RegistryInv'
  BY <1>2, RecordInv
<1>3. ASSUME NEW sender \in Accounts, NEW digest \in OrZero(Digests),
             RevokeClearance(sender, digest)
      PROVE  RegistryInv'
  BY <1>3, RevokeInv
<1>4. CASE MineBlock
  BY <1>4, QuietInv DEF MineBlock, RegistryInv, RegistryTypeOK
<1>5. CASE UNCHANGED registryVars
  BY <1>5, QuietInv DEF registryVars, RegistryInv, RegistryTypeOK
<1> QED BY <1>1, <1>2, <1>3, <1>4, <1>5 DEF RegistryNext, Transaction

(* The two mappings, their types and the validated windows hold in every   *)
(* reachable state of the contract: the inductive invariant.               *)
THEOREM RegistryInvariant == RegistrySpec => []RegistryInv
BY InitInv, StepInv, PTL DEF RegistrySpec

(* Type correctness of the contract's storage.                             *)
THEOREM RegistryTypes == RegistrySpec => []RegistryTypeOK
<1>1. RegistryInv => RegistryTypeOK
  BY DEF RegistryInv
<1> QED BY <1>1, RegistryInvariant, PTL

(* No two recorded clearances share a clearance id: recordClearance's two  *)
(* reservations (digest and id hash) agree forever.                        *)
THEOREM ClearanceIdsAreUnique == RegistrySpec => []OneClearancePerId
<1>1. RegistryInv => OneClearancePerId
  BY DEF RegistryInv, IdIndexAgrees, OneClearancePerId
<1> QED BY <1>1, RegistryInvariant, PTL

(* A valid clearance was attested CLEAR by an account, with every binding  *)
(* set, and the current block is inside its window.                        *)
THEOREM ValidClearancesAreAttested == RegistrySpec => []ValidMeansAttested
<1>1. RegistryInv => ValidMeansAttested
  <2> SUFFICES ASSUME RegistryInv, NEW d \in OrZero(Digests), IsClearanceValid(d)
               PROVE  LET c == clearances[d]
                      IN  /\ c.issuer # Zero
                          /\ c.bindings.id # Zero /\ c.bindings.content # Zero
                          /\ c.bindings.issuedAt <= now /\ now < c.bindings.expiresAt
                          /\ c.bindings.expiresAt <= MaxProtocolTimestamp
    BY DEF ValidMeansAttested
  <2>1. Exists(d)
    BY DEF IsClearanceValid, IsValidAt, Exists
  <2> QED BY <2>1 DEF RegistryInv, RecordedIsValidated, IsClearanceValid, IsValidAt
<1> QED BY <1>1, RegistryInvariant, PTL

-----------------------------------------------------------------------------
(* One step leaves what is recorded in place; only RevokeClearance touches *)
(* a recorded clearance, and only its status, towards REVOKED.             *)
LEMMA RecordsStay ==
    ASSUME RegistryInv, [RegistryNext]_registryVars,
           NEW d \in OrZero(Digests), Exists(d)
    PROVE  /\ clearances'[d].bindings = clearances[d].bindings
           /\ clearances'[d].verdict = clearances[d].verdict
           /\ clearances'[d].issuer = clearances[d].issuer
           /\ clearances'[d].status \in {clearances[d].status, "REVOKED"}
           /\ digestByIdHash'[clearances[d].bindings.id] = d
           /\ now \in Nat /\ now' \in Nat /\ now <= now'
<1> DEFINE Stays == /\ clearances'[d].bindings = clearances[d].bindings
                    /\ clearances'[d].verdict = clearances[d].verdict
                    /\ clearances'[d].issuer = clearances[d].issuer
                    /\ clearances'[d].status \in {clearances[d].status, "REVOKED"}
                    /\ digestByIdHash'[clearances[d].bindings.id] = d
                    /\ now \in Nat /\ now' \in Nat /\ now <= now'
<1> USE DEF RegistryInv, RegistryTypeOK
<1>1. digestByIdHash[clearances[d].bindings.id] = d /\ clearances[d] \in Clearance
  BY DEF IdIndexAgrees
<1>2. ASSUME UNCHANGED <<clearances, digestByIdHash>>, now' \in Nat, now <= now'
      PROVE  Stays
  BY <1>1, <1>2
<1>3. ASSUME NEW sender \in Accounts, NEW registrar \in OrZero(Accounts),
             NEW authorized \in BOOLEAN, SetRegistrar(sender, registrar, authorized)
      PROVE  Stays
  BY <1>2, <1>3 DEF SetRegistrar
<1>4. ASSUME NEW sender \in Accounts, NEW digest \in OrZero(Digests),
             NEW b \in Calldata, NEW verdict \in {"CLEAR", "REJECT"},
             RecordClearance(sender, digest, b, verdict)
      PROVE  Stays
  <2>1. d # digest /\ clearances'[d] = clearances[d] /\ now' = now
    BY <1>4 DEF RecordClearance
  <2>2. b.id # clearances[d].bindings.id
    <3>1. digestByIdHash[b.id] = Zero /\ d # Zero
      BY <1>4 DEF RecordClearance, IdIndexAgrees
    <3> QED BY <3>1, <1>1
  <2>3. clearances[d].bindings.id \in OrZero(Ids)
    BY <1>1 DEF Clearance, Bindings
  <2>4. digestByIdHash'[clearances[d].bindings.id] = d
    BY <1>1, <1>4, <2>2, <2>3 DEF RecordClearance
  <2> QED BY <2>1, <2>4
<1>5. ASSUME NEW sender \in Accounts, NEW digest \in OrZero(Digests),
             RevokeClearance(sender, digest)
      PROVE  Stays
  <2>1. CASE d = digest
    BY <1>1, <1>5, <2>1 DEF RevokeClearance, Clearance
  <2>2. CASE d # digest
    BY <1>1, <1>5, <2>2 DEF RevokeClearance
  <2> QED BY <2>1, <2>2
<1>6. CASE MineBlock
  BY <1>2, <1>6 DEF MineBlock
<1>7. CASE UNCHANGED registryVars
  BY <1>2, <1>7 DEF registryVars
<1> QED BY <1>3, <1>4, <1>5, <1>6, <1>7 DEF RegistryNext, Transaction

(* Revocation and expiry are permanent: a recorded clearance that is not   *)
(* valid stays invalid, for every sequence of transactions and blocks.     *)
THEOREM InvalidityIsPermanent == RegistrySpec => NeverRevalidates
<1>1. ASSUME RegistryInv, [RegistryNext]_registryVars,
             NEW d \in OrZero(Digests), Exists(d), ~IsClearanceValid(d)
      PROVE  ~IsClearanceValid(d)'
  <2>1. clearances[d].bindings.expiresAt \in Nat
    BY <1>1 DEF RegistryInv, RegistryTypeOK, Clearance, Bindings
  <2> QED BY <1>1, <2>1, RecordsStay DEF IsClearanceValid, IsValidAt, Exists
<1>2. RegistryInv /\ [RegistryNext]_registryVars =>
         [\A d \in OrZero(Digests) :
             Exists(d) /\ ~IsClearanceValid(d) => ~IsClearanceValid(d)']_registryVars
  BY <1>1
<1> QED BY <1>2, RegistryInvariant, PTL DEF RegistrySpec, NeverRevalidates

(* Recorded evidence is never overwritten, erased or repointed.            *)
THEOREM RecordedEvidenceIsImmutable == RegistrySpec => RecordsAreImmutable
<1>1. ASSUME RegistryInv, [RegistryNext]_registryVars,
             NEW d \in OrZero(Digests), Exists(d)
      PROVE  /\ Exists(d)'
             /\ clearances'[d].bindings = clearances[d].bindings
             /\ clearances'[d].verdict = clearances[d].verdict
             /\ clearances'[d].issuer = clearances[d].issuer
             /\ digestByIdHash'[clearances[d].bindings.id] = d
  BY <1>1, RecordsStay DEF Exists
<1>2. RegistryInv /\ [RegistryNext]_registryVars =>
         [\A d \in OrZero(Digests) :
             Exists(d) =>
                 /\ Exists(d)'
                 /\ clearances'[d].bindings = clearances[d].bindings
                 /\ clearances'[d].verdict = clearances[d].verdict
                 /\ clearances'[d].issuer = clearances[d].issuer
                 /\ digestByIdHash'[clearances[d].bindings.id] = d]_registryVars
  BY <1>1
<1> QED BY <1>2, RegistryInvariant, PTL DEF RegistrySpec, RecordsAreImmutable

-----------------------------------------------------------------------------
(* The release gate.                                                       *)
\* The block that SealBlock would append now.
Pending == [timestamp |-> now, clearances |-> clearances,
            digestByIdHash |-> digestByIdHash]

\* What block b records, block c still records, unless it was revoked.
Keeps(b, c) ==
    /\ b.timestamp <= c.timestamp
    /\ \A d \in OrZero(Digests) :
          b.clearances[d].status # "ABSENT" =>
              /\ c.clearances[d].bindings = b.clearances[d].bindings
              /\ c.clearances[d].verdict = b.clearances[d].verdict
              /\ c.clearances[d].issuer = b.clearances[d].issuer
              /\ c.clearances[d].status \in {b.clearances[d].status, "REVOKED"}
              /\ c.digestByIdHash[b.clearances[d].bindings.id] = d

ChainInv ==
    /\ \A h \in 1..Len(chain) : Keeps(chain[h], Pending)
    /\ \A h, k \in 1..Len(chain) : h <= k => Keeps(chain[h], chain[k])

IssueJustified(row) ==
    /\ row.precheck \in 1..Len(chain)
    /\ EligibleAt(row.precheck, row.doc)
    /\ row.issuedAt = chain[row.precheck].timestamp
    /\ row.doc.bindings.issuedAt <= row.issuedAt
    /\ row.issuedAt < row.expiresAt
    /\ row.expiresAt = Expiry(row.issuedAt, row.doc)

UseJustified(row) ==
    /\ row.postcheck \in 1..Len(chain)
    /\ row.precheck <= row.postcheck
    /\ EligibleAt(row.postcheck, row.doc)
    /\ row.authorizedAt = chain[row.postcheck].timestamp
    /\ row.authorizedAt < row.expiresAt
    /\ row.recovered = row.signer

RowsInv ==
    \A n \in Nonces :
        /\ rows[n].state # "NONE" => IssueJustified(rows[n])
        /\ rows[n].state = "CONSUMED" => UseJustified(rows[n])

RequestsInv ==
    \A r \in Requests :
        requests[r].phase = "CONSUME" =>
            /\ requests[r].loaded.signer \in policy
            /\ requests[r].signer = requests[r].loaded.signer
            /\ rows[requests[r].nonce].state # "NONE"
            /\ rows[requests[r].nonce].state = "ISSUED"
                  => rows[requests[r].nonce] = requests[r].loaded

GateInv ==
    /\ RegistryInv
    /\ GateTypeOK
    /\ ChainInv
    /\ RowsInv
    /\ RequestsInv
    /\ AtMostOneAnswer

USE RegistryAssumption, ReleaseAssumption DEF OrZero, OrNone

-----------------------------------------------------------------------------
(* What a row and a request look like in each of their states.             *)
LEMMA RowShape ==
    ASSUME GateTypeOK, NEW n \in Nonces
    PROVE  /\ rows[n].state = "NONE" => rows[n] = NoRow
           /\ rows[n].state = "ISSUED" => rows[n] \in IssuedRow
           /\ rows[n].state = "CONSUMED" => rows[n] \in ConsumedRow
           /\ rows[n].state \in {"NONE", "ISSUED", "CONSUMED"}
           /\ rows[n].state # "NONE" =>
                 /\ rows[n].doc \in Documents /\ rows[n].signer \in Signers
                 /\ rows[n].tenant \in OrNone(Tenants)
                 /\ rows[n].precheck \in Nat /\ rows[n].issuedAt \in Nat
                 /\ rows[n].expiresAt \in Nat
BY DEF GateTypeOK, NoRow, IssuedRow, ConsumedRow

LEMMA RequestShape ==
    ASSUME GateTypeOK, NEW r \in Requests
    PROVE  /\ requests[r].phase \in {"IDLE", "PREPARE", "CONSUME", "ANSWER"}
           /\ requests[r].phase = "PREPARE" =>
                 /\ requests[r].doc \in Documents /\ requests[r].signer \in Signers
                 /\ requests[r].tenant \in OrNone(Tenants)
           /\ requests[r].phase = "CONSUME" =>
                 /\ requests[r].nonce \in Nonces /\ requests[r].signer \in Signers
                 /\ requests[r].tenant \in OrNone(Tenants)
                 /\ requests[r].loaded \in IssuedRow
           /\ requests[r].phase = "ANSWER" => requests[r].nonce \in Nonces
BY DEF GateTypeOK, Request, Idle

LEMMA BlockShape ==
    ASSUME GateTypeOK, NEW h \in DOMAIN chain
    PROVE  /\ h \in 1..Len(chain)
           /\ chain[h] \in Block /\ chain[h].timestamp \in Nat
<1>1. h \in 1..Len(chain) /\ chain[h] \in Block
  BY DEF GateTypeOK
<1>2. chain[h].timestamp \in Nat
  BY <1>1 DEF Block
<1> QED BY <1>1, <1>2

LEMMA DocumentShape ==
    ASSUME NEW doc \in Documents
    PROVE  /\ doc.digest \in Digests
           /\ doc.bindings.id \in OrZero(Ids)
           /\ doc.bindings.issuedAt \in Nat /\ doc.bindings.expiresAt \in Nat
<1>1. doc.digest \in Digests /\ doc.bindings \in Bindings
  OBVIOUS
<1> QED BY <1>1 DEF Bindings

LEMMA ExpiryBounds ==
    ASSUME NEW doc \in Documents, NEW t \in Nat
    PROVE  /\ Expiry(t, doc) \in Nat
           /\ Expiry(t, doc) <= t + Ttl
           /\ Expiry(t, doc) <= doc.bindings.expiresAt
<1>1. doc.bindings.expiresAt \in Nat /\ Ttl \in Nat
  BY DocumentShape
<1> QED BY <1>1 DEF Expiry

(* A step of the gate is a step of the registry, or leaves it alone.       *)
LEMMA RegistryStep == [Next]_vars => [RegistryNext]_registryVars
<1>1. Transact => RegistryNext
  BY DEF Transact, RegistryNext
<1>2. SealBlock => RegistryNext
  BY DEF SealBlock, RegistryNext
<1>3. \A allowlist : Restart(allowlist) => UNCHANGED registryVars
  BY DEF Restart
<1>4. \A r, doc, tenant, signer : PrepareStart(r, doc, tenant, signer) => UNCHANGED registryVars
  BY DEF PrepareStart
<1>5. \A r, h, n : PrepareFinish(r, h, n) => UNCHANGED registryVars
  BY DEF PrepareFinish
<1>6. \A r, n, tenant, signer : ConsumeStart(r, n, tenant, signer) => UNCHANGED registryVars
  BY DEF ConsumeStart
<1>7. \A r, h : ConsumeFinish(r, h) => UNCHANGED registryVars
  BY DEF ConsumeFinish
<1>8. \A r : Fail(r) \/ Answer(r) => UNCHANGED registryVars
  BY DEF Fail, Answer
<1>9. UNCHANGED vars => UNCHANGED registryVars
  BY DEF vars
<1> QED BY <1>1, <1>2, <1>3, <1>4, <1>5, <1>6, <1>7, <1>8, <1>9 DEF Next

LEMMA RegistryPart == RegistryInv /\ [Next]_vars => RegistryInv'
BY RegistryStep, StepInv

-----------------------------------------------------------------------------
(* Types.                                                                  *)
LEMMA TypeStep == RegistryInv /\ GateTypeOK /\ [Next]_vars => GateTypeOK'
<1> SUFFICES ASSUME RegistryInv, GateTypeOK, [Next]_vars PROVE GateTypeOK'
  OBVIOUS
<1> USE DEF GateTypeOK
<1>1. RegistryTypeOK'
  BY RegistryPart DEF RegistryInv
<1>2. CASE Transact
  BY <1>1, <1>2 DEF Transact, gateVars
<1>3. CASE SealBlock
  <2>1. [timestamp |-> now, clearances |-> clearances,
         digestByIdHash |-> digestByIdHash] \in Block
    BY DEF Block, RegistryTypeOK
  <2>2. chain' \in Seq(Block)
    BY <1>3, <2>1 DEF SealBlock
  <2> QED BY <1>1, <1>3, <2>2 DEF SealBlock
<1>4. ASSUME NEW allowlist \in SUBSET Signers, Restart(allowlist)
      PROVE  GateTypeOK'
  BY <1>1, <1>4 DEF Restart, Request
<1>5. ASSUME NEW r \in Requests, NEW doc \in Documents,
             NEW tenant \in OrNone(Tenants), NEW signer \in Signers,
             PrepareStart(r, doc, tenant, signer)
      PROVE  GateTypeOK'
  BY <1>1, <1>5 DEF PrepareStart, Request
<1>6. ASSUME NEW r \in Requests, NEW h \in DOMAIN chain, NEW n \in Nonces,
             PrepareFinish(r, h, n)
      PROVE  GateTypeOK'
  <2> DEFINE q == requests[r]
             t == chain[h].timestamp
  <2>1. /\ q.doc \in Documents /\ q.signer \in Signers /\ q.tenant \in OrNone(Tenants)
        /\ h \in 1..Len(chain) /\ t \in Nat
    BY <1>6, RequestShape, BlockShape DEF PrepareFinish
  <2>2. Expiry(t, q.doc) \in Nat
    BY <2>1, ExpiryBounds
  <2>3. [state |-> "ISSUED", doc |-> q.doc, tenant |-> q.tenant, signer |-> q.signer,
         precheck |-> h, issuedAt |-> t, expiresAt |-> Expiry(t, q.doc)] \in IssuedRow
    BY <2>1, <2>2 DEF IssuedRow
  <2>4. rows' \in [Nonces -> {NoRow} \cup IssuedRow \cup ConsumedRow]
    BY <1>6, <2>3 DEF PrepareFinish
  <2>5. requests' \in [Requests -> Request]
    BY <1>6 DEF PrepareFinish, Request
  <2> QED BY <1>1, <1>6, <2>4, <2>5 DEF PrepareFinish
<1>7. ASSUME NEW r \in Requests, NEW n \in Nonces,
             NEW tenant \in OrNone(Tenants), NEW signer \in Signers,
             ConsumeStart(r, n, tenant, signer)
      PROVE  GateTypeOK'
  <2>1. rows[n] \in IssuedRow
    BY <1>7, RowShape DEF ConsumeStart
  <2>2. requests' \in [Requests -> Request]
    BY <1>7, <2>1 DEF ConsumeStart, Request
  <2> QED BY <1>1, <1>7, <2>2 DEF ConsumeStart
<1>8. ASSUME NEW r \in Requests, NEW h \in DOMAIN chain, ConsumeFinish(r, h)
      PROVE  GateTypeOK'
  <2> DEFINE q == requests[r]
             row == rows[q.nonce]
             t == chain[h].timestamp
  <2>1. q.nonce \in Nonces /\ q.signer \in Signers /\ h \in 1..Len(chain) /\ t \in Nat
    BY <1>8, RequestShape, BlockShape DEF ConsumeFinish
  <2>2. row \in IssuedRow
    BY <1>8, <2>1, RowShape DEF ConsumeFinish, StillConsumable
  <2>3. [state |-> "CONSUMED", doc |-> row.doc, tenant |-> row.tenant,
         signer |-> row.signer, precheck |-> row.precheck,
         issuedAt |-> row.issuedAt, expiresAt |-> row.expiresAt,
         postcheck |-> h, authorizedAt |-> t, recovered |-> q.signer] \in ConsumedRow
    BY <2>1, <2>2 DEF IssuedRow, ConsumedRow
  <2>4. rows' \in [Nonces -> {NoRow} \cup IssuedRow \cup ConsumedRow]
    BY <1>8, <2>3 DEF ConsumeFinish
  <2>5. requests' \in [Requests -> Request]
    BY <1>8, <2>1 DEF ConsumeFinish, Request
  <2> QED BY <1>1, <1>8, <2>4, <2>5 DEF ConsumeFinish
<1>9. ASSUME NEW r \in Requests, Fail(r)
      PROVE  GateTypeOK'
  BY <1>1, <1>9 DEF Fail, Request
<1>10. ASSUME NEW r \in Requests, Answer(r)
       PROVE  GateTypeOK'
  <2>1. requests[r].nonce \in Nonces
    BY <1>10, RequestShape DEF Answer
  <2>2. answers' \in [Nonces -> Nat]
    BY <1>10, <2>1 DEF Answer
  <2>3. requests' \in [Requests -> Request]
    BY <1>10 DEF Answer, Request
  <2> QED BY <1>1, <1>10, <2>2, <2>3 DEF Answer
<1>11. CASE UNCHANGED vars
  BY <1>1, <1>11 DEF vars, gateVars
<1> QED BY <1>2, <1>3, <1>4, <1>5, <1>6, <1>7, <1>8, <1>9, <1>10, <1>11 DEF Next

-----------------------------------------------------------------------------
(* The chain.                                                              *)
LEMMA KeepsReflexive ==
    ASSUME RegistryInv
    PROVE  Keeps(Pending, Pending)
<1>1. now \in Nat
  BY DEF RegistryInv, RegistryTypeOK
<1>2. \A d \in OrZero(Digests) : Exists(d) => digestByIdHash[clearances[d].bindings.id] = d
  BY DEF RegistryInv, IdIndexAgrees
<1> QED BY <1>1, <1>2 DEF Keeps, Pending, Exists

LEMMA PendingKept ==
    ASSUME RegistryInv, [Next]_vars
    PROVE  Keeps(Pending, Pending')
<1>1. ASSUME NEW d \in OrZero(Digests), clearances[d].status # "ABSENT"
      PROVE  /\ clearances'[d].bindings = clearances[d].bindings
             /\ clearances'[d].verdict = clearances[d].verdict
             /\ clearances'[d].issuer = clearances[d].issuer
             /\ clearances'[d].status \in {clearances[d].status, "REVOKED"}
             /\ digestByIdHash'[clearances[d].bindings.id] = d
  BY <1>1, RegistryStep, RecordsStay DEF Exists
<1>2. now <= now'
  BY RegistryStep, RegistryPart DEF RegistryInv, RegistryTypeOK, RegistryNext, Transaction,
     SetRegistrar, RecordClearance, RevokeClearance, MineBlock, registryVars
<1> QED BY <1>1, <1>2 DEF Keeps, Pending

LEMMA KeepsTransitive ==
    ASSUME NEW a \in Block, NEW b \in Block, NEW c \in Block, Keeps(a, b), Keeps(b, c)
    PROVE  Keeps(a, c)
<1>1. a.timestamp <= c.timestamp
  <2>1. a.timestamp \in Nat /\ b.timestamp \in Nat /\ c.timestamp \in Nat
    BY DEF Block
  <2>2. a.timestamp <= b.timestamp /\ b.timestamp <= c.timestamp
    BY DEF Keeps
  <2> QED BY <2>1, <2>2
<1>2. ASSUME NEW d \in OrZero(Digests), a.clearances[d].status # "ABSENT"
      PROVE  /\ c.clearances[d].bindings = a.clearances[d].bindings
             /\ c.clearances[d].verdict = a.clearances[d].verdict
             /\ c.clearances[d].issuer = a.clearances[d].issuer
             /\ c.clearances[d].status \in {a.clearances[d].status, "REVOKED"}
             /\ c.digestByIdHash[a.clearances[d].bindings.id] = d
  <2>1. /\ b.clearances[d].bindings = a.clearances[d].bindings
        /\ b.clearances[d].verdict = a.clearances[d].verdict
        /\ b.clearances[d].issuer = a.clearances[d].issuer
        /\ b.clearances[d].status \in {a.clearances[d].status, "REVOKED"}
    BY <1>2 DEF Keeps
  <2>2. b.clearances[d].status # "ABSENT"
    BY <1>2, <2>1
  <2>3. /\ c.clearances[d].bindings = b.clearances[d].bindings
        /\ c.clearances[d].verdict = b.clearances[d].verdict
        /\ c.clearances[d].issuer = b.clearances[d].issuer
        /\ c.clearances[d].status \in {b.clearances[d].status, "REVOKED"}
        /\ c.digestByIdHash[b.clearances[d].bindings.id] = d
    BY <2>2 DEF Keeps
  <2> QED BY <2>1, <2>3
<1> QED BY <1>1, <1>2 DEF Keeps

LEMMA PendingIsBlock == RegistryInv => Pending \in Block
BY DEF Pending, Block, RegistryInv, RegistryTypeOK

(* The chain only grows, by the pending block.                             *)
LEMMA ChainGrows ==
    ASSUME GateTypeOK, [Next]_vars
    PROVE  \/ chain' = chain
           \/ chain' = Append(chain, Pending)
<1>1. SealBlock => chain' = Append(chain, Pending)
  BY DEF SealBlock, Pending
<1>2. Transact \/ UNCHANGED vars => chain' = chain
  BY DEF Transact, vars, gateVars
<1>3. \A allowlist : Restart(allowlist) => chain' = chain
  BY DEF Restart
<1>4. \A r, doc, tenant, signer : PrepareStart(r, doc, tenant, signer) => chain' = chain
  BY DEF PrepareStart
<1>5. \A r, h, n : PrepareFinish(r, h, n) => chain' = chain
  BY DEF PrepareFinish
<1>6. \A r, n, tenant, signer : ConsumeStart(r, n, tenant, signer) => chain' = chain
  BY DEF ConsumeStart
<1>7. \A r, h : ConsumeFinish(r, h) => chain' = chain
  BY DEF ConsumeFinish
<1>8. \A r : Fail(r) \/ Answer(r) => chain' = chain
  BY DEF Fail, Answer
<1> QED BY <1>1, <1>2, <1>3, <1>4, <1>5, <1>6, <1>7, <1>8 DEF Next

LEMMA BlocksStay ==
    ASSUME GateTypeOK, RegistryInv, [Next]_vars
    PROVE  /\ Len(chain) <= Len(chain') /\ Len(chain) \in Nat /\ Len(chain') \in Nat
           /\ \A h \in 1..Len(chain) : h \in 1..Len(chain') /\ chain'[h] = chain[h]
<1>1. chain \in Seq(Block) /\ Pending \in Block
  BY PendingIsBlock DEF GateTypeOK
<1> QED BY <1>1, ChainGrows

LEMMA ChainStep == RegistryInv /\ GateTypeOK /\ ChainInv /\ [Next]_vars => ChainInv'
<1> SUFFICES ASSUME RegistryInv, GateTypeOK, ChainInv, [Next]_vars PROVE ChainInv'
  OBVIOUS
<1>1. /\ chain \in Seq(Block) /\ chain' \in Seq(Block)
      /\ Pending \in Block /\ Pending' \in Block
  <2>1. chain \in Seq(Block) /\ chain' \in Seq(Block)
    BY TypeStep DEF GateTypeOK
  <2>2. Pending' \in Block
    BY RegistryPart DEF Pending, Block, RegistryInv, RegistryTypeOK
  <2> QED BY <2>1, <2>2, PendingIsBlock
<1>2. Keeps(Pending, Pending) /\ Keeps(Pending, Pending')
  BY KeepsReflexive, PendingKept
<1>3. \A h \in 1..Len(chain) : chain[h] \in Block /\ Keeps(chain[h], Pending')
  <2> SUFFICES ASSUME NEW h \in 1..Len(chain)
               PROVE  chain[h] \in Block /\ Keeps(chain[h], Pending')
    OBVIOUS
  <2>1. chain[h] \in Block
    BY <1>1
  <2>2. Keeps(chain[h], Pending)
    BY DEF ChainInv
  <2> QED BY <1>1, <1>2, <2>1, <2>2, KeepsTransitive
<1>4. CASE chain' = chain
  <2>1. \A h \in 1..Len(chain') : Keeps(chain'[h], Pending')
    BY <1>3, <1>4
  <2>2. \A h, k \in 1..Len(chain') : h <= k => Keeps(chain'[h], chain'[k])
    BY <1>4 DEF ChainInv
  <2>3. ChainInv' <=> /\ \A h \in 1..Len(chain') : Keeps(chain'[h], Pending')
                      /\ \A h, k \in 1..Len(chain') : h <= k => Keeps(chain'[h], chain'[k])
    BY DEF ChainInv, Keeps
  <2> QED BY <2>1, <2>2, <2>3
<1>5. CASE chain' = Append(chain, Pending)
  <2>1. /\ Len(chain) \in Nat /\ Len(chain') = Len(chain) + 1
        /\ chain'[Len(chain) + 1] = Pending
        /\ \A h \in 1..Len(chain) : chain'[h] = chain[h]
    BY <1>1, <1>5
  <2>2. \A h \in 1..Len(chain') : Keeps(chain'[h], Pending')
    <3> SUFFICES ASSUME NEW h \in 1..Len(chain') PROVE Keeps(chain'[h], Pending')
      OBVIOUS
    <3>1. CASE h \in 1..Len(chain)
      BY <1>3, <2>1, <3>1
    <3>2. CASE h = Len(chain) + 1
      BY <1>2, <2>1, <3>2
    <3> QED BY <2>1, <3>1, <3>2
  <2>3. \A h, k \in 1..Len(chain') : h <= k => Keeps(chain'[h], chain'[k])
    <3> SUFFICES ASSUME NEW h \in 1..Len(chain'), NEW k \in 1..Len(chain'), h <= k
                 PROVE  Keeps(chain'[h], chain'[k])
      OBVIOUS
    <3>1. CASE k \in 1..Len(chain)
      <4>1. h \in 1..Len(chain)
        BY <2>1, <3>1
      <4> QED BY <2>1, <3>1, <4>1 DEF ChainInv
    <3>2. CASE k = Len(chain) + 1 /\ h \in 1..Len(chain)
      BY <2>1, <3>2 DEF ChainInv
    <3>3. CASE k = Len(chain) + 1 /\ h = Len(chain) + 1
      BY <1>2, <2>1, <3>3
    <3> QED BY <2>1, <3>1, <3>2, <3>3
  <2>4. ChainInv' <=> /\ \A h \in 1..Len(chain') : Keeps(chain'[h], Pending')
                      /\ \A h, k \in 1..Len(chain') : h <= k => Keeps(chain'[h], chain'[k])
    BY DEF ChainInv, Keeps
  <2> QED BY <2>2, <2>3, <2>4
<1> QED BY <1>4, <1>5, ChainGrows

-----------------------------------------------------------------------------
(* Rows.  What justified a row once justifies it for ever, since blocks    *)
(* stay where they are; only PrepareFinish and ConsumeFinish write rows.   *)
LEMMA EligibilityStays ==
    ASSUME NEW h, NEW doc, chain'[h] = chain[h], EligibleAt(h, doc)
    PROVE  EligibleAt(h, doc)'
BY DEF EligibleAt, IsValidAt

LEMMA JustificationStays ==
    ASSUME GateTypeOK, RegistryInv, [Next]_vars, NEW row
    PROVE  /\ IssueJustified(row) => IssueJustified(row)'
           /\ UseJustified(row) => UseJustified(row)'
<1>1. \A h \in 1..Len(chain) : h \in 1..Len(chain') /\ chain'[h] = chain[h]
  BY BlocksStay
<1>2. ASSUME IssueJustified(row) PROVE IssueJustified(row)'
  <2>1. EligibleAt(row.precheck, row.doc)'
    BY <1>1, <1>2, EligibilityStays DEF IssueJustified
  <2> QED BY <1>1, <1>2, <2>1 DEF IssueJustified, Expiry
<1>3. ASSUME UseJustified(row) PROVE UseJustified(row)'
  <2>1. EligibleAt(row.postcheck, row.doc)'
    BY <1>1, <1>3, EligibilityStays DEF UseJustified
  <2> QED BY <1>1, <1>3, <2>1 DEF UseJustified
<1> QED BY <1>2, <1>3

\* A row after a step, named apart from the state.
LEMMA JustificationHolds ==
    ASSUME NEW n \in Nonces, NEW after, after = rows'[n]
    PROVE  /\ IssueJustified(after)' => IssueJustified(rows[n])'
           /\ UseJustified(after)' => UseJustified(rows[n])'
<1>1. ASSUME IssueJustified(after)' PROVE IssueJustified(rows[n])'
  <2>1. EligibleAt(rows[n].precheck, rows[n].doc)'
    BY <1>1 DEF IssueJustified, EligibleAt, IsValidAt
  <2> QED BY <1>1, <2>1 DEF IssueJustified, Expiry
<1>2. ASSUME UseJustified(after)' PROVE UseJustified(rows[n])'
  <2>1. EligibleAt(rows[n].postcheck, rows[n].doc)'
    BY <1>2 DEF UseJustified, EligibleAt, IsValidAt
  <2> QED BY <1>2, <2>1 DEF UseJustified
<1> QED BY <1>1, <1>2

LEMMA UntouchedRow ==
    ASSUME RegistryInv, GateTypeOK, RowsInv, [Next]_vars,
           NEW n \in Nonces, rows'[n] = rows[n]
    PROVE  /\ rows'[n].state # "NONE" => IssueJustified(rows[n])'
           /\ rows'[n].state = "CONSUMED" => UseJustified(rows[n])'
<1>1. PICK row : row = rows[n]
  OBVIOUS
<1>2. /\ row.state # "NONE" => IssueJustified(row)
      /\ row.state = "CONSUMED" => UseJustified(row)
  BY <1>1 DEF RowsInv
<1>3. /\ row.state # "NONE" => IssueJustified(row)'
      /\ row.state = "CONSUMED" => UseJustified(row)'
  BY <1>2, JustificationStays
<1>4. rows'[n] = row
  BY <1>1
<1>5. IssueJustified(row)' => IssueJustified(rows[n])'
  BY <1>4 DEF IssueJustified, EligibleAt, IsValidAt
<1>6. UseJustified(row)' => UseJustified(rows[n])'
  BY <1>4 DEF UseJustified, EligibleAt, IsValidAt
<1> QED BY <1>3, <1>4, <1>5, <1>6

LEMMA RowWriters ==
    ASSUME GateTypeOK, [Next]_vars, NEW n \in Nonces, rows'[n] # rows[n]
    PROVE  \E r \in Requests, h \in DOMAIN chain :
              \/ PrepareFinish(r, h, n)
              \/ ConsumeFinish(r, h) /\ requests[r].nonce = n
<1>1. ASSUME NEW r \in Requests, NEW h \in DOMAIN chain, NEW m \in Nonces,
             PrepareFinish(r, h, m)
      PROVE  m = n
  BY <1>1 DEF PrepareFinish, GateTypeOK
<1>2. ASSUME NEW r \in Requests, NEW h \in DOMAIN chain, ConsumeFinish(r, h)
      PROVE  requests[r].nonce = n
  BY <1>2 DEF ConsumeFinish, GateTypeOK
<1>3. \/ \E r \in Requests, h \in DOMAIN chain, m \in Nonces : PrepareFinish(r, h, m)
      \/ \E r \in Requests, h \in DOMAIN chain : ConsumeFinish(r, h)
  BY DEF Next, vars, gateVars, Transact, SealBlock, Restart, PrepareStart,
     ConsumeStart, Fail, Answer
<1> QED BY <1>1, <1>2, <1>3

LEMMA RowsStep ==
    ASSUME RegistryInv, GateTypeOK, RowsInv, RequestsInv, [Next]_vars
    PROVE  RowsInv'
<1> SUFFICES ASSUME NEW n \in Nonces
             PROVE  /\ rows'[n].state # "NONE" => IssueJustified(rows[n])'
                    /\ rows'[n].state = "CONSUMED" => UseJustified(rows[n])'
  BY DEF RowsInv
<1>1. CASE rows'[n] = rows[n]
  BY <1>1, UntouchedRow
<1>2. ASSUME NEW r \in Requests, NEW h \in DOMAIN chain, PrepareFinish(r, h, n)
      PROVE  /\ rows'[n].state = "ISSUED"
             /\ IssueJustified(rows[n])'
  <2> DEFINE q == requests[r]
             t == chain[h].timestamp
  <2>1. /\ h \in 1..Len(chain) /\ t \in Nat /\ chain' = chain
        /\ q.doc \in Documents
    BY <1>2, BlockShape, RequestShape DEF PrepareFinish
  <2>2. rows'[n] = [state |-> "ISSUED", doc |-> q.doc, tenant |-> q.tenant,
                    signer |-> q.signer, precheck |-> h, issuedAt |-> t,
                    expiresAt |-> Expiry(t, q.doc)]
    BY <1>2 DEF PrepareFinish, GateTypeOK
  <2>3. EligibleAt(h, q.doc) /\ t < Expiry(t, q.doc) /\ q.doc.bindings.issuedAt <= t
    BY <1>2 DEF PrepareFinish
  <2> HIDE DEF q, t
  <2>4. rows'[n].state = "ISSUED" /\ rows'[n].precheck = h /\ rows'[n].doc = q.doc
        /\ rows'[n].issuedAt = t /\ rows'[n].expiresAt = Expiry(t, q.doc)
    BY <2>2
  <2>5. IssueJustified(rows[n])'
    BY <2>1, <2>3, <2>4 DEF IssueJustified, EligibleAt, IsValidAt, Expiry, t
  <2> QED BY <2>4, <2>5
<1>3. ASSUME NEW r \in Requests, NEW h \in DOMAIN chain, ConsumeFinish(r, h),
             requests[r].nonce = n
      PROVE  IssueJustified(rows[n])' /\ UseJustified(rows[n])'
  <2> DEFINE q == requests[r]
             row == rows[n]
             t == chain[h].timestamp
  <2>1. /\ h \in 1..Len(chain) /\ t \in Nat /\ chain' = chain
        /\ q.phase = "CONSUME"
    BY <1>3, BlockShape DEF ConsumeFinish
  <2>2. rows'[n] = [state |-> "CONSUMED", doc |-> row.doc, tenant |-> row.tenant,
                    signer |-> row.signer, precheck |-> row.precheck,
                    issuedAt |-> row.issuedAt, expiresAt |-> row.expiresAt,
                    postcheck |-> h, authorizedAt |-> t, recovered |-> q.signer]
    BY <1>3 DEF ConsumeFinish, GateTypeOK
  <2>3. row.state = "ISSUED" /\ row = q.loaded /\ q.signer = q.loaded.signer
    BY <1>3, <2>1 DEF ConsumeFinish, StillConsumable, RequestsInv
  <2>4. EligibleAt(h, row.doc) /\ row.precheck <= h /\ t < row.expiresAt
    BY <1>3, <2>3 DEF ConsumeFinish
  <2>5. IssueJustified(row)
    BY <2>3 DEF RowsInv
  <2> HIDE DEF q, t, row
  <2>6. /\ rows'[n].doc = row.doc /\ rows'[n].precheck = row.precheck
        /\ rows'[n].issuedAt = row.issuedAt /\ rows'[n].expiresAt = row.expiresAt
        /\ rows'[n].signer = row.signer /\ rows'[n].recovered = q.signer
        /\ rows'[n].postcheck = h /\ rows'[n].authorizedAt = t
    BY <2>2
  <2>7. IssueJustified(rows[n])'
    <3>1. PICK after : after = rows'[n]
      OBVIOUS
    <3>2. IssueJustified(after)
      BY <2>5, <2>6, <3>1 DEF IssueJustified
    <3>3. IssueJustified(after)'
      BY <3>2, JustificationStays
    <3> QED BY <3>1, <3>3, JustificationHolds
  <2>8. UseJustified(rows[n])'
    BY <2>1, <2>3, <2>4, <2>6 DEF UseJustified, EligibleAt, IsValidAt, t
  <2> QED BY <2>7, <2>8
<1>4. ASSUME rows'[n] # rows[n]
      PROVE  \E r \in Requests, h \in DOMAIN chain :
                \/ PrepareFinish(r, h, n)
                \/ ConsumeFinish(r, h) /\ requests[r].nonce = n
  BY <1>4, RowWriters
<1> QED BY <1>1, <1>2, <1>3, <1>4

-----------------------------------------------------------------------------
(* Suspended consumers: the copy each holds is of a row that was ISSUED to *)
(* an allowed signer, and stays the row until someone consumes it.         *)
LEMMA RequestsStep ==
    ASSUME RegistryInv, GateTypeOK, RowsInv, RequestsInv, [Next]_vars
    PROVE  RequestsInv'
<1> DEFINE Holds(r) ==
        requests[r].phase = "CONSUME" =>
            /\ requests[r].loaded.signer \in policy
            /\ requests[r].signer = requests[r].loaded.signer
            /\ rows[requests[r].nonce].state # "NONE"
            /\ rows[requests[r].nonce].state = "ISSUED"
                  => rows[requests[r].nonce] = requests[r].loaded
<1> SUFFICES ASSUME NEW r \in Requests PROVE Holds(r)'
  BY DEF RequestsInv
<1>1. Holds(r)
  BY DEF RequestsInv
<1>2. ASSUME requests'[r] = requests[r], UNCHANGED <<rows, policy>>
      PROVE  Holds(r)'
  BY <1>1, <1>2
<1>3. ASSUME requests'[r].phase # "CONSUME" PROVE Holds(r)'
  BY <1>3
<1>4. CASE Transact
  BY <1>2, <1>4 DEF Transact, gateVars
<1>5. CASE SealBlock
  BY <1>2, <1>5 DEF SealBlock
<1>6. ASSUME NEW allowlist \in SUBSET Signers, Restart(allowlist)
      PROVE  Holds(r)'
  BY <1>3, <1>6 DEF Restart, Idle
<1>7. ASSUME NEW q \in Requests, NEW doc \in Documents,
             NEW tenant \in OrNone(Tenants), NEW signer \in Signers,
             PrepareStart(q, doc, tenant, signer)
      PROVE  Holds(r)'
  BY <1>2, <1>3, <1>7 DEF PrepareStart, GateTypeOK
<1>8. ASSUME NEW q \in Requests, NEW h \in DOMAIN chain, NEW n \in Nonces,
             PrepareFinish(q, h, n)
      PROVE  Holds(r)'
  <2>1. CASE q = r
    BY <1>3, <1>8, <2>1 DEF PrepareFinish, Idle, GateTypeOK
  <2>2. CASE q # r
    <3>1. requests'[r] = requests[r] /\ policy' = policy
      BY <1>8, <2>2 DEF PrepareFinish
    <3>2. ASSUME requests[r].phase = "CONSUME"
          PROVE  rows'[requests[r].nonce] = rows[requests[r].nonce]
      <4>1. rows[requests[r].nonce].state # "NONE"
        BY <1>1, <3>2
      <4>2. requests[r].nonce # n
        BY <1>8, <4>1 DEF PrepareFinish, NoRow
      <4> QED BY <1>8, <3>2, <4>2, RequestShape DEF PrepareFinish, GateTypeOK
    <3> QED BY <1>1, <3>1, <3>2
  <2> QED BY <2>1, <2>2
<1>9. ASSUME NEW q \in Requests, NEW n \in Nonces,
             NEW tenant \in OrNone(Tenants), NEW signer \in Signers,
             ConsumeStart(q, n, tenant, signer)
      PROVE  Holds(r)'
  <2>1. CASE q = r
    <3>1. requests'[r] = [phase |-> "CONSUME", nonce |-> n, tenant |-> tenant,
                          signer |-> signer, loaded |-> rows[n]]
      BY <1>9, <2>1 DEF ConsumeStart, GateTypeOK
    <3>2. /\ requests'[r].nonce = n /\ requests'[r].loaded = rows[n]
          /\ requests'[r].signer = signer
      BY <3>1
    <3> QED BY <1>9, <3>2 DEF ConsumeStart
  <2>2. CASE q # r
    BY <1>2, <1>9, <2>2 DEF ConsumeStart, GateTypeOK
  <2> QED BY <2>1, <2>2
<1>10. ASSUME NEW q \in Requests, NEW h \in DOMAIN chain, ConsumeFinish(q, h)
       PROVE  Holds(r)'
  <2>1. CASE q = r
    BY <1>3, <1>10, <2>1 DEF ConsumeFinish, GateTypeOK
  <2>2. CASE q # r
    <3>1. requests'[r] = requests[r] /\ policy' = policy
      BY <1>10, <2>2 DEF ConsumeFinish
    <3>2. \A m \in Nonces : \/ rows'[m] = rows[m]
                            \/ rows'[m].state = "CONSUMED"
      BY <1>10 DEF ConsumeFinish, GateTypeOK
    <3>3. requests[r].phase = "CONSUME" => requests[r].nonce \in Nonces
      BY RequestShape
    <3> QED BY <1>1, <3>1, <3>2, <3>3
  <2> QED BY <2>1, <2>2
<1>11. ASSUME NEW q \in Requests, Fail(q) PROVE Holds(r)'
  BY <1>2, <1>3, <1>11 DEF Fail, Idle, GateTypeOK
<1>12. ASSUME NEW q \in Requests, Answer(q) PROVE Holds(r)'
  BY <1>2, <1>3, <1>12 DEF Answer, Idle, GateTypeOK
<1>13. CASE UNCHANGED vars
  BY <1>2, <1>13 DEF vars, gateVars
<1> QED BY <1>4, <1>5, <1>6, <1>7, <1>8, <1>9, <1>10, <1>11, <1>12, <1>13 DEF Next

-----------------------------------------------------------------------------
(* Answers.  Only ConsumeFinish puts an answer on its way, and it needs an *)
(* ISSUED row, for which no answer exists yet.                             *)
LEMMA ConsumedStays ==
    ASSUME GateTypeOK, [Next]_vars, NEW n \in Nonces, rows[n].state = "CONSUMED"
    PROVE  rows'[n] = rows[n]
<1>1. ASSUME NEW r \in Requests, NEW h \in DOMAIN chain, NEW m \in Nonces,
             PrepareFinish(r, h, m)
      PROVE  rows'[n] = rows[n]
  BY <1>1 DEF PrepareFinish, NoRow, GateTypeOK
<1>2. ASSUME NEW r \in Requests, NEW h \in DOMAIN chain, ConsumeFinish(r, h)
      PROVE  rows'[n] = rows[n]
  BY <1>2 DEF ConsumeFinish, StillConsumable, GateTypeOK
<1> QED BY <1>1, <1>2 DEF Next, vars, gateVars, Transact, SealBlock, Restart,
           PrepareStart, ConsumeStart, Fail, Answer

LEMMA AnswersStep ==
    ASSUME GateTypeOK, AtMostOneAnswer, [Next]_vars
    PROVE  AtMostOneAnswer'
<1> DEFINE OK(n) ==
        /\ answers[n] \in {0, 1}
        /\ answers[n] = 1 => rows[n].state = "CONSUMED" /\ InFlightAnswers(n) = {}
        /\ \A r, q \in InFlightAnswers(n) : r = q
        /\ InFlightAnswers(n) # {} => rows[n].state = "CONSUMED"
<1> SUFFICES ASSUME NEW n \in Nonces PROVE OK(n)'
  BY DEF AtMostOneAnswer
<1>1. OK(n)
  BY DEF AtMostOneAnswer
<1>2. rows[n].state = "CONSUMED" => rows'[n].state = "CONSUMED"
  BY ConsumedStays
<1>3. ASSUME answers'[n] = answers[n],
             \A r \in Requests : requests'[r].phase = "ANSWER" => requests'[r] = requests[r]
      PROVE  OK(n)'
  <2>1. InFlightAnswers(n)' \subseteq InFlightAnswers(n)
    BY <1>3 DEF InFlightAnswers
  <2> HIDE DEF InFlightAnswers
  <2> QED BY <1>1, <1>2, <1>3, <2>1
<1>4. ASSUME NEW r \in Requests, NEW h \in DOMAIN chain, ConsumeFinish(r, h)
      PROVE  OK(n)'
  <2>1. requests[r].nonce \in Nonces /\ answers' = answers
    BY <1>4, RequestShape DEF ConsumeFinish
  <2>2. /\ requests'[r] = [phase |-> "ANSWER", nonce |-> requests[r].nonce]
        /\ \A q \in Requests \ {r} : requests'[q] = requests[q]
    BY <1>4 DEF ConsumeFinish, GateTypeOK
  <2>3. CASE requests[r].nonce = n
    <3>1. rows[n].state = "ISSUED" /\ rows'[n].state = "CONSUMED"
      BY <1>4, <2>1, <2>3 DEF ConsumeFinish, StillConsumable, GateTypeOK
    <3>2. answers[n] = 0 /\ InFlightAnswers(n) = {}
      BY <1>1, <3>1
    <3>3. InFlightAnswers(n)' \subseteq {r}
      BY <2>2, <3>2 DEF InFlightAnswers
    <3> QED BY <2>1, <3>1, <3>2, <3>3
  <2>4. CASE requests[r].nonce # n
    <3>1. requests'[r].nonce # n
      BY <2>2, <2>4
    <3>2. InFlightAnswers(n)' \subseteq InFlightAnswers(n)
      BY <2>2, <3>1 DEF InFlightAnswers
    <3> QED BY <1>1, <1>2, <2>1, <3>2
  <2> QED BY <2>3, <2>4
<1>5. ASSUME NEW r \in Requests, Answer(r)
      PROVE  OK(n)'
  <2>1. requests[r].nonce \in Nonces /\ r \in InFlightAnswers(requests[r].nonce)
    BY <1>5, RequestShape DEF Answer, InFlightAnswers
  <2>2. /\ requests'[r].phase = "IDLE"
        /\ \A q \in Requests \ {r} : requests'[q] = requests[q]
    BY <1>5 DEF Answer, Idle, GateTypeOK
  <2>3. InFlightAnswers(n)' = InFlightAnswers(n) \ {r}
    BY <2>2 DEF InFlightAnswers
  <2>4. CASE requests[r].nonce = n
    <3>1. /\ answers[n] = 0 /\ InFlightAnswers(n) = {r}
          /\ rows[n].state = "CONSUMED"
      BY <1>1, <2>1, <2>4
    <3>2. answers'[n] = 1
      BY <1>5, <2>4, <3>1 DEF Answer, GateTypeOK
    <3> QED BY <1>2, <2>3, <3>1, <3>2
  <2>5. CASE requests[r].nonce # n
    <3>1. answers'[n] = answers[n]
      BY <1>5, <2>1, <2>5 DEF Answer, GateTypeOK
    <3>2. InFlightAnswers(n)' \subseteq InFlightAnswers(n)
      BY <2>3
    <3> QED BY <1>1, <1>2, <3>1, <3>2
  <2> QED BY <2>4, <2>5
<1>6. ASSUME NEW allowlist \in SUBSET Signers, Restart(allowlist) PROVE OK(n)'
  BY <1>3, <1>6 DEF Restart, Idle
<1>7. ASSUME NEW r \in Requests, NEW doc \in Documents,
             NEW tenant \in OrNone(Tenants), NEW signer \in Signers,
             PrepareStart(r, doc, tenant, signer)
      PROVE  OK(n)'
  BY <1>3, <1>7 DEF PrepareStart, GateTypeOK
<1>8. ASSUME NEW r \in Requests, NEW h \in DOMAIN chain, NEW m \in Nonces,
             PrepareFinish(r, h, m)
      PROVE  OK(n)'
  BY <1>3, <1>8 DEF PrepareFinish, Idle, GateTypeOK
<1>9. ASSUME NEW r \in Requests, NEW m \in Nonces,
             NEW tenant \in OrNone(Tenants), NEW signer \in Signers,
             ConsumeStart(r, m, tenant, signer)
      PROVE  OK(n)'
  BY <1>3, <1>9 DEF ConsumeStart, GateTypeOK
<1>10. ASSUME NEW r \in Requests, Fail(r) PROVE OK(n)'
  BY <1>3, <1>10 DEF Fail, Idle, GateTypeOK
<1>11. CASE Transact \/ SealBlock \/ UNCHANGED vars
  BY <1>3, <1>11 DEF Transact, SealBlock, vars, gateVars
<1> QED BY <1>4, <1>5, <1>6, <1>7, <1>8, <1>9, <1>10, <1>11 DEF Next

-----------------------------------------------------------------------------
LEMMA GateInit == Init => GateInv
<1> SUFFICES ASSUME Init PROVE GateInv
  OBVIOUS
<1>1. RegistryInv
  BY InitInv DEF Init
<1>2. GateTypeOK
  BY <1>1 DEF Init, GateTypeOK, RegistryInv, Request
<1>3. ChainInv
  BY DEF Init, ChainInv
<1>4. RowsInv
  BY DEF Init, RowsInv, NoRow
<1>5. RequestsInv
  BY DEF Init, RequestsInv, Idle
<1>6. AtMostOneAnswer
  BY DEF Init, AtMostOneAnswer, InFlightAnswers, Idle
<1> QED BY <1>1, <1>2, <1>3, <1>4, <1>5, <1>6 DEF GateInv

LEMMA GateStep == GateInv /\ [Next]_vars => GateInv'
BY RegistryPart, TypeStep, ChainStep, RowsStep, RequestsStep, AnswersStep DEF GateInv

(* The invariant of the whole gate: registry, chain, rows, suspended       *)
(* handlers and answers, in every reachable state.                         *)
THEOREM GateInvariant == Spec => []GateInv
BY GateInit, GateStep, PTL DEF Spec

(* Types of the gate and the registry below it.                            *)
THEOREM GateTypes == Spec => []GateTypeOK
<1>1. GateInv => GateTypeOK
  BY DEF GateInv
<1> QED BY <1>1, GateInvariant, PTL

(* No interleaving of consumers, lost answers, retries and restarts gives  *)
(* two callers an authorization for one nonce.                             *)
THEOREM NonceIsSingleUse == Spec => []AtMostOneAnswer
<1>1. GateInv => AtMostOneAnswer
  BY DEF GateInv
<1> QED BY <1>1, GateInvariant, PTL

-----------------------------------------------------------------------------
(* Two eligible reads bracket eligibility: between two blocks that show a  *)
(* document eligible, every block does, because blocks keep what earlier   *)
(* ones record and a revocation would still show in the later one.         *)
LEMMA EligibleBetween ==
    ASSUME GateTypeOK, ChainInv, NEW doc \in Documents,
           NEW g \in 1..Len(chain), NEW k \in 1..Len(chain), NEW h \in 1..Len(chain),
           g <= h, h <= k, EligibleAt(g, doc), EligibleAt(k, doc)
    PROVE  EligibleAt(h, doc)
<1> DEFINE d == doc.digest
<1>1. d \in OrZero(Digests) /\ doc.bindings.expiresAt \in Nat
  BY DocumentShape
<1>2. /\ chain[g].clearances[d].status = "RECORDED"
      /\ chain[g].clearances[d].verdict = "CLEAR"
      /\ chain[g].clearances[d].bindings = doc.bindings
  BY DEF EligibleAt, IsValidAt
<1>3. Keeps(chain[g], chain[h]) /\ Keeps(chain[h], chain[k])
  BY DEF ChainInv
<1>4. /\ chain[h].clearances[d].bindings = doc.bindings
      /\ chain[h].clearances[d].verdict = "CLEAR"
      /\ chain[h].clearances[d].status \in {"RECORDED", "REVOKED"}
      /\ chain[h].digestByIdHash[doc.bindings.id] = d
  <2>1. PICK before, after : before = chain[g] /\ after = chain[h]
    OBVIOUS
  <2>2. /\ before.clearances[d].status = "RECORDED" /\ before.clearances[d].verdict = "CLEAR"
        /\ before.clearances[d].bindings = doc.bindings /\ Keeps(before, after)
    BY <1>2, <1>3, <2>1
  <2>3. /\ after.clearances[d].bindings = doc.bindings
        /\ after.clearances[d].verdict = "CLEAR"
        /\ after.clearances[d].status \in {"RECORDED", "REVOKED"}
        /\ after.digestByIdHash[doc.bindings.id] = d
    BY <1>1, <2>2 DEF Keeps
  <2> QED BY <2>1, <2>3
<1>5. chain[h].clearances[d].status # "REVOKED"
  <2> SUFFICES ASSUME chain[h].clearances[d].status = "REVOKED" PROVE FALSE
    OBVIOUS
  <2>1. chain[k].clearances[d].status = "REVOKED"
    BY <1>1, <1>3 DEF Keeps
  <2> QED BY <2>1 DEF EligibleAt, IsValidAt
<1>6. chain[h].timestamp < doc.bindings.expiresAt
  <2>1. chain[h].timestamp <= chain[k].timestamp
    BY <1>3 DEF Keeps
  <2>2. chain[k].timestamp < doc.bindings.expiresAt
    BY DEF EligibleAt, IsValidAt
  <2>3. chain[h].timestamp \in Nat /\ chain[k].timestamp \in Nat
    <3>1. DOMAIN chain = 1..Len(chain)
      BY DEF GateTypeOK
    <3> QED BY <3>1, BlockShape
  <2> QED BY <1>1, <2>1, <2>2, <2>3
<1> QED BY <1>4, <1>5, <1>6 DEF EligibleAt, IsValidAt

(* A consumed nonce's clearance was valid in every block from its precheck *)
(* to its postcheck, whatever the registry and the readers did meanwhile.  *)
THEOREM AuthorizationsAreBacked == Spec => []ValidThroughout
<1>1. GateInv => ValidThroughout
  <2> SUFFICES ASSUME GateInv, NEW n \in Nonces, rows[n].state = "CONSUMED"
               PROVE  /\ rows[n].precheck \in DOMAIN chain
                      /\ rows[n].postcheck \in DOMAIN chain
                      /\ rows[n].precheck <= rows[n].postcheck
                      /\ \A h \in rows[n].precheck..rows[n].postcheck :
                            EligibleAt(h, rows[n].doc)
    BY DEF ValidThroughout
  <2>1. IssueJustified(rows[n]) /\ UseJustified(rows[n])
    BY DEF GateInv, RowsInv
  <2>2. DOMAIN chain = 1..Len(chain) /\ Len(chain) \in Nat
    BY DEF GateInv, GateTypeOK
  <2>3. rows[n].doc \in Documents
    BY RowShape DEF GateInv
  <2>4. /\ rows[n].precheck \in 1..Len(chain) /\ rows[n].postcheck \in 1..Len(chain)
        /\ rows[n].precheck <= rows[n].postcheck
        /\ EligibleAt(rows[n].precheck, rows[n].doc)
        /\ EligibleAt(rows[n].postcheck, rows[n].doc)
    BY <2>1 DEF IssueJustified, UseJustified
  <2>5. ASSUME NEW h \in rows[n].precheck..rows[n].postcheck
        PROVE  EligibleAt(h, rows[n].doc)
    <3>1. /\ h \in 1..Len(chain) /\ rows[n].precheck <= h /\ h <= rows[n].postcheck
      BY <2>2, <2>4
    <3> QED BY <2>3, <2>4, <3>1, EligibleBetween DEF GateInv
  <2> QED BY <2>2, <2>4, <2>5
<1> QED BY <1>1, GateInvariant, PTL

(* Intents and authorizations stay inside the clearance window and TTL.    *)
THEOREM IntentsStayInWindow == Spec => []WithinWindow
<1>1. GateInv => WithinWindow
  <2> SUFFICES ASSUME GateInv, NEW n \in Nonces
               PROVE  /\ rows[n].state # "NONE" =>
                           /\ rows[n].doc.bindings.issuedAt <= rows[n].issuedAt
                           /\ rows[n].issuedAt < rows[n].expiresAt
                           /\ rows[n].expiresAt <= rows[n].doc.bindings.expiresAt
                           /\ rows[n].expiresAt <= rows[n].issuedAt + Ttl
                      /\ rows[n].state = "CONSUMED" =>
                           /\ rows[n].issuedAt <= rows[n].authorizedAt
                           /\ rows[n].authorizedAt < rows[n].expiresAt
                           /\ rows[n].recovered = rows[n].signer
    BY DEF WithinWindow
  <2>1. ASSUME rows[n].state # "NONE"
        PROVE  /\ rows[n].doc.bindings.issuedAt <= rows[n].issuedAt
               /\ rows[n].issuedAt < rows[n].expiresAt
               /\ rows[n].expiresAt <= rows[n].doc.bindings.expiresAt
               /\ rows[n].expiresAt <= rows[n].issuedAt + Ttl
    <3>1. IssueJustified(rows[n])
      BY <2>1 DEF GateInv, RowsInv
    <3>2. rows[n].doc \in Documents /\ rows[n].issuedAt \in Nat
      BY <2>1, RowShape DEF GateInv
    <3> DEFINE e == Expiry(rows[n].issuedAt, rows[n].doc)
    <3>3. e <= rows[n].issuedAt + Ttl /\ e <= rows[n].doc.bindings.expiresAt
      BY <3>2, ExpiryBounds
    <3>4. rows[n].expiresAt = e
      BY <3>1 DEF IssueJustified
    <3> HIDE DEF e
    <3> QED BY <3>1, <3>3, <3>4 DEF IssueJustified
  <2>2. ASSUME rows[n].state = "CONSUMED"
        PROVE  /\ rows[n].issuedAt <= rows[n].authorizedAt
               /\ rows[n].authorizedAt < rows[n].expiresAt
               /\ rows[n].recovered = rows[n].signer
    <3>1. IssueJustified(rows[n]) /\ UseJustified(rows[n])
      BY <2>2 DEF GateInv, RowsInv
    <3>2. Keeps(chain[rows[n].precheck], chain[rows[n].postcheck])
      BY <3>1 DEF GateInv, ChainInv, IssueJustified, UseJustified
    <3> QED BY <3>1, <3>2 DEF IssueJustified, UseJustified, Keeps
  <2> QED BY <2>1, <2>2
<1> QED BY <1>1, GateInvariant, PTL

(* Consumption honours the allowlist of the process that consumes.         *)
THEOREM ConsumersAreAllowed == Spec => PolicyIsCurrent
<1>1. ASSUME GateInv, Next, NEW n \in Nonces,
             rows[n].state = "ISSUED", rows'[n].state = "CONSUMED"
      PROVE  rows[n].signer \in policy
  <2>1. PICK r \in Requests, h \in DOMAIN chain :
           \/ PrepareFinish(r, h, n)
           \/ ConsumeFinish(r, h) /\ requests[r].nonce = n
    BY <1>1, RowWriters DEF GateInv
  <2>2. ~PrepareFinish(r, h, n)
    BY <1>1 DEF PrepareFinish, NoRow
  <2>3. requests[r].phase = "CONSUME" /\ requests[r].nonce = n
    BY <2>1, <2>2 DEF ConsumeFinish
  <2> QED BY <1>1, <2>3 DEF GateInv, RequestsInv
<1>2. GateInv /\ [Next]_vars =>
         [\A n \in Nonces :
             rows[n].state = "ISSUED" /\ rows'[n].state = "CONSUMED"
                 => rows[n].signer \in policy]_vars
  BY <1>1
<1> QED BY <1>2, GateInvariant, PTL DEF Spec, PolicyIsCurrent

-----------------------------------------------------------------------------
(* Refinement: under the mapping of ReleaseGate every step of the gate is  *)
(* a step of ReleasePermit or leaves its variables alone.                  *)
LEMMA PermitInitially == Init => Permit!PermitInit
<1> SUFFICES ASSUME Init PROVE Permit!PermitInit
  OBVIOUS
<1>1. \A n \in Nonces : RowTerms(rows[n]) = NoRow /\ rows[n].state # "CONSUMED"
  BY DEF Init, RowTerms, NoRow
<1>2. answers = [n \in Nonces |-> 0]
  BY DEF Init
<1> QED BY <1>1, <1>2 DEF Permit!PermitInit

LEMMA PermitStep == GateInv /\ [Next]_vars => [Permit!PermitNext]_(Permit!permitVars)
<1> DEFINE used == {n \in Nonces : rows[n].state = "CONSUMED"}
<1> SUFFICES ASSUME GateInv, [Next]_vars
             PROVE  [Permit!PermitNext]_(Permit!permitVars)
  OBVIOUS
<1>1. ASSUME UNCHANGED <<rows, answers>>
      PROVE  UNCHANGED Permit!permitVars
  BY <1>1 DEF Permit!permitVars
<1>2. ASSUME NEW r \in Requests, NEW h \in DOMAIN chain, NEW n \in Nonces,
             PrepareFinish(r, h, n)
      PROVE  Permit!Issue(n)
  <2>1. rows[n] = NoRow /\ rows'[n].state = "ISSUED" /\ UNCHANGED answers
    BY <1>2 DEF PrepareFinish, GateInv, GateTypeOK
  <2>2. \A m \in Nonces \ {n} : rows'[m] = rows[m]
    BY <1>2 DEF PrepareFinish, GateInv, GateTypeOK
  <2>3. RowTerms(rows[n]) = NoRow /\ RowTerms(rows'[n]) # NoRow
    BY <2>1 DEF RowTerms, NoRow
  <2>4. [m \in Nonces |-> RowTerms(rows'[m])] =
           [[m \in Nonces |-> RowTerms(rows[m])] EXCEPT ![n] = RowTerms(rows'[n])]
    BY <2>2
  <2>5. {m \in Nonces : rows'[m].state = "CONSUMED"} = used
    BY <2>1, <2>2 DEF NoRow
  <2> QED BY <2>1, <2>3, <2>4, <2>5 DEF Permit!Issue
<1>3. ASSUME NEW r \in Requests, NEW h \in DOMAIN chain, ConsumeFinish(r, h),
             NEW n \in Nonces, n = requests[r].nonce
      PROVE  Permit!Use(n)
  <2>1. UNCHANGED answers
    BY <1>3 DEF ConsumeFinish
  <2>2. /\ rows[n].state = "ISSUED" /\ rows'[n].state = "CONSUMED"
        /\ rows'[n].doc = rows[n].doc /\ rows'[n].tenant = rows[n].tenant
        /\ rows'[n].signer = rows[n].signer /\ rows'[n].precheck = rows[n].precheck
        /\ rows'[n].issuedAt = rows[n].issuedAt /\ rows'[n].expiresAt = rows[n].expiresAt
    BY <1>3 DEF ConsumeFinish, StillConsumable, GateInv, GateTypeOK
  <2>3. \A m \in Nonces \ {n} : rows'[m] = rows[m]
    BY <1>3 DEF ConsumeFinish, GateInv, GateTypeOK
  <2>4. RowTerms(rows'[n]) = RowTerms(rows[n]) /\ RowTerms(rows[n]) # NoRow
    BY <2>2 DEF RowTerms, NoRow
  <2>5. [m \in Nonces |-> RowTerms(rows'[m])] = [m \in Nonces |-> RowTerms(rows[m])]
    BY <2>3, <2>4
  <2>6. {m \in Nonces : rows'[m].state = "CONSUMED"} = used \cup {n} /\ n \notin used
    BY <2>2, <2>3
  <2> QED BY <2>1, <2>4, <2>5, <2>6 DEF Permit!Use
<1>4. ASSUME NEW r \in Requests, Answer(r), NEW n \in Nonces, n = requests[r].nonce
      PROVE  Permit!Answer(n)
  <2>1. r \in InFlightAnswers(n)
    BY <1>4 DEF Answer, InFlightAnswers
  <2>2. answers[n] = 0 /\ rows[n].state = "CONSUMED"
    BY <2>1 DEF GateInv, AtMostOneAnswer
  <2>3. answers' = [answers EXCEPT ![n] = 1] /\ UNCHANGED rows
    BY <1>4, <2>2 DEF Answer
  <2>4. n \in used
    BY <2>2
  <2> QED BY <2>2, <2>3, <2>4 DEF Permit!Answer
<1>5. \A r \in Requests : requests[r].phase \in {"CONSUME", "ANSWER"}
                             => requests[r].nonce \in Nonces
  BY RequestShape DEF GateInv
<1>6. CASE \E r \in Requests, h \in DOMAIN chain, n \in Nonces : PrepareFinish(r, h, n)
  BY <1>2, <1>6 DEF Permit!PermitNext
<1>7. CASE \E r \in Requests, h \in DOMAIN chain : ConsumeFinish(r, h)
  <2>1. PICK r \in Requests, h \in DOMAIN chain : ConsumeFinish(r, h)
    BY <1>7
  <2>2. PICK n \in Nonces : n = requests[r].nonce
    BY <1>5, <2>1 DEF ConsumeFinish
  <2> QED BY <1>3, <2>1, <2>2 DEF Permit!PermitNext
<1>8. CASE \E r \in Requests : Answer(r)
  <2>1. PICK r \in Requests : Answer(r)
    BY <1>8
  <2>2. PICK n \in Nonces : n = requests[r].nonce
    BY <1>5, <2>1 DEF Answer
  <2> QED BY <1>4, <2>1, <2>2 DEF Permit!PermitNext
<1>9. CASE UNCHANGED <<rows, answers>>
  BY <1>1, <1>9
<1>10. \/ \E r \in Requests, h \in DOMAIN chain, n \in Nonces : PrepareFinish(r, h, n)
       \/ \E r \in Requests, h \in DOMAIN chain : ConsumeFinish(r, h)
       \/ \E r \in Requests : Answer(r)
       \/ UNCHANGED <<rows, answers>>
  BY DEF Next, vars, gateVars, Transact, SealBlock, Restart, PrepareStart, ConsumeStart, Fail
<1> QED BY <1>6, <1>7, <1>8, <1>9, <1>10

(* The gate implements a one-shot permit per nonce.                        *)
THEOREM GateImplementsPermits == Spec => OneShotPermits
BY PermitInitially, PermitStep, GateInvariant, PTL
   DEF Spec, OneShotPermits, Permit!PermitSpec
==============================================================================
