------------------------------ MODULE Registry ------------------------------
(***************************************************************************)
(* The clearance registry contract, contracts/src/RovaultaRegistry.sol.    *)
(* A transaction is one step; a transaction that reverts changes nothing,  *)
(* so a revert condition is a missing guard's negation.  Transactions that *)
(* fall between two MineBlock steps share a block and its timestamp.       *)
(*                                                                         *)
(* Of the twelve attested bindings four are told apart: the clearance-id   *)
(* hash, the two timestamps, and everything else as one opaque content.    *)
(***************************************************************************)
EXTENDS Naturals

CONSTANTS
    Accounts,              \* addresses that send transactions
    Owner,                 \* the immutable owner address
    Digests,               \* nonzero clearance digests
    Ids,                   \* nonzero clearance-id hashes
    Contents,              \* nonzero values of the remaining ten bindings
    Zero,                  \* bytes32(0) and address(0): Solidity's default
    Calldata,              \* the bindings a registrar may submit
    MaxProtocolTimestamp,  \* last second of the year 9999 in the source
    MaxTime                \* bound of the model: the last block timestamp

OrZero(S) == S \cup {Zero}

Bindings == [id        : OrZero(Ids),
             content   : OrZero(Contents),
             issuedAt  : Nat,
             expiresAt : Nat]

ASSUME RegistryAssumption ==
    /\ Owner \in Accounts
    /\ Zero \notin Accounts \cup Digests \cup Ids \cup Contents
    /\ Calldata \subseteq Bindings
    /\ MaxProtocolTimestamp \in Nat
    /\ MaxTime \in Nat

Verdicts == {"NONE", "CLEAR", "REJECT"}

\* exists and revoked of the Solidity struct, as one status.
Clearance == [bindings : Bindings,
              verdict  : Verdicts,
              issuer   : OrZero(Accounts),
              status   : {"ABSENT", "RECORDED", "REVOKED"}]

\* What an unwritten slot of the clearances mapping reads as.
BlankClearance ==
    [bindings |-> [id |-> Zero, content |-> Zero, issuedAt |-> 0, expiresAt |-> 0],
     verdict  |-> "NONE",
     issuer   |-> Zero,
     status   |-> "ABSENT"]

VARIABLES
    now,           \* block.timestamp of the block being built
    registrars,    \* addresses that may record clearances
    clearances,    \* digest -> clearance
    digestByIdHash \* clearance-id hash -> digest, Zero when unused

registryVars == <<now, registrars, clearances, digestByIdHash>>

RegistryTypeOK ==
    /\ now \in Nat
    /\ registrars \in SUBSET Accounts
    /\ clearances \in [OrZero(Digests) -> Clearance]
    /\ digestByIdHash \in [OrZero(Ids) -> OrZero(Digests)]

-----------------------------------------------------------------------------
Exists(d) == clearances[d].status # "ABSENT"

\* _isValid at an explicit timestamp, so that a past block can be asked too.
IsValidAt(c, timestamp) ==
    /\ c.status = "RECORDED"
    /\ c.verdict = "CLEAR"
    /\ timestamp < c.bindings.expiresAt

IsClearanceValid(d) == IsValidAt(clearances[d], now)

\* Mutant: an attestation may be dated after the block.
ValidInputPostdated(digest, b, verdict) ==
    /\ digest # Zero /\ b.id # Zero /\ b.content # Zero
    /\ verdict = "CLEAR"
    /\ b.expiresAt <= MaxProtocolTimestamp
    /\ b.issuedAt < b.expiresAt /\ now < b.expiresAt

\* _validateInput: every binding nonzero, verdict CLEAR, a live window.
ValidInput(digest, b, verdict) ==
    /\ digest # Zero
    /\ b.id # Zero
    /\ b.content # Zero
    /\ verdict = "CLEAR"
    /\ b.issuedAt <= MaxProtocolTimestamp
    /\ b.expiresAt <= MaxProtocolTimestamp
    /\ b.issuedAt <= now
    /\ b.issuedAt < b.expiresAt
    /\ now < b.expiresAt

-----------------------------------------------------------------------------
\* The constructor: the owner is the first registrar.
RegistryInit ==
    /\ now = 0
    /\ registrars = {Owner}
    /\ clearances = [d \in OrZero(Digests) |-> BlankClearance]
    /\ digestByIdHash = [i \in OrZero(Ids) |-> Zero]

SetRegistrar(sender, registrar, authorized) ==
    /\ sender = Owner
    /\ registrar # Zero
    /\ authorized # (registrar \in registrars)
    /\ registrars' = IF authorized THEN registrars \cup {registrar}
                                   ELSE registrars \ {registrar}
    /\ UNCHANGED <<now, clearances, digestByIdHash>>

\* Mutant: the clearance id is not reserved.
RecordUnreserved(sender, digest, b, verdict) ==
    /\ sender \in registrars
    /\ ValidInput(digest, b, verdict)
    /\ ~Exists(digest)
    /\ clearances' = [clearances EXCEPT ![digest] =
          [bindings |-> b, verdict |-> verdict, issuer |-> sender, status |-> "RECORDED"]]
    /\ digestByIdHash' = [digestByIdHash EXCEPT ![b.id] = digest]
    /\ UNCHANGED <<now, registrars>>

\* Mutant: the digest is not reserved.
RecordOverwriting(sender, digest, b, verdict) ==
    /\ sender \in registrars
    /\ ValidInput(digest, b, verdict)
    /\ digestByIdHash[b.id] = Zero
    /\ clearances' = [clearances EXCEPT ![digest] =
          [bindings |-> b, verdict |-> verdict, issuer |-> sender, status |-> "RECORDED"]]
    /\ digestByIdHash' = [digestByIdHash EXCEPT ![b.id] = digest]
    /\ UNCHANGED <<now, registrars>>

RecordClearance(sender, digest, b, verdict) ==
    /\ sender \in registrars
    /\ ValidInput(digest, b, verdict)
    /\ ~Exists(digest)
    /\ digestByIdHash[b.id] = Zero
    /\ clearances' = [clearances EXCEPT ![digest] =
          [bindings |-> b, verdict |-> verdict, issuer |-> sender, status |-> "RECORDED"]]
    /\ digestByIdHash' = [digestByIdHash EXCEPT ![b.id] = digest]
    /\ UNCHANGED <<now, registrars>>

RevokeClearance(sender, digest) ==
    /\ Exists(digest)
    /\ sender \in {Owner, clearances[digest].issuer}
    /\ clearances[digest].status # "REVOKED"
    /\ clearances' = [clearances EXCEPT ![digest].status = "REVOKED"]
    /\ UNCHANGED <<now, registrars, digestByIdHash>>

MineBlock ==
    /\ now < MaxTime
    /\ now' = now + 1
    /\ UNCHANGED <<registrars, clearances, digestByIdHash>>

Transaction ==
    \E sender \in Accounts :
        \/ \E registrar \in OrZero(Accounts), authorized \in BOOLEAN :
              SetRegistrar(sender, registrar, authorized)
        \/ \E digest \in OrZero(Digests), b \in Calldata, verdict \in {"CLEAR", "REJECT"} :
              RecordClearance(sender, digest, b, verdict)
        \/ \E digest \in OrZero(Digests) : RevokeClearance(sender, digest)

RegistryNext == Transaction \/ MineBlock

RegistrySpec == RegistryInit /\ [][RegistryNext]_registryVars

-----------------------------------------------------------------------------
(* An id hash that is used points at the one recorded clearance carrying   *)
(* it, and the reverse: the reservation recordClearance makes of both keys *)
(* (the inductive half of OneClearancePerId).                              *)
IdIndexAgrees ==
    /\ \A d \in OrZero(Digests) :
          Exists(d) => d # Zero /\ digestByIdHash[clearances[d].bindings.id] = d
    /\ \A i \in OrZero(Ids) :
          digestByIdHash[i] # Zero =>
              /\ Exists(digestByIdHash[i])
              /\ clearances[digestByIdHash[i]].bindings.id = i

(* Two recorded clearances never share a clearance id, whatever order      *)
(* registrars record, are removed and revoke in: recordClearance reserves  *)
(* both the digest and the id hash for good.                               *)
OneClearancePerId ==
    \A d, e \in OrZero(Digests) :
        /\ Exists(d) /\ Exists(e)
        /\ clearances[d].bindings.id = clearances[e].bindings.id
        => d = e

(* A clearance the registry calls valid is one a registrar attested CLEAR  *)
(* with no zero binding, and the current block lies inside its window.     *)
ValidMeansAttested ==
    \A d \in OrZero(Digests) :
        IsClearanceValid(d) =>
            LET c == clearances[d]
            IN  /\ c.issuer # Zero
                /\ c.bindings.id # Zero /\ c.bindings.content # Zero
                /\ c.bindings.issuedAt <= now /\ now < c.bindings.expiresAt
                /\ c.bindings.expiresAt <= MaxProtocolTimestamp

(* Once a recorded clearance is not valid, because it was revoked or has   *)
(* expired, no later transaction or block makes it valid again.            *)
NeverRevalidates ==
    [][\A d \in OrZero(Digests) :
          Exists(d) /\ ~IsClearanceValid(d) => ~IsClearanceValid(d)']_registryVars

(* What was recorded stays recorded: no later transaction changes the      *)
(* bindings, verdict or issuer of a clearance, erases it, or repoints its  *)
(* id hash.                                                                *)
RecordsAreImmutable ==
    [][\A d \in OrZero(Digests) :
          Exists(d) =>
              /\ Exists(d)'
              /\ clearances'[d].bindings = clearances[d].bindings
              /\ clearances'[d].verdict = clearances[d].verdict
              /\ clearances'[d].issuer = clearances[d].issuer
              /\ digestByIdHash'[clearances[d].bindings.id] = d]_registryVars
=============================================================================
