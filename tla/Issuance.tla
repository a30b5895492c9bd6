------------------------------- MODULE Issuance -------------------------------
(***************************************************************************)
(* Issuing a clearance: the operator's script that turns a stored CLEAR    *)
(* evaluation into a record of the registry and a clearance document       *)
(* (apps/api/scripts/record-sepolia-clearance.ts, application/clearance.ts), *)
(* beside the server that makes evaluations and over the contract.         *)
(*                                                                         *)
(* A run of the script is split at its awaits.  A transaction it has sent  *)
(* lives on when the run fails or is stopped.  A clearance stands for its  *)
(* own digest, since the digest covers every one of its fields.            *)
(***************************************************************************)
EXTENDS Evaluations

CONSTANTS
    Scripts,       \* runs of the script
    ClearanceIds,  \* ROVAULTA_CLEARANCE_ID of those runs
    Registrar,     \* the address of the key the operator signs with; the owner
    Zero,
    Ttl,           \* ROVAULTA_CLEARANCE_TTL_SECONDS
    MaxTime        \* bound of the model: the last block timestamp

ASSUME IssuanceAssumption == Ttl \in Nat \ {0} /\ MaxTime \in Nat

VARIABLES
    now, registrars, clearances, digestByIdHash,  \* the contract
    scripts,       \* locals of a run
    transactions,  \* what became of the transaction a run sent
    output         \* the file at the output path

contractVars == <<now, registrars, clearances, digestByIdHash>>
issuanceVars == <<contractVars, scripts, transactions, output>>

\* The bindings of a clearance besides its id and window.
Subjects == [evaluation : EvaluationIds, build : Builds, digest : AnyDigest]

\* createClearanceRecordFromEvaluation
ClearanceOf(id, subject, timestamp) ==
    [id |-> id, content |-> subject, issuedAt |-> timestamp, expiresAt |-> timestamp + Ttl]

Drafts == {ClearanceOf(id, subject, t) : id \in ClearanceIds, subject \in Subjects, t \in 0..MaxTime}

Contract == INSTANCE Registry WITH
    Accounts <- {Registrar},
    Owner    <- Registrar,
    Digests  <- Drafts,
    Ids      <- ClearanceIds,
    Contents <- Subjects,
    Calldata <- Drafts,
    MaxProtocolTimestamp <- MaxTime + Ttl

Phases == {"IDLE", "CHECKED", "BUILT", "SENT", "MINED", "CONFIRMED", "BLOCKED"}

NoFile == [id |-> Zero]

-----------------------------------------------------------------------------
Goto(o, phase) == scripts' = [scripts EXCEPT ![o].phase = phase]

\* Mutant: the verdict is not looked at.
ReadAnyVerdict(e) == Completed(e)

\* getEvaluation, and the check of its verdict.
ReadClear(e) == Completed(e) /\ Head(evaluations[e]).verdict = "CLEAR"

(* Environment, output path and evaluation; the database is read once.     *)
StartScript(o, e, id, writes) ==
    /\ scripts[o].phase = "IDLE"
    /\ writes => output = NoFile
    /\ ReadClear(e)
    /\ scripts' = [scripts EXCEPT ![o] =
          [phase |-> "CHECKED", writes |-> writes, id |-> id,
           subject |-> [evaluation |-> e, build |-> Head(evaluations[e]).build,
                        digest |-> Head(evaluations[e]).digest]]]
    /\ UNCHANGED <<contractVars, transactions, output>>

(* The reads at one block: the window opens at its timestamp.              *)
BuildClearance(o) ==
    /\ scripts[o].phase = "CHECKED"
    /\ Registrar \in registrars
    /\ digestByIdHash[scripts[o].id] = Zero
    /\ scripts' = [scripts EXCEPT ![o] =
          [phase |-> "BUILT", writes |-> scripts[o].writes,
           clearance |-> ClearanceOf(scripts[o].id, scripts[o].subject, now)]]
    /\ UNCHANGED <<contractVars, transactions, output>>

\* What recordClearance requires of the latest block.
Recordable(clearance) ==
    /\ Registrar \in registrars
    /\ Contract!ValidInput(clearance, clearance, "CLEAR")
    /\ ~Contract!Exists(clearance)
    /\ digestByIdHash[clearance.id] = Zero

\* simulateContract, then writeContract.
Send(o) ==
    /\ scripts[o].phase = "BUILT"
    /\ Recordable(scripts[o].clearance)
    /\ Goto(o, "SENT")
    /\ transactions' = [transactions EXCEPT ![o] = [status |-> "PENDING", of |-> scripts[o].clearance]]
    /\ UNCHANGED <<contractVars, output>>

\* The transaction of a run is mined, whatever became of the run.
Mine(o) ==
    LET clearance == transactions[o].of
    IN  /\ transactions[o].status = "PENDING"
        /\ \/ /\ Contract!RecordClearance(Registrar, clearance, clearance, "CLEAR")
              /\ transactions' = [transactions EXCEPT ![o].status = "success"]
           \/ /\ ~Recordable(clearance)
              /\ transactions' = [transactions EXCEPT ![o].status = "reverted"]
              /\ UNCHANGED contractVars
        /\ UNCHANGED <<scripts, output>>

\* Mutant: the status of the receipt is not looked at.
ReceiveAnyReceipt(o) ==
    /\ scripts[o].phase = "SENT"
    /\ transactions[o].status \in {"success", "reverted"}
    /\ Goto(o, "MINED")
    /\ UNCHANGED <<contractVars, transactions, output>>

(* waitForTransactionReceipt and validateReceiptEvents: the events of a    *)
(* successful recordClearance repeat its arguments.                        *)
ReceiveReceipt(o) ==
    /\ scripts[o].phase = "SENT"
    /\ transactions[o].status = "success"
    /\ Goto(o, "MINED")
    /\ UNCHANGED <<contractVars, transactions, output>>

\* writePublicClearance never replaces a document.
WriteClearance(clearance) == output = NoFile /\ output' = clearance

(* readExactClearance, then the document and beside it its digest, which   *)
(* may not be writable when the document was.                              *)
Confirm(o) ==
    LET clearance == scripts[o].clearance
    IN  /\ scripts[o].phase = "MINED"
        /\ Contract!Exists(clearance) /\ clearances[clearance].bindings = clearance
        /\ IF scripts[o].writes THEN WriteClearance(clearance) ELSE UNCHANGED output
        /\ \/ Goto(o, "CONFIRMED")
           \/ scripts[o].writes /\ Goto(o, "BLOCKED")
        /\ UNCHANGED <<contractVars, transactions>>

(* A check fails (the window opens before the evaluation, the id is taken, *)
(* the simulation reverts...), a read is not answered, waiting for the     *)
(* receipt times out, the file is taken, or the run is stopped.            *)
Block(o) ==
    /\ scripts[o].phase \in {"CHECKED", "BUILT", "SENT", "MINED"}
    /\ Goto(o, "BLOCKED")
    /\ UNCHANGED <<contractVars, transactions, output>>

\* The chain and its owner meanwhile.
ContractStep ==
    /\ \/ Contract!MineBlock
       \/ \E authorized \in BOOLEAN : Contract!SetRegistrar(Registrar, Registrar, authorized)
       \/ \E clearance \in Drafts : Contract!RevokeClearance(Registrar, clearance)
    /\ UNCHANGED <<scripts, transactions, output>>

-----------------------------------------------------------------------------
IssuanceInit ==
    /\ Init
    /\ Contract!RegistryInit
    /\ scripts = [o \in Scripts |-> [phase |-> "IDLE"]]
    /\ transactions = [o \in Scripts |-> [status |-> "NONE"]]
    /\ output = NoFile

ScriptStep(o) ==
    \/ \E e \in EvaluationIds, id \in ClearanceIds, writes \in BOOLEAN : StartScript(o, e, id, writes)
    \/ BuildClearance(o)
    \/ Send(o)
    \/ Mine(o)
    \/ ReceiveReceipt(o)
    \/ Confirm(o)
    \/ Block(o)

IssuanceNext ==
    \/ Next /\ UNCHANGED issuanceVars
    \/ (ContractStep \/ \E o \in Scripts : ScriptStep(o)) /\ UNCHANGED vars

IssuanceSpec == IssuanceInit /\ [][IssuanceNext]_<<vars, issuanceVars>>

-----------------------------------------------------------------------------
(* Every clearance of the registry is of a CLEAR verdict the store holds,  *)
(* about the artifact its build has now, however builds were promoted,     *)
(* gateways answered, callbacks came or processes stopped on the way from  *)
(* the source to the chain.                                                *)
ClearancesAreOfEvaluations ==
    \A clearance \in Drafts :
        Contract!Exists(clearance) =>
            LET subject == clearance.content
            IN  /\ \E i \in 1..Len(evaluations[subject.evaluation]) :
                      evaluations[subject.evaluation][i] =
                          [build |-> subject.build, digest |-> subject.digest, verdict |-> "CLEAR"]
                /\ Evaluable(subject.build)
                /\ subject.digest = builds[subject.build].digest

(* A run that reports CONFIRMED is the one that put its clearance into the *)
(* registry: two runs of one clearance id are never both confirmed, and    *)
(* the document a run leaves is one the registry records.  (A run that     *)
(* reports BLOCKED may have recorded its clearance all the same.)          *)
ConfirmedIsRecorded ==
    /\ \A o \in Scripts :
          scripts[o].phase = "CONFIRMED" =>
              /\ Contract!Exists(scripts[o].clearance)
              /\ digestByIdHash[scripts[o].clearance.id] = scripts[o].clearance
              /\ \A p \in Scripts \ {o} :
                    scripts[p].phase = "CONFIRMED" =>
                        scripts[p].clearance.id # scripts[o].clearance.id
    /\ output # NoFile => Contract!Exists(output)
=============================================================================
