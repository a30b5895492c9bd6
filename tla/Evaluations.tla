------------------------------ MODULE Evaluations ------------------------------
(***************************************************************************)
(* Evaluations of builds: evaluateBuild and completeCreEvaluation of the   *)
(* application store over its pending_evaluations, evaluations and         *)
(* cre_evaluation_rejections tables, with the CRE gateway and the          *)
(* confidential workflow that answers both of them.                        *)
(*                                                                         *)
(* evaluateBuild is split at its one await, the gateway call; what follows *)
(* it runs without a pause but outside a transaction, so only a crash can  *)
(* separate its INSERT from its DELETE.  A callback is one transaction.    *)
(* Account, site, robot, envelope and evaluator version follow from the    *)
(* build; a digest stands for the build descriptor and its traces.         *)
(***************************************************************************)
EXTENDS SourceBuilds, Sequences

CONSTANTS
    EvaluationIds,   \* ids the server may draw, each for one request
    ResultVerdicts,
    Codes,           \* public rejection codes of the workflow
    GatewayReplies,  \* what the gateway answers: subset of {"ACCEPTED", "COMPLETED"}
    Delivers         \* whether resultDeliveryUrl is configured

ASSUME EvaluationAssumption ==
    /\ GatewayReplies \subseteq {"ACCEPTED", "COMPLETED"}
    /\ Delivers \in BOOLEAN

VARIABLES
    calls,        \* evaluateBuild calls: in process while WAITING, then what the caller learnt
    workflows,    \* the confidential workflow's execution for an evaluation
    pending,      \* pending_evaluations
    evaluations,  \* evaluations rows in insertion order, by evaluation id
    rejections    \* cre_evaluation_rejections

storeVars == <<pending, evaluations, rejections>>
evaluationVars == <<calls, workflows, storeVars>>
vars == <<buildVars, evaluationVars>>

AnyDigest == Artifacts \cup {Placeholder}
None == [status |-> "NONE"]

(* A binding is what evaluateBuild captured before it awaited: a pending   *)
(* row and the locals of the call hold the same one.                       *)
Binding == [status : {"BOUND"}, build : Builds, digest : AnyDigest]
Row == [build : Builds, digest : AnyDigest, verdict : ResultVerdicts]

(* behavior is the behaviorInputDigest, digest the result's own inputs.    *)
Response ==
    [status : {"EVALUATED"}, behavior : AnyDigest, digest : AnyDigest, verdict : ResultVerdicts]
    \cup [status : {"REJECT"}, code : Codes]

EvaluationTypeOK ==
    /\ BuildTypeOK
    /\ calls \in [EvaluationIds ->
          Binding \cup [status : {"UNUSED", "TOLD_PENDING", "RETURNED"}]]
    /\ workflows \in [EvaluationIds -> {None, [status |-> "RUNNING"]} \cup Response]
    /\ pending \in [EvaluationIds -> {None} \cup Binding]
    /\ evaluations \in [EvaluationIds -> Seq(Row)]
    /\ rejections \in [EvaluationIds -> {None} \cup Response]

-----------------------------------------------------------------------------
Evaluable(b) == builds[b].integrity \in {"NONE", "BUILD_SUCCEEDED"}

Waiting(e) == calls[e].status = "BOUND"

Completed(e) == evaluations[e] # <<>>

(* The behavior digest comparison and assertEvaluationResultBindings.      *)
Matches(response, behavior, digest) ==
    response.behavior = behavior /\ response.digest = digest

Insert(e, b, response) ==
    evaluations' = [evaluations EXCEPT ![e] =
        Append(@, [build |-> b, digest |-> response.digest, verdict |-> response.verdict])]

\* The id is new, so no row of it is found.
RecordPending(e, binding) == pending' = [pending EXCEPT ![e] = binding]

DeletePending(e) == pending' = [pending EXCEPT ![e] = None]

Return(e, status) == calls' = [calls EXCEPT ![e] = [status |-> status]]

-----------------------------------------------------------------------------
\* Mutant: a build that is still BUILDING may be evaluated.
StartUnready(e, b) ==
    LET binding == [status |-> "BOUND", build |-> b, digest |-> builds[b].digest]
    IN  /\ calls[e].status = "UNUSED"
        /\ builds[b] # NoBuild
        /\ RecordPending(e, binding)
        /\ calls' = [calls EXCEPT ![e] = binding]
        /\ UNCHANGED <<buildVars, workflows, evaluations, rejections>>

\* Mutant: a retry evaluates again under the same id.
StartAgain(e, b) ==
    LET binding == [status |-> "BOUND", build |-> b, digest |-> builds[b].digest]
    IN  /\ calls[e].status \in {"UNUSED", "RETURNED"}
        /\ Evaluable(b)
        /\ RecordPending(e, binding)
        /\ calls' = [calls EXCEPT ![e] = binding]
        /\ UNCHANGED <<buildVars, workflows, evaluations, rejections>>

StartEvaluation(e, b) ==
    LET binding == [status |-> "BOUND", build |-> b, digest |-> builds[b].digest]
    IN  /\ calls[e].status = "UNUSED"
        /\ Evaluable(b)
        /\ RecordPending(e, binding)
        /\ calls' = [calls EXCEPT ![e] = binding]
        /\ UNCHANGED <<buildVars, workflows, evaluations, rejections>>

(* ACCEPTED is the CRE_EVALUATION_PENDING error: the pending row is kept,  *)
(* and a callback that was faster already answers the caller.              *)
GatewayAccepted(e) ==
    /\ Waiting(e)
    /\ "ACCEPTED" \in GatewayReplies
    /\ workflows[e] # None
    /\ Return(e, IF Completed(e) THEN "RETURNED" ELSE "TOLD_PENDING")
    /\ UNCHANGED <<buildVars, workflows, storeVars>>

(* The gateway refuses, answers REJECT or something mis-bound, or its      *)
(* answer is lost, whether or not the workflow started.                    *)
GatewayFailed(e) ==
    /\ Waiting(e)
    /\ IF Completed(e) THEN UNCHANGED pending ELSE DeletePending(e)
    /\ Return(e, "RETURNED")
    /\ UNCHANGED <<buildVars, workflows, evaluations, rejections>>

(* The gateway answers with the report, which is stored unconditionally.   *)
Reported(e) ==
    /\ Waiting(e)
    /\ "COMPLETED" \in GatewayReplies
    /\ workflows[e].status = "EVALUATED"
    /\ Matches(workflows[e], calls[e].digest, calls[e].digest)
    /\ Insert(e, calls[e].build, workflows[e])

GatewayCompleted(e) ==
    /\ Reported(e)
    /\ DeletePending(e)
    /\ Return(e, "RETURNED")
    /\ UNCHANGED <<buildVars, workflows, rejections>>

-----------------------------------------------------------------------------
(* completeCreEvaluation on a row that is pending and not rejected; every  *)
(* other callback is answered or refused without a change.                 *)
Undecided(e) ==
    /\ Delivers
    /\ workflows[e].status \in {"EVALUATED", "REJECT"}
    /\ pending[e] # None
    /\ rejections[e] = None

\* Mutant: a rejection only removes the pending row.
CallbackForgets(e) ==
    /\ Undecided(e)
    /\ workflows[e].status = "REJECT"
    /\ DeletePending(e)
    /\ UNCHANGED <<buildVars, calls, workflows, evaluations, rejections>>

CallbackRejects(e) ==
    /\ Undecided(e)
    /\ workflows[e].status = "REJECT"
    /\ rejections' = [rejections EXCEPT ![e] = workflows[e]]
    /\ DeletePending(e)
    /\ UNCHANGED <<buildVars, calls, workflows, evaluations>>

CallbackCompletes(e) ==
    /\ Undecided(e)
    /\ workflows[e].status = "EVALUATED"
    /\ Matches(workflows[e], pending[e].digest, builds[pending[e].build].digest)
    /\ Insert(e, pending[e].build, workflows[e])
    /\ DeletePending(e)
    /\ UNCHANGED <<buildVars, calls, workflows, rejections>>

-----------------------------------------------------------------------------
(* The gateway starts one execution for the request it was sent.           *)
Accept(e) ==
    /\ Waiting(e)
    /\ workflows[e] = None
    /\ workflows' = [workflows EXCEPT ![e] = [status |-> "RUNNING"]]
    /\ UNCHANGED <<buildVars, calls, storeVars>>

(* It ends with one response, the same in the callback and in the gateway  *)
(* answer.  What it says it evaluated is not trusted to be the request.    *)
Respond(e, response) ==
    /\ workflows[e].status = "RUNNING"
    /\ workflows' = [workflows EXCEPT ![e] = response]
    /\ UNCHANGED <<buildVars, calls, storeVars>>

-----------------------------------------------------------------------------
\* A restart: callers of the calls in flight learn nothing.
LoseCalls ==
    calls' = [e \in EvaluationIds |-> IF Waiting(e) THEN [status |-> "RETURNED"] ELSE calls[e]]

Crash == BuildCrash /\ LoseCalls /\ UNCHANGED <<workflows, storeVars>>

\* Between the INSERT and the DELETE of a report.
CrashInReport(e) ==
    /\ Reported(e)
    /\ BuildCrash /\ LoseCalls
    /\ UNCHANGED <<workflows, pending, rejections>>

-----------------------------------------------------------------------------
Init ==
    /\ BuildInit
    /\ calls = [e \in EvaluationIds |-> [status |-> "UNUSED"]]
    /\ workflows = [e \in EvaluationIds |-> None]
    /\ pending = [e \in EvaluationIds |-> None]
    /\ evaluations = [e \in EvaluationIds |-> <<>>]
    /\ rejections = [e \in EvaluationIds |-> None]

BuildStep ==
    /\ BuildWork \/ \E b \in Builds : SettleIsLost(b)
    /\ UNCHANGED evaluationVars

EvaluationStep(e) ==
    \/ \E b \in Builds : StartEvaluation(e, b)
    \/ GatewayAccepted(e)
    \/ GatewayFailed(e)
    \/ GatewayCompleted(e)
    \/ CallbackRejects(e)
    \/ CallbackCompletes(e)
    \/ Accept(e)
    \/ \E response \in Response : Respond(e, response)
    \/ CrashInReport(e)

Next == BuildStep \/ Crash \/ \E e \in EvaluationIds : EvaluationStep(e)

Spec == Init /\ [][Next]_vars

-----------------------------------------------------------------------------
(* Whatever is pending, in flight or evaluated is bound to the digest its  *)
(* build has now, of a build that is not still being made: a verdict is    *)
(* never about a placeholder or about an artifact promoted after it.       *)
EvaluatedAsPromoted ==
    LET Promoted(x) == Evaluable(x.build) /\ x.digest = builds[x.build].digest
    IN  \A e \in EvaluationIds :
           /\ Waiting(e) => Promoted(calls[e])
           /\ pending[e] # None => Promoted(pending[e])
           /\ \A i \in 1..Len(evaluations[e]) : Promoted(evaluations[e][i])

(* The store still accounts for every request whose caller was told        *)
(* PENDING: it is pending, completed or rejected, through every restart,   *)
(* early callback and duplicate.                                           *)
PendingIsNotForgotten ==
    \A e \in EvaluationIds :
        calls[e].status = "TOLD_PENDING" =>
            pending[e] # None \/ Completed(e) \/ rejections[e] # None

(* An evaluation has at most one record.                                   *)
OneRecordPerEvaluation == \A e \in EvaluationIds : Len(evaluations[e]) <= 1

(* An evaluation that was requested ends at most once: a rejected one is   *)
(* never completed, a verdict never changes, a dropped request stays so.   *)
OutcomeOf(e) ==
    IF Completed(e) THEN [state |-> "COMPLETED", record |-> Head(evaluations[e])]
    ELSE IF rejections[e] # None THEN [state |-> "REJECTED", code |-> rejections[e].code]
    ELSE IF pending[e] # None THEN [state |-> "PENDING"]
    ELSE IF calls[e].status = "UNUSED" THEN [state |-> "NONE"]
    ELSE [state |-> "DROPPED"]

Outcome == INSTANCE EvaluationOutcome WITH
    Records    <- Row,
    Rejections <- Codes,
    outcome    <- [e \in EvaluationIds |-> OutcomeOf(e)]

OutcomesAreFinal == Outcome!OutcomeSpec
=============================================================================
