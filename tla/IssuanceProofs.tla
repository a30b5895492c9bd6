---------------------------- MODULE IssuanceProofs ----------------------------
(***************************************************************************)
(* What issuing a clearance guarantees for any number of builds,           *)
(* evaluations, script runs and clearance ids: the chain of evidence from  *)
(* a source to a record of the registry, and what CONFIRMED means.  The    *)
(* theorems of the evaluations come first, then those of the answers an    *)
(* executor takes (CreProtocol), of issuance, and of the parts together.   *)
(***************************************************************************)
EXTENDS Issuance, SourceBuildsProofs, WellFoundedInduction

-----------------------------------------------------------------------------
(***************************************************************************)
(* What the store says of an evaluation, for any number of builds,         *)
(* evaluations and workflows.  EvaluationAt is the inductive invariant of  *)
(* one evaluation.  Beyond the two checked invariants it says where a      *)
(* verdict or a rejection came from: a workflow responds once, so the      *)
(* callback and the gateway's answer cannot disagree; and that a call in   *)
(* flight has its pending row or an outcome, so a row that was dropped is  *)
(* not completed later.                                                    *)
(***************************************************************************)

Promoted(x) == Evaluable(x.build) /\ x.digest = builds[x.build].digest

Accounted(e) == pending[e] # None \/ Completed(e) \/ rejections[e] # None

EvaluationAt(e) ==
    /\ Waiting(e) => Promoted(calls[e]) /\ Accounted(e)
    /\ pending[e] # None => Promoted(pending[e])
    /\ \A i \in 1..Len(evaluations[e]) : Promoted(evaluations[e][i])
    /\ calls[e].status = "TOLD_PENDING" => Accounted(e)
    /\ Completed(e) => workflows[e].status = "EVALUATED"
    /\ rejections[e] # None => rejections[e] = workflows[e] /\ workflows[e].status = "REJECT"
    /\ calls[e].status = "UNUSED" => ~ Accounted(e)

EvaluationInv == EvaluationTypeOK /\ \A e \in EvaluationIds : EvaluationAt(e)

\* Nothing happens to e, except that its caller may go.
Untouched(e) ==
    /\ \/ calls'[e] = calls[e]
       \/ Waiting(e) /\ calls'[e] = [status |-> "RETURNED"]
    /\ workflows'[e] = workflows[e]
    /\ pending'[e] = pending[e]
    /\ evaluations'[e] = evaluations[e]
    /\ rejections'[e] = rejections[e]

-----------------------------------------------------------------------------
(* Builds are made, settled and lost as SourceBuilds says.                 *)
LEMMA StepsAreBuildSteps == [Next]_vars => [BuildNext]_buildVars
<1> SUFFICES ASSUME [Next]_vars PROVE [BuildNext]_buildVars
  OBVIOUS
<1>1. CASE BuildStep
  BY <1>1 DEF BuildStep, BuildNext, BuildFault
<1>2. CASE Crash
  BY <1>2 DEF Crash, BuildNext, BuildFault
<1>3. ASSUME NEW e \in EvaluationIds, EvaluationStep(e)
      PROVE  [BuildNext]_buildVars
  BY <1>3 DEF EvaluationStep, StartEvaluation, GatewayAccepted, GatewayFailed,
     GatewayCompleted, CallbackRejects, CallbackCompletes, Accept, Respond, CrashInReport,
     BuildNext, BuildFault
<1>4. CASE UNCHANGED vars
  BY <1>4 DEF vars
<1> QED BY <1>1, <1>2, <1>3, <1>4 DEF Next

LEMMA BuildsKeepInv == Spec => []BuildInv
<1>1. Init => BuildInit
  BY DEF Init
<1> QED BY <1>1, StepsAreBuildSteps, BuildInvariant, PTL DEF Spec, BuildSpec

LEMMA EvaluableStays ==
    ASSUME BuildInv, [BuildNext]_buildVars
    PROVE  \A b \in Builds : Evaluable(b) => builds'[b] = builds[b]
BY SettledStays DEF Evaluable

(* The records a row can be told apart by.                                 *)
LEMMA Tables ==
    ASSUME EvaluationTypeOK, NEW e \in EvaluationIds
    PROVE  /\ Waiting(e) => calls[e] \in Binding
           /\ pending[e] # None => pending[e] \in Binding
           /\ evaluations[e] \in Seq(Row)
           /\ \A i \in 1..Len(evaluations[e]) : evaluations[e][i].build \in Builds
           /\ workflows[e].status = "EVALUATED" =>
                 /\ workflows[e].digest \in AnyDigest
                 /\ workflows[e].verdict \in ResultVerdicts
           /\ workflows[e].status = "REJECT" =>
                 workflows[e] \in [status : {"REJECT"}, code : Codes]
<1>1. Waiting(e) => calls[e] \in Binding
  BY DEF EvaluationTypeOK, Waiting, Binding
<1>2. pending[e] # None => pending[e] \in Binding
  BY DEF EvaluationTypeOK
<1>3. evaluations[e] \in Seq(Row)
  BY DEF EvaluationTypeOK
<1>4. \A i \in 1..Len(evaluations[e]) : evaluations[e][i] \in Row
  BY <1>3
<1>5. \A row \in Row : row.build \in Builds
  BY DEF Row
<1>6. workflows[e] \in {None, [status |-> "RUNNING"]} \cup Response
  BY DEF EvaluationTypeOK
<1>7. /\ workflows[e].status = "EVALUATED" =>
            workflows[e].digest \in AnyDigest /\ workflows[e].verdict \in ResultVerdicts
      /\ workflows[e].status = "REJECT" =>
            workflows[e] \in [status : {"REJECT"}, code : Codes]
  BY <1>6 DEF None, Response
<1> QED BY <1>1, <1>2, <1>3, <1>4, <1>5, <1>7

LEMMA Others ==
    ASSUME EvaluationInv, BuildInv, [BuildNext]_buildVars, NEW e \in EvaluationIds, Untouched(e)
    PROVE  EvaluationAt(e)'
<1>1. EvaluationAt(e) /\ EvaluationTypeOK
  BY DEF EvaluationInv
<1>2. \A b \in Builds : Evaluable(b) => builds'[b] = builds[b]
  BY EvaluableStays
<1>3. Accounted(e)' <=> Accounted(e)
  BY DEF Untouched, Accounted, Completed
<1>4. Waiting(e)' => Waiting(e) /\ calls'[e] = calls[e] /\ calls[e] \in Binding
  BY <1>1, Tables DEF Untouched, Waiting
<1>5. Waiting(e)' => Promoted(calls[e])'
  BY <1>1, <1>2, <1>4 DEF EvaluationAt, Promoted, Evaluable, Binding
<1>6. pending'[e] # None => Promoted(pending[e])'
  BY <1>1, <1>2, Tables DEF EvaluationAt, Promoted, Evaluable, Binding, Untouched
<1>7. \A i \in 1..Len(evaluations'[e]) : Promoted(evaluations[e][i])'
  BY <1>1, <1>2, Tables DEF EvaluationAt, Promoted, Evaluable, Untouched
<1>8. /\ calls'[e].status = "TOLD_PENDING" => Accounted(e)'
      /\ calls'[e].status = "UNUSED" => ~ Accounted(e)'
  BY <1>1, <1>3 DEF EvaluationAt, Untouched
<1>9. /\ Completed(e)' => workflows'[e].status = "EVALUATED"
      /\ rejections'[e] # None =>
            rejections'[e] = workflows'[e] /\ workflows'[e].status = "REJECT"
  BY <1>1 DEF EvaluationAt, Untouched, Completed
<1>10. Waiting(e)' => Accounted(e)'
  BY <1>1, <1>3, <1>4 DEF EvaluationAt
<1> QED BY <1>5, <1>6, <1>7, <1>8, <1>9, <1>10 DEF EvaluationAt

LEMMA OneEvaluation ==
    ASSUME EvaluationInv, BuildInv, [BuildNext]_buildVars, EvaluationTypeOK',
           NEW e \in EvaluationIds, EvaluationAt(e)',
           \A other \in EvaluationIds \ {e} : Untouched(other)
    PROVE  EvaluationInv'
<1>1. ASSUME NEW other \in EvaluationIds, other # e PROVE EvaluationAt(other)'
  BY <1>1, Others
<1> QED BY <1>1 DEF EvaluationInv

LEMMA InitEvaluationInv == Init => EvaluationInv
<1> SUFFICES ASSUME Init PROVE EvaluationInv
  OBVIOUS
<1>1. BuildTypeOK
  BY InitBuildInv DEF Init, BuildInv
<1>2. EvaluationTypeOK
  BY <1>1 DEF Init, EvaluationTypeOK
<1>3. ASSUME NEW e \in EvaluationIds PROVE EvaluationAt(e)
  BY DEF Init, EvaluationAt, Waiting, Accounted, Completed
<1> QED BY <1>2, <1>3 DEF EvaluationInv

-----------------------------------------------------------------------------
(* evaluateBuild.                                                          *)
LEMMA StartKeeps ==
    ASSUME EvaluationInv, BuildInv, BuildTypeOK', NEW e \in EvaluationIds, NEW b \in Builds,
           StartEvaluation(e, b)
    PROVE  EvaluationInv'
<1> DEFINE binding == [status |-> "BOUND", build |-> b, digest |-> builds[b].digest]
<1> USE DEF StartEvaluation, RecordPending, EvaluationInv
<1>1. EvaluationAt(e) /\ [BuildNext]_buildVars
  OBVIOUS
<1>2. binding \in Binding
  <2>1. builds[b] \in Build
    BY BuildRows DEF BuildInv, BuildTypeOK, Evaluable
  <2> QED BY <2>1 DEF Binding, Build, AnyDigest
<1>3. EvaluationTypeOK'
  BY <1>2 DEF EvaluationTypeOK
<1>4. /\ calls'[e] = binding /\ pending'[e] = binding
      /\ evaluations[e] = <<>> /\ rejections[e] = None
  BY <1>1 DEF EvaluationTypeOK, EvaluationAt, Accounted, Completed
<1>5. EvaluationAt(e)'
  BY <1>4 DEF EvaluationAt, Promoted, Evaluable, Waiting, Accounted, Completed, None, buildVars
<1>6. \A other \in EvaluationIds \ {e} : Untouched(other)
  BY DEF Untouched, EvaluationTypeOK
<1> QED BY <1>1, <1>3, <1>5, <1>6, OneEvaluation

LEMMA GatewayAcceptedKeeps ==
    ASSUME EvaluationInv, BuildInv, BuildTypeOK', NEW e \in EvaluationIds, GatewayAccepted(e)
    PROVE  EvaluationInv'
<1> USE DEF GatewayAccepted, Return, storeVars, EvaluationInv
<1>1. EvaluationAt(e) /\ [BuildNext]_buildVars
  OBVIOUS
<1>2. /\ calls'[e] \in [status : {"TOLD_PENDING", "RETURNED"}]
      /\ \A other \in EvaluationIds \ {e} : calls'[other] = calls[other]
      /\ EvaluationTypeOK'
  BY DEF EvaluationTypeOK
<1>3. EvaluationAt(e)'
  BY <1>1, <1>2 DEF EvaluationAt, Promoted, Evaluable, Waiting, Accounted, Completed, buildVars
<1>4. \A other \in EvaluationIds \ {e} : Untouched(other)
  BY <1>2 DEF Untouched
<1> QED BY <1>1, <1>2, <1>3, <1>4, OneEvaluation

LEMMA GatewayFailedKeeps ==
    ASSUME EvaluationInv, BuildInv, BuildTypeOK', NEW e \in EvaluationIds, GatewayFailed(e)
    PROVE  EvaluationInv'
<1> USE DEF GatewayFailed, Return, DeletePending, EvaluationInv
<1>1. EvaluationAt(e) /\ [BuildNext]_buildVars
  OBVIOUS
<1>2. /\ calls'[e] = [status |-> "RETURNED"]
      /\ pending'[e] \in {pending[e], None}
      /\ EvaluationTypeOK'
  BY DEF EvaluationTypeOK
<1>3. EvaluationAt(e)'
  BY <1>1, <1>2 DEF EvaluationAt, Promoted, Evaluable, Waiting, Accounted, Completed, buildVars
<1>4. \A other \in EvaluationIds \ {e} : Untouched(other)
  BY DEF Untouched, EvaluationTypeOK
<1> QED BY <1>1, <1>2, <1>3, <1>4, OneEvaluation

(* A record is inserted of a binding that was checked against the build.   *)
LEMMA Inserted ==
    ASSUME EvaluationInv, NEW e \in EvaluationIds, NEW b \in Builds, Evaluable(b),
           workflows[e].status = "EVALUATED", workflows[e].digest = builds[b].digest,
           builds' = builds, Insert(e, b, workflows[e])
    PROVE  /\ evaluations' \in [EvaluationIds -> Seq(Row)]
           /\ evaluations'[e] # <<>>
           /\ \A i \in 1..Len(evaluations'[e]) : Promoted(evaluations[e][i])'
           /\ \A other \in EvaluationIds \ {e} : evaluations'[other] = evaluations[other]
<1> DEFINE row == [build |-> b, digest |-> workflows[e].digest, verdict |-> workflows[e].verdict]
<1>1. EvaluationAt(e) /\ evaluations \in [EvaluationIds -> Seq(Row)]
  BY DEF EvaluationInv, EvaluationTypeOK
<1>2. row \in Row
  BY Tables DEF EvaluationInv, Row
<1>3. /\ evaluations'[e] = Append(evaluations[e], row)
      /\ \A other \in EvaluationIds \ {e} : evaluations'[other] = evaluations[other]
  BY <1>1 DEF Insert
<1>4. /\ evaluations' \in [EvaluationIds -> Seq(Row)]
      /\ Len(evaluations'[e]) = Len(evaluations[e]) + 1 /\ evaluations'[e] # <<>>
  BY <1>1, <1>2, <1>3 DEF Insert
<1>5. ASSUME NEW i \in 1..Len(evaluations'[e])
      PROVE  Promoted(evaluations[e][i])'
  <2>1. CASE i = Len(evaluations[e]) + 1
    <3>1. evaluations'[e][i] = row
      BY <1>1, <1>2, <1>3, <2>1
    <3> QED BY <3>1 DEF Promoted, Evaluable
  <2>2. CASE i # Len(evaluations[e]) + 1
    <3>1. i \in 1..Len(evaluations[e]) /\ evaluations'[e][i] = evaluations[e][i]
      BY <1>1, <1>2, <1>3, <1>4, <2>2
    <3> QED BY <1>1, <3>1 DEF EvaluationAt, Promoted, Evaluable
  <2> QED BY <2>1, <2>2
<1> QED BY <1>3, <1>4, <1>5

LEMMA ReportedInserts ==
    ASSUME EvaluationInv, BuildInv, NEW e \in EvaluationIds, Reported(e), builds' = builds
    PROVE  /\ evaluations' \in [EvaluationIds -> Seq(Row)]
           /\ evaluations'[e] # <<>>
           /\ \A i \in 1..Len(evaluations'[e]) : Promoted(evaluations[e][i])'
           /\ \A other \in EvaluationIds \ {e} : evaluations'[other] = evaluations[other]
           /\ workflows[e].status = "EVALUATED" /\ rejections[e] = None
<1>1. EvaluationAt(e) /\ EvaluationTypeOK
  BY DEF EvaluationInv
<1>2. calls[e].build \in Builds /\ Promoted(calls[e])
  BY <1>1, Tables DEF Reported, Binding, EvaluationAt
<1>3. /\ Evaluable(calls[e].build)
      /\ workflows[e].status = "EVALUATED" /\ workflows[e].digest = builds[calls[e].build].digest
      /\ rejections[e] = None
  BY <1>1, <1>2 DEF Reported, Matches, Promoted, EvaluationAt
<1>4. PICK b \in Builds : b = calls[e].build
  BY <1>2
<1>5. Insert(e, b, workflows[e])
  BY <1>4 DEF Reported
<1> QED BY <1>3, <1>4, <1>5, Inserted

LEMMA GatewayCompletedKeeps ==
    ASSUME EvaluationInv, BuildInv, BuildTypeOK', NEW e \in EvaluationIds, GatewayCompleted(e)
    PROVE  EvaluationInv'
<1> USE DEF GatewayCompleted, Return, DeletePending, EvaluationInv
<1>1. EvaluationAt(e) /\ [BuildNext]_buildVars /\ builds' = builds
  BY DEF buildVars
<1>2. /\ evaluations' \in [EvaluationIds -> Seq(Row)]
      /\ evaluations'[e] # <<>>
      /\ \A i \in 1..Len(evaluations'[e]) : Promoted(evaluations[e][i])'
      /\ \A other \in EvaluationIds \ {e} : evaluations'[other] = evaluations[other]
      /\ workflows[e].status = "EVALUATED" /\ rejections[e] = None
  BY <1>1, ReportedInserts
<1>3. /\ calls'[e] = [status |-> "RETURNED"] /\ pending'[e] = None
      /\ EvaluationTypeOK'
  BY <1>2 DEF EvaluationTypeOK
<1>4. EvaluationAt(e)'
  BY <1>2, <1>3 DEF EvaluationAt, Waiting, Accounted, Completed
<1>5. \A other \in EvaluationIds \ {e} : Untouched(other)
  BY <1>2 DEF Untouched, EvaluationTypeOK
<1> QED BY <1>1, <1>3, <1>4, <1>5, OneEvaluation

-----------------------------------------------------------------------------
(* completeCreEvaluation.                                                  *)
LEMMA CallbackRejectsKeeps ==
    ASSUME EvaluationInv, BuildInv, BuildTypeOK', NEW e \in EvaluationIds, CallbackRejects(e)
    PROVE  EvaluationInv'
<1> USE DEF CallbackRejects, DeletePending, EvaluationInv
<1>1. EvaluationAt(e) /\ EvaluationTypeOK /\ [BuildNext]_buildVars
  OBVIOUS
<1>2. workflows[e] \in Response /\ workflows[e] # None
  BY <1>1, Tables DEF Response, None
<1>3. /\ rejections'[e] = workflows[e] /\ rejections'[e] # None /\ pending'[e] = None
      /\ EvaluationTypeOK'
  BY <1>2 DEF EvaluationTypeOK
<1>4. calls[e].status # "UNUSED"
  BY <1>1 DEF Undecided, EvaluationAt, Accounted
<1>5. EvaluationAt(e)'
  BY <1>1, <1>3, <1>4 DEF EvaluationAt, Promoted, Evaluable, Waiting, Accounted, Completed,
     buildVars
<1>6. \A other \in EvaluationIds \ {e} : Untouched(other)
  BY DEF Untouched, EvaluationTypeOK
<1> QED BY <1>1, <1>3, <1>5, <1>6, OneEvaluation

LEMMA CallbackInserts ==
    ASSUME EvaluationInv, NEW e \in EvaluationIds, CallbackCompletes(e)
    PROVE  /\ evaluations' \in [EvaluationIds -> Seq(Row)]
           /\ evaluations'[e] # <<>>
           /\ \A i \in 1..Len(evaluations'[e]) : Promoted(evaluations[e][i])'
           /\ \A other \in EvaluationIds \ {e} : evaluations'[other] = evaluations[other]
           /\ calls[e].status # "UNUSED"
<1>1. EvaluationAt(e) /\ EvaluationTypeOK /\ pending[e] # None /\ builds' = builds
  BY DEF EvaluationInv, CallbackCompletes, Undecided, buildVars
<1>2. pending[e].build \in Builds /\ Promoted(pending[e])
  BY <1>1, Tables DEF Binding, EvaluationAt
<1>3. PICK b \in Builds : b = pending[e].build
  BY <1>2
<1>4. /\ Evaluable(b) /\ workflows[e].status = "EVALUATED"
      /\ workflows[e].digest = builds[b].digest
      /\ Insert(e, b, workflows[e])
  BY <1>2, <1>3 DEF CallbackCompletes, Matches, Promoted
<1>5. calls[e].status # "UNUSED"
  BY <1>1 DEF EvaluationAt, Accounted
<1> QED BY <1>1, <1>4, <1>5, Inserted

LEMMA CallbackCompletesKeeps ==
    ASSUME EvaluationInv, BuildInv, BuildTypeOK', NEW e \in EvaluationIds, CallbackCompletes(e)
    PROVE  EvaluationInv'
<1> USE DEF EvaluationInv
<1>1. EvaluationAt(e) /\ EvaluationTypeOK /\ [BuildNext]_buildVars
  BY DEF CallbackCompletes
<1>2. /\ evaluations' \in [EvaluationIds -> Seq(Row)]
      /\ evaluations'[e] # <<>>
      /\ \A i \in 1..Len(evaluations'[e]) : Promoted(evaluations[e][i])'
      /\ \A other \in EvaluationIds \ {e} : evaluations'[other] = evaluations[other]
      /\ calls[e].status # "UNUSED"
  BY CallbackInserts
<1> USE DEF CallbackCompletes, DeletePending
<1>3. pending'[e] = None /\ EvaluationTypeOK'
  BY <1>2 DEF EvaluationTypeOK
<1>4. EvaluationAt(e)'
  BY <1>1, <1>2, <1>3 DEF EvaluationAt, Promoted, Evaluable, Waiting, Accounted, Completed,
     Undecided, buildVars
<1>5. \A other \in EvaluationIds \ {e} : Untouched(other)
  BY <1>2 DEF Untouched, EvaluationTypeOK
<1> QED BY <1>1, <1>3, <1>4, <1>5, OneEvaluation

-----------------------------------------------------------------------------
(* The workflow: nothing in the store rests on an execution that has not   *)
(* responded, and a response is never replaced.                            *)
LEMMA WorkflowKeeps ==
    ASSUME EvaluationInv, BuildInv, BuildTypeOK', NEW e \in EvaluationIds,
           Accept(e) \/ \E response \in Response : Respond(e, response)
    PROVE  EvaluationInv'
<1> USE DEF Accept, Respond, storeVars, EvaluationInv
<1>1. EvaluationAt(e) /\ [BuildNext]_buildVars /\ UNCHANGED <<buildVars, calls, storeVars>>
  OBVIOUS
<1>2. /\ workflows' \in [EvaluationIds -> {None, [status |-> "RUNNING"]} \cup Response]
      /\ \A other \in EvaluationIds \ {e} : workflows'[other] = workflows[other]
  BY DEF EvaluationTypeOK
<1>3. workflows[e].status \notin {"EVALUATED", "REJECT"}
  BY DEF None
<1>4. EvaluationTypeOK'
  BY <1>1, <1>2 DEF EvaluationTypeOK
<1>5. EvaluationAt(e)'
  BY <1>1, <1>3 DEF EvaluationAt, Promoted, Evaluable, Waiting, Accounted, Completed, buildVars
<1>6. \A other \in EvaluationIds \ {e} : Untouched(other)
  BY <1>1, <1>2 DEF Untouched
<1> QED BY <1>1, <1>4, <1>5, <1>6, OneEvaluation

-----------------------------------------------------------------------------
(* Restarts, and the steps of builds.                                      *)
LEMMA CallsLost ==
    ASSUME EvaluationTypeOK, LoseCalls
    PROVE  /\ calls' \in [EvaluationIds -> Binding
                             \cup [status : {"UNUSED", "TOLD_PENDING", "RETURNED"}]]
           /\ \A e \in EvaluationIds :
                 \/ calls'[e] = calls[e] /\ ~ Waiting(e)
                 \/ Waiting(e) /\ calls'[e] = [status |-> "RETURNED"]
BY DEF LoseCalls, EvaluationTypeOK

LEMMA CrashInReportKeeps ==
    ASSUME EvaluationInv, BuildInv, BuildTypeOK', NEW e \in EvaluationIds, CrashInReport(e)
    PROVE  EvaluationInv'
<1> USE DEF EvaluationInv
<1>1. /\ EvaluationAt(e) /\ EvaluationTypeOK /\ Waiting(e) /\ [BuildNext]_buildVars
      /\ builds' = builds
  BY DEF CrashInReport, Reported, BuildNext, BuildFault, BuildCrash
<1>2. /\ evaluations' \in [EvaluationIds -> Seq(Row)]
      /\ evaluations'[e] # <<>>
      /\ \A i \in 1..Len(evaluations'[e]) : Promoted(evaluations[e][i])'
      /\ \A other \in EvaluationIds \ {e} : evaluations'[other] = evaluations[other]
      /\ workflows[e].status = "EVALUATED" /\ rejections[e] = None
  BY <1>1, ReportedInserts DEF CrashInReport
<1> USE DEF CrashInReport
<1>3. calls'[e] = [status |-> "RETURNED"] /\ EvaluationTypeOK'
  BY <1>1, <1>2, CallsLost DEF EvaluationTypeOK
<1>4. EvaluationAt(e)'
  BY <1>1, <1>2, <1>3 DEF EvaluationAt, Promoted, Evaluable, Waiting, Accounted, Completed
<1>5. \A other \in EvaluationIds \ {e} : Untouched(other)
  BY <1>2, CallsLost DEF Untouched
<1> QED BY <1>1, <1>3, <1>4, <1>5, OneEvaluation

LEMMA CrashKeeps ==
    ASSUME EvaluationInv, BuildInv, BuildTypeOK', Crash
    PROVE  EvaluationInv'
<1> USE DEF EvaluationInv, Crash, storeVars
<1>1. [BuildNext]_buildVars
  BY DEF BuildNext, BuildFault
<1>2. EvaluationTypeOK'
  BY CallsLost DEF EvaluationTypeOK
<1>3. \A e \in EvaluationIds : Untouched(e)
  BY CallsLost DEF Untouched
<1> QED BY <1>1, <1>2, <1>3, Others

LEMMA BuildStepKeeps ==
    ASSUME EvaluationInv, BuildInv, BuildTypeOK', [BuildNext]_buildVars,
           UNCHANGED evaluationVars
    PROVE  EvaluationInv'
<1> USE DEF EvaluationInv, evaluationVars, storeVars
<1>1. EvaluationTypeOK'
  BY DEF EvaluationTypeOK
<1>2. \A e \in EvaluationIds : Untouched(e)
  BY DEF Untouched
<1> QED BY <1>1, <1>2, Others

LEMMA NextKeepsEvaluationInv ==
    EvaluationInv /\ BuildInv /\ BuildInv' /\ [Next]_vars => EvaluationInv'
<1> SUFFICES ASSUME EvaluationInv, BuildInv, BuildInv', [Next]_vars PROVE EvaluationInv'
  OBVIOUS
<1>1. BuildTypeOK' /\ [BuildNext]_buildVars
  BY StepsAreBuildSteps DEF BuildInv
<1>2. CASE BuildStep
  BY <1>1, <1>2, BuildStepKeeps DEF BuildStep
<1>3. CASE Crash
  BY <1>1, <1>3, CrashKeeps
<1>4. ASSUME NEW e \in EvaluationIds, EvaluationStep(e)
      PROVE  EvaluationInv'
  BY <1>1, <1>4, StartKeeps, GatewayAcceptedKeeps, GatewayFailedKeeps, GatewayCompletedKeeps,
     CallbackRejectsKeeps, CallbackCompletesKeeps, WorkflowKeeps, CrashInReportKeeps
     DEF EvaluationStep
<1>5. CASE UNCHANGED vars
  BY <1>1, <1>5, BuildStepKeeps DEF vars
<1> QED BY <1>2, <1>3, <1>4, <1>5 DEF Next

(* Every reachable state of the store's tables satisfies the invariant.    *)
THEOREM EvaluationInvariant == Spec => []EvaluationInv
BY InitEvaluationInv, NextKeepsEvaluationInv, BuildsKeepInv, PTL DEF Spec

(* Whatever callbacks, gateway answers and restarts interleave with builds *)
(* being made, completeCreEvaluation and evaluateBuild store verdicts only *)
(* about the artifact the build was promoted with.                         *)
THEOREM VerdictsAreAboutPromoted == Spec => []EvaluatedAsPromoted
<1>1. EvaluationInv => EvaluatedAsPromoted
  BY DEF EvaluationInv, EvaluationAt, EvaluatedAsPromoted, Promoted
<1> QED BY <1>1, EvaluationInvariant, PTL

(* A request whose caller got CRE_EVALUATION_PENDING stays accounted for.  *)
THEOREM PendingIsKept == Spec => []PendingIsNotForgotten
<1>1. EvaluationInv => PendingIsNotForgotten
  BY DEF EvaluationInv, EvaluationAt, PendingIsNotForgotten, Accounted
<1> QED BY <1>1, EvaluationInvariant, PTL

-----------------------------------------------------------------------------
(* Refinement: one step of the store is at most one step of one outcome.   *)
LEMMA StepIsLocal ==
    ASSUME EvaluationInv, BuildInv, NEW e \in EvaluationIds, EvaluationStep(e)
    PROVE  \A other \in EvaluationIds \ {e} : Untouched(other)
<1> USE DEF EvaluationInv
<1>1. ASSUME \/ GatewayAccepted(e) \/ GatewayFailed(e) \/ CallbackRejects(e) \/ Accept(e)
             \/ \E b \in Builds : StartEvaluation(e, b)
             \/ \E response \in Response : Respond(e, response)
      PROVE  \A other \in EvaluationIds \ {e} : Untouched(other)
  BY <1>1 DEF Untouched, EvaluationTypeOK, GatewayAccepted, GatewayFailed, CallbackRejects,
     Accept, StartEvaluation, Respond, Return, DeletePending, RecordPending, storeVars
<1>2. ASSUME GatewayCompleted(e) \/ CallbackCompletes(e)
      PROVE  \A other \in EvaluationIds \ {e} : Untouched(other)
  BY <1>2 DEF Untouched, EvaluationTypeOK, GatewayCompleted, CallbackCompletes, Reported,
     Insert, Return, DeletePending
<1>3. ASSUME CrashInReport(e)
      PROVE  \A other \in EvaluationIds \ {e} : Untouched(other)
  BY <1>3, CallsLost DEF Untouched, EvaluationTypeOK, CrashInReport, Reported, Insert
<1> QED BY <1>1, <1>2, <1>3 DEF EvaluationStep

LEMMA UntouchedOutcome ==
    ASSUME EvaluationInv, NEW e \in EvaluationIds, Untouched(e)
    PROVE  OutcomeOf(e)' = OutcomeOf(e)
BY DEF Untouched, OutcomeOf, Completed, Waiting

Completes(e) == \E record \in Row :
                   OutcomeOf(e)' = [state |-> "COMPLETED", record |-> record]

\* What one step may do to the outcome of e.
Advances(e) ==
    \/ OutcomeOf(e)' = OutcomeOf(e)
    \/ OutcomeOf(e).state = "NONE" /\ OutcomeOf(e)' = [state |-> "PENDING"]
    \/ /\ OutcomeOf(e).state = "PENDING"
       /\ \/ Completes(e)
          \/ \E code \in Codes : OutcomeOf(e)' = [state |-> "REJECTED", code |-> code]
          \/ OutcomeOf(e)' = [state |-> "DROPPED"]

(* A report is stored first of all, or after one that is already there.    *)
LEMMA InsertAdvances ==
    ASSUME EvaluationInv, NEW e \in EvaluationIds, NEW b \in Builds,
           workflows[e].status = "EVALUATED", Insert(e, b, workflows[e]),
           pending[e] # None \/ Completed(e)
    PROVE  Advances(e)
<1> DEFINE row == [build |-> b, digest |-> workflows[e].digest, verdict |-> workflows[e].verdict]
<1>1. EvaluationAt(e) /\ evaluations \in [EvaluationIds -> Seq(Row)]
  BY DEF EvaluationInv, EvaluationTypeOK
<1>2. row \in Row
  BY Tables DEF EvaluationInv, Row
<1>3. evaluations'[e] = Append(evaluations[e], row) /\ evaluations[e] \in Seq(Row)
  BY <1>1 DEF Insert
<1>4. evaluations'[e] # <<>> /\ rejections[e] = None
  <2>1. Len(evaluations'[e]) = Len(evaluations[e]) + 1
    BY <1>2, <1>3
  <2>2. rejections[e] = None
    BY <1>1 DEF EvaluationAt
  <2> QED BY <1>3, <2>1, <2>2
<1>5. CASE Completed(e)
  <2>1. Head(evaluations'[e]) = Head(evaluations[e])
    BY <1>2, <1>3, <1>5 DEF Completed
  <2> QED BY <1>4, <1>5, <2>1 DEF Advances, OutcomeOf, Completed
<1>6. CASE ~ Completed(e)
  <2>1. Head(evaluations'[e]) = row
    BY <1>2, <1>3, <1>6 DEF Completed
  <2>2. OutcomeOf(e)' = [state |-> "COMPLETED", record |-> row]
    BY <1>4, <2>1 DEF OutcomeOf, Completed
  <2>3. OutcomeOf(e).state = "PENDING"
    BY <1>4, <1>6 DEF OutcomeOf
  <2> QED BY <1>2, <2>2, <2>3 DEF Advances, Completes
<1> QED BY <1>5, <1>6

LEMMA StepAdvances ==
    ASSUME EvaluationInv, NEW e \in EvaluationIds, EvaluationStep(e)
    PROVE  Advances(e)
<1>1. EvaluationAt(e) /\ EvaluationTypeOK
  BY DEF EvaluationInv
<1>2. ASSUME NEW b \in Builds, StartEvaluation(e, b)
      PROVE  Advances(e)
  <2>1. /\ pending'[e] # None
        /\ ~ Completed(e) /\ ~ Completed(e)' /\ rejections[e] = None /\ rejections'[e] = None
        /\ pending[e] = None /\ calls[e].status = "UNUSED"
    BY <1>1, <1>2 DEF StartEvaluation, RecordPending, EvaluationAt, Accounted, Completed,
       EvaluationTypeOK, None
  <2> QED BY <2>1 DEF Advances, OutcomeOf
<1>3. ASSUME GatewayAccepted(e)
      PROVE  Advances(e)
  BY <1>1, <1>3 DEF GatewayAccepted, Return, storeVars, EvaluationAt, Waiting, Accounted,
     Advances, OutcomeOf, Completed
<1>4. ASSUME GatewayFailed(e)
      PROVE  Advances(e)
  <2>1. /\ evaluations' = evaluations /\ rejections' = rejections
        /\ calls'[e] = [status |-> "RETURNED"] /\ calls[e].status = "BOUND"
        /\ ~ Completed(e) => pending'[e] = None
    BY <1>1, <1>4 DEF GatewayFailed, Return, DeletePending, Waiting, EvaluationTypeOK
  <2> QED BY <1>1, <2>1 DEF EvaluationAt, Waiting, Accounted, Advances, OutcomeOf, Completed
<1>5. ASSUME Reported(e)
      PROVE  Advances(e)
  <2>1. /\ workflows[e].status = "EVALUATED" /\ rejections[e] = None
        /\ pending[e] # None \/ Completed(e)
        /\ calls[e].build \in Builds
    BY <1>1, <1>5, Tables DEF Reported, EvaluationAt, Accounted, Binding
  <2>2. PICK b \in Builds : b = calls[e].build
    BY <2>1
  <2>3. Insert(e, b, workflows[e])
    BY <1>5, <2>2 DEF Reported
  <2> QED BY <2>1, <2>3, InsertAdvances
<1>6. ASSUME CallbackCompletes(e)
      PROVE  Advances(e)
  <2>1. /\ workflows[e].status = "EVALUATED" /\ pending[e] # None
        /\ pending[e].build \in Builds
    BY <1>1, <1>6, Tables DEF CallbackCompletes, Undecided, Binding
  <2>2. PICK b \in Builds : b = pending[e].build
    BY <2>1
  <2>3. Insert(e, b, workflows[e])
    BY <1>6, <2>2 DEF CallbackCompletes
  <2> QED BY <2>1, <2>3, InsertAdvances
<1>7. ASSUME CallbackRejects(e)
      PROVE  Advances(e)
  <2>1. /\ workflows[e] \in [status : {"REJECT"}, code : Codes]
        /\ rejections'[e] = workflows[e] /\ rejections'[e] # None
        /\ ~ Completed(e) /\ ~ Completed(e)'
        /\ rejections[e] = None /\ pending[e] # None
    BY <1>1, <1>7, Tables DEF CallbackRejects, Undecided, EvaluationAt, EvaluationTypeOK,
       Completed, None
  <2>2. /\ OutcomeOf(e).state = "PENDING"
        /\ OutcomeOf(e)' = [state |-> "REJECTED", code |-> workflows[e].code]
        /\ workflows[e].code \in Codes
    BY <2>1 DEF OutcomeOf
  <2> QED BY <2>2 DEF Advances
<1>8. ASSUME Accept(e) \/ \E response \in Response : Respond(e, response)
      PROVE  Advances(e)
  BY <1>8 DEF Accept, Respond, storeVars, Advances, OutcomeOf, Completed
<1> QED BY <1>2, <1>3, <1>4, <1>5, <1>6, <1>7, <1>8
        DEF EvaluationStep, GatewayCompleted, CrashInReport

LEMMA OutcomeInitially == Init => Outcome!OutcomeInit
BY DEF Init, Outcome!OutcomeInit, OutcomeOf, Completed

LEMMA OutcomeStep ==
    EvaluationInv /\ BuildInv /\ [Next]_vars
        => [Outcome!OutcomeNext]_([e \in EvaluationIds |-> OutcomeOf(e)])
<1> SUFFICES ASSUME EvaluationInv, BuildInv, [Next]_vars
             PROVE  [Outcome!OutcomeNext]_([e \in EvaluationIds |-> OutcomeOf(e)])
  OBVIOUS
<1> DEFINE out == [e \in EvaluationIds |-> OutcomeOf(e)]
<1>1. ASSUME \A e \in EvaluationIds : Untouched(e)
      PROVE  out' = out
  BY <1>1, UntouchedOutcome
<1>2. CASE BuildStep \/ UNCHANGED vars
  <2>1. \A e \in EvaluationIds : Untouched(e)
    BY <1>2 DEF BuildStep, Untouched, vars, evaluationVars, storeVars
  <2> QED BY <1>1, <2>1
<1>3. CASE Crash
  <2>1. \A e \in EvaluationIds : Untouched(e)
    BY <1>3, CallsLost DEF Crash, Untouched, EvaluationInv, storeVars
  <2> QED BY <1>1, <2>1
<1>4. ASSUME NEW e \in EvaluationIds, EvaluationStep(e)
      PROVE  out' = out \/ Outcome!OutcomeNext
  <2>1. \A other \in EvaluationIds \ {e} : OutcomeOf(other)' = OutcomeOf(other)
    BY <1>4, StepIsLocal, UntouchedOutcome
  <2>2. out' = [out EXCEPT ![e] = OutcomeOf(e)']
    BY <2>1
  <2>3. out[e] = OutcomeOf(e)
    OBVIOUS
  <2>4. Advances(e)
    BY <1>4, StepAdvances
  <2>5. CASE OutcomeOf(e)' = OutcomeOf(e)
    BY <2>2, <2>5
  <2>6. CASE OutcomeOf(e).state = "NONE" /\ OutcomeOf(e)' = [state |-> "PENDING"]
    <3>1. Outcome!RequestOutcome(e)
      BY <2>2, <2>3, <2>6 DEF Outcome!RequestOutcome
    <3> QED BY <3>1 DEF Outcome!OutcomeNext
  <2>7. CASE OutcomeOf(e).state = "PENDING" /\ Completes(e)
    <3>1. PICK record \in Row : OutcomeOf(e)' = [state |-> "COMPLETED", record |-> record]
      BY <2>7 DEF Completes
    <3>2. Outcome!Complete(e, record)
      BY <2>2, <2>3, <2>7, <3>1 DEF Outcome!Complete, Outcome!Requested
    <3> QED BY <3>2 DEF Outcome!OutcomeNext
  <2>8. ASSUME OutcomeOf(e).state = "PENDING", NEW code \in Codes,
               OutcomeOf(e)' = [state |-> "REJECTED", code |-> code]
        PROVE  Outcome!OutcomeNext
    <3>1. Outcome!Reject(e, code)
      BY <2>2, <2>3, <2>8 DEF Outcome!Reject, Outcome!Requested
    <3> QED BY <3>1 DEF Outcome!OutcomeNext
  <2>9. CASE OutcomeOf(e).state = "PENDING" /\ OutcomeOf(e)' = [state |-> "DROPPED"]
    <3>1. Outcome!Drop(e)
      BY <2>2, <2>3, <2>9 DEF Outcome!Drop, Outcome!Requested
    <3> QED BY <3>1 DEF Outcome!OutcomeNext
  <2> HIDE DEF out
  <2> QED BY <2>4, <2>5, <2>6, <2>7, <2>8, <2>9 DEF Advances
<1> QED BY <1>2, <1>3, <1>4 DEF Next

(* The store's tables implement one outcome per evaluation: requested at   *)
(* most once, and final from then on, whichever of the callback and the    *)
(* gateway's answer is stored first and wherever the process stops.        *)
THEOREM StoreImplementsOutcomes == Spec => OutcomesAreFinal
<1>1. Init => Outcome!OutcomeInit
  BY OutcomeInitially
<1> QED BY <1>1, OutcomeStep, EvaluationInvariant, BuildsKeepInv, PTL
        DEF Spec, OutcomesAreFinal, Outcome!OutcomeSpec

-----------------------------------------------------------------------------
(* Answers.  The evaluations above take a response to be about whatever    *)
(* the workflow was asked; here is why the three ways an answer comes back *)
(* take only the answer to their own request, whatever the payload, the    *)
(* secrets and the configuration of the workflow were.                     *)
CONSTANT VerdictUnder   \* envelope -> the verdict of the traces in play

Cre == INSTANCE CreProtocol

\* The one result that request asked can have.
OwnRecord(asked, verdict) ==
    [evaluation |-> asked.request.evaluation, inputs |-> asked.request.inputs,
     verdict |-> verdict, evaluatedAt |-> asked.evaluatedAt]

\* What the workflow says when it accepts a payload.
LEMMA EvaluatedIsOfPayload ==
    ASSUME NEW secret, NEW payload, NEW response, response = Cre!Evaluate(secret, payload),
           response.status = "EVALUATED"
    PROVE  LET request == payload.content.request
           IN  /\ secret = request.inputs.commitment
               /\ response = [status |-> "EVALUATED", version |-> payload.content.version,
                              behavior |-> payload.behavior,
                              result |-> [evaluation |-> request.evaluation, inputs |-> request.inputs,
                                          verdict |-> VerdictUnder[secret],
                                          evaluatedAt |-> payload.content.evaluatedAt]]
BY DEF Cre!Evaluate, Cre!Reject, Cre!ParseConfidentialInput, Cre!Unreadable, Cre!CommitsTo

\* An answer that passes the last checks of a client is about what was asked.
LEMMA OwnIsOfAsked ==
    ASSUME NEW asked, NEW payload, NEW requireSelector, NEW secret, NEW response,
           Cre!ParsePublicRequest(payload, requireSelector) = "ACCEPTED",
           response = Cre!Evaluate(secret, payload), response.status = "EVALUATED",
           Cre!OwnResult(response, Cre!PublicRequest(asked))
    PROVE  response.result = OwnRecord(asked, VerdictUnder[asked.request.inputs.commitment])
<1>1. payload.behavior = Cre!DigestBehaviorInput(payload.content)
  BY DEF Cre!ParsePublicRequest
<1>2. response.behavior = payload.behavior
  BY EvaluatedIsOfPayload
<1>3. payload.behavior = Cre!PublicRequest(asked).behavior
  BY <1>2 DEF Cre!OwnResult
<1>4. payload.content = Cre!PublicRequest(asked).content
  BY <1>1, <1>3 DEF Cre!PublicRequest, Cre!DigestBehaviorInput
<1>5. payload.content.request = asked.request /\ payload.content.evaluatedAt = asked.evaluatedAt
  BY <1>4 DEF Cre!PublicRequest
<1> QED BY <1>5, EvaluatedIsOfPayload DEF OwnRecord

\* What the workflow answers or delivers, as evaluated, is its evaluation.
LEMMA TeeShape ==
    ASSUME NEW config, NEW secrets, NEW delivery, NEW payload, NEW response,
           \/ response = Cre!EvaluateInTee(config, secrets, delivery, payload).answer
           \/ \E callback \in Cre!EvaluateInTee(config, secrets, delivery, payload).delivered :
                 response = callback.response,
           response.status # "REJECT"
    PROVE  /\ Cre!ParsePublicRequest(payload, config.requireSelector) = "ACCEPTED"
           /\ response = Cre!Evaluate(Cre!SecretFor(secrets, payload.content.selector), payload)
           /\ response.status = "EVALUATED"
<1>1. PICK evaluated : evaluated = Cre!Evaluate(Cre!SecretFor(secrets, payload.content.selector), payload)
  OBVIOUS
<1>2. evaluated.status # "REJECT" => evaluated.status = "EVALUATED"
  BY <1>1 DEF Cre!Evaluate, Cre!Reject, Cre!ParseConfidentialInput, Cre!Unreadable
<1>3. CASE Cre!ParsePublicRequest(payload, config.requireSelector) # "ACCEPTED"
  BY <1>3 DEF Cre!EvaluateInTee, Cre!Reject
<1>4. CASE Cre!ParsePublicRequest(payload, config.requireSelector) = "ACCEPTED"
  <2>1. Cre!EvaluateInTee(config, secrets, delivery, payload)
           = Cre!Deliver(config, delivery, payload.content.request.evaluation, evaluated)
    BY <1>1, <1>4 DEF Cre!EvaluateInTee
  <2>2. response = evaluated
    BY <2>1 DEF Cre!Deliver, Cre!Reject, Cre!MakeCallback
  <2> QED BY <1>1, <1>2, <1>4, <2>2
<1> QED BY <1>3, <1>4

\* An answer that is a rejection carries a code and nothing else.
LEMMA RejectionShape ==
    ASSUME NEW config, NEW secrets, NEW delivery, NEW payload, NEW answer,
           answer = Cre!EvaluateInTee(config, secrets, delivery, payload).answer,
           answer.status = "REJECT"
    PROVE  \E code, version : answer = Cre!Reject(code, version)
<1>1. PICK evaluated : evaluated = Cre!Evaluate(Cre!SecretFor(secrets, payload.content.selector), payload)
  OBVIOUS
<1>2. evaluated.status = "REJECT" => \E code, version : evaluated = Cre!Reject(code, version)
  BY <1>1 DEF Cre!Evaluate, Cre!ParseConfidentialInput, Cre!Unreadable
<1>3. CASE Cre!ParsePublicRequest(payload, config.requireSelector) # "ACCEPTED"
  BY <1>3 DEF Cre!EvaluateInTee
<1>4. CASE Cre!ParsePublicRequest(payload, config.requireSelector) = "ACCEPTED"
  <2>1. Cre!EvaluateInTee(config, secrets, delivery, payload)
           = Cre!Deliver(config, delivery, payload.content.request.evaluation, evaluated)
    BY <1>1, <1>4 DEF Cre!EvaluateInTee
  <2>2. answer = evaluated \/ \E code, version : answer = Cre!Reject(code, version)
    BY <2>1 DEF Cre!Deliver
  <2> QED BY <1>2, <2>2
<1> QED BY <1>3, <1>4

\* Whatever payload and secrets the workflow was given, the callback it delivers is
\* taken for a request only if it is about that request (completeCreEvaluation).
THEOREM CallbackIsOfRequest ==
    ASSUME NEW asked, NEW config, NEW secrets, NEW delivery, NEW payload,
           NEW callback \in Cre!EvaluateInTee(config, secrets, delivery, payload).delivered
    PROVE  \/ \E code : Cre!FromCallback(asked, callback) = Cre!Error(code)
           \/ Cre!FromCallback(asked, callback)
                 = OwnRecord(asked, VerdictUnder[asked.request.inputs.commitment])
<1>1. PICK response : response = callback.response
  OBVIOUS
<1>2. CASE response.status # "REJECT" /\ Cre!OwnResult(response, Cre!PublicRequest(asked))
  BY <1>1, <1>2, TeeShape, OwnIsOfAsked DEF Cre!FromCallback
<1> QED BY <1>1, <1>2 DEF Cre!FromCallback

\* The same of the answer as the gateway client reads it (CreHttpEvaluationClient),
\* however the exchange with the gateway ends.
THEOREM GatewayAnswerIsOfRequest ==
    ASSUME NEW asked, NEW config, NEW secrets, NEW delivery, NEW payload, NEW reply,
           reply.http \in {"OK", "REFUSED", "UNREADABLE", "UNREACHABLE"}, reply.own \in BOOLEAN,
           \/ reply.body = Cre!EvaluateInTee(config, secrets, delivery, payload).answer
           \/ reply.body.status \in {"ACCEPTED", "ERROR"}
    PROVE  \/ \E code : Cre!FromGateway(asked, reply) = Cre!Error(code)
           \/ Cre!FromGateway(asked, reply)
                 = OwnRecord(asked, VerdictUnder[asked.request.inputs.commitment])
<1>1. PICK body : body = reply.body
  OBVIOUS
<1>2. PICK answer : answer = Cre!EvaluateInTee(config, secrets, delivery, payload).answer
  OBVIOUS
<1>3. body.status # "REJECT" /\ body = answer => body.status = "EVALUATED"
  BY <1>2, TeeShape
<1>4. PICK response : response = Cre!ResponseJson(reply)
  OBVIOUS
<1>5. (\E code : response = Cre!Error(code))
         \/ (response = body /\ body = answer /\ body.status \in {"EVALUATED", "REJECT"})
  BY <1>1, <1>2, <1>3, <1>4 DEF Cre!ResponseJson
<1>6. \A code : "error" \in DOMAIN Cre!Error(code)
  BY DEF Cre!Error
<1>7. CASE \E code : response = Cre!Error(code)
  BY <1>4, <1>6, <1>7 DEF Cre!FromGateway
<1>8. CASE response = body /\ body = answer /\ body.status = "REJECT"
  <2>1. PICK code, version : answer = Cre!Reject(code, version)
    BY <1>2, <1>8, RejectionShape
  <2>2. "error" \notin DOMAIN response
    BY <1>8, <2>1 DEF Cre!Reject
  <2> QED BY <1>4, <1>8, <2>2 DEF Cre!FromGateway
<1>9. CASE response = body /\ body = answer /\ body.status = "EVALUATED"
  <2>1. /\ Cre!ParsePublicRequest(payload, config.requireSelector) = "ACCEPTED"
        /\ response = Cre!Evaluate(Cre!SecretFor(secrets, payload.content.selector), payload)
        /\ response.status = "EVALUATED"
    BY <1>2, <1>9, TeeShape
  <2>2. "error" \notin DOMAIN response
    BY <2>1, EvaluatedIsOfPayload
  <2>3. Cre!OwnResult(response, Cre!PublicRequest(asked)) =>
           response.result = OwnRecord(asked, VerdictUnder[asked.request.inputs.commitment])
    BY <2>1, OwnIsOfAsked
  <2> QED BY <1>4, <2>1, <2>2, <2>3 DEF Cre!FromGateway
<1> QED BY <1>5, <1>7, <1>8, <1>9

\* The first of some places in a sequence is one of them.
LEMMA FirstIsOne ==
    ASSUME NEW T \in SUBSET Nat, T # {}
    PROVE  Cre!Min(T) \in T
<1>1. PICK R : R = {pair \in Nat \X Nat : pair[1] < pair[2]}
  OBVIOUS
<1>2. IsWellFoundedOn(R, Nat)
  BY <1>1, NatLessThanWellFounded DEF OpToRel
<1>3. PICK x \in T : \A y \in T : ~(<<y, x>> \in R)
  BY <1>2, WFMin
<1>4. ASSUME NEW y \in T PROVE x <= y
  <2>1. x \in Nat /\ y \in Nat
    OBVIOUS
  <2>2. <<y, x>> \in Nat \X Nat /\ <<y, x>>[1] = y /\ <<y, x>>[2] = x
    BY <2>1
  <2>3. ~(y < x)
    BY <1>1, <1>3, <2>2
  <2> QED BY <2>1, <2>3
<1> QED BY <1>4 DEF Cre!Min

\* The same of what the simulation prints, whatever else it prints and whoever's answers:
\* the first answer is taken, but only for the request it answers (CreCliSimulationClient).
THEOREM CliAnswerIsOfRequest ==
    ASSUME NEW asked, NEW Values, NEW run, run.output \in Seq(Values),
           \A i \in 1..Len(run.output) :
              \/ run.output[i].status \notin {"EVALUATED", "REJECT"}
              \/ \E config, secrets, delivery, payload :
                    run.output[i] = Cre!EvaluateInTee(config, secrets, delivery, payload).answer
    PROVE  \/ \E code : Cre!FromCli(asked, run) = Cre!Error(code)
           \/ Cre!FromCli(asked, run)
                 = OwnRecord(asked, VerdictUnder[asked.request.inputs.commitment])
<1>1. PICK responses : responses = Cre!PublicResponses(run.output)
  OBVIOUS
<1>2. CASE responses = {}
  BY <1>1, <1>2 DEF Cre!FromCli
<1>3. CASE responses # {}
  <2>1. \A i \in responses : /\ i \in 1..Len(run.output)
                             /\ run.output[i].status \in {"EVALUATED", "REJECT"}
    BY <1>1 DEF Cre!PublicResponses
  <2>2. Cre!Min(responses) \in responses
    BY <1>3, <2>1, FirstIsOne
  <2>3. PICK response : response = run.output[Cre!Min(responses)]
    OBVIOUS
  <2>4. PICK config, secrets, delivery, payload :
           response = Cre!EvaluateInTee(config, secrets, delivery, payload).answer
    BY <2>1, <2>2, <2>3
  <2>5. CASE response.status # "REJECT" /\ Cre!OwnResult(response, Cre!PublicRequest(asked))
    <3>1. response.result = OwnRecord(asked, VerdictUnder[asked.request.inputs.commitment])
      BY <2>4, <2>5, TeeShape, OwnIsOfAsked
    <3> QED BY <1>1, <2>3, <3>1 DEF Cre!FromCli, Cre!MakeCallback
  <2>6. CASE response.status = "REJECT" \/ ~Cre!OwnResult(response, Cre!PublicRequest(asked))
    BY <1>1, <2>3, <2>6 DEF Cre!FromCli, Cre!MakeCallback
  <2> QED BY <2>5, <2>6
<1> QED BY <1>2, <1>3

-----------------------------------------------------------------------------
(* Issuing a clearance.                                                    *)
\* What a run of the script and its transaction look like.
Script ==
    [phase : {"IDLE"}]
    \cup [phase : {"CHECKED", "BLOCKED"}, writes : BOOLEAN, id : ClearanceIds, subject : Subjects]
    \cup [phase : {"BUILT", "SENT", "MINED", "CONFIRMED", "BLOCKED"}, writes : BOOLEAN,
          clearance : Drafts]
Sent == [status : {"NONE"}] \cup [status : {"PENDING", "success", "reverted"}, of : Drafts]

IssuanceTypeOK ==
    /\ Contract!RegistryTypeOK /\ now <= MaxTime
    /\ scripts \in [Scripts -> Script]
    /\ transactions \in [Scripts -> Sent]

\* The store holds a CLEAR verdict about what the build of a subject was promoted with.
Justified(subject) ==
    /\ Evaluable(subject.build) /\ subject.digest = builds[subject.build].digest
    /\ \E i \in 1..Len(evaluations[subject.evaluation]) :
          evaluations[subject.evaluation][i] =
              [build |-> subject.build, digest |-> subject.digest, verdict |-> "CLEAR"]

\* Recorded for good, under its own id.
Reserved(clearance) ==
    clearance # Zero /\ Contract!Exists(clearance) /\ digestByIdHash[clearance.id] = clearance

RecordsJustified ==
    \A clearance \in Drafts :
        Contract!Exists(clearance) => Reserved(clearance) /\ Justified(clearance.content)

ScriptAt(o) ==
    LET run == scripts[o]
        sent == transactions[o]
    IN  /\ run.phase = "CHECKED" => Justified(run.subject)
        /\ run.phase \in {"BUILT", "SENT", "MINED", "CONFIRMED"} => Justified(run.clearance.content)
        /\ run.phase \in {"SENT", "MINED", "CONFIRMED"} =>
              sent.status # "NONE" /\ sent.of = run.clearance
        /\ run.phase \in {"MINED", "CONFIRMED"} => sent.status = "success"
        /\ sent.status # "NONE" => Justified(sent.of.content)
        /\ sent.status = "success" => Reserved(sent.of)

\* Two transactions never both record a clearance of one id.
SuccessesDistinct ==
    \A o, p \in Scripts :
        /\ transactions[o].status = "success" /\ transactions[p].status = "success"
        /\ transactions[o].of.id = transactions[p].of.id
        => o = p

OutputInv == output # NoFile => output \in Drafts /\ Reserved(output)

IssuanceInv ==
    /\ EvaluationInv /\ BuildInv
    /\ IssuanceTypeOK
    /\ RecordsJustified
    /\ \A o \in Scripts : ScriptAt(o)
    /\ SuccessesDistinct
    /\ OutputInv

USE IssuanceAssumption

-----------------------------------------------------------------------------
(* The contract, as the script drives it.                                  *)
LEMMA DraftShape ==
    ASSUME NEW clearance \in Drafts
    PROVE  /\ clearance.id \in ClearanceIds /\ clearance.content \in Subjects
           /\ clearance \in Contract!Bindings
<1>1. PICK id \in ClearanceIds, subject \in Subjects, t \in 0..MaxTime :
         clearance = ClearanceOf(id, subject, t)
  BY DEF Drafts
<1>2. t \in Nat /\ t + Ttl \in Nat
  OBVIOUS
<1> QED BY <1>1, <1>2 DEF ClearanceOf, Contract!Bindings, Contract!OrZero

LEMMA DraftMade ==
    ASSUME NEW id \in ClearanceIds, NEW subject \in Subjects, NEW t \in 0..MaxTime
    PROVE  /\ ClearanceOf(id, subject, t) \in Drafts
           /\ ClearanceOf(id, subject, t).content = subject
BY DEF Drafts, ClearanceOf

\* What a step of the contract leaves standing.
ContractKept ==
    /\ Contract!RegistryTypeOK' /\ now' <= MaxTime
    /\ \A clearance \in Drafts : Reserved(clearance) => Reserved(clearance)'

\* Nothing new is recorded.
Unrecorded == \A clearance \in Drafts : Contract!Exists(clearance)' => Contract!Exists(clearance)

LEMMA ContractStepKept ==
    ASSUME IssuanceTypeOK, ContractStep
    PROVE  ContractKept /\ Unrecorded
<1>1. /\ now \in Nat /\ registrars \in SUBSET {Registrar}
      /\ clearances \in [Drafts \cup {Zero} -> Contract!Clearance]
      /\ digestByIdHash \in [ClearanceIds \cup {Zero} -> Drafts \cup {Zero}]
      /\ now <= MaxTime
  BY DEF IssuanceTypeOK, Contract!RegistryTypeOK, Contract!OrZero
<1>2. CASE Contract!MineBlock
  BY <1>1, <1>2 DEF Contract!MineBlock, ContractKept, Unrecorded, Contract!RegistryTypeOK,
     Contract!OrZero, Reserved, Contract!Exists
<1>3. CASE \E authorized \in BOOLEAN : Contract!SetRegistrar(Registrar, Registrar, authorized)
  BY <1>1, <1>3 DEF Contract!SetRegistrar, ContractKept, Unrecorded, Contract!RegistryTypeOK,
     Contract!OrZero, Reserved, Contract!Exists
<1>4. ASSUME NEW clearance \in Drafts, Contract!RevokeClearance(Registrar, clearance)
      PROVE  ContractKept /\ Unrecorded
  <2>1. /\ clearances[clearance].status # "ABSENT"
        /\ clearances' = [clearances EXCEPT ![clearance].status = "REVOKED"]
        /\ now' = now /\ registrars' = registrars /\ digestByIdHash' = digestByIdHash
    BY <1>4 DEF Contract!RevokeClearance, Contract!Exists
  <2>2. PICK revoked : revoked = [clearances[clearance] EXCEPT !.status = "REVOKED"]
    OBVIOUS
  <2>3. clearances[clearance] \in Contract!Clearance
    BY <1>1
  <2>4. revoked \in Contract!Clearance /\ revoked.status = "REVOKED"
    BY <2>2, <2>3 DEF Contract!Clearance
  <2>5. clearances' = [clearances EXCEPT ![clearance] = revoked]
    BY <2>1, <2>2
  <2>6. /\ clearances' \in [Drafts \cup {Zero} -> Contract!Clearance]
        /\ clearances'[clearance].status = "REVOKED"
        /\ \A d \in Drafts \ {clearance} : clearances'[d] = clearances[d]
    BY <1>1, <2>4, <2>5
  <2>7. \A d \in Drafts : Contract!Exists(d)' <=> Contract!Exists(d)
    BY <2>1, <2>6 DEF Contract!Exists
  <2> QED BY <1>1, <2>1, <2>6, <2>7
          DEF ContractKept, Unrecorded, Contract!RegistryTypeOK, Contract!OrZero, Reserved
<1> QED BY <1>2, <1>3, <1>4 DEF ContractStep

\* recordClearance of a draft.
LEMMA RecordKept ==
    ASSUME IssuanceTypeOK, RecordsJustified, NEW clearance \in Drafts,
           Contract!RecordClearance(Registrar, clearance, clearance, "CLEAR")
    PROVE  /\ ContractKept
           /\ Reserved(clearance)'
           /\ \A d \in Drafts : d # clearance /\ Contract!Exists(d)' => Contract!Exists(d)
           /\ \A d \in Drafts : Reserved(d) => d.id # clearance.id
<1>1. /\ now \in Nat /\ registrars \in SUBSET {Registrar}
      /\ clearances \in [Drafts \cup {Zero} -> Contract!Clearance]
      /\ digestByIdHash \in [ClearanceIds \cup {Zero} -> Drafts \cup {Zero}]
      /\ now <= MaxTime
  BY DEF IssuanceTypeOK, Contract!RegistryTypeOK, Contract!OrZero
<1>2. PICK written : written = [bindings |-> clearance, verdict |-> "CLEAR",
                                issuer |-> Registrar, status |-> "RECORDED"]
  OBVIOUS
<1>3. written \in Contract!Clearance /\ written.status = "RECORDED"
  BY <1>2, DraftShape DEF Contract!Clearance, Contract!OrZero, Contract!Verdicts
<1>4. /\ clearance # Zero /\ clearances[clearance].status = "ABSENT"
      /\ digestByIdHash[clearance.id] = Zero
      /\ clearances' = [clearances EXCEPT ![clearance] = written]
      /\ digestByIdHash' = [digestByIdHash EXCEPT ![clearance.id] = clearance]
      /\ now' = now /\ registrars' = registrars
  BY <1>2 DEF Contract!RecordClearance, Contract!ValidInput, Contract!Exists
<1>5. clearance.id \in ClearanceIds
  BY DraftShape
<1>6. /\ clearances' \in [Drafts \cup {Zero} -> Contract!Clearance]
      /\ clearances'[clearance].status = "RECORDED"
      /\ \A d \in Drafts \ {clearance} : clearances'[d] = clearances[d]
  BY <1>1, <1>3, <1>4
<1>7. /\ digestByIdHash' \in [ClearanceIds \cup {Zero} -> Drafts \cup {Zero}]
      /\ digestByIdHash'[clearance.id] = clearance
      /\ \A id \in ClearanceIds \ {clearance.id} : digestByIdHash'[id] = digestByIdHash[id]
  BY <1>1, <1>4, <1>5
<1>8. Reserved(clearance)'
  BY <1>4, <1>6, <1>7 DEF Reserved, Contract!Exists
<1>9. \A d \in Drafts : Reserved(d) => d.id # clearance.id
  BY <1>4 DEF Reserved
<1>10. ASSUME NEW d \in Drafts, Reserved(d) PROVE Reserved(d)'
  <2>1. d.id \in ClearanceIds \ {clearance.id} /\ d # clearance
    BY <1>9, <1>10, DraftShape
  <2> QED BY <1>6, <1>7, <1>10, <2>1 DEF Reserved, Contract!Exists
<1>11. \A d \in Drafts : d # clearance /\ Contract!Exists(d)' => Contract!Exists(d)
  BY <1>6 DEF Contract!Exists
<1>12. ContractKept
  BY <1>1, <1>4, <1>6, <1>7, <1>10 DEF ContractKept, Contract!RegistryTypeOK, Contract!OrZero
<1> QED BY <1>8, <1>9, <1>11, <1>12

-----------------------------------------------------------------------------
(* The server meanwhile: what justifies a clearance is never taken back.   *)
LEMMA SubjectShape ==
    ASSUME NEW subject \in Subjects
    PROVE  /\ subject.evaluation \in EvaluationIds /\ subject.build \in Builds
           /\ subject.digest \in AnyDigest
BY DEF Subjects

LEMMA RecordsAreKept ==
    ASSUME EvaluationInv, [Next]_vars, NEW e \in EvaluationIds,
           NEW i \in 1..Len(evaluations[e])
    PROVE  i \in 1..Len(evaluations'[e]) /\ evaluations'[e][i] = evaluations[e][i]
<1>1. evaluations \in [EvaluationIds -> Seq(Row)] /\ evaluations[e] \in Seq(Row)
  BY DEF EvaluationInv, EvaluationTypeOK
<1>2. CASE evaluations' = evaluations
  BY <1>2
<1>3. ASSUME NEW other \in EvaluationIds, NEW b, NEW response, Insert(other, b, response)
      PROVE  i \in 1..Len(evaluations'[e]) /\ evaluations'[e][i] = evaluations[e][i]
  <2>1. PICK row : row = [build |-> b, digest |-> response.digest, verdict |-> response.verdict]
    OBVIOUS
  <2>2. evaluations'[e] \in {evaluations[e], Append(evaluations[e], row)}
    BY <1>1, <1>3, <2>1 DEF Insert
  <2>3. evaluations[e] \in Seq(Row \cup {row}) /\ row \in Row \cup {row}
    BY <1>1
  <2>4. CASE evaluations'[e] = Append(evaluations[e], row)
    BY <2>3, <2>4
  <2> QED BY <2>2, <2>4
<1>4. ASSUME NEW other \in EvaluationIds, Reported(other) \/ CallbackCompletes(other)
      PROVE  \E b, response : Insert(other, b, response)
  BY <1>4 DEF Reported, CallbackCompletes
<1>5. \/ evaluations' = evaluations
      \/ \E other \in EvaluationIds : Reported(other) \/ CallbackCompletes(other)
  BY DEF Next, BuildStep, Crash, EvaluationStep, StartEvaluation, GatewayAccepted, GatewayFailed,
     GatewayCompleted, CallbackRejects, Accept, Respond, CrashInReport, vars, evaluationVars,
     storeVars
<1> QED BY <1>2, <1>3, <1>4, <1>5

LEMMA JustifiedStays ==
    ASSUME EvaluationInv, BuildInv, [Next]_vars, NEW subject \in Subjects, Justified(subject)
    PROVE  Justified(subject)'
<1>1. builds'[subject.build] = builds[subject.build]
  BY StepsAreBuildSteps, EvaluableStays, SubjectShape DEF Justified
<1>2. PICK i \in 1..Len(evaluations[subject.evaluation]) :
         evaluations[subject.evaluation][i] =
             [build |-> subject.build, digest |-> subject.digest, verdict |-> "CLEAR"]
  BY DEF Justified
<1>3. /\ i \in 1..Len(evaluations'[subject.evaluation])
      /\ evaluations'[subject.evaluation][i] = evaluations[subject.evaluation][i]
  BY SubjectShape, RecordsAreKept
<1> QED BY <1>1, <1>2, <1>3 DEF Justified, Evaluable

LEMMA ReadIsJustified ==
    ASSUME EvaluationInv, NEW e \in EvaluationIds, ReadClear(e),
           NEW subject, subject = [evaluation |-> e, build |-> Head(evaluations[e]).build,
                                   digest |-> Head(evaluations[e]).digest]
    PROVE  subject \in Subjects /\ Justified(subject)
<1>1. evaluations[e] \in Seq(Row) /\ evaluations[e] # <<>>
  BY DEF ReadClear, Completed, EvaluationInv, EvaluationTypeOK
<1>2. PICK row \in Row : row = evaluations[e][1] /\ row = Head(evaluations[e])
  BY <1>1
<1>3. 1 \in 1..Len(evaluations[e])
  BY <1>1
<1>4. Promoted(row)
  BY <1>2, <1>3 DEF EvaluationInv, EvaluationAt
<1>5. row = [build |-> row.build, digest |-> row.digest, verdict |-> "CLEAR"]
  BY <1>2 DEF ReadClear, Row
<1>6. subject = [evaluation |-> e, build |-> row.build, digest |-> row.digest]
  BY <1>2
<1>7. subject \in Subjects
  BY <1>6 DEF Subjects, Row
<1>8. Justified(subject)
  BY <1>2, <1>3, <1>4, <1>5, <1>6 DEF Justified, Promoted
<1> QED BY <1>7, <1>8

-----------------------------------------------------------------------------
(* The steps.                                                              *)
LEMMA ScriptShape ==
    ASSUME NEW run \in Script
    PROVE  /\ run.phase \in {"IDLE", "CHECKED", "BUILT", "SENT", "MINED", "CONFIRMED", "BLOCKED"}
           /\ run.phase = "CHECKED" =>
                 run.subject \in Subjects /\ run.id \in ClearanceIds /\ run.writes \in BOOLEAN
           /\ run.phase \in {"BUILT", "SENT", "MINED", "CONFIRMED"} =>
                 run.clearance \in Drafts /\ run.writes \in BOOLEAN
BY DEF Script

LEMMA SentShape ==
    ASSUME NEW sent \in Sent
    PROVE  /\ sent.status \in {"NONE", "PENDING", "success", "reverted"}
           /\ sent.status # "NONE" => sent.of \in Drafts
BY DEF Sent

\* What ScriptAt says, of a run and a transaction named apart from the state.
LEMMA ScriptHolds ==
    ASSUME NEW o \in Scripts, NEW run, NEW sent, run = scripts'[o], sent = transactions'[o],
           run.phase = "CHECKED" => Justified(run.subject)',
           run.phase \in {"BUILT", "SENT", "MINED", "CONFIRMED"} => Justified(run.clearance.content)',
           run.phase \in {"SENT", "MINED", "CONFIRMED"} =>
              sent.status # "NONE" /\ sent.of = run.clearance,
           run.phase \in {"MINED", "CONFIRMED"} => sent.status = "success",
           sent.status # "NONE" => Justified(sent.of.content)',
           sent.status = "success" => Reserved(sent.of)'
    PROVE  ScriptAt(o)'
<1>1. (scripts[o].phase = "CHECKED" => Justified(scripts[o].subject))'
  BY DEF Justified, Evaluable
<1>2. (scripts[o].phase \in {"BUILT", "SENT", "MINED", "CONFIRMED"} =>
          Justified(scripts[o].clearance.content))'
  BY DEF Justified, Evaluable
<1>3. (transactions[o].status # "NONE" => Justified(transactions[o].of.content))'
  BY DEF Justified, Evaluable
<1>4. (transactions[o].status = "success" => Reserved(transactions[o].of))'
  BY DEF Reserved, Contract!Exists
<1> QED BY <1>1, <1>2, <1>3, <1>4 DEF ScriptAt

\* A run the step does not concern.
LEMMA ScriptStays ==
    ASSUME IssuanceTypeOK, NEW o \in Scripts, ScriptAt(o),
           scripts'[o] = scripts[o], transactions'[o] = transactions[o],
           \A subject \in Subjects : Justified(subject) => Justified(subject)',
           \A clearance \in Drafts : Reserved(clearance) => Reserved(clearance)'
    PROVE  ScriptAt(o)'
<1>1. PICK run \in Script, sent \in Sent : run = scripts[o] /\ sent = transactions[o]
  BY DEF IssuanceTypeOK
<1>2. /\ run.phase = "CHECKED" => Justified(run.subject)'
      /\ run.phase \in {"BUILT", "SENT", "MINED", "CONFIRMED"} => Justified(run.clearance.content)'
      /\ sent.status # "NONE" => Justified(sent.of.content)'
      /\ sent.status = "success" => Reserved(sent.of)'
  BY <1>1, ScriptShape, SentShape, DraftShape DEF ScriptAt
<1>3. /\ run.phase \in {"SENT", "MINED", "CONFIRMED"} =>
            sent.status # "NONE" /\ sent.of = run.clearance
      /\ run.phase \in {"MINED", "CONFIRMED"} => sent.status = "success"
  BY <1>1 DEF ScriptAt
<1> QED BY <1>1, <1>2, <1>3, ScriptHolds

LEMMA RecordsStayJustified ==
    ASSUME RecordsJustified, Unrecorded,
           \A subject \in Subjects : Justified(subject) => Justified(subject)',
           \A clearance \in Drafts : Reserved(clearance) => Reserved(clearance)'
    PROVE  RecordsJustified'
BY DraftShape DEF RecordsJustified, Unrecorded

LEMMA OutputStays ==
    ASSUME OutputInv, output' = output,
           \A clearance \in Drafts : Reserved(clearance) => Reserved(clearance)'
    PROVE  OutputInv'
<1>1. PICK file : file = output
  OBVIOUS
<1>2. file # NoFile => file \in Drafts /\ Reserved(file)'
  BY <1>1 DEF OutputInv
<1> QED BY <1>1, <1>2 DEF OutputInv, NoFile, Reserved, Contract!Exists

LEMMA ServerKeeps ==
    ASSUME IssuanceInv, [Next]_vars, UNCHANGED issuanceVars
    PROVE  IssuanceInv'
<1>1. BuildInv' /\ EvaluationInv'
  BY NextKeepsBuildInv, StepsAreBuildSteps, NextKeepsEvaluationInv DEF IssuanceInv
<1>2. UNCHANGED <<now, registrars, clearances, digestByIdHash, scripts, transactions, output>>
  BY DEF issuanceVars, contractVars
<1>3. IssuanceTypeOK' /\ SuccessesDistinct'
  BY <1>2 DEF IssuanceInv, IssuanceTypeOK, Contract!RegistryTypeOK, SuccessesDistinct
<1>4. \A subject \in Subjects : Justified(subject) => Justified(subject)'
  BY JustifiedStays DEF IssuanceInv
<1>5. /\ \A clearance \in Drafts : Reserved(clearance) => Reserved(clearance)'
      /\ Unrecorded
  BY <1>2 DEF Reserved, Contract!Exists, Unrecorded
<1>6. \A o \in Scripts : ScriptAt(o)'
  BY <1>2, <1>4, <1>5, ScriptStays DEF IssuanceInv
<1> QED BY <1>1, <1>2, <1>3, <1>4, <1>5, <1>6, RecordsStayJustified, OutputStays DEF IssuanceInv

\* Without the server, what is justified stays as it is.
LEMMA ServerRests ==
    ASSUME IssuanceInv, UNCHANGED vars
    PROVE  /\ EvaluationInv' /\ BuildInv'
           /\ \A subject \in Subjects : Justified(subject) => Justified(subject)'
<1>1. [Next]_vars /\ [BuildNext]_buildVars
  BY DEF vars
<1>2. BuildInv' /\ EvaluationInv'
  BY <1>1, NextKeepsBuildInv, NextKeepsEvaluationInv DEF IssuanceInv
<1>3. \A subject \in Subjects : Justified(subject) => Justified(subject)'
  BY <1>1, JustifiedStays DEF IssuanceInv
<1> QED BY <1>2, <1>3

LEMMA ContractKeeps ==
    ASSUME IssuanceInv, ContractStep, UNCHANGED vars
    PROVE  IssuanceInv'
<1>1. UNCHANGED <<scripts, transactions, output>>
  BY DEF ContractStep
<1>2. ContractKept /\ Unrecorded
  BY ContractStepKept DEF IssuanceInv
<1>3. IssuanceTypeOK' /\ SuccessesDistinct'
  BY <1>1, <1>2 DEF IssuanceInv, IssuanceTypeOK, ContractKept, SuccessesDistinct
<1>4. \A o \in Scripts : ScriptAt(o)'
  BY <1>1, <1>2, ServerRests, ScriptStays DEF IssuanceInv, ContractKept
<1> QED BY <1>1, <1>2, <1>3, <1>4, ServerRests, RecordsStayJustified, OutputStays
        DEF IssuanceInv, ContractKept

\* A step of run o off the chain.
\* What the store and the contract say stays so while both rest.
LEMMA FactsStay ==
    ASSUME IssuanceInv, UNCHANGED <<vars, contractVars>>
    PROVE  /\ \A subject \in Subjects : Justified(subject) => Justified(subject)'
           /\ \A clearance \in Drafts : Reserved(clearance) => Reserved(clearance)'
<1>1. UNCHANGED digestByIdHash /\ UNCHANGED clearances
  BY DEF contractVars
<1>2. \A clearance \in Drafts : Reserved(clearance) => Reserved(clearance)'
  BY <1>1 DEF Reserved, Contract!Exists
<1> QED BY <1>2, ServerRests

LEMMA RunMoves ==
    ASSUME IssuanceInv, UNCHANGED <<vars, contractVars>>, NEW o \in Scripts,
           scripts' \in [Scripts -> Script], transactions' \in [Scripts -> Sent],
           \A p \in Scripts \ {o} : scripts'[p] = scripts[p] /\ transactions'[p] = transactions[p],
           transactions'[o].status = "success" => transactions'[o] = transactions[o],
           ScriptAt(o)',
           output' = output \/ (output' \in Drafts /\ Reserved(output)')
    PROVE  IssuanceInv'
<1>1. UNCHANGED <<now, registrars, clearances, digestByIdHash>>
  BY DEF contractVars
<1>2. /\ \A clearance \in Drafts : Reserved(clearance) => Reserved(clearance)'
      /\ Unrecorded
  BY <1>1, FactsStay DEF Contract!Exists, Unrecorded
<1>3. IssuanceTypeOK'
  BY <1>1 DEF IssuanceInv, IssuanceTypeOK, Contract!RegistryTypeOK
<1>4. SuccessesDistinct'
  BY DEF IssuanceInv, SuccessesDistinct
<1>5. \A p \in Scripts \ {o} : ScriptAt(p)'
  BY <1>2, ServerRests, ScriptStays DEF IssuanceInv
<1>6. OutputInv'
  BY <1>2, OutputStays DEF IssuanceInv, OutputInv
<1> QED BY <1>2, <1>3, <1>4, <1>5, <1>6, ServerRests, RecordsStayJustified DEF IssuanceInv

\* A run moves on with the clearance it has.
LEMMA GotoShape ==
    ASSUME IssuanceTypeOK, NEW o \in Scripts, NEW run, run = scripts[o],
           run.phase \in {"BUILT", "SENT", "MINED"},
           NEW phase \in {"SENT", "MINED", "CONFIRMED", "BLOCKED"}, Goto(o, phase)
    PROVE  /\ scripts' \in [Scripts -> Script]
           /\ scripts'[o].phase = phase /\ scripts'[o].clearance = run.clearance
           /\ \A p \in Scripts \ {o} : scripts'[p] = scripts[p]
<1>1. run \in Script /\ scripts \in [Scripts -> Script]
  BY DEF IssuanceTypeOK
<1>2. PICK moved : moved = [run EXCEPT !.phase = phase]
  OBVIOUS
<1>3. run \in [phase : {"BUILT", "SENT", "MINED", "CONFIRMED", "BLOCKED"}, writes : BOOLEAN,
               clearance : Drafts]
  BY <1>1 DEF Script
<1>4. moved \in Script /\ moved.phase = phase /\ moved.clearance = run.clearance
  BY <1>2, <1>3 DEF Script
<1>5. scripts' = [scripts EXCEPT ![o] = moved]
  BY <1>2 DEF Goto
<1> QED BY <1>1, <1>4, <1>5

LEMMA StartScriptKeeps ==
    ASSUME IssuanceInv, UNCHANGED vars, NEW o \in Scripts, NEW e \in EvaluationIds,
           NEW id \in ClearanceIds, NEW writes \in BOOLEAN, StartScript(o, e, id, writes)
    PROVE  IssuanceInv'
<1>1. PICK subject : subject = [evaluation |-> e, build |-> Head(evaluations[e]).build,
                                digest |-> Head(evaluations[e]).digest]
  OBVIOUS
<1>2. subject \in Subjects /\ Justified(subject)
  BY <1>1, ReadIsJustified DEF StartScript, IssuanceInv
<1>3. PICK run : run = [phase |-> "CHECKED", writes |-> writes, id |-> id, subject |-> subject]
  OBVIOUS
<1>4. run \in Script /\ run.phase = "CHECKED" /\ run.subject = subject
  BY <1>2, <1>3 DEF Script
<1>5. /\ scripts' = [scripts EXCEPT ![o] = run] /\ scripts[o].phase = "IDLE"
      /\ UNCHANGED <<contractVars, transactions, output>>
  BY <1>1, <1>3 DEF StartScript
<1>6. /\ scripts' \in [Scripts -> Script] /\ scripts'[o] = run
      /\ \A p \in Scripts \ {o} : scripts'[p] = scripts[p]
  BY <1>4, <1>5 DEF IssuanceInv, IssuanceTypeOK
<1>7. PICK sent \in Sent : sent = transactions[o] /\ sent = transactions'[o]
  BY <1>5 DEF IssuanceInv, IssuanceTypeOK
<1>8. /\ sent.status # "NONE" => Justified(sent.of.content)
      /\ sent.status = "success" => Reserved(sent.of)
  BY <1>7 DEF IssuanceInv, ScriptAt
<1>9. ScriptAt(o)'
  <2>1. /\ Justified(run.subject)'
        /\ sent.status # "NONE" => Justified(sent.of.content)'
        /\ sent.status = "success" => Reserved(sent.of)'
    BY <1>2, <1>4, <1>5, <1>7, <1>8, SentShape, DraftShape, FactsStay
  <2> QED BY <1>4, <1>6, <1>7, <2>1, ScriptHolds
<1> QED BY <1>5, <1>6, <1>9, RunMoves DEF IssuanceInv, IssuanceTypeOK

LEMMA BuildClearanceKeeps ==
    ASSUME IssuanceInv, UNCHANGED vars, NEW o \in Scripts, BuildClearance(o)
    PROVE  IssuanceInv'
<1>1. PICK run \in Script : run = scripts[o]
  BY DEF IssuanceInv, IssuanceTypeOK
<1>2. run.phase = "CHECKED" /\ run.id \in ClearanceIds /\ run.subject \in Subjects
      /\ run.writes \in BOOLEAN /\ Justified(run.subject)
  BY <1>1, ScriptShape DEF BuildClearance, IssuanceInv, ScriptAt
<1>3. now \in 0..MaxTime
  BY DEF IssuanceInv, IssuanceTypeOK, Contract!RegistryTypeOK
<1>4. PICK clearance : clearance = ClearanceOf(run.id, run.subject, now)
  OBVIOUS
<1>5. clearance \in Drafts /\ Justified(clearance.content)
  BY <1>2, <1>3, <1>4, DraftMade
<1>6. PICK built : built = [phase |-> "BUILT", writes |-> run.writes, clearance |-> clearance]
  OBVIOUS
<1>7. built \in Script /\ built.phase = "BUILT" /\ built.clearance = clearance
  BY <1>2, <1>5, <1>6 DEF Script
<1>8. /\ scripts' = [scripts EXCEPT ![o] = built]
      /\ UNCHANGED <<contractVars, transactions, output>>
  BY <1>1, <1>4, <1>6 DEF BuildClearance
<1>9. /\ scripts' \in [Scripts -> Script] /\ scripts'[o] = built
      /\ \A p \in Scripts \ {o} : scripts'[p] = scripts[p]
  BY <1>7, <1>8 DEF IssuanceInv, IssuanceTypeOK
<1>10. PICK sent \in Sent : sent = transactions[o] /\ sent = transactions'[o]
  BY <1>8 DEF IssuanceInv, IssuanceTypeOK
<1>11. /\ sent.status # "NONE" => Justified(sent.of.content)
       /\ sent.status = "success" => Reserved(sent.of)
  BY <1>10 DEF IssuanceInv, ScriptAt
<1>12. ScriptAt(o)'
  <2>1. /\ Justified(built.clearance.content)'
        /\ sent.status # "NONE" => Justified(sent.of.content)'
        /\ sent.status = "success" => Reserved(sent.of)'
    BY <1>5, <1>7, <1>8, <1>11, SentShape, DraftShape, FactsStay
  <2> QED BY <1>7, <1>9, <1>10, <2>1, ScriptHolds
<1> QED BY <1>8, <1>9, <1>12, RunMoves DEF IssuanceInv, IssuanceTypeOK

LEMMA SendKeeps ==
    ASSUME IssuanceInv, UNCHANGED vars, NEW o \in Scripts, Send(o)
    PROVE  IssuanceInv'
<1>1. PICK run \in Script : run = scripts[o]
  BY DEF IssuanceInv, IssuanceTypeOK
<1>2. run.phase = "BUILT" /\ run.clearance \in Drafts /\ Justified(run.clearance.content)
  BY <1>1, ScriptShape DEF Send, IssuanceInv, ScriptAt
<1>3. /\ scripts' \in [Scripts -> Script]
      /\ scripts'[o].phase = "SENT" /\ scripts'[o].clearance = run.clearance
      /\ \A p \in Scripts \ {o} : scripts'[p] = scripts[p]
  BY <1>1, <1>2, GotoShape DEF Send, IssuanceInv
<1>4. PICK sent : sent = [status |-> "PENDING", of |-> run.clearance]
  OBVIOUS
<1>5. sent \in Sent /\ sent.status = "PENDING" /\ sent.of = run.clearance
  BY <1>2, <1>4 DEF Sent
<1>6. transactions' = [transactions EXCEPT ![o] = sent] /\ UNCHANGED <<contractVars, output>>
  BY <1>1, <1>4 DEF Send
<1>7. /\ transactions' \in [Scripts -> Sent] /\ transactions'[o] = sent
      /\ \A p \in Scripts \ {o} : transactions'[p] = transactions[p]
  BY <1>5, <1>6 DEF IssuanceInv, IssuanceTypeOK
<1>8. ScriptAt(o)'
  <2>1. PICK moved : moved = scripts'[o]
    OBVIOUS
  <2>2. moved.phase = "SENT" /\ moved.clearance = run.clearance
    BY <1>3, <2>1
  <2>3. Justified(moved.clearance.content)' /\ Justified(sent.of.content)'
    BY <1>2, <1>5, <1>6, <2>2, DraftShape, FactsStay
  <2> QED BY <1>5, <1>6, <1>7, <2>1, <2>2, <2>3, ScriptHolds
<1> QED BY <1>3, <1>5, <1>6, <1>7, <1>8, RunMoves

\* The receipt arrives, or the registry confirms, or the run ends blocked.
LEMMA AdvanceKeeps ==
    ASSUME IssuanceInv, UNCHANGED vars, NEW o \in Scripts,
           UNCHANGED <<contractVars, transactions>>,
           \/ ReceiveReceipt(o)
           \/ scripts[o].phase = "MINED" /\ (Goto(o, "CONFIRMED") \/ Goto(o, "BLOCKED"))
           \/ scripts[o].phase \in {"BUILT", "SENT", "MINED"} /\ Goto(o, "BLOCKED"),
           output' = output \/ (output' \in Drafts /\ Reserved(output)')
    PROVE  IssuanceInv'
<1>1. PICK run \in Script, sent \in Sent : run = scripts[o] /\ sent = transactions[o]
  BY DEF IssuanceInv, IssuanceTypeOK
<1>2. PICK phase \in {"MINED", "CONFIRMED", "BLOCKED"} :
         /\ Goto(o, phase) /\ run.phase \in {"BUILT", "SENT", "MINED"}
         /\ phase # "BLOCKED" => run.phase \in {"SENT", "MINED"} /\ sent.status = "success"
  BY <1>1 DEF ReceiveReceipt, IssuanceInv, ScriptAt
<1>3. /\ scripts' \in [Scripts -> Script]
      /\ scripts'[o].phase = phase /\ scripts'[o].clearance = run.clearance
      /\ \A p \in Scripts \ {o} : scripts'[p] = scripts[p]
  BY <1>1, <1>2, GotoShape DEF IssuanceInv
<1>4. /\ Justified(run.clearance.content)
      /\ run.phase \in {"SENT", "MINED"} => sent.of = run.clearance
      /\ sent.status # "NONE" => Justified(sent.of.content)
      /\ sent.status = "success" => Reserved(sent.of)
  BY <1>1, <1>2 DEF IssuanceInv, ScriptAt
<1>5. transactions'[o] = sent
  BY <1>1
<1>6. ScriptAt(o)'
  <2>1. PICK moved : moved = scripts'[o]
    OBVIOUS
  <2>2. moved.phase = phase /\ moved.clearance = run.clearance
    BY <1>3, <2>1
  <2>3. run.clearance \in Drafts
    BY <1>2, ScriptShape
  <2>4. /\ Justified(moved.clearance.content)'
        /\ sent.status # "NONE" => Justified(sent.of.content)'
        /\ sent.status = "success" => Reserved(sent.of)'
    BY <1>4, <2>2, <2>3, SentShape, DraftShape, FactsStay
  <2> QED BY <1>2, <1>4, <1>5, <2>1, <2>2, <2>4, ScriptHolds
<1> QED BY <1>3, <1>6, RunMoves DEF IssuanceInv, IssuanceTypeOK

LEMMA ConfirmKeeps ==
    ASSUME IssuanceInv, UNCHANGED vars, NEW o \in Scripts, Confirm(o)
    PROVE  IssuanceInv'
<1>1. PICK run \in Script, sent \in Sent : run = scripts[o] /\ sent = transactions[o]
  BY DEF IssuanceInv, IssuanceTypeOK
<1>2. run.phase = "MINED" /\ UNCHANGED <<contractVars, transactions>>
  BY <1>1 DEF Confirm
<1>3. sent.status = "success" /\ sent.of = run.clearance /\ Reserved(sent.of) /\ sent.of \in Drafts
  BY <1>1, <1>2, SentShape DEF IssuanceInv, ScriptAt
<1>4. output' = output \/ output' = sent.of
  BY <1>1, <1>3 DEF Confirm, WriteClearance
<1>5. Reserved(sent.of)'
  BY <1>2, <1>3 DEF Reserved, Contract!Exists, contractVars
<1>6. output' = output \/ (output' \in Drafts /\ Reserved(output)')
  BY <1>3, <1>4, <1>5 DEF Reserved, Contract!Exists
<1>7. scripts[o].phase = "MINED" /\ (Goto(o, "CONFIRMED") \/ Goto(o, "BLOCKED"))
  BY DEF Confirm
<1> QED BY <1>2, <1>6, <1>7, AdvanceKeeps

LEMMA BlockKeeps ==
    ASSUME IssuanceInv, UNCHANGED vars, NEW o \in Scripts, Block(o)
    PROVE  IssuanceInv'
<1>1. UNCHANGED <<contractVars, transactions, output>> /\ Goto(o, "BLOCKED")
  BY DEF Block
<1>2. CASE scripts[o].phase \in {"BUILT", "SENT", "MINED"}
  BY <1>1, <1>2, AdvanceKeeps
<1>3. CASE scripts[o].phase = "CHECKED"
  <2>1. PICK run \in Script, sent \in Sent : run = scripts[o] /\ sent = transactions[o]
    BY DEF IssuanceInv, IssuanceTypeOK
  <2>2. run \in [phase : {"CHECKED", "BLOCKED"}, writes : BOOLEAN, id : ClearanceIds,
                 subject : Subjects]
    BY <1>3, <2>1 DEF IssuanceInv, IssuanceTypeOK, Script
  <2>3. PICK blocked : blocked = [run EXCEPT !.phase = "BLOCKED"]
    OBVIOUS
  <2>4. blocked \in Script /\ blocked.phase = "BLOCKED"
    BY <2>2, <2>3 DEF Script
  <2>5. scripts' = [scripts EXCEPT ![o] = blocked]
    BY <1>1, <2>1, <2>3 DEF Goto
  <2>6. /\ scripts' \in [Scripts -> Script] /\ scripts'[o] = blocked
        /\ \A p \in Scripts \ {o} : scripts'[p] = scripts[p]
    BY <2>4, <2>5 DEF IssuanceInv, IssuanceTypeOK
  <2>7. /\ sent.status # "NONE" => Justified(sent.of.content)
        /\ sent.status = "success" => Reserved(sent.of)
    BY <2>1 DEF IssuanceInv, ScriptAt
  <2>8. transactions'[o] = sent
    BY <1>1, <2>1
  <2>9. ScriptAt(o)'
    BY <1>1, <2>4, <2>6, <2>7, <2>8
       DEF ScriptAt, Justified, Evaluable, Reserved, Contract!Exists, vars, contractVars,
           buildVars, evaluationVars, storeVars
  <2> QED BY <1>1, <2>6, <2>9, RunMoves DEF IssuanceInv, IssuanceTypeOK
<1> QED BY <1>2, <1>3 DEF Block

LEMMA MineKeeps ==
    ASSUME IssuanceInv, UNCHANGED vars, NEW o \in Scripts, Mine(o)
    PROVE  IssuanceInv'
<1>1. PICK sent \in Sent : sent = transactions[o]
  BY DEF IssuanceInv, IssuanceTypeOK
<1>2. sent.status = "PENDING" /\ sent.of \in Drafts /\ UNCHANGED <<scripts, output>>
  BY <1>1, SentShape DEF Mine
<1>3. PICK status \in {"success", "reverted"} :
         /\ transactions' = [transactions EXCEPT ![o].status = status]
         /\ status = "success" => Contract!RecordClearance(Registrar, sent.of, sent.of, "CLEAR")
         /\ status = "reverted" => UNCHANGED contractVars
  BY <1>1 DEF Mine
<1>4. PICK mined : mined = [sent EXCEPT !.status = status]
  OBVIOUS
<1>5. sent \in [status : {"PENDING", "success", "reverted"}, of : Drafts]
  BY <1>2 DEF Sent
<1>6. mined \in Sent /\ mined.status = status /\ mined.of = sent.of
  BY <1>4, <1>5 DEF Sent
<1>7. transactions' = [transactions EXCEPT ![o] = mined]
  BY <1>1, <1>3, <1>4
<1>8. /\ transactions' \in [Scripts -> Sent] /\ transactions'[o] = mined
      /\ \A p \in Scripts \ {o} : transactions'[p] = transactions[p]
  BY <1>6, <1>7 DEF IssuanceInv, IssuanceTypeOK
<1>9. PICK run \in Script : run = scripts[o]
  BY DEF IssuanceInv, IssuanceTypeOK
<1>10. /\ run.phase # "CHECKED" \/ Justified(run.subject)
       /\ run.phase \in {"BUILT", "SENT", "MINED", "CONFIRMED"} => Justified(run.clearance.content)
       /\ run.phase \in {"SENT", "MINED", "CONFIRMED"} => sent.of = run.clearance
       /\ run.phase \notin {"MINED", "CONFIRMED"} /\ Justified(sent.of.content)
  BY <1>1, <1>2, <1>9 DEF IssuanceInv, ScriptAt
<1>11. /\ ContractKept
       /\ status = "success" => Reserved(sent.of)'
       /\ \A d \in Drafts : d # sent.of /\ Contract!Exists(d)' => Contract!Exists(d)
       /\ status = "success" => \A d \in Drafts : Reserved(d) => d.id # sent.of.id
       /\ status = "reverted" => Unrecorded
  <2>1. CASE status = "success"
    BY <1>2, <1>3, <2>1, RecordKept DEF IssuanceInv
  <2>2. CASE status = "reverted"
    BY <1>3, <2>2 DEF IssuanceInv, IssuanceTypeOK, Contract!RegistryTypeOK, contractVars,
       ContractKept, Reserved, Contract!Exists, Unrecorded
  <2> QED BY <2>1, <2>2
<1>12. IssuanceTypeOK'
  BY <1>2, <1>8, <1>11 DEF IssuanceInv, IssuanceTypeOK, ContractKept
<1>13. \A p \in Scripts \ {o} : ScriptAt(p)'
  BY <1>2, <1>8, <1>11, ServerRests, ScriptStays DEF IssuanceInv, ContractKept
<1>14. ScriptAt(o)'
  <2>1. scripts'[o] = run
    BY <1>2, <1>9
  <2>2. /\ run.phase = "CHECKED" => Justified(run.subject)'
        /\ run.phase \in {"BUILT", "SENT", "MINED", "CONFIRMED"} => Justified(run.clearance.content)'
        /\ Justified(mined.of.content)'
        /\ mined.status = "success" => Reserved(mined.of)'
    BY <1>2, <1>6, <1>9, <1>10, <1>11, ScriptShape, DraftShape, ServerRests
  <2>3. mined.status # "NONE"
    BY <1>3, <1>6
  <2> QED BY <1>6, <1>8, <1>10, <2>1, <2>2, <2>3, ScriptHolds
<1>15. SuccessesDistinct'
  <2>1. ASSUME NEW p \in Scripts, p # o, status = "success", transactions[p].status = "success"
        PROVE  transactions[p].of.id # sent.of.id
    <3>1. Reserved(transactions[p].of) /\ transactions[p].of \in Drafts
      BY <2>1, SentShape DEF IssuanceInv, IssuanceTypeOK, ScriptAt
    <3> QED BY <1>11, <2>1, <3>1
  <2> QED BY <1>6, <1>8, <2>1 DEF IssuanceInv, SuccessesDistinct
<1>16. RecordsJustified'
  <2> SUFFICES ASSUME NEW d \in Drafts, Contract!Exists(d)'
               PROVE  Reserved(d)' /\ Justified(d.content)'
    BY DEF RecordsJustified
  <2>1. CASE Contract!Exists(d)
    BY <1>11, <2>1, DraftShape, ServerRests DEF IssuanceInv, RecordsJustified, ContractKept
  <2>2. CASE ~Contract!Exists(d)
    <3>1. d = sent.of /\ status = "success"
      BY <1>11, <2>2 DEF Unrecorded
    <3>2. Justified(sent.of.content)'
      BY <1>2, <1>10, DraftShape, ServerRests
    <3> QED BY <1>11, <3>1, <3>2 DEF Reserved, Justified, Evaluable, Contract!Exists
  <2> QED BY <2>1, <2>2
<1>17. OutputInv'
  BY <1>2, <1>11, OutputStays DEF IssuanceInv, ContractKept
<1> QED BY <1>12, <1>13, <1>14, <1>15, <1>16, <1>17, ServerRests DEF IssuanceInv

LEMMA ReceiveKeeps ==
    ASSUME IssuanceInv, UNCHANGED vars, NEW o \in Scripts, ReceiveReceipt(o)
    PROVE  IssuanceInv'
<1>1. UNCHANGED <<contractVars, transactions, output>>
  BY DEF ReceiveReceipt
<1> QED BY <1>1, AdvanceKeeps

LEMMA IssuanceInitially == IssuanceInit => IssuanceInv
<1> SUFFICES ASSUME IssuanceInit PROVE IssuanceInv
  OBVIOUS
<1>1. EvaluationInv /\ BuildInv
  BY InitEvaluationInv, InitBuildInv DEF IssuanceInit, Init
<1>2. Contract!BlankClearance \in Contract!Clearance
  BY DEF Contract!BlankClearance, Contract!Clearance, Contract!Bindings, Contract!OrZero,
     Contract!Verdicts
<1>3. Contract!RegistryTypeOK /\ now <= MaxTime
  BY <1>2 DEF IssuanceInit, Contract!RegistryInit, Contract!RegistryTypeOK, Contract!OrZero
<1>4. \A clearance \in Drafts : ~Contract!Exists(clearance)
  BY DEF IssuanceInit, Contract!RegistryInit, Contract!Exists, Contract!BlankClearance,
     Contract!OrZero
<1>5. /\ \A o \in Scripts : scripts[o] = [phase |-> "IDLE"] /\ transactions[o] = [status |-> "NONE"]
      /\ output = NoFile
  BY DEF IssuanceInit
<1>6. /\ scripts \in [Scripts -> Script] /\ transactions \in [Scripts -> Sent]
  BY DEF IssuanceInit, Script, Sent
<1>7. \A o \in Scripts : ScriptAt(o)
  BY <1>5 DEF ScriptAt
<1>8. SuccessesDistinct
  BY <1>5 DEF SuccessesDistinct
<1> QED BY <1>1, <1>3, <1>4, <1>5, <1>6, <1>7, <1>8
        DEF IssuanceInv, IssuanceTypeOK, RecordsJustified, OutputInv

LEMMA IssuanceStep == IssuanceInv /\ [IssuanceNext]_<<vars, issuanceVars>> => IssuanceInv'
<1> SUFFICES ASSUME IssuanceInv, [IssuanceNext]_<<vars, issuanceVars>> PROVE IssuanceInv'
  OBVIOUS
<1>1. CASE [Next]_vars /\ UNCHANGED issuanceVars
  BY <1>1, ServerKeeps
<1>2. CASE ContractStep /\ UNCHANGED vars
  BY <1>2, ContractKeeps
<1>3. ASSUME NEW o \in Scripts, ScriptStep(o), UNCHANGED vars PROVE IssuanceInv'
  <2>1. ASSUME NEW e \in EvaluationIds, NEW id \in ClearanceIds, NEW writes \in BOOLEAN,
               StartScript(o, e, id, writes)
        PROVE  IssuanceInv'
    BY <1>3, <2>1, StartScriptKeeps
  <2>2. CASE BuildClearance(o)
    BY <1>3, <2>2, BuildClearanceKeeps
  <2>3. CASE Send(o)
    BY <1>3, <2>3, SendKeeps
  <2>4. CASE Mine(o)
    BY <1>3, <2>4, MineKeeps
  <2>5. CASE ReceiveReceipt(o)
    BY <1>3, <2>5, ReceiveKeeps
  <2>6. CASE Confirm(o)
    BY <1>3, <2>6, ConfirmKeeps
  <2>7. CASE Block(o)
    BY <1>3, <2>7, BlockKeeps
  <2> QED BY <1>3, <2>1, <2>2, <2>3, <2>4, <2>5, <2>6, <2>7 DEF ScriptStep
<1> QED BY <1>1, <1>2, <1>3 DEF IssuanceNext

(* The invariant of the server, the operator's runs, their transactions    *)
(* and the contract together, in every reachable state.                    *)
THEOREM IssuanceInvariant == IssuanceSpec => []IssuanceInv
BY IssuanceInitially, IssuanceStep, PTL DEF IssuanceSpec

(* The chain of evidence: whatever builds, gateways, callbacks, restarts   *)
(* and runs of the script interleave, the registry holds clearances only   *)
(* of CLEAR verdicts in the store about the artifact a build still has.    *)
THEOREM ClearancesAreJustified == IssuanceSpec => []ClearancesAreOfEvaluations
<1>1. IssuanceInv => ClearancesAreOfEvaluations
  BY DEF IssuanceInv, RecordsJustified, Justified, ClearancesAreOfEvaluations
<1> QED BY <1>1, IssuanceInvariant, PTL

(* Of the runs for one clearance id at most one reports CONFIRMED, and its *)
(* clearance, like the document on disk, is in the registry.               *)
THEOREM ConfirmationsAreTrue == IssuanceSpec => []ConfirmedIsRecorded
<1>1. ASSUME IssuanceInv, NEW o \in Scripts, scripts[o].phase = "CONFIRMED"
      PROVE  /\ Contract!Exists(scripts[o].clearance)
             /\ digestByIdHash[scripts[o].clearance.id] = scripts[o].clearance
             /\ transactions[o].status = "success" /\ transactions[o].of = scripts[o].clearance
  BY <1>1 DEF IssuanceInv, ScriptAt, Reserved
<1>2. ASSUME IssuanceInv, NEW o \in Scripts, NEW p \in Scripts \ {o},
             scripts[o].phase = "CONFIRMED", scripts[p].phase = "CONFIRMED"
      PROVE  scripts[p].clearance.id # scripts[o].clearance.id
  BY <1>1, <1>2 DEF IssuanceInv, SuccessesDistinct
<1>3. ASSUME IssuanceInv, output # NoFile PROVE Contract!Exists(output)
  BY <1>3 DEF IssuanceInv, OutputInv, Reserved
<1>4. IssuanceInv => ConfirmedIsRecorded
  BY <1>1, <1>2, <1>3 DEF ConfirmedIsRecorded
<1> QED BY <1>4, IssuanceInvariant, PTL
-----------------------------------------------------------------------------
(* Composition.  Runs of the script only read what the server stores, and  *)
(* whatever else they do is a transaction of their own: neither the store  *)
(* nor the contract ever takes a step it could not take by itself.         *)
LEMMA MineOfRegistry ==
    ASSUME IssuanceInv, NEW o \in Scripts, Mine(o)
    PROVE  [Contract!RegistryNext]_contractVars
<1>1. PICK sent \in Sent : sent = transactions[o]
  BY DEF IssuanceInv, IssuanceTypeOK
<1>2. sent.of \in Drafts
  BY <1>1, SentShape DEF Mine
<1>3. \/ Contract!RecordClearance(Registrar, sent.of, sent.of, "CLEAR")
      \/ UNCHANGED contractVars
  BY <1>1 DEF Mine
<1>4. CASE Contract!RecordClearance(Registrar, sent.of, sent.of, "CLEAR")
  BY <1>2, <1>4 DEF Contract!RegistryNext, Contract!Transaction, Contract!OrZero
<1> QED BY <1>3, <1>4

LEMMA IssuanceStepOfRegistry ==
    IssuanceInv /\ [IssuanceNext]_<<vars, issuanceVars>> => [Contract!RegistryNext]_contractVars
<1> SUFFICES ASSUME IssuanceInv, [IssuanceNext]_<<vars, issuanceVars>>
             PROVE  [Contract!RegistryNext]_contractVars
  OBVIOUS
<1>1. CASE UNCHANGED issuanceVars
  BY <1>1 DEF issuanceVars
<1>2. CASE ContractStep
  <2>1. CASE Contract!MineBlock
    BY <2>1 DEF Contract!RegistryNext
  <2>2. ASSUME NEW authorized \in BOOLEAN, Contract!SetRegistrar(Registrar, Registrar, authorized)
        PROVE  Contract!RegistryNext
    BY <2>2 DEF Contract!RegistryNext, Contract!Transaction, Contract!OrZero
  <2>3. ASSUME NEW clearance \in Drafts, Contract!RevokeClearance(Registrar, clearance)
        PROVE  Contract!RegistryNext
    BY <2>3 DEF Contract!RegistryNext, Contract!Transaction, Contract!OrZero
  <2> QED BY <1>2, <2>1, <2>2, <2>3 DEF ContractStep
<1>3. ASSUME NEW o \in Scripts, ScriptStep(o) PROVE [Contract!RegistryNext]_contractVars
  <2>1. CASE Mine(o)
    BY <2>1, MineOfRegistry
  <2>2. CASE ~Mine(o)
    BY <1>3, <2>2 DEF ScriptStep, StartScript, BuildClearance, Send, ReceiveReceipt, Confirm, Block
  <2> QED BY <2>1, <2>2
<1> QED BY <1>1, <1>2, <1>3 DEF IssuanceNext

(* With the operator's runs around it the contract is still the contract:  *)
(* every behaviour of issuance is one of Registry.                         *)
THEOREM IssuanceImplementsRegistry == IssuanceSpec => Contract!RegistrySpec
<1>1. IssuanceInit => Contract!RegistryInit
  BY DEF IssuanceInit
<1>2. IssuanceInv /\ [IssuanceNext]_<<vars, issuanceVars>>
         => [Contract!RegistryNext]_(Contract!registryVars)
  BY IssuanceStepOfRegistry DEF contractVars, Contract!registryVars
<1> QED BY <1>1, <1>2, IssuanceInvariant, PTL DEF IssuanceSpec, Contract!RegistrySpec

(* And the server is still the server: every behaviour of issuance is one  *)
(* of Evaluations.                                                         *)
THEOREM IssuanceImplementsEvaluations == IssuanceSpec => Spec
<1>1. IssuanceInit => Init
  BY DEF IssuanceInit
<1>2. [IssuanceNext]_<<vars, issuanceVars>> => [Next]_vars
  BY DEF IssuanceNext
<1> QED BY <1>1, <1>2, PTL DEF IssuanceSpec, Spec

(* Whose builds are SourceBuilds', whatever evaluations are made of them.  *)
THEOREM EvaluationsImplementBuilds == Spec => BuildSpec
<1>1. Init => BuildInit
  BY DEF Init
<1> QED BY <1>1, StepsAreBuildSteps, PTL DEF Spec, BuildSpec

(* So beside any number of runs verdicts are about promoted artifacts, no  *)
(* request that was told PENDING is lost, an outcome and a settled build   *)
(* are final, and the quotas hold.                                         *)
THEOREM IssuanceKeepsServer ==
    IssuanceSpec => /\ [](EvaluatedAsPromoted /\ PendingIsNotForgotten)
                    /\ [](QuotasHold /\ PromotedHasArtifact)
                    /\ SettledIsFinal /\ OutcomesAreFinal
BY IssuanceImplementsEvaluations, EvaluationsImplementBuilds, VerdictsAreAboutPromoted, PendingIsKept,
   QuotasAreKept, PromotionIsBacked, SettledBuildsAreFinal, StoreImplementsOutcomes, PTL
==============================================================================
