------------------------- MODULE BuildPipelineProofs -------------------------
(***************************************************************************)
(* The runner's steps implement the job of SourceBuilds, and leave nothing *)
(* behind, for any number of builds and any quotas.  LeftInv strengthens   *)
(* NothingIsLeftBehind to the stages at which a directory, a builder or a  *)
(* copy must already be gone, and says that a job which is over, or is     *)
(* being completed, has no step of run() left.                             *)
(***************************************************************************)
EXTENDS BuildPipeline, SourceBuildsProofs

LeftAt(b) ==
    /\ jobs[b] \in {"NONE", "VERIFYING"} => stage[b] = "IDLE"
    /\ b \in roots /\ stage[b] \in {"RETURN", "IDLE"} =>
          mishaps[b] \cap {"CRASH", "ROOT_KEPT"} # {}
    /\ b \in builders /\ stage[b] \notin {"BUILD", "COLLECT", "COPY", "REHASH", "RM_BUILDER"} =>
          mishaps[b] \cap {"CRASH", "BUILDER_KEPT"} # {}
    /\ artifacts[b] # Placeholder /\ jobs[b] \in {"FAILING", "NONE"} =>
          \/ builds[b].integrity = "BUILD_SUCCEEDED"
          \/ mishaps[b] \cap {"CRASH", "COPY_KEPT", "WRITE_LOST", "UNPROMOTED"} # {}

LeftInv == PipelineTypeOK /\ \A b \in Builds : LeftAt(b)

\* What LeftAt looks at is as it was.
SameAt(b) ==
    /\ builds'[b] = builds[b] /\ artifacts'[b] = artifacts[b] /\ jobs'[b] = jobs[b]
    /\ stage'[b] = stage[b] /\ mishaps'[b] = mishaps[b]
    /\ b \in roots' <=> b \in roots
    /\ b \in builders' <=> b \in builders

-----------------------------------------------------------------------------
(* A step of the pipeline is a step of SourceBuilds, or changes none of    *)
(* its variables.                                                          *)
LEMMA RunStepIsJobStep ==
    ASSUME NEW b \in Builds, RunStep(b)
    PROVE  JobStep(b) \/ UNCHANGED buildVars
<1>1. MakeRoot(b) \/ Prepare(b) \/ CreateBuilder(b) \/ CreateBuilderFails(b) \/ RunBuild(b)
         => UNCHANGED buildVars
  BY DEF MakeRoot, Prepare, CreateBuilder, CreateBuilderFails, RunBuild
<1>2. \A artifact \in Artifacts :
         /\ Collect(b, artifact) => UNCHANGED buildVars
         /\ CopyArtifact(b, artifact) => JobStep(b)
  BY DEF Collect, CopyArtifact, JobStep
<1>3. Rehash(b) \/ FailStep(b) \/ RemoveBuilder(b) \/ RemoveRoot(b) => UNCHANGED buildVars
  BY DEF Rehash, FailStep, RemoveBuilder, RemoveRoot
<1>4. DiscardCopy(b) \/ ReturnRun(b) => JobStep(b) \/ UNCHANGED buildVars
  BY DEF DiscardCopy, ReturnRun, JobStep
<1>5. Promote(b) \/ RefuseCompletion(b) => JobStep(b)
  BY DEF Promote, RefuseCompletion, JobStep
<1> QED BY <1>1, <1>2, <1>3, <1>4, <1>5 DEF RunStep

LEMMA NextIsBuildNext == [PipelineNext]_allVars => [BuildNext]_buildVars
<1> SUFFICES ASSUME [PipelineNext]_allVars PROVE [BuildNext]_buildVars
  OBVIOUS
<1>1. CASE Request
  BY <1>1 DEF Request, StartJob, BuildNext, BuildWork
<1>2. ASSUME NEW b \in Builds, RunStep(b)
      PROVE  [BuildNext]_buildVars
  BY <1>2, RunStepIsJobStep DEF BuildNext, BuildWork
<1>3. ASSUME NEW b \in Builds, LoseWrite(b)
      PROVE  [BuildNext]_buildVars
  BY <1>3 DEF LoseWrite, BuildNext, BuildFault
<1>4. CASE CrashRunner
  BY <1>4 DEF CrashRunner, BuildNext, BuildFault
<1>5. CASE UNCHANGED allVars
  BY <1>5 DEF allVars
<1> QED BY <1>1, <1>2, <1>3, <1>4, <1>5 DEF PipelineNext

(* run() as the runner executes it, with completeSourceBuild and           *)
(* failSourceBuild after it, is the background job that evaluations and    *)
(* clearances are built on.                                                *)
THEOREM PipelineImplementsSourceBuilds == PipelineSpec => ImplementsSourceBuilds
<1>1. PipelineInit => BuildInit
  BY DEF PipelineInit
<1> QED BY <1>1, NextIsBuildNext, PTL DEF PipelineSpec, ImplementsSourceBuilds, BuildSpec

(* So the quotas, the promotion of real artifacts only and the finality of *)
(* settled builds hold of the runner's steps.                              *)
THEOREM PipelineKeepsBuilds ==
    PipelineSpec => [](BuildTypeOK /\ QuotasHold /\ PromotedHasArtifact) /\ SettledIsFinal
<1>1. BuildInv => BuildTypeOK /\ QuotasHold /\ PromotedHasArtifact
  BY DEF BuildInv
<1>2. PipelineSpec => BuildSpec
  BY PipelineImplementsSourceBuilds DEF ImplementsSourceBuilds
<1> QED BY <1>1, <1>2, BuildInvariant, SettledBuildsAreFinal, PTL

-----------------------------------------------------------------------------
LEMMA InitLeft == PipelineInit => LeftInv
<1> SUFFICES ASSUME PipelineInit PROVE LeftInv
  OBVIOUS
<1>1. BuildTypeOK
  BY InitBuildInv DEF PipelineInit, BuildInv
<1>2. PipelineTypeOK
  BY <1>1 DEF PipelineInit, PipelineTypeOK, Stage, Mishap
<1>3. ASSUME NEW b \in Builds PROVE LeftAt(b)
  BY DEF PipelineInit, BuildInit, LeftAt
<1> QED BY <1>2, <1>3 DEF LeftInv

LEMMA OneBuild ==
    ASSUME LeftInv, NEW b \in Builds, PipelineTypeOK', LeftAt(b)',
           \A other \in Builds \ {b} : SameAt(other)
    PROVE  LeftInv'
<1>1. ASSUME NEW other \in Builds, other # b PROVE LeftAt(other)'
  BY <1>1 DEF LeftInv, LeftAt, SameAt
<1> QED BY <1>1 DEF LeftInv

LEMMA Noted ==
    ASSUME PipelineTypeOK, NEW b \in Builds, NEW mishap \in Mishap, Note(b, mishap)
    PROVE  /\ mishaps' \in [Builds -> SUBSET Mishap]
           /\ mishaps'[b] = mishaps[b] \cup {mishap}
           /\ \A other \in Builds \ {b} : mishaps'[other] = mishaps[other]
BY DEF Note, PipelineTypeOK

LEMMA Gone ==
    ASSUME PipelineTypeOK, NEW b \in Builds, NEW to \in Stage,
           stage' = [stage EXCEPT ![b] = to]
    PROVE  /\ stage' \in [Builds -> Stage] /\ stage'[b] = to
           /\ \A other \in Builds \ {b} : stage'[other] = stage[other]
BY DEF PipelineTypeOK

-----------------------------------------------------------------------------
(* Requests and the steps of run() up to its finally block.                *)
LEMMA RequestKeepsLeft ==
    ASSUME LeftInv, BuildInv, BuildTypeOK', Request
    PROVE  LeftInv'
<1> USE DEF LeftInv
<1>1. ASSUME NEW b \in Builds, NEW account \in Accounts, StartJob(b, account)
      PROVE  LeftInv'
  <2> USE <1>1 DEF StartJob, CreateSourceBuild
  <2>1. /\ stage' \in [Builds -> Stage] /\ stage'[b] = "TEMP"
        /\ \A other \in Builds \ {b} : stage'[other] = stage[other]
    BY Gone DEF Stage
  <2>2. jobs[b] = "NONE" /\ stage[b] = "IDLE"
    BY BuildRows DEF BuildInv, PromotedHasArtifact, LeftAt
  <2>3. PipelineTypeOK'
    BY <2>1 DEF PipelineTypeOK
  <2>4. LeftAt(b)'
    BY <2>1, <2>2 DEF LeftAt, PipelineTypeOK, BuildTypeOK, Job
  <2>5. \A other \in Builds \ {b} : SameAt(other)
    BY <2>1 DEF SameAt, PipelineTypeOK, BuildTypeOK
  <2> QED BY <2>3, <2>4, <2>5, OneBuild
<1>2. ASSUME NEW b \in Builds, UNCHANGED pipelineVars, UNCHANGED <<artifacts, jobs>>,
             builds[b] = NoBuild, NEW row, builds' = [builds EXCEPT ![b] = row]
      PROVE  LeftInv'
  <2> USE <1>2 DEF pipelineVars
  <2>1. PipelineTypeOK'
    BY DEF PipelineTypeOK
  <2>2. LeftAt(b)'
    BY BuildRows DEF LeftAt
  <2>3. \A other \in Builds \ {b} : SameAt(other)
    BY DEF SameAt, PipelineTypeOK, BuildTypeOK
  <2> QED BY <2>1, <2>2, <2>3, OneBuild
<1>3. ASSUME NEW b \in Builds, NEW account \in Accounts,
             CreateUnrunnableBuild(b, account) /\ UNCHANGED pipelineVars
      PROVE  LeftInv'
  BY <1>2, <1>3 DEF CreateUnrunnableBuild
<1>4. ASSUME NEW b \in Builds, NEW account \in Accounts, NEW artifact \in Artifacts,
             CreateBuild(b, account, artifact) /\ UNCHANGED pipelineVars
      PROVE  LeftInv'
  BY <1>2, <1>4 DEF CreateBuild
<1> QED BY <1>1, <1>3, <1>4 DEF Request

LEMMA WorkKeepsLeft ==
    ASSUME LeftInv, BuildTypeOK', NEW b \in Builds,
           \/ MakeRoot(b) \/ Prepare(b) \/ CreateBuilder(b) \/ CreateBuilderFails(b)
           \/ RunBuild(b) \/ Rehash(b) \/ FailStep(b)
           \/ \E artifact \in Artifacts : Collect(b, artifact) \/ CopyArtifact(b, artifact)
    PROVE  LeftInv'
<1> USE DEF LeftInv
<1>1. PICK to \in Stage : stage' = [stage EXCEPT ![b] = to]
  BY DEF MakeRoot, Prepare, CreateBuilder, CreateBuilderFails, RunBuild, Rehash, FailStep,
     Collect, CopyArtifact, Goto, FirstCleanUp, Stage
<1>2. /\ stage' \in [Builds -> Stage] /\ stage'[b] = to
      /\ \A other \in Builds \ {b} : stage'[other] = stage[other]
  BY <1>1, Gone
<1>3. mishaps' = mishaps /\ builds' = builds
  BY DEF MakeRoot, Prepare, CreateBuilder, CreateBuilderFails, RunBuild, Rehash, FailStep,
     Collect, CopyArtifact, StoreArtifact, buildVars
<1>4. /\ stage[b] \notin {"IDLE", "RETURN"} /\ to \notin {"IDLE", "RETURN"}
      /\ jobs'[b] \in {jobs[b], "STORED"}
      /\ jobs'[b] # "STORED" => artifacts'[b] = artifacts[b]
  BY <1>2 DEF MakeRoot, Prepare, CreateBuilder, CreateBuilderFails, RunBuild, Rehash,
     FailStep, Collect, CopyArtifact, Goto, FirstCleanUp, StoreArtifact, buildVars,
     PipelineTypeOK, BuildTypeOK
<1>5. b \in builders' /\ to \notin {"BUILD", "COLLECT", "COPY", "REHASH", "RM_BUILDER"} =>
         /\ b \in builders
         /\ stage[b] \notin {"BUILD", "COLLECT", "COPY", "REHASH", "RM_BUILDER"}
  BY <1>2 DEF MakeRoot, Prepare, CreateBuilder, CreateBuilderFails, RunBuild, Rehash,
     FailStep, Collect, CopyArtifact, Goto, FirstCleanUp, PipelineTypeOK
<1>6. PipelineTypeOK'
  BY <1>2, <1>3 DEF MakeRoot, Prepare, CreateBuilder, CreateBuilderFails, RunBuild, Rehash,
     FailStep, Collect, CopyArtifact, PipelineTypeOK
<1>7. LeftAt(b)'
  BY <1>2, <1>3, <1>4, <1>5 DEF LeftAt
<1>8. \A other \in Builds \ {b} : SameAt(other)
  BY <1>2, <1>3 DEF SameAt, MakeRoot, Prepare, CreateBuilder, CreateBuilderFails, RunBuild,
     Rehash, FailStep, Collect, CopyArtifact, StoreArtifact, buildVars, PipelineTypeOK,
     BuildTypeOK
<1> QED BY <1>6, <1>7, <1>8, OneBuild

-----------------------------------------------------------------------------
(* The finally block: what it was to remove is gone, or the failure noted. *)
LEMMA RemoveBuilderKeepsLeft ==
    ASSUME LeftInv, BuildTypeOK', NEW b \in Builds, RemoveBuilder(b)
    PROVE  LeftInv'
<1> USE DEF LeftInv, RemoveBuilder, Goto, buildVars
<1>1. /\ stage' \in [Builds -> Stage] /\ stage'[b] = "DISCARD"
      /\ \A other \in Builds \ {b} : stage'[other] = stage[other]
  BY Gone DEF Stage
<1>2. /\ mishaps' \in [Builds -> SUBSET Mishap]
      /\ b \in builders' => "BUILDER_KEPT" \in mishaps'[b]
      /\ mishaps[b] \subseteq mishaps'[b]
      /\ \A other \in Builds \ {b} : mishaps'[other] = mishaps[other]
  BY Noted DEF Mishap, PipelineTypeOK
<1>3. PipelineTypeOK'
  BY <1>1, <1>2 DEF PipelineTypeOK
<1>4. LeftAt(b)'
  BY <1>1, <1>2 DEF LeftAt
<1>5. \A other \in Builds \ {b} : SameAt(other)
  BY <1>1, <1>2 DEF SameAt
<1> QED BY <1>3, <1>4, <1>5, OneBuild

LEMMA DiscardCopyKeepsLeft ==
    ASSUME LeftInv, BuildTypeOK', NEW b \in Builds, DiscardCopy(b)
    PROVE  LeftInv'
<1> USE DEF LeftInv, DiscardCopy, Goto, buildVars
<1>1. /\ stage' \in [Builds -> Stage] /\ stage'[b] = "RM_ROOT" /\ stage[b] = "DISCARD"
      /\ \A other \in Builds \ {b} : stage'[other] = stage[other]
  BY Gone DEF Stage
<1>2. /\ builds' = builds
      /\ \A other \in Builds \ {b} :
            jobs'[other] = jobs[other] /\ artifacts'[other] = artifacts[other]
      /\ jobs'[b] \notin {"NONE", "VERIFYING"}
  BY <1>1 DEF RunFails, PipelineTypeOK, BuildTypeOK, LeftAt
<1>3. /\ mishaps' \in [Builds -> SUBSET Mishap]
      /\ mishaps[b] \subseteq mishaps'[b]
      /\ \A other \in Builds \ {b} : mishaps'[other] = mishaps[other]
  BY Noted DEF Mishap, PipelineTypeOK
<1>4. artifacts'[b] # Placeholder /\ jobs'[b] = "FAILING" =>
         \/ artifacts'[b] = artifacts[b] /\ jobs[b] = "FAILING"
         \/ "COPY_KEPT" \in mishaps'[b]
  BY Noted DEF Mishap
<1>5. PipelineTypeOK'
  BY <1>1, <1>3 DEF PipelineTypeOK
<1>6. LeftAt(b)'
  BY <1>1, <1>2, <1>3, <1>4 DEF LeftAt
<1>7. \A other \in Builds \ {b} : SameAt(other)
  BY <1>1, <1>2, <1>3 DEF SameAt
<1> QED BY <1>5, <1>6, <1>7, OneBuild

LEMMA RemoveRootKeepsLeft ==
    ASSUME LeftInv, BuildTypeOK', NEW b \in Builds, RemoveRoot(b)
    PROVE  LeftInv'
<1> USE DEF LeftInv, RemoveRoot, Goto, buildVars
<1>1. /\ stage' \in [Builds -> Stage] /\ stage'[b] = "RETURN" /\ stage[b] = "RM_ROOT"
      /\ \A other \in Builds \ {b} : stage'[other] = stage[other]
  BY Gone DEF Stage
<1>2. /\ mishaps' \in [Builds -> SUBSET Mishap]
      /\ b \in roots' => "ROOT_KEPT" \in mishaps'[b]
      /\ mishaps[b] \subseteq mishaps'[b]
      /\ \A other \in Builds \ {b} : mishaps'[other] = mishaps[other]
  BY Noted DEF Mishap, PipelineTypeOK
<1>3. PipelineTypeOK'
  BY <1>1, <1>2 DEF PipelineTypeOK
<1>4. LeftAt(b)'
  BY <1>1, <1>2 DEF LeftAt
<1>5. \A other \in Builds \ {b} : SameAt(other)
  BY <1>1, <1>2 DEF SameAt
<1> QED BY <1>3, <1>4, <1>5, OneBuild

-----------------------------------------------------------------------------
(* The end of a job.  A settled row changes in its own build only.         *)
LEMMA ReturnRunKeepsLeft ==
    ASSUME LeftInv, BuildTypeOK', NEW b \in Builds, ReturnRun(b)
    PROVE  LeftInv'
<1> USE DEF LeftInv, ReturnRun, Goto
<1>1. /\ stage' \in [Builds -> Stage] /\ stage'[b] = "IDLE" /\ stage[b] = "RETURN"
      /\ \A other \in Builds \ {b} : stage'[other] = stage[other]
  BY Gone DEF Stage
<1>2. /\ artifacts' = artifacts
      /\ \A other \in Builds \ {b} :
            jobs'[other] = jobs[other] /\ builds'[other] = builds[other]
      /\ jobs'[b] = "VERIFYING" \/ jobs[b] = "FAILING"
      /\ builds'[b].integrity = builds[b].integrity \/ builds[b].integrity = "BUILDING"
  BY DEF RunSucceeds, RunRejects, Settle, PipelineTypeOK, BuildTypeOK
<1>3. PipelineTypeOK'
  BY <1>1 DEF PipelineTypeOK
<1>4. LeftAt(b)'
  BY <1>1, <1>2 DEF LeftAt
<1>5. \A other \in Builds \ {b} : SameAt(other)
  BY <1>1, <1>2 DEF SameAt
<1> QED BY <1>3, <1>4, <1>5, OneBuild

LEMMA PromoteKeepsLeft ==
    ASSUME LeftInv, BuildTypeOK', NEW b \in Builds, Promote(b)
    PROVE  LeftInv'
<1> USE DEF LeftInv, Promote, CompleteSourceBuild, pipelineVars
<1>1. /\ jobs[b] = "VERIFYING" /\ builds \in [Builds -> {NoBuild} \cup Build]
      /\ builds[b] \in Build
  BY BuildRows DEF PipelineTypeOK, BuildTypeOK
<1>2. builds'[b].integrity = "BUILD_SUCCEEDED"
  BY <1>1 DEF Build
<1>3. PipelineTypeOK'
  BY DEF PipelineTypeOK
<1>4. LeftAt(b)'
  BY <1>1, <1>2 DEF LeftAt
<1>5. \A other \in Builds \ {b} : SameAt(other)
  BY DEF SameAt, PipelineTypeOK, BuildTypeOK
<1> QED BY <1>3, <1>4, <1>5, OneBuild

LEMMA RefuseCompletionKeepsLeft ==
    ASSUME LeftInv, BuildTypeOK', NEW b \in Builds, RefuseCompletion(b)
    PROVE  LeftInv'
<1> USE DEF LeftInv, RefuseCompletion, CompletionFails
<1>1. /\ mishaps' \in [Builds -> SUBSET Mishap]
      /\ mishaps'[b] = mishaps[b] \cup {"UNPROMOTED"}
      /\ \A other \in Builds \ {b} : mishaps'[other] = mishaps[other]
  BY Noted DEF Mishap
<1>2. PipelineTypeOK'
  BY <1>1 DEF PipelineTypeOK
<1>3. LeftAt(b)'
  BY <1>1 DEF LeftAt
<1>4. \A other \in Builds \ {b} : SameAt(other)
  BY <1>1 DEF SameAt, Settle, PipelineTypeOK, BuildTypeOK
<1> QED BY <1>2, <1>3, <1>4, OneBuild

LEMMA LoseWriteKeepsLeft ==
    ASSUME LeftInv, BuildTypeOK', NEW b \in Builds, LoseWrite(b)
    PROVE  LeftInv'
<1> USE DEF LeftInv, LoseWrite, SettleIsLost
<1>1. /\ stage' \in [Builds -> Stage] /\ stage'[b] = "IDLE" /\ stage[b] \in {"RETURN", "IDLE"}
      /\ \A other \in Builds \ {b} : stage'[other] = stage[other]
  BY Gone DEF Stage
<1>2. /\ mishaps' \in [Builds -> SUBSET Mishap]
      /\ mishaps'[b] = mishaps[b] \cup {"WRITE_LOST"}
      /\ \A other \in Builds \ {b} : mishaps'[other] = mishaps[other]
  BY Noted DEF Mishap
<1>3. PipelineTypeOK'
  BY <1>1, <1>2 DEF PipelineTypeOK
<1>4. LeftAt(b)'
  BY <1>1, <1>2 DEF LeftAt
<1>5. \A other \in Builds \ {b} : SameAt(other)
  BY <1>1, <1>2 DEF SameAt, PipelineTypeOK, BuildTypeOK
<1> QED BY <1>3, <1>4, <1>5, OneBuild

(* A build without a job had no step of run() left; of any other the crash *)
(* is noted.                                                               *)
LEMMA CrashRunnerKeepsLeft ==
    ASSUME LeftInv, BuildTypeOK', CrashRunner
    PROVE  LeftInv'
<1> USE DEF LeftInv, CrashRunner, BuildCrash
<1>1. PipelineTypeOK'
  BY DEF PipelineTypeOK, Stage, Mishap
<1>2. ASSUME NEW b \in Builds PROVE LeftAt(b)'
  <2>1. stage'[b] = "IDLE"
    OBVIOUS
  <2>2. CASE jobs[b] = "NONE"
    <3>1. mishaps'[b] = mishaps[b] /\ stage[b] = "IDLE"
      BY <2>2 DEF LeftAt
    <3> QED BY <2>1, <2>2, <3>1 DEF LeftAt
  <2>3. CASE jobs[b] # "NONE"
    <3>1. "CRASH" \in mishaps'[b]
      BY <2>3
    <3> QED BY <2>1, <3>1 DEF LeftAt
  <2> QED BY <2>2, <2>3
<1> QED BY <1>1, <1>2

-----------------------------------------------------------------------------
LEMMA NextKeepsLeft ==
    BuildInv /\ BuildTypeOK' /\ LeftInv /\ [PipelineNext]_allVars => LeftInv'
<1> SUFFICES ASSUME BuildInv, BuildTypeOK', LeftInv, [PipelineNext]_allVars PROVE LeftInv'
  OBVIOUS
<1>1. CASE Request
  BY <1>1, RequestKeepsLeft
<1>2. ASSUME NEW b \in Builds, RunStep(b)
      PROVE  LeftInv'
  BY <1>2, WorkKeepsLeft, RemoveBuilderKeepsLeft, DiscardCopyKeepsLeft, RemoveRootKeepsLeft,
     ReturnRunKeepsLeft, PromoteKeepsLeft, RefuseCompletionKeepsLeft DEF RunStep
<1>3. ASSUME NEW b \in Builds, LoseWrite(b)
      PROVE  LeftInv'
  BY <1>3, LoseWriteKeepsLeft
<1>4. CASE CrashRunner
  BY <1>4, CrashRunnerKeepsLeft
<1>5. CASE UNCHANGED allVars
  BY <1>5 DEF allVars, pipelineVars, buildVars, LeftInv, LeftAt, PipelineTypeOK, BuildTypeOK
<1> QED BY <1>1, <1>2, <1>3, <1>4, <1>5 DEF PipelineNext

(* However the steps of run(), its failures, its clean-up and restarts     *)
(* interleave, a job that is over has left a directory, a builder or an    *)
(* artifact that was not promoted only where a removal failed, a write was *)
(* lost, a completion was refused, or the process stopped.                 *)
THEOREM NothingLeftBehind == PipelineSpec => []NothingIsLeftBehind
<1>1. PipelineInit => BuildInv /\ LeftInv
  BY InitLeft, InitBuildInv DEF PipelineInit
<1>2. BuildInv /\ LeftInv /\ [PipelineNext]_allVars => (BuildInv /\ LeftInv)'
  <2> SUFFICES ASSUME BuildInv, LeftInv, [PipelineNext]_allVars
               PROVE  BuildInv' /\ LeftInv'
    OBVIOUS
  <2>1. BuildInv'
    BY NextIsBuildNext, NextKeepsBuildInv
  <2>2. BuildTypeOK'
    BY <2>1 DEF BuildInv
  <2> QED BY <2>1, <2>2, NextKeepsLeft
<1>3. BuildInv /\ LeftInv => NothingIsLeftBehind
  BY DEF LeftInv, LeftAt, NothingIsLeftBehind
<1> QED BY <1>1, <1>2, <1>3, PTL DEF PipelineSpec

=============================================================================
