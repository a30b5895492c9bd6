---------------------------- MODULE BuildPipeline ----------------------------
(***************************************************************************)
(* DockerBuildRunner.run of apps/api/src/build-integrity/runner.ts, step   *)
(* by step, over the rows and the background job of SourceBuilds: what a   *)
(* job leaves on disk and in Docker, and when it gives its slot back.      *)
(*                                                                         *)
(* run() awaits between any two of its steps and jobs share nothing but    *)
(* the counter, so the steps of two jobs interleave freely.  A digest      *)
(* stands for the bytes it is taken of.                                    *)
(***************************************************************************)
EXTENDS SourceBuilds

VARIABLES
    stage,      \* build id -> the step of run() its job takes next
    exported,   \* build id -> digest of the artifact BuildKit exported
    succeeded,  \* builds whose run() set its flag of that name
    roots,      \* builds with a temporary directory on disk
    builders,   \* builds with a BuildKit builder in Docker
    mishaps     \* build id -> what went wrong outside the job (history)

pipelineVars == <<stage, exported, succeeded, roots, builders, mishaps>>
allVars == <<buildVars, pipelineVars>>

Stage == {"IDLE", "TEMP", "SOURCE", "IMAGES", "BUILDER", "BUILD", "COLLECT", "COPY", "REHASH",
          "RM_BUILDER", "DISCARD", "RM_ROOT", "RETURN"}
Mishap == {"CRASH", "WRITE_LOST", "BUILDER_KEPT", "COPY_KEPT", "ROOT_KEPT", "UNPROMOTED"}

PipelineTypeOK ==
    /\ BuildTypeOK
    /\ stage \in [Builds -> Stage]
    /\ exported \in [Builds -> Artifacts \cup {Placeholder}]
    /\ succeeded \subseteq Builds /\ roots \subseteq Builds /\ builders \subseteq Builds
    /\ mishaps \in [Builds -> SUBSET Mishap]

-----------------------------------------------------------------------------
Goto(b, from, to) == stage[b] = from /\ stage' = [stage EXCEPT ![b] = to]

Note(b, mishap) == mishaps' = [mishaps EXCEPT ![b] = @ \cup {mishap}]

\* Mutant: builderName is assigned after createBuilder has returned.
FirstCleanUpLate(s) ==
    IF s \in {"BUILD", "COLLECT", "COPY", "REHASH"} THEN "RM_BUILDER" ELSE "DISCARD"

\* Where the finally block starts: builderName is assigned before createBuilder.
FirstCleanUp(s) ==
    IF s \in {"BUILDER", "BUILD", "COLLECT", "COPY", "REHASH"} THEN "RM_BUILDER" ELSE "DISCARD"

\* The job starts in the turn that inserts the row.
StartJob(b, account) ==
    /\ CreateSourceBuild(b, account)
    /\ stage' = [stage EXCEPT ![b] = "TEMP"]
    /\ UNCHANGED <<exported, succeeded, roots, builders, mishaps>>

\* mkdtemp, the first step of #materializeSnapshot.
MakeRoot(b) ==
    /\ Goto(b, "TEMP", "SOURCE")
    /\ roots' = roots \cup {b}
    /\ UNCHANGED <<buildVars, exported, succeeded, builders, mishaps>>

(* The source at the exact revision is cloned, vetted and unpacked; or the *)
(* images are pinned and buildx is asked its version.  Neither leaves      *)
(* anything outside the temporary directory.                               *)
Prepare(b) ==
    /\ \/ Goto(b, "SOURCE", "IMAGES")
       \/ Goto(b, "IMAGES", "BUILDER")
    /\ UNCHANGED <<buildVars, exported, succeeded, roots, builders, mishaps>>

\* The Dockerfile is written and the builder created.
CreateBuilder(b) ==
    /\ Goto(b, "BUILDER", "BUILD")
    /\ builders' = builders \cup {b}
    /\ UNCHANGED <<buildVars, exported, succeeded, roots, mishaps>>

\* buildx create fails after it made the builder, while bootstrapping it.
CreateBuilderFails(b) ==
    /\ Goto(b, "BUILDER", FirstCleanUp("BUILDER"))
    /\ builders' = builders \cup {b}
    /\ UNCHANGED <<buildVars, exported, succeeded, roots, mishaps>>

\* BuildKit exports an artifact; its digest is taken in the output directory.
RunBuild(b) ==
    /\ Goto(b, "BUILD", "COLLECT")
    /\ UNCHANGED <<buildVars, exported, succeeded, roots, builders, mishaps>>

Collect(b, artifact) ==
    /\ Goto(b, "COLLECT", "COPY")
    /\ exported' = [exported EXCEPT ![b] = artifact]
    /\ UNCHANGED <<buildVars, succeeded, roots, builders, mishaps>>

\* copyFile, whole or interrupted: what arrived may have another digest.
CopyArtifact(b, artifact) ==
    /\ Goto(b, "COPY", "REHASH")
    /\ StoreArtifact(b, artifact)
    /\ UNCHANGED <<exported, succeeded, roots, builders, mishaps>>

Rehash(b) ==
    /\ Goto(b, "REHASH", "RM_BUILDER")
    /\ artifacts[b] = exported[b]
    /\ succeeded' = succeeded \cup {b}
    /\ UNCHANGED <<buildVars, exported, roots, builders, mishaps>>

\* Mutant: the slot is given back where the error is caught.
FailStepReleasing(b) ==
    /\ stage[b] \in {"TEMP", "SOURCE", "IMAGES", "BUILDER", "BUILD", "COLLECT", "COPY", "REHASH"}
    /\ stage' = [stage EXCEPT ![b] = FirstCleanUp(stage[b])]
    /\ activeJobs' = activeJobs - 1
    /\ UNCHANGED <<builds, artifacts, jobs, exported, succeeded, roots, builders, mishaps>>

(* A step throws: a tool exits, is killed at its timeout or is missing, or *)
(* what it left is refused.  A snapshot removes its own directory, which   *)
(* is the same one attempt as the finally block's.                         *)
FailStep(b) ==
    /\ stage[b] \in {"TEMP", "SOURCE", "IMAGES", "BUILDER", "BUILD", "COLLECT", "COPY", "REHASH"}
    /\ stage' = [stage EXCEPT ![b] = FirstCleanUp(stage[b])]
    /\ UNCHANGED <<buildVars, exported, succeeded, roots, builders, mishaps>>

-----------------------------------------------------------------------------
\* The finally block; each of its removals may fail, and its error is dropped.
RemoveBuilder(b) ==
    /\ Goto(b, "RM_BUILDER", "DISCARD")
    /\ \/ builders' = builders \ {b} /\ UNCHANGED mishaps
       \/ b \in builders /\ Note(b, "BUILDER_KEPT") /\ UNCHANGED builders
    /\ UNCHANGED <<buildVars, exported, succeeded, roots>>

DiscardCopy(b) ==
    /\ Goto(b, "DISCARD", "RM_ROOT")
    /\ IF b \in succeeded
       THEN UNCHANGED <<buildVars, mishaps>>
       ELSE /\ RunFails(b)
            /\ IF artifacts'[b] = Placeholder THEN UNCHANGED mishaps ELSE Note(b, "COPY_KEPT")
    /\ UNCHANGED <<exported, succeeded, roots, builders>>

RemoveRoot(b) ==
    /\ Goto(b, "RM_ROOT", "RETURN")
    /\ \/ roots' = roots \ {b} /\ UNCHANGED mishaps
       \/ b \in roots /\ Note(b, "ROOT_KEPT") /\ UNCHANGED roots
    /\ UNCHANGED <<buildVars, exported, succeeded, builders>>

\* The slot is given back; run() resolves, or rejects and the row is settled.
ReturnRun(b) ==
    /\ Goto(b, "RETURN", "IDLE")
    /\ IF b \in succeeded THEN RunSucceeds(b) ELSE RunRejects(b)
    /\ UNCHANGED <<exported, succeeded, roots, builders, mishaps>>

-----------------------------------------------------------------------------
\* completeSourceBuild hashes the stored copy and compares it with the evidence.
Promote(b) ==
    /\ artifacts[b] = exported[b]
    /\ CompleteSourceBuild(b)
    /\ UNCHANGED pipelineVars

\* The evidence, the hash or the transaction failed: nothing removes the copy.
RefuseCompletion(b) ==
    /\ CompletionFails(b)
    /\ Note(b, "UNPROMOTED")
    /\ UNCHANGED <<stage, exported, succeeded, roots, builders>>

\* The job ends without settling its row.
LoseWrite(b) ==
    /\ stage[b] \in {"RETURN", "IDLE"}
    /\ SettleIsLost(b)
    /\ stage' = [stage EXCEPT ![b] = "IDLE"]
    /\ Note(b, "WRITE_LOST")
    /\ UNCHANGED <<exported, succeeded, roots, builders>>

\* The process stops; files and builders stay, and no start removes them.
CrashRunner ==
    /\ BuildCrash
    /\ stage' = [b \in Builds |-> "IDLE"]
    /\ mishaps' = [b \in Builds |-> mishaps[b] \cup (IF jobs[b] = "NONE" THEN {} ELSE {"CRASH"})]
    /\ UNCHANGED <<exported, succeeded, roots, builders>>

-----------------------------------------------------------------------------
PipelineInit ==
    /\ BuildInit
    /\ stage = [b \in Builds |-> "IDLE"]
    /\ exported = [b \in Builds |-> Placeholder]
    /\ succeeded = {} /\ roots = {} /\ builders = {}
    /\ mishaps = [b \in Builds |-> {}]

RunStep(b) ==
    \/ MakeRoot(b) \/ Prepare(b) \/ CreateBuilder(b) \/ CreateBuilderFails(b) \/ RunBuild(b)
    \/ \E artifact \in Artifacts : Collect(b, artifact) \/ CopyArtifact(b, artifact)
    \/ Rehash(b) \/ FailStep(b)
    \/ RemoveBuilder(b) \/ DiscardCopy(b) \/ RemoveRoot(b) \/ ReturnRun(b)
    \/ Promote(b) \/ RefuseCompletion(b)

Request ==
    \E b \in Builds, account \in Accounts :
        \/ StartJob(b, account)
        \/ CreateUnrunnableBuild(b, account) /\ UNCHANGED pipelineVars
        \/ \E artifact \in Artifacts : CreateBuild(b, account, artifact) /\ UNCHANGED pipelineVars

PipelineNext ==
    \/ Request
    \/ \E b \in Builds : RunStep(b) \/ LoseWrite(b)
    \/ CrashRunner

(* Job steps are fair: every tool has a timeout, and what follows it works *)
(* on local files.  Requests, lost writes and restarts are not.            *)
PipelineSpec ==
    /\ PipelineInit
    /\ [][PipelineNext]_allVars
    /\ \A b \in Builds : WF_allVars(RunStep(b))

-----------------------------------------------------------------------------
(* A job that is over, however it ended, has left no temporary directory,  *)
(* no builder and no copy of an artifact that was not promoted, unless the *)
(* process stopped, a removal failed, or the copy was already handed over  *)
(* to a completion that then failed.                                       *)
NothingIsLeftBehind ==
    \A b \in Builds :
        /\ b \in roots /\ jobs[b] \in {"NONE", "VERIFYING"} =>
              mishaps[b] \cap {"CRASH", "ROOT_KEPT"} # {}
        /\ b \in builders /\ jobs[b] \in {"NONE", "VERIFYING"} =>
              mishaps[b] \cap {"CRASH", "BUILDER_KEPT"} # {}
        /\ artifacts[b] # Placeholder /\ jobs[b] = "NONE" =>
              \/ builds[b].integrity = "BUILD_SUCCEEDED"
              \/ mishaps[b] \cap {"CRASH", "COPY_KEPT", "WRITE_LOST", "UNPROMOTED"} # {}

(* Every source build leaves BUILDING, unless the process stopped under    *)
(* its job or the write that settles it was lost: an account at its quota  *)
(* builds again.                                                           *)
BuildsSettle ==
    \A b \in Builds :
        builds[b].integrity = "BUILDING" ~>
            \/ builds[b].integrity # "BUILDING"
            \/ mishaps[b] \cap {"CRASH", "WRITE_LOST"} # {}

(* The runner's steps implement the job of SourceBuilds, with which        *)
(* evaluations are composed.                                               *)
ImplementsSourceBuilds == BuildSpec
=============================================================================
