----------------------------- MODULE SourceBuilds -----------------------------
(***************************************************************************)
(* Robot builds: the builds and build_integrity tables, the background job *)
(* POST source-builds starts for each source build, and the runner's       *)
(* process-wide job counter.                                               *)
(*                                                                         *)
(* A digest stands for everything a descriptor and its traces derive from  *)
(* an artifact.  The job is split where its state shows outside run():     *)
(* while the runner works, after it copied the artifact to the artifact    *)
(* directory, while it cleans up a failure, and while completeSourceBuild  *)
(* hashes the copy; BuildPipeline shows that the runner's own steps        *)
(* implement this.  A call refused before it changes anything is no step.  *)
(***************************************************************************)
EXTENDS Naturals, FiniteSets

CONSTANTS
    Accounts,
    Builds,          \* build ids the server may draw, each once
    Artifacts,       \* artifact digests
    Placeholder,     \* sha256 of zeros: no artifact yet
    MaxBuilding,     \* MAX_BUILDING_SOURCE_BUILDS_PER_ACCOUNT
    RunnerCapacity   \* maxConcurrentBuilds; 0 when no runner is configured

ASSUME BuildAssumption ==
    /\ Placeholder \notin Artifacts
    /\ MaxBuilding \in Nat /\ RunnerCapacity \in Nat
    /\ IsFiniteSet(Builds)

VARIABLES
    builds,      \* build id -> row; integrity is "NONE" for an existing build
    artifacts,   \* artifact directory: build id -> stored file
    jobs,        \* build id -> what its background job is doing, in process
    activeJobs   \* the runner's counter, in process

buildVars == <<builds, artifacts, jobs, activeJobs>>

NoBuild == [integrity |-> "ABSENT"]
Build == [account   : Accounts,
          digest    : Artifacts \cup {Placeholder},
          integrity : {"NONE", "BUILDING", "BUILD_SUCCEEDED", "BUILD_FAILED"}]
Job == {"NONE", "RUNNING", "STORED", "FAILING", "VERIFYING"}

BuildTypeOK ==
    /\ builds \in [Builds -> {NoBuild} \cup Build]
    /\ artifacts \in [Builds -> Artifacts \cup {Placeholder}]
    /\ jobs \in [Builds -> Job]
    /\ activeJobs \in Nat

-----------------------------------------------------------------------------
Building(account) ==
    {b \in Builds : builds[b].integrity = "BUILDING" /\ builds[b].account = account}

\* Mutant: the UPDATE looks for another status than the row's.
SettleNothing(b, status) ==
    builds' = IF builds[b].integrity = "BUILD_FAILED"
              THEN [builds EXCEPT ![b].integrity = status]
              ELSE builds

\* failSourceBuild's UPDATE, on rows still BUILDING.
Settle(b, status) ==
    builds' = IF builds[b].integrity = "BUILDING"
              THEN [builds EXCEPT ![b].integrity = status]
              ELSE builds

\* Mutant: creating a build replaces the row of its id.
CreateBuildReplacing(b, account, artifact) ==
    /\ builds' = [builds EXCEPT ![b] =
          [account |-> account, digest |-> artifact, integrity |-> "NONE"]]
    /\ UNCHANGED <<artifacts, jobs, activeJobs>>

CreateBuild(b, account, artifact) ==
    /\ builds[b] = NoBuild
    /\ builds' = [builds EXCEPT ![b] =
          [account |-> account, digest |-> artifact, integrity |-> "NONE"]]
    /\ UNCHANGED <<artifacts, jobs, activeJobs>>

\* Mutant: the quota is compared one too late.
CreateBeyondQuota(b, account) ==
    /\ builds[b] = NoBuild
    /\ Cardinality(Building(account)) <= MaxBuilding
    /\ activeJobs < RunnerCapacity
    /\ builds' = [builds EXCEPT ![b] =
          [account |-> account, digest |-> Placeholder, integrity |-> "BUILDING"]]
    /\ jobs' = [jobs EXCEPT ![b] = "RUNNING"]
    /\ activeJobs' = activeJobs + 1
    /\ UNCHANGED artifacts

\* run() takes a slot in the same turn of the event loop as the insert.
CreateSourceBuild(b, account) ==
    /\ builds[b] = NoBuild
    /\ Cardinality(Building(account)) < MaxBuilding
    /\ activeJobs < RunnerCapacity
    /\ builds' = [builds EXCEPT ![b] =
          [account |-> account, digest |-> Placeholder, integrity |-> "BUILDING"]]
    /\ jobs' = [jobs EXCEPT ![b] = "RUNNING"]
    /\ activeJobs' = activeJobs + 1
    /\ UNCHANGED artifacts

\* The runner is missing, full or refuses the request: the build just
\* inserted fails at once.
CreateUnrunnableBuild(b, account) ==
    /\ builds[b] = NoBuild
    /\ Cardinality(Building(account)) < MaxBuilding
    /\ builds' = [builds EXCEPT ![b] =
          [account |-> account, digest |-> Placeholder, integrity |-> "BUILD_FAILED"]]
    /\ UNCHANGED <<artifacts, jobs, activeJobs>>

StoreArtifact(b, artifact) ==
    /\ jobs[b] = "RUNNING"
    /\ jobs' = [jobs EXCEPT ![b] = "STORED"]
    /\ artifacts' = [artifacts EXCEPT ![b] = artifact]
    /\ UNCHANGED <<builds, activeJobs>>

\* run() resolves after its finally block; completeSourceBuild reads the row.
RunSucceeds(b) ==
    /\ jobs[b] = "STORED"
    /\ jobs' = [jobs EXCEPT ![b] = "VERIFYING"]
    /\ activeJobs' = activeJobs - 1
    /\ UNCHANGED <<builds, artifacts>>

\* A tool failed or timed out: the finally block tries to remove the copy.
RunFails(b) ==
    /\ jobs[b] \in {"RUNNING", "STORED"}
    /\ jobs' = [jobs EXCEPT ![b] = "FAILING"]
    /\ \E left \in {Placeholder, artifacts[b]} : artifacts' = [artifacts EXCEPT ![b] = left]
    /\ UNCHANGED <<builds, activeJobs>>

(* run() rejects at the end of its finally block, which gives the slot     *)
(* back, and failSourceBuild settles the row before any other handler runs.*)
RunRejects(b) ==
    /\ jobs[b] = "FAILING"
    /\ jobs' = [jobs EXCEPT ![b] = "NONE"]
    /\ activeJobs' = activeJobs - 1
    /\ Settle(b, "BUILD_FAILED")
    /\ UNCHANGED artifacts

\* Mutant: the descriptor keeps the placeholder digest.
CompleteWithoutDigest(b) ==
    /\ jobs[b] = "VERIFYING"
    /\ builds' = [builds EXCEPT ![b].integrity = "BUILD_SUCCEEDED"]
    /\ jobs' = [jobs EXCEPT ![b] = "NONE"]
    /\ UNCHANGED <<artifacts, activeJobs>>

\* The transaction of completeSourceBuild, on rows still BUILDING.
CompleteSourceBuild(b) ==
    /\ jobs[b] = "VERIFYING"
    /\ builds[b].integrity = "BUILDING"
    /\ builds' = [builds EXCEPT ![b].integrity = "BUILD_SUCCEEDED",
                                ![b].digest = artifacts[b]]
    /\ jobs' = [jobs EXCEPT ![b] = "NONE"]
    /\ UNCHANGED <<artifacts, activeJobs>>

\* The evidence, the hash or the transaction failed: the file stays behind.
CompletionFails(b) ==
    /\ jobs[b] = "VERIFYING"
    /\ jobs' = [jobs EXCEPT ![b] = "NONE"]
    /\ Settle(b, "BUILD_FAILED")
    /\ UNCHANGED <<artifacts, activeJobs>>

(* The job failed and so did the write of failSourceBuild: the handler's   *)
(* last catch drops the error and the row stays BUILDING.                  *)
SettleIsLost(b) ==
    /\ jobs[b] \in {"FAILING", "VERIFYING"}
    /\ jobs' = [jobs EXCEPT ![b] = "NONE"]
    /\ activeJobs' = IF jobs[b] = "FAILING" THEN activeJobs - 1 ELSE activeJobs
    /\ UNCHANGED <<builds, artifacts>>

BuildCrash ==
    /\ jobs' = [b \in Builds |-> "NONE"]
    /\ activeJobs' = 0
    /\ UNCHANGED <<builds, artifacts>>

-----------------------------------------------------------------------------
BuildInit ==
    /\ builds = [b \in Builds |-> NoBuild]
    /\ artifacts = [b \in Builds |-> Placeholder]
    /\ jobs = [b \in Builds |-> "NONE"]
    /\ activeJobs = 0

JobStep(b) ==
    \/ \E artifact \in Artifacts : StoreArtifact(b, artifact)
    \/ RunSucceeds(b)
    \/ RunFails(b)
    \/ RunRejects(b)
    \/ CompleteSourceBuild(b)
    \/ CompletionFails(b)

BuildWork ==
    \E b \in Builds :
        \/ \E account \in Accounts :
              \/ \E artifact \in Artifacts : CreateBuild(b, account, artifact)
              \/ CreateSourceBuild(b, account)
              \/ CreateUnrunnableBuild(b, account)
        \/ JobStep(b)

BuildFault == BuildCrash \/ \E b \in Builds : SettleIsLost(b)

BuildNext == BuildWork \/ BuildFault

BuildSpec == BuildInit /\ [][BuildNext]_buildVars

-----------------------------------------------------------------------------
(* The quotas hold whatever creations, completions and restarts interleave:*)
(* an account has at most MaxBuilding rows BUILDING, the runner at most    *)
(* RunnerCapacity jobs, and its counter counts exactly the jobs it runs,   *)
(* so no failure path leaks a slot.                                        *)
QuotasHold ==
    /\ \A account \in Accounts : Cardinality(Building(account)) <= MaxBuilding
    /\ activeJobs <= RunnerCapacity
    /\ activeJobs = Cardinality({b \in Builds : jobs[b] \in {"RUNNING", "STORED", "FAILING"}})

(* A build names a real artifact exactly when its source build succeeded   *)
(* (or it needed none), the artifact of a succeeded build is in the        *)
(* artifact directory, and a job only ever works on a row still BUILDING.  *)
PromotedHasArtifact ==
    \A b \in Builds :
        LET build == builds[b]
        IN  /\ build.integrity \in {"BUILDING", "BUILD_FAILED"} => build.digest = Placeholder
            /\ build.integrity = "BUILD_SUCCEEDED" =>
                  build.digest # Placeholder /\ artifacts[b] = build.digest
            /\ jobs[b] # "NONE" => build.integrity = "BUILDING"

(* A settled build is settled for good: neither a late job nor a restart   *)
(* changes the status, the owner or the digest an evaluation was made of.  *)
SettledIsFinal ==
    [][\A b \in Builds :
          builds[b].integrity \in {"NONE", "BUILD_SUCCEEDED", "BUILD_FAILED"}
              => builds'[b] = builds[b]]_buildVars
=============================================================================
