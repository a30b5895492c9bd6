-------------------------- MODULE SourceBuildsProofs --------------------------
(***************************************************************************)
(* What the build tables and the job counter guarantee for any accounts,   *)
(* build ids, artifacts and quotas.  BuildInv is the inductive invariant:  *)
(* the two checked invariants need each other (a job works on a row still  *)
(* BUILDING, so it is not counted twice), and promotion needs to know that *)
(* a job which stored its artifact has one.                                *)
(***************************************************************************)
EXTENDS SourceBuilds, FiniteSetTheorems, TLAPS

CopiesAreReal ==
    \A b \in Builds : jobs[b] \in {"STORED", "VERIFYING"} => artifacts[b] \in Artifacts

BuildInv == BuildTypeOK /\ QuotasHold /\ PromotedHasArtifact /\ CopiesAreReal

\* The builds whose job holds a slot of the runner.
Occupied == {b \in Builds : jobs[b] \in {"RUNNING", "STORED", "FAILING"}}

USE BuildAssumption

-----------------------------------------------------------------------------
LEMMA BuildRows ==
    /\ NoBuild \notin Build
    /\ NoBuild.integrity = "ABSENT"
    /\ \A account \in Accounts, digest \in Artifacts \cup {Placeholder},
          integrity \in {"NONE", "BUILDING", "BUILD_SUCCEEDED", "BUILD_FAILED"} :
          [account |-> account, digest |-> digest, integrity |-> integrity] \in Build
    /\ \A row \in {NoBuild} \cup Build : row.integrity # "ABSENT" => row \in Build
BY DEF NoBuild, Build

(* A row of Build may get another status, and another digest.              *)
LEMMA RowUpdates ==
    ASSUME NEW row \in Build,
           NEW integrity \in {"NONE", "BUILDING", "BUILD_SUCCEEDED", "BUILD_FAILED"},
           NEW digest \in Artifacts \cup {Placeholder}
    PROVE  /\ [row EXCEPT !.integrity = integrity] \in Build
           /\ [row EXCEPT !.integrity = integrity, !.digest = digest] \in Build
BY DEF Build

LEMMA InitBuildInv == BuildInit => BuildInv
<1> SUFFICES ASSUME BuildInit PROVE BuildInv
  OBVIOUS
<1> USE DEF BuildInit
<1>1. BuildTypeOK
  BY DEF BuildTypeOK, Job
<1>2. \A account \in Accounts : Building(account) = {}
  BY DEF Building, NoBuild
<1>3. Occupied = {}
  BY DEF Occupied
<1>4. QuotasHold
  BY <1>2, <1>3, FS_EmptySet DEF QuotasHold, Occupied
<1>5. PromotedHasArtifact
  BY DEF PromotedHasArtifact, NoBuild
<1>6. CopiesAreReal
  BY DEF CopiesAreReal
<1> QED BY <1>1, <1>4, <1>5, <1>6 DEF BuildInv

-----------------------------------------------------------------------------
(* The sets that are counted are finite, and a step that starts no build   *)
(* and takes no slot keeps the quotas.                                     *)
LEMMA CountedSets ==
    ASSUME BuildTypeOK
    PROVE  /\ IsFiniteSet(Occupied)
           /\ \A account \in Accounts : IsFiniteSet(Building(account))
<1>1. Occupied \in SUBSET Builds
  BY DEF Occupied
<1>2. \A account \in Accounts : Building(account) \in SUBSET Builds
  BY DEF Building
<1> QED BY <1>1, <1>2, FS_Subset

LEMMA NoNewJob ==
    ASSUME BuildInv,
           \A account \in Accounts : Building(account)' \subseteq Building(account),
           \/ Occupied' = Occupied /\ activeJobs' = activeJobs
           \/ \E b \in Occupied : Occupied' = Occupied \ {b} /\ activeJobs' = activeJobs - 1
           \/ Occupied' = {} /\ activeJobs' = 0
    PROVE  QuotasHold'
<1> USE CountedSets DEF BuildInv
<1>1. \A account \in Accounts : Cardinality(Building(account)') <= MaxBuilding
  <2> TAKE account \in Accounts
  <2>1. Building(account)' \in SUBSET Building(account)
    OBVIOUS
  <2>2. /\ IsFiniteSet(Building(account)')
        /\ Cardinality(Building(account)') <= Cardinality(Building(account))
    BY <2>1, FS_Subset
  <2>3. /\ Cardinality(Building(account)) \in Nat
        /\ Cardinality(Building(account)') \in Nat
    BY <2>2, FS_CardinalityType
  <2> QED BY <2>2, <2>3 DEF QuotasHold
<1>2. activeJobs = Cardinality(Occupied) /\ activeJobs <= RunnerCapacity
  BY DEF QuotasHold, Occupied
<1>3. activeJobs \in Nat
  BY DEF BuildTypeOK
<1>4. activeJobs' = Cardinality(Occupied') /\ activeJobs' <= RunnerCapacity
  <2>1. CASE Occupied' = Occupied /\ activeJobs' = activeJobs
    BY <2>1, <1>2
  <2>2. CASE \E b \in Occupied : Occupied' = Occupied \ {b} /\ activeJobs' = activeJobs - 1
    <3> PICK b \in Occupied : Occupied' = Occupied \ {b} /\ activeJobs' = activeJobs - 1
      BY <2>2
    <3>1. Cardinality(Occupied \ {b}) = Cardinality(Occupied) - 1
      BY FS_RemoveElement
    <3> QED BY <3>1, <1>2, <1>3
  <2>3. CASE Occupied' = {} /\ activeJobs' = 0
    BY <2>3, FS_EmptySet
  <2> QED BY <2>1, <2>2, <2>3
<1> QED BY <1>1, <1>4 DEF QuotasHold, Occupied

-----------------------------------------------------------------------------
(* Creations.  A row that exists is not replaced.                          *)
LEMMA NewRow ==
    ASSUME BuildInv, NEW b \in Builds, builds[b] = NoBuild,
           NEW account \in Accounts, NEW digest \in Artifacts \cup {Placeholder},
           NEW integrity \in {"NONE", "BUILDING", "BUILD_FAILED"},
           builds' = [builds EXCEPT ![b] =
              [account |-> account, digest |-> digest, integrity |-> integrity]]
    PROVE  /\ builds' \in [Builds -> {NoBuild} \cup Build]
           /\ builds'[b].integrity = integrity /\ builds'[b].digest = digest
           /\ builds'[b].account = account
           /\ \A other \in Builds \ {b} : builds'[other] = builds[other]
           /\ jobs[b] = "NONE"
<1>1. jobs[b] = "NONE"
  BY BuildRows DEF BuildInv, PromotedHasArtifact
<1> QED BY <1>1, BuildRows DEF BuildInv, BuildTypeOK

LEMMA CreateBuildKeeps ==
    ASSUME BuildInv, NEW b \in Builds, NEW account \in Accounts, NEW artifact \in Artifacts,
           CreateBuild(b, account, artifact)
    PROVE  BuildInv'
<1> USE DEF CreateBuild
<1>1. /\ builds' \in [Builds -> {NoBuild} \cup Build]
      /\ builds'[b].integrity = "NONE" /\ builds'[b].digest = artifact
      /\ \A other \in Builds \ {b} : builds'[other] = builds[other]
      /\ jobs[b] = "NONE"
  BY NewRow
<1>2. BuildTypeOK'
  BY <1>1 DEF BuildInv, BuildTypeOK
<1>3. \A holder \in Accounts : Building(holder)' \subseteq Building(holder)
  BY <1>1 DEF Building
<1>4. QuotasHold'
  BY <1>3, NoNewJob DEF Occupied
<1>5. PromotedHasArtifact'
  BY <1>1 DEF BuildInv, PromotedHasArtifact
<1>6. CopiesAreReal'
  BY DEF BuildInv, CopiesAreReal
<1> QED BY <1>2, <1>4, <1>5, <1>6 DEF BuildInv

LEMMA CreateUnrunnableBuildKeeps ==
    ASSUME BuildInv, NEW b \in Builds, NEW account \in Accounts,
           CreateUnrunnableBuild(b, account)
    PROVE  BuildInv'
<1> USE DEF CreateUnrunnableBuild
<1>1. /\ builds' \in [Builds -> {NoBuild} \cup Build]
      /\ builds'[b].integrity = "BUILD_FAILED" /\ builds'[b].digest = Placeholder
      /\ \A other \in Builds \ {b} : builds'[other] = builds[other]
      /\ jobs[b] = "NONE"
  BY NewRow
<1>2. BuildTypeOK'
  BY <1>1 DEF BuildInv, BuildTypeOK
<1>3. \A holder \in Accounts : Building(holder)' \subseteq Building(holder)
  BY <1>1 DEF Building
<1>4. QuotasHold'
  BY <1>3, NoNewJob DEF Occupied
<1>5. PromotedHasArtifact'
  BY <1>1 DEF BuildInv, PromotedHasArtifact
<1>6. CopiesAreReal'
  BY DEF BuildInv, CopiesAreReal
<1> QED BY <1>2, <1>4, <1>5, <1>6 DEF BuildInv

(* The only step that adds to what is counted: each count was below its    *)
(* limit, and the new build was in neither set.                            *)
LEMMA CreateSourceBuildKeeps ==
    ASSUME BuildInv, NEW b \in Builds, NEW account \in Accounts,
           CreateSourceBuild(b, account)
    PROVE  BuildInv'
<1> USE CountedSets DEF CreateSourceBuild, BuildInv
<1>1. /\ builds' \in [Builds -> {NoBuild} \cup Build]
      /\ builds'[b].integrity = "BUILDING" /\ builds'[b].digest = Placeholder
      /\ builds'[b].account = account
      /\ \A other \in Builds \ {b} : builds'[other] = builds[other]
      /\ jobs[b] = "NONE"
  BY NewRow
<1>2. /\ jobs' \in [Builds -> Job] /\ jobs'[b] = "RUNNING"
      /\ \A other \in Builds \ {b} : jobs'[other] = jobs[other]
  BY DEF BuildTypeOK, Job
<1>3. BuildTypeOK'
  BY <1>1, <1>2 DEF BuildTypeOK
<1>4. \A holder \in Accounts : Cardinality(Building(holder)') <= MaxBuilding
  <2> TAKE holder \in Accounts
  <2>1. CASE holder = account
    <3>1. Building(account)' = Building(account) \cup {b} /\ b \notin Building(account)
      BY <1>1, BuildRows DEF Building
    <3>2. /\ Cardinality(Building(account)') = Cardinality(Building(account)) + 1
          /\ Cardinality(Building(account)) \in Nat
      BY <3>1, FS_AddElement, FS_CardinalityType
    <3> QED BY <2>1, <3>2
  <2>2. CASE holder # account
    <3>1. Building(holder)' = Building(holder)
      BY <2>2, <1>1, BuildRows DEF Building
    <3> QED BY <3>1 DEF QuotasHold
  <2> QED BY <2>1, <2>2
<1>5. activeJobs' = Cardinality(Occupied') /\ activeJobs' <= RunnerCapacity
  <2>1. Occupied' = Occupied \cup {b} /\ b \notin Occupied
    BY <1>1, <1>2 DEF Occupied
  <2>2. Cardinality(Occupied') = Cardinality(Occupied) + 1
    BY <2>1, FS_AddElement
  <2>3. activeJobs = Cardinality(Occupied) /\ activeJobs \in Nat
    BY DEF QuotasHold, Occupied, BuildTypeOK
  <2> QED BY <2>2, <2>3
<1>6. PromotedHasArtifact'
  BY <1>1, <1>2 DEF PromotedHasArtifact
<1>7. CopiesAreReal'
  BY <1>1, <1>2 DEF CopiesAreReal
<1>8. QuotasHold'
  BY <1>4, <1>5 DEF QuotasHold, Occupied
<1> QED BY <1>3, <1>6, <1>7, <1>8

-----------------------------------------------------------------------------
(* Steps of a job.  Settling a row only takes it out of Building, and it   *)
(* is done to the row of a job, which is BUILDING.                         *)
LEMMA Settled ==
    ASSUME BuildInv, NEW b \in Builds, jobs[b] # "NONE",
           NEW status \in {"BUILD_SUCCEEDED", "BUILD_FAILED"},
           NEW digest \in Artifacts \cup {Placeholder},
           \/ digest = builds[b].digest /\ Settle(b, status)
           \/ builds' = [builds EXCEPT ![b].integrity = status, ![b].digest = digest]
    PROVE  /\ builds' \in [Builds -> {NoBuild} \cup Build]
           /\ builds'[b].integrity = status /\ builds'[b].digest = digest
           /\ \A other \in Builds \ {b} : builds'[other] = builds[other]
           /\ \A account \in Accounts : Building(account)' \subseteq Building(account)
<1>1. builds[b].integrity = "BUILDING" /\ builds \in [Builds -> {NoBuild} \cup Build]
  BY DEF BuildInv, PromotedHasArtifact, BuildTypeOK
<1>2. builds[b] \in Build
  BY <1>1, BuildRows
<1>3. /\ [builds[b] EXCEPT !.integrity = status] \in Build
      /\ [builds[b] EXCEPT !.integrity = status, !.digest = digest] \in Build
  BY <1>2, RowUpdates
<1>4. /\ builds' \in [Builds -> {NoBuild} \cup Build]
      /\ builds'[b].integrity = status /\ builds'[b].digest = digest
      /\ \A other \in Builds \ {b} : builds'[other] = builds[other]
  BY <1>1, <1>2, <1>3 DEF Settle, Build
<1>5. \A account \in Accounts : Building(account)' \subseteq Building(account)
  BY <1>4 DEF Building
<1> QED BY <1>4, <1>5

(* A job that gives its slot back was counted, and is no longer.           *)
LEMMA SlotReturned ==
    ASSUME BuildTypeOK, NEW b \in Builds, jobs[b] \in {"RUNNING", "STORED", "FAILING"},
           NEW next \in {"NONE", "VERIFYING"}, jobs' = [jobs EXCEPT ![b] = next],
           activeJobs' = activeJobs - 1, QuotasHold
    PROVE  /\ b \in Occupied /\ Occupied' = Occupied \ {b}
           /\ activeJobs' \in Nat
<1>1. b \in Occupied /\ Occupied' = Occupied \ {b}
  BY DEF Occupied, BuildTypeOK
<1>2. Cardinality(Occupied) \in Nat /\ Cardinality(Occupied \ {b}) \in Nat
  BY CountedSets, FS_CardinalityType, FS_RemoveElement
<1>3. Cardinality(Occupied \ {b}) = Cardinality(Occupied) - 1
  BY <1>1, CountedSets, FS_RemoveElement
<1>4. activeJobs = Cardinality(Occupied)
  BY DEF QuotasHold, Occupied
<1> QED BY <1>1, <1>2, <1>3, <1>4

LEMMA StoreArtifactKeeps ==
    ASSUME BuildInv, NEW b \in Builds, NEW artifact \in Artifacts, StoreArtifact(b, artifact)
    PROVE  BuildInv'
<1> USE DEF StoreArtifact, BuildInv
<1>1. /\ BuildTypeOK'
      /\ jobs'[b] = "STORED" /\ \A other \in Builds \ {b} : jobs'[other] = jobs[other]
      /\ artifacts'[b] = artifact
      /\ \A other \in Builds \ {b} : artifacts'[other] = artifacts[other]
  BY DEF BuildTypeOK, Job
<1>2. Occupied' = Occupied
  BY <1>1 DEF Occupied
<1>3. QuotasHold'
  BY <1>2, NoNewJob DEF Building
<1>4. PromotedHasArtifact'
  BY <1>1 DEF PromotedHasArtifact
<1>5. CopiesAreReal'
  BY <1>1 DEF CopiesAreReal
<1> QED BY <1>1, <1>3, <1>4, <1>5

LEMMA RunFailsKeeps ==
    ASSUME BuildInv, NEW b \in Builds, RunFails(b)
    PROVE  BuildInv'
<1> USE DEF RunFails, BuildInv
<1>1. /\ BuildTypeOK'
      /\ jobs'[b] = "FAILING" /\ \A other \in Builds \ {b} : jobs'[other] = jobs[other]
      /\ \A other \in Builds \ {b} : artifacts'[other] = artifacts[other]
  BY DEF BuildTypeOK, Job
<1>2. Occupied' = Occupied
  BY <1>1 DEF Occupied
<1>3. QuotasHold'
  BY <1>2, NoNewJob DEF Building
<1>4. PromotedHasArtifact'
  BY <1>1 DEF PromotedHasArtifact
<1>5. CopiesAreReal'
  BY <1>1 DEF CopiesAreReal
<1> QED BY <1>1, <1>3, <1>4, <1>5

LEMMA RunSucceedsKeeps ==
    ASSUME BuildInv, NEW b \in Builds, RunSucceeds(b)
    PROVE  BuildInv'
<1> USE DEF RunSucceeds, BuildInv
<1>1. b \in Occupied /\ Occupied' = Occupied \ {b} /\ activeJobs' \in Nat
  BY SlotReturned
<1>2. /\ BuildTypeOK'
      /\ jobs'[b] = "VERIFYING" /\ \A other \in Builds \ {b} : jobs'[other] = jobs[other]
  BY <1>1 DEF BuildTypeOK, Job
<1>3. QuotasHold'
  BY <1>1, NoNewJob DEF Building
<1>4. PromotedHasArtifact'
  BY <1>2 DEF PromotedHasArtifact
<1>5. CopiesAreReal'
  BY <1>2 DEF CopiesAreReal
<1> QED BY <1>2, <1>3, <1>4, <1>5

LEMMA RunRejectsKeeps ==
    ASSUME BuildInv, NEW b \in Builds, RunRejects(b)
    PROVE  BuildInv'
<1> USE DEF RunRejects, BuildInv
<1>1. b \in Occupied /\ Occupied' = Occupied \ {b} /\ activeJobs' \in Nat
  BY SlotReturned
<1>2. builds[b].digest = Placeholder
  BY DEF PromotedHasArtifact
<1>3. /\ builds' \in [Builds -> {NoBuild} \cup Build]
      /\ builds'[b].integrity = "BUILD_FAILED" /\ builds'[b].digest = Placeholder
      /\ \A other \in Builds \ {b} : builds'[other] = builds[other]
      /\ \A account \in Accounts : Building(account)' \subseteq Building(account)
  BY <1>2, Settled
<1>4. /\ BuildTypeOK'
      /\ jobs'[b] = "NONE" /\ \A other \in Builds \ {b} : jobs'[other] = jobs[other]
  BY <1>1, <1>3 DEF BuildTypeOK, Job
<1>5. QuotasHold'
  BY <1>1, <1>3, NoNewJob
<1>6. PromotedHasArtifact'
  BY <1>3, <1>4 DEF PromotedHasArtifact
<1>7. CopiesAreReal'
  BY <1>4 DEF CopiesAreReal
<1> QED BY <1>4, <1>5, <1>6, <1>7

LEMMA CompleteSourceBuildKeeps ==
    ASSUME BuildInv, NEW b \in Builds, CompleteSourceBuild(b)
    PROVE  BuildInv'
<1> USE DEF CompleteSourceBuild, BuildInv
<1>1. artifacts[b] \in Artifacts
  BY DEF CopiesAreReal
<1>2. /\ builds' \in [Builds -> {NoBuild} \cup Build]
      /\ builds'[b].integrity = "BUILD_SUCCEEDED" /\ builds'[b].digest = artifacts[b]
      /\ \A other \in Builds \ {b} : builds'[other] = builds[other]
      /\ \A account \in Accounts : Building(account)' \subseteq Building(account)
  BY <1>1, Settled
<1>3. /\ BuildTypeOK'
      /\ jobs'[b] = "NONE" /\ \A other \in Builds \ {b} : jobs'[other] = jobs[other]
  BY <1>2 DEF BuildTypeOK, Job
<1>4. Occupied' = Occupied
  BY <1>3 DEF Occupied
<1>5. QuotasHold'
  BY <1>2, <1>4, NoNewJob
<1>6. PromotedHasArtifact'
  BY <1>1, <1>2, <1>3 DEF PromotedHasArtifact
<1>7. CopiesAreReal'
  BY <1>3 DEF CopiesAreReal
<1> QED BY <1>3, <1>5, <1>6, <1>7

LEMMA CompletionFailsKeeps ==
    ASSUME BuildInv, NEW b \in Builds, CompletionFails(b)
    PROVE  BuildInv'
<1> USE DEF CompletionFails, BuildInv
<1>1. builds[b].digest = Placeholder
  BY DEF PromotedHasArtifact
<1>2. /\ builds' \in [Builds -> {NoBuild} \cup Build]
      /\ builds'[b].integrity = "BUILD_FAILED" /\ builds'[b].digest = Placeholder
      /\ \A other \in Builds \ {b} : builds'[other] = builds[other]
      /\ \A account \in Accounts : Building(account)' \subseteq Building(account)
  BY <1>1, Settled
<1>3. /\ BuildTypeOK'
      /\ jobs'[b] = "NONE" /\ \A other \in Builds \ {b} : jobs'[other] = jobs[other]
  BY <1>2 DEF BuildTypeOK, Job
<1>4. Occupied' = Occupied
  BY <1>3 DEF Occupied
<1>5. QuotasHold'
  BY <1>2, <1>4, NoNewJob
<1>6. PromotedHasArtifact'
  BY <1>2, <1>3 DEF PromotedHasArtifact
<1>7. CopiesAreReal'
  BY <1>3 DEF CopiesAreReal
<1> QED BY <1>3, <1>5, <1>6, <1>7

LEMMA SettleIsLostKeeps ==
    ASSUME BuildInv, NEW b \in Builds, SettleIsLost(b)
    PROVE  BuildInv'
<1> USE DEF SettleIsLost, BuildInv
<1>1. /\ jobs' \in [Builds -> Job]
      /\ jobs'[b] = "NONE" /\ \A other \in Builds \ {b} : jobs'[other] = jobs[other]
  BY DEF BuildTypeOK, Job
<1>2. activeJobs' \in Nat /\ QuotasHold'
  <2>1. CASE jobs[b] = "FAILING"
    <3>1. b \in Occupied /\ Occupied' = Occupied \ {b} /\ activeJobs' \in Nat
      BY <2>1, SlotReturned
    <3> QED BY <2>1, <3>1, NoNewJob DEF Building
  <2>2. CASE jobs[b] = "VERIFYING"
    <3>1. Occupied' = Occupied
      BY <2>2, <1>1 DEF Occupied
    <3> QED BY <2>2, <3>1, NoNewJob DEF Building, BuildTypeOK
  <2> QED BY <2>1, <2>2
<1>3. PromotedHasArtifact'
  BY <1>1 DEF PromotedHasArtifact
<1>4. CopiesAreReal'
  BY <1>1 DEF CopiesAreReal
<1> QED BY <1>1, <1>2, <1>3, <1>4 DEF BuildTypeOK

LEMMA BuildCrashKeeps ==
    ASSUME BuildInv, BuildCrash
    PROVE  BuildInv'
<1> USE DEF BuildCrash, BuildInv
<1>1. BuildTypeOK' /\ \A b \in Builds : jobs'[b] = "NONE"
  BY DEF BuildTypeOK, Job
<1>2. Occupied' = {}
  BY <1>1 DEF Occupied
<1>3. QuotasHold'
  BY <1>2, NoNewJob DEF Building
<1>4. PromotedHasArtifact' /\ CopiesAreReal'
  BY <1>1 DEF PromotedHasArtifact, CopiesAreReal
<1> QED BY <1>1, <1>3, <1>4

-----------------------------------------------------------------------------
LEMMA NextKeepsBuildInv == BuildInv /\ [BuildNext]_buildVars => BuildInv'
<1> SUFFICES ASSUME BuildInv, [BuildNext]_buildVars PROVE BuildInv'
  OBVIOUS
<1>1. ASSUME NEW b \in Builds, NEW account \in Accounts, NEW artifact \in Artifacts,
             CreateBuild(b, account, artifact)
      PROVE  BuildInv'
  BY <1>1, CreateBuildKeeps
<1>2. ASSUME NEW b \in Builds, NEW account \in Accounts,
             CreateSourceBuild(b, account) \/ CreateUnrunnableBuild(b, account)
      PROVE  BuildInv'
  BY <1>2, CreateSourceBuildKeeps, CreateUnrunnableBuildKeeps
<1>3. ASSUME NEW b \in Builds, JobStep(b)
      PROVE  BuildInv'
  BY <1>3, StoreArtifactKeeps, RunSucceedsKeeps, RunFailsKeeps, RunRejectsKeeps,
     CompleteSourceBuildKeeps, CompletionFailsKeeps DEF JobStep
<1>4. ASSUME NEW b \in Builds, SettleIsLost(b)
      PROVE  BuildInv'
  BY <1>4, SettleIsLostKeeps
<1>5. ASSUME BuildCrash
      PROVE  BuildInv'
  BY <1>5, BuildCrashKeeps
<1>6. ASSUME UNCHANGED buildVars
      PROVE  BuildInv'
  BY <1>6 DEF buildVars, BuildInv, BuildTypeOK, QuotasHold, PromotedHasArtifact,
     CopiesAreReal, Building
<1> QED BY <1>1, <1>2, <1>3, <1>4, <1>5, <1>6 DEF BuildNext, BuildWork, BuildFault

(* Every state the build tables, the artifact directory and the runner's   *)
(* counter can reach satisfies the inductive invariant.                    *)
THEOREM BuildInvariant == BuildSpec => []BuildInv
BY InitBuildInv, NextKeepsBuildInv, PTL DEF BuildSpec

(* Whatever creations, completions, failures and restarts interleave, no   *)
(* account has more rows BUILDING than createSourceBuild allows, and the   *)
(* runner's counter is the number of jobs that hold a slot.                *)
THEOREM QuotasAreKept == BuildSpec => []QuotasHold
<1>1. BuildInv => QuotasHold
  BY DEF BuildInv
<1> QED BY <1>1, BuildInvariant, PTL

(* completeSourceBuild promotes a build only to an artifact that is in the *)
(* artifact directory, a build without one keeps the placeholder, and a    *)
(* background job never works on a row that is settled.                    *)
THEOREM PromotionIsBacked == BuildSpec => []PromotedHasArtifact
<1>1. BuildInv => PromotedHasArtifact
  BY DEF BuildInv
<1> QED BY <1>1, BuildInvariant, PTL

(* A row with its final status is in no job, and is not replaced.          *)
LEMMA SettledStays ==
    ASSUME BuildInv, [BuildNext]_buildVars, NEW b \in Builds,
           builds[b].integrity \in {"NONE", "BUILD_SUCCEEDED", "BUILD_FAILED"}
    PROVE  builds'[b] = builds[b]
<1>1. builds[b] # NoBuild /\ jobs[b] = "NONE" /\ builds \in [Builds -> {NoBuild} \cup Build]
  BY BuildRows DEF BuildInv, PromotedHasArtifact, BuildTypeOK
<1>2. \A other \in Builds, account \in Accounts :
         /\ \A artifact \in Artifacts :
               CreateBuild(other, account, artifact) => builds'[b] = builds[b]
         /\ CreateSourceBuild(other, account) => builds'[b] = builds[b]
         /\ CreateUnrunnableBuild(other, account) => builds'[b] = builds[b]
  BY <1>1 DEF CreateBuild, CreateSourceBuild, CreateUnrunnableBuild
<1>3. \A other \in Builds : JobStep(other) \/ SettleIsLost(other) => builds'[b] = builds[b]
  BY <1>1 DEF JobStep, StoreArtifact, RunSucceeds, RunFails, RunRejects,
     CompleteSourceBuild, CompletionFails, SettleIsLost, Settle
<1>4. BuildCrash \/ UNCHANGED buildVars => builds'[b] = builds[b]
  BY DEF BuildCrash, buildVars
<1> QED BY <1>2, <1>3, <1>4 DEF BuildNext, BuildWork, BuildFault

(* No step of completeSourceBuild, failSourceBuild, a creation or a        *)
(* restart changes a row that has its final status.                        *)
THEOREM SettledBuildsAreFinal == BuildSpec => SettledIsFinal
<1> DEFINE Kept == \A b \in Builds :
               builds[b].integrity \in {"NONE", "BUILD_SUCCEEDED", "BUILD_FAILED"}
                   => builds'[b] = builds[b]
<1>1. BuildInv /\ [BuildNext]_buildVars => [Kept]_buildVars
  BY SettledStays
<1>2. BuildSpec => [][Kept]_buildVars
  BY <1>1, BuildInvariant, PTL DEF BuildSpec
<1> QED BY <1>2 DEF SettledIsFinal
=============================================================================
