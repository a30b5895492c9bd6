# Verification of Rovaulta

Rovaulta decides whether a robot's software may be released: a build is made
and evaluated against a site's confidential policy, the verdict is attested in
a registry contract, an agent checks what it is asked to deploy against that
attestation, and a release gate hands a one-shot authorization to an operator
who signs on a hardware wallet. These TLA+ modules model the parts where that
decision is made, kept and shown, model-check them on small instances, and
prove the main results about each of them, and about how they are composed, for
every instance.

    tlc -config MCReleaseRace.cfg MCReleaseGate     # a run
    tlapm ReleaseGateProofs.tla                     # a proof

`PROJECT.json` lists, for machines: the components, the runs, which source
lines each definition stands for (`map`), the hazards and which property
answers each, the findings, the theorems, and one mutant per property.

## 1. The system

| Component | State | Operations | Module |
|---|---|---|---|
| Registry contract, `contracts/src/RovaultaRegistry.sol` | registrars; digest → clearance; id hash → digest | `setRegistrar`, `recordClearance`, `revokeClearance`, views | `Registry`, proved |
| Registry reader, `packages/chain-client` | none | block-pinned snapshot, eligibility of a document | in `ReleaseGate`, proved |
| Release service, nonce store, signer policy, `apps/api/src/release` | `release_requests` (SQLite), allowlist (environment) | `prepare`, `consume`, `status` | `ReleaseGate`, proved |
| Graph context, `integrations/the-graph`, `graph/provider.ts` | entities of an indexer | event handlers, `readClearance` | `Subgraph`, proved |
| Deployment agent and release routes, `apps/api/src/agent`, `server.ts` | attempts (memory), `release_attempts` | `run`, `getAuthorizationStatus`, four routes | `DeploymentAgent`, proved |
| Deployment catalog, `agent/catalog.ts` | entries | `resolve`, `resolvePublicRequest` | `Catalog`, proved |
| Source builds, `application/store.ts`, `build-integrity/runner.ts`, `server.ts` | `builds`, `build_integrity`, artifact directory, job counter | create, background job, complete, fail | `SourceBuilds`, `BuildPipeline`, proved |
| Evaluations, `application/store.ts` | `pending_evaluations`, `evaluations`, `cre_evaluation_rejections` | `evaluateBuild`, `completeCreEvaluation` | `Evaluations`, proved |
| CRE protocol, workflow and clients, `integrations/chainlink-cre`, `evaluation/` | none | parse, select a secret, evaluate, deliver, read an answer | `CreProtocol`, proved |
| Clearance issuance, `application/clearance.ts`, `scripts/record-sepolia-clearance.ts` | a transaction, a document | evaluation → document → `recordClearance` | `Issuance`, proved |
| Simulation core, `packages/simulation-core` | none | evaluate traces against an envelope | `Evaluator`, `SitePolicy`, proved in part |
| Accounts, sessions, sites, robots, `application/store.ts`, `real-workspace.tsx` | SQLite rows, policy key | register, sign in, create; the setup forms | `Workspace`, proved |
| Ledger adapter, `packages/ledger-gate` | device kit, session, signer | `connect`, `sign`, `disconnect` | `LedgerAdapter`, proved |
| Operator page, `p5-ledger/operator-page.tsx` | page state, adapter, handoff | connect, prepare, approve, consume | `OperatorPage`, proved |
| Web sessions and handoffs, `apps/web/src/app` | tokens, cookie, `sessionStorage`, calls in flight | probe, sign in and out, refresh, prepare | `Browser`, proved |
| Domain schemas and digests, `packages/domain` | none | parsers, hashing, binding checks | types and guards; bindings in `Evaluator`, `CreProtocol` |
| Workflow shell, scripts, demos, tooling | files | I/O | not modelled |

### How the parts interact

A source build is created over HTTP; the server starts a background job in the
same turn of the event loop, and the job runs some twenty tool commands, copies
the artifact, and settles the build's row. `evaluateBuild` writes a pending
row, calls the CRE gateway, and awaits. The gateway starts a workflow in a TEE,
which reads the site's envelope from a secret, runs the simulation core, and
answers through the gateway, through a signed callback, or both. A stored CLEAR
verdict is turned into a clearance document by an operator's script, which
records it in the registry with the registrar's key. An account (or the demo
dashboard) then asks for a release: the agent resolves what is asked for, looks
at the subgraph and the registry, and calls `prepare`; the browser carries the
prepared request to the operator page, which has it signed on a Ledger and
calls `consume`. `prepare` and `consume` read the registry through an RPC node
at a pinned block and share the table of nonces.

### What is hard, and what makes each part correct

- *Registry.* Any order of record, revoke and change of registrars; the zero
  value as sentinel; window boundaries. Correct when a digest and an id are
  reserved for good, records never change, and what is invalid stays invalid.
- *Release gate.* Handlers suspended at an RPC read while transactions are
  mined, other handlers run, the process restarts with another allowlist, or
  the answer comes from an old block. Correct when a nonce authorizes at most
  once, only inside its window, only for an allowed signer, and only if its
  clearance was eligible for the whole interval between the two reads.
- *Subgraph and agent.* Three readers of one registry at three blocks; a nonce
  prepared before the last model call; attempts in memory over rows on disk.
  Correct when what was reported blocked is never released, and what is
  released was in force in every block anyone looked at.
- *Source builds.* Quotas counted in rows and slots counted in memory; a
  `finally` with four things to remove, each of which may not exist or may not
  go; a completion suspended while it hashes. Correct when no slot leaks,
  nothing stays behind unless its removal failed, a build names an artifact
  exactly when it was verified, and a settled build stays settled.
- *Evaluations and issuance.* A callback racing the gateway's answer,
  duplicated and early callbacks, two statements outside a transaction, a
  transaction that outlives the script that sent it. Correct when a recorded
  clearance is of a CLEAR verdict about the artifact the build has, an accepted
  request is never forgotten, and an outcome is final.
- *CRE protocol.* Three places to find a secret, three ways for an answer to
  come back. Correct when no answer about another site, build or behaviour is
  ever taken for one's own.
- *Simulation core.* Integer geometry of closed zones, order of rules. Correct
  when it reports exactly the violations there are, whatever the order.
- *Ledger and operator page.* `disconnect` excluded by nothing, handlers that
  overlap. Correct when no device connection is lost track of, every signature
  was clear-signed, and a mixed-up answer authorizes nothing.
- *Browser and workspace.* Late answers after the account changed; a form that
  is three calls. Correct when a session is not discarded by an earlier page's
  answer, a request is shown to who made it, and a failed form can be finished:
  the last two are not so (section 3).

The list with the line where each hazard bites is `hazards` in `PROJECT.json`.

## 2. The modules

`A → B` reads "A EXTENDS B".

| Module | Role |
|---|---|
| `Registry` | the contract; `RegistrySpec` |
| `ReleaseGate` → `Registry` | the gate over the contract; `Spec` |
| `ReleasePermit` | abstract: a permit is issued once, used once, answered once |
| `Subgraph` → `ReleaseGate` | the event index over the chain; `IndexSpec` |
| `DeploymentAgent` → `Subgraph` | the agent and the release routes over all of these; `FairAgentSpec` |
| `SourceBuilds` | builds, job, runner; `BuildSpec` |
| `BuildPipeline` → `SourceBuilds` | the runner step by step, implementing `BuildSpec`; `PipelineSpec` |
| `Evaluations` → `SourceBuilds` | evaluations over builds being made; `Spec` |
| `EvaluationOutcome` | abstract: an evaluation is requested once and ends once |
| `Issuance` → `Evaluations`, INSTANCE `Registry` | the script, between the store and the contract; `IssuanceSpec` |
| `Evaluator`, `SitePolicy`, `Catalog`, `CreProtocol` | pure algorithms as operators |
| `LedgerAdapter`, `OperatorPage` → `LedgerAdapter` | adapter objects, and the page that uses them; `OperatorSpec` |
| `Browser` | tabs, tokens, calls in flight; `BrowserSpec` |
| `Workspace` | the store's accounts and rows, and the setup forms; `Spec` |
| `ReleaseGateProofs` | theorems of `Registry`, then of `ReleaseGate` |
| `DeploymentAgentProofs` → `ReleaseGateProofs` | theorems of `Subgraph`, `DeploymentAgent`, its composition with the gate, and (INSTANCE) `Catalog` |
| `SourceBuildsProofs`, `BuildPipelineProofs` | theorems of the modules they name |
| `IssuanceProofs` → `SourceBuildsProofs` | theorems of `Evaluations`, of `CreProtocol` (INSTANCE), of `Issuance`, and of its composition |
| `OperatorPageProofs`, `BrowserProofs` | theorems of the modules they name; the first has those of `LedgerAdapter` too |
| `WorkspaceProofs` → `Workspace`, `SitePolicy` | theorems of `Workspace`, then of `Evaluator` and `SitePolicy` |
| `MC*` | the instances TLC checks |

Conventions: an action carries the name of the function it translates where
that is possible. A handler is one action per stretch between two awaits. A
call that is refused before it changes anything is no step. A definition
introduced by "Mutant:" is a plausible bug of the one that follows; it is part
of no specification, and each property is broken by the mutant `PROJECT.json`
names for it. Each module with state states its type invariant; each is part of
what is proved, none of the runs.

### Registry

State: `registrars`, `clearances` and `digestByIdHash` are the contract's
storage; `now` is the timestamp of the block being built. Reverts are guards.
The struct's `exists` and `revoked` are one `status`. Of the twelve attested
bindings the clearance-id hash and the two timestamps are kept apart and the
other ten are one opaque content, because the contract only compares them with
zero and stores them. Digests are inputs: the contract cannot check that a
digest is that of the bindings, so a registrar may submit other bindings under
it; `ReleaseGate` depends on the reader to notice.

### ReleaseGate

`PrepareStart`/`PrepareFinish` and `ConsumeStart`/`ConsumeFinish` are the two
halves of `prepare` and `consume` around their registry read. `rows` is the
durable table; `requests` holds a handler's locals and is lost in a `Restart`,
which also installs another allowlist (the source reads it from the
environment). `Answer` is the response leaving the process after the row was
written, so a restart can lose it. A read returns the state at a pinned block;
the model lets it be any sealed block (`chain`), since a node may lag and an
answer may be late. `StillConsumable` is the conditional UPDATE that decides
between concurrent consumers.

What the gate promises about time is `ValidThroughout`: the clearance was
eligible in *every* block from the first read to the second. That is stronger
than what the code reads, two points, and it holds because the registry never
revalidates. It promises nothing about blocks after the second read: a
revocation sealed while the answer travels is not seen
(`docs/planning/exec-plans/P5-ledger-release-gate.md:70` calls the recorded
block "explicit TOCTOU evidence"); it is a hazard with a note.

### Subgraph

`head` and `entities` belong to an indexer; several serve the gateway and any
may answer, so successive answers may go back in time. Events are read off the
difference of two sealed blocks and handled in log order. `ReadClearance` is
the provider's comparison with its own clock. `MatchedWasEligible` says what a
match is worth: the clearance was eligible in the block the answer names, as
long as the provider's clock is not behind that block. `RevocationsAreIndexed`
is liveness: every indexer's answer stops being a match.

### DeploymentAgent

`runs` are the coroutines of `run`, split at each await: a model call before
every tool, the Graph query, the registry read and `prepare`, which occupies
the gate's handler slot of that attempt. `attempts` is the in-memory map, `log`
the account's history, `delivered` the callers a prepared request has reached;
a nonce can only be consumed through one of them. A model call may be retried
(`RetryModel`) or fail; a restart cuts a run off. The routes differ in what
they check first (`MayRun`) and what they write down (`RecordReleaseAttempt`).
A run refused by the target's lookup leaves a blocked attempt, one refused by
the route only a line of history (`RefuseRun`). `POST /release/prepare`
(`DirectPrepare`) takes any document: its comparison with the account's stored
evaluation is left open, so the properties hold without it.

### SourceBuilds and BuildPipeline

A row of `builds` joins `builds` and `build_integrity`; `artifacts` is the
artifact directory; `jobs` says where each background job is suspended, and
`activeJobs` is the runner's counter. Both of these are in-process and a
restart clears them, leaving rows `BUILDING` that nothing settles: the server
has no recovery pass. `BuildPipeline` splits the job into the runner's own
steps: the temporary directory, the source, the images, the BuildKit builder,
the build, the export, the copy and its hash, and the clean-up in the order of
the `finally` (`FirstCleanUp` is where it starts, depending on what exists).
Every step can fail; a removal can fail and leave its object; a status write
can be lost. `mishaps` records these so that a property can say what they
excuse. `ImplementsSourceBuilds` is the refinement: for the rows, the artifact
directory and the slots, the pipeline is the four-phase job that `Evaluations`
and `Issuance` are composed with.

### Evaluations

`calls` are the `evaluateBuild` calls, `workflows` the executions in the TEE,
and the other variables the three tables. `Accept` and `Respond` are the
gateway and the workflow; `GatewayAccepted`, `GatewayFailed` and
`GatewayCompleted` the three ways the await ends; the callback handler is one
transaction and therefore one action per outcome. `CrashInReport` is the only
way to separate the INSERT of a report from the DELETE of its pending row: the
two run without a pause, but outside a transaction. What a workflow says it
evaluated is arbitrary: only `Matches` stands between it and the table. With
the CLI executor the same function runs without yielding (`spawnSync`), which
is a special case of these steps; how it reads the command's output is in
`CreProtocol`.

### Issuance

One action per stretch of the script: evaluation, reads at one block, simulate
and send, receipt, confirmation. A transaction lives on when the run that sent
it is blocked or stopped (`Mine` asks nothing of the run). A clearance stands
for its own digest, since the digest covers all of its fields; with it, the
contract is `Registry` instantiated with clearances for digests. The owner is
the registrar, who may remove itself between two steps. Reads may already see
the transactions of the block being built, which admits more than a node does.

### Evaluator, SitePolicy, Catalog, CreProtocol

Operators without state. `Evaluator` holds the geometry, the rules, the
canonical order of an envelope, the traces, the seeded xorshift suite (words
are sets of bit positions, so 32-bit width is exact) and the acceptance of a
request. `SitePolicy` is what the application store feeds it: the envelope of a
policy and the three traces of a route. `Catalog` resolves a phrase to one
entry. `CreProtocol` follows one request: `PublicRequest` of the client, what
the workflow parses, the choice of a secret, its result or failure, delivery,
and the three readers `FromGateway`, `FromCallback` and `FromCli`. A digest is
the record it is taken of; a JSON document is the record it parses to, with
alternatives for the shapes that are refused.

### LedgerAdapter and OperatorPage

An adapter has its fields and at most one pending operation; `disconnect`
clears the fields at once and awaits the device afterwards, with nothing to
exclude it. A device kit is external: it may answer a `connect` whose kit was
closed meanwhile, report steps in any order, and answer about display filters
at any time. The clear-signing context keeps one flag, reset when an attempt
begins: the answer to an attempt given up may arrive in the next one and is then
taken for its own, which is why `SignaturesAreClear` speaks of the last answer
since the attempt began. `clear` keeps what `assertResolved` saw when signing
was reported. `OperatorPage` adds the handlers, each of which writes the page's
state when its call returns, the effect, split where it awaits the answer of
`/auth/me` (`Mount` or `RerunEffect`, then `Initialize`, `InitializeFails` or
`ProbeFails`), and a server reduced to the nonce's row. Calls begun before a
rerun return while the page is checking again.

### Browser and Workspace

A call reads the token when it is sent and its answer is applied to whatever is
mounted when it arrives; `live` says whether its component still is.
`Browser` has the pages, the token in `localStorage`, the cookie, the tab's
`sessionStorage` and the calls; `refresh` is split where it reads the token
again. `Workspace` is the store's side, with setup forms as its clients: a page
stands for a tab or for a mount of the workspace that was left and still works
through its submission; each has one submission at a time, each call is one step
(the handlers do not yield), any call or answer may be lost, pages refresh and
add builds while a submission is under way, accounts change in between, sessions
expire and the policy key changes with a restart. There a view is refreshed at
once; its torn refresh is in `Browser`.

## 3. The runs

| Run | Shows | Instance |
|---|---|---|
| `registry` | ids unique, records immutable, invalidity final; the index agrees with the blocks it has handled; matches and revocations | 2 digests, 2 ids, 2 senders, zero values, windows at every boundary, 2 indexers |
| `release_race` | single use and answer, allowlist, windows, evidence, permit refinement | 1 nonce, 2 handlers, 2 accounts and the demo caller, 2 signers, 2 documents of one id |
| `source_builds` | quotas, promotion, finality, clean-up, settling; `BuildPipeline` implements `SourceBuilds` | 2 builds, 2 accounts, 2 artifacts, quota 1, capacity 2, all mishaps |
| `evaluations` | verdicts about promoted artifacts, nothing forgotten, outcomes final, clearances traced back to them | 1 build, 1 evaluation, every gateway answer, callbacks, crashes, 2 script runs with one clearance id, TTL 1 |
| `evaluated_twice` | violation | 1 evaluation, every gateway answer |
| `deployment_agent` | blocked stays blocked, vetting, reports, tenancy, runs end | 1 agent run, 1 other caller, 1 document, 1 indexer, 2 model tries, restarts |
| `operator_page` | clear signing, mixed handlers, open kits | 2 adapters, 2 kits, 2 requests, 1 call in flight, 1 page instance; symmetric in requests and kits |
| `browser` | late answers and sessions, demo handoff | 1 tab, 2 accounts, 3 tokens, 2 calls in flight |
| `browser_handoff` | violation | the same |
| `workspace` | rows of one account agree, what failed submissions leave | 2 pages, 2 accounts, 2 tokens, 2 sites, 2 robots, 1 build, 2 keys; symmetric in all of them |
| `setup_dead_end` | violation | the same with 1 page |
| `algorithms` | exact reports, commitments, routes, answers of the CRE protocol, catalog | 211,640 inputs: 5 zones × all routes of a 4 by 4 warehouse, 240 envelopes, every envelope and secret of two sites, catalogs of two entries over four alias lists |

**Why the bounds are enough.** Nonces, builds, evaluations and clearances do
not interact except through quotas, the id index and the runner: one nonce with
two handlers is every race on a row, two documents are every conflict over an
id, two builds are a quota of one and a runner used by both, one clearance id
with two script runs is every race for it. Only the order of timestamps
matters, so three or four blocks hold a window that opens, is read twice, and
closes; `Ttl` is shorter than one window and longer than the rest of another,
so each side of `computeExpiry` binds. For all that is
not liveness the proofs settle the question: they bound nothing. Of the pure
algorithms they settle geometry, routes and answers (section 4). The agent run has one
document and one signer: it never compares two, it carries what it was started
with. Calls in flight that agree in every field are one element of a set, so
two equal calls count once; their answers would be equal too. One tab is
enough for `SessionIsNotDiscarded` and `DemoHandoffIsCurrent` as they speak of
a tab's own calls; the proofs are for any number of tabs.

In `algorithms` the only step is the choice of an input, so a state is one
input. The geometry is exact on integers, and a 4 by 4 grid with
routes of every slope on it has crossings, touches at corners and along edges,
and tunnelling between two points. `RouteDecides` also documents something that
is easy to miss: in an envelope the store makes, the zone-speed and the payload
rule never change a verdict, since both can only be broken inside the zone that
the restricted-zone rule already forbids.

`MaxTime`, `MaxCalls` and `MaxTries` bound what would grow; ids that a server
draws are finite and used once. Deadlock is checked in `release_race`,
`evaluations` and the violations; elsewhere the system may stop (every id
used, time at its bound, a state that is an input) and the cfg says so.

**Fairness.** `PipelineSpec` has weak fairness of each job's steps together:
the runner kills a tool at `timeoutMs`, a completion hashes a local file and
runs a transaction, and either outcome settles the row. `BuildsSettle` excuses
exactly a restart and a lost status write, for which the code has no recovery.
`IndexSpec` has weak fairness of each
indexer's next block, which is what running an indexer means.
`FairAgentSpec` has weak fairness of the steps of each run: model calls are
aborted after 15 s, reads time out, and the number of tries is bounded, so
`RunsEnd`, in an answer or with the process. Nothing in the gate, the
evaluations or the browser is claimed to happen: a client need not consume, the
gateway need not call back, an operator need not sign.

### Findings

*`evaluated_twice`.* `docs/planning/exec-plans/P10-final-partner-qualification.md:40`
says that a valid signed callback "creates exactly one public evaluation".
`evaluateBuild` (`application/store.ts:1944`) inserts what the gateway returns
without looking for a record of the same evaluation, and the table has no
UNIQUE constraint on it. If the callback is handled while the gateway call is
still in flight and the gateway then answers with the report, there are two
records. A crash between the INSERT and the DELETE gives the same end. The
verdict that readers see does not change: `OutcomesAreFinal` holds, because a
workflow gives one response.

*`browser_handoff`.* `refresh` (`real-workspace.tsx:1979`) awaits `/auth/me` and
then asks for the rows with whatever token is current by then. A sign-in in
between makes the workspace name one account and list another's evaluations; a
release prepared there is labelled with the name on the screen, and the
operator page, which says that handoffs "are available only to the
authenticated account that created them" (`operator-page.tsx:273`), shows it to
that account. The server still consumes it only for its own account.

*`setup_dead_end`.* When the first call of the setup form made a site and the
second failed, the page shows the site and offers to "register the first build"
(`real-workspace.tsx:1275`), but the form behind that link needs a robot and no
view creates one. Submitting the setup form again makes a second site, while
that form keeps posting to the first.

## 4. The proofs

Of the contract and the gate, the assumptions are `RegistryAssumption` and
`ReleaseAssumption`: the owner is an address, zero is none of the other values,
calldata are well-typed bindings, a digest determines its document, and the TTL
is between 1 and 900.

*Registry.* `RegistryInv` is the type invariant, `IdIndexAgrees` (the two
mappings are inverse to each other on what is recorded), and
`RecordedIsValidated` (a recorded clearance passed `_validateInput`).
Uniqueness of ids is not inductive alone: it needs to know that the index
points at the record carrying the id, for that is all `recordClearance` looks
at. From it: `ClearanceIdsAreUnique`, `ValidClearancesAreAttested`,
`InvalidityIsPermanent`, `RecordedEvidenceIsImmutable`.

*ReleaseGate.* `GateInv` adds four parts. `ChainInv`: an earlier block relates
to a later one, and every block to the contract's storage, by `Keeps`: what
was recorded is still there, unless revoked, and time did not go back. This
is `RecordsAreImmutable` carried from steps to blocks. `RowsInv`: each row is
justified by the blocks it names. `RequestsInv`: a suspended consumer's copy of
the row is still the row, or the row is no longer ISSUED, and its signer is in
the policy (a restart that changes the policy also drops the request).
`AtMostOneAnswer` completes it. `AuthorizationsAreBacked` is the main theorem:
two eligible blocks with `Keeps` between them make every block between them
eligible, since a status can only go from RECORDED to REVOKED and the expiry is
in the bindings. The other theorems are `NonceIsSingleUse`,
`IntentsStayInWindow`, `ConsumersAreAllowed`, and `GateImplementsPermits`:
initial states map to initial states, and every step to an issue, a use, an
answer or a stutter.

*Subgraph.* `IndexInv` adds to `GateInv` that the entities of every indexer
agree with the sealed block it stands at (`IndexAgrees`, proved digest by digest
as `EntityAgrees`) and that a block shows no record dated after it
(`BlocksValidated`). The heart is `HandledAgrees`: handling the events of one
block takes an entity that agrees with the block before to one that agrees with
this block, whatever was recorded and revoked in it. That blocks never change,
only grow in number, is `BlocksStay` of the gate. From it:
`IndexFollowsRegistry`, `MatchedDocumentsWereEligible`.

*DeploymentAgent.* `AgentInv` says of each run what it was shown (`Shown`: the
blocks where the index and the registry recorded its document, as far as its
tool order has come), what row its nonce names (`RowOf`), and what attempt and
history say of it (`AttemptOf`); of each nonce, whom it reached (`NonceAt`);
that no two runs prepared one nonce; and that whoever consumes holds the prepared
request (`ConsumersHold`). `BlockedIsNeverReleased` is not inductive: what keeps
the nonce of a blocked run ISSUED is that it reached nobody (`Withheld`), which
in turn needs that the routes hand out what an attempt says, that an attempt is
of one run and one nonce, and that a consumer was handed its nonce before.
A step touches one run or none, so `LocalStep` and `ForeignStep` carry the rest
over. From it: `BlockedRunsAreNotReleased`, `ReleasesAreVetted` (four reads at
four blocks in any order, with `Keeps` between them), `ReportsAreTrue`,
`PreparedIsPrivate`. Assumed is `AgentAssumption`: runs use handlers of the
gate, the routes are the two there are, and at least one try.

*SourceBuilds.* `BuildInv` is the type invariant, `QuotasHold`,
`PromotedHasArtifact` and `CopiesAreReal` (a job that stored its artifact has a
real one). The invariants need each other: that a job works on a row still
`BUILDING` is what makes a settled row final, and an id without a row has no
job, so a creation adds one to each count. `NoNewJob` and
`CreateSourceBuildKeeps` do the counting with the library's cardinality facts.
From it: `QuotasAreKept`, `PromotionIsBacked`, `SettledBuildsAreFinal`.

*BuildPipeline.* `PipelineImplementsSourceBuilds` maps every step of the runner
to a step of the job or a stutter; the variables of `SourceBuilds` are the
pipeline's own, so the mapping is the identity and `PipelineKeepsBuilds` carries
the three results over. `LeftInv` strengthens `NothingIsLeftBehind` to each
stage of the `finally` block: what a stage removes is gone after it or its
failure noted, and a builder exists only from `BUILDER` on, which is what
`FirstCleanUp` relies on.

*Evaluations.* `EvaluationAt` is the invariant of one evaluation. Every step
touches one evaluation, or only loses calls (`Untouched`), so a step is checked
on the evaluation it touches, and `Others` does the rest: a build that can be
evaluated has a settled row, and `SettledStays` says the row is what it was.
Beyond the checked invariants it says that a stored verdict or rejection is the
response of the one workflow, so a late gateway answer cannot contradict a
callback, and that a call in flight is accounted for, so what was dropped is
not completed later. From it: `VerdictsAreAboutPromoted`, `PendingIsKept`, and
`StoreImplementsOutcomes`, the refinement of `EvaluationOutcome`.
`OneRecordPerEvaluation` has no theorem: the code violates it (section 3).

*Issuance.* `IssuanceInv` joins `EvaluationInv`, `BuildInv` and the contract's
types with the evidence on its way: a run of the script that has checked an
evaluation, a transaction that was sent, and a clearance the contract holds are
each `Justified`, that is, of a CLEAR verdict in the store about what the build
has. That stays true because a stored verdict is never deleted and a promoted
build never changes; `JustifiedStays` gets both from the proofs below it. What a
run reports needs more: a successful transaction `Reserved` its id for its
clearance, and `SuccessesDistinct` says two of them never have one id, which
follows from the contract's index and not from anything the script looks at.
From it: `ClearancesAreJustified`, `ConfirmationsAreTrue`.

The assumptions of these are `BuildAssumption` (the placeholder is no artifact,
the quotas are numbers, finitely many build ids), `EvaluationAssumption`, and
`IssuanceAssumption` (a positive TTL).

*LedgerAdapter and OperatorPage.* `AdaptersInv` says that an adapter that is
resetting has no kit, that one that is signing took the signing step only when
the descriptor was resolved (later answers may say otherwise), and that its session, if it still has one, is the
address the request authorizes: `sign` compares it once, `disconnect` can clear
it, and nothing else can write it while `sign` is pending, which is what makes
reading it again after the device answered safe. `KitsHeld` is `OpenKitsAreHeld`
with the other direction: a kit in an adapter is open, and in no other.
`OperatorInv` adds that an adapter in use was made by some page instance
(`BusyOwned`), that a page that is not mounted has no state, so a late answer
finds nothing to write, and one that is ready has an adapter (`PageOwned`), and that an authorized call carried an
approval of its own request. From it: `SignaturesWereClear`,
`MixturesAreRefused`, `NoKitIsLost`. Assumed are `AdapterAssumption` (each
request authorizes an address, `None` is none of the values) and
`OperatorAssumption` (page instances are numbered from 1).

*Browser.* `BrowserInv` has three parts besides the types. What a call names
depends on how far it has come (`Formed`): a prepared request is labelled with
the account that was on the screen, so there was one. `TokensInv`: a token in
the answer of a sign-in that is still on its way is nowhere else, and a refusal
that makes its page drop the session (`Denied`) is about a token that is not in
use. The second needs the first: only the arrival of a sign-in puts a token
into use, the tab that receives it leaves its page with every call it made, and
no other tab can hold that token yet. `DemoInv` says which calls and handoffs a
tab can have by the page it shows: a tab on the dashboard has no call of an
account's page, so a late answer of a workspace never overwrites the
dashboard's handoff, and a dashboard's call that is still current was made for
the selection on the screen. From it: `DemoHandoffAlways` and the action
property `SessionKept`. Assumed is `BrowserAssumption` (`Nobody` is no account,
token or request). `HandoffIsPrivate` has no theorem: the code violates it.

*Workspace.* `WorkspaceInv` adds to the types what each row says of the rows it
hangs on (`RowsInv`), which the actions keep because a row never changes once
written, and where each setup form is (`FormInv`): the calls of one form are
made with whatever session is current, so that a robot or a build is of the
account of its site is owed to the store's checks alone. From it:
`RowsAgreeAlways`, `StraysAreExplained`. Assumed is `WorkspaceAssumption`.

*Composition.* `BuildPipeline`, `Evaluations` and `Issuance` are built on one
another, and so are `Registry`, `ReleaseGate`, `Subgraph` and `DeploymentAgent`;
what was proved of a lower module is of use above it only if the upper one
leaves the lower one's behaviour alone. Initial states and steps are mapped by
the identity, but that every step of the upper module is a step or a stutter of
the lower is a theorem each time: `AgentImplementsGate` (what an agent run, a route or a restart does to the gate
is a step that a caller of the gate alone could bring about, or none),
`AgentImplementsRegistry`, `IssuanceImplementsRegistry` (a mined transaction is a
`recordClearance` of the registrar or reverts, whatever became of the run that
sent it), `IssuanceImplementsEvaluations` and `EvaluationsImplementBuilds`. The
properties come with them: `AgentKeepsGate` and `IssuanceKeepsServer` state
those of the gate, the contract, the evaluations and the builds of the whole
systems. `Subgraph` is covered by the same step lemmas, and the pipeline by
`PipelineKeepsBuilds`.

*Answers and the catalog.* Four theorems about operators, for every input.
`CallbackIsOfRequest`, `GatewayAnswerIsOfRequest` and `CliAnswerIsOfRequest`, one
for each way an answer comes back: whatever payload, secrets and configuration
the workflow had, what it produced is read as an error or as the one result of
the asked request under the envelope its commitment names. The digest of the
public content carries it: a client compares that digest and the bindings,
never the envelope, and it is the workflow that refuses a secret the request
does not commit to; the two checks meet in `EvaluatedIsOfPayload` and
`OwnIsOfAsked`. A simulation prints many values, possibly answers to other
requests among them; the client looks at the first that has the shape of an
answer, and `FirstIsOne` (from the well-foundedness of the naturals) says that it
is one of those printed. Digests being injective is part of the model
(section 5). `NoNamesake`: a public text the catalog answers with a target is a
form of no other entry, and a tool call with the references that text was made
of names the same target. It assumes finitely many keys, none of which is the
name of an error.

*Evaluator and SitePolicy.* `ZonesAreDetected`: for integer coordinates of any
size, `segmentIntersectsRectangle` (inside at an end, or crossing one of four
sides by the signs of cross products) holds exactly when some point of the
segment is in the closed rectangle. "Some point" is `Touches`: a fraction k/d of
the way along, with the coordinates multiplied out so that everything stays an
integer. From left to right: a point of a side that the sign tests accept is
named outright (`ThroughSide`). From right to left: a segment that starts
outside and has a point inside passes the line of a side that is between
(`Reached`), where it is on that side or passes beyond it and has to come in by
another (`FromBelow`, `FromLeft`, `FromAside`); the other positions are
reflections and a transposition of these (`SideReflected`, `AxesSwapped`), so the
arithmetic is done once. `RoutesAreJudged` puts it to use: under the envelope the
store builds from any policy it accepts, in each trace it builds from any route,
some rule is broken at some step exactly when the route touches the restricted
zone or is faster than the site allows. `GeneratorNeverDies`: xorshift maps no
word but zero to zero (`ShiftsMove`: no word other than zero is its own shift).
Seeds are validated to be nonzero, and `scenarios.ts:13` concludes that "the
absorbing zero state is unreachable"; this is the step that it rests on.

*Only model-checked*, and why. Liveness under fairness (`BuildsSettle`,
`RunsEnd`, `RevocationsAreIndexed`) and ENABLED are beyond this prover. Of
`algorithms`, `ReportIsExact` and `ReportIsOfCommitment` say what folds over
rules and steps and the sorting of an envelope compute, which needs induction
over sequences; the library's induction theorems take an operator as a
parameter, which the provers at hand cannot instantiate. `RouteDecides` is the
verdict, that is, those folds, over what `RoutesAreJudged` says of one step.
`AnswersAreForTheRequest` and `AnswerHasNoNamesake` are stated about the inputs
that run enumerates; what they say of them is what the four theorems on answers
and the catalog say of every input. No module declares a RECURSIVE operator.

## 5. External parts and abstractions

External, modelled from how the code uses them: the chain sealing blocks
(`MineBlock`, `SealBlock`), an indexer handling one (`IndexBlock`), a process
stopping (`BuildCrash`, `Crash`, `CrashRunner`, `LoseCalls`), the gateway
starting a workflow (`Accept`), lost HTTP calls (`Lose`, `CallLost`), the
router mounting pages (`Route`), sessions expiring and time passing.
Reorganisations of the chain are left out: the model's chain only grows, and
the code stores a block hash as evidence but never compares it again. Digests
are injective. Signature recovery is modelled by its result. Time in the gate
is the block's; the service's own clock decides nothing there. SQLite
statements and transactions are atomic and durable.

## 6. Not modelled

- The shape checks of scalars (lengths, character sets, ranges) in
  `packages/domain`, `model.ts` and the routes are the types of the models; a
  value outside them is refused before anything changes.
- Canonical JSON, hashing, HMAC, encryption and password hashing: taken as
  injective, unforgeable and opaque.
- What the tools of a source build compute, and the network policy of the
  BuildKit builder.
- `getEvaluationStatus` and the other read-only routes: they change nothing,
  and are in the models only where another step depends on what they return.
- `integrations/chainlink-cre/src/workflow.ts` and `main.ts` (registration of a
  trigger), `integrations/the-graph/scripts`, `scripts/`, the demos and the P13
  operator configuration: I/O without a protocol of their own.
- Presentation in `apps/web`: layout, formatting, form fields, polling intervals.
- More than one page of the operator at once, and the evaluation clock in
  `Issuance`.
