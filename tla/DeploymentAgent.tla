--------------------------- MODULE DeploymentAgent ---------------------------
(***************************************************************************)
(* The deployment agent (apps/api/src/agent) over the release gate and the *)
(* subgraph, with the routes that run it.  The language model only chooses *)
(* when a tool is called: the host fixes which tool is next, what it reads *)
(* and what it means.                                                      *)
(*                                                                         *)
(* run() is split at each of its awaits: a model call before every tool,   *)
(* the Graph query, the registry read, and ReleaseService.prepare, which   *)
(* uses the gate's handler slot of the attempt.  An attempt is stored when *)
(* run() ends, in process memory; the nonce it prepared is on disk.  A     *)
(* nonce can be signed, and so consumed, only by a caller it reached.      *)
(***************************************************************************)
EXTENDS Subgraph

CONSTANTS
    Attempts,         \* attempt ids; each is also the handler slot of its prepare call
    Routes,           \* "RELEASES" (account history kept) and "AGENT"
    MaxTries,         \* model calls per tool, 4 in the source
    NoNonce

ASSUME AgentAssumption ==
    /\ Attempts \subseteq Requests
    /\ Routes \subseteq {"RELEASES", "AGENT"}
    /\ MaxTries \in Nat \ {0}
    /\ NoNonce \notin Nonces

VARIABLES
    runs,       \* attempt -> its run() coroutine; prepared nonce and blocks kept as history
    attempts,   \* #attempts: attempt -> what the agent answers about it, lost in a restart
    delivered,  \* nonce -> callers that received its prepared request
    log         \* release_attempts, durable

agentVars == <<runs, attempts, delivered, log>>
allVars == <<vars, subgraphVars, agentVars>>

Tools == {"resolveDeploymentTarget", "getDeploymentContext", "getEvaluationStatus",
          "getGraphContext", "getClearance", "prepareDeploymentIntent",
          "getLedgerAuthorizationStatus"}

\* A tool's name is the phase in which the model is asked to call it.
Run == [phase : Tools \cup {"GRAPH", "REGISTRY", "PREPARE", "RETURNED", "DONE", "LOST"},
        tries : 1..MaxTries, route : Routes, tenant : OrNone(Tenants), graph : BOOLEAN,
        doc : Documents, verdict : {"CLEAR", "HOLD"}, signer : Signers,
        indexed : Nat, inspected : Nat, nonce : Nonces \cup {NoNonce}]
NoRun == [phase |-> "UNUSED"]
RefusedRun == [phase |-> "DONE", nonce |-> NoNonce]

Attempt == [tenant : OrNone(Tenants), final : {"BLOCKED", "LEDGER_APPROVAL_REQUIRED", "AUTHORIZED"},
            prepared : Nonces \cup {NoNonce}]
NoAttempt == [final |-> "NONE"]

AgentTypeOK ==
    /\ runs \in [Attempts -> {NoRun, RefusedRun} \cup Run]
    /\ attempts \in [Attempts -> {NoAttempt} \cup Attempt]
    /\ delivered \in [Nonces -> SUBSET OrNone(Tenants)]
    /\ log \in [Attempts -> {"NONE", "BLOCKED", "LEDGER_APPROVAL_REQUIRED"}]

-----------------------------------------------------------------------------
\* graph says whether the process was started with a graphReader.
UsesGraph(q) == q.tenant # NoTenant \/ q.graph

\* The next tool, once the one named is recorded.
After(tool, q) ==
    CASE tool = "resolveDeploymentTarget" -> "getDeploymentContext"
      [] tool = "getDeploymentContext"    -> "getEvaluationStatus"
      [] tool = "getEvaluationStatus"     -> IF UsesGraph(q) THEN "getGraphContext"
                                                             ELSE "getClearance"
      [] tool = "getGraphContext"         -> "GRAPH"
      [] tool = "getClearance"            -> "REGISTRY"

Advance(a, phase) == runs' = [runs EXCEPT ![a] = [@ EXCEPT !.phase = phase, !.tries = 1]]

\* Mutant: a blocked attempt keeps its prepared request.
StoreBlockedPrepared(a, q) ==
    attempts' = [attempts EXCEPT ![a] =
        [tenant |-> q.tenant, final |-> "BLOCKED", prepared |-> q.nonce]]

StoreBlocked(a, q) ==
    attempts' = [attempts EXCEPT ![a] =
        [tenant |-> q.tenant, final |-> "BLOCKED", prepared |-> NoNonce]]

\* #blocked: the attempt is stored and run() returns.
BlockRun(a) ==
    /\ StoreBlocked(a, runs[a])
    /\ Advance(a, "RETURNED")
    /\ UNCHANGED <<delivered, log>>

GateIdle == UNCHANGED <<vars, subgraphVars>>

\* The account route runs the agent for an account and its CLEAR evaluation only.
MayRun(route, tenant, verdict) == route = "RELEASES" => tenant # NoTenant /\ verdict = "CLEAR"

\* Only POST /releases/prepare keeps a history.
RecordReleaseAttempt(a, route, status) ==
    log' = IF route = "RELEASES" THEN [log EXCEPT ![a] = status] ELSE log

-----------------------------------------------------------------------------
(* A caller asks for a deployment; the host resolves the target, its       *)
(* evaluation and its clearance before the first model call.               *)
StartRun(a, route, tenant, graph, doc, verdict, signer) ==
    /\ runs[a] = NoRun
    /\ MayRun(route, tenant, verdict)
    /\ runs' = [runs EXCEPT ![a] =
          [phase |-> "resolveDeploymentTarget", tries |-> 1, route |-> route,
           tenant |-> tenant, graph |-> graph, doc |-> doc, verdict |-> verdict,
           signer |-> signer,
           indexed |-> 0, inspected |-> 0, nonce |-> NoNonce]]
    /\ UNCHANGED <<attempts, delivered, log>> /\ GateIdle

(* The target does not resolve and run() stores a blocked attempt, or      *)
(* POST /releases/prepare refuses the evaluation or the clearance before   *)
(* it calls the agent, which then hears nothing of it.                     *)
RefuseRun(a, route, tenant) ==
    /\ runs[a] = NoRun
    /\ route = "RELEASES" => tenant # NoTenant
    /\ runs' = [runs EXCEPT ![a] = RefusedRun]
    /\ RecordReleaseAttempt(a, route, "BLOCKED")
    /\ \/ StoreBlocked(a, [tenant |-> tenant, nonce |-> NoNonce])
       \/ route = "RELEASES" /\ UNCHANGED attempts
    /\ UNCHANGED delivered /\ GateIdle

\* The model calls the tool it was offered and the host has nothing to await.
CallTool(a) ==
    /\ runs[a].phase \in {"resolveDeploymentTarget", "getDeploymentContext",
                          "getEvaluationStatus", "getGraphContext", "getClearance"}
    /\ IF runs[a].phase = "getGraphContext" /\ ~runs[a].graph
       THEN BlockRun(a)
       ELSE Advance(a, After(runs[a].phase, runs[a])) /\ UNCHANGED <<attempts, delivered, log>>
    /\ GateIdle

\* Mutant: a retried model call starts counting again.
RetryForever(a) ==
    /\ runs[a].phase \in Tools
    /\ runs' = [runs EXCEPT ![a].tries = (@ % MaxTries) + 1]
    /\ UNCHANGED <<attempts, delivered, log>> /\ GateIdle

\* The provider answers 429 or 503 and the client waits and asks again.
RetryModel(a) ==
    /\ runs[a].phase \in Tools
    /\ runs[a].tries < MaxTries
    /\ runs' = [runs EXCEPT ![a].tries = @ + 1]
    /\ UNCHANGED <<attempts, delivered, log>> /\ GateIdle

(* Any other provider failure, a call of another tool or with other        *)
(* arguments, references that resolve to no target or to another one.      *)
FailModel(a) == runs[a].phase \in Tools /\ BlockRun(a) /\ GateIdle

\* Mutant: any answer about an indexed clearance will do.
GraphAccepts(verdict) == verdict # "NOT_FOUND"

GraphMatches(verdict) == verdict = "MATCHED"

AnswerGraph(a, x, clock) ==
    /\ runs[a].phase = "GRAPH"
    /\ IF GraphMatches(ReadClearance(x, runs[a].doc, clock))
       THEN /\ runs' = [runs EXCEPT ![a] =
                  [@ EXCEPT !.phase = "getClearance", !.tries = 1, !.indexed = head[x]]]
            /\ UNCHANGED <<attempts, delivered, log>>
       ELSE BlockRun(a)
    /\ GateIdle

\* The registry is read at one sealed block before anything is prepared.
AnswerRegistry(a, h) ==
    LET q == runs[a]
    IN  /\ q.phase = "REGISTRY"
        /\ IF q.verdict = "CLEAR" /\ EligibleAt(h, q.doc)
           THEN /\ runs' = [runs EXCEPT ![a] =
                      [@ EXCEPT !.phase = "prepareDeploymentIntent", !.tries = 1, !.inspected = h]]
                /\ UNCHANGED <<attempts, delivered, log>>
           ELSE BlockRun(a)
        /\ GateIdle

FailRead(a) == runs[a].phase \in {"GRAPH", "REGISTRY"} /\ BlockRun(a) /\ GateIdle

\* prepareDeploymentIntent: the release service starts its own precheck.
CallPrepare(a) ==
    LET q == runs[a]
    IN  /\ q.phase = "prepareDeploymentIntent"
        /\ IF q.signer \in policy
           THEN /\ PrepareStart(a, q.doc, q.tenant, q.signer)
                /\ Advance(a, "PREPARE")
                /\ UNCHANGED <<attempts, delivered, log, subgraphVars>>
           ELSE BlockRun(a) /\ GateIdle

PrepareReturns(a, h, n) ==
    /\ runs[a].phase = "PREPARE"
    /\ PrepareFinish(a, h, n)
    /\ runs' = [runs EXCEPT ![a] =
          [@ EXCEPT !.phase = "getLedgerAuthorizationStatus", !.tries = 1, !.nonce = n]]
    /\ UNCHANGED <<attempts, delivered, log, subgraphVars>>

PrepareThrows(a) ==
    /\ runs[a].phase = "PREPARE"
    /\ Fail(a)
    /\ BlockRun(a)
    /\ UNCHANGED subgraphVars

\* getAuthorizationStatus of the release service finds the row still ISSUED.
CallStatus(a) ==
    LET q == runs[a]
    IN  /\ q.phase = "getLedgerAuthorizationStatus"
        /\ IF rows[q.nonce].state = "ISSUED"
           THEN /\ attempts' = [attempts EXCEPT ![a] =
                      [tenant |-> q.tenant, final |-> "LEDGER_APPROVAL_REQUIRED",
                       prepared |-> q.nonce]]
                /\ Advance(a, "RETURNED")
                /\ UNCHANGED <<delivered, log>>
           ELSE BlockRun(a)
        /\ GateIdle

Deliver(n, tenant) == delivered' = [delivered EXCEPT ![n] = @ \cup {tenant}]

\* Mutant: the history says that approval is awaited whatever the agent said.
OutcomeAssumed(a) == "LEDGER_APPROVAL_REQUIRED"

Outcome(a) == attempts[a].final

\* The route records the outcome in the account's history and answers.
Respond(a) ==
    LET q == runs[a]
    IN  /\ q.phase = "RETURNED"
        /\ runs' = [runs EXCEPT ![a].phase = "DONE"]
        /\ RecordReleaseAttempt(a, q.route, Outcome(a))
        /\ IF attempts[a].prepared # NoNonce
           THEN Deliver(attempts[a].prepared, q.tenant)
           ELSE UNCHANGED delivered
        /\ UNCHANGED attempts /\ GateIdle

\* Mutant: an attempt answers whoever knows its id.
MayAskAnything(a, tenant) ==
    /\ attempts[a] # NoAttempt
    /\ attempts[a].prepared # NoNonce

MayAsk(a, tenant) ==
    /\ attempts[a] # NoAttempt
    /\ attempts[a].prepared # NoNonce
    /\ attempts[a].tenant \in {NoTenant, tenant}

StatusAuthorized(row) == row.state = "CONSUMED"

(* POST /agent/deployment/status: the attempt id, drawn at random, is only *)
(* known once run() has answered.                                          *)
AskStatus(a, tenant) ==
    LET n == attempts[a].prepared
    IN  /\ runs[a].phase = "DONE"
        /\ MayAsk(a, tenant)
        /\ VisibleTo(rows[n], tenant)
        /\ Deliver(n, tenant)
        /\ attempts' = IF StatusAuthorized(rows[n])
                       THEN [attempts EXCEPT ![a].final = "AUTHORIZED"] ELSE attempts
        /\ UNCHANGED <<runs, log>> /\ GateIdle

-----------------------------------------------------------------------------
\* POST /release/prepare: the answer may be lost on its way.
DirectPrepare(r) ==
    /\ \/ \E doc \in Documents, tenant \in OrNone(Tenants), signer \in Signers :
             PrepareStart(r, doc, tenant, signer) /\ UNCHANGED delivered
       \/ \E h \in DOMAIN chain, n \in Nonces :
             /\ PrepareFinish(r, h, n)
             /\ \/ UNCHANGED delivered
                \/ Deliver(n, requests[r].tenant)
    /\ UNCHANGED <<runs, attempts, log, subgraphVars>>

\* POST /release/consume of a prepared request some caller holds.
Consume(r) ==
    /\ \/ \E n \in Nonces, tenant \in OrNone(Tenants), signer \in Signers :
             delivered[n] # {} /\ ConsumeStart(r, n, tenant, signer)
       \/ \E h \in DOMAIN chain : ConsumeFinish(r, h)
       \/ Fail(r)
       \/ Answer(r)
    /\ UNCHANGED <<agentVars, subgraphVars>>

RestartServer(allowlist) ==
    /\ Restart(allowlist)
    /\ runs' = [a \in Attempts |->
          IF runs[a] = NoRun \/ runs[a].phase = "DONE" THEN runs[a]
          ELSE [runs[a] EXCEPT !.phase = "LOST"]]
    /\ attempts' = [a \in Attempts |-> NoAttempt]
    /\ UNCHANGED <<delivered, log, subgraphVars>>

-----------------------------------------------------------------------------
AgentInit ==
    /\ Init /\ SubgraphInit
    /\ runs = [a \in Attempts |-> NoRun]
    /\ attempts = [a \in Attempts |-> NoAttempt]
    /\ delivered = [n \in Nonces |-> {}]
    /\ log = [a \in Attempts |-> "NONE"]

\* One step of a run in progress.
RunStep(a) ==
    \/ CallTool(a) \/ RetryModel(a) \/ FailModel(a) \/ FailRead(a)
    \/ \E x \in Indexers, clock \in Clock : AnswerGraph(a, x, clock)
    \/ \E h \in DOMAIN chain : AnswerRegistry(a, h)
    \/ CallPrepare(a) \/ PrepareThrows(a)
    \/ \E h \in DOMAIN chain, n \in Nonces : PrepareReturns(a, h, n)
    \/ CallStatus(a) \/ Respond(a)

AgentNext ==
    \/ IndexNext /\ UNCHANGED agentVars
    \/ \E a \in Attempts :
          \/ \E route \in Routes, tenant \in OrNone(Tenants) :
                \/ RefuseRun(a, route, tenant)
                \/ \E graph \in BOOLEAN, doc \in Documents, verdict \in {"CLEAR", "HOLD"},
                      signer \in Signers :
                      StartRun(a, route, tenant, graph, doc, verdict, signer)
          \/ RunStep(a)
          \/ \E tenant \in OrNone(Tenants) : AskStatus(a, tenant)
    \/ \E r \in Requests \ Attempts : DirectPrepare(r) \/ Consume(r)
    \/ \E allowlist \in SUBSET Signers : RestartServer(allowlist)

AgentSpec == AgentInit /\ [][AgentNext]_allVars

(* Model calls are aborted after 15 s and reads time out, so a run that    *)
(* the process keeps executing always takes its next step.                 *)
FairAgentSpec == AgentSpec /\ \A a \in Attempts : WF_allVars(RunStep(a))

-----------------------------------------------------------------------------
(* What the agent reported as blocked, and what a restart cut off before   *)
(* it was reported, is never released: the nonce such a run left ISSUED    *)
(* on disk reaches no caller, so it is never consumed.                     *)
BlockedIsNeverReleased ==
    \A a \in Attempts :
        LET n == runs[a].nonce
        IN  runs[a] # NoRun /\ n # NoNonce =>
              /\ attempts[a].final = "BLOCKED" => rows[n].state = "ISSUED"
              /\ log[a] = "BLOCKED" => rows[n].state = "ISSUED"
              /\ runs[a].phase \in {"getLedgerAuthorizationStatus", "LOST"}
                    /\ attempts[a] = NoAttempt /\ delivered[n] = {}
                    => rows[n].state = "ISSUED"

(* A release that went through the agent was seen in force by everyone who *)
(* was asked: the clearance was recorded and unrevoked in every block      *)
(* between the earliest and the latest that the subgraph, the agent's own  *)
(* registry read, the precheck and the postcheck looked at.                *)
BlocksSeen(a) ==
    LET row == rows[runs[a].nonce]
    IN  ({runs[a].indexed} \ {0}) \cup {runs[a].inspected, row.precheck, row.postcheck}

VettedThroughout ==
    \A a \in Attempts :
        runs[a] # NoRun /\ runs[a].nonce # NoNonce /\ rows[runs[a].nonce].state = "CONSUMED" =>
            /\ UsesGraph(runs[a]) => runs[a].indexed > 0
            /\ runs[a].verdict = "CLEAR"
            /\ \A first, last \in BlocksSeen(a) : \A h \in first..last :
                  chain[h].clearances[runs[a].doc.digest].status = "RECORDED"

(* What the agent and the account's history say agrees with the gate's     *)
(* rows: approval is awaited only for an issued request of that account    *)
(* and document, and AUTHORIZED is said only of a consumed one.            *)
ReportsAgreeWithGate ==
    \A a \in Attempts :
        /\ attempts[a].final \in {"LEDGER_APPROVAL_REQUIRED", "AUTHORIZED"}
              \/ log[a] = "LEDGER_APPROVAL_REQUIRED" =>
             LET row == rows[runs[a].nonce]
             IN  /\ runs[a].nonce # NoNonce
                 /\ row.state # "NONE"
                 /\ row.doc = runs[a].doc
                 /\ row.tenant = runs[a].tenant
                 /\ row.signer = runs[a].signer
        /\ attempts[a].final = "AUTHORIZED" => rows[attempts[a].prepared].state = "CONSUMED"

(* The prepared request of an account is handed to that account only, by   *)
(* the agent, its status route and the direct route alike.                 *)
PreparedStaysInAccount ==
    \A n \in Nonces :
        rows[n].state # "NONE" /\ rows[n].tenant # NoTenant => delivered[n] \subseteq {rows[n].tenant}

(* Every run ends, in an answer or with the process: model retries are     *)
(* bounded and every tool is called at most once.                          *)
RunsEnd ==
    \A a \in Attempts : (runs[a] # NoRun) ~> (runs[a].phase \in {"DONE", "LOST"})
=============================================================================
