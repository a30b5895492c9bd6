------------------------------ MODULE CreProtocol ------------------------------
(***************************************************************************)
(* One evaluation from the request to what an executor reports: the        *)
(* payload the clients build (apps/api/src/evaluation), what the           *)
(* confidential workflow makes of it (integrations/chainlink-cre), and how *)
(* its answer is read as a gateway reply, as the output of the CLI         *)
(* simulation, or as a callback.                                           *)
(*                                                                         *)
(* A document stands for its digest and an envelope for its commitment.    *)
(* Of versions there are the current one, the legacy one, and any other.   *)
(***************************************************************************)
EXTENDS Sequences, SequencesExt

CONSTANTS
    VerdictUnder,  \* envelope -> the verdict of the traces in play
    Codes          \* CRE_PUBLIC_FAILURE_CODES

\* Secret ids are sequences of words; a site's extends the fixed one.
FixedSecretId == <<"FIXED">>
CompatibilitySecretId == <<"COMPATIBILITY">>
SiteSecretId(site) == FixedSecretId \o <<site>>
NoSelector == <<>>

\* assertEvaluationResultBindings
ResultBound(result, request) ==
    /\ result.evaluation = request.evaluation
    /\ result.inputs = request.inputs
    /\ request.requestedAt <= result.evaluatedAt

-----------------------------------------------------------------------------
\* Requests.

\* The digest is of the whole content, in the domain of its version.
DigestBehaviorInput(content) == [domain |-> content.version, payload |-> content]

\* publicRequest and publicPayload.
PublicRequest(input) ==
    LET content == [version    |-> "CURRENT",
                    selector   |-> SiteSecretId(input.request.inputs.site),
                    request    |-> input.request,
                    robotBuild |-> input.robotBuild,
                    traces     |-> input.traces,
                    evaluatedAt |-> input.evaluatedAt]
    IN  [content |-> content, behavior |-> DigestBehaviorInput(content)]

\* The descriptor and the traces are of the build that is requested.
SameBuild(content) ==
    LET inputs == content.request.inputs
        descriptor == [robot |-> inputs.robot, build |-> inputs.build, digest |-> inputs.digest]
    IN  content.robotBuild = descriptor /\ content.traces = descriptor

\* parsePublicEvaluationRequest: the failure code, or ACCEPTED.
ParsePublicRequest(payload, requireSelector) ==
    LET content == payload.content
        selectors == {SiteSecretId(content.request.inputs.site)}
                        \cup IF requireSelector THEN {} ELSE {NoSelector}
    IN  IF content.version \notin {"CURRENT", "LEGACY"} THEN "UNSUPPORTED_VERSION"
        ELSE IF /\ SameBuild(content)
                /\ content.selector \in selectors
                /\ payload.behavior = DigestBehaviorInput(content)
        THEN "ACCEPTED" ELSE "MALFORMED_PUBLIC_INPUT"

-----------------------------------------------------------------------------
\* The workflow.  A secret is an envelope, or one of the values below.
Unreadable == {"ABSENT", "MALFORMED", "OUTDATED"}

Reject(code, version) == [status |-> "REJECT", version |-> version, code |-> code]

\* parseConfidentialEvaluationInput: the failure code, or READABLE.
ParseConfidentialInput(secret) ==
    CASE secret = "MALFORMED" -> "MALFORMED_CONFIDENTIAL_INPUT"
      [] secret = "OUTDATED"  -> "UNSUPPORTED_VERSION"
      [] OTHER                -> "READABLE"

\* A request with a selector never falls back to a fixed secret.
SecretFor(secrets, selector) ==
    IF selector # NoSelector THEN secrets[selector]
    ELSE IF secrets[FixedSecretId] # "ABSENT" THEN secrets[FixedSecretId]
    ELSE secrets[CompatibilitySecretId]

\* Mutant: the evaluator does not look at the commitment of the request.
CommitsToAny(request, envelope) == TRUE

\* assertEvaluationInputBindings, inside evaluateSimulation.
CommitsTo(request, envelope) == request.inputs.commitment = envelope

Evaluate(secret, payload) ==
    LET content == payload.content
        request == content.request
        parsed == ParseConfidentialInput(secret)
    IN  CASE secret = "ABSENT" -> Reject("CONFIDENTIAL_INPUT_UNAVAILABLE", content.version)
          [] secret # "ABSENT" /\ parsed # "READABLE" -> Reject(parsed, content.version)
          [] secret \notin Unreadable ->
                IF CommitsTo(request, secret) /\ request.requestedAt <= content.evaluatedAt
                THEN [status   |-> "EVALUATED",
                      version  |-> content.version,
                      behavior |-> payload.behavior,
                      result   |-> [evaluation  |-> request.evaluation,
                                    inputs      |-> request.inputs,
                                    verdict     |-> VerdictUnder[secret],
                                    evaluatedAt |-> content.evaluatedAt]]
                ELSE Reject("CONFIDENTIAL_EVALUATION_REJECTED", content.version)

MakeCallback(evaluation, response) == [evaluation |-> evaluation, response |-> response]

\* parseEvaluationResultCallback
IsCallback(callback) ==
    LET response == callback.response
    IN  /\ response.version = "CURRENT"
        /\ response.status = "EVALUATED" => response.result.evaluation = callback.evaluation
        /\ response.status = "REJECT" => response.code \in Codes

(* deliverPublicResult.  The delivery is ACKNOWLEDGED with a 2xx status,   *)
(* reaches the server and is not (UNACKNOWLEDGED), or is LOST.             *)
Deliver(config, delivery, evaluation, response) ==
    LET callback == MakeCallback(evaluation, response)
        sent == config.delivers /\ IsCallback(callback)
    IN  [delivered |-> IF sent /\ delivery # "LOST" THEN {callback} ELSE {},
         answer    |-> IF config.delivers => sent /\ delivery = "ACKNOWLEDGED" THEN response
                       ELSE Reject("CONFIDENTIAL_HANDLER_FAILURE", response.version)]

EvaluateInTee(config, secrets, delivery, payload) ==
    LET parsed == ParsePublicRequest(payload, config.requireSelector)
        content == payload.content
    IN  IF parsed # "ACCEPTED"
        THEN [delivered |-> {}, answer |-> Reject(parsed, "CURRENT")]
        ELSE Deliver(config, delivery, content.request.evaluation,
                     Evaluate(SecretFor(secrets, content.selector), payload))

-----------------------------------------------------------------------------
\* Answers.  What is read is a result, or an error code.
Error(code) == [error |-> code]

\* The last checks of both clients.
OwnResult(response, payload) ==
    /\ response.behavior = payload.behavior
    /\ ResultBound(response.result, payload.content.request)

\* The JSON-RPC answer to request id reply.own: a completed body, or an error code.
ResponseJson(reply) ==
    LET body == reply.body
    IN  CASE ~reply.own -> Error("CRE_RESPONSE_INVALID")
          [] reply.own /\ body.status = "ERROR"    -> Error("CRE_REQUEST_REJECTED")
          [] reply.own /\ body.status = "ACCEPTED" -> Error("CRE_EVALUATION_PENDING")
          [] reply.own /\ body.status \in {"EVALUATED", "REJECT"} ->
                IF body.version = "CURRENT" THEN body ELSE Error("CRE_RESPONSE_INVALID")

(* The gateway client's evaluate.  reply.http tells how far the exchange   *)
(* got; reply.own whether the envelope is the one of this request id.      *)
FromGateway(input, reply) ==
    LET payload == PublicRequest(input)
        response == ResponseJson(reply)
    IN  CASE \/ input.robotBuild.build # input.request.inputs.build
             \/ input.robotBuild.digest # input.request.inputs.digest
                -> Error("CRE_RESPONSE_INVALID")
          [] OTHER ->
             CASE reply.http = "UNREACHABLE" -> Error("CRE_UNAVAILABLE")
               [] reply.http = "UNREADABLE"  -> Error("CRE_RESPONSE_INVALID")
               [] reply.http = "REFUSED"     -> Error("CRE_REQUEST_REJECTED")
               [] reply.http = "OK"          ->
                  IF "error" \in DOMAIN response THEN response
                  ELSE IF response.status = "REJECT" THEN Error("CRE_REQUEST_REJECTED")
                  ELSE IF OwnResult(response, payload) THEN response.result
                  ELSE Error("CRE_RESPONSE_INVALID")

\* publicPayload and confidentialSecret: what a simulation is started with.
IsPublicPayload(payload) == ParsePublicRequest(payload, TRUE) = "ACCEPTED"
HasConfidentialSecret(input) == ParseConfidentialInput(input.envelope) = "READABLE"

\* The secret file of a simulation: the site's own envelope, under its selector.
SimulationSecrets(input, selectors) ==
    [s \in selectors |->
        IF s = SiteSecretId(input.request.inputs.site) THEN input.envelope ELSE "ABSENT"]

\* Output is a sequence of JSON values, some of which repeat the secret.
NoConfidentialOutput(output) == \A i \in DOMAIN output : output[i].status # "SECRET"

\* Where findPublicResponse finds one; extractPublicResponse takes the first.
PublicResponses(output) ==
    {i \in DOMAIN output : output[i].status \in {"EVALUATED", "REJECT"}
                              /\ output[i].version = "CURRENT"}

(* The simulation client's evaluate, given what its three child processes  *)
(* did.  Output that holds confidential data is refused before anything    *)
(* else is made of it.                                                     *)
FromCli(input, run) ==
    LET payload == PublicRequest(input)
        responses == PublicResponses(run.output)
        callback == MakeCallback(input.request.evaluation, run.output[Min(responses)])
        response == callback.response
    IN  IF ~IsPublicPayload(payload) \/ ~HasConfidentialSecret(input)
        THEN Error("CRE_RESPONSE_INVALID")
        ELSE IF ~run.started \/ ~run.authenticated THEN Error("CRE_UNAVAILABLE")
        ELSE IF \/ ~NoConfidentialOutput(run.output)
                \/ ~run.succeeded \/ run.tooLarge
                \/ responses = {} \/ ~IsCallback(callback)
        THEN Error("CRE_RESPONSE_INVALID")
        ELSE IF response.status = "REJECT" THEN Error("CRE_REQUEST_REJECTED")
        ELSE IF OwnResult(response, payload) THEN response.result
        ELSE Error("CRE_RESPONSE_INVALID")

\* completeCreEvaluation, on the pending row of the request.
FromCallback(input, callback) ==
    LET payload == PublicRequest(input)
        response == callback.response
    IN  CASE callback.evaluation # input.request.evaluation -> Error("NOT_FOUND")
          [] OTHER -> IF response.status = "REJECT" THEN Error("CRE_REQUEST_REJECTED")
                      ELSE IF OwnResult(response, payload) THEN response.result
                      ELSE Error("CONFLICT")
=============================================================================
