----------------------------- MODULE MCAlgorithms -----------------------------
(***************************************************************************)
(* The pure algorithms over bounded inputs: the evaluator, alone and fed   *)
(* by the store, one evaluation through the confidential workflow, and the *)
(* resolution of deployment requests.  The only step is the choice of an   *)
(* input.                                                                  *)
(***************************************************************************)
EXTENDS SitePolicy, Catalog, CreProtocol

CONSTANTS build, blind, s1, s2, e1, e2, clear, hold

VARIABLE input

-----------------------------------------------------------------------------
Abs(n) == IF n < 0 THEN -n ELSE n
Point(x, y) == [x |-> x, y |-> y]
Rectangle(a, b, c, d) == [minX |-> a, minY |-> b, maxX |-> c, maxY |-> d]
Points(n) == {Point(x, y) : x \in 0..n, y \in 0..n}

\* The test of the scenarios that locks their content and order.
ASSUME DemoSuiteIsLocked ==
    GenerateScenarioSuite(
        [seed |-> SEED,
         templates |-> <<[id |-> 3, base |-> 20000, variation |-> 500],
                         [id |-> 2, base |-> 25000, variation |-> 500],
                         [id |-> 1, base |-> 50000, variation |-> 500]>>])
    = <<[id |-> 3, payload |-> 19567], [id |-> 2, payload |-> 24609],
        [id |-> 1, payload |-> 49642]>>

\* Zones inside, across, in a corner and outside of a 4 by 4 warehouse;
\* routes that stay in it and routes that leave it by one.
PolicyInputs ==
    [kind : {"POLICY"},
     policy : {[width |-> 4, height |-> 4, zone |-> z, maximumSpeed |-> 2,
                zoneSpeed |-> 1, threshold |-> t] :
                  t \in {0, 25000},
                  z \in {Rectangle(1, 1, 3, 3), Rectangle(2, 0, 3, 4), Rectangle(0, 3, 1, 4),
                         Rectangle(1, 2, 2, 3), Rectangle(2, 2, 5, 3)}},
     route : [start : Points(5), end : Points(4), speed : {1, 2, 3}]]

\* Rules of one family over two zones, named against the order of families.
RuleSet ==
    { [id |-> 4, type |-> "restricted-zone", zone |-> 2],
      [id |-> 3, type |-> "zone-speed-limit", zone |-> 1, limit |-> 1],
      [id |-> 2, type |-> "zone-speed-limit", zone |-> 2, limit |-> 0],
      [id |-> 1, type |-> "payload-zone-restriction", zone |-> 1, limit |-> 9],
      [id |-> 1, type |-> "site-speed-limit", limit |-> 1] }

Zone(id, bounds) == [id |-> id, bounds |-> bounds]

Envelopes ==
    {[bounds |-> Rectangle(0, 0, 4, 4), zones |-> zones, rules |-> rules,
      generation |-> [seed |-> {0, 3}, templates |-> templates]] :
        zones \in {<<Zone(1, Rectangle(1, 1, 2, 3)), Zone(2, Rectangle(3, 0, 4, 1))>>,
                   <<Zone(2, Rectangle(3, 0, 4, 1)), Zone(1, Rectangle(1, 1, 2, 3))>>},
        rules \in {r \in [1..3 -> RuleSet] : r[1] # r[2] /\ r[1] # r[3] /\ r[2] # r[3]},
        templates \in {<<[id |-> 1, base |-> 10, variation |-> 3],
                         [id |-> 2, base |-> 5, variation |-> 5]>>,
                       <<[id |-> 2, base |-> 5, variation |-> 5],
                         [id |-> 1, base |-> 10, variation |-> 3]>>}}

Walk(points, speeds) == [i \in DOMAIN points |-> [position |-> points[i], speed |-> speeds[i]]]

TraceSets ==
    {<<[id |-> 2, steps |-> Walk(<<Point(0, 0), middle, Point(4, 2)>>, <<0, 2, 1>>)],
       [id |-> 1, steps |-> Walk(<<start, Point(2, 4)>>, <<0, 1>>)]>> :
        middle \in {Point(4, 1), Point(0, 2), Point(3, 3)}, start \in {Point(0, 0), Point(1, 1)}}

\* A request is committed to one envelope, and this or another one is presented.
CommittedEnvelopes ==
    {e \in Envelopes : /\ e.zones[1].id = 1 /\ e.generation.templates[1].id = 1
                       /\ e.rules[1].id >= e.rules[2].id /\ e.rules[2].id >= e.rules[3].id}

EnvelopeInputs ==
    [kind : {"ENVELOPE"}, committed : CommittedEnvelopes, presented : Envelopes,
     traces : TraceSets]

\* Aliases that overlap, contain "for", or end with a stop.
Lists == { {<<"a">>}, {<<"a", "for", "b">>, <<"b">>}, {<<"b", "for", "a">>},
           {<<"b">>, <<"a.">>} }
Stops == {"a."}
Plain(w) == "a"

RequestInputs ==
    UNION {[kind : {"REQUEST"}, catalog : {catalog},
            text : UNION {PublicRequestForms(catalog[k]) : k \in Keys}] : catalog \in Catalogs}

\* Two sites, one with an envelope the traces break.
Verdicts == [envelope \in {clear, hold} |-> IF envelope = clear THEN "CLEAR" ELSE "HOLD"]
EnvelopeOf(site) == IF site = s1 THEN clear ELSE hold

FailureCodes == {"MALFORMED_PUBLIC_INPUT", "CONFIDENTIAL_INPUT_UNAVAILABLE",
                 "MALFORMED_CONFIDENTIAL_INPUT", "UNSUPPORTED_VERSION",
                 "CONFIDENTIAL_EVALUATION_REJECTED", "CONFIDENTIAL_HANDLER_FAILURE"}

\* What evaluateBuild hands to its executor.
StoreMade(evaluation, site, evaluatedAt) ==
    [request |-> [evaluation |-> evaluation, requestedAt |-> 1,
                  inputs |-> [site |-> site, robot |-> "robot", build |-> build,
                              digest |-> "digest", commitment |-> EnvelopeOf(site)]],
     robotBuild |-> [robot |-> "robot", build |-> build, digest |-> "digest"],
     traces |-> [robot |-> "robot", build |-> build, digest |-> "digest"],
     envelope |-> EnvelopeOf(site), evaluatedAt |-> evaluatedAt]

Asked == LET own == StoreMade(e1, s1, 1)
         IN  {own, StoreMade(e1, s2, 1), StoreMade(e2, s1, 1),
              StoreMade(e1, s1, 2), StoreMade(e1, s1, 0),
              [own EXCEPT !.robotBuild.digest = "other"], [own EXCEPT !.traces.digest = "other"]}

\* The payload of a request, as an older or a newer client would write it,
\* without a selector, with another site's, or changed under its digest.
Redigested(content) == [content |-> content, behavior |-> DigestBehaviorInput(content)]

Payloads(asked) ==
    LET payload == PublicRequest(asked)
        content == payload.content
    IN  {payload, [payload EXCEPT !.content.evaluatedAt = 3]}
        \cup {Redigested([content EXCEPT !.version = v, !.selector = s]) :
                v \in {"CURRENT", "LEGACY", "OTHER"}, s \in {content.selector, SiteSecretId(s2), NoSelector}}

SecretStores ==
    {[s1 |-> own, s2 |-> hold, FIXED |-> fixed, COMPATIBILITY |-> old] :
        own \in Unreadable \cup {clear, hold}, fixed \in {"ABSENT", hold}, old \in {"ABSENT", clear}}

\* The same stores as functions of selectors.
Selectors == {SiteSecretId(s1), SiteSecretId(s2), FixedSecretId, CompatibilitySecretId}
Secrets(store) ==
    [s \in Selectors |-> CASE s = SiteSecretId(s1) -> store.s1
                           [] s = SiteSecretId(s2) -> store.s2
                           [] s = FixedSecretId -> store.FIXED
                           [] OTHER -> store.COMPATIBILITY]

Configs == [requireSelector : BOOLEAN, delivers : BOOLEAN]

WorkflowInputs ==
    UNION {[kind : {"WORKFLOW"}, asked : {own}, config : Configs, store : SecretStores,
            delivery : {"ACKNOWLEDGED", "UNACKNOWLEDGED", "LOST"},
            payload : UNION {Payloads(asked) : asked \in {own, StoreMade(e1, s1, 1)}}] :
        own \in Asked}

Init == input = [kind |-> "NONE"]

Choose(inputs) == input.kind = "NONE" /\ input' \in inputs

Next ==
    \/ Choose(PolicyInputs)
    \/ Choose(EnvelopeInputs)
    \/ Choose(RequestInputs)
    \/ Choose(WorkflowInputs)

Spec == Init /\ [][Next]_input

-----------------------------------------------------------------------------
Presented(committed, presented, traces) ==
    [request |-> [build |-> build, commitment |-> Commitment(committed, blind),
                  requestedAt |-> 0],
     build |-> build, tracedBuild |-> build, envelope |-> presented, blind |-> blind,
     traces |-> traces, evaluatedAt |-> 0]

(* Some point of the closed segment lies in the closed rectangle.  Where   *)
(* the segment enters is a multiple of 1/dx or 1/dy of its length.         *)
Touches(a, b, r) ==
    \E d \in {1, Abs(b.x - a.x), Abs(b.y - a.y)} \ {0} : \E k \in 0..d :
        PointInside(Point(a.x * d + k * (b.x - a.x), a.y * d + k * (b.y - a.y)),
                    Rectangle(r.minX * d, r.minY * d, r.maxX * d, r.maxY * d))

Breaks(rule, payload, steps, i, e) ==
    LET from == steps[IF i = 1 THEN 1 ELSE i - 1].position
        entered == {z.id : z \in {z \in ToSet(e.zones) :
                                    Touches(from, steps[i].position, z.bounds)}}
    IN  CASE rule.type = "site-speed-limit" -> steps[i].speed > rule.limit
          [] rule.type = "restricted-zone" -> rule.zone \in entered
          [] rule.type = "zone-speed-limit" -> rule.zone \in entered /\ steps[i].speed > rule.limit
          [] rule.type = "payload-zone-restriction" -> rule.zone \in entered /\ payload > rule.limit

(* The report of an envelope lists, for every scenario it generates and    *)
(* every rule some step of its trace breaks, the first such step, once;    *)
(* it is CLEAR exactly when there is none.  The scenarios are the          *)
(* templates, each once, with a payload inside its variation.              *)
ReportIsExact ==
    input.kind = "ENVELOPE" /\ input.presented = input.committed /\ IsEnvelope(input.committed) =>
        LET e == input.committed
            report == EvaluateSimulation(Presented(e, e, input.traces))
            suite == GenerateScenarioSuite(e.generation)
            Steps(s) == StepsFor(input.traces, s.id)
            Breaking(s, rule) == {i \in DOMAIN Steps(s) : Breaks(rule, s.payload, Steps(s), i, e)}
            expected == {[scenario |-> s.id, rule |-> rule, step |-> Min(Breaking(s, rule))] :
                            <<s, rule>> \in {x \in ToSet(suite) \X ToSet(e.rules) :
                                                Breaking(x[1], x[2]) # {}}}
        IN  /\ ToSet(report.violations) = expected
            /\ Len(report.violations) = Cardinality(expected)
            /\ report.verdict = IF expected = {} THEN "CLEAR" ELSE "HOLD"
            /\ Len(suite) = Len(e.generation.templates)
            /\ \A t \in ToSet(e.generation.templates) :
                  \E s \in ToSet(suite) : s.id = t.id /\ Abs(s.payload - t.base) <= t.variation

(* A request is only ever answered about the envelope it committed to, and *)
(* an envelope is the same one in whatever order its zones, rules and      *)
(* scenario templates are written: the report is then the same to the last *)
(* line.                                                                   *)
ReportIsOfCommitment ==
    input.kind = "ENVELOPE" /\ IsEnvelope(input.presented) =>
        LET committed == input.committed
            presented == input.presented
            same == /\ ToSet(committed.rules) = ToSet(presented.rules)
                    /\ ToSet(committed.zones) = ToSet(presented.zones)
                    /\ ToSet(committed.generation.templates)
                           = ToSet(presented.generation.templates)
        IN  EvaluateSimulation(Presented(committed, presented, input.traces)) =
                IF same THEN EvaluateSimulation(Presented(committed, committed, input.traces))
                ELSE Refused

(* Of a policy the store accepts, only the restricted zone and the site's  *)
(* speed decide: the other two rules are about the same zone, which no     *)
(* route may touch at all.  The store refuses exactly the routes the       *)
(* evaluator would.                                                        *)
RouteDecides ==
    input.kind = "POLICY" /\ IsPolicy(input.policy) =>
        LET route == input.route
            report == EvaluateSimulation(StoredInput(input.policy, route, build, blind))
        IN  report.verdict =
                IF ~AcceptsRoute(input.policy, route) THEN "REFUSED"
                ELSE IF \/ Touches(route.start, route.end, input.policy.zone)
                        \/ route.speed > input.policy.maximumSpeed
                     THEN "HOLD" ELSE "CLEAR"

\* How far an exchange with the gateway, or the children of a simulation, get.
Replies(body) ==
    [http : {"OK", "REFUSED", "UNREADABLE", "UNREACHABLE"}, own : BOOLEAN,
     body : {body, [status |-> "ACCEPTED"], [status |-> "ERROR"]}]

Works == [started |-> TRUE, authenticated |-> TRUE, succeeded |-> TRUE, tooLarge |-> FALSE]
Runs(output) ==
    {run @@ [output |-> output] :
        run \in {Works, [Works EXCEPT !.started = FALSE], [Works EXCEPT !.authenticated = FALSE],
                 [Works EXCEPT !.succeeded = FALSE], [Works EXCEPT !.tooLarge = TRUE]}}

(* Whatever payload the workflow was given, whatever secrets its operators *)
(* provisioned under which selector, and however its answer travels, a     *)
(* result that an executor or the callback takes for a request is that of  *)
(* the request: of its evaluation and inputs, at its time, and judged by   *)
(* the envelope the request is committed to.  And what the store asks for  *)
(* is decided by the callback whenever it arrives, accepted or rejected.   *)
AnswersAreForTheRequest ==
    input.kind = "WORKFLOW" =>
        LET asked == input.asked
            request == asked.request
            worked == EvaluateInTee(input.config, Secrets(input.store), input.delivery,
                                    input.payload)
            simulated == EvaluateInTee([requireSelector |-> TRUE, delivers |-> FALSE],
                                       SimulationSecrets(asked, Selectors), "LOST",
                                       PublicRequest(asked))
            outputs == {<<[status |-> "LOG"], simulated.answer>>,
                        <<worked.answer, simulated.answer>>,
                        <<simulated.answer, [status |-> "SECRET"]>>}
            called == {FromCallback(asked, callback) : callback \in worked.delivered}
            read == called \cup {FromGateway(asked, reply) : reply \in Replies(worked.answer)}
                           \cup {FromCli(asked, run) : run \in UNION {Runs(o) : o \in outputs}}
            own == [evaluation |-> request.evaluation, inputs |-> request.inputs,
                    verdict |-> VerdictUnder[request.inputs.commitment],
                    evaluatedAt |-> asked.evaluatedAt]
        IN  /\ \A outcome \in read : "error" \in DOMAIN outcome \/ outcome = own
            /\ /\ asked = StoreMade(request.evaluation, request.inputs.site, request.requestedAt)
               /\ input.payload = PublicRequest(asked)
               /\ input.config.delivers /\ input.delivery # "LOST"
               => called = {own} \/ called = {Error("CRE_REQUEST_REJECTED")}

(* A request that is answered with a target could not have been written    *)
(* for another one, whatever words its aliases are made of, and the same   *)
(* references in a tool call name no other target.                         *)
AnswerHasNoNamesake ==
    input.kind = "REQUEST" =>
        LET answer == ResolvePublicRequest(input.catalog, input.text)
            Reads(k) == Normalize(input.text) \in PublicRequestForms(input.catalog[k])
        IN  answer \in Keys =>
                /\ \A k \in Keys : Reads(k) <=> k = answer
                /\ \A s \in input.catalog[answer].site, r \in input.catalog[answer].robot,
                      b \in input.catalog[answer].build :
                        Normalize(input.text) = DeployFor(s, r, b) =>
                            Resolve(input.catalog, s, r, b) = answer
=============================================================================
