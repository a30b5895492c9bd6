------------------------------ MODULE Evaluator -------------------------------
(***************************************************************************)
(* The warehouse evaluator (packages/simulation-core): which envelopes,    *)
(* traces and scenario templates are accepted, the scenarios a seed        *)
(* generates, and the report evaluateSimulation makes of them.             *)
(*                                                                         *)
(* Identifiers are numbers in code-unit order.  A document stands for its  *)
(* digest, an envelope with its blind for its commitment.  A 32-bit word   *)
(* is the set of its one bits, so that nothing overflows here that does    *)
(* not in the source.  Input that is not of the expected shape at all is   *)
(* refused before anything below is reached.                               *)
(***************************************************************************)
EXTENDS Integers, Sequences, FiniteSets, SequencesExt

MAX_PAYLOAD_GRAMS == 1000000000
MAX_ZONES == 128
MAX_RULES == 16
MAX_SCENARIOS == 16
MAX_TRACE_STEPS == 32

RULE_FAMILY_RANK ==
    [family \in {"restricted-zone", "site-speed-limit", "zone-speed-limit",
                 "payload-zone-restriction"} |->
        CASE family = "restricted-zone"          -> 0
          [] family = "site-speed-limit"         -> 1
          [] family = "zone-speed-limit"         -> 2
          [] family = "payload-zone-restriction" -> 3]

-----------------------------------------------------------------------------
\* Geometry, exact on integers.
PointInside(p, r) ==
    /\ r.minX <= p.x /\ p.x <= r.maxX
    /\ r.minY <= p.y /\ p.y <= r.maxY

Orientation(a, b, c) == (b.x - a.x) * (c.y - a.y) - (b.y - a.y) * (c.x - a.x)

Between(v, a, b) == (a <= v /\ v <= b) \/ (b <= v /\ v <= a)

PointOnSegment(p, a, b) ==
    Orientation(a, b, p) = 0 /\ Between(p.x, a.x, b.x) /\ Between(p.y, a.y, b.y)

Opposite(m, n) == (m > 0 /\ n < 0) \/ (m < 0 /\ n > 0)

SegmentsIntersect(a, b, c, d) ==
    \/ /\ Opposite(Orientation(a, b, c), Orientation(a, b, d))
       /\ Opposite(Orientation(c, d, a), Orientation(c, d, b))
    \/ PointOnSegment(c, a, b) \/ PointOnSegment(d, a, b)
    \/ PointOnSegment(a, c, d) \/ PointOnSegment(b, c, d)

Corners(r) == << [x |-> r.minX, y |-> r.minY], [x |-> r.maxX, y |-> r.minY],
                 [x |-> r.maxX, y |-> r.maxY], [x |-> r.minX, y |-> r.maxY] >>

\* Mutant: only the ends of a segment are looked at.
EndsInside(a, b, r) == PointInside(a, r) \/ PointInside(b, r)

SegmentIntersectsRectangle(a, b, r) ==
    \/ PointInside(a, r) \/ PointInside(b, r)
    \/ \E i \in 1..4 : SegmentsIntersect(a, b, Corners(r)[i], Corners(r)[(i % 4) + 1])

-----------------------------------------------------------------------------
\* What model.ts accepts, and the order it puts lists in.
IsRectangle(r) == r.minX < r.maxX /\ r.minY < r.maxY

ContainsRectangle(outer, inner) ==
    /\ outer.minX <= inner.minX /\ inner.maxX <= outer.maxX
    /\ outer.minY <= inner.minY /\ inner.maxY <= outer.maxY

UniqueIds(s) == \A i, j \in DOMAIN s : s[i].id = s[j].id => i = j

ById(a, b) == a.id < b.id

ByFamily(a, b) ==
    LET rankA == RULE_FAMILY_RANK[a.type]
        rankB == RULE_FAMILY_RANK[b.type]
    IN  rankA < rankB \/ (rankA = rankB /\ a.id < b.id)

IsScenarioGeneration(g) ==
    /\ Len(g.templates) \in 1..MAX_SCENARIOS
    /\ \A i \in DOMAIN g.templates :
          /\ g.templates[i].variation <= g.templates[i].base
          /\ g.templates[i].base + g.templates[i].variation <= MAX_PAYLOAD_GRAMS
    /\ UniqueIds(g.templates)
    /\ g.seed # {}

IsEnvelope(e) ==
    /\ IsRectangle(e.bounds)
    /\ Len(e.zones) \in 1..MAX_ZONES /\ UniqueIds(e.zones)
    /\ \A i \in DOMAIN e.zones :
          IsRectangle(e.zones[i].bounds) /\ ContainsRectangle(e.bounds, e.zones[i].bounds)
    /\ Len(e.rules) \in 1..MAX_RULES /\ UniqueIds(e.rules)
    /\ \A i \in DOMAIN e.rules :
          e.rules[i].type # "site-speed-limit" =>
              \E j \in DOMAIN e.zones : e.zones[j].id = e.rules[i].zone
    /\ IsScenarioGeneration(e.generation)

\* Mutant: rules are kept in the order they were written in.
CanonicalButRules(e) ==
    [e EXCEPT !.zones = SortSeq(@, ById), !.generation.templates = SortSeq(@, ById)]

\* parseConfidentialEvaluationEnvelope
Canonical(e) ==
    [e EXCEPT !.zones = SortSeq(@, ById), !.rules = SortSeq(@, ByFamily),
              !.generation.templates = SortSeq(@, ById)]

\* parseRobotBehaviorTraces; steps are numbered by their place.
IsTraces(traces) ==
    /\ Len(traces) \in 1..MAX_SCENARIOS /\ UniqueIds(traces)
    /\ \A i \in DOMAIN traces : Len(traces[i].steps) \in 1..MAX_TRACE_STEPS

\* confidentialEnvelopeCommitmentPayload, and the digest that blinds it.
Commitment(e, blind) == <<Canonical(e), blind>>

-----------------------------------------------------------------------------
\* xorshift32
Xor(v, w) == (v \cup w) \ (v \cap w)
ShiftLeft(w, n) == {i \in 0..31 : i - n \in w}
ShiftRight(w, n) == {i \in 0..31 : i + n \in w}

NextWord(w) ==
    LET u == Xor(w, ShiftLeft(w, 13))
        v == Xor(u, ShiftRight(u, 17))
    IN  Xor(v, ShiftLeft(v, 5))

Word(seed, n) == FoldLeft(LAMBDA w, i : NextWord(w), seed, [i \in 1..n |-> i])

\* The remainder of a word, read from its highest bit down.
Mod(w, m) ==
    FoldLeft(LAMBDA r, i : (2 * r + IF 32 - i \in w THEN 1 ELSE 0) % m, 0, [i \in 1..32 |-> i])

Swap(s, i, j) == [s EXCEPT ![i] = s[j], ![j] = s[i]]

(* generateScenarioSuite: one draw per template for its payload, then one  *)
(* per place from the last to the second for Fisher-Yates.                 *)
GenerateScenarioSuite(g) ==
    LET templates == SortSeq(g.templates, ById)
        n == Len(templates)
        Payload(i) == LET t == templates[i]
                      IN  t.base + Mod(Word(g.seed, i), 2 * t.variation + 1) - t.variation
        drawn == [i \in 1..n |-> [id |-> templates[i].id, payload |-> Payload(i)]]
    IN  FoldLeft(LAMBDA s, k : Swap(s, n + 1 - k, Mod(Word(g.seed, n + k), n + 1 - k) + 1),
                 drawn, [k \in 1..(n - 1) |-> k])

-----------------------------------------------------------------------------
ZoneOf(envelope, rule) ==
    (CHOOSE i \in DOMAIN envelope.zones : envelope.zones[i].id = rule.zone)

\* observationIntersectsZone: step one is a point, every other a segment.
Enters(steps, i, bounds) ==
    IF i = 1 THEN PointInside(steps[1].position, bounds)
    ELSE SegmentIntersectsRectangle(steps[i - 1].position, steps[i].position, bounds)

\* evaluateRule finds a violation.
Violates(rule, payload, steps, i, envelope) ==
    IF rule.type = "site-speed-limit" THEN steps[i].speed > rule.limit
    ELSE /\ Enters(steps, i, envelope.zones[ZoneOf(envelope, rule)].bounds)
         /\ rule.type = "zone-speed-limit" => steps[i].speed > rule.limit
         /\ rule.type = "payload-zone-restriction" => payload > rule.limit

ByStep(a, b) == a.step < b.step \/ (a.step = b.step /\ ByFamily(a.rule, b.rule))

(* evaluateScenario: a rule that failed is not asked again at later steps. *)
EvaluateScenario(scenario, steps, envelope) ==
    LET At(found, i) ==
            LET failed == {found[k].rule : k \in DOMAIN found}
                fails == SelectSeq(envelope.rules, LAMBDA rule :
                            /\ rule \notin failed
                            /\ Violates(rule, scenario.payload, steps, i, envelope))
            IN  found \o [k \in DOMAIN fails |->
                             [scenario |-> scenario.id, rule |-> fails[k], step |-> i]]
    IN  SortSeq(FoldLeft(At, <<>>, [i \in DOMAIN steps |-> i]), ByStep)

StepsFor(traces, id) == traces[CHOOSE i \in DOMAIN traces : traces[i].id = id].steps

InsideWarehouse(steps, envelope) ==
    \A i \in DOMAIN steps : PointInside(steps[i].position, envelope.bounds)

\* assertEvaluationInputBindings: the request is of this build and is
\* committed to this envelope.
InputsAreBound(input) ==
    /\ input.request.build = input.build
    /\ input.request.commitment = Commitment(input.envelope, input.blind)

\* assertEvaluationResultBindings: the verdict does not precede its request.
ResultIsBound(input) == input.request.requestedAt <= input.evaluatedAt

(* Every check evaluateSimulation makes: the documents are well formed and *)
(* bound together, and the traces are of this build, cover the scenarios   *)
(* and stay in the warehouse.                                              *)
Accepts(input) ==
    /\ IsEnvelope(input.envelope)
    /\ IsTraces(input.traces)
    /\ InputsAreBound(input)
    /\ input.tracedBuild = input.build
    /\ Len(input.traces) = Len(input.envelope.generation.templates)
    /\ \A i \in DOMAIN input.traces :
          /\ \E j \in DOMAIN input.envelope.generation.templates :
                input.envelope.generation.templates[j].id = input.traces[i].id
          /\ InsideWarehouse(input.traces[i].steps, input.envelope)
    /\ ResultIsBound(input)

Refused == [verdict |-> "REFUSED"]

EvaluateSimulation(input) ==
    LET envelope == Canonical(input.envelope)
        suite == GenerateScenarioSuite(envelope.generation)
        found == [i \in DOMAIN suite |->
                    EvaluateScenario(suite[i], StepsFor(input.traces, suite[i].id), envelope)]
        violations == FlattenSeq(found)
    IN  IF ~Accepts(input) THEN Refused
        ELSE [verdict |-> IF violations = <<>> THEN "CLEAR" ELSE "HOLD",
              scenarios |-> [i \in DOMAIN suite |->
                  [id |-> suite[i].id, violations |-> Len(found[i]),
                   verdict |-> IF found[i] = <<>> THEN "CLEAR" ELSE "HOLD"]],
              violations |-> violations]
=============================================================================
