----------------------------- MODULE SitePolicy -------------------------------
(***************************************************************************)
(* What apps/api/src/application/store.ts feeds the evaluator with: the    *)
(* envelope createSite makes of a site's safety policy, the routes the     *)
(* creation of a build accepts under it, and the traces it derives.        *)
(***************************************************************************)
EXTENDS Evaluator

CONSTANT MinSide   \* shortest side of a warehouse, 1000 mm in the source

\* parsePolicy; speeds and the threshold are within the evaluator's ranges.
IsPolicy(p) ==
    /\ p.width >= MinSide /\ p.height >= MinSide
    /\ p.zone.minX \in 0..p.width - 1 /\ p.zone.maxX \in 1..p.width
    /\ p.zone.minY \in 0..p.height - 1 /\ p.zone.maxY \in 1..p.height
    /\ IsRectangle(p.zone)
    /\ p.maximumSpeed >= 1 /\ p.zoneSpeed >= 1

\* Scenarios in code-unit order, and the zone.
HEAVY_PAYLOAD_ROUTE == 1
HUMAN_ZONE_SPEED == 2
RESTRICTED_ROUTE == 3
RESTRICTED == 1

\* The one bits of a number below 2^31.
Bits(n) == {i \in 0..30 : (n \div 2^i) % 2 = 1}

SEED == Bits(1592594996)

\* buildEnvelope; rule ids are numbered payload-zone, restricted-zone,
\* site-speed, zone-speed.
BuildEnvelope(p) ==
    [bounds |-> [minX |-> 0, minY |-> 0, maxX |-> p.width, maxY |-> p.height],
     zones  |-> <<[id |-> RESTRICTED, bounds |-> p.zone]>>,
     rules  |-> <<[id |-> 2, type |-> "restricted-zone", zone |-> RESTRICTED],
                  [id |-> 3, type |-> "site-speed-limit", limit |-> p.maximumSpeed],
                  [id |-> 4, type |-> "zone-speed-limit", zone |-> RESTRICTED,
                   limit |-> p.zoneSpeed],
                  [id |-> 1, type |-> "payload-zone-restriction", zone |-> RESTRICTED,
                   limit |-> p.threshold]>>,
     generation |->
        [seed |-> SEED,
         templates |-> <<[id |-> RESTRICTED_ROUTE, base |-> 20000, variation |-> 500],
                         [id |-> HUMAN_ZONE_SPEED, base |-> 25000, variation |-> 500],
                         [id |-> HEAVY_PAYLOAD_ROUTE, base |-> 50000, variation |-> 500]>>]]

\* #parseBuildCreationInput against the decrypted envelope.
AcceptsRoute(p, route) ==
    LET bounds == BuildEnvelope(p).bounds
    IN  PointInside(route.start, bounds) /\ PointInside(route.end, bounds)

\* buildTraceSuite: the same two steps for every scenario.
TraceSuite(route) ==
    [i \in 1..3 |->
        [id |-> <<RESTRICTED_ROUTE, HUMAN_ZONE_SPEED, HEAVY_PAYLOAD_ROUTE>>[i],
         steps |-> <<[position |-> route.start, speed |-> 0],
                     [position |-> route.end, speed |-> route.speed]>>]]

\* The input that evaluateBuild's request and the site's secret amount to.
StoredInput(p, route, build, blind) ==
    [request |-> [build |-> build, commitment |-> Commitment(BuildEnvelope(p), blind),
                  requestedAt |-> 0],
     build |-> build, tracedBuild |-> build,
     envelope |-> BuildEnvelope(p), blind |-> blind,
     traces |-> TraceSuite(route), evaluatedAt |-> 0]
=============================================================================
