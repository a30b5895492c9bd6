---------------------------- MODULE MCReleaseGate ----------------------------
(***************************************************************************)
(* An instance of the release gate.  The two documents share one clearance *)
(* id: `cleared`, and an `amended` copy with other contents and window,    *)
(* which the registry may hold in its place, or whose bindings it may hold *)
(* under the digest of the first (the contract cannot check a digest).     *)
(***************************************************************************)
EXTENDS ReleaseGate

CONSTANTS o, d1, d2, i1, c1, c2, s1, s2, t1, t2, n1, n2, r1, r2

ClearedBindings == [id |-> i1, content |-> c1, issuedAt |-> 0, expiresAt |-> 3]
AmendedBindings == [id |-> i1, content |-> c2, issuedAt |-> 1, expiresAt |-> 4]

cleared == [digest |-> d1, bindings |-> ClearedBindings]
amended == [digest |-> d2, bindings |-> AmendedBindings]

TwoDocuments == {cleared, amended}
BothCalldata == {ClearedBindings, AmendedBindings}
=============================================================================
