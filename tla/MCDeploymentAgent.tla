-------------------------- MODULE MCDeploymentAgent --------------------------
(* Instances of the deployment agent over one clearance document.          *)
EXTENDS DeploymentAgent

CONSTANTS o, d1, i1, c1, s1, s2, t1, t2, n1, n2, r1, a1, a2, x1

ClearedBindings == [id |-> i1, content |-> c1, issuedAt |-> 0, expiresAt |-> 2]
cleared == [digest |-> d1, bindings |-> ClearedBindings]

OneDocument == {cleared}
OneCalldata == {ClearedBindings}
=============================================================================
