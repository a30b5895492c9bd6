------------------------------ MODULE MCRegistry ------------------------------
(***************************************************************************)
(* The registry and its event index.  Calldata compete for a digest and an *)
(* id, start later, expire at different times, or are refused: a zero      *)
(* binding, or an expiry after MaxProtocolTimestamp.  The document is the  *)
(* first of them under the first digest.                                   *)
(***************************************************************************)
EXTENDS Subgraph

CONSTANTS o, a, d1, d2, i1, i2, c1, c2, s1, x1, x2, n1

ClearedBindings == [id |-> i1, content |-> c1, issuedAt |-> 0, expiresAt |-> 2]

CompetingCalldata ==
    { ClearedBindings,
      [ClearedBindings EXCEPT !.id = i2],
      [ClearedBindings EXCEPT !.content = c2, !.expiresAt = 3],
      [ClearedBindings EXCEPT !.issuedAt = 1, !.expiresAt = 3],
      [ClearedBindings EXCEPT !.issuedAt = 2],
      [ClearedBindings EXCEPT !.expiresAt = 4],
      [ClearedBindings EXCEPT !.id = Zero],
      [ClearedBindings EXCEPT !.content = Zero] }

OneDocument == {[digest |-> d1, bindings |-> ClearedBindings]}
=============================================================================
