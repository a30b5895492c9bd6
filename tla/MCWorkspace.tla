----------------------------- MODULE MCWorkspace -----------------------------
(***************************************************************************)
(* Two accounts in one browser, two sites to mix up, a route that ends on  *)
(* the border of the narrow warehouse and one that leaves it.              *)
(***************************************************************************)
EXTENDS Workspace, TLC

CONSTANTS a, b, p, t1, t2, t3, s1, s2, r1, r2, k1, k2, old, new, q1, q2

Interchangeable ==
    Permutations({a, b}) \cup Permutations({t1, t2}) \cup Permutations({s1, s2})
        \cup Permutations({r1, r2}) \cup Permutations({q1, q2}) \cup Permutations({old, new})
=============================================================================
