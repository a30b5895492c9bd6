---------------------------- MODULE MCOperatorPage ----------------------------
(* Two requests of one signer, two devices, two adapters of one page instance.            *)
EXTENDS OperatorPage, TLC

CONSTANTS p1, p2, e1, e2, k1, k2

SameSigner == [p \in {p1, p2} |-> e1]

Interchangeable == Permutations({p1, p2}) \cup Permutations({k1, k2})

SomeRuntimes ==
    {[kind |-> "webhid", url |-> "LOOPBACK", environment |-> "production"],
     [kind |-> "speculos", url |-> "REMOTE", environment |-> "test"],
     [kind |-> "speculos", url |-> "LOOPBACK", environment |-> "production"]}
=============================================================================
