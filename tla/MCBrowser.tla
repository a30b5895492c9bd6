------------------------------- MODULE MCBrowser -------------------------------
(* Two accounts sharing one browser.                                       *)
EXTENDS Browser

CONSTANTS a, b, ta1, ta2, tb, p1, p2, w1, w2

OwnerOfToken == [token \in Tokens |-> IF token = tb THEN b ELSE a]
=============================================================================
