------------------------------ MODULE MCIssuance ------------------------------
(***************************************************************************)
(* One build, one evaluation, and two runs of the issuing script for one   *)
(* clearance id over three block timestamps.                               *)
(***************************************************************************)
EXTENDS Issuance

CONSTANTS a, b1, e1, x, y, k1, o1, o2
=============================================================================
