--------------------------- MODULE MCBuildPipeline ---------------------------
(***************************************************************************)
(* Two builds of two accounts with a quota of one: an account can be at    *)
(* its quota, by a running job or by a row a restart left BUILDING.        *)
(***************************************************************************)
EXTENDS BuildPipeline

CONSTANTS a1, a2, b1, b2, x, y
=============================================================================
