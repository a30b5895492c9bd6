---------------------------- MODULE ReleasePermit ----------------------------
(***************************************************************************)
(* What the release gate promises about a nonce, and nothing of how: a     *)
(* permit is issued once, with terms that never change, is used at most    *)
(* once, and at most one caller is ever told so, after it was used.  The   *)
(* caller may never be told (its answer is lost), and a permit may stay    *)
(* open for ever.                                                          *)
(***************************************************************************)
EXTENDS Naturals

CONSTANTS Nonces, Unissued  \* Unissued is not the terms of any permit

VARIABLES
    terms,     \* nonce -> what the permit allows, or Unissued
    used,      \* the nonces of used permits
    answered   \* nonce -> how many callers received the permit's authorization

permitVars == <<terms, used, answered>>

PermitInit ==
    /\ terms = [n \in Nonces |-> Unissued]
    /\ used = {}
    /\ answered = [n \in Nonces |-> 0]

\* The terms are free; they are those of terms' itself.
Issue(n) ==
    /\ terms[n] = Unissued
    /\ terms'[n] # Unissued
    /\ terms' = [terms EXCEPT ![n] = terms'[n]]
    /\ UNCHANGED <<used, answered>>

Use(n) ==
    /\ terms[n] # Unissued
    /\ n \notin used
    /\ used' = used \cup {n}
    /\ UNCHANGED <<terms, answered>>

Answer(n) ==
    /\ n \in used
    /\ answered[n] = 0
    /\ answered' = [answered EXCEPT ![n] = 1]
    /\ UNCHANGED <<terms, used>>

PermitNext == \E n \in Nonces : Issue(n) \/ Use(n) \/ Answer(n)

PermitSpec == PermitInit /\ [][PermitNext]_permitVars
=============================================================================
