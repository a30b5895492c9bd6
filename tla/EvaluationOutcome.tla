-------------------------- MODULE EvaluationOutcome ---------------------------
(***************************************************************************)
(* What the evaluation part of the store promises: an evaluation is        *)
(* requested at most once, and once it is completed or rejected that       *)
(* outcome is final.  A request may be dropped before it has an outcome    *)
(* and then never gets one.                                                *)
(***************************************************************************)
CONSTANTS
    EvaluationIds,
    Records,      \* what a completed evaluation may hold
    Rejections    \* what a rejected evaluation may hold

VARIABLE outcome

Requested(e) == outcome[e].state = "PENDING"

OutcomeInit == outcome = [e \in EvaluationIds |-> [state |-> "NONE"]]

RequestOutcome(e) ==
    /\ outcome[e].state = "NONE"
    /\ outcome' = [outcome EXCEPT ![e] = [state |-> "PENDING"]]

Complete(e, record) ==
    /\ Requested(e)
    /\ outcome' = [outcome EXCEPT ![e] = [state |-> "COMPLETED", record |-> record]]

Reject(e, code) ==
    /\ Requested(e)
    /\ outcome' = [outcome EXCEPT ![e] = [state |-> "REJECTED", code |-> code]]

Drop(e) ==
    /\ Requested(e)
    /\ outcome' = [outcome EXCEPT ![e] = [state |-> "DROPPED"]]

OutcomeNext ==
    \E e \in EvaluationIds :
        \/ RequestOutcome(e)
        \/ \E record \in Records : Complete(e, record)
        \/ \E code \in Rejections : Reject(e, code)
        \/ Drop(e)

OutcomeSpec == OutcomeInit /\ [][OutcomeNext]_outcome
=============================================================================
