-------------------------- MODULE MCExecutionFlow ---------------------------
(* Small instances of ExecutionFlow. *)
EXTENDS ExecutionFlow

CONSTANTS w1, c1, x

OneWorkflow == {w1}
OneClient == {c1}

OneAndOne == OneWorkflow \cup OneClient
OneRequest == OneWorkflow \cup {x}

AllRoutes == Routes
CancelOnly == {"cancel_workflow"}

=============================================================================
