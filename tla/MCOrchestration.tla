-------------------------- MODULE MCOrchestration ---------------------------
(* Small instances of Orchestration.  Workflows share no row, so one shows *)
(* everything one thread can do, and two that they do not interfere.       *)
EXTENDS Orchestration

CONSTANTS w1, w2

OneWorkflow == {w1}
TwoWorkflows == {w1, w2}

=============================================================================
