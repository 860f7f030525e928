------------------------- MODULE WorkflowLifecycle --------------------------
(***************************************************************************)
(* The documented state machine of a workflow: the statuses and the        *)
(* transition table of app/models/workflow.py.                             *)
(***************************************************************************)

TerminalStatus == {"needs_clarification", "retrieval_failed", "rejected",
                   "dry_run_complete", "execution_failed", "completed"}

WorkflowStatus == TerminalStatus \cup
    {"received", "intent_parsed", "evidence_retrieved", "plan_created",
     "execution_queued", "execution_running", "results_collected",
     "analyzed", "fallback_summary"}

AllowedTransitions ==
    [s \in WorkflowStatus |->
        CASE s = "received"           -> {"intent_parsed", "needs_clarification"}
          [] s = "intent_parsed"      -> {"evidence_retrieved", "retrieval_failed"}
          [] s = "evidence_retrieved" -> {"plan_created"}
          [] s = "plan_created"       -> {"rejected", "dry_run_complete", "execution_queued"}
          [] s = "execution_queued"   -> {"execution_running", "execution_failed"}
          [] s = "execution_running"  -> {"results_collected", "execution_failed"}
          [] s = "results_collected"  -> {"analyzed", "fallback_summary"}
          [] s = "analyzed"           -> {"completed"}
          [] s = "fallback_summary"   -> {"completed"}
          [] OTHER                    -> {}]

CanTransition(current, target) == target \in AllowedTransitions[current]

=============================================================================
