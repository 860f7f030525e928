--------------------------- MODULE Orchestration ----------------------------
(***************************************************************************)
(* The workflow graph (app/orchestration): WorkflowRunner.run creates the  *)
(* record and invokes the graph, whose nodes call the agents and advance   *)
(* the status.  Each workflow runs from start to end on the thread of the  *)
(* request that created it, and only that thread writes its status, so a   *)
(* thread and its workflow are one here.                                   *)
(*                                                                         *)
(* position[w] says where the thread of w stands: in which node, and there *)
(*   "body"    about to do the node's own work                             *)
(*   "update"  about to write position[w].target to workflows.status       *)
(*   "event"   about to append it to workflow_events                       *)
(*   "wait"    inside ExecutionAgent.execute                               *)
(* "update" and "event" are the two transactions of _advance.              *)
(*                                                                         *)
(* What the agents decide is nondeterministic; what the execution agent    *)
(* and the cancel route do to the execution is ExecutionContract, which    *)
(* ExecutionFlow implements.  A thread may end anywhere between two steps: *)
(* the process stops, or an exception no node catches (a locked database,  *)
(* a row that fails validation) leaves the graph.  Nothing resumes it.     *)
(***************************************************************************)
EXTENDS Naturals, Sequences

CONSTANT Workflows

VARIABLES
    status,     \* workflows.status, "absent" before the INSERT
    dryRun,     \* workflows.dry_run
    timeline,   \* the statuses of the workflow's rows in workflow_events
    position,   \* where the thread of the workflow stands
    policy,     \* verdict of the policy service on the plan, "none" before
    report,     \* status of the row in analysis_reports, "none" before
    busy, outcome, row, results   \* the execution, see ExecutionContract

executionVars == <<busy, outcome, row, results>>
vars == <<status, dryRun, timeline, position, policy, report, executionVars>>

Lifecycle == INSTANCE WorkflowLifecycle
Execution == INSTANCE ExecutionContract

WorkflowStatus == Lifecycle!WorkflowStatus
IsTerminal(s) == s \in Lifecycle!TerminalStatus

Nodes == {"start", "intent", "retrieval", "planning", "rejection", "dry_run",
          "execution", "analysis", "completion"}
Phases == {"body", "update", "event", "wait"}
NoTarget == "none"

Position == [node : Nodes, phase : Phases, target : WorkflowStatus \cup {NoTarget}]
            \cup [node : {"none", "end", "lost"}, phase : {"body"}, target : {NoTarget}]

Enter(node) == [node |-> node, phase |-> "body", target |-> NoTarget]
At(w, node, phase) == position[w].node = node /\ position[w].phase = phase

Init ==
    /\ status   = [w \in Workflows |-> "absent"]
    /\ dryRun   = [w \in Workflows |-> FALSE]
    /\ timeline = [w \in Workflows |-> <<>>]
    /\ position = [w \in Workflows |-> Enter("none")]
    /\ policy   = [w \in Workflows |-> "none"]
    /\ report   = [w \in Workflows |-> "none"]
    /\ Execution!Init

-----------------------------------------------------------------------------
(* Routing: graph.py *)

RouteAfterIntent(s) == IF s = "needs_clarification" THEN "end" ELSE "retrieval"

RouteAfterRetrieval(s) == IF s = "retrieval_failed" THEN "end" ELSE "planning"

BadRouteIgnoresDryRun(verdict, dry) ==
    IF verdict # "allowed" THEN "rejection" ELSE "execution"

RouteAfterPlanning(verdict, dry) ==
    CASE verdict # "allowed" -> "rejection"
      [] dry                 -> "dry_run"
      [] OTHER               -> "execution"

RouteAfterExecution(s) == IF s = "execution_failed" THEN "end" ELSE "analysis"

BadNextNode(w, s) ==
    CASE position[w].node = "start"     -> "intent"
      [] position[w].node = "intent"    -> RouteAfterIntent(s)
      [] position[w].node = "retrieval" -> RouteAfterRetrieval(s)
      [] position[w].node = "planning"  -> RouteAfterPlanning(policy[w], dryRun[w])
      [] position[w].node = "execution" -> RouteAfterExecution(s)
      [] OTHER                          -> "end"

(* The node whose turn it is when node w stood in has returned, its last   *)
(* advance having been to s.                                               *)
NextNode(w, s) ==
    CASE position[w].node = "start"     -> "intent"
      [] position[w].node = "intent"    -> RouteAfterIntent(s)
      [] position[w].node = "retrieval" -> RouteAfterRetrieval(s)
      [] position[w].node = "planning"  -> RouteAfterPlanning(policy[w], dryRun[w])
      [] position[w].node = "execution" -> RouteAfterExecution(s)
      [] position[w].node = "analysis"  -> "completion"
      [] OTHER                          -> "end"

-----------------------------------------------------------------------------
(* _advance *)

Advance(w, target) ==
    position' = [position EXCEPT ![w].phase = "update", ![w].target = target]

(* WorkflowRepository.update_status reads, checks and writes; nobody else  *)
(* writes this row.  A transition the table does not have is an exception  *)
(* no node catches.                                                        *)
UpdateStatus(w) ==
    /\ position[w].phase = "update"
    /\ IF Lifecycle!CanTransition(status[w], position[w].target)
       THEN /\ status' = [status EXCEPT ![w] = position[w].target]
            /\ position' = [position EXCEPT ![w].phase = "event"]
       ELSE /\ position' = [position EXCEPT ![w] = Enter("lost")]
            /\ UNCHANGED status
    /\ UNCHANGED <<dryRun, timeline, policy, report, executionVars>>

(* What the thread does when an advance is complete.  The execution node   *)
(* advances twice before it calls its agent; every other node returns.     *)
AfterAdvance(w) ==
    LET s == position[w].target IN
    CASE s = "execution_queued"  -> [node |-> "execution", phase |-> "update",
                                     target |-> "execution_running"]
      [] s = "execution_running" -> Enter("execution")
      [] OTHER                   -> Enter(NextNode(w, s))

BadRecordEventSkipsRunning(w) ==
    /\ position[w].phase = "event"
    /\ timeline' = IF position[w].target = "execution_running" THEN timeline
                   ELSE [timeline EXCEPT ![w] = Append(@, position[w].target)]
    /\ position' = [position EXCEPT ![w] = AfterAdvance(w)]
    /\ UNCHANGED <<status, dryRun, policy, report, executionVars>>

RecordEvent(w) ==
    /\ position[w].phase = "event"
    /\ timeline' = [timeline EXCEPT ![w] = Append(@, position[w].target)]
    /\ position' = [position EXCEPT ![w] = AfterAdvance(w)]
    /\ UNCHANGED <<status, dryRun, policy, report, executionVars>>

-----------------------------------------------------------------------------
(* WorkflowRunner.run, and the nodes of nodes.py *)

(* The record is created, and its first event is written separately. *)
Create(w) ==
    /\ position[w].node = "none"
    /\ status' = [status EXCEPT ![w] = "received"]
    /\ \E dry \in BOOLEAN : dryRun' = [dryRun EXCEPT ![w] = dry]
    /\ position' = [position EXCEPT ![w] =
                      [node |-> "start", phase |-> "event", target |-> "received"]]
    /\ UNCHANGED <<timeline, policy, report, executionVars>>

IntentNode(w) ==
    /\ At(w, "intent", "body")
    /\ \E s \in {"intent_parsed", "needs_clarification"} : Advance(w, s)
    /\ UNCHANGED <<status, dryRun, timeline, policy, report, executionVars>>

RetrievalNode(w) ==
    /\ At(w, "retrieval", "body")
    /\ \E s \in {"evidence_retrieved", "retrieval_failed"} : Advance(w, s)
    /\ UNCHANGED <<status, dryRun, timeline, policy, report, executionVars>>

PlanningNode(w) ==
    /\ At(w, "planning", "body")
    /\ \E verdict \in {"allowed", "blocked"} : policy' = [policy EXCEPT ![w] = verdict]
    /\ Advance(w, "plan_created")
    /\ UNCHANGED <<status, dryRun, timeline, report, executionVars>>

RejectionNode(w) ==
    /\ At(w, "rejection", "body")
    /\ Advance(w, "rejected")
    /\ UNCHANGED <<status, dryRun, timeline, policy, report, executionVars>>

DryRunNode(w) ==
    /\ At(w, "dry_run", "body")
    /\ Advance(w, "dry_run_complete")
    /\ UNCHANGED <<status, dryRun, timeline, policy, report, executionVars>>

BadQueueSkipsQueued(w) ==
    /\ At(w, "execution", "body")
    /\ status[w] = "plan_created"
    /\ Advance(w, "execution_running")
    /\ UNCHANGED <<status, dryRun, timeline, policy, report, executionVars>>

(* execution_node begins with EXECUTION_QUEUED and EXECUTION_RUNNING, both *)
(* written before the agent is called.                                     *)
QueueExecution(w) ==
    /\ At(w, "execution", "body")
    /\ status[w] = "plan_created"
    /\ Advance(w, "execution_queued")
    /\ UNCHANGED <<status, dryRun, timeline, policy, report, executionVars>>

CallAgent(w) ==
    /\ At(w, "execution", "body")
    /\ status[w] = "execution_running"
    /\ Execution!Attempt(w)
    /\ position' = [position EXCEPT ![w].phase = "wait"]
    /\ UNCHANGED <<status, dryRun, timeline, policy, report>>

(* The agent at work, inside execute. *)
AgentWorks(w) ==
    /\ At(w, "execution", "wait")
    /\ Execution!Open(w) \/ Execution!Store(w)
    /\ UNCHANGED <<status, dryRun, timeline, position, policy, report>>

BadExecutionTarget(ending) ==
    IF ending \in {"error", "failed"} THEN "execution_failed" ELSE "results_collected"

BadExecutionTargetName(ending) == ending

(* Whatever execute raised or returned, only a completed execution counts. *)
ExecutionTarget(ending) ==
    IF ending = "completed" THEN "results_collected" ELSE "execution_failed"

AgentReturns(w) ==
    /\ At(w, "execution", "wait")
    /\ Execution!Finish(w)
    /\ Advance(w, ExecutionTarget(outcome'[w]))
    /\ UNCHANGED <<status, dryRun, timeline, policy, report>>

(* The analyzer is missing or raises: fallback report, FALLBACK_SUMMARY.   *)
(* It returns a report, which is a fallback of its own when its provider   *)
(* failed or its output was not grounded: ANALYZED.  save_report comes     *)
(* before the advance.                                                     *)
AnalysisNode(w) ==
    /\ At(w, "analysis", "body")
    /\ \/ /\ report' = [report EXCEPT ![w] = "fallback"]
          /\ Advance(w, "fallback_summary")
       \/ /\ \E kind \in {"ai_generated", "fallback"} : report' = [report EXCEPT ![w] = kind]
          /\ Advance(w, "analyzed")
    /\ UNCHANGED <<status, dryRun, timeline, policy, executionVars>>

CompletionNode(w) ==
    /\ At(w, "completion", "body")
    /\ Advance(w, "completed")
    /\ UNCHANGED <<status, dryRun, timeline, policy, report, executionVars>>

-----------------------------------------------------------------------------
(* From outside the graph *)

(* POST /workflows/{id}/cancel reaches the execution, never the status. *)
CancelExecution(w) ==
    /\ Execution!Cancel(w)
    /\ UNCHANGED <<status, dryRun, timeline, position, policy, report>>

(* The thread ends here, by an uncaught exception or with the process. *)
Abandon(w) ==
    /\ position[w].node \in Nodes
    /\ position' = [position EXCEPT ![w] = Enter("lost")]
    /\ IF busy[w] THEN Execution!Lose({w}) \/ Execution!LoseVerdict(w)
                  ELSE UNCHANGED executionVars
    /\ UNCHANGED <<status, dryRun, timeline, policy, report>>

ThreadStep(w) ==
    \/ UpdateStatus(w)
    \/ RecordEvent(w)
    \/ IntentNode(w)
    \/ RetrievalNode(w)
    \/ PlanningNode(w)
    \/ RejectionNode(w)
    \/ DryRunNode(w)
    \/ QueueExecution(w)
    \/ CallAgent(w)
    \/ AgentReturns(w)
    \/ AnalysisNode(w)
    \/ CompletionNode(w)

Next ==
    \E w \in Workflows :
        \/ Create(w)
        \/ ThreadStep(w)
        \/ AgentWorks(w)
        \/ CancelExecution(w)
        \/ Abandon(w)

(* A thread that runs keeps running: its own steps never wait for anybody, *)
(* and execute returns (AttemptEnds of ExecutionFlow).                     *)
Fairness == \A w \in Workflows : WF_vars(ThreadStep(w))

Spec == Init /\ [][Next]_vars /\ Fairness

-----------------------------------------------------------------------------
(***************************************************************************)
(* Properties                                                              *)
(***************************************************************************)

TypeOK ==
    /\ status   \in [Workflows -> WorkflowStatus \cup {"absent"}]
    /\ dryRun   \in [Workflows -> BOOLEAN]
    /\ timeline \in [Workflows -> Seq(WorkflowStatus)]
    /\ position \in [Workflows -> Position]
    /\ policy   \in [Workflows -> {"none", "allowed", "blocked"}]
    /\ report   \in [Workflows -> {"none", "ai_generated", "fallback"}]
    /\ busy     \in [Workflows -> BOOLEAN]
    /\ outcome  \in [Workflows -> {"none", "error", "lost", "queued"} \cup Execution!Verdicts]
    /\ row      \in [Workflows -> {"none", "queued"} \cup Execution!Verdicts]
    /\ results  \in [Workflows -> 0 .. 1]

(* The graph and the transition table agree: no thread is ever stopped by  *)
(* update_status refusing the advance its node asks for.                   *)
NoIllegalAdvance ==
    \A w \in Workflows :
        position[w].phase = "update" =>
            Lifecycle!CanTransition(status[w], position[w].target)

(* docs/workflow.md, invariant 4 and "Dry-run behavior": an execution      *)
(* exists, or is being attempted, only for a workflow that is no dry run,  *)
(* whose plan the policy allowed, and whose retrieval and planning are on  *)
(* record before its execution.                                            *)
ExecutionOnlyWhenCleared ==
    \A w \in Workflows :
        busy[w] \/ row[w] # "none" \/ results[w] > 0 =>
            /\ policy[w] = "allowed"
            /\ ~dryRun[w]
            /\ \E e, p, q \in DOMAIN timeline[w] :
                  /\ e < p /\ p < q
                  /\ timeline[w][e] = "evidence_retrieved"
                  /\ timeline[w][p] = "plan_created"
                  /\ timeline[w][q] = "execution_running"

(* The timeline is the history of the status: a path of the transition     *)
(* table from "received" that ends at the status, or one step before it    *)
(* while the thread is between the two writes of _advance or ended there.  *)
LastEvent(w) == timeline[w][Len(timeline[w])]

TimelineTracksStatus ==
    \A w \in Workflows :
        /\ timeline[w] # <<>> => timeline[w][1] = "received"
        /\ \A i \in 1 .. Len(timeline[w]) - 1 :
              Lifecycle!CanTransition(timeline[w][i], timeline[w][i + 1])
        /\ IF position[w].phase = "event" \/ position[w].node = "lost"
           THEN IF timeline[w] = <<>> THEN status[w] = "received"
                ELSE \/ LastEvent(w) = status[w]
                     \/ Lifecycle!CanTransition(LastEvent(w), status[w])
           ELSE IF timeline[w] = <<>> THEN status[w] = "absent"
                ELSE LastEvent(w) = status[w]

(* docs/workflow.md, invariants 5 and 6: results that were collected are   *)
(* stored and stay stored whatever happens to the analysis, a report is    *)
(* only ever about stored results, and a workflow that reads completed has *)
(* both.                                                                   *)
CompletedIsBacked ==
    \A w \in Workflows :
        /\ status[w] \in {"results_collected", "analyzed", "fallback_summary", "completed"}
              => results[w] = 1 /\ outcome[w] = "completed"
        /\ status[w] \in {"analyzed", "fallback_summary", "completed"} => report[w] # "none"
        /\ report[w] # "none" => results[w] = 1
        /\ status[w] = "execution_failed" => report[w] = "none"

(* A workflow whose thread survives reaches a terminal status and has its  *)
(* terminal event on record.                                               *)
WorkflowEnds ==
    \A w \in Workflows :
        position[w].node \in Nodes ~>
            \/ position[w].node = "lost"
            \/ /\ position[w].node = "end"
               /\ IsTerminal(status[w])
               /\ LastEvent(w) = status[w]

=============================================================================
