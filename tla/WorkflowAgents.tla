---------------------------- MODULE WorkflowAgents ----------------------------
(***************************************************************************)
(* One workflow from the query to the report, as its two language model    *)
(* agents see it.  Between them it is retrieved for, planned, judged and   *)
(* executed (modules Planning, Orchestration and ExecutionFlow): here that *)
(* is one step, which delivers any results and any evidence, or ends the   *)
(* workflow.                                                               *)
(*                                                                         *)
(* The thread may end between any two steps: the process stops, or an      *)
(* exception leaves the graph.  A failed write of the audit trail does     *)
(* that in the intent node, and does not in the analysis node.             *)
(***************************************************************************)
EXTENDS IntentAgent, ResultAnalysis

vars == <<sharedVars, intentVars, analysisVars>>

\* api/main.py wires an analyzer if and only if there is a key; a caller that
\* builds WorkflowDependencies may leave it out, or leave out its provider.
Init ==
    /\ configured \in BOOLEAN
    /\ analyzer \in {"none"} \cup (IF configured THEN {"agent_without_provider", "agent"} ELSE {})
    /\ pc = "intent"
    /\ status = "received"
    /\ runs = <<>>
    /\ IntentInit
    /\ AnalysisInit

Intents == IntentStep /\ UNCHANGED analysisVars

Analysis == AnalysisStep /\ UNCHANGED intentVars

\* Evidence names no document twice.
Evidences == {e \in UNION {[1 .. n -> Docs] : n \in 0 .. Cardinality(Docs)} :
                 \A i, j \in DOMAIN e : e[i] = e[j] => i = j}

Results == UNION {[ran -> {"passed", "failed"}] : ran \in (SUBSET Tests) \ {{}}}

Deliver ==
    /\ pc = "between"
    /\ results' \in Results
    /\ evidence' \in Evidences
    /\ status' = "results_collected"
    /\ pc' = "analysis"
    /\ UNCHANGED <<configured, runs, intentVars, analyzer, shown, report, verdict, saved>>

EndsEarly ==
    /\ pc = "between"
    /\ status' \in {"retrieval_failed", "rejected", "dry_run_complete", "execution_failed"}
    /\ pc' = "end"
    /\ UNCHANGED <<configured, runs, intentVars, analysisVars>>

Abandon ==
    /\ pc \notin {"end", "lost"}
    /\ pc' = "lost"
    /\ UNCHANGED <<configured, status, runs, intentVars, analysisVars>>

Next ==
    \/ Intents
    \/ Deliver
    \/ EndsEarly
    \/ Analysis
    \/ Abandon

\* The thread goes on until it ends or is lost, and a call of the provider
\* ends within its timeout.  Nothing is assumed of what it answers.
Spec == Init /\ [][Next]_vars /\ WF_vars(Analysis)

-----------------------------------------------------------------------------
(* Properties *)

Status == {"received", "intent_parsed", "needs_clarification", "results_collected",
           "retrieval_failed", "rejected", "dry_run_complete", "execution_failed",
           "analyzed", "fallback_summary"}

Outcome == [kind : {"none", "intent", "clarification"},
            values : [Fields -> {NoValue} \cup UNION {Values(f) : f \in Fields}],
            reason : {"none", "empty_query", "missing_fields", "unsupported_value",
                      "low_confidence", "provider_error", "invalid_output"},
            missing : SUBSET Fields, unsupported : SUBSET Fields,
            error : {"none", "validation", "ProviderTimeoutError", "ProviderNotConfiguredError",
                     "ProviderUnavailableError", "ProviderResponseError"}]

IsReport(r) ==
    /\ r.kind \in {"none", "ai_generated", "fallback"}
    /\ DOMAIN r.failures \in {1 .. n : n \in 0 .. MaxRows}
    /\ \A i \in DOMAIN r.failures : r.failures[i] \in Failure
    /\ r.insufficient \in BOOLEAN
    /\ r.observations \in {NoResults, results}

AgentsTypeOK ==
    /\ configured \in BOOLEAN
    /\ pc \in {"intent", "intent_record", "intent_advance", "between", "analysis",
               "analysis_ask", "analysis_record", "analysis_save", "analysis_advance", "end", "lost"}
    /\ status \in Status
    /\ payload \in Payloads \cup {NoPayload}
    /\ outcome \in Outcome
    /\ analyzer \in {"none", "agent_without_provider", "agent"}
    /\ results \in Results \cup {NoResults}
    /\ evidence \in Evidences
    /\ shown \subseteq Given
    /\ verdict \in {"none", "analyzed", "fallback_summary"}
    /\ IsReport(report)
    /\ \A i \in DOMAIN saved : IsReport(saved[i])
    /\ Len(runs) <= 2 /\ Len(saved) <= 1

\* The detail view tells what happened from three tables that are written one
\* after the other and in which a write may fail.  They agree: past the intent
\* there is the completed run of the intent agent with that very intent; a
\* workflow that was reported on has one report, and if a run of the analyzer
\* is on record, it is the one that made that report; and a report of the
\* provider is never without the completed run that found it, nor called a
\* fallback.
AuditMatchesReport ==
    /\ status \notin {"received", "needs_clarification"} =>
          \E i \in RunsOf("intent") :
             runs[i].status = "completed" /\ runs[i].output = outcome /\ outcome.kind = "intent"
    /\ status \in {"analyzed", "fallback_summary"} =>
          Len(saved) = 1 /\ \A i \in RunsOf("analysis") : runs[i].output = saved[1]
    /\ \A n \in DOMAIN saved : saved[n].kind = "ai_generated" =>
          /\ status # "fallback_summary"
          /\ \E i \in RunsOf("analysis") : runs[i].status = "completed" /\ runs[i].output = saved[n]

\* nodes.py:273: "An analysis failure never hides execution results": as long
\* as the thread lives, results get a report and a status that says so,
\* whatever is wired and however the provider, the checks and the audit fail.
AnalysisAlwaysReports ==
    pc = "analysis" ~> \/ pc = "lost"
                       \/ saved # <<>> /\ status \in {"analyzed", "fallback_summary"}

=============================================================================
