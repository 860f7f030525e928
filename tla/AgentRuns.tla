------------------------------ MODULE AgentRuns -------------------------------
(***************************************************************************)
(* What the two agents that ask a language model share: the provider       *)
(* (app/llm), the table agent_runs, and the thread of the workflow that    *)
(* calls one after the other (app/orchestration/nodes.py).                 *)
(*                                                                         *)
(* One workflow is modelled: agents keep no state of their own, and no two *)
(* workflows share a row.  pc is where its thread stands.                  *)
(***************************************************************************)
EXTENDS Integers, Sequences, FiniteSets

VARIABLES
    configured,  \* OPENAI_API_KEY is set, so the provider is no NullProvider
    pc,          \* where the thread of the workflow is
    status,      \* workflows.status
    runs         \* the rows of the workflow in agent_runs, in insertion order

sharedVars == <<configured, pc, status, runs>>

-----------------------------------------------------------------------------
(* The provider.  A call ends within its timeout, in one of these ways, or *)
(* with a JSON object.                                                     *)
BrokenReplies == {"timeout", "transport", "no_content", "truncated", "empty",
                  "malformed", "not_object"}

\* OpenAIProvider._call and _parse_content: the ProviderError that is raised
ErrorFor(reply) ==
    CASE reply = "timeout"   -> "ProviderTimeoutError"
      [] reply = "transport" -> "ProviderUnavailableError"
      [] OTHER               -> "ProviderResponseError"

\* What extract_structured can raise; NullProvider raises nothing else.
ProviderErrors ==
    IF configured THEN {ErrorFor(reply) : reply \in BrokenReplies}
    ELSE {"ProviderNotConfiguredError"}

-----------------------------------------------------------------------------
(* The audit trail *)

\* WorkflowRepository.record_agent_run, one transaction
RecordRun(agent, runStatus, output, error) ==
    runs' = Append(runs, [agent |-> agent, status |-> runStatus,
                          output |-> output, error |-> error])

RunsOf(agent) == {i \in DOMAIN runs : runs[i].agent = agent}

=============================================================================
