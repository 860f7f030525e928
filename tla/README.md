# Test Trigger: a verification project

Test Trigger turns a test request in natural language into a validated plan,
executes it on a simulated CI service and analyses the results. This directory
holds TLA+ modules of its core, the TLC configurations that check them on small
instances, and proofs for the TLA+ proof system (TLAPS) that hold for every
instance. Paths below are relative to the repository.

The program is one Python process: FastAPI runs the routes, which are plain
functions, on a pool of threads; LangGraph runs a workflow from its first node
to its last on the thread of the request that created it; SQLite is reached
through repositories that open a connection and one transaction per call; the
CI service is an object in memory that all threads share without a lock. What
is hard to get right here, and hard to test, is what happens between two of
those calls.

Contents: [1 inventory](#1-inventory), [2 modules](#2-modules-and-the-code-they-model),
[3 runs](#3-the-runs), [4 fairness](#4-fairness), [5 proofs](#5-proofs),
[6 disagreements](#6-where-the-code-and-its-text-disagree),
[7 assumptions](#7-assumptions-and-abstractions), [8 plan](#8-plan).

## 1. Inventory

| Component | State it keeps | Operations | Talks to |
|---|---|---|---|
| Workflow API (`app/api/routes.py`, `service.py`, `errors.py`, `schemas.py`) | none of its own; reads and writes `workflows` | create (with or without `Idempotency-Key`), get, events, cancel, health | repositories, runner, execution agent |
| Workflow orchestration (`app/orchestration/`) | `workflows.status`, `workflow_events`, plan, report; the LangGraph state on the thread | the nodes of the graph, `_advance`, routing | agents by call, repositories |
| Intent agent (`app/agents/intent.py`, `normalization.py`) | none; writes `agent_runs` | `parse_intent`, normalisation, clarification | LLM provider, repositories |
| Retrieval agent (`app/agents/retrieval.py`) | vector store (read) | one query per document type, filters, context budget | embedding provider, Chroma |
| Planner, risk score, policy (`app/services/`) | `test_plans`, `policy_results` | select, score, order, evaluate | catalogue, evidence |
| Execution agent (`app/agents/execution.py`) | `executions`, `test_results` | `execute`, `_collect`, `cancel` | CI service, repositories |
| Mock Jenkins service (`app/integrations/mock_jenkins.py`) | jobs and a counter, in memory | `submit`, `get`, `advance`, `run_to_completion`, `cancel` | nobody; called by agent and `/jobs` |
| `/jobs` routes (`app/api/jenkins_routes.py`) | none | submit, get, advance, cancel | the same CI service instance |
| Result analysis (`app/agents/analysis.py`) | none; writes `agent_runs`, and `analysis_node` writes `analysis_reports` | `analyze`, evidence budget, grounding, fallback | LLM provider, repositories |
| Process start (`app/api/main.py`) | none | builds the collaborators, numbers the CI service | database |
| Database layer (`app/db/`) | the SQLite file | one transaction per repository call, UNIQUE and primary keys | SQLite |
| Browser client (`frontend/app.js`) | the page, the busy button | submit, render, details, health badge | Workflow API |
| LLM provider (`app/llm/`) | none | `extract_structured`, schemas, typed errors | OpenAI |
| knowledge ingestion, evaluation, configuration, logging, command line client | | | external services, files |

How they interact. A `POST /workflows` request looks its key up, counts the
rows, inserts its own, and calls the graph; the graph calls intent, retrieval,
planning, execution and analysis in turn and persists each result before it
advances the status; the answer maps the final status to a code. Meanwhile other
requests read the workflow, cancel its execution, or move its job through
`/jobs`. When the process ends, the database stays and everything else is gone;
nothing resumes a workflow.

What makes each component correct, and which property says so:

- *CI service*: a job keeps its lifecycle, has its results when it reads
  completed, and its number is nobody else's; a run to completion returns.
- *Execution agent*: one job per plan per process however often it is retried,
  unless recording the job raised; an attempt ends, reports completed only with
  stored results, and leaves no row behind that says queued and that nobody works
  on, unless its thread is lost; recorded numbers stay fresh over restarts.
- *Orchestration*: the graph never asks for a move the transition table refuses;
  nothing executes without an allowed plan; the timeline is the history of the
  status; a completed workflow has results and a report; every workflow whose
  thread survives ends.
- *Workflow API*: a key names one workflow, an answer is about the request it
  answers, numbers have no gap, a snapshot that says completed is complete.
- *Retrieval, planner, risk, policy*: the evidence fits intent and budget, the
  plan passes the policy's checks of its tests, its order is the order of risk,
  more history never lowers a risk, and a rule that forbids the request is lost
  to a limit only.
- *Intent*: an intent has no value the provider's text does not name in that very
  field; the client is told exactly which fields are open (all four, if the
  confidence of the answer is no probability and it was thrown away); the schema
  the provider answers to and the normaliser behind it do not contradict each other.
- *Analysis*: a report claims causes of failed tests only, and cites only evidence
  that was shown; a saved report fits the status and the runs on record, however
  writes fail; results get a report as long as the thread lives.
- *Browser client*: each bubble is about its own workflow; where it says that
  nothing was run, or shows an outcome or parts of it, that is so (except for one
  text, section 6); no submission hangs, no workflow goes unaccounted for.

The hard behaviours are listed one by one, at their lines, under `hazards` in
`PROJECT.json`, each with the properties that would catch it going wrong.

## 2. Modules and the code they model

```
JobLifecycle         WorkflowLifecycle      ExecutionContract      abstract
    ^                    ^                  ^     ^
    | implemented by     | its table        |     | implemented by
    | (lone caller)      |                  |     |
    |                Orchestration ---------+     |                detailed
MockJenkins <-EXTENDS- ExecutionFlow -------------+

AgentRuns <-EXTENDS- IntentAgent, ResultAnalysis <-EXTENDS- WorkflowAgents
WorkflowApi <-EXTENDS- ChatClient
Planning

X_proofs EXTENDS X, for MockJenkins, ExecutionFlow (which cites the proofs of
MockJenkins), Orchestration, WorkflowApi, ChatClient (which cites the proofs of
WorkflowApi), WorkflowAgents, Planning
FiniteOrders: lemmas for the proofs of ExecutionFlow and Planning
```

- **JobLifecycle** is the statuses and the transition table of
  `app/models/execution.py` as a specification: a job is created and then makes
  moves of the table. **WorkflowLifecycle** is only the statuses and the table of
  `app/models/workflow.py`. That the stored status moves along the table is no
  property: `update_status` refuses everything else. What matters is that the
  graph never asks for a move that is refused (`NoIllegalAdvance`).
- **ExecutionContract** is what the execution agent promises the orchestration
  about one plan: attempts, the row, the results, cancellation, and loss, before a
  verdict (`Lose`) or right after it was written (`LoseVerdict`). It is
  where the two detailed models meet: ExecutionFlow implements it (checked), and
  Orchestration is built on its actions instead of on the agent's code. Its
  verdict `running` looks odd and is real: the copy of a job that
  `run_to_completion` returns may have been moved by another thread after the
  loop saw it finished.
- **MockJenkins** is the CI service. A method is as many actions as it has
  accesses to the job that are separated by a call of a Python function, because
  the interpreter may switch threads there: `advance` is `Advance`, `Simulate`,
  `Check`, `Set`, `Copy`; `_transition` is `Check` and `Set`. `call[t].pc` is the
  place of thread `t` inside the service. `submit` is one step. The mode is the
  constructor's fault option, fixed per process.
- **ExecutionFlow** extends it with the execution agent, the `executions` and
  `test_results` tables, the cancel route, the `/jobs` routes and the restart of
  the process. Each repository call is a step. `agent[w].pc` follows `execute`
  and `_collect`: `lookup`, `submit`, `record`, `collect`, then `results` and
  `status`, or `failed`. `Restart` empties the service and numbers it from
  `next_external_job_number`. Any of the repository calls may raise (a lock that
  times out), if `MayRaise`: `execute` catches `IntegrityError` only, the graph
  the agent's own exceptions only, so this ends the thread of the attempt with
  what it had written by then. `RecordExecutionRaises` is `create_execution`,
  which leaves a job no row names (`orphans`); `RepositoryRaises` is every other
  call on the tables, which leaves a row nobody drives (`deserted`) if there is
  one; `AgentReturnsAudited` is the audit row, written after everything else. The
  two sets are history and decide nothing but the bound.
- **Orchestration** is the graph: the nodes, the edges (`NextNode` and the
  `RouteAfter` operators are `graph.py`), and `_advance` as its two transactions
  `UpdateStatus` and `RecordEvent`. What the agents decide is nondeterministic.
  `Abandon` ends a thread anywhere.
- **WorkflowApi** is the routes that create and read workflows. The three
  transactions of a creation (`Lookup`, `Count`, `Insert`) and the reads of
  `WorkflowInspector.detail` (`ReadDetail`) are steps of their own. What the
  graph does in between is cut down to the two things an answer carries.
- **Planning** is what happens between an intent and a verdict: the three queries
  of `_query_groups` (one step each, `Matches` is one turn of the loop), `_bound`
  (`KeptAfter` is its loop, `Bounded` its result), the planner (`ExclusionReason`,
  `RiskFactors`, `RunsBefore`, `CandidatePlan`), the policy (`Violations` and what
  it calls) and the rows that are saved. `Upsert` is an ingestion, which may run
  at any moment. It refines what Orchestration takes as the choices of
  `RetrievalNode` and `PlanningNode`; the two are not composed, because the only
  thing that passes between them is the outcome. Lists are sets here, and an order
  is a relation (`Precedes`, `RunsBefore`) with a rank, so that no step needs a
  sort.
- **AgentRuns**, **IntentAgent**, **ResultAnalysis**, **WorkflowAgents** are the two
  agents that ask a language model, on the thread of one workflow. AgentRuns has
  what they share: the provider's errors and the `agent_runs` table. IntentAgent
  is `parse_intent` (`Decide` is its chain of checks in the code's order,
  `Resolve` the lookup of `normalization.py`), the audit row and `intent_node`.
  ResultAnalysis is `_bound_evidence` (`Bounded`), every answer the provider may
  give (`Answers`), `_to_report` (`Objection`, `Accepted`, `Rejection`), the
  fallback, `_finish` and `analysis_node`. WorkflowAgents composes them; what lies
  between is one step `Deliver` or `EndsEarly`, because the other modules have it.
  A write of the audit row ends the thread in the intent node and degrades the
  report in the analysis node: `Abandon` and `RecordAnalysisRunFails`.
- **ChatClient** is the page on top of the routes of WorkflowApi. A submission is
  `Submit` (which is `Post` of that module without a key), `AnswerArrives` (which
  is its `Get` of the detail), then a bubble. `Unreachable` and `WithoutDetail`
  are the two `catch` branches; either can happen while the server works on.
- **MCMockJenkins**, **MCExecutionFlow**, **MCOrchestration**, **MCWorkflowApi**,
  **MCPlanning**, **MCWorkflowAgents**, **MCChatClient** give constants their values
  and nothing else.
- **MockJenkins_proofs**, **ExecutionFlow_proofs**, **Orchestration_proofs**,
  **WorkflowApi_proofs**, **ChatClient_proofs**, **WorkflowAgents_proofs**,
  **Planning_proofs** hold the theorems. **FiniteOrders** has lemmas about numbers,
  finite sets and orders that models no code.

Operators named `Bad...` are defects one could make in the operator they
precede. They are no part of a specification; putting one in the place of its
original must break the property it is listed with in `PROJECT.json`.

## 3. The runs

| Run | Instance | Shows |
|---|---|---|
| `jenkins_concurrent` | two callers, two jobs | numbers never collide, completed jobs and their copies have results under every interleaving; `run_to_completion` returns |
| `jenkins_race` (violation) | two callers, one job | a job leaves a terminal status |
| `execution_flow` | one workflow, one client on every route, a restart, one job that is posted or could not be recorded, repositories that may raise | the agent keeps ExecutionContract, a queued row is forgotten with its thread or its process only, a second job is submitted only where recording the first one raised, recorded numbers are fresh, every attempt ends |
| `execution_agree` (violation) | one workflow, one cancelling client | the row and its job end in different final statuses |
| `orchestration` | two workflows | no node asks for a move the table refuses; plan, timeline, results, report and status stay consistent; workflows end |
| `api` | two clients, three requests, a real and an empty key, a fault | dense numbers, one workflow per key, answers about their own request, backed snapshots |
| `api_race` (violation) | two clients, two requests | a repeated key is answered 500 |
| `api_replay` (violation) | two clients, two requests | a failed workflow is replayed as 200 |
| `planning` | six catalogs of two tests, eight documents ingested in any order, `top_k` 2, budget 4 | evidence fits intent and budget, the planner meets the policy, order by risk, monotone risk, a rule is lost to a limit only |
| `planning_rules` (violation) | six documents, `top_k` 1 | a rule that forbids the request is crowded out by a rule of another module |
| `agents` | one workflow, every payload over a few raw values per field, two tests, three documents, a budget of two, answers of up to two rows | nothing is guessed, the gap is named, the two gates agree, a report claims and cites what it may, the runs on record and the status fit it, results get a report |
| `chat` | two submissions that may overlap, one fault | a bubble that says nothing was run, or shows an outcome, is right about its own workflow; none goes unaccounted for, every submission ends |

The bounds, and why they are enough for what is asked:

- `Callers`, `Clients`: a race inside the service or between count and insert is
  between two threads; the proofs cover any number. In `execution_flow` the
  agent's own thread is one of the two.
- `FirstJob .. LastJob` (1 to 3 in `execution_flow`): every number a behaviour can
  issue under the other bounds, so `submit` is never disabled by the bound where
  progress is checked (`AttemptEnds` would fail if it were): the stray of a
  process and the job of its attempt are two numbers, and a new process starts
  one past what is recorded.
- `MaxStrays = 1`: a job that a stranger posted, or that could not be recorded,
  makes the numbers of the agent's jobs non-consecutive; it is one for each
  process. `MaxRestarts = 1` separates a process that issued numbers from one that
  derives its numbering from the table; a second restart starts from a state of
  the same kind as the first. How often the other repository calls raise is not
  bounded. In `execution_agree` nothing raises and nothing restarts, so that its
  counterexample is the race and nothing else.
- `MaxWorkflows = MaxRequests = 3`: two requests that race and a third that meets
  what they left. `MaxFaults = 1`: one request that dies anywhere, or one
  restart.
- one value of `Queries`: `dry_run` already makes two requests with one key
  different.
- two workflows in `orchestration` share no row; two show that they do not
  interfere, which one could not.

- the catalogs of `planning`: a tie, two scores, a near miss of each kind, another
  module, nothing that matches; two tests are enough for a property of pairs. Its
  documents: one larger than the budget, failures that are recent, too old (91
  days) and in the future, two rules of other modules closer than the one that
  applies, a rule of another region. `top_k` is 2 and the budget 4 so that both
  bite; the defaults (5 and 6000) bite with a larger knowledge base only. One
  intent suffices because catalogs and documents vary around it.

- one workflow in `execution_flow`: two workflows meet only in the numbering and in
  the table, and ExecutionFlow_proofs covers any number of them.
- the raw values of `agents`: null, no string, a blank one, a word of the field's
  own vocabulary, a synonym, a synonym of another field, a word of none;
  confidences below, at and above the threshold and out of range. Three documents
  with a tie in score and one larger than what is left of the budget. Two rows:
  the first objection decides, so a good row before a bad one is the interesting
  case.
- the two submissions of `chat` need two workflow numbers and four requests, a
  creation and a detail each; the one fault is a request that dies anywhere or a
  restart, and connections may break at any
  time besides.

`CHECK_DEADLOCK FALSE` stands where the system may stop: in `WorkflowApi` and
`ChatClient` when the bound on requests is used up, in `Orchestration` and
`WorkflowAgents` when all workflows have ended or were lost.

Liveness runs use no symmetry. `api` does, over clients, which are
told apart by nothing but their names and appear in no `CHOOSE`.

## 4. Fairness

A thread that runs keeps running: weak fairness of the steps a thread takes by
itself once it was called (`ServiceStep`, `AgentStep`, `ClientStep`,
`ThreadStep`, `Analysis`), and of the page handling what has arrived (`PageStep`).
Python's scheduler gives every runnable thread its turn and none
of these steps waits for another thread; the repositories' waits for SQLite's
lock are bounded by its timeout, which is one of the ways a thread may be lost
(`Abandon`; `RecordExecutionRaises` and `RepositoryRaises` in ExecutionFlow). No
fairness is assumed of anything somebody has to decide, nor of an exception: a
request, a retry, a cancellation, an advance through `/jobs`, a restart.

`RunToCompletionReturns` and `AttemptEnds` hold although others may move the job
at any time, because every move they can make shortens what is left or raises
`InvalidJobTransition`, and because what a race can undo is bounded by the number
of threads already past their check. `WorkflowEnds` takes from ExecutionFlow that
`execute` returns: `AgentReturns` is one of the fair steps because `AttemptEnds`
is checked there. An attempt whose thread is lost has ended too, with the outcome
`lost`; in Orchestration that is the thread of the workflow, which is lost with it.

In `ExecutionFlow` a retried attempt may fail for ever; what is asked is that
each attempt ends, not that one succeeds.

## 5. Proofs

Each holds for every value of the constants that meets the named assumption of
its module.

**MockJenkins_proofs** (assumption `ServiceConstants`: job numbers are an interval
of naturals, and the absent job and request are neither). The invariant is
`JenkinsInv = JenkinsTypeOK /\ NumbersNeverCollide /\ TargetsAreSound /\
CompletedHasResults`. `CompletedHasResults` is not inductive: a thread between
check and write could be about to write `completed` over a job without results,
and a new job could be registered over the one it works on. `TargetsAreSound`
says that a thread that is about to write `completed` has put the results on the
job, `NumbersNeverCollide` that no job is ever registered over another. From it:

- `JenkinsTypes`, `NumbersNeverCollideTheorem`, `CompletedHasResultsTheorem`, for
  any number of threads and jobs.
- `LoneCallerFollowsLifecycle`: with at most one caller (`LoneCaller`) the service
  implements JobLifecycle. The step that needs it is `Set`: with one caller the
  job still has the status that `Check` saw. With two it does not, which
  `jenkins_race` shows: the theorem's assumption is needed.

**ExecutionFlow_proofs** (assumptions `ServiceConstants` and those ExecutionFlow
names). The proof reuses MockJenkins_proofs: its callers are the agents and the
clients of the flow, so `ServiceInvariantInFlow` gets the service's invariant from
the lemmas about single service steps instead of proving it again, and has only
the restart left. On top of it the flow's invariant ties a caller's place inside
the service to its place outside (an agent in `collect` is running its own job to
completion, or is not inside), says that a job the agent has in hand was requested
by its workflow and exists as long as the process does, and that the number it is
about to record is neither recorded nor in another hand. Without the last part
`RecordedNumbersAreFresh` is not inductive over `RecordExecution`; without the
first `QueuedIsDriven` is not over a call that raises. `JobsAreAccountedFor` says
that each job of a workflow is in its thread's hands, in its row, or an orphan, and
`OrphansHold` that an orphan is an old number which is no thread's and in no row:
a retry looks its key up in the rows only, so it can never meet that job again.

- `FlowTypes`, `RecordedNumbersAreFreshTheorem`, `ServiceInvariantInFlow`, for any
  number of workflows, clients, jobs, exceptions and restarts.
- `OneJobPerWorkflowTheorem`: one job of a workflow in a process, besides those
  that could not be recorded, which stay out of every row and every hand.
- `QueuedIsDrivenTheorem`: a queued row is in its thread's hands, or of a process
  that has ended, or its thread was ended by an exception of a repository. There is
  no fourth way, whatever the service raises and others do to the job.
- `FlowKeepsContractTheorem`: the flow implements ExecutionContract, which states
  no liveness, so that the refinement is a matter of steps and is proved whole.
  FlowInv is not enough for it: `ResultsOnce` adds that no results are stored
  before the thread that drives the row is about to store them, and that a copy
  which shows `completed` carried its results there. The second half comes from
  `CompletedHasResults`, the service's own theorem. A restart is `Lose` of all
  attempts under way, and an exception `Lose` of one (`AttemptLost`) or, when the
  audit row raises after the status was written, `LoseVerdict` (`VerdictLost`). A
  cancellation that is recorded is `Cancel`, and a step inside the service is no
  step of the contract.

**Orchestration_proofs** (no assumption is used). The invariant `GraphInv` is
`TypeOK` and, of each workflow, four statements. `Place` ties node, phase and
target to the status: a body starts in a status its node is entered in (`Entry`),
and what it asks for is one of its goals (`Goals`) that the transition table has.
Every edge of graph.py meets it, because what a node's last advance leaves is in
the `Entry` of every node the edge may lead to. `History` says that the timeline is
a path of the table which the status ends or continues. `Cleared` says what is on
that path, and what the policy decided, before a workflow is in the node that
executes; without it `ExecutionOnlyWhenCleared` is not inductive, because the
route is taken several steps before the execution exists. `Backed` says that an
advance to `results_collected` is asked for only after an attempt reported
`completed`, and of that ExecutionContract promises that results are stored. A
step of one workflow's thread touches nothing of another's, so each action has one
workflow to show it for.

- `GraphTypes`, `NoIllegalAdvanceTheorem`, `ExecutionOnlyWhenClearedTheorem`,
  `TimelineTracksStatusTheorem`, `CompletedIsBackedTheorem`, with any number of
  workflows and threads lost anywhere.

Together with `FlowKeepsContractTheorem` this closes the chain by which the two
models are built apart: what Orchestration_proofs uses of an execution are the
actions of ExecutionContract, and the agent's code does nothing else.

**WorkflowAgents_proofs** (assumptions `IntentAssumption`, `AnalysisAssumption`). The
agents' invariant says where the thread stands relative to what it holds: in the
analysis a completed run of the intent agent is on record with the intent, the
report is one the code can build from what was shown, and no document outranks
one that was shown in its place. `GatesAgree` needs the assumption that every
member's value is found as its own candidate, which holds of the enums because
`normalization.py` builds its lookup from their values.

- `NothingIsGuessedTheorem`, `ClarificationNamesTheGapTheorem`, `GatesAgreeTheorem`,
  `ReportIsTruthfulTheorem`, `AuditMatchesReportTheorem`, for every vocabulary,
  threshold, evidence, budget and answer. `ClarificationNamesTheGap` has one
  exception, which its statement spells out: an answer whose confidence is no
  probability (section 6).
- `AgentsTypes`. What needs an argument is not what a variable is assigned but what
  the operators build: `DecidedType` shows that each way out of `Decide` is an
  outcome (`ClarificationType` for the clarifications), `ReportTypes` that each way
  to a report is one. That a workflow has at most one saved report and two audit
  rows is read off `ThreadHolds` and `RunsTellTheStory`, the invariants of
  `AuditMatchesReportTheorem`.

**WorkflowApi_proofs** (assumption `ApiConstants`). The invariant is
`ApiInv = ApiTypeOK /\ NumbersAreDense /\ OneWorkflowPerKey /\ RequestsAreSound`.
`NumbersAreDense` fails to be inductive because a request holds a number it has
counted some time ago; `RequestsAreSound` says that this number is at most the
first free one, so it is either free and the next, or taken and refused by the
primary key. `SuccessNamesTheRequest` needs that the row a request inserted or
found is never given another key, query or `dry_run`. The proof first shows that
every step does one of three things to the table (`NextIsTableStep`), then what
each keeps (`TableIsKept`), then that a request another client's step leaves
alone stays sound (`SoundIsKept`), so that each action has only its own request
left to show.

- `ApiTypes`, `NumbersAreDenseTheorem`, `OneWorkflowPerKeyTheorem`,
  `SuccessNamesTheRequestTheorem`, for any number of clients, keys, queries,
  requests, faults and restarts.
- `SnapshotIsBackedTheorem`, from a second invariant `SnapInv`. A snapshot is read in
  three transactions, so the invariant speaks of a reader between two of them
  (`ReadIsSound`): if the status it has read is terminal, the row still has it, and
  what it got is what is stored, as far as it has read. That stays true because
  nobody writes to a workflow that has ended (`EndedRowsAreKept`), which needs that
  a workflow is run by one thread only and reads `active` as long as it is
  (`RunnersAreAlone`); and a row's parts fit its status at every moment (`Backed`).
  Reading the row last would break the first, not the second.

**ChatClient_proofs** (assumption `ApiConstants`). Each step of the page is a step
of the routes or leaves their state alone (`ChatStepIsApiStep`, `PageUsesTheRoutes`),
so the page inherits `SnapInv` and nothing about the routes is proved twice.
`ChatInv` adds three things. `ServerFits` says where the server is with what a
submission asked for: without it a step of the server could answer a request the
page never made. `BubbleFits` says what the bubble holds at each stage, and that
the workflow it names has ended; with `EndedRowsAreKept` of the routes that is why
a bubble that was true stays true. The third is that some function `f` tells for
each workflow the submission that started it (`Owners`), no two the same.

- `ChatTypes`, `PageTellsNoLiesTheorem`, for any number of submissions that
  overlap, of requests, restarts and broken connections.
- `EveryWorkflowIsAccountedForTheorem`. Its last conjunct compares cardinalities, and
  no step changes them in a way one could follow: an answer moves a submission from
  one set to the other, an insert adds a workflow. Counting through `f` instead, a
  workflow's owner either names it in a bubble or is open, so there are no more
  workflows than of those two together.

**Planning_proofs** (assumption `PlanningAssumption`: a catalog is finite and its
criticalities are the three of `models/test_case.py`; a document's type, score and age are
what its model accepts and its content is not empty, `Field(min_length=1)` in
`knowledge/documents.py:26` and `models/evidence.py:27`; `top_k` and the budget are
naturals). There are two invariants. `PlanningInv` says that the groups and the
evidence fit the intent at every step, whatever was ingested in between, and that
plan and verdict are computed from that evidence. Its mathematical core is
`FilterAndPlannerAgree`: the catalog's filter, which builds the store's where
clause, and the planner's chain of exclusion reasons describe the same set of
tests. It uses no assumption.

- `PlannerMeetsPolicyTheorem`: no plan of the planner fails a check on its tests
  or its context. Half of the policy service is defence in depth, and the
  theorem says so.
- `EvidenceMatchesIntentTheorem`: RET-4, for every catalog, knowledge base,
  `top_k` and budget.

`RetrievalInv` says what became of everything that was there to be found: the
evidence is what `_bound` kept of the matches (`EvidenceIsKept`), there is no plan
before the verdict (`PlanIsPending`), and after the query for rules each rule that
applies was found or has `top_k` closer ones of its region (`RulesAreRanked`), which
later ingestions can only add to (`RulesStayRanked`). The matches are not an
invariant of their own: a document that is ingested between two queries may be
found by the second and not by the first.

- `EvidenceIsBoundedTheorem`, from `BoundedKeepsTheBest`: after any number of turns
  of the loop, what is kept is within the budget or a single document, and what
  was dropped did not fit beside the better ones (`KeptWell`).
- `OrderIsByRiskTheorem`, from `TestsAreOrdered` (`RunsBefore` is a strict total
  order although risks may tie) and `PrioritiesAreRanks`: the ranks of an ordered
  finite set are exactly 1 to its size.
- `MoreHistoryTheorem`, from `MoreFailuresMoreRisk`, factor by factor.
- `RuleIsLostOnlyByALimitTheorem`: a rule that forbids the request and was stored
  when it arrived has its effect, unless `top_k` or the budget took it. Finding 5
  of section 6 is the case of `top_k`.
- `PlanningTypes`, the last one because the types of a plan (priorities from 1,
  scores of at most 1) need all of the above.

**FiniteOrders** (no assumption). The length of the evidence is a sum over a finite
set, the loop of `_bound` a recursive function, a priority a cardinality. Claims
about every number or every finite set are proved from a smallest counterexample
(`LeastNumber`, `SmallestSet`), which a well-founded order provides without an
induction theorem; `RanksFollowOrder` and `RanksAreAllTaken` are about ranks in any
strict total order of a finite set.

Every invariant of the passing runs is stated by one of these theorems, and so are
the refinement `FlowKeepsContract`. Only
model-checked: the liveness properties `RunToCompletionReturns`, `AttemptEnds`,
`WorkflowEnds`, `AnalysisAlwaysReports` and `SubmissionsEnd`, which rest on
fairness and so on ENABLED and are out of the prover's reach.

## 6. Where the code and its text disagree

Five runs find a behaviour that a comment or document of the repository rules
out. Each quotes the line in `PROJECT.json`.

1. A terminal job can leave its status (`jenkins_race`). `_transition` checks and
   writes without a lock. Three steps of two threads: A passes the check for
   `running`, B cancels, A writes.
2. The execution row and the job it maps to can disagree for good
   (`execution_agree`). The agent and the cancel route each write the row after
   their job call; the later one wins.
3. A repeated `Idempotency-Key` can be answered 500 (`api_race`). The request it
   repeats had not been inserted when the key was looked up.
4. A repeated key of a failed workflow is answered 200 (`api_replay`). The replay
   does not pass through `error_for_state`.
5. A rule that forbids the request can be missing from the evidence
   (`planning_rules`). Rules are compared with the module after `top_k` was
   applied, so rules of other modules take the places. With the default of 5
   and the committed knowledge base, which has at most three rules for a region,
   this cannot happen yet.

More that the models contain, or that modelling showed, and no run states:

- Where `create_execution` raises anything but an `IntegrityError` (a lock that times
  out), the job was submitted and no row has the key: the next attempt submits the
  plan again, though `docs/modules/05-mock-execution.md:31` promises that "A duplicate
  submission key returns the original job rather than creating another job"
  (EXE-4). `OneJobPerWorkflow` says that this is the only way to a second job.
- A row whose thread was lost while it was queued stays so: nobody drives it, and a
  later attempt finds it by its key and returns it as a queued execution.
  A cancellation of it is answered 409 if its job has ended, and 500 after a
  restart, when the service no longer knows the job.
- An answer with a usable value in every field but a confidence outside 0 to 1 is
  thrown away whole, and the client is told that all four fields are missing
  (`agents/intent.py:142-150`), where INT-4
  (`docs/modules/03-intent-understanding.md:39`) asks for the specific ones.
- A second request with an empty `Idempotency-Key` can only be answered 500: the
  empty key is stored but not looked up.
- An outage inside the configured analyzer ends as ANALYZED with a fallback report,
  where `orchestration/dependencies.py:30-31` and `docs/workflow.md:45` say
  FALLBACK_SUMMARY. FALLBACK_SUMMARY is what no analyzer, or one that raises, gets.
- A job number can be handed out twice over a restart, though
  `integrations/mock_jenkins.py:96` continues the sequence: numbers of `POST /jobs`,
  and of a plan whose process ended before `create_execution`, are not in the table
  the next process numbers itself from. What is *recorded* stays unique
  (`RecordedNumbersAreFresh`).
- The page says of an INTERNAL_ERROR "Nothing was executed." (`frontend/app.js:297`).
  The handler that answers it also catches what is raised after the execution was
  stored, so `PageTellsNoLies` leaves this bubble out. After a broken connection
  it asks to "send again" (`:333`), without an `Idempotency-Key`: if the first
  request ran, the second runs it again.
- `models/analysis.py:40` says that `observations` holds what the execution
  reported, and `agents/analysis.py:3-5` that no ungrounded claim reaches a user;
  the observations and the summary of a provider's report are not checked against
  anything. Nor does anything ask that every failed test is explained.
- `_bound` of the retrieval agent says that it drops the weakest evidence, but it
  goes on after a document that does not fit and keeps weaker ones that do
  (`agents/retrieval.py:262` and `:279`); the analyzer's `_bound_evidence` stops.
- A plan that a jurisdiction rule rejects has its items saved, where
  `test_a_rejected_plan_records_no_plan_items` only tries an empty one.

## 7. Assumptions and abstractions

- CPython up to 3.11 (the image is `python:3.11-slim`): threads switch at calls of
  Python functions and at backward jumps, not between two other bytecodes. So
  the counter of `submit` is read and incremented in one step. The deep copy of a
  job runs Python code; it reads `status` before `results`, and results are never
  taken back, so reading both in one step loses nothing that is asked of a copy.
- One repository call is one SQLite transaction, and transactions are serialised.
  A lock that times out is an exception nobody catches: `Abandon`, and in
  ExecutionFlow `RecordExecutionRaises` and `RepositoryRaises`.
- `external_job_id` is `JOB-<n>`, `workflow_id` is `WF-<1000+n>`; the models keep
  the numbers. `FIRST_JOB_NUMBER` is `FirstJob`.
- The idempotency key of an execution is a digest of the workflow's identifier and
  its plan, and a workflow has one plan: in ExecutionFlow it is the workflow.
- The results of a job are one batch: it has them or it does not. Which tests
  pass is decided by a hash of the request and touches no property here.
- `unavailable` and `force_failure` are options of the CI service's constructor
  for demonstrations and tests; `Modes` has them because the agent's error paths
  are reached through them.
- The graph calls `execute` once per workflow. ExecutionFlow also has later
  attempts, one after the other, as `docs/workflow.md` describes retries; they
  are what the idempotency key is for.
- The vector store returns the exact `top_k` by score; scores of one type differ
  (`DistinctScores`), because a tie is broken by the store. A document does not
  change under its ID. Scores are hundredths: every weight is a multiple of 0.05,
  and `round(..., 4)` removes what floating point adds.
- Dates are ages in days, with `NoDate` for what does not parse; the reference
  date is fixed for a plan.
- `agent_runs` rows of the retrieval, planning and execution agents (an audit trail
  nothing reads back here), logging, timings and
  response bodies are left out.
- An uncaught exception leaves a workflow in a status that is not terminal, and
  nothing in the program resumes it: `Abandon` leads to `lost`, and every
  liveness property says so instead of excluding it.
- A queued row that a restart or an exception leaves behind is never moved again
  by the agent: `QueuedIsDriven` has these as its second and third case.

- A string of the provider is the candidate `normalization.py` makes of it
  (trimmed, lowered, single spaces); `Candidate` is that conversion as a function of
  the raw value. Percent stand for the confidence.
- Of a provider's report the model has what `_to_report` looks at. Two rows about
  one test are allowed, as in the code.
- The page's submissions are those of one visit; its text is the kind of bubble.
  `MALFORMED_REQUEST` is not among the answers: the page trims the query, sends
  none that is empty, and `dry_run` is a checkbox, which is all that
  `CreateWorkflowRequest` asks (`api/schemas.py:14`).

Not modelled: prompt texts; the vector store's index (external; the agent sees an
answer or an error); the files an ingestion reads; the evaluation harness, an
offline script that compares numbers with a dataset and keeps no state;
configuration and logging, which read the environment and format lines; the
command line client, which sends one request and prints the answer; the page's
health badge and the layout of a bubble.

## 8. Plan

Written, in this order because each builds on the one before: JobLifecycle and
MockJenkins; ExecutionContract and ExecutionFlow; WorkflowLifecycle and
Orchestration; WorkflowApi; Planning; the agents; ChatClient; and the proofs.

All of it is written. What the models leave out is in section 7. What could be added
to the proofs, in this order:

1. For the liveness properties, the safety half of their argument: that what is
   left of a run to completion, of an attempt and of a submission shrinks with each
   step of its thread and grows with no other.
2. Planning and Orchestration in one statement: that a request of Planning makes
   the choices `RetrievalNode` and `PlanningNode` leave open. The two agree by
   inspection now.
