--------------------------- MODULE ExecutionFlow ----------------------------
(***************************************************************************)
(* The execution agent (app/agents/execution.py), the executions and       *)
(* test_results tables behind it, the cancel route of /api/v1, the /jobs   *)
(* routes, and the process they all live in, on top of MockJenkins.        *)
(*                                                                         *)
(* Threads.  The thread that executes the plan of workflow w is w itself:  *)
(* the graph calls execute for a workflow from one thread, and a retry of  *)
(* the same plan (docs/workflow.md: "Use the original idempotency key when *)
(* retrying job submission") comes after the attempt before it.  Clients   *)
(* are the threads of the other HTTP requests, one request at a time each. *)
(*                                                                         *)
(* The tables survive a restart; the service, the agent and the requests   *)
(* do not.  Each repository method is one transaction and so one step, and *)
(* any of them may raise (a locked database) instead: the thread of an     *)
(* attempt is lost then, for execute catches IntegrityError only and the   *)
(* graph the agent's own exceptions only; a request is answered 500.       *)
(* executions.status is overwritten by update_status whatever it is, so    *)
(* the read before the write only decides a time stamp and is left out.    *)
(* agent_runs, an audit trail nobody reads back here, is left out too.     *)
(*                                                                         *)
(* The idempotency key is a digest of the workflow's ID and its plan, so   *)
(* in this model it is the workflow.                                       *)
(***************************************************************************)
EXTENDS MockJenkins, FiniteSets

CONSTANTS
    Workflows,     \* workflows with a validated plan, and their threads
    Clients,       \* threads of other HTTP requests
    External,      \* the request of a job submitted through POST /jobs
    ClientRoutes,  \* the routes the clients of an instance use
    MayRaise,      \* whether the repositories of an instance ever raise
    MaxStrays,     \* bound on the jobs of one process that no row is for
    MaxRestarts    \* bound on the restarts of the process

Routes == {"submit_job", "get_job", "advance_job", "cancel_job", "cancel_workflow"}

ASSUME FlowConstants ==
    /\ Callers = Workflows \cup Clients
    /\ Workflows \cap Clients = {}
    /\ Requests = Workflows \cup {External}
    /\ External \notin Workflows
    /\ ClientRoutes \subseteq Routes
    /\ MayRaise \in BOOLEAN
    /\ MaxStrays \in Nat
    /\ MaxRestarts \in Nat

VARIABLES
    execution,    \* the executions row of each workflow: its job and status
    results,      \* how often a batch of its test results was inserted
    agent,        \* where each execute call stands, and its job number
    outcome,      \* how the last execute call of each workflow ended
    client,       \* what each client is waiting for, and its last reply
    orphans,      \* history: jobs of this process create_execution raised for
    deserted,     \* history: rows whose thread an exception ended in this process
    restarts      \* how often the process was restarted

tableVars == <<execution, results>>
processVars == <<orphans, deserted, restarts>>
flowVars == <<execution, results, agent, outcome, client, processVars>>
vars == <<jenkinsVars, flowVars>>

NoRow == [job |-> NoJob, status |-> "none"]
Recorded(w) == execution[w] # NoRow
RecordedJobs == {execution[w].job : w \in {v \in Workflows : Recorded(v)}}

NoAttempt == [pc |-> "idle", job |-> NoJob, seen |-> "none", got |-> FALSE]
Driving == {"collect", "results", "status", "failed"}
AgentPCs == {"idle", "lookup", "submit", "record"} \cup Driving
NoRequestYet == [pc |-> "idle", workflow |-> NoJob, reply |-> "none"]
ClientPCs == {"idle", "job", "cancel", "update"}
Replies == {"none", "200", "404", "409", "500", "503"}

(* Jobs that were posted by a stranger, or could not be recorded. *)
Strays == {j \in Jobs : jobRequest[j] = External} \cup orphans

FlowInit ==
    /\ JenkinsInit
    /\ execution = [w \in Workflows |-> NoRow]
    /\ results   = [w \in Workflows |-> 0]
    /\ agent     = [w \in Workflows |-> NoAttempt]
    /\ outcome   = [w \in Workflows |-> "none"]
    /\ client    = [c \in Clients |-> NoRequestYet]
    /\ orphans   = {}
    /\ deserted  = {}
    /\ restarts  = 0

-----------------------------------------------------------------------------
(* ExecutionAgent.execute and _collect *)

AgentGoto(w, pc) == agent' = [agent EXCEPT ![w].pc = pc]

AgentReturns(w, result) ==
    /\ agent'   = [agent EXCEPT ![w] = NoAttempt]
    /\ outcome' = [outcome EXCEPT ![w] = result]

(* The audit row is written last: if that raises, the exception replaces   *)
(* what the call was about to return or raise.                             *)
AgentReturnsAudited(w, result) ==
    \/ AgentReturns(w, result)
    \/ MayRaise /\ AgentReturns(w, "lost")

Execute(w) ==
    /\ agent[w].pc = "idle"
    /\ AgentGoto(w, "lookup")
    /\ UNCHANGED <<jenkinsVars, tableVars, outcome, client, processVars>>

(* if not plan.is_executable: raise ExecutionRefusedError *)
Refuse(w) ==
    /\ agent[w].pc = "idle"
    /\ outcome' = [outcome EXCEPT ![w] = "error"]
    /\ UNCHANGED <<jenkinsVars, tableVars, agent, client, processVars>>

BadLookupIgnoresKey(w) ==
    /\ agent[w].pc = "lookup"
    /\ AgentGoto(w, "submit")
    /\ UNCHANGED <<jenkinsVars, tableVars, outcome, client, processVars>>

(* Collects again for a row it finds, instead of returning it. *)
BadLookupCollectsAgain(w) ==
    /\ agent[w].pc = "lookup"
    /\ IF Recorded(w)
       THEN /\ agent' = [agent EXCEPT ![w].pc = "collect", ![w].job = execution[w].job]
            /\ Begin(w, "while", execution[w].job)
       ELSE AgentGoto(w, "submit") /\ UNCHANGED jenkinsVars
    /\ UNCHANGED <<tableVars, outcome, client, processVars>>

(* The key is looked up first: a row an earlier attempt left is returned   *)
(* as it stands, whatever its status, and nothing is submitted.            *)
Lookup(w) ==
    /\ agent[w].pc = "lookup"
    /\ IF Recorded(w)
       THEN AgentReturns(w, execution[w].status)
       ELSE AgentGoto(w, "submit") /\ UNCHANGED outcome
    /\ UNCHANGED <<jenkinsVars, tableVars, client, processVars>>

SubmitPlan(w) ==
    /\ agent[w].pc = "submit"
    /\ Submit(w, w)
    /\ agent' = [agent EXCEPT ![w].pc = "record", ![w].job = nextNumber]
    /\ UNCHANGED <<tableVars, outcome, client, processVars>>

SubmitPlanFails(w) ==
    /\ agent[w].pc = "submit"
    /\ mode = "unavailable"
    /\ AgentReturnsAudited(w, "error")
    /\ UNCHANGED <<jenkinsVars, tableVars, client, processVars>>

(* create_execution: the idempotency key and external_job_id are UNIQUE,   *)
(* and a conflict is raised as an ExecutionError.  Otherwise               *)
(* run_to_completion is called next.                                       *)
RecordExecution(w) ==
    LET number == agent[w].job IN
    /\ agent[w].pc = "record"
    /\ IF Recorded(w) \/ number \in RecordedJobs
       THEN /\ AgentReturnsAudited(w, "error")
            /\ call' = [call EXCEPT ![w] = NoCall]
            /\ UNCHANGED execution
       ELSE /\ execution' = [execution EXCEPT ![w] = [job |-> number, status |-> "queued"]]
            /\ AgentGoto(w, "collect")
            /\ call' = [call EXCEPT ![w] = [NoCall EXCEPT !.pc = "while", !.job = number,
                                                          !.loop = TRUE]]
            /\ UNCHANGED outcome
    /\ UnchangedJobs
    /\ UNCHANGED <<results, client, processVars>>

(* run_to_completion returned the finished job, or raised. *)
Collected(w) ==
    /\ agent[w].pc = "collect"
    /\ call[w].pc \in Outcomes
    /\ call' = [call EXCEPT ![w] = NoCall]
    /\ agent' = [agent EXCEPT ![w].pc   = IF call[w].pc = "ok" THEN "results" ELSE "failed",
                              ![w].seen = call[w].seen,
                              ![w].got  = call[w].got]
    /\ UnchangedJobs
    /\ UNCHANGED <<tableVars, outcome, client, processVars>>

(* record_results, a transaction of its own before the status is written. *)
RecordResults(w) ==
    /\ agent[w].pc = "results"
    /\ results' = [results EXCEPT ![w] = IF agent[w].got THEN @ + 1 ELSE @]
    /\ AgentGoto(w, "status")
    /\ UNCHANGED <<jenkinsVars, execution, outcome, client, processVars>>

(* update_status(finished.status), over whatever the row says. *)
RecordStatus(w) ==
    /\ agent[w].pc = "status"
    /\ execution' = [execution EXCEPT ![w].status = agent[w].seen]
    /\ AgentReturnsAudited(w, agent[w].seen)
    /\ UNCHANGED <<jenkinsVars, results, client, processVars>>

BadRecordFailureForgotten(w) ==
    /\ agent[w].pc = "failed"
    /\ AgentReturns(w, "error")
    /\ UNCHANGED <<jenkinsVars, tableVars, client, processVars>>

BadRecordFailureAsError(w) ==
    /\ agent[w].pc = "failed"
    /\ execution' = [execution EXCEPT ![w].status = "error"]
    /\ AgentReturns(w, "error")
    /\ UNCHANGED <<jenkinsVars, results, client, processVars>>

(* The handler of _collect: update_status(FAILED), then ExecutionError. *)
RecordFailure(w) ==
    /\ agent[w].pc = "failed"
    /\ execution' = [execution EXCEPT ![w].status = "failed"]
    /\ AgentReturnsAudited(w, "error")
    /\ UNCHANGED <<jenkinsVars, results, client, processVars>>

(* create_execution raises anything but an IntegrityError: the job was     *)
(* submitted, no row names it, and the thread that knew its number ends.   *)
RecordExecutionRaises(w) ==
    /\ MayRaise /\ agent[w].pc = "record"
    /\ Cardinality(Strays) < MaxStrays
    /\ orphans' = orphans \cup {agent[w].job}
    /\ AgentReturns(w, "lost")
    /\ call' = [call EXCEPT ![w] = NoCall]
    /\ UnchangedJobs
    /\ UNCHANGED <<tableVars, client, deserted, restarts>>

(* Any other repository call of execute and _collect raises: the thread    *)
(* ends, and what it had written by then stays.                            *)
RepositoryRaises(w) ==
    /\ MayRaise /\ agent[w].pc \in {"lookup", "results", "status", "failed"}
    /\ AgentReturns(w, "lost")
    /\ deserted' = IF agent[w].pc \in Driving THEN deserted \cup {w} ELSE deserted
    /\ UNCHANGED <<jenkinsVars, tableVars, client, orphans, restarts>>

(* What the thread of an execute call does once it was called. *)
AgentStep(w) ==
    \/ Lookup(w)
    \/ SubmitPlan(w)
    \/ SubmitPlanFails(w)
    \/ RecordExecution(w)
    \/ ServiceStep(w) /\ UNCHANGED flowVars
    \/ Collected(w)
    \/ RecordResults(w)
    \/ RecordStatus(w)
    \/ RecordFailure(w)

-----------------------------------------------------------------------------
(* The cancel route of /api/v1: ExecutionAgent.cancel *)

Reply(c, code) == client' = [client EXCEPT ![c] = [NoRequestYet EXCEPT !.reply = code]]

(* The row is read once, at the start; a workflow without one, or with a   *)
(* finished one, is a conflict.  If the read raises, that is a 500.        *)
CancelWorkflow(c, w) ==
    /\ "cancel_workflow" \in ClientRoutes
    /\ client[c].pc = "idle"
    /\ \/ /\ Recorded(w) /\ ~IsTerminal(execution[w].status)
          /\ Begin(c, "cancel", execution[w].job)
          /\ client' = [client EXCEPT ![c] = [pc |-> "cancel", workflow |-> w, reply |-> "none"]]
       \/ /\ ~Recorded(w) \/ IsTerminal(execution[w].status)
          /\ Reply(c, "409") /\ UNCHANGED jenkinsVars
       \/ MayRaise /\ Reply(c, "500") /\ UNCHANGED jenkinsVars
    /\ UNCHANGED <<tableVars, agent, outcome, processVars>>

(* InvalidJobTransitionError is answered 409; JobNotFoundError is not      *)
(* caught by the route, which makes it a 500.                              *)
CancelAnswered(c) ==
    /\ client[c].pc = "cancel"
    /\ call[c].pc \in {"ok", "invalid", "missing"}
    /\ call' = [call EXCEPT ![c] = NoCall]
    /\ CASE call[c].pc = "ok"      -> client' = [client EXCEPT ![c].pc = "update"]
         [] call[c].pc = "invalid" -> Reply(c, "409")
         [] call[c].pc = "missing" -> Reply(c, "500")
    /\ UnchangedJobs
    /\ UNCHANGED <<tableVars, agent, outcome, processVars>>

(* update_status may raise, and so may what follows it, the audit row and  *)
(* the read of the results: the job is cancelled, the row may be, and the  *)
(* client is told neither.                                                 *)
CancelRecorded(c) ==
    /\ client[c].pc = "update"
    /\ \/ /\ execution' = [execution EXCEPT ![client[c].workflow].status = "cancelled"]
          /\ Reply(c, "200") \/ (MayRaise /\ Reply(c, "500"))
       \/ MayRaise /\ Reply(c, "500") /\ UNCHANGED execution
    /\ UNCHANGED <<jenkinsVars, results, agent, outcome, processVars>>

-----------------------------------------------------------------------------
(* The /jobs routes call the same service instance. *)

SubmitJob(c) ==
    /\ "submit_job" \in ClientRoutes
    /\ Cardinality(Strays) < MaxStrays
    /\ client[c].pc = "idle"
    /\ Submit(c, External) \/ SubmitRefused(c)
    /\ client' = [client EXCEPT ![c] = [NoRequestYet EXCEPT !.pc = "job"]]
    /\ UNCHANGED <<tableVars, agent, outcome, processVars>>

JobRoute(c, j) ==
    /\ client[c].pc = "idle"
    /\ \/ "get_job"     \in ClientRoutes /\ Begin(c, "copy", j)
       \/ "advance_job" \in ClientRoutes /\ Begin(c, "advance", j)
       \/ "cancel_job"  \in ClientRoutes /\ Begin(c, "cancel", j)
    /\ client' = [client EXCEPT ![c] = [NoRequestYet EXCEPT !.pc = "job"]]
    /\ UNCHANGED <<tableVars, agent, outcome, processVars>>

JobAnswered(c) ==
    /\ client[c].pc = "job"
    /\ call[c].pc \in Outcomes
    /\ call' = [call EXCEPT ![c] = NoCall]
    /\ Reply(c, CASE call[c].pc = "ok"      -> "200"
                  [] call[c].pc = "missing" -> "404"
                  [] call[c].pc = "invalid" -> "409"
                  [] call[c].pc = "down"    -> "503")
    /\ UnchangedJobs
    /\ UNCHANGED <<tableVars, agent, outcome, processVars>>

ClientStep(c) ==
    \/ ServiceStep(c) /\ UNCHANGED flowVars
    \/ CancelAnswered(c)
    \/ CancelRecorded(c)
    \/ JobAnswered(c)

-----------------------------------------------------------------------------
(* Restart.  _build_dependencies starts the service's numbering one past   *)
(* the highest job number in the executions table.                         *)

MaxRecorded == IF RecordedJobs = {} THEN 0
               ELSE CHOOSE n \in RecordedJobs : \A m \in RecordedJobs : m =< n

BadNextJobNumber == 1

NextExternalJobNumber == MaxRecorded + 1

Restart ==
    /\ restarts < MaxRestarts
    /\ restarts' = restarts + 1
    /\ JenkinsRestart(NextExternalJobNumber)
    /\ agent'   = [w \in Workflows |-> NoAttempt]
    /\ outcome' = [w \in Workflows |-> IF agent[w].pc = "idle" THEN outcome[w] ELSE "lost"]
    /\ client'  = [c \in Clients |-> NoRequestYet]
    /\ orphans'  = {}
    /\ deserted' = {}
    /\ UNCHANGED tableVars

FlowNext ==
    \/ \E w \in Workflows :
          \/ Execute(w) \/ Refuse(w) \/ AgentStep(w)
          \/ RecordExecutionRaises(w) \/ RepositoryRaises(w)
    \/ \E c \in Clients :
          \/ \E w \in Workflows : CancelWorkflow(c, w)
          \/ SubmitJob(c)
          \/ \E j \in Jobs : JobRoute(c, j)
          \/ ClientStep(c)
    \/ Restart

(* A thread that is running keeps running.  Requests, retries, exceptions  *)
(* and restarts happen or do not.                                          *)
FlowFairness ==
    /\ \A w \in Workflows : WF_vars(AgentStep(w))
    /\ \A c \in Clients : WF_vars(ClientStep(c))

FlowSpec == FlowInit /\ [][FlowNext]_vars /\ FlowFairness

-----------------------------------------------------------------------------
(***************************************************************************)
(* Properties                                                              *)
(***************************************************************************)

FlowTypeOK ==
    /\ JenkinsTypeOK
    /\ execution \in [Workflows -> [job : Jobs, status : JobStatus] \cup {NoRow}]
    /\ results \in [Workflows -> Nat]
    /\ agent \in [Workflows -> [pc : AgentPCs, job : Jobs \cup {NoJob},
                                seen : JobStatus \cup {"none"}, got : BOOLEAN]]
    /\ outcome \in [Workflows -> {"none", "error", "lost"} \cup JobStatus]
    /\ client \in [Clients -> [pc : ClientPCs, workflow : Workflows \cup {NoJob},
                               reply : Replies]]
    /\ orphans \subseteq Jobs
    /\ deserted \subseteq Workflows
    /\ restarts \in Nat

(* No two executions share an external job ID and create_execution never   *)
(* meets its IntegrityError, although the numbering restarts with every    *)
(* process and strangers submit jobs: every recorded number is below the   *)
(* next one, and a number about to be recorded is fresh and its own.       *)
RecordedNumbersAreFresh ==
    /\ \A w \in Workflows : Recorded(w) => execution[w].job < nextNumber
    /\ \A w \in Workflows : agent[w].pc = "record" =>
          /\ ~Recorded(w)
          /\ agent[w].job \notin RecordedJobs
          /\ agent[w].job < nextNumber
          /\ \A v \in Workflows \ {w} :
                agent[v].pc = "record" => agent[v].job # agent[w].job
    /\ \A v, w \in Workflows : Recorded(v) /\ Recorded(w) /\ v # w =>
          execution[v].job # execution[w].job

(* EXE-4 (docs/modules/05-mock-execution.md:31): "A duplicate submission   *)
(* key returns the original job rather than creating another job."  That   *)
(* is so of every attempt that failed, was refused, or lost its thread,    *)
(* except one: where recording a job raised, the next attempt submits the  *)
(* plan again.  The job that was not recorded then never comes back: no    *)
(* row has its number and no attempt works on it.                          *)
OneJobPerWorkflow ==
    /\ \A i, j \in Jobs \ orphans :
          jobRequest[i] = jobRequest[j] /\ jobRequest[i] \in Workflows => i = j
    /\ orphans \cap RecordedJobs = {}
    /\ \A w \in Workflows : agent[w].job \notin orphans

(* A row that says queued is being worked on by the thread that created it *)
(* or was left by a process that has ended, in which case the service does *)
(* not know its job; else an exception nobody catches ended that thread.   *)
(* An error the service raises never leaves a row behind, nor does what a  *)
(* copy of the job may show.                                               *)
QueuedIsDriven ==
    \A w \in Workflows :
        execution[w].status = "queued" =>
            \/ agent[w].pc \in Driving
            \/ ~Known(execution[w].job)
            \/ w \in deserted

(* The flow keeps what ExecutionContract promises. *)
Contract == INSTANCE ExecutionContract WITH
    busy <- [w \in Workflows |-> agent[w].pc # "idle"],
    row  <- [w \in Workflows |-> execution[w].status]

FlowKeepsContract == Contract!Spec

(* Every execute call ends, whatever the other threads do to its job. *)
AttemptEnds == \A w \in Workflows : agent[w].pc # "idle" ~> agent[w].pc = "idle"

(* api/jenkins_routes.py:5-7: "both paths share the same instance, so what *)
(* this endpoint reports is exactly what the workflow saw."  When nobody   *)
(* is at work, the finished execution and the job it maps to must agree.   *)
EndpointAgreesWithExecution ==
    \A w \in Workflows :
        (/\ IsTerminal(execution[w].status)
         /\ Known(execution[w].job)
         /\ agent[w].pc = "idle"
         /\ \A t \in Callers : call[t].pc = "idle"
         /\ \A c \in Clients : client[c].pc = "idle")
        => jobStatus[execution[w].job] = execution[w].status

=============================================================================
