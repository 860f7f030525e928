------------------------- MODULE ExecutionFlow_proofs --------------------------
(***************************************************************************)
(* Safety of the execution agent and its tables, for any number of         *)
(* workflows, of clients, of posted jobs and of restarts.                  *)
(*                                                                         *)
(* A number that is about to be recorded is fresh because it was below the *)
(* next number when it was issued and no other thread can have issued it:  *)
(* within a process by JenkinsInv, across a restart because the numbering  *)
(* starts past the largest recorded number.  That no workflow has two jobs *)
(* needs to know where each of them is accounted for: in the hands of the  *)
(* thread that submitted it, or in the workflow's row, which is what the   *)
(* lookup of the next attempt finds, or else among the orphans, which are  *)
(* the jobs that could not be recorded.  That a row in the queue is driven *)
(* needs to know that the loop of run_to_completion is left only with a    *)
(* job that will never be queued again.  That the flow implements its      *)
(* contract needs to know how far the results of the attempt are.          *)
(***************************************************************************)
EXTENDS ExecutionFlow, MockJenkins_proofs, FiniteOrders

Started == JobStatus \ {"queued"}

(* The loop is left with a job that has started, and a job never goes back *)
(* to the queue.                                                           *)
LoopLeavesTheQueue ==
    \A t \in Callers :
        /\ call[t].pc \in InTransition => call[t].target # "queued"
        /\ call[t].loop /\ call[t].pc = "copy" => jobStatus[call[t].job] # "queued"
        /\ call[t].loop /\ call[t].pc = "ok" => call[t].seen \in Started

AgentsHold ==
    \A w \in Workflows :
        /\ agent[w].pc = "record" => call[w].pc = "ok" /\ Known(agent[w].job)
        /\ agent[w].pc = "collect" => call[w].loop
        /\ agent[w].pc \in {"submit", "record"} => ~Recorded(w)
        /\ agent[w].pc \in Driving => Recorded(w) /\ agent[w].job = execution[w].job
        /\ agent[w].pc \in {"idle", "lookup", "submit"} => agent[w].job = NoJob
        /\ agent[w].pc \in {"results", "status"} => agent[w].seen \in Started

ClientsHold ==
    \A c \in Clients :
        client[c].pc \in {"cancel", "update"} =>
            client[c].workflow \in Workflows /\ Recorded(client[c].workflow)

JobsAreAccountedFor ==
    \A w \in Workflows, j \in Jobs :
        jobRequest[j] = w => \/ agent[w].pc = "record" /\ agent[w].job = j
                             \/ Recorded(w) /\ execution[w].job = j
                             \/ j \in orphans

(* A job that could not be recorded is an old one, and nobody's. *)
OrphansHold ==
    \A j \in orphans :
        /\ j < nextNumber
        /\ j \notin RecordedJobs
        /\ \A w \in Workflows : agent[w].job # j

FlowInv ==
    /\ JenkinsInv
    /\ LoopLeavesTheQueue
    /\ FlowTypeOK
    /\ AgentsHold
    /\ ClientsHold
    /\ RecordedNumbersAreFresh
    /\ JobsAreAccountedFor
    /\ OrphansHold
    /\ QueuedIsDriven

-----------------------------------------------------------------------------
(* The number a new process starts with is past every recorded one. *)
LEMMA NextNumberIsFresh ==
    ASSUME FlowTypeOK
    PROVE  /\ NextExternalJobNumber \in Nat
           /\ \A w \in Workflows : Recorded(w) => execution[w].job < NextExternalJobNumber
<1>1. \A w \in Workflows : Recorded(w) => execution[w].job \in Jobs
    BY DEF FlowTypeOK, Recorded
<1>2. RecordedJobs \in SUBSET Jobs
    BY <1>1 DEF RecordedJobs
<1>3. \A w \in Workflows : Recorded(w) => execution[w].job \in RecordedJobs
    BY DEF RecordedJobs
<1>4. CASE RecordedJobs = {}
    <2>1. MaxRecorded = 0
        BY <1>4 DEF MaxRecorded
    <2> QED BY <1>3, <1>4, <2>1 DEF NextExternalJobNumber
<1>5. CASE RecordedJobs # {}
    <2>1. \E n \in RecordedJobs : \A m \in RecordedJobs : m =< n
        <3>1. RecordedJobs \in SUBSET Nat /\ \A m \in RecordedJobs : m =< LastJob
            BY <1>2, ServiceConstants DEF Jobs
        <3> QED BY <1>5, <3>1, GreatestNumber, ServiceConstants
    <2>2. MaxRecorded \in RecordedJobs /\ \A m \in RecordedJobs : m =< MaxRecorded
        <3> HIDE DEF RecordedJobs
        <3>1. MaxRecorded = CHOOSE n \in RecordedJobs : \A m \in RecordedJobs : m =< n
            BY <1>5 DEF MaxRecorded
        <3> QED BY <2>1, <3>1
    <2>3. MaxRecorded \in Nat /\ \A m \in RecordedJobs : m \in Nat
        BY <1>2, <2>2, ServiceConstants DEF Jobs
    <2>4. ASSUME NEW w \in Workflows, Recorded(w)
          PROVE  execution[w].job < MaxRecorded + 1
        <3>1. execution[w].job \in RecordedJobs
            BY <2>4 DEF RecordedJobs
        <3>2. execution[w].job =< MaxRecorded /\ execution[w].job \in Nat
            BY <2>2, <2>3, <3>1
        <3> QED BY <2>3, <3>2
    <2> QED BY <2>3, <2>4 DEF NextExternalJobNumber
<1> QED BY <1>4, <1>5

-----------------------------------------------------------------------------
(* What a thread does inside the service: it stays in its call, and at     *)
(* most moves its own job on.                                              *)
LEMMA ServiceFrame ==
    ASSUME JenkinsInv, LoopLeavesTheQueue, NEW t \in Callers, ServiceStep(t)
    PROVE  /\ \A u \in Callers \ {t} : call'[u] = call[u]
           /\ call'[t].loop = call[t].loop
           /\ UNCHANGED <<nextNumber, jobRequest>>
           /\ \A j \in Jobs : Known(j)' = Known(j)
           /\ \A j \in Jobs : jobStatus[j] # "queued" => jobStatus'[j] # "queued"
           /\ LoopLeavesTheQueue'
<1> USE DEF JenkinsInv, JenkinsTypeOK, InTransition
<1>1. CASE While(t)
    BY <1>1 DEF While, Goto, UnchangedJobs, Call, Known, LoopLeavesTheQueue, IsTerminal,
                Lifecycle!IsTerminal, Entries
<1>2. CASE Advance(t)
    <2> DEFINE found == jobStatus[call[t].job]
    <2>1. /\ AdvanceEntry(found) \in {"down", "invalid", "simulate", "check"}
          /\ AdvanceTarget(found) # "queued"
        BY AdvanceTargets DEF AdvanceTarget
    <2>2. /\ call[t].pc = "advance"
          /\ call' = [call EXCEPT ![t].pc = AdvanceEntry(found),
                                  ![t].target = AdvanceTarget(found)]
          /\ UNCHANGED <<nextNumber, jobStatus, jobRequest>>
        BY <1>2 DEF Advance, UnchangedJobs
    <2> HIDE DEF found
    <2> QED BY <2>1, <2>2 DEF Call, Known, LoopLeavesTheQueue
<1>3. CASE Simulate(t)
    BY <1>3 DEF Simulate, Goto, Call, Known, LoopLeavesTheQueue
<1>4. CASE Cancel(t)
    <2> DEFINE ended == IsTerminal(jobStatus[call[t].job])
    <2>1. /\ call[t].pc = "cancel"
          /\ call' = IF ended THEN [call EXCEPT ![t].pc = "invalid"]
                     ELSE [call EXCEPT ![t].pc = "check", ![t].target = "cancelled"]
          /\ UNCHANGED <<nextNumber, jobStatus, jobRequest>>
        BY <1>4 DEF Cancel, UnchangedJobs
    <2> HIDE DEF ended
    <2> QED BY <2>1 DEF Call, Known, LoopLeavesTheQueue
<1>5. CASE Check(t)
    BY <1>5 DEF Check, Goto, UnchangedJobs, Call, Known, LoopLeavesTheQueue
<1>6. CASE Set(t)
    <2>1. /\ call[t].job \in Jobs /\ jobStatus[call[t].job] # "absent"
          /\ call[t].target \in JobStatus /\ call[t].target # "queued"
        BY <1>6 DEF Set, NumbersNeverCollide, Known, TargetsAreSound, LoopLeavesTheQueue
    <2>2. \A j \in Jobs : Known(j)' = Known(j)
        BY <1>6, <2>1 DEF Set, Known, JobStatus, Lifecycle!JobStatus
    <2>3. \A j \in Jobs : jobStatus[j] # "queued" => jobStatus'[j] # "queued"
        BY <1>6, <2>1 DEF Set
    <2>4. \A u \in Callers \ {t} : call'[u] = call[u]
        BY <1>6 DEF Set, Goto
    <2>5. call'[t].pc = "copy" => jobStatus'[call'[t].job] = call[t].target
        BY <1>6, <2>1 DEF Set, Goto, Call
    <2>6. /\ call'[t].pc \in {"while", "copy"} /\ call'[t].loop = call[t].loop
          /\ UNCHANGED <<nextNumber, jobRequest>>
        BY <1>6 DEF Set, Goto, Call
    <2>7. \A u \in Callers \ {t} : call[u].pc = "copy" => call[u].job \in Jobs
        BY DEF NumbersNeverCollide, Known
    <2>8. LoopLeavesTheQueue'
        BY <2>1, <2>3, <2>4, <2>5, <2>6, <2>7 DEF LoopLeavesTheQueue
    <2> QED BY <2>2, <2>3, <2>4, <2>6, <2>8
<1>7. CASE Copy(t)
    <2>1. call[t].job \in Jobs /\ jobStatus[call[t].job] \in JobStatus
        BY <1>7 DEF Copy, NumbersNeverCollide, Known
    <2>2. /\ call[t].pc = "copy"
          /\ \A u \in Callers \ {t} : call'[u] = call[u]
          /\ UNCHANGED <<nextNumber, jobStatus, jobRequest>>
        BY <1>7 DEF Copy, UnchangedJobs
    <2>3. /\ call'[t].pc = "ok" /\ call'[t].loop = call[t].loop
          /\ call'[t].seen = jobStatus[call[t].job]
        BY <1>7 DEF Copy, Call
    <2>4. LoopLeavesTheQueue'
        BY <2>1, <2>2, <2>3 DEF LoopLeavesTheQueue, Started
    <2> QED BY <2>2, <2>3, <2>4 DEF Known
<1> QED BY <1>1, <1>2, <1>3, <1>4, <1>5, <1>6, <1>7 DEF ServiceStep

LEMMA CallersOfFlow ==
    /\ Workflows \subseteq Callers /\ Clients \subseteq Callers
    /\ Workflows \subseteq Requests /\ External \in Requests
    /\ NoRequest \notin Workflows /\ External \notin Workflows
BY FlowConstants, ServiceConstants

LEMMA FlowInvInit == FlowInit => FlowInv
<1> SUFFICES ASSUME FlowInit PROVE FlowInv
    OBVIOUS
<1>1. JenkinsInv
    BY JenkinsInvInit DEF FlowInit
<1>2. \A w \in Workflows : ~Recorded(w) /\ agent[w].pc = "idle"
    BY DEF FlowInit, Recorded, NoAttempt
<1>3. \A j \in Jobs : jobRequest[j] = NoRequest
    BY DEF FlowInit, JenkinsInit
<1>4. \A t \in Callers : call[t] = NoCall
    BY DEF FlowInit, JenkinsInit
<1>5. FlowTypeOK
    BY <1>1 DEF FlowInit, FlowTypeOK, JenkinsInv, NoAttempt, NoRequestYet, AgentPCs, Driving, ClientPCs,
                Replies
<1>6. LoopLeavesTheQueue
    <2>1. NoCall.pc = "idle"
        BY DEF NoCall
    <2>2. \A t \in Callers : call[t].pc = "idle"
        BY <1>4, <2>1
    <2> QED BY <2>2 DEF LoopLeavesTheQueue, InTransition
<1>7. ClientsHold
    BY DEF FlowInit, ClientsHold, NoRequestYet
<1>8. AgentsHold /\ RecordedNumbersAreFresh
    BY <1>2 DEF AgentsHold, RecordedNumbersAreFresh, FlowInit, NoAttempt, Driving
<1>9. JobsAreAccountedFor
    <2>1. \A w \in Workflows, j \in Jobs : jobRequest[j] # w
        BY <1>3, CallersOfFlow
    <2> QED BY <2>1 DEF JobsAreAccountedFor
<1>10. QueuedIsDriven /\ OrphansHold
    BY DEF FlowInit, QueuedIsDriven, NoRow, OrphansHold
<1> QED BY <1>1, <1>5, <1>6, <1>7, <1>8, <1>9, <1>10 DEF FlowInv

-----------------------------------------------------------------------------
(* The service keeps its invariant under the flow: what the agent and the  *)
(* routes do to it are calls of it, except that a recorded submission goes *)
(* straight on to run_to_completion, and that a restart empties it.        *)

LEMMA JenkinsStepInFlow ==
    ASSUME JenkinsInv, JenkinsNext \/ UNCHANGED jenkinsVars
    PROVE  JenkinsInv'
BY JenkinsInvStep

LEMMA RunToCompletionBegins ==
    ASSUME JenkinsInv, NEW t \in Callers, NEW number \in Jobs, Known(number), UnchangedJobs,
           call' = [call EXCEPT ![t] = [NoCall EXCEPT !.pc = "while", !.job = number,
                                                      !.loop = TRUE]]
    PROVE  JenkinsInv'
<1> DEFINE new == [NoCall EXCEPT !.pc = "while", !.job = number, !.loop = TRUE]
<1>1. new \in Call
    BY DEF NoCall, Call, Entries
<1>2. new.pc = "while" /\ new.job = number /\ new.seen = "none"
    BY DEF NoCall
<1>3. call' = [call EXCEPT ![t] = new]
    OBVIOUS
<1> HIDE DEF new
<1>4. JenkinsTypeOK'
    BY <1>1, <1>3 DEF JenkinsInv, JenkinsTypeOK, UnchangedJobs
<1>5. \A u \in Callers : call'[u] = IF u = t THEN new ELSE call[u]
    BY <1>3 DEF JenkinsInv, JenkinsTypeOK
<1>6. \A j : Known(j)' = Known(j)
    BY DEF Known, UnchangedJobs
<1>7. NumbersNeverCollide' /\ TargetsAreSound' /\ CompletedHasResults'
    BY <1>2, <1>5, <1>6
       DEF JenkinsInv, UnchangedJobs, NumbersNeverCollide, TargetsAreSound, InTransition,
           CompletedHasResults
<1> QED BY <1>4, <1>7 DEF JenkinsInv

LEMMA RestartInv == \A n \in Nat : JenkinsRestart(n) => JenkinsInv'
<1> SUFFICES ASSUME NEW n \in Nat, JenkinsRestart(n) PROVE JenkinsInv'
    OBVIOUS
<1>1. nextNumber' \in Nat
    BY ServiceConstants DEF JenkinsRestart, Higher
<1>2. NoCall \in Call
    BY DEF NoCall, Call
<1>3. JenkinsTypeOK'
    BY <1>1, <1>2 DEF JenkinsRestart, JenkinsTypeOK
<1> QED BY <1>3 DEF JenkinsRestart, JenkinsInv, NumbersNeverCollide, TargetsAreSound, InTransition,
                    CompletedHasResults, NoCall

-----------------------------------------------------------------------------
(* Each action of the flow keeps the invariant. *)

LEMMA FlowJenkinsStep == FlowInv /\ [FlowNext]_vars => JenkinsInv'
<1> SUFFICES ASSUME FlowInv, [FlowNext]_vars PROVE JenkinsInv'
    OBVIOUS
<1> USE CallersOfFlow
<1>1. JenkinsInv
    BY DEF FlowInv
<1>2. CASE UNCHANGED jenkinsVars
    BY <1>1, <1>2, JenkinsStepInFlow
<1>3. ASSUME NEW w \in Workflows,
             \/ Execute(w) \/ Refuse(w) \/ AgentStep(w)
             \/ RecordExecutionRaises(w) \/ RepositoryRaises(w)
      PROVE  JenkinsInv'
    <2>1. CASE SubmitPlan(w)
        BY <1>1, <2>1, JenkinsStepInFlow DEF SubmitPlan, JenkinsNext
    <2>2. CASE RecordExecution(w)
        <3>1. /\ agent[w].pc = "record" /\ Known(agent[w].job) /\ agent[w].job \in Jobs
              /\ call[w].pc = "ok"
            BY <2>2 DEF RecordExecution, FlowInv, AgentsHold, Known
        <3>2. CASE call' = [call EXCEPT ![w] = NoCall] /\ UnchangedJobs
            BY <1>1, <3>1, <3>2, JenkinsStepInFlow DEF Return, Outcomes, JenkinsNext
        <3> QED BY <1>1, <2>2, <3>1, <3>2, RunToCompletionBegins DEF RecordExecution
    <2>3. CASE ServiceStep(w)
        BY <1>1, <2>3, JenkinsStepInFlow DEF JenkinsNext
    <2>4. CASE Collected(w)
        BY <1>1, <2>4, JenkinsStepInFlow DEF Collected, Return, JenkinsNext
    <2>5. CASE RecordExecutionRaises(w)
        <3>1. Return(w)
            BY <2>5 DEF RecordExecutionRaises, FlowInv, AgentsHold, Return, Outcomes
        <3> QED BY <1>1, <3>1, JenkinsStepInFlow DEF JenkinsNext
    <2> QED BY <1>2, <1>3, <2>1, <2>2, <2>3, <2>4, <2>5
            DEF AgentStep, Execute, Refuse, Lookup, SubmitPlanFails, RecordResults, RecordStatus,
                RecordFailure, RepositoryRaises
<1>4. ASSUME NEW c \in Clients, NEW w \in Workflows, CancelWorkflow(c, w)
      PROVE  JenkinsInv'
    <2>1. CASE Begin(c, "cancel", execution[w].job) /\ Recorded(w)
        <3>1. execution[w].job \in Jobs
            BY <2>1 DEF FlowInv, FlowTypeOK, Recorded
        <3> QED BY <1>1, <2>1, <3>1, JenkinsStepInFlow DEF JenkinsNext, Entries
    <2> QED BY <1>2, <1>4, <2>1 DEF CancelWorkflow
<1>5. ASSUME NEW c \in Clients, SubmitJob(c) \/ ClientStep(c)
      PROVE  JenkinsInv'
    <2>1. CASE SubmitJob(c)
        BY <1>1, <2>1, JenkinsStepInFlow DEF SubmitJob, JenkinsNext
    <2>2. CASE ServiceStep(c)
        BY <1>1, <2>2, JenkinsStepInFlow DEF JenkinsNext
    <2>3. CASE CancelAnswered(c) \/ JobAnswered(c)
        <3>1. Return(c)
            BY <2>3 DEF CancelAnswered, JobAnswered, Return, Outcomes
        <3> QED BY <1>1, <3>1, JenkinsStepInFlow DEF JenkinsNext
    <2> QED BY <1>2, <1>5, <2>1, <2>2, <2>3 DEF ClientStep, CancelRecorded
<1>6. ASSUME NEW c \in Clients, NEW j \in Jobs, JobRoute(c, j)
      PROVE  JenkinsInv'
    BY <1>1, <1>6, JenkinsStepInFlow DEF JobRoute, JenkinsNext, Entries
<1>7. CASE Restart
    BY <1>7, RestartInv, NextNumberIsFresh DEF Restart, FlowInv
<1> QED BY <1>2, <1>3, <1>4, <1>5, <1>6, <1>7 DEF FlowNext, vars

FlowRest ==
    /\ LoopLeavesTheQueue
    /\ FlowTypeOK
    /\ AgentsHold
    /\ ClientsHold
    /\ RecordedNumbersAreFresh
    /\ JobsAreAccountedFor
    /\ OrphansHold
    /\ QueuedIsDriven

(* What numbers and jobs are about stays the same when rows only change    *)
(* their status and nobody starts or stops holding a fresh number.         *)
LEMMA NumbersKept ==
    ASSUME FlowInv,
           \A v \in Workflows : /\ Recorded(v)' = Recorded(v)
                                /\ execution'[v].job = execution[v].job
                                /\ (agent'[v].pc = "record") = (agent[v].pc = "record")
                                /\ agent[v].pc = "record" => agent'[v].job = agent[v].job
                                /\ agent'[v].job \in {agent[v].job, NoJob},
           UNCHANGED <<nextNumber, jobRequest, orphans>>
    PROVE  RecordedNumbersAreFresh' /\ JobsAreAccountedFor' /\ OrphansHold'
<1> USE DEF FlowInv, processVars
<1>1. RecordedJobs' = RecordedJobs
    BY DEF RecordedJobs
<1>2. RecordedNumbersAreFresh'
    BY <1>1 DEF RecordedNumbersAreFresh
<1>3. JobsAreAccountedFor'
    BY DEF JobsAreAccountedFor
<1>4. OrphansHold'
    BY <1>1, ServiceConstants DEF OrphansHold, FlowTypeOK
<1> QED BY <1>2, <1>3, <1>4

(* The status of a row is overwritten, and nothing else of the table. *)
LEMMA StatusWritten ==
    ASSUME FlowTypeOK, NEW w \in Workflows, Recorded(w), NEW s \in JobStatus,
           execution' = [execution EXCEPT ![w].status = s]
    PROVE  /\ execution' \in [Workflows -> [job : Jobs, status : JobStatus] \cup {NoRow}]
           /\ \A v \in Workflows : /\ Recorded(v)' = Recorded(v)
                                   /\ execution'[v].job = execution[v].job
                                   /\ v # w => execution'[v].status = execution[v].status
           /\ execution'[w].status = s
<1>1. execution[w] \in [job : Jobs, status : JobStatus]
    BY DEF FlowTypeOK, Recorded
<1>2. [execution[w] EXCEPT !.status = s] \in [job : Jobs, status : JobStatus]
    BY <1>1
<1>3. \A r \in [job : Jobs, status : JobStatus] : r # NoRow
    BY ServiceConstants DEF NoRow
<1> QED BY <1>1, <1>2, <1>3 DEF FlowTypeOK, Recorded

Attempt == [pc : AgentPCs, job : Jobs \cup {NoJob}, seen : JobStatus \cup {"none"}, got : BOOLEAN]

(* A call of execute goes on. *)
LEMMA AgentGoesOn ==
    ASSUME agent \in [Workflows -> Attempt], NEW w \in Workflows, NEW pc \in AgentPCs,
           NEW j \in Jobs \cup {NoJob}
    PROVE  /\ [agent EXCEPT ![w].pc = pc] \in [Workflows -> Attempt]
           /\ [agent EXCEPT ![w].pc = pc, ![w].job = j] \in [Workflows -> Attempt]
BY DEF Attempt

(* A call of execute ends. *)
LEMMA AgentReturned ==
    ASSUME FlowTypeOK, NEW w \in Workflows,
           NEW result \in {"none", "error", "lost"} \cup JobStatus, AgentReturns(w, result)
    PROVE  /\ agent' \in [Workflows -> Attempt]
           /\ outcome' \in [Workflows -> {"none", "error", "lost"} \cup JobStatus]
           /\ agent'[w].pc = "idle" /\ agent'[w].job = NoJob
           /\ \A v \in Workflows : v # w => agent'[v] = agent[v]
BY DEF AgentReturns, NoAttempt, FlowTypeOK, AgentPCs, Attempt

(* The steps that leave the service alone. *)
LEMMA QuietStep ==
    ASSUME FlowInv, JenkinsInv', UNCHANGED jenkinsVars, NEW w \in Workflows,
           \/ Execute(w) \/ Refuse(w) \/ Lookup(w) \/ SubmitPlanFails(w) \/ RecordResults(w)
           \/ RecordStatus(w) \/ RecordFailure(w) \/ RepositoryRaises(w)
    PROVE  FlowRest'
<1> USE DEF FlowInv, processVars
<1>1. /\ LoopLeavesTheQueue' /\ JenkinsTypeOK'
      /\ UNCHANGED <<nextNumber, jobRequest, call>>
      /\ \A j : Known(j)' = Known(j)
    BY DEF LoopLeavesTheQueue, jenkinsVars, JenkinsInv, Known
<1>2. ASSUME NEW result \in {"none", "error", "lost"} \cup JobStatus, AgentReturns(w, result),
             agent[w].pc # "record",
             UNCHANGED <<results, client, orphans, restarts>>,
             deserted' \in SUBSET Workflows, deserted \subseteq deserted',
             \/ UNCHANGED execution /\ (agent[w].pc \notin Driving \/ w \in deserted')
             \/ /\ Recorded(w)
                /\ \E s \in Started : execution' = [execution EXCEPT ![w].status = s]
      PROVE  FlowRest'
    <2>1. /\ execution' \in [Workflows -> [job : Jobs, status : JobStatus] \cup {NoRow}]
          /\ \A v \in Workflows : /\ Recorded(v)' = Recorded(v)
                                  /\ execution'[v].job = execution[v].job
                                  /\ v # w => execution'[v].status = execution[v].status
          /\ \/ execution'[w].status # "queued"
             \/ /\ execution'[w].status = execution[w].status
                /\ agent[w].pc \notin Driving \/ w \in deserted'
        BY <1>2, StatusWritten DEF Started, FlowTypeOK, Recorded
    <2>2. FlowTypeOK'
        BY <1>1, <1>2, <2>1, AgentReturned DEF FlowTypeOK, Attempt
    <2>3. /\ agent'[w].pc = "idle" /\ agent'[w].job = NoJob
          /\ \A v \in Workflows : v # w => agent'[v] = agent[v]
        BY <1>2, AgentReturned
    <2>4. RecordedNumbersAreFresh' /\ JobsAreAccountedFor' /\ OrphansHold'
        BY <1>1, <1>2, <2>1, <2>3, NumbersKept
    <2>5. AgentsHold' /\ ClientsHold' /\ QueuedIsDriven'
        BY <1>1, <1>2, <2>1, <2>3 DEF AgentsHold, ClientsHold, QueuedIsDriven, Driving
    <2> QED BY <1>1, <2>2, <2>4, <2>5 DEF FlowRest
<1>3. CASE Execute(w) \/ RecordResults(w)
    <2>1. /\ UNCHANGED <<execution, outcome, client, processVars>>
          /\ \E pc \in {"lookup", "status"} : agent' = [agent EXCEPT ![w].pc = pc]
          /\ agent[w].pc \in {"idle", "results"}
          /\ agent[w].pc = "results" <=> agent'[w].pc = "status"
          /\ results' \in [Workflows -> Nat]
        BY <1>3 DEF Execute, RecordResults, AgentGoto, tableVars, FlowTypeOK
    <2>2. FlowTypeOK'
        <3>1. PICK pc \in {"lookup", "status"} : agent' = [agent EXCEPT ![w].pc = pc]
            BY <2>1
        <3>2. agent' \in [Workflows -> Attempt]
            BY <3>1, AgentGoesOn DEF FlowTypeOK, Attempt, AgentPCs, Driving
        <3> QED BY <1>1, <2>1, <3>2 DEF FlowTypeOK, Attempt
    <2>3. RecordedNumbersAreFresh' /\ JobsAreAccountedFor' /\ OrphansHold'
        BY <1>1, <2>1, NumbersKept DEF FlowTypeOK, Recorded
    <2>4. AgentsHold' /\ ClientsHold' /\ QueuedIsDriven'
        BY <1>1, <2>1 DEF FlowTypeOK, AgentsHold, ClientsHold, QueuedIsDriven, Recorded, Driving
    <2> QED BY <1>1, <2>2, <2>3, <2>4 DEF FlowRest
<1>4. CASE Refuse(w)
    <2>1. UNCHANGED <<execution, results, agent, client, processVars>>
        BY <1>4 DEF Refuse, tableVars
    <2>2. FlowTypeOK'
        BY <1>1, <1>4, <2>1 DEF FlowTypeOK, Refuse
    <2>3. RecordedNumbersAreFresh' /\ JobsAreAccountedFor' /\ OrphansHold'
        BY <1>1, <2>1, NumbersKept DEF Recorded
    <2>4. AgentsHold' /\ ClientsHold' /\ QueuedIsDriven'
        BY <1>1, <2>1 DEF AgentsHold, ClientsHold, QueuedIsDriven, Recorded
    <2> QED BY <1>1, <2>2, <2>3, <2>4 DEF FlowRest
<1>5. CASE Lookup(w)
    <2>1. CASE Recorded(w)
        <3>1. execution[w].status \in JobStatus
            BY <2>1 DEF FlowTypeOK, Recorded
        <3> QED BY <1>2, <1>5, <2>1, <3>1 DEF Lookup, tableVars, FlowTypeOK, Driving
    <2>2. CASE ~Recorded(w)
        <3>1. /\ UNCHANGED <<execution, results, outcome, client, processVars>>
              /\ agent' = [agent EXCEPT ![w].pc = "submit"] /\ agent[w].pc = "lookup"
            BY <1>5, <2>2 DEF Lookup, AgentGoto, tableVars
        <3>2. FlowTypeOK'
            BY <1>1, <3>1 DEF FlowTypeOK, AgentPCs
        <3>3. RecordedNumbersAreFresh' /\ JobsAreAccountedFor' /\ OrphansHold'
            BY <1>1, <3>1, NumbersKept DEF FlowTypeOK, Recorded
        <3>4. AgentsHold' /\ ClientsHold' /\ QueuedIsDriven'
            BY <1>1, <2>2, <3>1
               DEF FlowTypeOK, AgentsHold, ClientsHold, QueuedIsDriven, Recorded, Driving
        <3> QED BY <1>1, <3>2, <3>3, <3>4 DEF FlowRest
    <2> QED BY <2>1, <2>2
<1>6. CASE SubmitPlanFails(w)
    BY <1>2, <1>6 DEF SubmitPlanFails, AgentReturnsAudited, tableVars, FlowTypeOK, Driving
<1>7. CASE RecordStatus(w)
    <2>1. /\ agent[w].pc = "status" /\ agent[w].seen \in Started /\ Recorded(w)
        BY <1>7 DEF RecordStatus, AgentsHold, Driving
    <2> QED BY <1>2, <1>7, <2>1 DEF RecordStatus, AgentReturnsAudited, Started, FlowTypeOK
<1>8. CASE RecordFailure(w)
    <2>1. agent[w].pc = "failed" /\ Recorded(w)
        BY <1>8 DEF RecordFailure, AgentsHold, Driving
    <2>2. "failed" \in Started
        BY DEF Started, JobStatus, Lifecycle!JobStatus
    <2> QED BY <1>2, <1>8, <2>1, <2>2 DEF RecordFailure, AgentReturnsAudited, FlowTypeOK
<1>9. CASE RepositoryRaises(w)
    <2>1. /\ agent[w].pc \in {"lookup", "results", "status", "failed"}
          /\ AgentReturns(w, "lost")
          /\ UNCHANGED <<execution, results, client, orphans, restarts>>
          /\ deserted' = IF agent[w].pc \in Driving THEN deserted \cup {w} ELSE deserted
        BY <1>9 DEF RepositoryRaises, tableVars
    <2> QED BY <1>2, <2>1 DEF FlowTypeOK
<1> QED BY <1>3, <1>4, <1>5, <1>6, <1>7, <1>8, <1>9

(* The plan is submitted: the new number is above every recorded one, and  *)
(* no other job is the workflow's.                                         *)
LEMMA SubmitPlanStep ==
    ASSUME FlowInv, JenkinsInv', NEW w \in Workflows, SubmitPlan(w)
    PROVE  FlowRest'
<1> USE DEF FlowInv, processVars
<1>1. /\ agent[w].pc = "submit" /\ ~Recorded(w)
      /\ nextNumber \in Jobs /\ nextNumber \in Nat
      /\ jobRequest' = [jobRequest EXCEPT ![nextNumber] = w]
      /\ jobStatus' = [jobStatus EXCEPT ![nextNumber] = "queued"]
      /\ nextNumber' = nextNumber + 1
      /\ UNCHANGED <<execution, results, outcome, client, processVars>>
      /\ agent' = [agent EXCEPT ![w].pc = "record", ![w].job = nextNumber]
    BY DEF SubmitPlan, Submit, AgentsHold, tableVars, JenkinsInv, JenkinsTypeOK
<1>2. /\ call'[w].pc = "ok" /\ call'[w].loop = FALSE
      /\ \A t \in Callers : t # w => call'[t] = call[t]
    BY CallersOfFlow DEF SubmitPlan, Submit, JenkinsInv, JenkinsTypeOK, NoCall
<1>3. /\ agent'[w].pc = "record" /\ agent'[w].job = nextNumber
      /\ \A v \in Workflows : v # w => agent'[v] = agent[v]
    BY <1>1 DEF FlowTypeOK
<1>4. /\ jobStatus'[nextNumber] # "absent"
      /\ ~Known(nextNumber)
      /\ \A j \in Jobs : j # nextNumber => Known(j)' = Known(j)
    BY <1>1 DEF Known, JenkinsInv, JenkinsTypeOK, NumbersNeverCollide
<1>5. \A v \in Workflows : /\ Recorded(v)' = Recorded(v)
                           /\ Recorded(v) => /\ execution[v].job \in Jobs
                                             /\ execution[v].job < nextNumber
    BY <1>1 DEF Recorded, FlowTypeOK, RecordedNumbersAreFresh
<1>6. RecordedJobs' = RecordedJobs /\ nextNumber \notin RecordedJobs
    BY <1>1, <1>5 DEF RecordedJobs
<1>7. LoopLeavesTheQueue'
    <2>1. \A t \in Callers : t # w /\ call[t].pc = "copy" => Known(call[t].job)
        BY DEF JenkinsInv, NumbersNeverCollide
    <2>2. \A t \in Callers : t # w /\ call[t].pc = "copy" =>
              call[t].job # nextNumber /\ jobStatus'[call[t].job] = jobStatus[call[t].job]
        BY <1>1, <1>4, <2>1 DEF JenkinsInv, JenkinsTypeOK, Known
    <2> QED BY <1>2, <2>2 DEF LoopLeavesTheQueue, InTransition
<1>8. FlowTypeOK'
    <2>1. agent' \in [Workflows -> Attempt]
        BY <1>1, AgentGoesOn DEF FlowTypeOK, Attempt, AgentPCs, Driving
    <2> QED BY <1>1, <2>1 DEF FlowTypeOK, Attempt, JenkinsInv
<1>9. AgentsHold' /\ ClientsHold'
    <2>1. \A v \in Workflows : v # w /\ Known(agent[v].job) => Known(agent[v].job)'
        BY <1>3, <1>4 DEF Known
    <2>2. ClientsHold'
        BY <1>1, <1>5 DEF ClientsHold
    <2>3. Known(agent[w].job)'
        BY <1>1, <1>3, <1>4 DEF Known
    <2>4. AgentsHold'
        BY <1>1, <1>2, <1>3, <1>5, <2>1, <2>3, CallersOfFlow DEF AgentsHold, Driving
    <2> QED BY <2>2, <2>4
<1>10. RecordedNumbersAreFresh'
    <2>1. \A v \in Workflows : v # w /\ agent[v].pc = "record" =>
              agent[v].job < nextNumber /\ agent[v].job \in Nat /\ agent[v].job # nextNumber
        <3>1. nextNumber \in Nat
            BY <1>1
        <3>2. \A v \in Workflows : agent[v].pc = "record" =>
                  agent[v].job < nextNumber /\ agent[v].job \in Nat
            BY ServiceConstants DEF RecordedNumbersAreFresh, AgentsHold, Known, Jobs
        <3> QED BY <3>1, <3>2
    <2>2. \A v \in Workflows : Recorded(v) => execution[v].job \in Nat
        BY <1>5, ServiceConstants DEF Jobs
    <2>3. \A v \in Workflows : Recorded(v)' => execution'[v].job < nextNumber'
        BY <1>1, <1>5, <2>2
    <2>4. ASSUME NEW v \in Workflows, agent'[v].pc = "record"
          PROVE  /\ ~Recorded(v)'
                 /\ agent'[v].job \notin RecordedJobs'
                 /\ agent'[v].job < nextNumber'
                 /\ \A u \in Workflows \ {v} :
                       agent'[u].pc = "record" => agent'[u].job # agent'[v].job
        <3>1. CASE v = w
            <4>1. ~Recorded(w)' /\ agent'[w].job \notin RecordedJobs' /\ agent'[w].job < nextNumber'
                BY <1>1, <1>3, <1>5, <1>6
            <4>2. \A u \in Workflows \ {w} :
                      agent'[u].pc = "record" => agent'[u].job # agent'[w].job
                BY <1>3, <2>1
            <4> QED BY <3>1, <4>1, <4>2
        <3>2. CASE v # w
            <4>1. /\ agent'[v] = agent[v] /\ agent[v].job < nextNumber /\ agent[v].job \in Nat
                  /\ agent[v].job # nextNumber
                BY <1>3, <2>1, <2>4, <3>2
            <4>2. /\ ~Recorded(v)' /\ agent'[v].job \notin RecordedJobs'
                  /\ agent'[v].job < nextNumber'
                BY <1>1, <1>5, <1>6, <2>4, <4>1 DEF RecordedNumbersAreFresh
            <4>3. ASSUME NEW u \in Workflows \ {v}, agent'[u].pc = "record"
                  PROVE  agent'[u].job # agent'[v].job
                <5>1. CASE u = w
                    BY <1>3, <4>1, <5>1
                <5>2. CASE u # w
                    BY <1>3, <2>4, <4>1, <4>3, <5>2 DEF RecordedNumbersAreFresh
                <5> QED BY <5>1, <5>2
            <4> QED BY <4>2, <4>3
        <3> QED BY <3>1, <3>2
    <2>5. \A u, v \in Workflows : Recorded(u)' /\ Recorded(v)' /\ u # v =>
              execution'[u].job # execution'[v].job
        BY <1>1, <1>5 DEF RecordedNumbersAreFresh
    <2> QED BY <2>3, <2>4, <2>5 DEF RecordedNumbersAreFresh
<1>11. JobsAreAccountedFor'
    <2> SUFFICES ASSUME NEW v \in Workflows, NEW j \in Jobs, jobRequest'[j] = v
                 PROVE  \/ agent'[v].pc = "record" /\ agent'[v].job = j
                        \/ Recorded(v)' /\ execution'[v].job = j
                        \/ j \in orphans'
        BY DEF JobsAreAccountedFor
    <2>1. CASE j = nextNumber
        BY <1>1, <1>3, <2>1 DEF JenkinsInv, JenkinsTypeOK
    <2>2. CASE j # nextNumber
        <3>1. jobRequest[j] = v
            BY <1>1, <2>2 DEF JenkinsInv, JenkinsTypeOK
        <3>2. \/ agent[v].pc = "record" /\ agent[v].job = j
              \/ Recorded(v) /\ execution[v].job = j
              \/ j \in orphans
            BY <3>1 DEF JobsAreAccountedFor
        <3>3. v # w \/ j \in orphans
            BY <1>1, <3>2
        <3> QED BY <1>1, <1>3, <1>5, <3>2, <3>3
    <2> QED BY <2>1, <2>2
<1>12. QueuedIsDriven'
    <2>1. \A v \in Workflows : Recorded(v) => Known(execution[v].job)' = Known(execution[v].job)
        BY <1>1, <1>4, <1>5
    <2>2. \A v \in Workflows : execution[v].status = "queued" => Recorded(v)
        BY DEF Recorded, NoRow
    <2> QED BY <1>1, <1>3, <2>1, <2>2 DEF QueuedIsDriven, Driving
<1>13. OrphansHold'
    <2>1. \A j \in orphans : j \in Nat /\ j < nextNumber
        BY ServiceConstants DEF OrphansHold, FlowTypeOK, Jobs
    <2>2. \A j \in orphans : j < nextNumber' /\ j # nextNumber
        BY <1>1, <2>1
    <2> QED BY <1>1, <1>3, <1>6, <2>2 DEF OrphansHold
<1> QED BY <1>7, <1>8, <1>9, <1>10, <1>11, <1>12, <1>13 DEF FlowRest

(* The job is recorded: no row has the key or the number, so the insertion *)
(* never conflicts.                                                        *)
LEMMA RecordExecutionStep ==
    ASSUME FlowInv, JenkinsInv', NEW w \in Workflows, RecordExecution(w)
    PROVE  FlowRest'
<1> USE DEF FlowInv, processVars
<1> DEFINE number == agent[w].job
           row    == [job |-> number, status |-> "queued"]
<1>1. /\ agent[w].pc = "record" /\ ~Recorded(w) /\ number \notin RecordedJobs
      /\ number \in Jobs /\ Known(number) /\ number < nextNumber
    BY DEF RecordExecution, AgentsHold, RecordedNumbersAreFresh, Known
<1>2. /\ execution' = [execution EXCEPT ![w] = row]
      /\ agent' = [agent EXCEPT ![w].pc = "collect"]
      /\ UNCHANGED <<outcome, results, client, processVars>>
      /\ UNCHANGED <<nextNumber, jobStatus, jobRequest>>
    BY <1>1 DEF RecordExecution, AgentGoto, UnchangedJobs
<1>3. /\ call'[w].pc = "while" /\ call'[w].loop
      /\ \A t \in Callers : t # w => call'[t] = call[t]
    BY <1>1, CallersOfFlow DEF RecordExecution, JenkinsInv, JenkinsTypeOK, NoCall
<1>4. \A j : Known(j)' = Known(j)
    BY <1>2 DEF Known
<1>5. row \in [job : Jobs, status : JobStatus] /\ row # NoRow
    BY <1>1, ServiceConstants DEF NoRow, JobStatus, Lifecycle!JobStatus
<1>6. /\ execution'[w].job = number /\ execution'[w].status = "queued" /\ Recorded(w)'
      /\ \A v \in Workflows : v # w => execution'[v] = execution[v] /\ Recorded(v)' = Recorded(v)
    BY <1>2, <1>5 DEF FlowTypeOK, Recorded
<1>7. /\ agent'[w].pc = "collect" /\ agent'[w].job = number
      /\ \A v \in Workflows : v # w => agent'[v] = agent[v]
    BY <1>2 DEF FlowTypeOK
<1>8. \A v \in Workflows : v # w /\ Recorded(v) => execution[v].job # number
    BY <1>1 DEF RecordedJobs
<1>9. RecordedJobs' \subseteq RecordedJobs \cup {number}
    BY <1>6 DEF RecordedJobs
<1> HIDE DEF number, row
<1>10. LoopLeavesTheQueue'
    BY <1>2, <1>3 DEF LoopLeavesTheQueue, InTransition
<1>11. FlowTypeOK'
    <2>1. agent' \in [Workflows -> Attempt]
        BY <1>2, AgentGoesOn DEF FlowTypeOK, Attempt, AgentPCs, Driving
    <2> QED BY <1>2, <1>5, <2>1 DEF FlowTypeOK, Attempt, JenkinsInv
<1>12. AgentsHold' /\ ClientsHold' /\ QueuedIsDriven'
    BY <1>2, <1>3, <1>4, <1>6, <1>7, CallersOfFlow
       DEF AgentsHold, ClientsHold, QueuedIsDriven, Driving
<1>13. RecordedNumbersAreFresh'
    <2>1. \A v \in Workflows : v # w /\ agent[v].pc = "record" => agent[v].job # number
        BY <1>1 DEF RecordedNumbersAreFresh, number
    <2> QED BY <1>1, <1>2, <1>6, <1>7, <1>8, <1>9, <2>1 DEF RecordedNumbersAreFresh
<1>14. JobsAreAccountedFor'
    BY <1>1, <1>2, <1>6, <1>7 DEF JobsAreAccountedFor, number
<1>15. OrphansHold'
    <2>1. number \notin orphans
        BY DEF OrphansHold, number
    <2>2. \A v \in Workflows : agent'[v].job = agent[v].job
        BY <1>7 DEF number
    <2> QED BY <1>2, <1>9, <2>1, <2>2 DEF OrphansHold
<1> QED BY <1>10, <1>11, <1>12, <1>13, <1>14, <1>15 DEF FlowRest

(* The job could not be recorded: it joins the orphans, and the thread     *)
(* that knew its number is gone.                                           *)
LEMMA RecordExecutionRaisesStep ==
    ASSUME FlowInv, JenkinsInv', NEW w \in Workflows, RecordExecutionRaises(w)
    PROVE  FlowRest'
<1> USE DEF FlowInv, processVars
<1>1. /\ agent[w].pc = "record" /\ ~Recorded(w)
      /\ agent[w].job \in Jobs /\ agent[w].job \notin RecordedJobs
      /\ agent[w].job < nextNumber
      /\ \A v \in Workflows : v # w /\ agent[v].pc = "record" => agent[v].job # agent[w].job
    BY DEF RecordExecutionRaises, AgentsHold, RecordedNumbersAreFresh, Known
<1>2. /\ orphans' = orphans \cup {agent[w].job}
      /\ AgentReturns(w, "lost")
      /\ UNCHANGED <<execution, results, client, deserted, restarts>>
      /\ UNCHANGED <<nextNumber, jobStatus, jobRequest>>
      /\ call' = [call EXCEPT ![w] = NoCall]
    BY DEF RecordExecutionRaises, tableVars, UnchangedJobs
<1>3. /\ agent'[w].pc = "idle" /\ agent'[w].job = NoJob
      /\ agent' \in [Workflows -> Attempt]
      /\ outcome' \in [Workflows -> {"none", "error", "lost"} \cup JobStatus]
      /\ \A v \in Workflows : v # w => agent'[v] = agent[v]
    BY <1>2, AgentReturned
<1>4. \A t \in Callers : IF t = w THEN call'[t] = NoCall ELSE call'[t] = call[t]
    BY <1>2 DEF JenkinsInv, JenkinsTypeOK
<1>5. /\ RecordedJobs' = RecordedJobs
      /\ \A v \in Workflows : Recorded(v)' = Recorded(v)
      /\ \A j : Known(j)' = Known(j)
    BY <1>2 DEF RecordedJobs, Recorded, Known
<1>6. FlowTypeOK'
    BY <1>1, <1>2, <1>3 DEF FlowTypeOK, Attempt, JenkinsInv
<1>7. LoopLeavesTheQueue'
    BY <1>2, <1>4 DEF LoopLeavesTheQueue, InTransition, NoCall
<1>8. AgentsHold' /\ ClientsHold' /\ QueuedIsDriven'
    BY <1>1, <1>2, <1>3, <1>4, <1>5, CallersOfFlow
       DEF AgentsHold, ClientsHold, QueuedIsDriven, Driving, Recorded, NoRow
<1>9. RecordedNumbersAreFresh'
    BY <1>2, <1>3, <1>5 DEF RecordedNumbersAreFresh
<1>10. JobsAreAccountedFor'
    BY <1>1, <1>2, <1>3, <1>5 DEF JobsAreAccountedFor
<1>11. OrphansHold'
    <2>1. \A v \in Workflows : v # w => agent[v].job # agent[w].job
        <3>1. \A v \in Workflows : agent[v].pc \in Driving => agent[v].job \in RecordedJobs
            BY DEF AgentsHold, RecordedJobs
        <3>2. \A v \in Workflows : agent[v].pc \in {"idle", "lookup", "submit"} =>
                  agent[v].job \notin Jobs
            BY ServiceConstants DEF AgentsHold
        <3>3. \A v \in Workflows : agent[v].pc \in {"idle", "lookup", "submit", "record"} \cup Driving
            BY DEF FlowTypeOK, AgentPCs
        <3> QED BY <1>1, <3>1, <3>2, <3>3
    <2>2. NoJob \notin orphans'
        BY <1>1, <1>2, ServiceConstants DEF FlowTypeOK
    <2> QED BY <1>1, <1>2, <1>3, <1>5, <2>1, <2>2 DEF OrphansHold
<1> QED BY <1>6, <1>7, <1>8, <1>9, <1>10, <1>11 DEF FlowRest

(* A thread goes on inside the service. *)
LEMMA ServiceInFlow ==
    ASSUME FlowInv, JenkinsInv', NEW t \in Callers, ServiceStep(t), UNCHANGED flowVars
    PROVE  FlowRest'
<1> USE DEF FlowInv, processVars
<1>1. /\ \A u \in Callers : u # t => call'[u] = call[u]
      /\ call'[t].loop = call[t].loop
      /\ UNCHANGED <<nextNumber, jobRequest>>
      /\ \A j \in Jobs : Known(j)' = Known(j)
      /\ LoopLeavesTheQueue'
    BY ServiceFrame
<1>2. UNCHANGED <<execution, results, agent, outcome, client, processVars>>
    BY DEF flowVars
<1>3. call[t].pc # "ok"
    BY DEF ServiceStep, While, Advance, Simulate, Cancel, Check, Set, Copy
<1>4. \A j : Known(j)' = Known(j)
    BY <1>1 DEF Known
<1>5. FlowTypeOK'
    BY <1>2 DEF FlowTypeOK, JenkinsInv
<1>6. RecordedNumbersAreFresh' /\ JobsAreAccountedFor' /\ OrphansHold'
    BY <1>1, <1>2, NumbersKept DEF Recorded
<1>7. AgentsHold' /\ ClientsHold' /\ QueuedIsDriven'
    BY <1>1, <1>2, <1>3, <1>4, CallersOfFlow DEF AgentsHold, ClientsHold, QueuedIsDriven, Recorded
<1> QED BY <1>1, <1>5, <1>6, <1>7 DEF FlowRest

(* run_to_completion came back. *)
LEMMA CollectedStep ==
    ASSUME FlowInv, JenkinsInv', NEW w \in Workflows, Collected(w)
    PROVE  FlowRest'
<1> USE DEF FlowInv, processVars
<1>1. /\ agent[w].pc = "collect" /\ Recorded(w) /\ call[w].loop
      /\ call[w] \in Call /\ call[w].pc \in Outcomes
      /\ call[w].pc = "ok" => call[w].seen \in Started
      /\ UNCHANGED <<execution, results, outcome, client, processVars>>
      /\ UNCHANGED <<nextNumber, jobStatus, jobRequest>>
    BY CallersOfFlow
       DEF Collected, AgentsHold, Driving, tableVars, UnchangedJobs, JenkinsInv, JenkinsTypeOK,
           LoopLeavesTheQueue
<1> DEFINE next == IF call[w].pc = "ok" THEN "results" ELSE "failed"
           new  == [agent[w] EXCEPT !.pc = next, !.seen = call[w].seen, !.got = call[w].got]
<1>2. agent' = [agent EXCEPT ![w] = new]
    BY DEF Collected
<1>3. agent[w] \in Attempt /\ call[w].seen \in JobStatus \cup {"none"} /\ call[w].got \in BOOLEAN
    BY <1>1 DEF FlowTypeOK, Attempt, Call
<1>4. new \in Attempt /\ new.pc = next /\ new.seen = call[w].seen /\ new.job = agent[w].job
    BY <1>3 DEF Attempt, AgentPCs, Driving
<1>5. next \in {"results", "failed"} /\ (next = "results" => call[w].seen \in Started)
    BY <1>1
<1> HIDE DEF next, new
<1>6. agent'[w] = new /\ \A v \in Workflows : v # w => agent'[v] = agent[v]
    BY <1>2 DEF FlowTypeOK
<1>7. \A t \in Callers : IF t = w THEN call'[t] = NoCall ELSE call'[t] = call[t]
    BY DEF Collected, JenkinsInv, JenkinsTypeOK
<1>8. \A j : Known(j)' = Known(j)
    BY <1>1 DEF Known
<1>9. LoopLeavesTheQueue'
    BY <1>1, <1>7 DEF LoopLeavesTheQueue, InTransition, NoCall
<1>10. FlowTypeOK'
    <2>1. agent' \in [Workflows -> Attempt]
        BY <1>2, <1>4 DEF FlowTypeOK, Attempt
    <2> QED BY <1>1, <2>1 DEF FlowTypeOK, Attempt, JenkinsInv
<1>11. RecordedNumbersAreFresh' /\ JobsAreAccountedFor' /\ OrphansHold'
    BY <1>1, <1>4, <1>5, <1>6, NumbersKept DEF Recorded
<1>12. ClientsHold' /\ QueuedIsDriven'
    BY <1>1, <1>4, <1>5, <1>6, <1>8 DEF ClientsHold, QueuedIsDriven, Recorded, Driving
<1>13. AgentsHold'
    BY <1>1, <1>4, <1>5, <1>6, <1>7, <1>8, CallersOfFlow DEF AgentsHold, Recorded, Driving
<1> QED BY <1>9, <1>10, <1>11, <1>12, <1>13 DEF FlowRest

-----------------------------------------------------------------------------
(* The clients. *)

ClientRecord == [pc : ClientPCs, workflow : Workflows \cup {NoJob}, reply : Replies]

(* The agent, its rows and the numbers do not notice what a client does as *)
(* long as it leaves their jobs alone.                                     *)
LEMMA ClientMoves ==
    ASSUME FlowInv, JenkinsInv', NEW c \in Clients, NEW new \in ClientRecord,
           client' = [client EXCEPT ![c] = new],
           new.pc \in {"cancel", "update"} => new.workflow \in Workflows /\ Recorded(new.workflow),
           \A t \in Callers : t # c => call'[t] = call[t],
           call'[c] = call[c] \/ (~call'[c].loop /\ call'[c].pc \notin InTransition),
           UNCHANGED <<execution, results, agent, outcome, processVars>>,
           UNCHANGED <<nextNumber, jobStatus, jobRequest>>
    PROVE  FlowRest'
<1> USE DEF FlowInv, processVars
<1>1. \A j : Known(j)' = Known(j)
    BY DEF Known
<1>2. \A v \in Workflows : Recorded(v)' = Recorded(v)
    BY DEF Recorded
<1>3. \A w \in Workflows : call'[w] = call[w]
    BY FlowConstants
<1>4. FlowTypeOK'
    BY DEF FlowTypeOK, JenkinsInv, ClientRecord
<1>5. LoopLeavesTheQueue'
    BY DEF LoopLeavesTheQueue
<1>6. RecordedNumbersAreFresh' /\ JobsAreAccountedFor' /\ OrphansHold'
    BY <1>2, NumbersKept
<1>7. AgentsHold' /\ QueuedIsDriven'
    BY <1>1, <1>2, <1>3 DEF AgentsHold, QueuedIsDriven
<1>8. ClientsHold'
    <2>1. \A d \in Clients : client'[d] = IF d = c THEN new ELSE client[d]
        BY DEF FlowTypeOK
    <2> QED BY <1>2, <2>1 DEF ClientsHold, Recorded
<1> QED BY <1>4, <1>5, <1>6, <1>7, <1>8 DEF FlowRest

LEMMA ClientStepInFlow ==
    ASSUME FlowInv, JenkinsInv', NEW c \in Clients,
           \/ \E w \in Workflows : CancelWorkflow(c, w)
           \/ CancelAnswered(c) \/ CancelRecorded(c) \/ JobAnswered(c)
           \/ \E j \in Jobs : JobRoute(c, j)
           \/ SubmitJob(c) /\ SubmitRefused(c)
    PROVE  FlowRest'
<1> USE DEF FlowInv, processVars
<1> DEFINE Answered(code) == [NoRequestYet EXCEPT !.reply = code]
           Waiting == [NoRequestYet EXCEPT !.pc = "job"]
<1>1. /\ \A code \in Replies : Answered(code) \in ClientRecord /\ Answered(code).pc = "idle"
      /\ Waiting \in ClientRecord /\ Waiting.pc = "job"
      /\ \A w \in Workflows : [pc |-> "cancel", workflow |-> w, reply |-> "none"] \in ClientRecord
    BY DEF ClientRecord, NoRequestYet, ClientPCs, Replies
<1>2. /\ c \in Callers /\ call \in [Callers -> Call] /\ client[c] \in ClientRecord
    BY CallersOfFlow DEF JenkinsInv, JenkinsTypeOK, FlowTypeOK, ClientRecord
<1>3. NoCall.pc = "idle" /\ ~NoCall.loop
    BY DEF NoCall
<1> HIDE DEF Answered, Waiting
<1>4. ASSUME NEW entry \in {"cancel", "copy", "advance"}, NEW j, Begin(c, entry, j)
      PROVE  /\ \A t \in Callers : t # c => call'[t] = call[t]
             /\ ~call'[c].loop /\ call'[c].pc \notin InTransition
             /\ UNCHANGED <<nextNumber, jobStatus, jobRequest>>
    BY <1>2, <1>4 DEF Begin, NoCall, InTransition, UnchangedJobs
<1>5. ASSUME call' = [call EXCEPT ![c] = NoCall]
      PROVE  /\ \A t \in Callers : t # c => call'[t] = call[t]
             /\ ~call'[c].loop /\ call'[c].pc \notin InTransition
    BY <1>2, <1>3, <1>5 DEF InTransition
<1>6. ASSUME NEW w \in Workflows, CancelWorkflow(c, w)
      PROVE  FlowRest'
    <2>1. UNCHANGED <<execution, results, agent, outcome, processVars>>
        BY <1>6 DEF CancelWorkflow, tableVars
    <2>2. CASE /\ Begin(c, "cancel", execution[w].job) /\ Recorded(w)
               /\ client' = [client EXCEPT ![c] = [pc |-> "cancel", workflow |-> w, reply |-> "none"]]
        BY <1>1, <1>4, <2>1, <2>2, ClientMoves
    <2>3. ASSUME NEW code \in {"409", "500"}, Reply(c, code), UNCHANGED jenkinsVars
          PROVE  FlowRest'
        <3>1. code \in Replies /\ client' = [client EXCEPT ![c] = Answered(code)]
            BY <2>3 DEF Reply, Replies, Answered
        <3>2. UNCHANGED <<nextNumber, jobStatus, jobRequest, call>>
            BY <2>3 DEF jenkinsVars
        <3> QED BY <1>1, <2>1, <3>1, <3>2, ClientMoves
    <2> QED BY <1>6, <2>2, <2>3 DEF CancelWorkflow
<1>7. CASE CancelAnswered(c)
    <2>1. /\ UNCHANGED <<execution, results, agent, outcome, processVars>>
          /\ UNCHANGED <<nextNumber, jobStatus, jobRequest>>
          /\ call' = [call EXCEPT ![c] = NoCall]
          /\ client[c].pc = "cancel"
          /\ client[c].workflow \in Workflows /\ Recorded(client[c].workflow)
        BY <1>7 DEF CancelAnswered, tableVars, UnchangedJobs, ClientsHold
    <2>2. CASE client' = [client EXCEPT ![c].pc = "update"]
        <3> DEFINE new == [client[c] EXCEPT !.pc = "update"]
        <3>1. new \in ClientRecord /\ new.workflow = client[c].workflow
            BY <1>2 DEF ClientRecord, ClientPCs
        <3>2. client' = [client EXCEPT ![c] = new]
            BY <2>2
        <3> HIDE DEF new
        <3> QED BY <1>5, <2>1, <3>1, <3>2, ClientMoves
    <2>3. ASSUME NEW code \in {"409", "500"}, Reply(c, code)
          PROVE  FlowRest'
        <3>1. code \in Replies /\ client' = [client EXCEPT ![c] = Answered(code)]
            BY <2>3 DEF Reply, Replies, Answered
        <3> QED BY <1>1, <1>5, <2>1, <3>1, ClientMoves
    <2> QED BY <1>7, <2>2, <2>3 DEF CancelAnswered
<1>8. CASE JobAnswered(c)
    <2>1. /\ UNCHANGED <<execution, results, agent, outcome, processVars>>
          /\ UNCHANGED <<nextNumber, jobStatus, jobRequest>>
          /\ call' = [call EXCEPT ![c] = NoCall]
        BY <1>8 DEF JobAnswered, tableVars, UnchangedJobs
    <2>2. PICK code \in Replies : Reply(c, code)
        BY <1>8 DEF JobAnswered, Replies, Outcomes
    <2>3. client' = [client EXCEPT ![c] = Answered(code)]
        BY <2>2 DEF Reply, Answered
    <2> QED BY <1>1, <1>5, <2>1, <2>3, ClientMoves
<1>9. ASSUME NEW j \in Jobs, JobRoute(c, j)
      PROVE  FlowRest'
    <2>1. /\ UNCHANGED <<execution, results, agent, outcome, processVars>>
          /\ client' = [client EXCEPT ![c] = Waiting]
          /\ \E entry \in {"cancel", "copy", "advance"} : Begin(c, entry, j)
        BY <1>9 DEF JobRoute, tableVars, Waiting
    <2> QED BY <1>1, <1>4, <2>1, ClientMoves
<1>10. CASE SubmitJob(c) /\ SubmitRefused(c)
    <2>1. /\ UNCHANGED <<execution, results, agent, outcome, processVars>>
          /\ client' = [client EXCEPT ![c] = Waiting]
          /\ call' = [call EXCEPT ![c] = [NoCall EXCEPT !.pc = "down"]]
          /\ UNCHANGED <<nextNumber, jobStatus, jobRequest>>
        BY <1>10 DEF SubmitJob, SubmitRefused, tableVars, Waiting, UnchangedJobs
    <2>3. /\ \A t \in Callers : t # c => call'[t] = call[t]
          /\ ~call'[c].loop /\ call'[c].pc \notin InTransition
        BY <1>2, <2>1 DEF NoCall, InTransition
    <2> QED BY <1>1, <2>1, <2>3, ClientMoves
<1>11. CASE CancelRecorded(c)
    <2> DEFINE w == client[c].workflow
    <2>1. PICK code \in Replies : Reply(c, code)
        BY <1>11 DEF CancelRecorded, Replies
    <2>2. client' = [client EXCEPT ![c] = Answered(code)]
        BY <2>1 DEF Reply, Answered
    <2>3. /\ w \in Workflows /\ Recorded(w) /\ "cancelled" \in JobStatus
          /\ \/ execution' = [execution EXCEPT ![w].status = "cancelled"]
             \/ UNCHANGED execution
          /\ UNCHANGED <<results, agent, outcome, processVars>>
          /\ UNCHANGED <<nextNumber, jobStatus, jobRequest, call, jobResults, mode>>
        BY <1>11 DEF CancelRecorded, ClientsHold, jenkinsVars, JobStatus, Lifecycle!JobStatus
    <2> HIDE DEF w
    <2>4. CASE UNCHANGED execution
        BY <1>1, <2>1, <2>2, <2>3, <2>4, ClientMoves
    <2>5. CASE execution' = [execution EXCEPT ![w].status = "cancelled"]
        <3>1. /\ execution' \in [Workflows -> [job : Jobs, status : JobStatus] \cup {NoRow}]
              /\ \A v \in Workflows : /\ Recorded(v)' = Recorded(v)
                                      /\ execution'[v].job = execution[v].job
                                      /\ v # w => execution'[v].status = execution[v].status
              /\ execution'[w].status = "cancelled"
            BY <2>3, <2>5, StatusWritten
        <3>2. client' \in [Clients -> ClientRecord]
            BY <1>1, <2>1, <2>2 DEF FlowTypeOK, ClientRecord
        <3>3. FlowTypeOK'
            BY <2>3, <3>1, <3>2 DEF FlowTypeOK, JenkinsInv, ClientRecord
        <3>4. LoopLeavesTheQueue' /\ \A j : Known(j)' = Known(j)
            BY <2>3 DEF LoopLeavesTheQueue, Known
        <3>5. RecordedNumbersAreFresh' /\ JobsAreAccountedFor' /\ OrphansHold'
            BY <2>3, <3>1, NumbersKept
        <3>6. AgentsHold' /\ QueuedIsDriven'
            BY <2>3, <3>1, <3>4 DEF AgentsHold, QueuedIsDriven
        <3>7. \A d \in Clients : client'[d] = IF d = c THEN Answered(code) ELSE client[d]
            BY <2>2 DEF FlowTypeOK
        <3>8. ClientsHold'
            BY <1>1, <2>1, <2>3, <3>1, <3>7 DEF ClientsHold
        <3> QED BY <3>3, <3>4, <3>5, <3>6, <3>8 DEF FlowRest
    <2> QED BY <2>3, <2>4, <2>5
<1> QED BY <1>6, <1>7, <1>8, <1>9, <1>10, <1>11

(* A stranger's job: a new number, which no row and no thread holds. *)
LEMMA SubmitJobStep ==
    ASSUME FlowInv, JenkinsInv', NEW c \in Clients, SubmitJob(c)
    PROVE  FlowRest'
<1> USE DEF FlowInv, processVars
<1>1. CASE SubmitRefused(c)
    BY <1>1, ClientStepInFlow
<1>2. CASE Submit(c, External)
    <2>1. /\ nextNumber \in Jobs /\ nextNumber \in Nat
          /\ jobRequest' = [jobRequest EXCEPT ![nextNumber] = External]
          /\ jobStatus' = [jobStatus EXCEPT ![nextNumber] = "queued"]
          /\ nextNumber' = nextNumber + 1
          /\ UNCHANGED <<execution, results, agent, outcome, processVars>>
          /\ client' = [client EXCEPT ![c] = [NoRequestYet EXCEPT !.pc = "job"]]
        BY <1>2 DEF SubmitJob, Submit, tableVars, JenkinsInv, JenkinsTypeOK
    <2>2. /\ call'[c].pc = "ok" /\ call'[c].loop = FALSE
          /\ \A t \in Callers : t # c => call'[t] = call[t]
        BY <1>2, CallersOfFlow DEF Submit, JenkinsInv, JenkinsTypeOK, NoCall
    <2>3. /\ ~Known(nextNumber)
          /\ jobStatus'[nextNumber] # "absent"
          /\ \A j \in Jobs : j # nextNumber => Known(j)' = Known(j)
        BY <2>1 DEF Known, JenkinsInv, JenkinsTypeOK, NumbersNeverCollide
    <2>4. \A v \in Workflows : /\ Recorded(v)' = Recorded(v)
                               /\ Recorded(v) => /\ execution[v].job \in Jobs
                                                 /\ execution[v].job < nextNumber
        BY <2>1 DEF Recorded, FlowTypeOK, RecordedNumbersAreFresh
    <2>5. LoopLeavesTheQueue'
        <3>1. \A t \in Callers : t # c /\ call[t].pc = "copy" => Known(call[t].job)
            BY DEF JenkinsInv, NumbersNeverCollide
        <3>2. \A t \in Callers : t # c /\ call[t].pc = "copy" =>
                  call[t].job # nextNumber /\ jobStatus'[call[t].job] = jobStatus[call[t].job]
            BY <2>1, <2>3, <3>1 DEF JenkinsInv, JenkinsTypeOK, Known
        <3> QED BY <2>2, <3>2 DEF LoopLeavesTheQueue, InTransition
    <2>6. client' \in [Clients -> ClientRecord]
        <3>1. [NoRequestYet EXCEPT !.pc = "job"] \in ClientRecord
            BY DEF NoRequestYet, ClientRecord, ClientPCs, Replies
        <3> QED BY <2>1, <3>1 DEF FlowTypeOK, ClientRecord
    <2>7. FlowTypeOK'
        BY <2>1, <2>6 DEF FlowTypeOK, ClientRecord, JenkinsInv
    <2>8. \A v \in Workflows : call'[v] = call[v]
        BY <2>2, FlowConstants
    <2>9. \A j : Known(j) => Known(j)'
        BY <2>3 DEF Known
    <2>10. AgentsHold'
        BY <2>1, <2>4, <2>8, <2>9 DEF AgentsHold
    <2>11. ClientsHold'
        <3>1. \A d \in Clients : client'[d] = client[d] \/ client'[d].pc = "job"
            BY <2>1 DEF FlowTypeOK, NoRequestYet
        <3> QED BY <2>4, <3>1 DEF ClientsHold, Recorded
    <2>12. RecordedNumbersAreFresh'
        <3>1. RecordedJobs' = RecordedJobs
            BY <2>1, <2>4 DEF RecordedJobs
        <3>2. \A n \in Nat : n < nextNumber => n < nextNumber'
            BY <2>1
        <3>3. \A v \in Workflows :
                 /\ agent[v].pc = "record" => agent[v].job \in Nat
                 /\ Recorded(v) => execution[v].job \in Nat
            BY <2>4, ServiceConstants DEF AgentsHold, Known, Jobs
        <3> HIDE DEF FlowInv
        <3> QED BY <2>1, <2>4, <3>1, <3>2, <3>3 DEF RecordedNumbersAreFresh, FlowInv
    <2>13. JobsAreAccountedFor'
        <3>1. \A j \in Jobs, v \in Workflows : jobRequest'[j] = v => jobRequest[j] = v
            BY <2>1, CallersOfFlow DEF JenkinsInv, JenkinsTypeOK
        <3> QED BY <2>1, <2>4, <3>1 DEF JobsAreAccountedFor
    <2>14. QueuedIsDriven'
        <3>1. \A v \in Workflows : Recorded(v) =>
                  execution[v].job # nextNumber /\ Known(execution[v].job)' = Known(execution[v].job)
            BY <2>1, <2>3, <2>4
        <3>2. \A v \in Workflows : execution[v].status = "queued" => Recorded(v)
            BY DEF Recorded, NoRow
        <3> QED BY <2>1, <3>1, <3>2 DEF QueuedIsDriven
    <2>15. OrphansHold'
        <3>1. \A j \in orphans : j \in Nat /\ j < nextNumber
            BY ServiceConstants DEF OrphansHold, FlowTypeOK, Jobs
        <3>2. \A j \in orphans : j < nextNumber'
            BY <2>1, <3>1
        <3>3. RecordedJobs' = RecordedJobs
            BY <2>1, <2>4 DEF RecordedJobs
        <3> QED BY <2>1, <3>2, <3>3 DEF OrphansHold
    <2> QED BY <2>5, <2>7, <2>10, <2>11, <2>12, <2>13, <2>14, <2>15 DEF FlowRest
<1> QED BY <1>1, <1>2 DEF SubmitJob

(* A restart: the tables stay, and the numbering starts past them. *)
LEMMA RestartStep ==
    ASSUME FlowInv, JenkinsInv', Restart
    PROVE  FlowRest'
<1> USE DEF FlowInv, processVars
<1>1. /\ UNCHANGED <<execution, results>>
      /\ restarts' = restarts + 1
      /\ nextNumber' = Higher(NextExternalJobNumber, FirstJob)
      /\ jobStatus' = [j \in Jobs |-> "absent"]
      /\ jobRequest' = [j \in Jobs |-> NoRequest]
      /\ call' = [t \in Callers |-> NoCall]
      /\ agent' = [w \in Workflows |-> NoAttempt]
      /\ outcome' = [w \in Workflows |-> IF agent[w].pc = "idle" THEN outcome[w] ELSE "lost"]
      /\ client' = [c \in Clients |-> NoRequestYet]
      /\ orphans' = {} /\ deserted' = {}
    BY DEF Restart, JenkinsRestart, tableVars
<1>2. /\ NextExternalJobNumber \in Nat
      /\ \A w \in Workflows : Recorded(w) => execution[w].job < NextExternalJobNumber
    BY NextNumberIsFresh
<1>3. \A w \in Workflows : /\ Recorded(w)' = Recorded(w)
                           /\ Recorded(w) => execution[w].job \in Nat
    BY <1>1, ServiceConstants DEF Recorded, FlowTypeOK, Jobs
<1>4. \A w \in Workflows : agent'[w].pc = "idle" /\ agent'[w].job = NoJob
    BY <1>1 DEF NoAttempt
<1>5. \A c \in Clients : client'[c].pc = "idle"
    BY <1>1 DEF NoRequestYet
<1>6. \A t \in Callers : call'[t].pc = "idle"
    BY <1>1 DEF NoCall
<1>7. FlowTypeOK'
    BY <1>1 DEF FlowTypeOK, JenkinsInv, NoAttempt, NoRequestYet, AgentPCs, Driving, ClientPCs, Replies
<1>8. LoopLeavesTheQueue'
    BY <1>6 DEF LoopLeavesTheQueue, InTransition
<1>9. AgentsHold' /\ ClientsHold'
    BY <1>4, <1>5 DEF AgentsHold, ClientsHold, Driving
<1>10. RecordedNumbersAreFresh'
    <2>1. \A n \in Nat : n < NextExternalJobNumber => n < nextNumber'
        BY <1>1, <1>2, ServiceConstants DEF Higher
    <2> QED BY <1>1, <1>2, <1>3, <1>4, <2>1 DEF RecordedNumbersAreFresh
<1>11. JobsAreAccountedFor'
    BY <1>1, CallersOfFlow DEF JobsAreAccountedFor
<1>12. QueuedIsDriven' /\ OrphansHold'
    BY <1>1 DEF QueuedIsDriven, OrphansHold, Known
<1> QED BY <1>7, <1>8, <1>9, <1>10, <1>11, <1>12 DEF FlowRest

-----------------------------------------------------------------------------

LEMMA FlowInvStep == FlowInv /\ [FlowNext]_vars => FlowInv'
<1> SUFFICES ASSUME FlowInv, [FlowNext]_vars PROVE FlowInv'
    OBVIOUS
<1>1. JenkinsInv'
    BY FlowJenkinsStep
<1>2. SUFFICES FlowRest'
    BY <1>1 DEF FlowInv, FlowRest
<1>3. ASSUME NEW w \in Workflows,
             \/ Execute(w) \/ Refuse(w) \/ AgentStep(w)
             \/ RecordExecutionRaises(w) \/ RepositoryRaises(w)
      PROVE  FlowRest'
    <2>1. CASE SubmitPlan(w)
        BY <1>1, <2>1, SubmitPlanStep
    <2>2. CASE RecordExecution(w)
        BY <1>1, <2>2, RecordExecutionStep
    <2>3. CASE ServiceStep(w) /\ UNCHANGED flowVars
        BY <1>1, <2>3, CallersOfFlow, ServiceInFlow
    <2>4. CASE Collected(w)
        BY <1>1, <2>4, CollectedStep
    <2>5. CASE \/ Execute(w) \/ Refuse(w) \/ Lookup(w) \/ SubmitPlanFails(w) \/ RecordResults(w)
               \/ RecordStatus(w) \/ RecordFailure(w) \/ RepositoryRaises(w)
        <3>1. UNCHANGED jenkinsVars
            BY <2>5 DEF Execute, Refuse, Lookup, SubmitPlanFails, RecordResults, RecordStatus,
                        RecordFailure, RepositoryRaises
        <3> QED BY <1>1, <2>5, <3>1, QuietStep
    <2>6. CASE RecordExecutionRaises(w)
        BY <1>1, <2>6, RecordExecutionRaisesStep
    <2> QED BY <1>3, <2>1, <2>2, <2>3, <2>4, <2>5, <2>6 DEF AgentStep
<1>4. ASSUME NEW c \in Clients, ServiceStep(c) /\ UNCHANGED flowVars
      PROVE  FlowRest'
    BY <1>1, <1>4, CallersOfFlow, ServiceInFlow
<1>5. ASSUME NEW c \in Clients,
             \/ \E w \in Workflows : CancelWorkflow(c, w)
             \/ SubmitJob(c)
             \/ \E j \in Jobs : JobRoute(c, j)
             \/ ClientStep(c)
      PROVE  FlowRest'
    BY <1>1, <1>4, <1>5, ClientStepInFlow, SubmitJobStep DEF ClientStep
<1>6. CASE Restart
    BY <1>1, <1>6, RestartStep
<1>7. CASE UNCHANGED vars
    <2>1. \A j : Known(j)' = Known(j)
        BY <1>7 DEF vars, jenkinsVars, Known
    <2>2. \A w : Recorded(w)' = Recorded(w)
        BY <1>7 DEF vars, flowVars, Recorded
    <2>3. LoopLeavesTheQueue' /\ FlowTypeOK'
        BY <1>1, <1>7 DEF FlowInv, vars, jenkinsVars, flowVars, processVars, JenkinsInv,
                          LoopLeavesTheQueue, FlowTypeOK
    <2>4. AgentsHold' /\ ClientsHold' /\ QueuedIsDriven'
        BY <1>7, <2>1, <2>2 DEF FlowInv, vars, jenkinsVars, flowVars, processVars, AgentsHold,
                                ClientsHold, QueuedIsDriven
    <2>5. RecordedNumbersAreFresh' /\ JobsAreAccountedFor' /\ OrphansHold'
        BY <1>7, <2>2, NumbersKept DEF vars, jenkinsVars, flowVars, processVars
    <2> QED BY <2>3, <2>4, <2>5 DEF FlowRest
<1> QED BY <1>3, <1>5, <1>6, <1>7 DEF FlowNext

LEMMA FlowInvariant == FlowSpec => []FlowInv
BY FlowInvInit, FlowInvStep, PTL DEF FlowSpec

(* The types of the flow's state, with any number of workflows and clients. *)
THEOREM FlowTypes == FlowSpec => []FlowTypeOK
BY FlowInvariant, PTL DEF FlowInv

(* No insertion into executions ever conflicts, however many workflows run, *)
(* strangers post and processes follow one another.                         *)
THEOREM RecordedNumbersAreFreshTheorem == FlowSpec => []RecordedNumbersAreFresh
BY FlowInvariant, PTL DEF FlowInv

(* A process that holds two jobs of one workflow could not record all but   *)
(* one of them; those stay out of the table and of every attempt.           *)
THEOREM OneJobPerWorkflowTheorem == FlowSpec => []OneJobPerWorkflow
<1>1. FlowInv => OneJobPerWorkflow
    <2> SUFFICES ASSUME FlowInv PROVE OneJobPerWorkflow
        OBVIOUS
    <2>1. ASSUME NEW w \in Workflows,
                 NEW i \in Jobs \ orphans, NEW j \in Jobs \ orphans,
                 jobRequest[i] = w, jobRequest[j] = w
          PROVE  i = j
        BY <2>1 DEF FlowInv, AgentsHold, JobsAreAccountedFor
    <2>2. orphans \cap RecordedJobs = {} /\ \A w \in Workflows : agent[w].job \notin orphans
        BY DEF FlowInv, OrphansHold
    <2> QED BY <2>1, <2>2 DEF OneJobPerWorkflow
<1> QED BY <1>1, FlowInvariant, PTL

(* A row in the queue is driven, or is a past process's, or an exception    *)
(* nobody catches ended the thread that was to drive it.                    *)
THEOREM QueuedIsDrivenTheorem == FlowSpec => []QueuedIsDriven
BY FlowInvariant, PTL DEF FlowInv

(* Whoever overlaps, the results of a job are on it when it reads completed: *)
(* the service keeps its promises inside the flow too.                       *)
THEOREM ServiceInvariantInFlow == FlowSpec => [](CompletedHasResults /\ NumbersNeverCollide)
BY FlowInvariant, PTL DEF FlowInv, JenkinsInv

-----------------------------------------------------------------------------
(* The flow implements ExecutionContract.  What FlowInv lacks for that is  *)
(* how the results relate to the attempt: none are stored before the       *)
(* thread that drives the row is about to, and a job that thread saw       *)
(* completed has its results stored before its verdict is written.         *)

ResultsOnce ==
    \A w \in Workflows :
        /\ results[w] \in {0, 1}
        /\ ~Recorded(w) \/ agent[w].pc \in {"collect", "results"} => results[w] = 0
        /\ agent[w].pc = "results" /\ agent[w].seen = "completed" => agent[w].got
        /\ agent[w].pc = "status" /\ agent[w].seen = "completed" => results[w] = 1

(* Only an attempt that opens its row or goes on collecting has to look;   *)
(* for every other workflow nothing moves.                                 *)
LEMMA ResultsKept ==
    ASSUME ResultsOnce, UNCHANGED results,
           \A v \in Workflows :
               /\ ~Recorded(v)' => ~Recorded(v)
               /\ agent'[v] = agent[v] \/ agent'[v].pc \notin {"collect", "results", "status"}
    PROVE  ResultsOnce'
BY DEF ResultsOnce

(* A job that a copy shows completed was copied with its results. *)
LEMMA CollectedResults ==
    ASSUME FlowInv, ResultsOnce, NEW w \in Workflows, Collected(w)
    PROVE  ResultsOnce'
<1>1. /\ agent[w].pc = "collect" /\ results[w] = 0
      /\ UNCHANGED <<execution, results>>
      /\ \A v \in Workflows : v # w => agent'[v] = agent[v]
      /\ agent'[w].pc \in {"results", "failed"}
      /\ agent'[w].seen = call[w].seen /\ agent'[w].got = call[w].got
    BY DEF Collected, tableVars, FlowInv, FlowTypeOK, ResultsOnce
<1>2. call[w].seen = "completed" => call[w].got
    BY CallersOfFlow DEF FlowInv, JenkinsInv, CompletedHasResults
<1>3. \A v \in Workflows : Recorded(v)' = Recorded(v)
    BY <1>1 DEF Recorded
<1> QED BY <1>1, <1>2, <1>3 DEF ResultsOnce

LEMMA StoredResults ==
    ASSUME FlowInv, ResultsOnce, NEW w \in Workflows, RecordResults(w)
    PROVE  /\ ResultsOnce'
           /\ results' = IF agent[w].got THEN [results EXCEPT ![w] = 1] ELSE results
<1>1. /\ agent[w].pc = "results" /\ results[w] = 0 /\ Recorded(w)
      /\ UNCHANGED execution
      /\ results' = [results EXCEPT ![w] = IF agent[w].got THEN @ + 1 ELSE @]
      /\ \A v \in Workflows : v # w => agent'[v] = agent[v]
      /\ agent'[w].pc = "status" /\ agent'[w].seen = agent[w].seen
    BY DEF RecordResults, AgentGoto, FlowInv, AgentsHold, Driving, FlowTypeOK, ResultsOnce
<1>2. results' = IF agent[w].got THEN [results EXCEPT ![w] = 1] ELSE results
    <2>1. results \in [Workflows -> Nat]
        BY DEF FlowInv, FlowTypeOK
    <2>2. CASE agent[w].got
        <3>1. results' = [results EXCEPT ![w] = results[w] + 1]
            BY <1>1, <2>2
        <3> QED BY <1>1, <2>2, <3>1
    <2>3. CASE ~agent[w].got
        <3>1. results' = [results EXCEPT ![w] = results[w]]
            BY <1>1, <2>3
        <3> QED BY <2>1, <2>3, <3>1
    <2> QED BY <2>2, <2>3
<1>3. \A v \in Workflows : Recorded(v)' = Recorded(v)
    BY <1>1 DEF Recorded
<1>4. /\ \A v \in Workflows : v # w => results'[v] = results[v]
      /\ results'[w] = IF agent[w].got THEN 1 ELSE 0
    BY <1>1, <1>2 DEF FlowInv, FlowTypeOK
<1>5. ResultsOnce'
    BY <1>1, <1>3, <1>4 DEF ResultsOnce
<1> QED BY <1>2, <1>5

(* What a step does to the rows and to the attempts under way. *)
Busy == [w \in Workflows |-> agent[w].pc # "idle"]
Rows == [w \in Workflows |-> execution[w].status]

LEMMA RowWritten ==
    ASSUME FlowTypeOK, NEW w \in Workflows, Recorded(w), NEW s \in JobStatus,
           execution' = [execution EXCEPT ![w].status = s]
    PROVE  /\ Rows' = [Rows EXCEPT ![w] = s]
           /\ Rows[w] # "none"
           /\ \A v \in Workflows : Recorded(v)' = Recorded(v)
<1>1. /\ \A v \in Workflows : Recorded(v)' = Recorded(v)
      /\ \A v \in Workflows : v # w => execution'[v].status = execution[v].status
      /\ execution'[w].status = s
    BY StatusWritten
<1>2. execution[w].status \in JobStatus /\ "none" \notin JobStatus
    BY DEF FlowTypeOK, Recorded, JobStatus, Lifecycle!JobStatus
<1> QED BY <1>1, <1>2 DEF Rows

LEMMA AttemptMoves ==
    ASSUME FlowTypeOK, NEW w \in Workflows, NEW pc \in AgentPCs,
           \A v \in Workflows : v # w => agent'[v] = agent[v],
           agent'[w].pc = pc
    PROVE  /\ agent[w].pc # "idle" /\ pc # "idle" => Busy' = Busy
           /\ pc # "idle" => Busy' = [Busy EXCEPT ![w] = TRUE]
           /\ pc = "idle" => Busy' = [Busy EXCEPT ![w] = FALSE]
           /\ Busy[w] = (agent[w].pc # "idle")
BY DEF Busy

LEMMA ContractVars ==
    UNCHANGED <<Busy, outcome, Rows, results>> => UNCHANGED Contract!contractVars
BY DEF Busy, Rows, Contract!contractVars

(* An attempt ends with a verdict it writes, with the row's, or in error. *)
LEMMA AttemptFinishes ==
    ASSUME FlowInv, NEW w \in Workflows, agent[w].pc # "idle",
           NEW result \in {"none", "error", "lost"} \cup JobStatus, AgentReturns(w, result),
           UNCHANGED results,
           \/ /\ result \in Contract!Verdicts /\ Rows[w] # "none"
              /\ result = "completed" => results[w] = 1
              /\ Rows' = [Rows EXCEPT ![w] = result]
           \/ Rows[w] # "none" /\ result = Rows[w] /\ Rows' = Rows
           \/ result = "error" /\ Rows' = [Rows EXCEPT ![w] = IF Rows[w] = "none" THEN "none" ELSE "failed"]
    PROVE  Contract!Finish(w)
<1>1. /\ agent'[w].pc = "idle" /\ \A v \in Workflows : v # w => agent'[v] = agent[v]
      /\ outcome' = [outcome EXCEPT ![w] = result]
    BY AgentReturned DEF FlowInv, AgentReturns
<1>2. Busy[w] /\ Busy' = [Busy EXCEPT ![w] = FALSE]
    BY <1>1, AttemptMoves DEF FlowInv, AgentPCs
<1> QED BY <1>1, <1>2 DEF Contract!Finish, Busy, Rows

(* An attempt's thread ends: before it wrote a verdict, or right after.    *)
LEMMA AttemptLost ==
    ASSUME FlowInv, ResultsOnce, NEW w \in Workflows, agent[w].pc # "idle",
           AgentReturns(w, "lost"), UNCHANGED <<execution, results>>
    PROVE  ResultsOnce' /\ Contract!Next
<1>1. /\ agent'[w].pc = "idle" /\ \A v \in Workflows : v # w => agent'[v] = agent[v]
      /\ outcome' = [outcome EXCEPT ![w] = "lost"]
    BY AgentReturned DEF FlowInv, AgentReturns
<1>2. /\ Busy[w] /\ Busy' = [v \in Workflows |-> Busy[v] /\ v \notin {w}]
      /\ Rows' = Rows
      /\ outcome' = [v \in Workflows |-> IF v \in {w} THEN "lost" ELSE outcome[v]]
    BY <1>1 DEF Busy, Rows, FlowInv, FlowTypeOK
<1>3. Contract!Lose({w})
    BY <1>2 DEF Contract!Lose, Busy, Rows
<1>4. ResultsOnce'
    BY <1>1, ResultsKept DEF Recorded
<1> QED BY <1>3, <1>4 DEF Contract!Next

LEMMA VerdictLost ==
    ASSUME FlowInv, NEW w \in Workflows, agent[w].pc # "idle", AgentReturns(w, "lost"),
           UNCHANGED results, NEW s \in Contract!Verdicts, s = "completed" => results[w] = 1,
           Rows[w] # "none", Rows' = [Rows EXCEPT ![w] = s]
    PROVE  Contract!LoseVerdict(w)
<1>1. /\ agent'[w].pc = "idle" /\ \A v \in Workflows : v # w => agent'[v] = agent[v]
      /\ outcome' = [outcome EXCEPT ![w] = "lost"]
    BY AgentReturned DEF FlowInv, AgentReturns
<1>2. Busy[w] /\ Busy' = [Busy EXCEPT ![w] = FALSE]
    BY <1>1, AttemptMoves DEF FlowInv, AgentPCs
<1> QED BY <1>1, <1>2 DEF Contract!LoseVerdict, Busy, Rows

(* Every step of the flow is one of the contract, or none it can see. *)
LEMMA AgentKeepsContract ==
    ASSUME FlowInv, ResultsOnce, NEW w \in Workflows,
           \/ Execute(w) \/ Refuse(w) \/ Lookup(w) \/ SubmitPlan(w) \/ SubmitPlanFails(w)
           \/ RecordExecution(w) \/ Collected(w) \/ RecordResults(w) \/ RecordStatus(w)
           \/ RecordFailure(w) \/ RecordExecutionRaises(w) \/ RepositoryRaises(w)
    PROVE  /\ ResultsOnce'
           /\ Contract!Next \/ UNCHANGED Contract!contractVars
<1> USE DEF FlowInv, processVars
<1>1. /\ agent[w].pc \in AgentPCs /\ {"idle", "lookup", "submit", "record"} \subseteq AgentPCs
      /\ {"collect", "results", "status", "failed"} \subseteq AgentPCs
    BY DEF FlowTypeOK, AgentPCs, Driving
<1>2. ASSUME NEW s \in JobStatus, NEW result \in {"error", "lost"} \cup JobStatus,
             AgentReturns(w, result),
             agent[w].pc \in {"status", "failed"}, UNCHANGED results,
             execution' = [execution EXCEPT ![w].status = s],
             \/ /\ result = s /\ s \in Contract!Verdicts
                /\ result = "completed" => results[w] = 1
             \/ result = "error" /\ s = "failed"
             \/ result = "lost" /\ s \in Contract!Verdicts /\ (s = "completed" => results[w] = 1)
      PROVE  ResultsOnce' /\ Contract!Next
    <2>1. Recorded(w)
        BY <1>2 DEF AgentsHold, Driving
    <2>2. /\ Rows' = [Rows EXCEPT ![w] = s] /\ Rows[w] # "none"
          /\ \A v \in Workflows : Recorded(v)' = Recorded(v)
        BY <1>2, <2>1, RowWritten
    <2>3. Contract!Finish(w) \/ Contract!LoseVerdict(w)
        BY <1>2, <2>2, AttemptFinishes, VerdictLost
    <2>4. agent'[w].pc = "idle" /\ \A v \in Workflows : v # w => agent'[v] = agent[v]
        BY <1>2, AgentReturned
    <2>5. ResultsOnce'
        BY <1>2, <2>2, <2>4, ResultsKept
    <2> QED BY <2>3, <2>5 DEF Contract!Next
<1>3. ASSUME NEW result \in {"error"} \cup JobStatus, AgentReturns(w, result),
             agent[w].pc # "idle", UNCHANGED <<execution, results>>,
             \/ Recorded(w) /\ result = execution[w].status
             \/ ~Recorded(w) /\ result = "error"
      PROVE  ResultsOnce' /\ Contract!Next
    <2>1. Rows' = Rows /\ \A v \in Workflows : Recorded(v)' = Recorded(v)
        BY <1>3 DEF Rows, Recorded
    <2>2. \/ Rows[w] # "none" /\ result = Rows[w]
          \/ Rows[w] = "none" /\ result = "error"
        <3>1. Recorded(w) => execution[w].status \in JobStatus /\ "none" \notin JobStatus
            BY DEF FlowTypeOK, Recorded, JobStatus, Lifecycle!JobStatus
        <3> QED BY <1>3, <3>1 DEF Rows, Recorded, NoRow
    <2>3. Rows = [Rows EXCEPT ![w] = Rows[w]]
        BY DEF Rows
    <2>4. Contract!Finish(w)
        BY <1>3, <2>1, <2>2, <2>3, AttemptFinishes
    <2>5. agent'[w].pc = "idle" /\ \A v \in Workflows : v # w => agent'[v] = agent[v]
        BY <1>3, AgentReturned
    <2>6. ResultsOnce'
        BY <1>3, <2>1, <2>5, ResultsKept
    <2> QED BY <2>4, <2>6 DEF Contract!Next
<1>4. ASSUME NEW pc \in AgentPCs, pc \notin {"idle", "collect", "results", "status"},
             agent' = [agent EXCEPT ![w].pc = pc], UNCHANGED <<execution, outcome, results>>
      PROVE  /\ ResultsOnce'
             /\ Contract!Next \/ UNCHANGED Contract!contractVars
    <2>1. /\ \A v \in Workflows : v # w => agent'[v] = agent[v]
          /\ agent'[w].pc = pc
        BY <1>4 DEF FlowTypeOK
    <2>2. Rows' = Rows /\ \A v \in Workflows : Recorded(v)' = Recorded(v)
        BY <1>4 DEF Rows, Recorded
    <2>3. ResultsOnce'
        BY <1>4, <2>1, <2>2, ResultsKept
    <2>4. CASE agent[w].pc # "idle"
        BY <1>4, <2>1, <2>2, <2>3, <2>4, AttemptMoves, ContractVars
    <2>5. CASE agent[w].pc = "idle"
        <3>1. ~Busy[w] /\ Busy' = [Busy EXCEPT ![w] = TRUE]
            BY <1>4, <2>1, <2>5, AttemptMoves
        <3>2. Contract!Attempt(w)
            BY <1>4, <2>2, <3>1 DEF Contract!Attempt, Busy, Rows
        <3> QED BY <2>3, <3>2 DEF Contract!Next
    <2> QED BY <2>4, <2>5
<1>5. CASE Execute(w)
    BY <1>1, <1>4, <1>5 DEF Execute, AgentGoto, tableVars
<1>6. CASE Refuse(w)
    <2>1. /\ agent[w].pc = "idle" /\ outcome' = [outcome EXCEPT ![w] = "error"]
          /\ UNCHANGED <<execution, results, agent>>
        BY <1>6 DEF Refuse, tableVars
    <2>2. ~Busy[w] /\ Busy' = Busy /\ Rows' = Rows
        BY <2>1 DEF Busy, Rows
    <2>3. Contract!Refuse(w)
        BY <2>1, <2>2 DEF Contract!Refuse, Busy, Rows
    <2>4. ResultsOnce'
        BY <2>1 DEF ResultsOnce, Recorded
    <2> QED BY <2>3, <2>4 DEF Contract!Next
<1>7. CASE Lookup(w)
    <2>1. Recorded(w) => execution[w].status \in JobStatus
        BY DEF FlowTypeOK, Recorded
    <2> QED BY <1>1, <1>3, <1>4, <1>7, <2>1 DEF Lookup, AgentGoto, tableVars
<1>8. CASE SubmitPlan(w)
    <2>1. /\ agent[w].pc = "submit" /\ UNCHANGED <<execution, results, outcome>>
          /\ \A v \in Workflows : v # w => agent'[v] = agent[v]
          /\ agent'[w].pc = "record"
        BY <1>8 DEF SubmitPlan, tableVars, FlowTypeOK
    <2>2. Rows' = Rows /\ \A v \in Workflows : Recorded(v)' = Recorded(v)
        BY <2>1 DEF Rows, Recorded
    <2>3. ResultsOnce'
        BY <2>1, <2>2, ResultsKept
    <2> QED BY <1>1, <2>1, <2>2, <2>3, AttemptMoves, ContractVars
<1>9. CASE SubmitPlanFails(w)
    BY <1>3, <1>9, AttemptLost DEF SubmitPlanFails, AgentReturnsAudited, tableVars, AgentsHold
<1>10. CASE RecordExecution(w)
    <2>1. agent[w].pc = "record" /\ ~Recorded(w) /\ agent[w].job \notin RecordedJobs
        BY <1>10 DEF RecordExecution, RecordedNumbersAreFresh
    <2>2. /\ execution' = [execution EXCEPT ![w] = [job |-> agent[w].job, status |-> "queued"]]
          /\ agent' = [agent EXCEPT ![w].pc = "collect"]
          /\ UNCHANGED <<outcome, results>>
        BY <1>10, <2>1 DEF RecordExecution, AgentGoto
    <2>3. /\ \A v \in Workflows : v # w => agent'[v] = agent[v]
          /\ agent'[w].pc = "collect"
        BY <2>2 DEF FlowTypeOK
    <2>4. Rows[w] = "none" /\ Rows' = [Rows EXCEPT ![w] = "queued"]
        <3> DEFINE new == [job |-> agent[w].job, status |-> "queued"]
        <3>1. new.status = "queued"
            OBVIOUS
        <3>2. execution' = [execution EXCEPT ![w] = new]
            BY <2>2
        <3> HIDE DEF new
        <3>3. \A v \in Workflows : execution'[v] = IF v = w THEN new ELSE execution[v]
            BY <3>2 DEF FlowTypeOK
        <3>4. execution[w].status = "none"
            BY <2>1 DEF Recorded, NoRow
        <3>5. \A v \in Workflows :
                  execution'[v].status = IF v = w THEN "queued" ELSE execution[v].status
            BY <3>1, <3>3
        <3> HIDE DEF FlowInv
        <3> QED BY <3>4, <3>5 DEF Rows
    <2>5. Busy[w] /\ Busy' = Busy
        BY <1>1, <2>1, <2>3, AttemptMoves
    <2>6. Contract!Open(w)
        BY <2>2, <2>4, <2>5 DEF Contract!Open, Busy, Rows
    <2>7. \A v \in Workflows : v # w => Recorded(v)' = Recorded(v)
        BY <2>2 DEF Recorded, FlowTypeOK
    <2>8. ResultsOnce'
        BY <2>1, <2>2, <2>3, <2>7 DEF ResultsOnce
    <2> QED BY <2>6, <2>8 DEF Contract!Next
<1>11. CASE Collected(w)
    <2>1. /\ agent[w].pc = "collect" /\ UNCHANGED <<execution, results, outcome>>
          /\ \A v \in Workflows : v # w => agent'[v] = agent[v]
          /\ agent'[w].pc \in {"results", "failed"}
        BY <1>11 DEF Collected, tableVars, FlowTypeOK
    <2>2. Rows' = Rows
        BY <2>1 DEF Rows
    <2>3. ResultsOnce'
        BY <1>11, CollectedResults
    <2> QED BY <1>1, <2>1, <2>2, <2>3, AttemptMoves, ContractVars
<1>12. CASE RecordResults(w)
    <2>1. /\ agent[w].pc = "results" /\ UNCHANGED <<execution, outcome>>
          /\ \A v \in Workflows : v # w => agent'[v] = agent[v]
          /\ agent'[w].pc = "status"
        BY <1>12 DEF RecordResults, AgentGoto, FlowTypeOK
    <2>2. Rows' = Rows
        BY <2>1 DEF Rows
    <2>3. Busy[w] /\ Busy' = Busy
        BY <1>1, <2>1, AttemptMoves
    <2>4. /\ ResultsOnce'
          /\ results' = IF agent[w].got THEN [results EXCEPT ![w] = 1] ELSE results
        BY <1>12, StoredResults
    <2>5. Rows[w] # "none" /\ results[w] = 0
        BY <2>1 DEF AgentsHold, Driving, Rows, FlowTypeOK, Recorded, JobStatus,
                    Lifecycle!JobStatus, ResultsOnce
    <2>6. CASE agent[w].got
        <3>1. Contract!Store(w)
            BY <2>1, <2>2, <2>3, <2>4, <2>5, <2>6 DEF Contract!Store, Busy, Rows
        <3> QED BY <2>4, <3>1 DEF Contract!Next
    <2>7. CASE ~agent[w].got
        BY <2>1, <2>2, <2>3, <2>4, <2>7, ContractVars
    <2> QED BY <2>6, <2>7
<1>13. CASE RecordStatus(w)
    <2>1. agent[w].pc = "status" /\ agent[w].seen \in Started
        BY <1>13 DEF RecordStatus, AgentsHold
    <2>2. agent[w].seen \in Contract!Verdicts /\ agent[w].seen \in JobStatus
        BY <2>1 DEF Started, JobStatus, Lifecycle!JobStatus, Contract!Verdicts
    <2>3. agent[w].seen = "completed" => results[w] = 1
        BY <2>1 DEF ResultsOnce
    <2> QED BY <1>2, <1>13, <2>1, <2>2, <2>3 DEF RecordStatus, AgentReturnsAudited
<1>14. CASE RecordFailure(w)
    <2>1. "failed" \in JobStatus /\ "failed" \in Contract!Verdicts
        BY DEF JobStatus, Lifecycle!JobStatus, Contract!Verdicts
    <2> QED BY <1>2, <1>14, <2>1 DEF RecordFailure, AgentReturnsAudited
<1>15. CASE RecordExecutionRaises(w) \/ RepositoryRaises(w)
    BY <1>15, AttemptLost DEF RecordExecutionRaises, RepositoryRaises, tableVars
<1> QED BY <1>5, <1>6, <1>7, <1>8, <1>9, <1>10, <1>11, <1>12, <1>13, <1>14, <1>15

(* What the clients and a restart do to it. *)
LEMMA OthersKeepContract ==
    ASSUME FlowInv, ResultsOnce
    PROVE  /\ \A c \in Clients : CancelRecorded(c) =>
                  ResultsOnce' /\ (Contract!Next \/ UNCHANGED Contract!contractVars)
           /\ Restart => ResultsOnce' /\ Contract!Next
<1> USE DEF FlowInv, processVars
<1>1. ASSUME NEW c \in Clients, CancelRecorded(c)
      PROVE  ResultsOnce' /\ (Contract!Next \/ UNCHANGED Contract!contractVars)
    <2>1. PICK w \in Workflows : w = client[c].workflow
        BY <1>1 DEF CancelRecorded, ClientsHold
    <2>2. /\ Recorded(w) /\ "cancelled" \in JobStatus
          /\ \/ execution' = [execution EXCEPT ![w].status = "cancelled"]
             \/ UNCHANGED execution
          /\ UNCHANGED <<results, agent, outcome>>
        BY <1>1, <2>1 DEF CancelRecorded, ClientsHold, JobStatus, Lifecycle!JobStatus
    <2> SUFFICES ASSUME execution' = [execution EXCEPT ![w].status = "cancelled"]
                 PROVE  ResultsOnce' /\ Contract!Next
        BY <2>2 DEF ResultsOnce, Recorded, Contract!contractVars
    <2>3. /\ Rows' = [Rows EXCEPT ![w] = "cancelled"] /\ Rows[w] # "none"
          /\ \A v \in Workflows : Recorded(v)' = Recorded(v)
        BY <2>2, RowWritten
    <2>4. Busy' = Busy
        BY <2>2 DEF Busy
    <2>5. Contract!Cancel(w)
        BY <2>2, <2>3, <2>4 DEF Contract!Cancel, Busy, Rows
    <2>6. ResultsOnce'
        BY <2>2, <2>3, ResultsKept
    <2> QED BY <2>5, <2>6 DEF Contract!Next
<1>2. CASE Restart
    <2>1. PICK lost \in SUBSET Workflows : lost = {w \in Workflows : agent[w].pc # "idle"}
        OBVIOUS
    <2>2. /\ UNCHANGED <<execution, results>>
          /\ agent' = [w \in Workflows |-> NoAttempt]
          /\ outcome' = [w \in Workflows |-> IF agent[w].pc = "idle" THEN outcome[w] ELSE "lost"]
        BY <1>2 DEF Restart, tableVars
    <2>3. \A w \in Workflows : agent'[w].pc = "idle" /\ Recorded(w)' = Recorded(w)
        BY <2>2 DEF NoAttempt, Recorded
    <2>4. /\ \A w \in lost : Busy[w]
          /\ Busy' = [w \in Workflows |-> Busy[w] /\ w \notin lost]
          /\ Rows' = Rows
          /\ outcome' = [w \in Workflows |-> IF w \in lost THEN "lost" ELSE outcome[w]]
        BY <2>1, <2>2, <2>3 DEF Busy, Rows
    <2>5. Contract!Lose(lost)
        BY <2>2, <2>4 DEF Contract!Lose, Busy, Rows
    <2>6. ResultsOnce'
        BY <2>2, <2>3, ResultsKept
    <2> QED BY <2>5, <2>6 DEF Contract!Next
<1> QED BY <1>1, <1>2

LEMMA FlowStepsContract ==
    FlowInv /\ ResultsOnce /\ [FlowNext]_vars =>
        ResultsOnce' /\ (Contract!Next \/ UNCHANGED Contract!contractVars)
<1> SUFFICES ASSUME FlowInv, ResultsOnce, [FlowNext]_vars
             PROVE  ResultsOnce' /\ (Contract!Next \/ UNCHANGED Contract!contractVars)
    OBVIOUS
<1>1. ASSUME UNCHANGED <<execution, results, agent, outcome>>
      PROVE  ResultsOnce' /\ UNCHANGED Contract!contractVars
    BY <1>1 DEF ResultsOnce, Recorded, Contract!contractVars
<1>2. ASSUME NEW w \in Workflows,
             \/ Execute(w) \/ Refuse(w) \/ AgentStep(w)
             \/ RecordExecutionRaises(w) \/ RepositoryRaises(w)
      PROVE  ResultsOnce' /\ (Contract!Next \/ UNCHANGED Contract!contractVars)
    <2>1. CASE ServiceStep(w) /\ UNCHANGED flowVars
        BY <1>1, <2>1 DEF flowVars
    <2> QED BY <1>2, <2>1, AgentKeepsContract DEF AgentStep
<1>3. ASSUME NEW c \in Clients,
             \/ \E w \in Workflows : CancelWorkflow(c, w)
             \/ SubmitJob(c)
             \/ \E j \in Jobs : JobRoute(c, j)
             \/ ClientStep(c)
      PROVE  ResultsOnce' /\ (Contract!Next \/ UNCHANGED Contract!contractVars)
    BY <1>1, <1>3, OthersKeepContract
       DEF CancelWorkflow, SubmitJob, JobRoute, ClientStep, CancelAnswered, JobAnswered, tableVars,
           flowVars
<1>4. CASE Restart
    BY <1>4, OthersKeepContract
<1>5. CASE UNCHANGED vars
    BY <1>1, <1>5 DEF vars, flowVars
<1> QED BY <1>2, <1>3, <1>4, <1>5 DEF FlowNext

(* ExecutionContract is what Orchestration builds on: with any number of    *)
(* workflows, clients and restarts, whatever execute, _collect, cancel and  *)
(* the /jobs routes do is a step of it, so an attempt that reports          *)
(* completed has stored its results, once, and no row is created twice.     *)
THEOREM FlowKeepsContractTheorem == FlowSpec => FlowKeepsContract
<1>1. FlowInit => Contract!Init /\ ResultsOnce
    <2> SUFFICES ASSUME FlowInit PROVE Contract!Init /\ ResultsOnce
        OBVIOUS
    <2>1. \A w \in Workflows : agent[w].pc = "idle" /\ execution[w].status = "none"
        BY DEF FlowInit, NoAttempt, NoRow
    <2>2. Contract!Init
        BY <2>1 DEF FlowInit, Contract!Init
    <2> QED BY <2>1, <2>2 DEF FlowInit, ResultsOnce
<1>2. FlowInv /\ ResultsOnce /\ [FlowNext]_vars =>
          ResultsOnce' /\ [Contract!Next]_Contract!contractVars
    BY FlowStepsContract
<1> QED BY <1>1, <1>2, FlowInvariant, PTL DEF FlowSpec, FlowKeepsContract, Contract!Spec
=============================================================================
