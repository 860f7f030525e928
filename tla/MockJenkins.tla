---------------------------- MODULE MockJenkins -----------------------------
(***************************************************************************)
(* The in-memory CI service of app/integrations/mock_jenkins.py, shared by *)
(* every request thread of the process without a lock.                     *)
(*                                                                         *)
(* Every public method runs on the thread of its caller.  The interpreter  *)
(* may switch threads at every call of a Python function, so a method is   *)
(* as many actions as it has reads and writes of the job separated by such *)
(* a call; what lies between two of them is one step.  A caller's position *)
(* inside the service is call[t].pc:                                       *)
(*                                                                         *)
(*   "while"     the loop test of run_to_completion                        *)
(*   "advance"   the status read of advance                                *)
(*   "simulate"  job.results = self._simulate(...)                         *)
(*   "cancel"    the status read of cancel                                 *)
(*   "check"     can_transition_job(job.status, target) in _transition     *)
(*   "set"       job.status = target in _transition                        *)
(*   "copy"      job.model_copy(deep=True), the value returned             *)
(*   "ok", "invalid", "missing", "down"   returned, or the exception       *)
(*               raised (InvalidJobTransition, JobNotFound,                *)
(*               JenkinsUnavailable); the caller takes it from there       *)
(*                                                                         *)
(* Job numbers are the digits of JOB-<n>.  The tests of a job are not      *)
(* told apart: a job has its results or does not have them.                *)
(***************************************************************************)
EXTENDS Naturals

CONSTANTS
    Callers,         \* request threads
    Requests,        \* what a job may be asked to run
    FirstJob,        \* FIRST_JOB_NUMBER
    LastJob,         \* bound: the last job number a model may issue
    NoJob, NoRequest

Jobs == FirstJob .. LastJob

ASSUME ServiceConstants ==
    /\ FirstJob \in Nat
    /\ LastJob \in Nat
    /\ FirstJob =< LastJob
    /\ NoJob \notin Jobs
    /\ NoRequest \notin Requests

VARIABLES
    mode,         \* the constructor's fault options, fixed for the process
    nextNumber,   \* _next_number
    jobStatus,    \* status of each entry of _jobs, "absent" if there is none
    jobRequest,   \* its request
    jobResults,   \* whether job.results has been filled in
    call          \* where each thread stands inside the service

jenkinsVars == <<mode, nextNumber, jobStatus, jobRequest, jobResults, call>>

Lifecycle == INSTANCE JobLifecycle

JobStatus == Lifecycle!JobStatus
IsTerminal(s) == Lifecycle!IsTerminal(s)

Modes == {"normal", "unavailable", "force_failure"}

Entries  == {"while", "advance", "cancel", "copy"}
Outcomes == {"ok", "invalid", "missing", "down"}

NoCall == [pc |-> "idle", job |-> NoJob, loop |-> FALSE, target |-> "none",
           seen |-> "none", got |-> FALSE]

Call == [pc     : {"idle", "simulate", "check", "set"} \cup Entries \cup Outcomes,
         job    : Jobs \cup {NoJob},
         loop   : BOOLEAN,
         target : JobStatus \cup {"none"},
         seen   : JobStatus \cup {"none"},
         got    : BOOLEAN]

Known(j) == j \in Jobs /\ jobStatus[j] # "absent"

Goto(t, pc) == call' = [call EXCEPT ![t].pc = pc]

UnchangedJobs == UNCHANGED <<mode, nextNumber, jobStatus, jobRequest, jobResults>>

-----------------------------------------------------------------------------
(* A new process: an empty service whose numbering starts at start_number, *)
(* but never below FIRST_JOB_NUMBER.                                       *)

Higher(m, n) == IF m > n THEN m ELSE n

JenkinsInit ==
    /\ mode \in Modes
    /\ nextNumber = FirstJob
    /\ jobStatus  = [j \in Jobs |-> "absent"]
    /\ jobRequest = [j \in Jobs |-> NoRequest]
    /\ jobResults = [j \in Jobs |-> FALSE]
    /\ call = [t \in Callers |-> NoCall]

JenkinsRestart(startNumber) ==
    /\ mode' \in Modes
    /\ nextNumber' = Higher(startNumber, FirstJob)
    /\ jobStatus'  = [j \in Jobs |-> "absent"]
    /\ jobRequest' = [j \in Jobs |-> NoRequest]
    /\ jobResults' = [j \in Jobs |-> FALSE]
    /\ call' = [t \in Callers |-> NoCall]

-----------------------------------------------------------------------------
(* Operators whose names start with Bad are not part of the specification: *)
(* each is a defect that could be made in the operator it precedes, and    *)
(* shows that a property notices it.                                       *)

BadSubmitSameNumber(t, request) ==
    /\ call[t].pc = "idle"
    /\ mode # "unavailable"
    /\ nextNumber \in Jobs
    /\ jobStatus'  = [jobStatus  EXCEPT ![nextNumber] = "queued"]
    /\ jobRequest' = [jobRequest EXCEPT ![nextNumber] = request]
    /\ jobResults' = [jobResults EXCEPT ![nextNumber] = FALSE]
    /\ call' = [call EXCEPT ![t] = [NoCall EXCEPT !.pc = "ok", !.job = nextNumber,
                                                  !.seen = "queued"]]
    /\ UNCHANGED <<mode, nextNumber>>

(* submit: one step, there is no call between reading and incrementing the *)
(* counter, and nobody knows the number before the job is registered.  The *)
(* agent takes only the number from the copy it is handed, so the copy is  *)
(* part of the step, and says queued.                                      *)

Submit(t, request) ==
    /\ call[t].pc = "idle"
    /\ mode # "unavailable"
    /\ nextNumber \in Jobs
    /\ jobStatus'  = [jobStatus  EXCEPT ![nextNumber] = "queued"]
    /\ jobRequest' = [jobRequest EXCEPT ![nextNumber] = request]
    /\ jobResults' = [jobResults EXCEPT ![nextNumber] = FALSE]
    /\ nextNumber' = nextNumber + 1
    /\ call' = [call EXCEPT ![t] = [NoCall EXCEPT !.pc = "ok", !.job = nextNumber,
                                                  !.seen = "queued"]]
    /\ UNCHANGED mode

SubmitRefused(t) ==
    /\ call[t].pc = "idle"
    /\ mode = "unavailable"
    /\ call' = [call EXCEPT ![t] = [NoCall EXCEPT !.pc = "down"]]
    /\ UnchangedJobs

(* get, advance, cancel and run_to_completion all begin by looking the job *)
(* up; get is nothing but the lookup and the copy.                         *)
Begin(t, entry, j) ==
    /\ call[t].pc = "idle"
    /\ call' = [call EXCEPT ![t] =
                  [NoCall EXCEPT !.pc   = IF Known(j) THEN entry ELSE "missing",
                                 !.job  = j,
                                 !.loop = (entry = "while")]]
    /\ UnchangedJobs

BadWhileUntilCompleted(t) ==
    /\ call[t].pc = "while"
    /\ Goto(t, CASE jobStatus[call[t].job] = "completed" -> "copy"
                 [] jobStatus[call[t].job] \in {"queued", "running"} -> "advance"
                 [] OTHER -> "while")
    /\ UnchangedJobs

(* while not job.status.is_terminal: self.advance(job_id) *)
While(t) ==
    /\ call[t].pc = "while"
    /\ Goto(t, IF IsTerminal(jobStatus[call[t].job]) THEN "copy" ELSE "advance")
    /\ UnchangedJobs

BadAdvanceTargetName(status) ==
    CASE status = "queued"  -> "running"
      [] status = "running" -> IF mode = "force_failure" THEN "failed" ELSE "success"
      [] OTHER              -> "none"

(* What advance does with a job it finds in a status: the transition it    *)
(* asks for, or the exception it raises.                                   *)
AdvanceTarget(status) ==
    CASE status = "queued"  -> "running"
      [] status = "running" -> IF mode = "force_failure" THEN "failed" ELSE "completed"
      [] OTHER              -> "none"

BadAdvanceEntryNoResults(status) ==
    CASE mode = "unavailable"         -> "down"
      [] AdvanceTarget(status) = "none" -> "invalid"
      [] OTHER                          -> "check"

AdvanceEntry(status) ==
    CASE mode = "unavailable"              -> "down"
      [] AdvanceTarget(status) = "none"      -> "invalid"
      [] AdvanceTarget(status) = "completed" -> "simulate"
      [] OTHER                               -> "check"

Advance(t) ==
    LET found == jobStatus[call[t].job] IN
    /\ call[t].pc = "advance"
    /\ call' = [call EXCEPT ![t].pc = AdvanceEntry(found),
                            ![t].target = AdvanceTarget(found)]
    /\ UnchangedJobs

(* The results are on the job before it is marked completed. *)
Simulate(t) ==
    /\ call[t].pc = "simulate"
    /\ jobResults' = [jobResults EXCEPT ![call[t].job] = TRUE]
    /\ Goto(t, "check")
    /\ UNCHANGED <<mode, nextNumber, jobStatus, jobRequest>>

Cancel(t) ==
    /\ call[t].pc = "cancel"
    /\ call' = IF IsTerminal(jobStatus[call[t].job])
               THEN [call EXCEPT ![t].pc = "invalid"]
               ELSE [call EXCEPT ![t].pc = "check", ![t].target = "cancelled"]
    /\ UnchangedJobs

(* _transition: the check and the write are two steps, and a thread switch *)
(* between them lets the job change after it was checked.                  *)
Check(t) ==
    /\ call[t].pc = "check"
    /\ Goto(t, IF Lifecycle!CanTransitionJob(jobStatus[call[t].job], call[t].target)
               THEN "set" ELSE "invalid")
    /\ UnchangedJobs

Set(t) ==
    /\ call[t].pc = "set"
    /\ jobStatus' = [jobStatus EXCEPT ![call[t].job] = call[t].target]
    /\ Goto(t, IF call[t].loop THEN "while" ELSE "copy")
    /\ UNCHANGED <<mode, nextNumber, jobRequest, jobResults>>

(* The deep copy handed back: it shows the job as it is now, which need    *)
(* not be as this thread left it.                                          *)
Copy(t) ==
    /\ call[t].pc = "copy"
    /\ call' = [call EXCEPT ![t].pc   = "ok",
                            ![t].seen = jobStatus[call[t].job],
                            ![t].got  = jobResults[call[t].job]]
    /\ UnchangedJobs

(* The steps a thread takes by itself once it is inside the service. *)
ServiceStep(t) ==
    \/ While(t)
    \/ Advance(t)
    \/ Simulate(t)
    \/ Cancel(t)
    \/ Check(t)
    \/ Set(t)
    \/ Copy(t)

-----------------------------------------------------------------------------
(* The service alone: its callers are the /jobs routes and the execution   *)
(* agent's run_to_completion, in any number and any order.                 *)

Return(t) ==
    /\ call[t].pc \in Outcomes
    /\ call' = [call EXCEPT ![t] = NoCall]
    /\ UnchangedJobs

JenkinsNext ==
    \E t \in Callers :
        \/ \E r \in Requests : Submit(t, r)
        \/ SubmitRefused(t)
        \/ \E entry \in Entries, j \in Jobs : Begin(t, entry, j)
        \/ ServiceStep(t)
        \/ Return(t)

(* A thread that is inside the service keeps running; nobody has to call. *)
JenkinsFairness == \A t \in Callers : WF_jenkinsVars(ServiceStep(t) \/ Return(t))

JenkinsSpec == JenkinsInit /\ [][JenkinsNext]_jenkinsVars /\ JenkinsFairness

-----------------------------------------------------------------------------
(***************************************************************************)
(* Properties                                                              *)
(***************************************************************************)

JenkinsTypeOK ==
    /\ mode \in Modes
    /\ nextNumber \in Nat
    /\ jobStatus  \in [Jobs -> JobStatus \cup {"absent"}]
    /\ jobRequest \in [Jobs -> Requests \cup {NoRequest}]
    /\ jobResults \in [Jobs -> BOOLEAN]
    /\ call \in [Callers -> Call]

(* A job that reads completed has its results, and so has every copy of it *)
(* a caller was handed: advance fills job.results before _transition       *)
(* writes the status, whatever other threads write in between.             *)
CompletedHasResults ==
    /\ \A j \in Jobs : jobStatus[j] = "completed" => jobResults[j]
    /\ \A t \in Callers : call[t].seen = "completed" => call[t].got

(* submit never registers a job over another one: every number in use is   *)
(* below the next one, and the job a thread is working on exists.          *)
NumbersNeverCollide ==
    /\ \A j \in Jobs : jobStatus[j] # "absent" => j < nextNumber
    /\ \A t \in Callers :
           call[t].pc \notin {"idle", "missing", "down"} => Known(call[t].job)

(* Calls that do not overlap keep the job lifecycle of models/execution.py *)
(* (a terminal job has no outgoing transition).                            *)
JobsFollowLifecycle == Lifecycle!Spec

(* models/execution.py:30-31: "A terminal job has no outgoing transition,  *)
(* so a completed or cancelled job cannot accidentally restart."  Two      *)
(* overlapping calls break it: _transition checks and then writes.         *)
TerminalJobsStayTerminal ==
    [][\A j \in Jobs : IsTerminal(jobStatus[j]) => jobStatus'[j] = jobStatus[j]]_jenkinsVars

(* run_to_completion comes back to its caller, however often other threads *)
(* advance or cancel the same job meanwhile.                               *)
RunToCompletionReturns ==
    \A t \in Callers : call[t].loop ~> call[t].pc = "idle"

=============================================================================
