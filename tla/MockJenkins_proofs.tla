-------------------------- MODULE MockJenkins_proofs ---------------------------
(***************************************************************************)
(* Safety of the simulated CI service, for any number of threads and jobs. *)
(*                                                                         *)
(* CompletedHasResults is not inductive by itself: the thread that is      *)
(* between the check and the write of _transition could be about to write  *)
(* "completed" over a job without results, and a new job could be          *)
(* registered over the one it is working on.  JenkinsInv adds what rules   *)
(* that out: the target of a thread inside _transition is a status, a      *)
(* thread about to write "completed" has stored the results, and a number  *)
(* in use is below the next one.                                           *)
(***************************************************************************)
EXTENDS MockJenkins, TLAPS

InTransition == {"simulate", "check", "set"}

(* The target of a thread inside _transition is a job status, and if it is *)
(* "completed" the results are already on the job.                         *)
TargetsAreSound ==
    \A t \in Callers :
        /\ call[t].pc \in InTransition => call[t].target \in JobStatus
        /\ call[t].pc \in {"check", "set"} /\ call[t].target = "completed"
              => jobResults[call[t].job]

JenkinsInv ==
    /\ JenkinsTypeOK
    /\ NumbersNeverCollide
    /\ TargetsAreSound
    /\ CompletedHasResults

-----------------------------------------------------------------------------
(* Only an existing status has successors, and they are statuses: what     *)
(* _transition writes after its check is a job status.                     *)
LEMMA TransitionTarget ==
    ASSUME NEW s \in JobStatus, NEW target, Lifecycle!CanTransitionJob(s, target)
    PROVE  target \in JobStatus
BY DEF JobStatus, Lifecycle!JobStatus, Lifecycle!CanTransitionJob,
       Lifecycle!AllowedJobTransitions

(* advance goes on with a job only towards a status. *)
LEMMA AdvanceTargets ==
    ASSUME NEW s
    PROVE  /\ AdvanceTarget(s) \in JobStatus \cup {"none"}
           /\ AdvanceEntry(s) \in {"down", "invalid", "simulate", "check"}
           /\ AdvanceEntry(s) \in InTransition => AdvanceTarget(s) \in JobStatus
           /\ AdvanceEntry(s) = "check" => AdvanceTarget(s) # "completed"
BY DEF AdvanceTarget, AdvanceEntry, JobStatus, Lifecycle!JobStatus, InTransition

(* The updates of a caller's record keep it one. *)
LEMMA CallUpdates ==
    ASSUME NEW c \in Call,
           NEW pc \in {"idle", "simulate", "check", "set"} \cup Entries \cup Outcomes,
           NEW s \in JobStatus \cup {"none"},
           NEW got \in BOOLEAN
    PROVE  /\ [c EXCEPT !.pc = pc] \in Call
           /\ [c EXCEPT !.pc = pc, !.target = s] \in Call
           /\ [c EXCEPT !.pc = pc, !.seen = s, !.got = got] \in Call
BY DEF Call

LEMMA JenkinsInvInit == JenkinsInit => JenkinsInv
BY ServiceConstants
   DEF JenkinsInit, JenkinsInv, JenkinsTypeOK, NumbersNeverCollide, TargetsAreSound,
       CompletedHasResults, NoCall, Call, Jobs, InTransition, Known

LEMMA JenkinsInvStep == JenkinsInv /\ [JenkinsNext]_jenkinsVars => JenkinsInv'
<1> SUFFICES ASSUME JenkinsInv, [JenkinsNext]_jenkinsVars
             PROVE  JenkinsInv'
    OBVIOUS
<1> USE DEF JenkinsInv, JenkinsTypeOK, InTransition
<1>1. ASSUME NEW t \in Callers, NEW r \in Requests, Submit(t, r)
      PROVE  JenkinsInv'
  <2>1. JenkinsTypeOK'
    <3> DEFINE new == [NoCall EXCEPT !.pc = "ok", !.job = nextNumber, !.seen = "queued"]
    <3>1. new \in Call
        BY <1>1 DEF Submit, NoCall, Call, Outcomes, JobStatus, Lifecycle!JobStatus
    <3>2. call' = [call EXCEPT ![t] = new]
        BY <1>1 DEF Submit
    <3> HIDE DEF new
    <3>3. call' \in [Callers -> Call]
        BY <3>1, <3>2
    <3> QED BY <1>1, <3>3, ServiceConstants DEF Submit, Jobs, JobStatus, Lifecycle!JobStatus
  <2>2. ~Known(nextNumber) /\ nextNumber \in Jobs
      BY <1>1 DEF Submit, NumbersNeverCollide, Known, Jobs
  <2>3. NumbersNeverCollide'
      BY <1>1, <2>2 DEF Submit, NumbersNeverCollide, Known, Jobs, NoCall, Call
  <2>4. TargetsAreSound'
      BY <1>1, <2>2 DEF Submit, TargetsAreSound, NumbersNeverCollide, Known, NoCall, Call
  <2>5. CompletedHasResults'
      BY <1>1, <2>2 DEF Submit, CompletedHasResults, NoCall, Call
  <2> QED BY <2>1, <2>3, <2>4, <2>5
<1>2. ASSUME NEW t \in Callers, SubmitRefused(t)
      PROVE  JenkinsInv'
  <2>1. call' = [call EXCEPT ![t] = [NoCall EXCEPT !.pc = "down"]]
      BY <1>2 DEF SubmitRefused
  <2>2. [NoCall EXCEPT !.pc = "down"] \in Call
      BY DEF NoCall, Call, Outcomes
  <2>3. JenkinsTypeOK'
      BY <1>2, <2>1, <2>2 DEF SubmitRefused, UnchangedJobs
  <2> QED BY <1>2, <2>1, <2>3
             DEF SubmitRefused, UnchangedJobs, NoCall, Known,
                 NumbersNeverCollide, TargetsAreSound, CompletedHasResults
<1>3. ASSUME NEW t \in Callers, NEW entry \in Entries, NEW j \in Jobs, Begin(t, entry, j)
      PROVE  JenkinsInv'
    BY <1>3 DEF Begin, Entries, UnchangedJobs, NoCall, Call, Known, Outcomes,
                NumbersNeverCollide, TargetsAreSound, CompletedHasResults
<1>4. ASSUME NEW t \in Callers, While(t)
      PROVE  JenkinsInv'
    BY <1>4 DEF While, Goto, UnchangedJobs, Call, Known, Entries, Outcomes,
                NumbersNeverCollide, TargetsAreSound, CompletedHasResults
<1>5. ASSUME NEW t \in Callers, Advance(t)
      PROVE  JenkinsInv'
  <2> DEFINE found == jobStatus[call[t].job]
  <2>1. /\ AdvanceTarget(found) \in JobStatus \cup {"none"}
        /\ AdvanceEntry(found) \in {"down", "invalid", "simulate", "check"}
        /\ AdvanceEntry(found) \in InTransition => AdvanceTarget(found) \in JobStatus
        /\ AdvanceEntry(found) = "check" => AdvanceTarget(found) # "completed"
      BY AdvanceTargets
  <2>2. /\ call[t].pc = "advance"
        /\ call' = [call EXCEPT ![t].pc = AdvanceEntry(found),
                                ![t].target = AdvanceTarget(found)]
        /\ UNCHANGED <<mode, nextNumber, jobStatus, jobRequest, jobResults>>
      BY <1>5 DEF Advance, UnchangedJobs
  <2> HIDE DEF found
  <2>3. JenkinsTypeOK'
    <3>1. [call[t] EXCEPT !.pc = AdvanceEntry(found), !.target = AdvanceTarget(found)] \in Call
        BY <2>1, CallUpdates DEF Outcomes
    <3> QED BY <2>2, <3>1
  <2>4. NumbersNeverCollide'
      BY <2>1, <2>2 DEF Call, Known, NumbersNeverCollide
  <2>5. TargetsAreSound'
      BY <2>1, <2>2 DEF Call, TargetsAreSound
  <2>6. CompletedHasResults'
      BY <2>2 DEF Call, CompletedHasResults
  <2> QED BY <2>3, <2>4, <2>5, <2>6
<1>6. ASSUME NEW t \in Callers, Simulate(t)
      PROVE  JenkinsInv'
    BY <1>6 DEF Simulate, Goto, Call, Known, Entries, Outcomes,
                NumbersNeverCollide, TargetsAreSound, CompletedHasResults
<1>7. ASSUME NEW t \in Callers, Cancel(t)
      PROVE  JenkinsInv'
  <2> DEFINE ended == IsTerminal(jobStatus[call[t].job])
  <2>1. /\ call[t].pc = "cancel"
        /\ call' = IF ended THEN [call EXCEPT ![t].pc = "invalid"]
                   ELSE [call EXCEPT ![t].pc = "check", ![t].target = "cancelled"]
        /\ UNCHANGED <<mode, nextNumber, jobStatus, jobRequest, jobResults>>
        /\ "cancelled" \in JobStatus
      BY <1>7 DEF Cancel, UnchangedJobs, JobStatus, Lifecycle!JobStatus
  <2> HIDE DEF ended
  <2>2. JenkinsTypeOK'
    <3>1. /\ [call[t] EXCEPT !.pc = "invalid"] \in Call
          /\ [call[t] EXCEPT !.pc = "check", !.target = "cancelled"] \in Call
        BY <2>1, CallUpdates DEF Outcomes
    <3> QED BY <2>1, <3>1
  <2>3. NumbersNeverCollide' /\ TargetsAreSound' /\ CompletedHasResults'
      BY <2>1 DEF Call, Known, NumbersNeverCollide, TargetsAreSound, CompletedHasResults
  <2> QED BY <2>2, <2>3
<1>8. ASSUME NEW t \in Callers, Check(t)
      PROVE  JenkinsInv'
    BY <1>8 DEF Check, Goto, UnchangedJobs, Call, Known, Entries, Outcomes,
                NumbersNeverCollide, TargetsAreSound, CompletedHasResults
<1>9. ASSUME NEW t \in Callers, Set(t)
      PROVE  JenkinsInv'
  <2>1. /\ call[t].job \in Jobs
        /\ call[t].target \in JobStatus
        /\ call[t].target = "completed" => jobResults[call[t].job]
      BY <1>9 DEF Set, NumbersNeverCollide, Known, TargetsAreSound
  <2>2. JenkinsTypeOK'
      BY <1>9, <2>1 DEF Set, Goto, Call, Entries
  <2>3. NumbersNeverCollide'
      BY <1>9, <2>1 DEF Set, Goto, Call, Known, NumbersNeverCollide, JobStatus,
                        Lifecycle!JobStatus
  <2>4. TargetsAreSound'
      BY <1>9 DEF Set, Goto, Call, TargetsAreSound
  <2>5. CompletedHasResults'
      BY <1>9, <2>1 DEF Set, Goto, Call, CompletedHasResults
  <2> QED BY <2>2, <2>3, <2>4, <2>5
<1>10. ASSUME NEW t \in Callers, Copy(t)
       PROVE  JenkinsInv'
  <2>1. call[t].job \in Jobs /\ jobStatus[call[t].job] \in JobStatus
      BY <1>10 DEF Copy, NumbersNeverCollide, Known
  <2>2. JenkinsTypeOK'
    <3>1. [call[t] EXCEPT !.pc = "ok", !.seen = jobStatus[call[t].job],
                          !.got = jobResults[call[t].job]] \in Call
        BY <2>1, CallUpdates DEF Outcomes
    <3> QED BY <1>10, <3>1 DEF Copy, UnchangedJobs
  <2>3. NumbersNeverCollide' /\ TargetsAreSound'
      BY <1>10, <2>1 DEF Copy, UnchangedJobs, Call, Known,
                         NumbersNeverCollide, TargetsAreSound
  <2>4. CompletedHasResults'
      BY <1>10, <2>1 DEF Copy, UnchangedJobs, Call, CompletedHasResults
  <2> QED BY <2>2, <2>3, <2>4
<1>11. ASSUME NEW t \in Callers, Return(t)
       PROVE  JenkinsInv'
    BY <1>11 DEF Return, UnchangedJobs, NoCall, Call, Known,
                 NumbersNeverCollide, TargetsAreSound, CompletedHasResults
<1>12. CASE UNCHANGED jenkinsVars
    BY <1>12 DEF jenkinsVars, Known, NumbersNeverCollide, TargetsAreSound,
                 CompletedHasResults
<1> QED BY <1>1, <1>2, <1>3, <1>4, <1>5, <1>6, <1>7, <1>8, <1>9, <1>10, <1>11, <1>12
           DEF JenkinsNext, ServiceStep

-----------------------------------------------------------------------------
(* The inductive invariant holds throughout. *)
THEOREM JenkinsInvariant == JenkinsSpec => []JenkinsInv
BY JenkinsInvInit, JenkinsInvStep, PTL DEF JenkinsSpec

(* Whatever calls overlap, every field of the service and of its callers   *)
(* keeps its type: no thread ever writes a target that is not a status.    *)
THEOREM JenkinsTypes == JenkinsSpec => []JenkinsTypeOK
BY JenkinsInvariant, PTL DEF JenkinsInv

(* submit never registers a job over another one, and no thread works on a *)
(* job that is not there.                                                  *)
THEOREM NumbersNeverCollideTheorem == JenkinsSpec => []NumbersNeverCollide
BY JenkinsInvariant, PTL DEF JenkinsInv

(* A job or a copy of a job that reads completed carries its results, with *)
(* any number of threads advancing and cancelling it at once.              *)
THEOREM CompletedHasResultsTheorem == JenkinsSpec => []CompletedHasResults
BY JenkinsInvariant, PTL DEF JenkinsInv

-----------------------------------------------------------------------------
(***************************************************************************)
(* One caller at a time.  What _transition checked still holds when it     *)
(* writes, so every step of the service is a step of the job lifecycle.    *)
(***************************************************************************)

LoneCaller == \A t, u \in Callers : t = u

CheckStillHolds ==
    \A t \in Callers :
        call[t].pc = "set" =>
            Lifecycle!CanTransitionJob(jobStatus[call[t].job], call[t].target)

LEMMA LoneStep ==
    ASSUME LoneCaller, JenkinsInv, CheckStillHolds, [JenkinsNext]_jenkinsVars
    PROVE  CheckStillHolds' /\ [Lifecycle!Next]_jobStatus
<1> USE DEF JenkinsInv, JenkinsTypeOK
<1>1. ASSUME NEW t \in Callers, NEW r \in Requests, Submit(t, r)
      PROVE  CheckStillHolds' /\ [Lifecycle!Next]_jobStatus
  <2>1. nextNumber \in Jobs /\ jobStatus[nextNumber] = "absent"
      BY <1>1 DEF Submit, NumbersNeverCollide, Jobs
  <2>2. call'[t].pc = "ok"
      BY <1>1 DEF Submit, NoCall
  <2>3. CheckStillHolds'
      BY <2>2 DEF LoneCaller, CheckStillHolds
  <2>4. Lifecycle!Create(nextNumber)
      BY <1>1, <2>1 DEF Submit, Lifecycle!Create
  <2> QED BY <2>1, <2>3, <2>4 DEF Lifecycle!Next
<1>2. ASSUME NEW t \in Callers, Set(t)
      PROVE  CheckStillHolds' /\ [Lifecycle!Next]_jobStatus
  <2>1. /\ call[t].job \in Jobs
        /\ jobStatus[call[t].job] \in JobStatus
        /\ call[t].target \in JobStatus
      BY <1>2 DEF Set, NumbersNeverCollide, Known, TargetsAreSound, InTransition
  <2>2. call'[t].pc \in {"while", "copy"}
      BY <1>2 DEF Set, Goto, Call
  <2>3. CheckStillHolds'
      BY <2>2 DEF LoneCaller, CheckStillHolds
  <2>4. Lifecycle!Move(call[t].job, call[t].target)
      BY <1>2, <2>1 DEF Set, CheckStillHolds, Lifecycle!Move, JobStatus
  <2> QED BY <2>1, <2>3, <2>4 DEF Lifecycle!Next, JobStatus
<1>3. ASSUME NEW t \in Callers, Check(t)
      PROVE  CheckStillHolds' /\ [Lifecycle!Next]_jobStatus
  <2>1. /\ call' = [call EXCEPT ![t].pc =
                      IF Lifecycle!CanTransitionJob(jobStatus[call[t].job], call[t].target)
                      THEN "set" ELSE "invalid"]
        /\ jobStatus' = jobStatus
      BY <1>3 DEF Check, Goto, UnchangedJobs
  <2>2. CheckStillHolds'
      BY <2>1 DEF LoneCaller, CheckStillHolds, Call
  <2> QED BY <2>1, <2>2
<1>4. ASSUME NEW t \in Callers, UNCHANGED jobStatus, call'[t].pc # "set"
      PROVE  CheckStillHolds' /\ [Lifecycle!Next]_jobStatus
    BY <1>4 DEF LoneCaller, CheckStillHolds
<1>5. ASSUME NEW t \in Callers, SubmitRefused(t) \/ Return(t)
      PROVE  UNCHANGED jobStatus /\ call'[t].pc # "set"
    BY <1>5 DEF SubmitRefused, Return, UnchangedJobs, NoCall
<1>6. ASSUME NEW t \in Callers, NEW entry \in Entries, NEW j \in Jobs, Begin(t, entry, j)
      PROVE  UNCHANGED jobStatus /\ call'[t].pc # "set"
    BY <1>6 DEF Begin, Entries, UnchangedJobs, NoCall
<1>7. ASSUME NEW t \in Callers, While(t) \/ Simulate(t) \/ Copy(t)
      PROVE  UNCHANGED jobStatus /\ call'[t].pc # "set"
    BY <1>7 DEF While, Simulate, Copy, Goto, UnchangedJobs, Call
<1>8. ASSUME NEW t \in Callers, Cancel(t)
      PROVE  UNCHANGED jobStatus /\ call'[t].pc # "set"
    BY <1>8 DEF Cancel, UnchangedJobs, Call
<1>9. ASSUME NEW t \in Callers, Advance(t)
      PROVE  UNCHANGED jobStatus /\ call'[t].pc # "set"
    BY <1>9, AdvanceTargets DEF Advance, UnchangedJobs, Call
<1>10. CASE UNCHANGED jenkinsVars
    BY <1>10 DEF jenkinsVars, CheckStillHolds
<1> QED BY <1>1, <1>2, <1>3, <1>4, <1>5, <1>6, <1>7, <1>8, <1>9, <1>10
           DEF JenkinsNext, ServiceStep

(* Calls that do not overlap keep the lifecycle of models/execution.py: a  *)
(* service with a single caller implements JobLifecycle, so a terminal job *)
(* stays terminal.  With two callers it does not: the run jenkins_race.    *)
THEOREM LoneCallerFollowsLifecycle ==
    ASSUME LoneCaller
    PROVE  JenkinsSpec => JobsFollowLifecycle
<1>1. JenkinsInit => CheckStillHolds /\ Lifecycle!Init
    BY DEF JenkinsInit, CheckStillHolds, NoCall, Lifecycle!Init
<1>2. JenkinsInv /\ CheckStillHolds /\ [JenkinsNext]_jenkinsVars
          => CheckStillHolds' /\ [Lifecycle!Next]_jobStatus
    BY LoneStep
<1> QED BY <1>1, <1>2, JenkinsInvariant, PTL
           DEF JenkinsSpec, JobsFollowLifecycle, Lifecycle!Spec

=============================================================================
