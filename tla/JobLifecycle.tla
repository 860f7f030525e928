---------------------------- MODULE JobLifecycle ----------------------------
(***************************************************************************)
(* What the simulated CI system promises about one job: the statuses of    *)
(* app/models/execution.py and the moves its transition table allows.  A   *)
(* job that does not exist is "absent".  The table is total here: a status *)
(* the Python dictionary has no key for has no successor                   *)
(* (ALLOWED_JOB_TRANSITIONS.get(current, frozenset())).                    *)
(***************************************************************************)

CONSTANT Jobs

VARIABLE jobStatus

JobStatus == {"queued", "running", "completed", "failed", "cancelled"}

IsTerminal(s) == s \in {"completed", "failed", "cancelled"}

AllowedJobTransitions ==
    [s \in JobStatus |->
        CASE s = "queued"  -> {"running", "failed", "cancelled"}
          [] s = "running" -> {"completed", "failed", "cancelled"}
          [] OTHER         -> {}]

CanTransitionJob(current, target) == target \in AllowedJobTransitions[current]

(***************************************************************************)
(* A job is created queued, and then only makes moves of the table.        *)
(***************************************************************************)
Init == jobStatus = [j \in Jobs |-> "absent"]

Create(j) ==
    /\ jobStatus[j] = "absent"
    /\ jobStatus' = [jobStatus EXCEPT ![j] = "queued"]

Move(j, target) ==
    /\ jobStatus[j] \in JobStatus
    /\ CanTransitionJob(jobStatus[j], target)
    /\ jobStatus' = [jobStatus EXCEPT ![j] = target]

Next == \E j \in Jobs : Create(j) \/ \E target \in JobStatus : Move(j, target)

Spec == Init /\ [][Next]_jobStatus

=============================================================================
