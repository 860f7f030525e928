------------------------- MODULE ExecutionContract --------------------------
(***************************************************************************)
(* What the execution agent promises the orchestration about the plan of   *)
(* one workflow: an attempt to execute it ends with an outcome or is lost  *)
(* with its thread, the execution row is created once and never reopens,  *)
(* results are stored once and by an attempt, and an attempt reports       *)
(* "completed" only when the results are stored.                           *)
(***************************************************************************)
EXTENDS Naturals

CONSTANT Workflows

VARIABLES
    busy,      \* is an attempt under way
    outcome,   \* how the last attempt ended
    row,       \* status of the execution row, "none" if there is none
    results    \* how many times a batch of results was stored

contractVars == <<busy, outcome, row, results>>

(* Three verdicts are final; "running" is what a copy of the job can show  *)
(* when a third party moved it after the agent saw it finished.            *)
Verdicts == {"completed", "failed", "cancelled", "running"}

Init ==
    /\ busy    = [w \in Workflows |-> FALSE]
    /\ outcome = [w \in Workflows |-> "none"]
    /\ row     = [w \in Workflows |-> "none"]
    /\ results = [w \in Workflows |-> 0]

Attempt(w) ==
    /\ ~busy[w]
    /\ busy' = [busy EXCEPT ![w] = TRUE]
    /\ UNCHANGED <<outcome, row, results>>

(* The row appears during an attempt. *)
Open(w) ==
    /\ busy[w] /\ row[w] = "none"
    /\ row' = [row EXCEPT ![w] = "queued"]
    /\ UNCHANGED <<busy, outcome, results>>

(* A cancellation from outside; nothing keeps it from replacing a verdict, *)
(* or a verdict from replacing it.                                         *)
Cancel(w) ==
    /\ row[w] # "none"
    /\ row' = [row EXCEPT ![w] = "cancelled"]
    /\ UNCHANGED <<busy, outcome, results>>

Store(w) ==
    /\ busy[w] /\ row[w] # "none" /\ results[w] = 0
    /\ results' = [results EXCEPT ![w] = 1]
    /\ UNCHANGED <<busy, outcome, row>>

(* The attempt ends; its verdict and the row are written together.  A      *)
(* verdict it merely reads off the row is the row's.                       *)
Finish(w) ==
    /\ busy[w]
    /\ busy' = [busy EXCEPT ![w] = FALSE]
    /\ \/ /\ \E o \in Verdicts :
                 /\ row[w] # "none"
                 /\ o = "completed" => results[w] = 1
                 /\ row' = [row EXCEPT ![w] = o]
                 /\ outcome' = [outcome EXCEPT ![w] = o]
       \/ /\ row[w] # "none"
          /\ outcome' = [outcome EXCEPT ![w] = row[w]]
          /\ UNCHANGED row
       \/ /\ outcome' = [outcome EXCEPT ![w] = "error"]
          /\ row' = [row EXCEPT ![w] = IF row[w] = "none" THEN "none" ELSE "failed"]
    /\ UNCHANGED results

(* A plan that was not cleared is refused before anything happens. *)
Refuse(w) ==
    /\ ~busy[w]
    /\ outcome' = [outcome EXCEPT ![w] = "error"]
    /\ UNCHANGED <<busy, row, results>>

(* Threads end in the middle of their attempts, one by an exception nobody *)
(* catches or all of them with the process; the tables stay.               *)
Lose(lost) ==
    /\ \A w \in lost : busy[w]
    /\ busy' = [w \in Workflows |-> busy[w] /\ w \notin lost]
    /\ outcome' = [w \in Workflows |-> IF w \in lost THEN "lost" ELSE outcome[w]]
    /\ UNCHANGED <<row, results>>

(* The attempt writes its verdict and its thread ends before it returns.   *)
LoseVerdict(w) ==
    /\ busy[w] /\ row[w] # "none"
    /\ busy' = [busy EXCEPT ![w] = FALSE]
    /\ \E o \in Verdicts :
          /\ o = "completed" => results[w] = 1
          /\ row' = [row EXCEPT ![w] = o]
    /\ outcome' = [outcome EXCEPT ![w] = "lost"]
    /\ UNCHANGED results

Next ==
    \/ \E w \in Workflows :
          \/ Attempt(w) \/ Open(w) \/ Cancel(w)
          \/ Store(w) \/ Finish(w) \/ Refuse(w) \/ LoseVerdict(w)
    \/ \E lost \in SUBSET Workflows : Lose(lost)

Spec == Init /\ [][Next]_contractVars

=============================================================================
