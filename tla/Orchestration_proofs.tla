------------------------- MODULE Orchestration_proofs --------------------------
(***************************************************************************)
(* Safety of the workflow graph, for any number of workflows.              *)
(*                                                                         *)
(* Why the transition table never stops a thread: a node is entered in the *)
(* one status (the execution node in one of two) that its advances start   *)
(* from, and it is left for the node whose entry its last advance meets.   *)
(* Everything else is said relative to that place: what the timeline has   *)
(* so far, when an execution can exist, and when its results do.  Another  *)
(* workflow's step changes nothing of this one's, so that each action has  *)
(* only its own workflow left to show.                                     *)
(***************************************************************************)
EXTENDS Orchestration, SequenceTheorems, TLAPS

CanTransition(s, target) == Lifecycle!CanTransition(s, target)

(* The statuses a node's body can start in ... *)
Entry(node) ==
    CASE node = "intent"     -> {"received"}
      [] node = "retrieval"  -> {"intent_parsed"}
      [] node = "planning"   -> {"evidence_retrieved"}
      [] node = "rejection"  -> {"plan_created"}
      [] node = "dry_run"    -> {"plan_created"}
      [] node = "execution"  -> {"plan_created", "execution_running"}
      [] node = "analysis"   -> {"results_collected"}
      [] node = "completion" -> {"analyzed", "fallback_summary"}
      [] OTHER               -> {}

(* ... and those it advances to. *)
Goals(node) ==
    CASE node = "start"      -> {"received"}
      [] node = "intent"     -> {"intent_parsed", "needs_clarification"}
      [] node = "retrieval"  -> {"evidence_retrieved", "retrieval_failed"}
      [] node = "planning"   -> {"plan_created"}
      [] node = "rejection"  -> {"rejected"}
      [] node = "dry_run"    -> {"dry_run_complete"}
      [] node = "execution"  -> {"execution_queued", "execution_running",
                                 "results_collected", "execution_failed"}
      [] node = "analysis"   -> {"analyzed", "fallback_summary"}
      [] node = "completion" -> {"completed"}
      [] OTHER               -> {}

Place(w) ==
    /\ position[w].node = "none" => status[w] = "absent"
    /\ position[w].node # "none" => status[w] \in WorkflowStatus
    /\ position[w].node = "start" => position[w].phase = "event"
    /\ position[w].node \in Nodes /\ position[w].phase = "body"
          => status[w] \in Entry(position[w].node)
    /\ position[w].phase = "update"
          => /\ position[w].target \in Goals(position[w].node)
             /\ CanTransition(status[w], position[w].target)
    /\ position[w].phase = "event"
          => /\ position[w].target \in Goals(position[w].node)
             /\ status[w] = position[w].target
    /\ position[w].phase = "wait"
          => position[w].node = "execution" /\ status[w] = "execution_running"

(* The timeline as a path: TimelineTracksStatus, and between the two writes *)
(* of _advance the path can be continued with the status.                   *)
History(w) ==
    /\ timeline[w] # <<>> => timeline[w][1] = "received"
    /\ \A i \in 1 .. Len(timeline[w]) - 1 : CanTransition(timeline[w][i], timeline[w][i + 1])
    /\ position[w].node = "none" => timeline[w] = <<>>
    /\ position[w].phase = "event" =>
          IF timeline[w] = <<>> THEN status[w] = "received"
          ELSE CanTransition(LastEvent(w), status[w])
    /\ position[w].node = "lost" =>
          IF timeline[w] = <<>> THEN status[w] = "received"
          ELSE LastEvent(w) = status[w] \/ CanTransition(LastEvent(w), status[w])
    /\ position[w].node \notin {"none", "lost"} /\ position[w].phase # "event"
          => timeline[w] # <<>> /\ LastEvent(w) = status[w]

Retrieved(T) == \E e \in DOMAIN T : T[e] = "evidence_retrieved"

Planned(T) ==
    \E e, p \in DOMAIN T : e < p /\ T[e] = "evidence_retrieved" /\ T[p] = "plan_created"

Started(T) ==
    \E e, p, q \in DOMAIN T : /\ e < p /\ p < q
                              /\ T[e] = "evidence_retrieved"
                              /\ T[p] = "plan_created"
                              /\ T[q] = "execution_running"

Touched(w) == busy[w] \/ row[w] # "none" \/ results[w] > 0

(* What is on record, and was decided, before an execution exists. *)
Cleared(w) ==
    /\ position[w].node = "planning" => Retrieved(timeline[w])
    /\ position[w].node \in {"rejection", "dry_run", "execution"} => Planned(timeline[w])
    /\ position[w].node = "execution" =>
          /\ policy[w] = "allowed" /\ ~dryRun[w]
          /\ position[w].phase \in {"body", "wait"} /\ status[w] = "execution_running"
                => Started(timeline[w])
    /\ Touched(w) =>
          /\ position[w].node \in {"execution", "analysis", "completion", "end", "lost"}
          /\ policy[w] = "allowed" /\ ~dryRun[w]
          /\ Started(timeline[w])

Collected == {"results_collected", "analyzed", "fallback_summary", "completed"}

Backed(w) ==
    /\ busy[w] <=> position[w].phase = "wait"
    /\ outcome[w] = "completed" => results[w] = 1
    /\ row[w] = "completed" => results[w] = 1
    /\ position[w].phase = "update" /\ position[w].target = "results_collected"
          => outcome[w] = "completed"
    /\ status[w] \in Collected => outcome[w] = "completed"
    /\ status[w] \in Collected \ {"results_collected"} => report[w] # "none"
    /\ position[w].node = "analysis" /\ position[w].phase # "body" => report[w] # "none"
    /\ report[w] # "none" => status[w] \in Collected

IsPlaced(w) == Place(w) /\ History(w) /\ Cleared(w) /\ Backed(w)

GraphInv == TypeOK /\ \A w \in Workflows : IsPlaced(w)

-----------------------------------------------------------------------------
(* The transition table has every move a node asks for. *)

LEMMA GraphMoves ==
    /\ CanTransition("received", "intent_parsed")
    /\ CanTransition("received", "needs_clarification")
    /\ CanTransition("intent_parsed", "evidence_retrieved")
    /\ CanTransition("intent_parsed", "retrieval_failed")
    /\ CanTransition("evidence_retrieved", "plan_created")
    /\ CanTransition("plan_created", "rejected")
    /\ CanTransition("plan_created", "dry_run_complete")
    /\ CanTransition("plan_created", "execution_queued")
    /\ CanTransition("execution_queued", "execution_running")
    /\ CanTransition("execution_running", "results_collected")
    /\ CanTransition("execution_running", "execution_failed")
    /\ CanTransition("results_collected", "analyzed")
    /\ CanTransition("results_collected", "fallback_summary")
    /\ CanTransition("analyzed", "completed")
    /\ CanTransition("fallback_summary", "completed")
BY DEF CanTransition, Lifecycle!CanTransition, Lifecycle!AllowedTransitions,
       Lifecycle!WorkflowStatus, Lifecycle!TerminalStatus

(* An appended event continues the timeline and takes nothing away. *)
LEMMA AppendedEvent ==
    ASSUME NEW T \in Seq(WorkflowStatus), NEW s \in WorkflowStatus
    PROVE  LET U == Append(T, s) IN
           /\ U \in Seq(WorkflowStatus) /\ U # <<>>
           /\ Len(U) = Len(T) + 1 /\ U[Len(U)] = s
           /\ \A i \in 1 .. Len(T) : U[i] = T[i]
           /\ Retrieved(T) \/ s = "evidence_retrieved" => Retrieved(U)
           /\ Planned(T) \/ (Retrieved(T) /\ s = "plan_created") => Planned(U)
           /\ Started(T) \/ (Planned(T) /\ s = "execution_running") => Started(U)
<1> DEFINE U == Append(T, s)
<1>1. /\ U \in Seq(WorkflowStatus) /\ Len(U) = Len(T) + 1 /\ U[Len(U)] = s
      /\ \A i \in 1 .. Len(T) : U[i] = T[i]
    BY AppendProperties
<1>2. DOMAIN U = 1 .. Len(T) + 1 /\ DOMAIN T = 1 .. Len(T) /\ Len(T) \in Nat
    BY <1>1
<1> HIDE DEF U
<1>3. U # <<>>
    BY <1>2
<1>4. Retrieved(T) \/ s = "evidence_retrieved" => Retrieved(U)
    BY <1>1, <1>2 DEF Retrieved
<1>5. Planned(T) \/ (Retrieved(T) /\ s = "plan_created") => Planned(U)
    <2>1. Planned(T) => Planned(U)
        BY <1>1, <1>2 DEF Planned
    <2>2. ASSUME Retrieved(T), s = "plan_created" PROVE Planned(U)
        <3>1. PICK e \in DOMAIN T : T[e] = "evidence_retrieved"
            BY <2>2 DEF Retrieved
        <3>2. e < Len(T) + 1 /\ U[e] = "evidence_retrieved" /\ U[Len(T) + 1] = "plan_created"
            BY <1>1, <1>2, <2>2, <3>1
        <3> QED BY <1>2, <3>1, <3>2 DEF Planned
    <2> QED BY <2>1, <2>2
<1>6. Started(T) \/ (Planned(T) /\ s = "execution_running") => Started(U)
    <2>1. ASSUME Started(T) PROVE Started(U)
        <3>1. PICK e \in DOMAIN T, p \in DOMAIN T, q \in DOMAIN T :
                  /\ e < p /\ p < q /\ T[e] = "evidence_retrieved"
                  /\ T[p] = "plan_created" /\ T[q] = "execution_running"
            BY <2>1 DEF Started
        <3>2. U[e] = T[e] /\ U[p] = T[p] /\ U[q] = T[q] /\ {e, p, q} \subseteq DOMAIN U
            BY <1>1, <1>2
        <3> QED BY <3>1, <3>2 DEF Started
    <2>2. ASSUME Planned(T), s = "execution_running" PROVE Started(U)
        <3>1. PICK e \in DOMAIN T, p \in DOMAIN T :
                  e < p /\ T[e] = "evidence_retrieved" /\ T[p] = "plan_created"
            BY <2>2 DEF Planned
        <3>2. /\ p < Len(T) + 1 /\ U[e] = T[e] /\ U[p] = T[p]
              /\ U[Len(T) + 1] = "execution_running" /\ {e, p, Len(T) + 1} \subseteq DOMAIN U
            BY <1>1, <1>2, <2>2, <3>1
        <3> QED BY <3>1, <3>2 DEF Started
    <2> QED BY <2>1, <2>2
<1> QED BY <1>1, <1>3, <1>4, <1>5, <1>6 DEF U

-----------------------------------------------------------------------------
(* A workflow nobody touches keeps its place. *)

Untouched(v) ==
    /\ status'[v] = status[v] /\ dryRun'[v] = dryRun[v] /\ timeline'[v] = timeline[v]
    /\ position'[v] = position[v] /\ policy'[v] = policy[v] /\ report'[v] = report[v]
    /\ busy'[v] = busy[v] /\ outcome'[v] = outcome[v] /\ row'[v] = row[v]
    /\ results'[v] = results[v]

LEMMA UntouchedKeepsPlace ==
    ASSUME NEW v \in Workflows, Untouched(v), IsPlaced(v)
    PROVE  IsPlaced(v)'
<1>1. Place(v)'
    BY DEF Untouched, IsPlaced, Place
<1>2. History(v)'
    BY DEF Untouched, IsPlaced, History, LastEvent
<1>3. Cleared(v)'
    BY DEF Untouched, IsPlaced, Cleared, Touched
<1>4. Backed(v)'
    BY DEF Untouched, IsPlaced, Backed
<1> QED BY <1>1, <1>2, <1>3, <1>4 DEF IsPlaced

LEMMA OthersKeepTheirPlace ==
    ASSUME GraphInv, NEW w \in Workflows, TypeOK', IsPlaced(w)',
           \A v \in Workflows \ {w} : Untouched(v)
    PROVE  GraphInv'
BY UntouchedKeepsPlace DEF GraphInv

-----------------------------------------------------------------------------
(* The nodes: a body that does its work and asks for an advance. *)

LEMMA AdvanceEffect ==
    ASSUME TypeOK, NEW w \in Workflows, NEW target \in WorkflowStatus,
           position[w].node \in Nodes, Advance(w, target)
    PROVE  /\ position' \in [Workflows -> Position]
           /\ position'[w].node = position[w].node
           /\ position'[w].phase = "update"
           /\ position'[w].target = target
           /\ \A v \in Workflows \ {w} : position'[v] = position[v]
<1>1. position[w] \in Position /\ position \in [Workflows -> Position]
    BY DEF TypeOK
<1>2. "update" \in Phases
    BY DEF Phases
<1> DEFINE p == [position[w] EXCEPT !.phase = "update", !.target = target]
<1>3. position[w] \in [node : Nodes, phase : Phases, target : WorkflowStatus \cup {NoTarget}]
    BY <1>1 DEF Position, Nodes
<1>4. p \in Position /\ p.node = position[w].node /\ p.phase = "update" /\ p.target = target
    BY <1>2, <1>3 DEF Position
<1>5. position' = [position EXCEPT ![w] = p]
    BY <1>1 DEF Advance
<1> HIDE DEF p
<1> QED BY <1>1, <1>4, <1>5

LEMMA NodeAdvances ==
    ASSUME GraphInv, NEW w \in Workflows, NEW target \in WorkflowStatus,
           position[w].node \in Nodes, position[w].phase = "body",
           target \in Goals(position[w].node), CanTransition(status[w], target),
           target # "results_collected",
           Advance(w, target),
           UNCHANGED <<status, dryRun, timeline, executionVars>>,
           TypeOK',
           \A v \in Workflows \ {w} : policy'[v] = policy[v] /\ report'[v] = report[v],
           position[w].node # "planning" => policy'[w] = policy[w],
           position[w].node # "analysis" => report'[w] = report[w],
           position[w].node = "analysis" => report'[w] # "none"
    PROVE  GraphInv'
<1>1. TypeOK /\ Place(w) /\ History(w) /\ Cleared(w) /\ Backed(w)
    BY DEF GraphInv, IsPlaced
<1>2. /\ position'[w].node = position[w].node
      /\ position'[w].phase = "update"
      /\ position'[w].target = target
      /\ \A v \in Workflows \ {w} : position'[v] = position[v]
    BY <1>1, AdvanceEffect
<1>3. /\ status' = status /\ dryRun' = dryRun /\ timeline' = timeline /\ busy' = busy
      /\ outcome' = outcome /\ row' = row /\ results' = results
    BY DEF executionVars
<1>4. Place(w)'
    BY <1>1, <1>2, <1>3 DEF Place, Nodes
<1>5. History(w)'
    BY <1>1, <1>2, <1>3 DEF History, LastEvent, Nodes
<1>6. Cleared(w)'
    BY <1>1, <1>2, <1>3 DEF Cleared, Touched
<1>7. Backed(w)'
    <2>1. position[w].node = "analysis" => status[w] = "results_collected"
        BY <1>1 DEF Place, Entry, Nodes
    <2> QED BY <1>1, <1>2, <1>3, <2>1 DEF Backed, Collected
<1>8. \A v \in Workflows \ {w} : Untouched(v)
    BY <1>2, <1>3 DEF Untouched
<1> QED BY <1>4, <1>5, <1>6, <1>7, <1>8, OthersKeepTheirPlace DEF IsPlaced

LEMMA NodeStep ==
    ASSUME GraphInv, NEW w \in Workflows,
           \/ IntentNode(w) \/ RetrievalNode(w) \/ PlanningNode(w) \/ RejectionNode(w)
           \/ DryRunNode(w) \/ QueueExecution(w) \/ AnalysisNode(w) \/ CompletionNode(w)
    PROVE  GraphInv'
<1> USE GraphMoves
<1>1. TypeOK /\ Place(w)
    BY DEF GraphInv, IsPlaced
<1>2. \A s \in UNION {Goals(n) : n \in Nodes} : s \in WorkflowStatus
    BY DEF Goals, Nodes, WorkflowStatus, Lifecycle!WorkflowStatus, Lifecycle!TerminalStatus
<1>3. ASSUME NEW target \in WorkflowStatus, position[w].node \in Nodes, Advance(w, target),
             UNCHANGED <<status, dryRun, timeline, executionVars>>,
             policy' \in [Workflows -> {"none", "allowed", "blocked"}],
             report' \in [Workflows -> {"none", "ai_generated", "fallback"}]
      PROVE  TypeOK'
    <2>1. position' \in [Workflows -> Position]
        BY <1>1, <1>3, AdvanceEffect
    <2> QED BY <1>1, <1>3, <2>1 DEF TypeOK, executionVars
<1>4. CASE IntentNode(w)
    <2>1. PICK s \in {"intent_parsed", "needs_clarification"} : Advance(w, s)
        BY <1>4 DEF IntentNode
    <2>2. /\ position[w].node = "intent" /\ position[w].phase = "body"
          /\ UNCHANGED <<status, dryRun, timeline, policy, report, executionVars>>
        BY <1>4 DEF IntentNode, At
    <2>3. status[w] = "received" /\ position[w].node \in Nodes /\ s \in Goals("intent")
        BY <1>1, <2>2 DEF Place, Entry, Nodes, Goals
    <2>4. s \in WorkflowStatus /\ CanTransition(status[w], s) /\ s # "results_collected"
        BY <1>2, <2>2, <2>3
    <2>5. TypeOK'
        BY <1>1, <1>3, <2>1, <2>2, <2>3, <2>4 DEF TypeOK
    <2> QED BY <2>1, <2>2, <2>3, <2>4, <2>5, NodeAdvances
<1>5. CASE RetrievalNode(w)
    <2>1. PICK s \in {"evidence_retrieved", "retrieval_failed"} : Advance(w, s)
        BY <1>5 DEF RetrievalNode
    <2>2. /\ position[w].node = "retrieval" /\ position[w].phase = "body"
          /\ UNCHANGED <<status, dryRun, timeline, policy, report, executionVars>>
        BY <1>5 DEF RetrievalNode, At
    <2>3. status[w] = "intent_parsed" /\ position[w].node \in Nodes /\ s \in Goals("retrieval")
        BY <1>1, <2>2 DEF Place, Entry, Nodes, Goals
    <2>4. s \in WorkflowStatus /\ CanTransition(status[w], s) /\ s # "results_collected"
        BY <1>2, <2>2, <2>3
    <2>5. TypeOK'
        BY <1>1, <1>3, <2>1, <2>2, <2>3, <2>4 DEF TypeOK
    <2> QED BY <2>1, <2>2, <2>3, <2>4, <2>5, NodeAdvances
<1>6. CASE PlanningNode(w)
    <2>1. Advance(w, "plan_created")
        BY <1>6 DEF PlanningNode
    <2>2. /\ position[w].node = "planning" /\ position[w].phase = "body"
          /\ UNCHANGED <<status, dryRun, timeline, report, executionVars>>
        BY <1>6 DEF PlanningNode, At
    <2>3. PICK verdict \in {"allowed", "blocked"} : policy' = [policy EXCEPT ![w] = verdict]
        BY <1>6 DEF PlanningNode
    <2>4. /\ policy' \in [Workflows -> {"none", "allowed", "blocked"}]
          /\ \A v \in Workflows \ {w} : policy'[v] = policy[v]
        BY <1>1, <2>3 DEF TypeOK
    <2>5. /\ status[w] = "evidence_retrieved" /\ position[w].node \in Nodes
          /\ "plan_created" \in Goals("planning")
        BY <1>1, <2>2 DEF Place, Entry, Nodes, Goals
    <2>6. "plan_created" \in WorkflowStatus /\ CanTransition(status[w], "plan_created")
        BY <1>2, <2>2, <2>5
    <2>7. TypeOK'
        BY <1>1, <1>3, <2>1, <2>2, <2>4, <2>5, <2>6 DEF TypeOK
    <2> QED BY <2>1, <2>2, <2>4, <2>5, <2>6, <2>7, NodeAdvances
<1>7. CASE RejectionNode(w) \/ DryRunNode(w) \/ QueueExecution(w) \/ CompletionNode(w)
    <2>1. PICK s \in {"rejected", "dry_run_complete", "execution_queued", "completed"} :
             /\ Advance(w, s)
             /\ position[w].phase = "body"
             /\ UNCHANGED <<status, dryRun, timeline, policy, report, executionVars>>
             /\ \/ position[w].node = "rejection" /\ s = "rejected"
                \/ position[w].node = "dry_run" /\ s = "dry_run_complete"
                \/ /\ position[w].node = "execution" /\ s = "execution_queued"
                   /\ status[w] = "plan_created"
                \/ position[w].node = "completion" /\ s = "completed"
        BY <1>7 DEF RejectionNode, DryRunNode, QueueExecution, CompletionNode, At
    <2>2. position[w].node \in Nodes /\ s \in Goals(position[w].node)
        BY <2>1 DEF Nodes, Goals
    <2>3. status[w] \in Entry(position[w].node)
        BY <1>1, <2>1, <2>2 DEF Place
    <2>4. CanTransition(status[w], s)
        BY <2>1, <2>3 DEF Entry
    <2>5. s \in WorkflowStatus /\ s # "results_collected"
        BY <1>2, <2>1, <2>2
    <2>6. TypeOK'
        BY <1>1, <1>3, <2>1, <2>2, <2>5 DEF TypeOK
    <2>7. position[w].node # "analysis" /\ position[w].node # "planning"
        BY <2>1
    <2> QED BY <2>1, <2>2, <2>4, <2>5, <2>6, <2>7, NodeAdvances
<1>8. CASE AnalysisNode(w)
    <2>1. PICK s \in {"fallback_summary", "analyzed"}, kind \in {"ai_generated", "fallback"} :
             Advance(w, s) /\ report' = [report EXCEPT ![w] = kind]
        BY <1>8 DEF AnalysisNode
    <2>2. /\ position[w].node = "analysis" /\ position[w].phase = "body"
          /\ UNCHANGED <<status, dryRun, timeline, policy, executionVars>>
        BY <1>8 DEF AnalysisNode, At
    <2>3. /\ report' \in [Workflows -> {"none", "ai_generated", "fallback"}]
          /\ report'[w] # "none"
          /\ \A v \in Workflows \ {w} : report'[v] = report[v]
        BY <1>1, <2>1 DEF TypeOK
    <2>4. status[w] = "results_collected" /\ position[w].node \in Nodes /\ s \in Goals("analysis")
        BY <1>1, <2>2 DEF Place, Entry, Nodes, Goals
    <2>5. s \in WorkflowStatus /\ CanTransition(status[w], s) /\ s # "results_collected"
        BY <1>2, <2>1, <2>2, <2>4
    <2>6. TypeOK'
        BY <1>1, <1>3, <2>1, <2>2, <2>3, <2>4, <2>5 DEF TypeOK
    <2> QED BY <2>1, <2>2, <2>3, <2>4, <2>5, <2>6, NodeAdvances
<1> QED BY <1>4, <1>5, <1>6, <1>7, <1>8

-----------------------------------------------------------------------------
(* _advance: the table never refuses, and the event continues the timeline. *)

LEMMA CollectedMoves ==
    ASSUME NEW s \in WorkflowStatus, NEW target, CanTransition(s, target)
    PROVE  /\ s \in Collected => target \in Collected
           /\ target \in Collected \ {"results_collected"} => s \in Collected
           /\ target = "completed" => s \in {"analyzed", "fallback_summary"}
BY DEF Collected, CanTransition, Lifecycle!CanTransition, Lifecycle!AllowedTransitions,
       WorkflowStatus

LEMMA UpdateStep ==
    ASSUME GraphInv, NEW w \in Workflows, UpdateStatus(w)
    PROVE  GraphInv'
<1>1. TypeOK /\ Place(w) /\ History(w) /\ Cleared(w) /\ Backed(w)
    BY DEF GraphInv, IsPlaced
<1>2. /\ position[w].phase = "update"
      /\ UNCHANGED <<dryRun, timeline, policy, report, executionVars>>
    BY DEF UpdateStatus
<1>3. position[w].target \in Goals(position[w].node) /\ CanTransition(status[w], position[w].target)
    BY <1>1, <1>2 DEF Place
<1>4. position[w] \in Position /\ position \in [Workflows -> Position]
    BY <1>1 DEF TypeOK
<1>5. position[w].node \in Nodes
    BY <1>2, <1>4 DEF Position
<1>6. position[w].target \in WorkflowStatus
    BY <1>3, <1>5 DEF Goals, Nodes, WorkflowStatus, Lifecycle!WorkflowStatus,
                      Lifecycle!TerminalStatus
<1>7. /\ status' = [status EXCEPT ![w] = position[w].target]
      /\ position' = [position EXCEPT ![w].phase = "event"]
    BY <1>3 DEF UpdateStatus, CanTransition
<1> DEFINE p == [position[w] EXCEPT !.phase = "event"]
<1>8. position[w] \in [node : Nodes, phase : Phases, target : WorkflowStatus \cup {NoTarget}]
    BY <1>2, <1>4 DEF Position
<1>9. /\ p \in Position /\ p.node = position[w].node /\ p.phase = "event"
      /\ p.target = position[w].target
    BY <1>8 DEF Position, Phases
<1>10. position' = [position EXCEPT ![w] = p]
    BY <1>7
<1> HIDE DEF p
<1>11. /\ position' \in [Workflows -> Position]
       /\ position'[w].node = position[w].node /\ position'[w].phase = "event"
       /\ position'[w].target = position[w].target
       /\ status' \in [Workflows -> WorkflowStatus \cup {"absent"}]
       /\ status'[w] = position[w].target
       /\ \A v \in Workflows \ {w} : position'[v] = position[v] /\ status'[v] = status[v]
    <2>1. /\ position' \in [Workflows -> Position] /\ position'[w] = p
          /\ \A v \in Workflows \ {w} : position'[v] = position[v]
        BY <1>4, <1>9, <1>10
    <2>2. status \in [Workflows -> WorkflowStatus \cup {"absent"}]
        BY <1>1 DEF TypeOK
    <2>3. /\ status' \in [Workflows -> WorkflowStatus \cup {"absent"}]
          /\ status'[w] = position[w].target
          /\ \A v \in Workflows \ {w} : status'[v] = status[v]
        BY <1>6, <1>7, <2>2
    <2> QED BY <1>9, <2>1, <2>3
<1>12. /\ dryRun' = dryRun /\ timeline' = timeline /\ busy' = busy /\ policy' = policy
       /\ outcome' = outcome /\ row' = row /\ results' = results /\ report' = report
    BY <1>2 DEF executionVars
<1>13. TypeOK'
    BY <1>1, <1>11, <1>12 DEF TypeOK
<1>14. Place(w)'
    BY <1>3, <1>5, <1>6, <1>11 DEF Place, Nodes
<1>15. History(w)'
    <2>1. timeline[w] # <<>> /\ LastEvent(w) = status[w]
        BY <1>1, <1>2, <1>5 DEF History, Nodes
    <2> QED BY <1>1, <1>3, <1>5, <1>11, <1>12, <2>1 DEF History, LastEvent, Nodes
<1>16. Cleared(w)'
    BY <1>1, <1>11, <1>12 DEF Cleared, Touched
<1>17. Backed(w)'
    <2>1. ASSUME position[w].target \in Collected
          PROVE  /\ outcome[w] = "completed"
                 /\ position[w].target # "results_collected" => report[w] # "none"
        <3>1. CASE position[w].target = "results_collected"
            BY <1>1, <1>2, <3>1 DEF Backed
        <3>2. CASE position[w].target # "results_collected"
            <4>1. position[w].node \in {"analysis", "completion"}
                BY <1>3, <1>5, <2>1, <3>2 DEF Goals, Collected, Nodes
            <4>2. status[w] \in Collected
                <5>1. status[w] \in WorkflowStatus
                    BY <1>1, <1>5 DEF Place, Nodes
                <5> QED BY <1>3, <2>1, <3>2, <5>1, CollectedMoves
            <4>3. position[w].node = "analysis" => report[w] # "none"
                BY <1>1, <1>2 DEF Backed
            <4>4. position[w].node = "completion" => report[w] # "none"
                <5>1. SUFFICES ASSUME position[w].node = "completion" PROVE report[w] # "none"
                    OBVIOUS
                <5>2. position[w].target = "completed"
                    BY <1>3, <5>1 DEF Goals
                <5>3. status[w] \in WorkflowStatus
                    BY <1>1, <5>1 DEF Place
                <5>4. status[w] \in {"analyzed", "fallback_summary"}
                    BY <1>3, <5>2, <5>3, CollectedMoves
                <5> QED BY <1>1, <5>4 DEF Backed, Collected
            <4> QED BY <1>1, <4>1, <4>2, <4>3, <4>4 DEF Backed
        <3> QED BY <3>1, <3>2
    <2>2. report[w] # "none" => position[w].target \in Collected
        <3>1. SUFFICES ASSUME report[w] # "none" PROVE position[w].target \in Collected
            OBVIOUS
        <3>2. status[w] \in Collected /\ status[w] \in WorkflowStatus
            BY <1>1, <1>5, <3>1 DEF Backed, Place, Nodes
        <3> QED BY <1>3, <3>2, CollectedMoves
    <2>3. busy'[w] = busy[w] /\ ~busy[w]
        BY <1>1, <1>2, <1>12 DEF Backed
    <2> QED BY <1>1, <1>2, <1>11, <1>12, <2>1, <2>2, <2>3 DEF Backed
<1>18. \A v \in Workflows \ {w} : Untouched(v)
    BY <1>11, <1>12 DEF Untouched
<1> QED BY <1>13, <1>14, <1>15, <1>16, <1>17, <1>18, OthersKeepTheirPlace DEF IsPlaced

(* Where an advance leads: the next node is entered in a status it can start in. *)
LEMMA AdvanceLeads ==
    ASSUME NEW w, position[w].node \in Nodes, position[w].target \in Goals(position[w].node),
           position[w].node = "start" => position[w].target = "received"
    PROVE  LET p == AfterAdvance(w)
               s == position[w].target
           IN  \/ /\ p = Enter(p.node) /\ p.node = "end" /\ IsTerminal(s)
               \/ /\ p = Enter(p.node) /\ p.node \in Nodes /\ s \in Entry(p.node)
                  /\ p.node = "planning" => s = "evidence_retrieved"
                  /\ p.node \in {"rejection", "dry_run"} => s = "plan_created"
                  /\ p.node = "execution" =>
                        \/ position[w].node = "execution" /\ s = "execution_running"
                        \/ s = "plan_created" /\ policy[w] = "allowed" /\ ~dryRun[w]
                  /\ p.node \in {"start", "intent", "retrieval"} =>
                        position[w].node \in {"start", "intent"}
                  /\ p.node = "planning" => position[w].node = "retrieval"
                  /\ p.node \in {"rejection", "dry_run"} => position[w].node = "planning"
                  /\ p.node = "execution" => position[w].node \in {"planning", "execution"}
               \/ /\ p = [node |-> "execution", phase |-> "update", target |-> "execution_running"]
                  /\ s = "execution_queued" /\ position[w].node = "execution"
<1> USE DEF AfterAdvance, NextNode, RouteAfterIntent, RouteAfterRetrieval, RouteAfterPlanning,
            RouteAfterExecution, Goals, Entry, Enter, IsTerminal, Lifecycle!TerminalStatus
<1>1. CASE position[w].node = "start"
    BY <1>1 DEF Nodes
<1>2. CASE position[w].node = "intent"
    BY <1>2 DEF Nodes
<1>3. CASE position[w].node = "retrieval"
    BY <1>3 DEF Nodes
<1>4. CASE position[w].node = "planning"
    BY <1>4 DEF Nodes
<1>5. CASE position[w].node \in {"rejection", "dry_run"}
    BY <1>5 DEF Nodes
<1>6. CASE position[w].node = "execution"
    BY <1>6 DEF Nodes
<1>7. CASE position[w].node \in {"analysis", "completion"}
    BY <1>7 DEF Nodes
<1> QED BY <1>1, <1>2, <1>3, <1>4, <1>5, <1>6, <1>7 DEF Nodes

LEMMA RecordStep ==
    ASSUME GraphInv, NEW w \in Workflows, RecordEvent(w)
    PROVE  GraphInv'
<1>1. TypeOK /\ Place(w) /\ History(w) /\ Cleared(w) /\ Backed(w)
    BY DEF GraphInv, IsPlaced
<1> DEFINE p == AfterAdvance(w)
           s == position[w].target
           T == timeline[w]
           U == Append(T, s)
<1>2. /\ position[w].phase = "event"
      /\ UNCHANGED <<status, dryRun, policy, report, executionVars>>
      /\ timeline' = [timeline EXCEPT ![w] = U]
      /\ position' = [position EXCEPT ![w] = p]
    BY DEF RecordEvent
<1>3. s \in Goals(position[w].node) /\ status[w] = s
    BY <1>1, <1>2 DEF Place
<1>4. position[w] \in Position /\ position \in [Workflows -> Position]
    BY <1>1 DEF TypeOK
<1>5. position[w].node \in Nodes
    BY <1>2, <1>4 DEF Position
<1>6. s \in WorkflowStatus
    BY <1>3, <1>5 DEF Goals, Nodes, WorkflowStatus, Lifecycle!WorkflowStatus,
                      Lifecycle!TerminalStatus
<1>7. position[w].node = "start" => s = "received"
    BY <1>3 DEF Goals
<1>8. T \in Seq(WorkflowStatus) /\ timeline \in [Workflows -> Seq(WorkflowStatus)]
    BY <1>1 DEF TypeOK
<1>9. /\ U \in Seq(WorkflowStatus) /\ U # <<>> /\ Len(U) = Len(T) + 1 /\ U[Len(U)] = s
      /\ \A i \in 1 .. Len(T) : U[i] = T[i]
      /\ Retrieved(T) \/ s = "evidence_retrieved" => Retrieved(U)
      /\ Planned(T) \/ (Retrieved(T) /\ s = "plan_created") => Planned(U)
      /\ Started(T) \/ (Planned(T) /\ s = "execution_running") => Started(U)
    BY <1>6, <1>8, AppendedEvent
<1>10. \/ /\ p = Enter(p.node) /\ p.node = "end" /\ IsTerminal(s)
       \/ /\ p = Enter(p.node) /\ p.node \in Nodes /\ s \in Entry(p.node)
          /\ p.node = "planning" => s = "evidence_retrieved"
          /\ p.node \in {"rejection", "dry_run"} => s = "plan_created"
          /\ p.node = "execution" =>
                \/ position[w].node = "execution" /\ s = "execution_running"
                \/ s = "plan_created" /\ policy[w] = "allowed" /\ ~dryRun[w]
          /\ p.node \in {"start", "intent", "retrieval"} => position[w].node \in {"start", "intent"}
          /\ p.node = "planning" => position[w].node = "retrieval"
          /\ p.node \in {"rejection", "dry_run"} => position[w].node = "planning"
          /\ p.node = "execution" => position[w].node \in {"planning", "execution"}
       \/ /\ p = [node |-> "execution", phase |-> "update", target |-> "execution_running"]
          /\ s = "execution_queued" /\ position[w].node = "execution"
    BY <1>3, <1>5, <1>7, AdvanceLeads
<1> HIDE DEF p, s, U, T
<1>11. \/ /\ p.node = "end" /\ p.phase = "body" /\ p.target = NoTarget /\ IsTerminal(s)
       \/ /\ p.node \in Nodes /\ p.phase = "body" /\ p.target = NoTarget /\ s \in Entry(p.node)
       \/ /\ p.node = "execution" /\ p.phase = "update" /\ p.target = "execution_running"
          /\ s = "execution_queued"
    BY <1>10 DEF Enter
<1>12. p \in Position
    <2>1. \/ p = Enter(p.node) /\ p.node \in Nodes \cup {"end"}
          \/ p = [node |-> "execution", phase |-> "update", target |-> "execution_running"]
        BY <1>10
    <2>2. \A n \in Nodes \cup {"end"} : Enter(n) \in Position
        BY DEF Enter, Position, Phases, Nodes
    <2>3. [node |-> "execution", phase |-> "update", target |-> "execution_running"] \in Position
        BY DEF Position, Phases, Nodes, WorkflowStatus, Lifecycle!WorkflowStatus
    <2> QED BY <2>1, <2>2, <2>3
<1>13. /\ position' \in [Workflows -> Position] /\ position'[w] = p
       /\ timeline' \in [Workflows -> Seq(WorkflowStatus)] /\ timeline'[w] = U
       /\ \A v \in Workflows \ {w} : position'[v] = position[v] /\ timeline'[v] = timeline[v]
    BY <1>2, <1>4, <1>8, <1>9, <1>12
<1>14. /\ dryRun' = dryRun /\ status' = status /\ busy' = busy /\ policy' = policy
       /\ outcome' = outcome /\ row' = row /\ results' = results /\ report' = report
    BY <1>2 DEF executionVars
<1>15. TypeOK'
    BY <1>1, <1>13, <1>14 DEF TypeOK
<1>16. Place(w)'
    <2>1. CanTransition("execution_queued", "execution_running") /\ "execution_running" \in Goals("execution")
        BY GraphMoves DEF Goals
    <2>2. status'[w] = s /\ s \in WorkflowStatus /\ p.node # "none" /\ p.phase \in {"body", "update"}
        BY <1>3, <1>6, <1>11, <1>14 DEF Nodes
    <2>3. p.node # "start"
        <3>1. Entry("start") = {}
            BY DEF Entry
        <3> QED BY <1>11, <3>1
    <2>4. p.node \in Nodes /\ p.phase = "body" => s \in Entry(p.node)
        BY <1>11 DEF Nodes
    <2>5. p.phase = "update" => /\ p.node = "execution" /\ p.target = "execution_running"
                                /\ s = "execution_queued"
        BY <1>11
    <2>6. p.phase = "update" => p.target \in Goals(p.node) /\ CanTransition(s, p.target)
        BY <2>1, <2>5
    <2> QED BY <1>13, <2>2, <2>3, <2>4, <2>6 DEF Place
<1>17. History(w)'
    <2>1. U[1] = "received"
        <3>1. CASE T = <<>>
            BY <1>1, <1>2, <1>3, <1>9, <3>1 DEF History, T
        <3>2. CASE T # <<>>
            BY <1>1, <1>8, <1>9, <3>2 DEF History, T
        <3> QED BY <3>1, <3>2
    <2>2. \A i \in 1 .. Len(U) - 1 : CanTransition(U[i], U[i + 1])
        <3>1. SUFFICES ASSUME NEW i \in 1 .. Len(U) - 1 PROVE CanTransition(U[i], U[i + 1])
            OBVIOUS
        <3>2. i \in 1 .. Len(T) /\ Len(T) \in Nat
            BY <1>8, <1>9
        <3>3. CASE i < Len(T)
            <4>1. U[i] = T[i] /\ U[i + 1] = T[i + 1] /\ i \in 1 .. Len(T) - 1
                BY <1>9, <3>2, <3>3
            <4>2. CanTransition(T[i], T[i + 1])
                BY <1>1, <4>1 DEF History, T
            <4> QED BY <4>1, <4>2
        <3>4. CASE i = Len(T)
            <4>1. U[i] = T[Len(T)] /\ U[i + 1] = s /\ T # <<>>
                BY <1>8, <1>9, <3>2, <3>4
            <4>2. CanTransition(T[Len(T)], s)
                BY <1>1, <1>2, <1>3, <4>1 DEF History, LastEvent, T
            <4> QED BY <4>1, <4>2
        <3> QED BY <3>2, <3>3, <3>4
    <2>3. p.node \notin {"none", "lost"} /\ p.phase # "event"
        BY <1>11 DEF Nodes
    <2>4. LastEvent(w)' = s
        BY <1>9, <1>13 DEF LastEvent
    <2> QED BY <1>3, <1>9, <1>13, <1>14, <2>1, <2>2, <2>3, <2>4 DEF History
<1>18. Cleared(w)'
    <2>1. p.node = "planning" => Retrieved(U)
        BY <1>9, <1>10
    <2>2. position[w].node = "planning" => Retrieved(T)
        BY <1>1 DEF Cleared, T
    <2>3. position[w].node = "execution" => Planned(T) /\ policy[w] = "allowed" /\ ~dryRun[w]
        BY <1>1 DEF Cleared, T
    <2>4. Entry("execution") = {"plan_created", "execution_running"}
        BY DEF Entry
    <2>5. p.node \in {"rejection", "dry_run", "execution"} => Planned(U)
        BY <1>9, <1>10, <2>2, <2>3, <2>4
    <2>6. p.node = "execution" => policy[w] = "allowed" /\ ~dryRun[w]
        BY <1>10, <2>3
    <2>7. p.node = "execution" /\ p.phase = "body" /\ s = "execution_running" => Started(U)
        BY <1>9, <1>10, <2>3, <1>11
    <2>8. p.phase # "wait"
        BY <1>11
    <2>9. ASSUME Touched(w)
          PROVE  /\ p.node \in {"execution", "analysis", "completion", "end", "lost"}
                 /\ policy[w] = "allowed" /\ ~dryRun[w] /\ Started(U)
        <3>1. /\ position[w].node \in {"execution", "analysis", "completion", "end", "lost"}
              /\ policy[w] = "allowed" /\ ~dryRun[w] /\ Started(T)
            BY <1>1, <2>9 DEF Cleared, T
        <3>2. p.node \in {"execution", "analysis", "completion", "end"}
            BY <1>10, <3>1 DEF Nodes
        <3> QED BY <1>9, <3>1, <3>2
    <2>10. Touched(w)' <=> Touched(w)
        BY <1>14 DEF Touched
    <2> QED BY <1>3, <1>13, <1>14, <2>1, <2>5, <2>6, <2>7, <2>8, <2>9, <2>10 DEF Cleared
<1>19. Backed(w)'
    <2>1. p.phase # "wait" /\ ~busy[w]
        BY <1>1, <1>2, <1>11 DEF Backed
    <2>2. ~(p.phase = "update" /\ p.target = "results_collected")
        BY <1>11
    <2>3. p.node = "analysis" => p.phase = "body"
        BY <1>11
    <2> QED BY <1>1, <1>13, <1>14, <2>1, <2>2, <2>3 DEF Backed
<1>20. \A v \in Workflows \ {w} : Untouched(v)
    BY <1>13, <1>14 DEF Untouched
<1> QED BY <1>15, <1>16, <1>17, <1>18, <1>19, <1>20, OthersKeepTheirPlace DEF IsPlaced

-----------------------------------------------------------------------------
(* The workflow is created, its execution is attempted, or its thread ends. *)

LEMMA CreateStep ==
    ASSUME GraphInv, NEW w \in Workflows, Create(w)
    PROVE  GraphInv'
<1>1. TypeOK /\ Place(w) /\ History(w) /\ Cleared(w) /\ Backed(w)
    BY DEF GraphInv, IsPlaced
<1> DEFINE p == [node |-> "start", phase |-> "event", target |-> "received"]
<1>2. PICK dry \in BOOLEAN : dryRun' = [dryRun EXCEPT ![w] = dry]
    BY DEF Create
<1>3. /\ position[w].node = "none" /\ position' = [position EXCEPT ![w] = p]
      /\ status' = [status EXCEPT ![w] = "received"]
      /\ UNCHANGED <<timeline, policy, report, executionVars>>
    BY DEF Create
<1>4. "received" \in WorkflowStatus
    BY DEF WorkflowStatus, Lifecycle!WorkflowStatus
<1>5. p \in Position
    BY <1>4 DEF Position, Nodes, Phases
<1>6. /\ position' \in [Workflows -> Position]
      /\ position'[w].node = "start" /\ position'[w].phase = "event"
      /\ position'[w].target = "received"
      /\ \A v \in Workflows \ {w} : position'[v] = position[v]
    BY <1>1, <1>3, <1>5 DEF TypeOK
<1>7. /\ status' \in [Workflows -> WorkflowStatus \cup {"absent"}] /\ status'[w] = "received"
      /\ dryRun' \in [Workflows -> BOOLEAN]
      /\ \A v \in Workflows \ {w} : status'[v] = status[v] /\ dryRun'[v] = dryRun[v]
    BY <1>1, <1>2, <1>3, <1>4 DEF TypeOK
<1>8. /\ timeline' = timeline /\ busy' = busy /\ policy' = policy /\ report' = report
      /\ outcome' = outcome /\ row' = row /\ results' = results
    BY <1>3 DEF executionVars
<1>9. TypeOK'
    BY <1>1, <1>6, <1>7, <1>8 DEF TypeOK
<1>10. Place(w)'
    BY <1>4, <1>6, <1>7 DEF Place, Goals
<1>11. History(w)'
    BY <1>1, <1>3, <1>6, <1>7, <1>8 DEF History
<1>12. ~Touched(w)
    BY <1>1, <1>3 DEF Cleared
<1>13. Cleared(w)'
    BY <1>6, <1>8, <1>12 DEF Cleared, Touched
<1>14. Backed(w)'
    <2>1. position[w].phase = "body"
        BY <1>1, <1>3 DEF TypeOK, Position, Nodes
    <2>2. status[w] = "absent"
        BY <1>1, <1>3 DEF Place
    <2>3. report[w] = "none" /\ ~busy[w]
        BY <1>1, <2>1, <2>2 DEF Backed, Collected
    <2> QED BY <1>1, <1>6, <1>7, <1>8, <2>3 DEF Backed, Collected
<1>15. \A v \in Workflows \ {w} : Untouched(v)
    BY <1>6, <1>7, <1>8 DEF Untouched
<1> QED BY <1>9, <1>10, <1>11, <1>13, <1>14, <1>15, OthersKeepTheirPlace DEF IsPlaced

(* What attempts, cancellations and losses do to the execution of w. *)
LEMMA ExecutionChanges ==
    ASSUME GraphInv, NEW w \in Workflows, NEW p \in Position,
           position' = [position EXCEPT ![w] = p],
           UNCHANGED <<status, dryRun, timeline, policy, report>>,
           busy' \in [Workflows -> BOOLEAN],
           outcome' \in [Workflows -> {"none", "error", "lost", "queued"} \cup Execution!Verdicts],
           row' \in [Workflows -> {"none", "queued"} \cup Execution!Verdicts],
           results' \in [Workflows -> 0 .. 1],
           \A v \in Workflows \ {w} : /\ busy'[v] = busy[v] /\ outcome'[v] = outcome[v]
                                      /\ row'[v] = row[v] /\ results'[v] = results[v],
           Place(w)', History(w)', Cleared(w)', Backed(w)'
    PROVE  GraphInv'
<1>1. TypeOK
    BY DEF GraphInv
<1>2. /\ position' \in [Workflows -> Position]
      /\ \A v \in Workflows \ {w} : position'[v] = position[v]
    BY <1>1 DEF TypeOK
<1>3. TypeOK'
    BY <1>1, <1>2 DEF TypeOK
<1>4. \A v \in Workflows \ {w} : Untouched(v)
    BY <1>2 DEF Untouched
<1> QED BY <1>3, <1>4, OthersKeepTheirPlace DEF IsPlaced

LEMMA AttemptStep ==
    ASSUME GraphInv, NEW w \in Workflows, CallAgent(w)
    PROVE  GraphInv'
<1>1. TypeOK /\ Place(w) /\ History(w) /\ Cleared(w) /\ Backed(w)
    BY DEF GraphInv, IsPlaced
<1> DEFINE p == [position[w] EXCEPT !.phase = "wait"]
<1>2. /\ position[w].node = "execution" /\ position[w].phase = "body"
      /\ status[w] = "execution_running"
      /\ busy' = [busy EXCEPT ![w] = TRUE]
      /\ position' = [position EXCEPT ![w] = p]
      /\ UNCHANGED <<status, dryRun, timeline, policy, report, outcome, row, results>>
    BY DEF CallAgent, At, Execution!Attempt
<1>3. position[w] \in Position
    BY <1>1 DEF TypeOK
<1>4. position[w] \in [node : Nodes, phase : Phases, target : WorkflowStatus \cup {NoTarget}]
    BY <1>2, <1>3 DEF Position
<1>5. p \in Position /\ p.node = "execution" /\ p.phase = "wait"
    BY <1>2, <1>4 DEF Position, Phases
<1> HIDE DEF p
<1>6. position'[w] = p /\ busy'[w] = TRUE
    BY <1>1, <1>2 DEF TypeOK
<1>7. Place(w)'
    BY <1>1, <1>2, <1>5, <1>6 DEF Place
<1>8. History(w)'
    BY <1>1, <1>2, <1>5, <1>6 DEF History, LastEvent
<1>9. Cleared(w)'
    BY <1>1, <1>2, <1>5, <1>6 DEF Cleared, Touched
<1>10. Backed(w)'
    BY <1>1, <1>2, <1>5, <1>6 DEF Backed
<1>11. /\ busy' \in [Workflows -> BOOLEAN]
       /\ \A v \in Workflows \ {w} : busy'[v] = busy[v]
    BY <1>1, <1>2 DEF TypeOK
<1> QED BY <1>1, <1>2, <1>5, <1>7, <1>8, <1>9, <1>10, <1>11, ExecutionChanges DEF TypeOK

LEMMA WorkStep ==
    ASSUME GraphInv, NEW w \in Workflows, AgentWorks(w) \/ CancelExecution(w)
    PROVE  GraphInv'
<1>1. TypeOK /\ Place(w) /\ History(w) /\ Cleared(w) /\ Backed(w)
    BY DEF GraphInv, IsPlaced
<1>2. UNCHANGED <<status, dryRun, timeline, position, policy, report, busy, outcome>>
    BY DEF AgentWorks, CancelExecution, Execution!Open, Execution!Store, Execution!Cancel
<1>3. Touched(w)
    BY <1>1 DEF AgentWorks, CancelExecution, Execution!Open, Execution!Store, Execution!Cancel,
       Touched
<1>4. \/ /\ \E s \in {"queued", "cancelled"} : row' = [row EXCEPT ![w] = s]
         /\ results' = results
      \/ /\ results' = [results EXCEPT ![w] = 1]
         /\ row' = row
    BY DEF AgentWorks, CancelExecution, Execution!Open, Execution!Store, Execution!Cancel
<1>5. /\ row' \in [Workflows -> {"none", "queued"} \cup Execution!Verdicts]
      /\ results' \in [Workflows -> 0 .. 1]
      /\ \A v \in Workflows \ {w} : row'[v] = row[v] /\ results'[v] = results[v]
      /\ row'[w] = "completed" => results'[w] = 1
      /\ results[w] = 1 => results'[w] = 1
    <2>1. /\ row \in [Workflows -> {"none", "queued"} \cup Execution!Verdicts]
          /\ results \in [Workflows -> 0 .. 1]
          /\ row[w] = "completed" => results[w] = 1
        BY <1>1 DEF TypeOK, Backed
    <2>2. CASE /\ \E s \in {"queued", "cancelled"} : row' = [row EXCEPT ![w] = s]
               /\ results' = results
        <3>1. PICK s \in {"queued", "cancelled"} : row' = [row EXCEPT ![w] = s]
            BY <2>2
        <3>2. s \in {"none", "queued"} \cup Execution!Verdicts /\ s # "completed"
            BY DEF Execution!Verdicts
        <3> QED BY <2>1, <2>2, <3>1, <3>2
    <2>3. CASE results' = [results EXCEPT ![w] = 1] /\ row' = row
        BY <2>1, <2>3
    <2> QED BY <1>4, <2>2, <2>3
<1>6. position' = [position EXCEPT ![w] = position[w]] /\ position[w] \in Position
    BY <1>1, <1>2 DEF TypeOK
<1>7. Place(w)'
    BY <1>1, <1>2 DEF Place
<1>8. History(w)'
    BY <1>1, <1>2 DEF History, LastEvent
<1>9. Cleared(w)'
    BY <1>1, <1>2, <1>3 DEF Cleared
<1>10. Backed(w)'
    BY <1>1, <1>2, <1>5 DEF Backed
<1> QED BY <1>1, <1>2, <1>5, <1>6, <1>7, <1>8, <1>9, <1>10, ExecutionChanges DEF TypeOK

LEMMA ReturnStep ==
    ASSUME GraphInv, NEW w \in Workflows, AgentReturns(w)
    PROVE  GraphInv'
<1>1. TypeOK /\ Place(w) /\ History(w) /\ Cleared(w) /\ Backed(w)
    BY DEF GraphInv, IsPlaced
<1> DEFINE target == ExecutionTarget(outcome'[w])
           p == [position[w] EXCEPT !.phase = "update", !.target = target]
<1>2. /\ position[w].node = "execution" /\ position[w].phase = "wait"
      /\ Execution!Finish(w) /\ Advance(w, target)
      /\ UNCHANGED <<status, dryRun, timeline, policy, report>>
    BY DEF AgentReturns, At
<1>3. status[w] = "execution_running"
    BY <1>1, <1>2 DEF Place
<1>4. /\ target \in WorkflowStatus /\ target \in Goals("execution")
      /\ CanTransition("execution_running", target)
      /\ target = "results_collected" => outcome'[w] = "completed"
    BY GraphMoves DEF ExecutionTarget, WorkflowStatus, Lifecycle!WorkflowStatus,
       Lifecycle!TerminalStatus, Goals
<1>5. position[w] \in [node : Nodes, phase : Phases, target : WorkflowStatus \cup {NoTarget}]
    BY <1>1, <1>2 DEF TypeOK, Position
<1> HIDE DEF target
<1>6. p \in Position /\ p.node = "execution" /\ p.phase = "update" /\ p.target = target
    BY <1>2, <1>4, <1>5 DEF Position, Phases
<1>7. position' = [position EXCEPT ![w] = p] /\ position'[w] = p
    BY <1>1, <1>2 DEF Advance, TypeOK
<1> HIDE DEF p
<1>8. busy' = [busy EXCEPT ![w] = FALSE] /\ results' = results
    BY <1>2 DEF Execution!Finish
<1>9. PICK o, s : /\ outcome' = [outcome EXCEPT ![w] = o] /\ row' = [row EXCEPT ![w] = s]
                  /\ o \in {"error", "queued"} \cup Execution!Verdicts
                  /\ s \in {"none", "queued"} \cup Execution!Verdicts
                  /\ o = "completed" => results[w] = 1
                  /\ s = "completed" => results[w] = 1
    <2>1. row[w] \in {"none", "queued"} \cup Execution!Verdicts /\ row = [row EXCEPT ![w] = row[w]]
        BY <1>1 DEF TypeOK
    <2>2. CASE \E o \in Execution!Verdicts :
                   /\ o = "completed" => results[w] = 1
                   /\ row' = [row EXCEPT ![w] = o]
                   /\ outcome' = [outcome EXCEPT ![w] = o]
        BY <2>2
    <2>3. CASE /\ row[w] # "none"
               /\ outcome' = [outcome EXCEPT ![w] = row[w]]
               /\ row' = row
        BY <1>1, <2>1, <2>3 DEF Backed
    <2>4. CASE /\ outcome' = [outcome EXCEPT ![w] = "error"]
               /\ row' = [row EXCEPT ![w] = IF row[w] = "none" THEN "none" ELSE "failed"]
        <3>1. PICK s \in {"none", "failed"} : row' = [row EXCEPT ![w] = s]
            BY <2>4
        <3> QED BY <2>4, <3>1 DEF Execution!Verdicts
    <2> QED BY <1>2, <2>2, <2>3, <2>4 DEF Execution!Finish
<1>10. /\ busy' \in [Workflows -> BOOLEAN] /\ busy'[w] = FALSE
       /\ outcome' \in [Workflows -> {"none", "error", "lost", "queued"} \cup Execution!Verdicts]
       /\ row' \in [Workflows -> {"none", "queued"} \cup Execution!Verdicts]
       /\ outcome'[w] = o /\ row'[w] = s
       /\ \A v \in Workflows \ {w} : /\ busy'[v] = busy[v] /\ outcome'[v] = outcome[v]
                                     /\ row'[v] = row[v]
    BY <1>1, <1>8, <1>9 DEF TypeOK
<1>11. Place(w)'
    BY <1>1, <1>2, <1>3, <1>4, <1>6, <1>7 DEF Place
<1>12. History(w)'
    BY <1>1, <1>2, <1>6, <1>7 DEF History, LastEvent
<1>13. Cleared(w)'
    <2>1. Touched(w)
        BY <1>1, <1>2 DEF Backed, Touched
    <2> QED BY <1>1, <1>2, <1>6, <1>7, <2>1 DEF Cleared
<1>14. Backed(w)'
    <2>1. status'[w] = "execution_running" /\ report'[w] = "none"
        BY <1>1, <1>2, <1>3 DEF Backed, Collected
    <2> QED BY <1>4, <1>6, <1>7, <1>8, <1>9, <1>10, <2>1 DEF Backed, Collected
<1> QED BY <1>1, <1>2, <1>6, <1>7, <1>8, <1>10, <1>11, <1>12, <1>13, <1>14, ExecutionChanges
        DEF TypeOK

LEMMA AbandonStep ==
    ASSUME GraphInv, NEW w \in Workflows, Abandon(w)
    PROVE  GraphInv'
<1>1. TypeOK /\ Place(w) /\ History(w) /\ Cleared(w) /\ Backed(w)
    BY DEF GraphInv, IsPlaced
<1> DEFINE p == Enter("lost")
<1>2. /\ position[w].node \in Nodes /\ position' = [position EXCEPT ![w] = p]
      /\ UNCHANGED <<status, dryRun, timeline, policy, report>>
    BY DEF Abandon
<1>3. p \in Position /\ p.node = "lost" /\ p.phase = "body" /\ p.target = NoTarget
    BY DEF Enter, Position
<1> HIDE DEF p
<1>4. position'[w] = p
    BY <1>1, <1>2 DEF TypeOK
<1>5. /\ busy' \in [Workflows -> BOOLEAN] /\ busy'[w] = FALSE
      /\ outcome' \in [Workflows -> {"none", "error", "lost", "queued"} \cup Execution!Verdicts]
      /\ row' \in [Workflows -> {"none", "queued"} \cup Execution!Verdicts]
      /\ results' = results
      /\ \A v \in Workflows \ {w} : /\ busy'[v] = busy[v] /\ outcome'[v] = outcome[v]
                                    /\ row'[v] = row[v]
      /\ outcome'[w] = (IF busy[w] THEN "lost" ELSE outcome[w])
      /\ row'[w] # row[w] => busy[w] /\ (row'[w] = "completed" => results[w] = 1)
    <2>1. CASE busy[w]
        <3>1. CASE Execution!Lose({w})
            BY <1>1, <2>1, <3>1 DEF Execution!Lose, TypeOK
        <3>2. CASE Execution!LoseVerdict(w)
            <4>1. PICK o \in Execution!Verdicts : /\ row' = [row EXCEPT ![w] = o]
                                                   /\ o = "completed" => results[w] = 1
                BY <3>2 DEF Execution!LoseVerdict
            <4> QED BY <1>1, <2>1, <3>2, <4>1 DEF Execution!LoseVerdict, TypeOK
        <3> QED BY <2>1, <3>1, <3>2 DEF Abandon
    <2>2. CASE ~busy[w]
        BY <1>1, <2>2 DEF Abandon, executionVars, TypeOK
    <2> QED BY <2>1, <2>2
<1>6. Place(w)'
    BY <1>1, <1>2, <1>3, <1>4 DEF Place, Nodes
<1>7. History(w)'
    BY <1>1, <1>2, <1>3, <1>4 DEF History, LastEvent, Nodes
<1>8. Cleared(w)'
    BY <1>1, <1>2, <1>3, <1>4, <1>5 DEF Cleared, Touched
<1>9. Backed(w)'
    <2>1. busy[w] => status[w] = "execution_running"
        BY <1>1 DEF Backed, Place
    <2> QED BY <1>1, <1>2, <1>3, <1>4, <1>5, <2>1 DEF Backed, Collected
<1> QED BY <1>1, <1>2, <1>3, <1>5, <1>6, <1>7, <1>8, <1>9, ExecutionChanges DEF TypeOK

-----------------------------------------------------------------------------
(* The invariant, and the theorems it gives *)

LEMMA GraphInit == Init => GraphInv
<1> SUFFICES ASSUME Init PROVE GraphInv
    OBVIOUS
<1> USE DEF Init, Enter, Execution!Init
<1>1. Enter("none") \in Position
    BY DEF Position
<1>2. <<>> \in Seq(WorkflowStatus)
    OBVIOUS
<1>3. TypeOK
    BY <1>1, <1>2 DEF TypeOK
<1>4. ASSUME NEW w \in Workflows PROVE IsPlaced(w)
    <2>1. Place(w)
        BY DEF Place, Nodes
    <2>2. History(w)
        BY DEF History
    <2>3. Cleared(w)
        BY DEF Cleared, Touched
    <2>4. Backed(w)
        BY DEF Backed, Collected
    <2> QED BY <2>1, <2>2, <2>3, <2>4 DEF IsPlaced
<1> QED BY <1>3, <1>4 DEF GraphInv

LEMMA GraphStep == GraphInv /\ [Next]_vars => GraphInv'
<1> SUFFICES ASSUME GraphInv, [Next]_vars PROVE GraphInv'
    OBVIOUS
<1>1. CASE UNCHANGED vars
    <2>1. \A v \in Workflows : Untouched(v)
        BY <1>1 DEF vars, executionVars, Untouched
    <2>2. TypeOK'
        BY <1>1 DEF GraphInv, TypeOK, vars, executionVars
    <2> QED BY <2>1, <2>2, UntouchedKeepsPlace DEF GraphInv
<1>2. ASSUME NEW w \in Workflows,
             Create(w) \/ ThreadStep(w) \/ AgentWorks(w) \/ CancelExecution(w) \/ Abandon(w)
      PROVE  GraphInv'
    BY <1>2, CreateStep, UpdateStep, RecordStep, NodeStep, AttemptStep, WorkStep, ReturnStep,
       AbandonStep DEF ThreadStep
<1> QED BY <1>1, <1>2 DEF Next

LEMMA GraphInvariant == Spec => []GraphInv
BY GraphInit, GraphStep, PTL DEF Spec

(* Types, with any number of workflows.  The code behind it: no thread ever  *)
(* writes a status, a verdict or a target that is not one (nodes.py, graph.py). *)
THEOREM GraphTypes == Spec => []TypeOK
<1>1. GraphInv => TypeOK
    BY DEF GraphInv
<1> QED BY <1>1, GraphInvariant, PTL

(* No node of nodes.py, entered over any edge of graph.py, asks update_status *)
(* for a transition that the table of models/workflow.py does not have.       *)
THEOREM NoIllegalAdvanceTheorem == Spec => []NoIllegalAdvance
<1>1. GraphInv => NoIllegalAdvance
    BY DEF GraphInv, IsPlaced, Place, NoIllegalAdvance, CanTransition
<1> QED BY <1>1, GraphInvariant, PTL

(* route_after_planning is the only way to the execution node, and nothing *)
(* changes the verdict or dry_run afterwards: whatever is executed was     *)
(* allowed, is no dry run, and was retrieved for and planned on record.    *)
THEOREM ExecutionOnlyWhenClearedTheorem == Spec => []ExecutionOnlyWhenCleared
<1>1. GraphInv => ExecutionOnlyWhenCleared
    BY DEF GraphInv, IsPlaced, Cleared, Touched, Started, ExecutionOnlyWhenCleared
<1> QED BY <1>1, GraphInvariant, PTL

(* _advance writes the status and its event in two transactions; wherever a *)
(* thread ends, the timeline is the history of the status up to one step.   *)
THEOREM TimelineTracksStatusTheorem == Spec => []TimelineTracksStatus
<1>1. ASSUME GraphInv, NEW w \in Workflows
      PROVE  /\ timeline[w] # <<>> => timeline[w][1] = "received"
             /\ \A i \in 1 .. Len(timeline[w]) - 1 :
                   Lifecycle!CanTransition(timeline[w][i], timeline[w][i + 1])
             /\ IF position[w].phase = "event" \/ position[w].node = "lost"
                THEN IF timeline[w] = <<>> THEN status[w] = "received"
                     ELSE \/ LastEvent(w) = status[w]
                          \/ Lifecycle!CanTransition(LastEvent(w), status[w])
                ELSE IF timeline[w] = <<>> THEN status[w] = "absent"
                     ELSE LastEvent(w) = status[w]
    <2>1. History(w) /\ Place(w)
        BY <1>1 DEF GraphInv, IsPlaced
    <2>2. CASE position[w].phase = "event" \/ position[w].node = "lost"
        BY <2>1, <2>2 DEF History, CanTransition
    <2>3. CASE position[w].node = "none" /\ position[w].phase # "event"
        BY <2>1, <2>3 DEF History, Place, CanTransition
    <2>4. CASE position[w].node \notin {"none", "lost"} /\ position[w].phase # "event"
        BY <2>1, <2>4 DEF History, CanTransition
    <2> QED BY <2>2, <2>3, <2>4
<1>2. GraphInv => TimelineTracksStatus
    BY <1>1 DEF TimelineTracksStatus
<1> QED BY <1>2, GraphInvariant, PTL

(* execution_node counts an execution as collected only if the agent reported *)
(* it completed, which it does only with stored results; analysis_node saves  *)
(* its report before it advances: a workflow that reads completed has both.   *)
THEOREM CompletedIsBackedTheorem == Spec => []CompletedIsBacked
<1>1. ASSUME GraphInv, NEW w \in Workflows
      PROVE  /\ status[w] \in {"results_collected", "analyzed", "fallback_summary", "completed"}
                   => results[w] = 1 /\ outcome[w] = "completed"
             /\ status[w] \in {"analyzed", "fallback_summary", "completed"} => report[w] # "none"
             /\ report[w] # "none" => results[w] = 1
             /\ status[w] = "execution_failed" => report[w] = "none"
    BY <1>1 DEF GraphInv, IsPlaced, Backed, Collected
<1>2. GraphInv => CompletedIsBacked
    BY <1>1 DEF CompletedIsBacked
<1> QED BY <1>2, GraphInvariant, PTL

=============================================================================
