---------------------------- MODULE WorkflowApi ------------------------------
(***************************************************************************)
(* The workflow routes of app/api/routes.py: POST /workflows with and      *)
(* without an Idempotency-Key, and GET /workflows/{id}.  A route runs on a *)
(* thread of its own from the first statement to the answer, and every     *)
(* repository call in it is one transaction, so two requests interleave    *)
(* between any two calls.  request[t].pc is where the request of client t  *)
(* stands:                                                                 *)
(*                                                                         *)
(*   "lookup"   find_by_idempotency_key                                    *)
(*   "count"    count_workflows, in _next_workflow_id                      *)
(*   "insert"   create_workflow                                            *)
(*   "run"      inside the graph (module Orchestration)                    *)
(*   "respond"  error_for_state, and the answer                            *)
(*   "detail"   WorkflowInspector.detail, for a GET or for a replay        *)
(*                                                                         *)
(* The ten statuses of a workflow that has not ended are "active" here,    *)
(* and of what the graph writes only the execution and the report are      *)
(* told apart, the two that an answer carries.  Workflow n is WF-<1000+n>. *)
(***************************************************************************)
EXTENDS Naturals, Sequences, FiniteSets

CONSTANTS
    Clients,       \* who sends requests, one at a time each
    Keys,          \* values of the Idempotency-Key header
    Queries,       \* payload.query
    NoKey,         \* a request without the header
    EmptyKey,      \* a header with an empty value
    MaxWorkflows,  \* bound on the rows of the workflows table
    MaxRequests,   \* bound on the requests of a behaviour
    MaxFaults      \* bound on uncaught exceptions and restarts

ASSUME ApiConstants ==
    /\ NoKey \notin Keys
    /\ EmptyKey # NoKey
    /\ MaxWorkflows \in Nat
    /\ MaxRequests \in Nat
    /\ MaxFaults \in Nat

VARIABLES
    workflows,   \* the workflows table, by number
    request,     \* the request of each client, and the answer when idle
    requests,    \* how many were sent
    faults       \* how many faults there were

vars == <<workflows, request, requests, faults>>

Numbers == 1 .. MaxWorkflows

FailedStatus == {"needs_clarification", "retrieval_failed", "rejected", "execution_failed"}
TerminalStatus == FailedStatus \cup {"dry_run_complete", "completed"}
Parts == {"execution", "report"}

NoWorkflow == [key |-> NoKey, query |-> "none", dry |-> FALSE, status |-> "absent", stored |-> {}]

Workflow == [key : Keys \cup {NoKey}, query : Queries, dry : BOOLEAN,
             status : TerminalStatus \cup {"active"}, stored : SUBSET Parts]

Todo == {<<>>, <<"report">>, <<"execution", "report">>, <<"row", "execution", "report">>}

Request ==
    [pc     : {"idle", "lookup", "count", "insert", "run", "respond", "detail"},
     key    : Keys \cup {NoKey},
     query  : Queries \cup {"none"},
     dry    : BOOLEAN,
     id     : Numbers \cup {0},
     todo   : Todo,
     code   : {"none", "lost", "200", "201", "404", "409", "422", "424", "500", "503"},
     status : TerminalStatus \cup {"none", "active"},
     got    : SUBSET Parts]

Exists(n) == workflows[n] # NoWorkflow
Existing == {n \in Numbers : Exists(n)}

NoRequest == [pc |-> "idle", key |-> NoKey, query |-> "none", dry |-> FALSE, id |-> 0,
              todo |-> <<>>, code |-> "none", status |-> "none", got |-> {}]

Init ==
    /\ workflows = [n \in Numbers |-> NoWorkflow]
    /\ request   = [t \in Clients |-> NoRequest]
    /\ requests  = 0
    /\ faults    = 0

-----------------------------------------------------------------------------
(* POST /workflows *)

Goto(t, pc) == request' = [request EXCEPT ![t].pc = pc]

Answer(t, code) == request' = [request EXCEPT ![t].pc = "idle", ![t].code = code]

(* An empty key is not looked up (if idempotency_key:), but it is stored. *)
LookedUp(key) == key \notin {NoKey, EmptyKey}

Post(t, key, query, dry) ==
    /\ request[t].pc = "idle"
    /\ requests < MaxRequests
    /\ requests' = requests + 1
    /\ request' = [request EXCEPT ![t] =
                     [NoRequest EXCEPT !.pc = IF LookedUp(key) THEN "lookup" ELSE "count",
                                       !.key = key, !.query = query, !.dry = dry]]
    /\ UNCHANGED <<workflows, faults>>

(* What detail reads after the workflow's own row, in the order it does.   *)
(* The other parts of the snapshot are written once and are left out.      *)
BadDetailOrder == <<"report", "execution", "row">>

DetailOrder == <<"row", "execution", "report">>

BadSameRequest(n, t) == workflows[n].query = request[t].query

SameRequest(n, t) ==
    /\ workflows[n].query = request[t].query
    /\ workflows[n].dry = request[t].dry

(* A key that is on record replays its workflow if the request is the      *)
(* same, and is a conflict if it is not.                                   *)
Lookup(t) ==
    LET found == {n \in Numbers : workflows[n].key = request[t].key} IN
    /\ request[t].pc = "lookup"
    /\ \/ found = {} /\ Goto(t, "count")
       \/ \E n \in found :
             IF SameRequest(n, t)
             THEN request' = [request EXCEPT ![t].pc = "detail", ![t].id = n,
                                             ![t].todo = DetailOrder]
             ELSE request' = [request EXCEPT ![t].pc = "idle", ![t].id = n,
                                             ![t].code = "409"]
    /\ UNCHANGED <<workflows, requests, faults>>

BadCount(t) ==
    /\ request[t].pc = "count"
    /\ request' = [request EXCEPT ![t].pc = "insert",
                     ![t].id = Cardinality(Existing) +
                               Cardinality({u \in Clients : request[u].pc \in {"count", "insert"}})]
    /\ UNCHANGED <<workflows, requests, faults>>

(* _next_workflow_id: FIRST_WORKFLOW_NUMBER plus the number of rows. *)
Count(t) ==
    /\ request[t].pc = "count"
    /\ Cardinality(Existing) < MaxWorkflows
    /\ request' = [request EXCEPT ![t].pc = "insert", ![t].id = Cardinality(Existing) + 1]
    /\ UNCHANGED <<workflows, requests, faults>>

BadRow(t) == [key |-> request[t].query, query |-> request[t].key, dry |-> request[t].dry,
              status |-> "active", stored |-> {}]

Row(t) == [key |-> request[t].key, query |-> request[t].query, dry |-> request[t].dry,
           status |-> "active", stored |-> {}]

BadConflictOnId(t) == Exists(request[t].id)

(* id is the primary key and idempotency_key is UNIQUE; NULLs are distinct. *)
Conflict(t) ==
    \/ Exists(request[t].id)
    \/ \E n \in Existing : workflows[n].key = request[t].key /\ request[t].key # NoKey

(* Nobody catches the IntegrityError: the client is answered 500. *)
Insert(t) ==
    /\ request[t].pc = "insert"
    /\ IF Conflict(t)
       THEN Answer(t, "500") /\ UNCHANGED workflows
       ELSE /\ workflows' = [workflows EXCEPT ![request[t].id] = Row(t)]
            /\ Goto(t, "run")
    /\ UNCHANGED <<requests, faults>>

-----------------------------------------------------------------------------
(* The graph, as far as an answer can tell: the execution is recorded, the *)
(* report is saved, and then the status is the terminal one.               *)

Running(t) == request[t].pc = "run"
Stored(t) == workflows[request[t].id].stored

StorePart(t, part) ==
    /\ Running(t)
    /\ ~request[t].dry
    /\ Stored(t) = (IF part = "execution" THEN {} ELSE {"execution"})
    /\ workflows' = [workflows EXCEPT ![request[t].id].stored = @ \cup {part}]
    /\ UNCHANGED <<request, requests, faults>>

Endings(dry, stored) ==
    {s \in TerminalStatus :
        CASE s = "completed"        -> stored = Parts
          [] s = "execution_failed" -> ~dry /\ stored # Parts
          [] s = "dry_run_complete" -> dry
          [] OTHER                  -> stored = {}}

GraphEnds(t) ==
    /\ Running(t)
    /\ \E s \in Endings(request[t].dry, Stored(t)) :
          /\ workflows' = [workflows EXCEPT ![request[t].id].status = s]
          /\ request' = [request EXCEPT ![t].pc = "respond", ![t].status = s,
                                        ![t].got = Stored(t)]
    /\ UNCHANGED <<requests, faults>>

(* error_for_state, or 201 Created *)
CodeFor(status) ==
    CASE status \in {"rejected", "needs_clarification"}  -> "422"
      [] status = "retrieval_failed"                     -> "424"
      [] status = "execution_failed"                     -> "503"
      [] OTHER                                           -> "201"

Respond(t) ==
    /\ request[t].pc = "respond"
    /\ Answer(t, CodeFor(request[t].status))
    /\ UNCHANGED <<workflows, requests, faults>>

-----------------------------------------------------------------------------
(* GET /workflows/{id}, and the second half of a replay *)

Get(t, n) ==
    /\ request[t].pc = "idle"
    /\ requests < MaxRequests
    /\ requests' = requests + 1
    /\ request' = [request EXCEPT ![t] = [NoRequest EXCEPT !.pc = "detail", !.id = n,
                                                           !.todo = DetailOrder]]
    /\ UNCHANGED <<workflows, faults>>

(* detail: the row is read, then the execution, then the report, each in a *)
(* transaction of its own while the workflow may be running.               *)
ReadDetail(t) ==
    LET n    == request[t].id
        part == Head(request[t].todo)
        rest == Tail(request[t].todo)
        pc   == IF rest = <<>> THEN "idle" ELSE "detail"
        code == IF rest = <<>> THEN "200" ELSE "none"
    IN
    /\ request[t].pc = "detail"
    /\ request' =
         CASE part = "row" /\ ~Exists(n) ->
                [request EXCEPT ![t].pc = "idle", ![t].code = "404"]
           [] part = "row" /\ Exists(n) ->
                [request EXCEPT ![t].todo = rest, ![t].pc = pc, ![t].code = code,
                                ![t].status = workflows[n].status]
           [] OTHER ->
                [request EXCEPT ![t].todo = rest, ![t].pc = pc, ![t].code = code,
                                ![t].got = @ \cup ({part} \cap workflows[n].stored)]
    /\ UNCHANGED <<workflows, requests, faults>>

-----------------------------------------------------------------------------
(* An exception nobody catches (SQLite's lock timeout, say) ends one       *)
(* request with a 500; the end of the process ends them all unanswered.    *)

Abandon(t) ==
    /\ request[t].pc # "idle"
    /\ faults < MaxFaults
    /\ faults' = faults + 1
    /\ Answer(t, "500")
    /\ UNCHANGED <<workflows, requests>>

Restart ==
    /\ faults < MaxFaults
    /\ faults' = faults + 1
    /\ request' = [t \in Clients |-> IF request[t].pc = "idle" THEN request[t]
                                     ELSE [NoRequest EXCEPT !.code = "lost"]]
    /\ UNCHANGED <<workflows, requests>>

RouteStep(t) ==
    \/ Lookup(t)
    \/ Count(t)
    \/ Insert(t)
    \/ \E part \in Parts : StorePart(t, part)
    \/ GraphEnds(t)
    \/ Respond(t)
    \/ ReadDetail(t)

Next ==
    \/ \E t \in Clients :
          \/ \E k \in Keys \cup {NoKey}, q \in Queries, d \in BOOLEAN : Post(t, k, q, d)
          \/ \E n \in Numbers : Get(t, n)
          \/ RouteStep(t)
          \/ Abandon(t)
    \/ Restart

(* A request is a straight line of calls, so there is nothing to say about *)
(* its progress, and no fairness is assumed.                               *)
Spec == Init /\ [][Next]_vars

-----------------------------------------------------------------------------
(***************************************************************************)
(* Properties                                                              *)
(***************************************************************************)

ApiTypeOK ==
    /\ workflows \in [Numbers -> Workflow \cup {NoWorkflow}]
    /\ request \in [Clients -> Request]
    /\ requests \in 0 .. MaxRequests
    /\ faults \in 0 .. MaxFaults

(* The number of a new workflow is the count of the old ones plus one,     *)
(* which is only free as long as the numbers have no gap.  They never do,  *)
(* whatever requests race between count_workflows and create_workflow and  *)
(* whichever of them fail: the next request is never locked out.           *)
NumbersAreDense == Existing = 1 .. Cardinality(Existing)

(* docs/api-examples.md, Idempotency: one key never stands for two         *)
(* workflows, even when both requests found it unused.                     *)
OneWorkflowPerKey ==
    \A m, n \in Existing :
        workflows[m].key = workflows[n].key /\ workflows[m].key # NoKey => m = n

(* A client that is told of success under its key is told of a workflow    *)
(* that was started with this key for this very request, and of no other.  *)
SuccessNamesTheRequest ==
    \A t \in Clients :
        request[t].code \in {"200", "201"} /\ request[t].key # NoKey =>
            /\ request[t].id \in Existing
            /\ workflows[request[t].id].key = request[t].key
            /\ workflows[request[t].id].query = request[t].query
            /\ workflows[request[t].id].dry = request[t].dry

(* A snapshot is put together from several transactions while the workflow *)
(* runs, and still one that says completed has its execution and report,   *)
(* one that says it ended otherwise has no report, and one that says it    *)
(* ended before execution has neither: detail reads the status before what *)
(* the graph writes before the status.                                     *)
SnapshotIsBacked ==
    \A t \in Clients :
        request[t].code = "200" =>
            /\ request[t].status = "completed" => request[t].got = Parts
            /\ request[t].status = "execution_failed" => "report" \notin request[t].got
            /\ request[t].status \in TerminalStatus \ {"completed", "execution_failed"}
                  => request[t].got = {}

(* api/routes.py:59-60: "A repeated Idempotency-Key replays the original   *)
(* workflow instead of starting a second one."  A request that repeats a   *)
(* key is never answered 500 as long as nothing else goes wrong.           *)
RepeatedKeyReplays ==
    \A t \in Clients :
        request[t].code = "500" /\ faults = 0 =>
            ~\E n \in Existing : /\ request[t].key # NoKey
                                 /\ workflows[n].key = request[t].key
                                 /\ SameRequest(n, t)

(* api/errors.py:72-74: a workflow that ended in a state that is not an    *)
(* executable one maps to 4xx/5xx "so a client does not read a rejection   *)
(* as a successful run".                                                   *)
FailureIsNeverSuccess ==
    \A t \in Clients :
        request[t].key # NoKey /\ request[t].code \in {"200", "201"} =>
            request[t].status \notin FailedStatus

=============================================================================
