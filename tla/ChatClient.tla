------------------------------ MODULE ChatClient ------------------------------
(***************************************************************************)
(* The chat page (frontend/app.js) on top of the workflow routes it calls  *)
(* (module WorkflowApi).  Every submission is a call of handleSubmit that  *)
(* runs to its end beside the others: it posts the query without an        *)
(* Idempotency-Key, asks for the detail of the workflow the answer names,  *)
(* and puts one bubble into the conversation.  Clients are the submissions *)
(* of one visit.                                                           *)
(*                                                                         *)
(* A connection may break while the server works on.  The route then goes  *)
(* to its end with nobody to answer.                                       *)
(***************************************************************************)
EXTENDS WorkflowApi

VARIABLES
    page,  \* each submission, and its bubble
    busy   \* the button is disabled and reads "Working..."

chatVars == <<vars, page, busy>>

Kinds == {"clarification", "policy", "retrieval", "runner", "internal", "unreachable", "outcome"}

NotSent == [stage |-> "unsent", query |-> "none", dry |-> FALSE, answer |-> "none",
            id |-> 0, status |-> "none", kind |-> "none", got |-> {}]

Submission ==
    [stage  : {"unsent", "posted", "detail", "shown"},
     query  : Queries \cup {"none"},
     dry    : BOOLEAN,
     answer : {"none", "201", "422", "424", "500", "503"},
     id     : Numbers \cup {0},       \* the workflow the answer names
     status : TerminalStatus \cup {"none"},
     kind   : Kinds \cup {"none"},    \* what the bubble says
     got    : SUBSET Parts]           \* what of the detail it shows

ChatInit ==
    /\ Init
    /\ page = [t \in Clients |-> NotSent]
    /\ busy = FALSE

-----------------------------------------------------------------------------

\* handleSubmit, and submitQuery up to the fetch.  The button is disabled while
\* busy; the Enter key asks nobody.
Submit(t, query, dry) ==
    /\ page[t].stage = "unsent"
    /\ Post(t, NoKey, query, dry)
    /\ page' = [page EXCEPT ![t].stage = "posted", ![t].query = query, ![t].dry = dry]
    /\ busy' = TRUE

\* Mutant: INTERNAL_ERROR is missing from TRANSPORT_CODES.
BadKindFor(code, status) ==
    CASE code = "201"                    -> "outcome"
      [] status = "needs_clarification"  -> "clarification"
      [] status = "retrieval_failed"     -> "retrieval"
      [] status = "execution_failed"     -> "runner"
      [] OTHER                           -> "policy"

\* Mutant: the bubble of an outcome is chosen by its status.
BadKindForStatus(code, status) ==
    IF code = "201" THEN status
    ELSE IF code = "500" THEN "internal"
    ELSE IF status = "needs_clarification" THEN "clarification" ELSE "policy"

\* renderError and friendlyMessage, or renderOutcome.  MALFORMED_REQUEST (400)
\* has no case: handleSubmit sends a string that is not empty and a boolean,
\* which is what CreateWorkflowRequest accepts.
KindFor(code, status) ==
    CASE code = "201"                    -> "outcome"
      [] code = "500"                    -> "internal"
      [] status = "needs_clarification"  -> "clarification"
      [] status = "retrieval_failed"     -> "retrieval"
      [] status = "execution_failed"     -> "runner"
      [] OTHER                           -> "policy"

\* The bubble is there, and handleSubmit's finally clause enables the button,
\* also when another submission is still on its way.
Show(t, bubble) ==
    /\ page' = [page EXCEPT ![t] = [bubble EXCEPT !.stage = "shown"]]
    /\ busy' = FALSE

\* Mutant: it is the newest workflow that the answer must be about.
BadAnswered(t) ==
    [page[t] EXCEPT !.answer = request[t].code, !.status = request[t].status,
                    !.id = IF request[t].code = "500" THEN 0 ELSE Cardinality(Existing)]

Answered(t) ==
    [page[t] EXCEPT !.answer = request[t].code, !.status = request[t].status,
                    !.id = IF request[t].code = "500" THEN 0 ELSE request[t].id]

\* The answer has arrived.  An error that the catch-all handler answers names
\* no workflow, so there is no detail to ask for.
AnswerArrives(t) ==
    /\ page[t].stage = "posted"
    /\ request[t].pc = "idle"
    /\ request[t].code # "lost"
    /\ IF Answered(t).id = 0
       THEN /\ Show(t, [Answered(t) EXCEPT !.status = "none",
                                           !.kind = KindFor(request[t].code, "none")])
            /\ UNCHANGED vars
       ELSE /\ page' = [page EXCEPT ![t] = [Answered(t) EXCEPT !.stage = "detail"]]
            /\ Get(t, Answered(t).id)
            /\ UNCHANGED busy

\* fetch, or the parsing of the answer, fails: the connection broke ...
Unreachable(t) ==
    /\ page[t].stage = "posted"
    /\ Show(t, [page[t] EXCEPT !.kind = "unreachable"])
    /\ UNCHANGED vars

\* ... or the process that would have answered has ended.
NoAnswer(t) == request[t].code = "lost" /\ Unreachable(t)

Bubble(t, got) ==
    [page[t] EXCEPT !.kind = KindFor(page[t].answer, page[t].status), !.got = got]

\* fetchDetail returned the detail.  Only renderOutcome shows more of it than
\* the timeline.
DetailArrives(t) ==
    /\ page[t].stage = "detail"
    /\ request[t].pc = "idle"
    /\ request[t].code = "200"
    /\ Show(t, Bubble(t, IF page[t].answer = "201" THEN request[t].got ELSE {}))
    /\ UNCHANGED vars

\* "Detail is an enrichment: a failure here must not lose the outcome."
WithoutDetail(t) ==
    /\ page[t].stage = "detail"
    /\ Show(t, Bubble(t, {}))
    /\ UNCHANGED vars

\* Mutant: only an answer that is not ok is caught.
BadNoDetail(t) ==
    /\ request[t].pc = "idle"
    /\ request[t].code \in {"404", "500"}
    /\ WithoutDetail(t)

NoDetail(t) ==
    /\ request[t].pc = "idle"
    /\ request[t].code # "200"
    /\ WithoutDetail(t)

PageStep(t) ==
    \/ AnswerArrives(t)
    \/ NoAnswer(t)
    \/ DetailArrives(t)
    \/ NoDetail(t)

ServerStep(t) == RouteStep(t) /\ UNCHANGED <<page, busy>>

Fault == (Restart \/ \E t \in Clients : Abandon(t)) /\ UNCHANGED <<page, busy>>

ChatNext ==
    \/ \E t \in Clients :
          \/ \E q \in Queries, d \in BOOLEAN : Submit(t, q, d)
          \/ PageStep(t)
          \/ Unreachable(t)
          \/ WithoutDetail(t)
          \/ ServerStep(t)
    \/ Fault

\* The page handles what arrives, and a route that has begun goes on: the
\* event loop and the thread pool see to that.  Nobody has to submit, and
\* connections need not break.
ChatFairness ==
    /\ \A t \in Clients : WF_chatVars(PageStep(t))
    /\ \A t \in Clients : WF_chatVars(ServerStep(t))

ChatSpec == ChatInit /\ [][ChatNext]_chatVars /\ ChatFairness

-----------------------------------------------------------------------------
(* Properties *)

ChatTypeOK ==
    /\ ApiTypeOK
    /\ page \in [Clients -> Submission]
    /\ busy \in BOOLEAN

NothingWasRun(b) ==
    \/ b.kind \in {"clarification", "policy", "retrieval"}
    \/ b.kind = "outcome" /\ b.dry

\* A bubble that says nothing was run (app.js:285, 291), or is about a dry run,
\* is about a workflow with no execution, and with none later; one that says
\* completed is about a workflow with its execution and its report, whether or
\* not the detail could be loaded.  The bubble of an INTERNAL_ERROR, which
\* says the same (app.js:297), is not among them.
PageTellsNoLies ==
    \A t \in Clients :
        LET b == page[t] IN
        /\ NothingWasRun(b) => b.id \in Existing /\ workflows[b.id].stored = {}
        /\ b.kind = "outcome" /\ ~b.dry => workflows[b.id].stored = Parts
        /\ b.got \subseteq (IF b.id \in Existing THEN workflows[b.id].stored ELSE {})

\* However submissions overlap, each bubble is about a workflow of its own,
\* started for its own query; and a workflow the page started and shows under
\* no number is on its way, or its bubble says that something went wrong.
EveryWorkflowIsAccountedFor ==
    LET named == {t \in Clients : page[t].id # 0}
        open  == {t \in Clients : page[t].stage = "posted" \/ page[t].kind \in
                                        {"unreachable", "internal"}}
    IN
    /\ \A t \in named :
          /\ page[t].id \in Existing
          /\ workflows[page[t].id].query = page[t].query
          /\ workflows[page[t].id].dry = page[t].dry
    /\ \A t, u \in named : page[t].id = page[u].id => t = u
    /\ Cardinality(Existing) <= Cardinality(named) + Cardinality(open)

\* Every submission ends with a bubble, and the button that was disabled is
\* enabled again, whatever breaks: the detail of a workflow cannot hold up its
\* outcome, and one of two overlapping submissions not the other.
SubmissionsEnd ==
    /\ \A t \in Clients :
          page[t].stage = "posted" ~> page[t].stage = "shown" /\ page[t].kind # "none"
    /\ busy ~> ~busy

=============================================================================
