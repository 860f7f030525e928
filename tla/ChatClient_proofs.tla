-------------------------- MODULE ChatClient_proofs ---------------------------
(***************************************************************************)
(* Safety of the chat page on top of the workflow routes, for any number   *)
(* of submissions, and any bounds on requests and faults.                  *)
(*                                                                         *)
(* Every step of the page is a step of the routes or leaves them alone, so *)
(* all that is proved of the routes holds of them under the page.  What a  *)
(* bubble says is about a workflow that has ended, and was read from the   *)
(* answer of its own POST: ServerFits says what the server holds for a     *)
(* submission at each stage, BubbleFits what the bubble holds.  That every *)
(* workflow is accounted for is a matter of counting, and Owners says what *)
(* is counted: each workflow has a submission of its own that started it.  *)
(***************************************************************************)
EXTENDS ChatClient, WorkflowApi_proofs

\* The answers that name the workflow of a POST
Told == {"201", "422", "424", "503"}

\* Request t, a POST whose bubble is not there yet, has inserted its workflow.
HasWorkflow(t) ==
    /\ page[t].stage = "posted"
    /\ \/ request[t].pc \in {"run", "respond"}
       \/ request[t].pc = "idle" /\ request[t].code \in Told

HasEnded(t) == HasWorkflow(t) /\ request[t].pc # "run"

\* Where the server is with what submission t has asked it for
ServerFits(t) ==
    /\ page[t].stage = "unsent" => request[t].pc = "idle"
    /\ page[t].stage = "posted" =>
          /\ request[t].pc \in {"count", "insert", "run", "respond", "idle"}
          /\ request[t].pc = "idle" => request[t].code \in Told \cup {"500", "lost"}
          /\ request[t].pc # "idle" \/ request[t].code # "lost" =>
                request[t].query = page[t].query /\ request[t].dry = page[t].dry
    /\ HasWorkflow(t) =>
          /\ request[t].id \in Existing
          /\ workflows[request[t].id].query = page[t].query
          /\ workflows[request[t].id].dry = page[t].dry
    /\ HasEnded(t) =>
          /\ request[t].status \in TerminalStatus
          /\ workflows[request[t].id].status = request[t].status
          /\ request[t].status = "dry_run_complete" => page[t].dry
          /\ request[t].pc = "idle" => request[t].code = CodeFor(request[t].status)
    /\ page[t].stage = "detail" =>
          /\ request[t].pc \in {"detail", "idle"}
          /\ request[t].pc = "detail" \/ request[t].code = "200" =>
                /\ request[t].id = page[t].id
                /\ request[t].got \subseteq workflows[page[t].id].stored
    /\ request[t].pc \in {"lookup", "count", "insert"} =>
          page[t].stage \in {"posted", "shown"} /\ page[t].id = 0

\* What submission t shows, or will show, of the workflow it was told of
BubbleFits(t) ==
    /\ page[t].stage = "unsent" => page[t] = NotSent
    /\ page[t].stage = "posted" =>
          /\ page[t].query \in Queries
          /\ page[t] = [NotSent EXCEPT !.stage = "posted", !.query = page[t].query,
                                       !.dry = page[t].dry]
    /\ page[t].stage = "detail" => page[t].id # 0 /\ page[t].kind = "none"
    /\ page[t].stage = "shown" /\ page[t].id = 0 => page[t].kind \in {"unreachable", "internal"}
    /\ page[t].id = 0 => page[t].got = {}
    /\ page[t].id # 0 =>
          /\ page[t].id \in Existing
          /\ workflows[page[t].id].query = page[t].query
          /\ workflows[page[t].id].dry = page[t].dry
          /\ workflows[page[t].id].status = page[t].status
          /\ page[t].status \in TerminalStatus
          /\ page[t].status = "dry_run_complete" => page[t].dry
          /\ page[t].answer = CodeFor(page[t].status)
          /\ page[t].kind \in {"none", KindFor(page[t].answer, page[t].status)}
          /\ page[t].got \subseteq workflows[page[t].id].stored

Sent == {t \in Clients : page[t].stage # "unsent"}

\* f tells for each workflow the submission that started it.
Owners(f) ==
    /\ f \in [Existing -> Sent]
    /\ \A m, n \in Existing : f[m] = f[n] => m = n
    /\ \A n \in Existing : request[f[n]].pc \notin {"lookup", "count", "insert"}
    /\ \A t \in Clients : page[t].id # 0 => f[page[t].id] = t
    /\ \A t \in Clients : HasWorkflow(t) => f[request[t].id] = t

PageFits ==
    /\ page \in [Clients -> Submission]
    /\ busy \in BOOLEAN
    /\ IsFiniteSet(Sent)
    /\ \A t \in Clients : ServerFits(t) /\ BubbleFits(t)

ChatInv ==
    /\ SnapInv
    /\ PageFits
    /\ \E f \in [Existing -> Sent] : Owners(f)

-----------------------------------------------------------------------------
(* The page uses the routes as any client of theirs may. *)
LEMMA ChatStepIsApiStep == SnapInv /\ [ChatNext]_chatVars => [Next]_vars
<1> SUFFICES ASSUME SnapInv, [ChatNext]_chatVars
             PROVE  [Next]_vars
    OBVIOUS
<1>1. ASSUME NEW t \in Clients, NEW q \in Queries, NEW d \in BOOLEAN, Submit(t, q, d)
      PROVE  Next
    BY <1>1 DEF Submit, Next
<1>2. ASSUME NEW t \in Clients, AnswerArrives(t)
      PROVE  [Next]_vars
  <2>1. CASE UNCHANGED vars
      BY <2>1
  <2>2. CASE ~ UNCHANGED vars
    <3>1. Answered(t).id # 0 /\ Get(t, Answered(t).id)
        BY <1>2, <2>2 DEF AnswerArrives
    <3>2. request[t].id \in Numbers \cup {0}
        BY DEF SnapInv, ApiInv, ApiTypeOK, Request
    <3>3. Answered(t).id \in Numbers \cup {0}
        BY <3>1, <3>2 DEF Answered
    <3> QED BY <3>1, <3>3 DEF Next
  <2> QED BY <2>1, <2>2
<1>3. ASSUME NEW t \in Clients, Unreachable(t) \/ NoAnswer(t) \/ DetailArrives(t)
                                \/ NoDetail(t) \/ WithoutDetail(t)
      PROVE  UNCHANGED vars
    BY <1>3 DEF Unreachable, NoAnswer, DetailArrives, NoDetail, WithoutDetail
<1>4. ASSUME NEW t \in Clients, ServerStep(t)
      PROVE  Next
    BY <1>4 DEF ServerStep, Next
<1>5. CASE Fault
    BY <1>5 DEF Fault, Next
<1>6. CASE UNCHANGED chatVars
    BY <1>6 DEF chatVars
<1> QED BY <1>1, <1>2, <1>3, <1>4, <1>5, <1>6 DEF ChatNext, PageStep

(* What a workflow has stored is never taken back. *)
LEMMA StoredOnlyGrows ==
    ASSUME SnapInv, TableStep, NEW n \in Existing
    PROVE  workflows[n].stored \subseteq workflows'[n].stored
<1>1. /\ workflows \in [Numbers -> Workflow \cup {NoWorkflow}]
      /\ n \in Numbers /\ workflows[n] \in Workflow
    BY DEF SnapInv, ApiInv, ApiTypeOK, Existing, Exists
<1>2. ASSUME NEW t \in Clients, request[t].pc = "insert", ~Conflict(t)
      PROVE  request[t].id # n
    BY <1>2 DEF Conflict, Existing
<1>3. ASSUME NEW m, NEW part,
             workflows' = [workflows EXCEPT ![m].stored = @ \cup {part}]
      PROVE  workflows[n].stored \subseteq workflows'[n].stored
    BY <1>1, <1>3 DEF Workflow
<1>4. ASSUME NEW m, NEW s, workflows' = [workflows EXCEPT ![m].status = s]
      PROVE  workflows[n].stored \subseteq workflows'[n].stored
    BY <1>1, <1>4 DEF Workflow
<1> QED BY <1>1, <1>2, <1>3, <1>4 DEF TableStep

(* What a bubble holds stays true while the server goes on. *)
LEMMA BubbleIsKept ==
    ASSUME SnapInv, TableStep, NEW t \in Clients, BubbleFits(t), page'[t] = page[t]
    PROVE  BubbleFits(t)'
<1>1. CASE page[t].id = 0
    BY <1>1 DEF BubbleFits
<1>2. CASE page[t].id # 0
  <2>1. /\ page[t].id \in Existing
        /\ workflows[page[t].id].status \in TerminalStatus
      BY <1>2 DEF BubbleFits
  <2>2. page[t].id \in Existing' /\ workflows'[page[t].id] = workflows[page[t].id]
      BY <2>1, EndedRowsAreKept DEF SnapInv
  <2> QED BY <1>2, <2>2 DEF BubbleFits
<1> QED BY <1>1, <1>2

(* So does what the server holds for a submission while others move. *)
LEMMA ServerIsKept ==
    ASSUME SnapInv, TableStep, NEW t \in Clients, ServerFits(t), BubbleFits(t),
           page'[t] = page[t], request'[t] = request[t]
    PROVE  ServerFits(t)'
<1>1. (HasWorkflow(t)' <=> HasWorkflow(t)) /\ (HasEnded(t)' <=> HasEnded(t))
    BY DEF HasWorkflow, HasEnded
<1>2. HasWorkflow(t) =>
          /\ request[t].id \in Existing'
          /\ workflows'[request[t].id].query = page[t].query
          /\ workflows'[request[t].id].dry = page[t].dry
  <2>1. SUFFICES ASSUME HasWorkflow(t)
                 PROVE  /\ request[t].id \in Existing'
                        /\ workflows'[request[t].id].query = page[t].query
                        /\ workflows'[request[t].id].dry = page[t].dry
      OBVIOUS
  <2>2. /\ request[t].id \in Existing
        /\ workflows[request[t].id].query = page[t].query
        /\ workflows[request[t].id].dry = page[t].dry
      BY <2>1 DEF ServerFits
  <2> QED BY <2>2, TableIsKept DEF SnapInv
<1>3. HasEnded(t) => workflows'[request[t].id].status = request[t].status
  <2>1. SUFFICES ASSUME HasEnded(t)
                 PROVE  workflows'[request[t].id].status = request[t].status
      OBVIOUS
  <2>2. /\ request[t].id \in Existing
        /\ workflows[request[t].id].status \in TerminalStatus
        /\ workflows[request[t].id].status = request[t].status
      BY <2>1 DEF ServerFits, HasEnded
  <2> QED BY <2>2, EndedRowsAreKept DEF SnapInv
<1>4. page[t].stage = "detail" =>
          workflows[page[t].id].stored \subseteq workflows'[page[t].id].stored
    BY StoredOnlyGrows DEF BubbleFits
<1> QED BY <1>1, <1>2, <1>3, <1>4 DEF ServerFits, HasEnded

(* One submission or its request moves, and nothing is inserted.           *)
LEMMA OneSubmissionMoves ==
    ASSUME ChatInv, SnapInv', TableStep, Existing' = Existing, NEW t \in Clients,
           NEW p \in Submission, page' = [page EXCEPT ![t] = p],
           NEW r, request' = [request EXCEPT ![t] = r],
           busy' \in BOOLEAN, p.stage # "unsent", ServerFits(t)', BubbleFits(t)',
           p.id # 0 => page[t].id = p.id \/ (HasWorkflow(t) /\ request[t].id = p.id),
           HasWorkflow(t)' => HasWorkflow(t) /\ r.id = request[t].id,
           r.pc \in {"lookup", "count", "insert"} =>
               page[t].stage = "unsent" \/ request[t].pc \in {"lookup", "count", "insert"}
    PROVE  ChatInv'
<1>1. /\ page \in [Clients -> Submission] /\ request \in [Clients -> Request]
      /\ IsFiniteSet(Sent) /\ SnapInv
    BY DEF ChatInv, PageFits, SnapInv, ApiInv, ApiTypeOK
<1>2. /\ \A u \in Clients : page'[u] = IF u = t THEN p ELSE page[u]
      /\ \A u \in Clients : request'[u] = IF u = t THEN r ELSE request[u]
      /\ page' \in [Clients -> Submission]
    BY <1>1
<1>3. Sent' = Sent \cup {t}
    BY <1>2 DEF Sent
<1>4. IsFiniteSet(Sent')
    BY <1>1, <1>3, FS_AddElement
<1>5. ASSUME NEW u \in Clients
      PROVE  ServerFits(u)' /\ BubbleFits(u)'
  <2>1. CASE u = t
      BY <2>1
  <2>2. CASE u # t
      BY <1>1, <1>2, <2>2, ServerIsKept, BubbleIsKept DEF ChatInv, PageFits
  <2> QED BY <2>1, <2>2
<1>6. PageFits'
    BY <1>2, <1>4, <1>5 DEF PageFits
<1>7. PICK f \in [Existing -> Sent] : Owners(f)
    BY DEF ChatInv
<1>8. f \in [Existing' -> Sent']
    BY <1>3
<1>9. \A n \in Existing : request'[f[n]].pc \notin {"lookup", "count", "insert"}
  <2> TAKE n \in Existing
  <2>1. /\ f[n] \in Clients /\ page[f[n]].stage # "unsent"
        /\ request[f[n]].pc \notin {"lookup", "count", "insert"}
      BY <1>7 DEF Owners, Sent
  <2> QED BY <1>2, <2>1
<1>10. \A u \in Clients : page'[u].id # 0 => f[page'[u].id] = u
    BY <1>2, <1>7 DEF Owners
<1>11. \A u \in Clients : HasWorkflow(u)' => f[request'[u].id] = u
  <2> SUFFICES ASSUME NEW u \in Clients, HasWorkflow(u)'
               PROVE  f[request'[u].id] = u
      OBVIOUS
  <2>1. HasWorkflow(u) /\ request'[u].id = request[u].id
      BY <1>2 DEF HasWorkflow
  <2> QED BY <1>7, <2>1 DEF Owners
<1>12. Owners(f)'
    BY <1>7, <1>8, <1>9, <1>10, <1>11 DEF Owners
<1> QED BY <1>6, <1>8, <1>12 DEF ChatInv

-----------------------------------------------------------------------------
(* Nothing has been sent, and there is no workflow. *)
LEMMA ChatInvInit == ChatInit => ChatInv
<1> SUFFICES ASSUME ChatInit
             PROVE  ChatInv
    OBVIOUS
<1>1. SnapInv
    BY SnapInvInit DEF ChatInit
<1>2. Existing = {} /\ Sent = {}
    BY DEF ChatInit, Init, Existing, Exists, Sent, NotSent
<1>3. NotSent \in Submission
    BY DEF NotSent, Submission
<1>4. \A t \in Clients : page[t] = NotSent /\ request[t].pc = "idle"
    BY DEF ChatInit, Init, NoRequest
<1>5. PageFits
  <2>1. \A t \in Clients : ServerFits(t) /\ BubbleFits(t)
      BY <1>4 DEF ServerFits, BubbleFits, HasWorkflow, HasEnded, NotSent
  <2> QED BY <1>2, <1>3, <2>1, FS_EmptySet DEF ChatInit, PageFits
<1>6. \E f \in [Existing -> Sent] : Owners(f)
  <2>1. PICK f : f = [n \in Existing |-> NotSent]
      OBVIOUS
  <2>2. f \in [Existing -> Sent]
      BY <1>2, <2>1
  <2>3. Owners(f)
      BY <1>2, <1>4, <2>2 DEF Owners, HasWorkflow, NotSent
  <2> QED BY <2>2, <2>3
<1> QED BY <1>1, <1>5, <1>6 DEF ChatInv

(* What every step starts from, taken out of ChatInv *)
LEMMA RowTypes ==
    ASSUME ChatInv
    PROVE  /\ page \in [Clients -> Submission]
           /\ request \in [Clients -> Request]
           /\ \A t \in Clients : ServerFits(t) /\ BubbleFits(t)
           /\ 0 \notin Numbers
  BY DEF ChatInv, PageFits, SnapInv, ApiInv, ApiTypeOK, Numbers

(* A submission posts its query. *)
LEMMA SubmitStep ==
    ASSUME ChatInv, SnapInv', TableStep, NEW t \in Clients, NEW q \in Queries, NEW d \in BOOLEAN,
           Submit(t, q, d)
    PROVE  ChatInv'
<1> DEFINE p == [page[t] EXCEPT !.stage = "posted", !.query = q, !.dry = d]
           r == [NoRequest EXCEPT !.pc = "count", !.key = NoKey, !.query = q, !.dry = d]
<1>1. /\ page \in [Clients -> Submission] /\ request \in [Clients -> Request]
      /\ ServerFits(t) /\ BubbleFits(t)
    BY RowTypes
<1>2. page[t] = NotSent /\ page[t].stage = "unsent"
    BY <1>1 DEF Submit, BubbleFits
<1>3. p = [NotSent EXCEPT !.stage = "posted", !.query = q, !.dry = d]
    BY <1>2
<1>4. page' = [page EXCEPT ![t] = p]
    BY <1>1, <1>2 DEF Submit
<1>5. request' = [request EXCEPT ![t] = r] /\ workflows' = workflows /\ busy' = TRUE
    BY DEF Submit, Post, LookedUp
<1>6. PICK pp, rr : pp = p /\ rr = r
    OBVIOUS
<1>7. /\ pp.stage = "posted" /\ pp.query = q /\ pp.dry = d /\ pp.id = 0 /\ pp.kind = "none"
      /\ pp.got = {}
      /\ pp = [NotSent EXCEPT !.stage = "posted", !.query = pp.query, !.dry = pp.dry]
    BY <1>3, <1>6 DEF NotSent
<1>8. pp \in Submission
    BY <1>3, <1>6 DEF NotSent, Submission
<1>9. rr.pc = "count" /\ rr.query = q /\ rr.dry = d
    BY <1>6 DEF NoRequest
<1>10. page'[t] = pp /\ request'[t] = rr
    BY <1>1, <1>4, <1>5, <1>6
<1>11. ServerFits(t)'
    BY <1>7, <1>9, <1>10 DEF ServerFits, HasWorkflow, HasEnded
<1>12. BubbleFits(t)'
    BY <1>7, <1>10 DEF BubbleFits
<1>13. ~ HasWorkflow(t)'
    BY <1>9, <1>10 DEF HasWorkflow
<1>14. Existing' = Existing
    BY <1>5 DEF Existing, Exists
<1>15. page' = [page EXCEPT ![t] = pp] /\ request' = [request EXCEPT ![t] = rr]
    BY <1>4, <1>5, <1>6
<1> HIDE DEF p, r
<1> QED BY <1>2, <1>5, <1>7, <1>8, <1>11, <1>12, <1>13, <1>14, <1>15, OneSubmissionMoves

(* A bubble is shown and the routes stand still. *)
LEMMA ShownStep ==
    ASSUME ChatInv, SnapInv', TableStep, UNCHANGED vars, NEW t \in Clients,
           NEW p \in Submission, page' = [page EXCEPT ![t] = p], busy' \in BOOLEAN,
           p.stage = "shown", page[t].stage \in {"posted", "detail"},
           p.id = page[t].id,
           p.id = 0 => p.kind \in {"unreachable", "internal"} /\ p.got = {},
           p.id # 0 => /\ p.query = page[t].query /\ p.dry = page[t].dry
                       /\ p.status = page[t].status /\ p.answer = page[t].answer
                       /\ p.kind = KindFor(p.answer, p.status)
                       /\ p.got \subseteq workflows[p.id].stored
    PROVE  ChatInv'
<1>1. /\ page \in [Clients -> Submission] /\ request \in [Clients -> Request]
      /\ ServerFits(t) /\ BubbleFits(t)
    BY RowTypes
<1>2. page'[t] = p /\ request' = request /\ workflows' = workflows
    BY <1>1 DEF vars
<1>3. Existing' = Existing
    BY <1>2 DEF Existing, Exists
<1>4. request' = [request EXCEPT ![t] = request[t]]
    BY <1>1, <1>2
<1>5. ~ HasWorkflow(t)' /\ ~ HasEnded(t)'
    BY <1>2 DEF HasWorkflow, HasEnded
<1>6. request[t].pc \in {"lookup", "count", "insert"} => p.id = 0
    BY <1>1 DEF ServerFits
<1>7. ServerFits(t)'
    BY <1>2, <1>5, <1>6 DEF ServerFits
<1>8. BubbleFits(t)'
    BY <1>1, <1>2, <1>3 DEF BubbleFits
<1> QED BY <1>3, <1>4, <1>5, <1>7, <1>8, OneSubmissionMoves

(* The bubble of a POST that got no answer *)
LEMMA UnreachableStep ==
    ASSUME ChatInv, SnapInv', TableStep, NEW t \in Clients, Unreachable(t)
    PROVE  ChatInv'
<1>1. page \in [Clients -> Submission] /\ BubbleFits(t)
    BY RowTypes
<1>2. PICK p : p = [page[t] EXCEPT !.kind = "unreachable", !.stage = "shown"]
    OBVIOUS
<1>3. page' = [page EXCEPT ![t] = p] /\ busy' = FALSE /\ UNCHANGED vars
      /\ page[t].stage = "posted"
    BY <1>1, <1>2 DEF Unreachable, Show, Submission
<1>4. p \in Submission /\ p.stage = "shown" /\ p.kind = "unreachable"
      /\ p.id = page[t].id /\ p.got = page[t].got
    BY <1>1, <1>2 DEF Submission, Kinds
<1>5. page[t].id = 0 /\ page[t].got = {}
    BY <1>1, <1>3 DEF BubbleFits, NotSent
<1> QED BY <1>3, <1>4, <1>5, ShownStep

(* The bubble of an outcome, or of an error that names its workflow *)
LEMMA BubbleStep ==
    ASSUME ChatInv, SnapInv', TableStep, NEW t \in Clients, page[t].stage = "detail",
           NEW got \in SUBSET Parts, got \subseteq workflows[page[t].id].stored,
           Show(t, Bubble(t, got)), UNCHANGED vars
    PROVE  ChatInv'
<1>1. page \in [Clients -> Submission] /\ BubbleFits(t)
    BY RowTypes
<1>2. PICK kind : kind = KindFor(page[t].answer, page[t].status)
    OBVIOUS
<1>3. kind \in Kinds
    BY <1>2 DEF KindFor, Kinds
<1>4. PICK p : p = [page[t] EXCEPT !.kind = kind, !.got = got, !.stage = "shown"]
    OBVIOUS
<1>5. page' = [page EXCEPT ![t] = p] /\ busy' = FALSE
    BY <1>1, <1>2, <1>4 DEF Show, Bubble, Submission
<1>6. p \in Submission /\ p.stage = "shown" /\ p.kind = kind /\ p.got = got
      /\ p.id = page[t].id /\ p.query = page[t].query /\ p.dry = page[t].dry
      /\ p.status = page[t].status /\ p.answer = page[t].answer
    BY <1>1, <1>3, <1>4 DEF Submission
<1>7. page[t].id # 0
    BY <1>1 DEF BubbleFits
<1> QED BY <1>2, <1>5, <1>6, <1>7, ShownStep

(* The detail arrived, or it did not. *)
LEMMA DetailEndsStep ==
    ASSUME ChatInv, SnapInv', TableStep, NEW t \in Clients,
           DetailArrives(t) \/ WithoutDetail(t) \/ NoDetail(t)
    PROVE  ChatInv'
<1>1. CASE WithoutDetail(t) \/ NoDetail(t)
    BY <1>1, BubbleStep DEF NoDetail, WithoutDetail
<1>2. CASE DetailArrives(t)
  <2>1. page[t].stage = "detail" /\ request[t].code = "200"
      BY <1>2 DEF DetailArrives
  <2>2. /\ request[t].got \subseteq workflows[page[t].id].stored
        /\ request[t].got \in SUBSET Parts
      BY <2>1, RowTypes DEF ServerFits, Request
  <2>3. PICK got \in SUBSET Parts : got = IF page[t].answer = "201" THEN request[t].got ELSE {}
      BY <2>2
  <2> QED BY <1>2, <2>1, <2>2, <2>3, BubbleStep DEF DetailArrives
<1> QED BY <1>1, <1>2

(* The answer of a POST arrives: it names a workflow that has ended, or none. *)
LEMMA AnswerStep ==
    ASSUME ChatInv, SnapInv', TableStep, NEW t \in Clients, AnswerArrives(t)
    PROVE  ChatInv'
<1>1. /\ page \in [Clients -> Submission] /\ request \in [Clients -> Request]
      /\ ServerFits(t) /\ BubbleFits(t) /\ 0 \notin Numbers
    BY RowTypes
<1>2. /\ page[t].stage = "posted" /\ request[t].pc = "idle"
      /\ request[t].code \in Told \cup {"500"}
    BY <1>1 DEF AnswerArrives, ServerFits
<1>3. page[t].id = 0 /\ page[t].got = {} /\ page[t].kind = "none"
    BY <1>1, <1>2 DEF BubbleFits, NotSent
<1>4. CASE request[t].code = "500"
  <2>1. PICK a : a = Answered(t)
      OBVIOUS
  <2>2. a = [page[t] EXCEPT !.answer = "500", !.status = request[t].status, !.id = 0]
      BY <1>4, <2>1 DEF Answered
  <2>3. a.id = 0
      BY <1>1, <2>2 DEF Submission
  <2>4. PICK p : p = [[a EXCEPT !.status = "none", !.kind = "internal"] EXCEPT !.stage = "shown"]
      OBVIOUS
  <2>5. page' = [page EXCEPT ![t] = p] /\ busy' = FALSE /\ UNCHANGED vars
    <3>1. KindFor(request[t].code, "none") = "internal"
        BY <1>4 DEF KindFor
    <3> QED BY <2>1, <2>3, <2>4, <3>1 DEF AnswerArrives, Show
  <2>6. p \in Submission /\ p.stage = "shown" /\ p.id = 0 /\ p.kind = "internal"
        /\ p.got = page[t].got
    <3>1. PICK old \in Submission : old = page[t]
        BY <1>1
    <3>2. p = [old EXCEPT !.answer = "500", !.status = "none", !.id = 0,
                          !.kind = "internal", !.stage = "shown"]
        BY <2>2, <2>4, <3>1 DEF Submission
    <3>3. "shown" \in {"unsent", "posted", "detail", "shown"} /\ "internal" \in Kinds
        BY DEF Kinds
    <3> HIDE DEF Kinds
    <3>4. p \in Submission
        BY <3>1, <3>2, <3>3 DEF Submission
    <3>5. p.stage = "shown" /\ p.id = 0 /\ p.kind = "internal" /\ p.got = old.got
        BY <3>1, <3>2 DEF Submission
    <3> QED BY <3>1, <3>4, <3>5
  <2> QED BY <1>2, <1>3, <2>5, <2>6, ShownStep
<1>5. CASE request[t].code \in Told
  <2>1. HasWorkflow(t) /\ HasEnded(t)
      BY <1>2, <1>5 DEF HasWorkflow, HasEnded
  <2>2. PICK id : id = request[t].id
      OBVIOUS
  <2>3. /\ id \in Existing
        /\ workflows[id].query = page[t].query
        /\ workflows[id].dry = page[t].dry
        /\ request[t].status \in TerminalStatus
        /\ workflows[id].status = request[t].status
        /\ request[t].status = "dry_run_complete" => page[t].dry
        /\ request[t].code = CodeFor(request[t].status)
      BY <1>1, <1>2, <2>1, <2>2 DEF ServerFits
  <2>4. id \in Numbers /\ id # 0
      BY <1>1, <2>3 DEF Existing
  <2>5. PICK p : p = [Answered(t) EXCEPT !.stage = "detail"]
      OBVIOUS
  <2>6. PICK r : r = [NoRequest EXCEPT !.pc = "detail", !.id = id, !.todo = DetailOrder]
      OBVIOUS
  <2>7. Answered(t).id = id
      BY <1>1, <1>5, <2>2 DEF Answered, Submission, Told
  <2>8. page' = [page EXCEPT ![t] = p]
      BY <2>4, <2>5, <2>7 DEF AnswerArrives
  <2>9. request' = [request EXCEPT ![t] = r] /\ workflows' = workflows /\ busy' = busy
      BY <2>4, <2>6, <2>7 DEF AnswerArrives, Get
  <2>10. /\ p \in Submission
         /\ p.stage = "detail" /\ p.kind = "none" /\ p.id = id /\ p.got = {}
         /\ p.answer = request[t].code /\ p.status = request[t].status
         /\ p.query = page[t].query /\ p.dry = page[t].dry
    <3>1. Answered(t) = [page[t] EXCEPT !.answer = request[t].code,
                                        !.status = request[t].status, !.id = id]
        BY <1>5, <2>2 DEF Answered, Told
    <3>2. PICK a : a = Answered(t)
        OBVIOUS
    <3>3. a \in Submission
      <4>1. PICK old \in Submission : old = page[t]
          BY <1>1
      <4>2. PICK code \in Told, status \in TerminalStatus :
                code = request[t].code /\ status = request[t].status
          BY <1>5, <2>3
      <4>3. a = [old EXCEPT !.answer = code, !.status = status, !.id = id]
          BY <3>1, <3>2, <4>1, <4>2
      <4>4. code \in {"none", "201", "422", "424", "500", "503"}
          BY DEF Told
      <4> QED BY <2>4, <4>1, <4>2, <4>3, <4>4 DEF Submission
    <3>4. /\ a.kind = "none" /\ a.id = id /\ a.got = {}
          /\ a.answer = request[t].code /\ a.status = request[t].status
          /\ a.query = page[t].query /\ a.dry = page[t].dry
        BY <1>1, <1>3, <3>1, <3>2 DEF Submission
    <3> QED BY <2>5, <3>2, <3>3, <3>4 DEF Submission
  <2>11. r.pc = "detail" /\ r.id = id /\ r.got = {}
      BY <2>6 DEF NoRequest
  <2>12. page'[t] = p /\ request'[t] = r
      BY <1>1, <2>8, <2>9
  <2>13. ~ HasWorkflow(t)' /\ ~ HasEnded(t)'
      BY <2>10, <2>12 DEF HasWorkflow, HasEnded
  <2>14. Existing' = Existing
      BY <2>9 DEF Existing, Exists
  <2>15. ServerFits(t)'
      BY <2>10, <2>11, <2>12, <2>13 DEF ServerFits
  <2>16. BubbleFits(t)'
      BY <2>3, <2>4, <2>9, <2>10, <2>12, <2>14 DEF BubbleFits
  <2>17. busy' \in BOOLEAN
      BY <2>9 DEF ChatInv, PageFits
  <2> QED BY <2>1, <2>2, <2>8, <2>9, <2>10, <2>11, <2>13, <2>14, <2>15, <2>16, <2>17,
             OneSubmissionMoves
<1> QED BY <1>2, <1>4, <1>5

(* A route goes on for submission t and inserts nothing. *)
LEMMA RequestMoves ==
    ASSUME ChatInv, SnapInv', TableStep, Existing' = Existing, NEW t \in Clients,
           page' = page, busy' = busy, request[t].pc # "idle",
           NEW r, request' = [request EXCEPT ![t] = r], ServerFits(t)',
           HasWorkflow(t)' => HasWorkflow(t) /\ r.id = request[t].id,
           r.pc \in {"lookup", "count", "insert"} =>
               request[t].pc \in {"lookup", "count", "insert"}
    PROVE  ChatInv'
<1>1. page \in [Clients -> Submission] /\ BubbleFits(t) /\ ServerFits(t)
    BY RowTypes
<1>2. page' = [page EXCEPT ![t] = page[t]] /\ page[t] \in Submission /\ page'[t] = page[t]
    BY <1>1
<1>3. page[t].stage # "unsent"
    BY <1>1 DEF ServerFits
<1>4. BubbleFits(t)'
    BY <1>1, <1>2, BubbleIsKept DEF ChatInv
<1>5. busy' \in BOOLEAN
    BY DEF ChatInv, PageFits
<1>6. PICK p \in Submission : p = page[t]
    BY <1>2
<1> QED BY <1>2, <1>3, <1>4, <1>5, <1>6, OneSubmissionMoves

(* A route is answered 500, by an exception or by a conflict. *)
LEMMA GivesUpStep ==
    ASSUME ChatInv, SnapInv', TableStep, NEW t \in Clients, Answer(t, "500"),
           request[t].pc # "idle", workflows' = workflows, page' = page, busy' = busy
    PROVE  ChatInv'
<1>1. /\ request \in [Clients -> Request] /\ ServerFits(t) /\ BubbleFits(t)
    BY RowTypes
<1>2. PICK r : r = [request[t] EXCEPT !.pc = "idle", !.code = "500"]
    OBVIOUS
<1>3. request' = [request EXCEPT ![t] = r] /\ workflows' = workflows /\ request[t].pc # "idle"
    BY <1>1, <1>2 DEF Answer
<1>4. r.pc = "idle" /\ r.code = "500" /\ r.query = request[t].query /\ r.dry = request[t].dry
    BY <1>1, <1>2 DEF Request
<1>5. Existing' = Existing
    BY <1>3 DEF Existing, Exists
<1>6. request'[t] = r
    BY <1>1, <1>3
<1>7. ~ HasWorkflow(t)' /\ ~ HasEnded(t)'
    BY <1>4, <1>6 DEF HasWorkflow, HasEnded, Told
<1>8. ServerFits(t)'
  <2>1. page[t].stage # "unsent"
      BY <1>1, <1>3 DEF ServerFits
  <2>2. page[t].stage = "posted" =>
            request[t].query = page[t].query /\ request[t].dry = page[t].dry
      BY <1>1, <1>3 DEF ServerFits
  <2> QED BY <1>4, <1>6, <1>7, <2>1, <2>2 DEF ServerFits
<1> QED BY <1>3, <1>4, <1>5, <1>7, <1>8, RequestMoves

(* The process ends: whoever waited for an answer gets none, and what was   *)
(* inserted keeps its owner. *)
LEMMA RestartStep ==
    ASSUME ChatInv, SnapInv', TableStep, Restart, page' = page, busy' = busy
    PROVE  ChatInv'
<1>1. /\ page \in [Clients -> Submission] /\ request \in [Clients -> Request]
      /\ \A t \in Clients : ServerFits(t) /\ BubbleFits(t)
    BY RowTypes
<1>2. /\ \A t \in Clients : request'[t] = IF request[t].pc = "idle" THEN request[t]
                                          ELSE [NoRequest EXCEPT !.code = "lost"]
      /\ workflows' = workflows /\ Existing' = Existing /\ Sent' = Sent
    BY DEF Restart, Existing, Exists, Sent
<1>3. \A t \in Clients :
          \/ request'[t] = request[t]
          \/ request'[t].pc = "idle" /\ request'[t].code = "lost" /\ request[t].pc # "idle"
  <2>1. /\ [NoRequest EXCEPT !.code = "lost"].pc = "idle"
        /\ [NoRequest EXCEPT !.code = "lost"].code = "lost"
      BY DEF NoRequest
  <2> QED BY <1>2, <2>1
<1>4. ASSUME NEW t \in Clients
      PROVE  ServerFits(t)' /\ BubbleFits(t)' /\ (HasWorkflow(t)' => HasWorkflow(t) /\ request'[t] = request[t])
  <2>1. BubbleFits(t)'
      BY <1>1, BubbleIsKept DEF ChatInv
  <2>2. CASE request'[t] = request[t]
      BY <1>1, <2>1, <2>2, ServerIsKept DEF ChatInv, HasWorkflow
  <2>3. CASE request'[t].pc = "idle" /\ request'[t].code = "lost" /\ request[t].pc # "idle"
    <3>1. ~ HasWorkflow(t)' /\ ~ HasEnded(t)'
        BY <2>3 DEF HasWorkflow, HasEnded, Told
    <3> QED BY <1>1, <2>1, <2>3, <3>1 DEF ServerFits
  <2> QED BY <1>2, <1>3, <2>2, <2>3
<1>5. PageFits'
    BY <1>1, <1>2, <1>4 DEF ChatInv, PageFits
<1>6. PICK f \in [Existing -> Sent] : Owners(f)
    BY DEF ChatInv
<1>7. \A n \in Existing : request'[f[n]].pc \notin {"lookup", "count", "insert"}
  <2> TAKE n \in Existing
  <2>1. f[n] \in Clients /\ request[f[n]].pc \notin {"lookup", "count", "insert"}
      BY <1>6 DEF Owners, Sent
  <2> QED BY <1>3, <2>1
<1>8. Owners(f)'
    BY <1>2, <1>4, <1>6, <1>7 DEF Owners
<1> QED BY <1>2, <1>5, <1>6, <1>8 DEF ChatInv

(* A route goes on whose bubble is there already: nobody waits for it. *)
LEMMA ShownMoves ==
    ASSUME ChatInv, SnapInv', TableStep, Existing' = Existing, NEW t \in Clients,
           page' = page, busy' = busy, request[t].pc # "idle", page[t].stage = "shown",
           NEW r, request' = [request EXCEPT ![t] = r],
           r.pc \in {"lookup", "count", "insert"} =>
               request[t].pc \in {"lookup", "count", "insert"}
    PROVE  ChatInv'
<1>1. request \in [Clients -> Request] /\ ServerFits(t)
    BY RowTypes
<1>2. request'[t] = r /\ page'[t] = page[t]
    BY <1>1
<1>3. ~ HasWorkflow(t)' /\ ~ HasEnded(t)'
    BY <1>2 DEF HasWorkflow, HasEnded
<1>4. ServerFits(t)'
    BY <1>1, <1>2, <1>3 DEF ServerFits
<1> QED BY <1>3, <1>4, RequestMoves

(* Only a route nobody waits for can be here: the page sends no key. *)
LEMMA LookupStep ==
    ASSUME ChatInv, SnapInv', TableStep, NEW t \in Clients, Lookup(t), page' = page, busy' = busy
    PROVE  ChatInv'
<1>1. request[t].pc = "lookup" /\ page[t].stage = "shown"
    BY RowTypes DEF Lookup, ServerFits
<1>2. Existing' = Existing
    BY DEF Lookup, Existing, Exists
<1>3. PICK r : request' = [request EXCEPT ![t] = r]
  <2>1. \/ request' = [request EXCEPT ![t] = [request[t] EXCEPT !.pc = "count"]]
        \/ \E n \in Numbers :
              \/ request' = [request EXCEPT ![t] = [request[t] EXCEPT !.pc = "detail", !.id = n,
                                                                      !.todo = DetailOrder]]
              \/ request' = [request EXCEPT ![t] = [request[t] EXCEPT !.pc = "idle", !.id = n,
                                                                      !.code = "409"]]
      BY DEF Lookup, Goto
  <2> QED BY <2>1
<1> QED BY <1>1, <1>2, <1>3, ShownMoves

(* A number is counted, and nothing inserted. *)
LEMMA CountStep ==
    ASSUME ChatInv, SnapInv', TableStep, NEW t \in Clients, Count(t), page' = page, busy' = busy
    PROVE  ChatInv'
<1>1. request[t].pc = "count" /\ workflows' = workflows
    BY DEF Count
<1>2. PICK r : r = [request[t] EXCEPT !.pc = "insert", !.id = Cardinality(Existing) + 1]
    OBVIOUS
<1>3. request \in [Clients -> Request] /\ ServerFits(t)
    BY RowTypes
<1>4. /\ request' = [request EXCEPT ![t] = r]
      /\ r.pc = "insert" /\ r.query = request[t].query /\ r.dry = request[t].dry
    BY <1>2, <1>3 DEF Count, Request
<1>5. Existing' = Existing
    BY <1>1 DEF Existing, Exists
<1>6. request'[t] = r /\ page'[t] = page[t]
    BY <1>3, <1>4
<1>7. ~ HasWorkflow(t)' /\ ~ HasEnded(t)'
    BY <1>4, <1>6 DEF HasWorkflow, HasEnded
<1>8. ServerFits(t)'
    BY <1>1, <1>3, <1>4, <1>6, <1>7 DEF ServerFits
<1> QED BY <1>1, <1>4, <1>5, <1>7, <1>8, RequestMoves

(* A row is inserted: it is the first of its submission, its owner from now *)
(* on, or there was a conflict. *)
LEMMA InsertStep ==
    ASSUME ChatInv, SnapInv', TableStep, NEW t \in Clients, Insert(t), page' = page, busy' = busy
    PROVE  ChatInv'
<1>1. /\ page \in [Clients -> Submission] /\ request \in [Clients -> Request]
      /\ \A u \in Clients : ServerFits(u) /\ BubbleFits(u)
      /\ request[t].pc = "insert"
    BY RowTypes DEF Insert
<1>2. CASE Conflict(t)
    BY <1>1, <1>2, GivesUpStep DEF Insert
<1>3. CASE ~ Conflict(t)
  <2>1. PICK id : id = request[t].id
      OBVIOUS
  <2>2. id \in Numbers /\ id \notin Existing
    <3>1. Sound(t)
        BY DEF ChatInv, SnapInv, ApiInv, RequestsAreSound
    <3> QED BY <1>1, <1>3, <2>1, <3>1 DEF Sound, Conflict, Existing
  <2>3. PICK r : r = [request[t] EXCEPT !.pc = "run"]
      OBVIOUS
  <2>4. /\ request' = [request EXCEPT ![t] = r]
        /\ r.pc = "run" /\ r.id = id /\ r.query = request[t].query /\ r.dry = request[t].dry
      BY <1>1, <1>3, <2>1, <2>3 DEF Insert, Goto, Request
  <2>5. PICK w : w = Row(t)
      OBVIOUS
  <2>6. workflows' = [workflows EXCEPT ![id] = w]
      BY <1>3, <2>1, <2>5 DEF Insert
  <2>7. w.query = request[t].query /\ w.dry = request[t].dry /\ w # NoWorkflow
      BY <2>5 DEF Row, NoWorkflow
  <2>8. /\ workflows \in [Numbers -> Workflow \cup {NoWorkflow}]
        /\ workflows'[id] = w
        /\ Existing' = Existing \cup {id}
    <3>1. workflows \in [Numbers -> Workflow \cup {NoWorkflow}]
        BY DEF ChatInv, SnapInv, ApiInv, ApiTypeOK
    <3> QED BY <2>2, <2>6, <2>7, <3>1 DEF Existing, Exists
  <2>9. \A u \in Clients : /\ page'[u] = page[u]
                           /\ request'[u] = IF u = t THEN r ELSE request[u]
      BY <1>1, <2>4
  <2>10. Sent' = Sent /\ t \in Sent
      BY <1>1 DEF Sent, ServerFits
  <2>11. ASSUME NEW u \in Clients
         PROVE  ServerFits(u)' /\ BubbleFits(u)'
    <3>1. BubbleFits(u)'
        BY <1>1, <2>9, BubbleIsKept DEF ChatInv
    <3>2. CASE u # t
        BY <1>1, <2>9, <3>1, <3>2, ServerIsKept DEF ChatInv
    <3>3. CASE u = t
      <4>1. /\ request'[t] = r /\ page'[t] = page[t]
            /\ id \in Existing'
            /\ ~ HasEnded(t)'
          BY <2>4, <2>8, <2>9 DEF HasEnded
      <4>2. page[t].stage = "posted" =>
                request[t].query = page[t].query /\ request[t].dry = page[t].dry
          BY <1>1 DEF ServerFits
      <4>3. page[t].stage \in {"posted", "shown"}
          BY <1>1 DEF ServerFits
      <4>4. HasWorkflow(t)' => page[t].stage = "posted"
          BY <4>1 DEF HasWorkflow
      <4> QED BY <2>4, <2>7, <2>8, <3>1, <3>3, <4>1, <4>2, <4>3, <4>4 DEF ServerFits
    <3> QED BY <3>1, <3>2, <3>3
  <2>12. PageFits'
      BY <2>10, <2>11 DEF ChatInv, PageFits
  <2>13. PICK f \in [Existing -> Sent] : Owners(f)
      BY DEF ChatInv
  <2>14. PICK g : g = [m \in Existing' |-> IF m = id THEN t ELSE f[m]]
      OBVIOUS
  <2>15. g \in [Existing' -> Sent']
      BY <2>8, <2>10, <2>13, <2>14
  <2>16. \A m \in Existing : f[m] # t /\ g[m] = f[m]
      BY <1>1, <2>2, <2>8, <2>13, <2>14 DEF Owners
  <2>17. g[id] = t
      BY <2>8, <2>14
  <2>18. \A m, n \in Existing' : g[m] = g[n] => m = n
      BY <2>8, <2>13, <2>16, <2>17 DEF Owners
  <2>19. \A n \in Existing' : request'[g[n]].pc \notin {"lookup", "count", "insert"}
    <3>1. \A n \in Existing : f[n] \in Clients
        BY <2>13 DEF Sent
    <3> QED BY <2>4, <2>8, <2>9, <2>13, <2>16, <2>17, <3>1 DEF Owners
  <2>20. \A u \in Clients : page'[u].id # 0 => g[page'[u].id] = u
    <3>1. \A u \in Clients : page[u].id # 0 => page[u].id \in Existing
        BY <1>1 DEF BubbleFits
    <3> QED BY <2>9, <2>13, <2>16, <3>1 DEF Owners
  <2>21. \A u \in Clients : HasWorkflow(u)' => g[request'[u].id] = u
    <3> SUFFICES ASSUME NEW u \in Clients, HasWorkflow(u)'
                 PROVE  g[request'[u].id] = u
        OBVIOUS
    <3>1. CASE u = t
        BY <2>4, <2>9, <2>17, <3>1
    <3>2. CASE u # t
      <4>1. HasWorkflow(u) /\ request'[u] = request[u]
          BY <2>9, <3>2 DEF HasWorkflow
      <4>2. request[u].id \in Existing
          BY <1>1, <4>1 DEF ServerFits
      <4> QED BY <2>13, <2>16, <4>1, <4>2 DEF Owners
    <3> QED BY <3>1, <3>2
  <2>22. Owners(g)'
      BY <2>15, <2>18, <2>19, <2>20, <2>21 DEF Owners
  <2> QED BY <2>12, <2>15, <2>22 DEF ChatInv
<1> QED BY <1>2, <1>3

(* The graph writes to a row that exists and changes no other. *)
LEMMA RunnerHasARow ==
    ASSUME ChatInv, NEW t \in Clients, Running(t)
    PROVE  /\ request[t].id \in Existing /\ request[t].id \in Numbers
           /\ workflows[request[t].id] \in Workflow
           /\ workflows \in [Numbers -> Workflow \cup {NoWorkflow}]
           /\ request[t].dry = workflows[request[t].id].dry
<1>1. Sound(t) /\ workflows \in [Numbers -> Workflow \cup {NoWorkflow}]
    BY DEF ChatInv, SnapInv, ApiInv, RequestsAreSound, ApiTypeOK
<1> QED BY <1>1 DEF Sound, Names, Running, Existing, Exists

(* The graph stores a part. *)
LEMMA StorePartStep ==
    ASSUME ChatInv, SnapInv', TableStep, NEW t \in Clients, NEW part \in Parts,
           StorePart(t, part), page' = page, busy' = busy
    PROVE  ChatInv'
<1>1. /\ page \in [Clients -> Submission] /\ request \in [Clients -> Request]
      /\ ServerFits(t) /\ BubbleFits(t) /\ request' = request /\ request[t].pc = "run"
    BY RowTypes DEF StorePart, Running
<1>2. PICK n : n = request[t].id
    OBVIOUS
<1>3. /\ n \in Existing /\ n \in Numbers
      /\ workflows \in [Numbers -> Workflow \cup {NoWorkflow}] /\ workflows[n] \in Workflow
    BY <1>2, RunnerHasARow DEF StorePart
<1>4. PICK w : w = [workflows[n] EXCEPT !.stored = @ \cup {part}]
    OBVIOUS
<1>5. workflows' = [workflows EXCEPT ![n] = w] /\ w # NoWorkflow
  <2>1. w # NoWorkflow
    <3>1. w \in Workflow
        BY <1>3, <1>4 DEF Workflow
    <3> QED BY <3>1 DEF Workflow, NoWorkflow, TerminalStatus, FailedStatus
  <2> QED BY <1>2, <1>4, <2>1 DEF StorePart
<1>6. Existing' = Existing
    BY <1>3, <1>5 DEF Existing, Exists
<1>7. request' = [request EXCEPT ![t] = request[t]] /\ request'[t] = request[t]
    BY <1>1
<1>8. ServerFits(t)'
    BY <1>1, ServerIsKept DEF ChatInv
<1>9. HasWorkflow(t)' => HasWorkflow(t)
    BY <1>1 DEF HasWorkflow
<1>10. PICK r : r = request[t]
    OBVIOUS
<1> QED BY <1>1, <1>6, <1>7, <1>8, <1>9, <1>10, RequestMoves

(* The graph ends, and the status of the row is the one that is answered. *)
LEMMA GraphEndsStep ==
    ASSUME ChatInv, SnapInv', TableStep, NEW t \in Clients, GraphEnds(t),
           page' = page, busy' = busy
    PROVE  ChatInv'
<1>1. /\ page \in [Clients -> Submission] /\ request \in [Clients -> Request]
      /\ ServerFits(t) /\ request[t].pc = "run" /\ Running(t)
    BY RowTypes DEF GraphEnds, Running
<1>2. PICK n : n = request[t].id
    OBVIOUS
<1>3. /\ n \in Existing /\ n \in Numbers
      /\ workflows \in [Numbers -> Workflow \cup {NoWorkflow}] /\ workflows[n] \in Workflow
      /\ request[t].dry = workflows[n].dry
    BY <1>1, <1>2, RunnerHasARow
<1>4. PICK s \in Endings(request[t].dry, Stored(t)) :
          /\ workflows' = [workflows EXCEPT ![n].status = s]
          /\ request' = [request EXCEPT ![t].pc = "respond", ![t].status = s, ![t].got = Stored(t)]
    BY <1>2 DEF GraphEnds
<1>5. s \in TerminalStatus /\ (s = "dry_run_complete" => request[t].dry)
    BY <1>4 DEF Endings
<1>6. PICK w : w = [workflows[n] EXCEPT !.status = s]
    OBVIOUS
<1>7. /\ workflows' = [workflows EXCEPT ![n] = w] /\ w # NoWorkflow
      /\ w.status = s /\ w.query = workflows[n].query /\ w.dry = workflows[n].dry
  <2>1. w # NoWorkflow
    <3>1. w \in Workflow
        BY <1>3, <1>5, <1>6 DEF Workflow
    <3> QED BY <3>1 DEF Workflow, NoWorkflow, TerminalStatus, FailedStatus
  <2> QED BY <1>3, <1>4, <1>6, <2>1 DEF Workflow
<1>8. PICK r : r = [request[t] EXCEPT !.pc = "respond", !.status = s, !.got = Stored(t)]
    OBVIOUS
<1>9. /\ request' = [request EXCEPT ![t] = r]
      /\ r.pc = "respond" /\ r.status = s /\ r.id = n
      /\ r.query = request[t].query /\ r.dry = request[t].dry
    BY <1>1, <1>2, <1>4, <1>8 DEF Request
<1>10. Existing' = Existing /\ workflows'[n] = w
    BY <1>3, <1>7 DEF Existing, Exists
<1>11. request'[t] = r /\ page'[t] = page[t]
    BY <1>1, <1>9
<1>12. HasWorkflow(t)' => HasWorkflow(t) /\ page[t].stage = "posted"
    BY <1>1, <1>11 DEF HasWorkflow
<1>13. ServerFits(t)'
  <2>1. page[t].stage \in {"posted", "shown"}
    <3>1. page[t].stage \in {"unsent", "posted", "detail", "shown"}
        BY <1>1 DEF Submission
    <3> QED BY <1>1, <3>1 DEF ServerFits
  <2>2. CASE page[t].stage = "shown"
    <3>1. ~ HasWorkflow(t)' /\ ~ HasEnded(t)'
        BY <1>11, <2>2 DEF HasWorkflow, HasEnded
    <3> QED BY <1>9, <1>11, <2>2, <3>1 DEF ServerFits
  <2>3. CASE page[t].stage = "posted"
    <3>1. HasWorkflow(t) /\ request[t].query = page[t].query /\ request[t].dry = page[t].dry
        BY <1>1, <2>3 DEF HasWorkflow, ServerFits
    <3>2. workflows[n].query = page[t].query /\ workflows[n].dry = page[t].dry
        BY <1>1, <1>2, <3>1 DEF ServerFits
    <3> QED BY <1>3, <1>5, <1>7, <1>9, <1>10, <1>11, <2>3, <3>1, <3>2 DEF ServerFits
  <2> QED BY <2>1, <2>2, <2>3
<1> QED BY <1>1, <1>2, <1>9, <1>10, <1>12, <1>13, RequestMoves

(* The answer is about the workflow of the request. *)
LEMMA RespondStep ==
    ASSUME ChatInv, SnapInv', TableStep, NEW t \in Clients, Respond(t),
           page' = page, busy' = busy
    PROVE  ChatInv'
<1>1. /\ page \in [Clients -> Submission] /\ request \in [Clients -> Request]
      /\ ServerFits(t) /\ request[t].pc = "respond" /\ workflows' = workflows
    BY RowTypes DEF Respond
<1>2. PICK code : code = CodeFor(request[t].status)
    OBVIOUS
<1>3. code \in Told
    BY <1>2 DEF CodeFor, Told
<1>4. PICK r : r = [request[t] EXCEPT !.pc = "idle", !.code = code]
    OBVIOUS
<1>5. /\ request' = [request EXCEPT ![t] = r]
      /\ r.pc = "idle" /\ r.code = code /\ r.status = request[t].status /\ r.id = request[t].id
      /\ r.query = request[t].query /\ r.dry = request[t].dry
    BY <1>1, <1>2, <1>4 DEF Respond, Answer, Request
<1>6. Existing' = Existing
    BY <1>1 DEF Existing, Exists
<1>7. request'[t] = r /\ page'[t] = page[t]
    BY <1>1, <1>5
<1>8. /\ HasWorkflow(t)' => HasWorkflow(t) /\ HasEnded(t)
      /\ HasWorkflow(t)' => page[t].stage = "posted"
    BY <1>1, <1>7 DEF HasWorkflow, HasEnded
<1>9. ServerFits(t)'
  <2>1. page[t].stage \in {"posted", "shown"}
    <3>1. page[t].stage \in {"unsent", "posted", "detail", "shown"}
        BY <1>1 DEF Submission
    <3> QED BY <1>1, <3>1 DEF ServerFits
  <2>2. CASE page[t].stage = "shown"
    <3>1. ~ HasWorkflow(t)' /\ ~ HasEnded(t)'
        BY <1>7, <2>2 DEF HasWorkflow, HasEnded
    <3> QED BY <1>5, <1>7, <2>2, <3>1 DEF ServerFits
  <2>3. CASE page[t].stage = "posted"
    <3>1. /\ HasWorkflow(t) /\ HasEnded(t)
          /\ request[t].query = page[t].query /\ request[t].dry = page[t].dry
        BY <1>1, <2>3 DEF HasWorkflow, HasEnded, ServerFits
    <3>2. /\ request[t].id \in Existing
          /\ workflows[request[t].id].query = page[t].query
          /\ workflows[request[t].id].dry = page[t].dry
          /\ request[t].status \in TerminalStatus
          /\ workflows[request[t].id].status = request[t].status
          /\ request[t].status = "dry_run_complete" => page[t].dry
        BY <1>1, <3>1 DEF ServerFits
    <3> QED BY <1>1, <1>2, <1>3, <1>5, <1>6, <1>7, <2>3, <3>1, <3>2 DEF ServerFits
  <2> QED BY <2>1, <2>2, <2>3
<1> QED BY <1>1, <1>5, <1>6, <1>8, <1>9, RequestMoves

(* One read of a detail takes what is stored, or nothing. *)
LEMMA ReadDetailMoves ==
    ASSUME ChatInv, SnapInv', TableStep, NEW t \in Clients, ReadDetail(t),
           page' = page, busy' = busy
    PROVE  ChatInv'
<1>1. /\ page \in [Clients -> Submission] /\ request \in [Clients -> Request]
      /\ ServerFits(t) /\ request[t].pc = "detail" /\ workflows' = workflows
    BY RowTypes DEF ReadDetail
<1>2. PICK old \in Request : old = request[t]
    BY <1>1
<1>3. PICK rest, part, pc, code :
          /\ rest = Tail(old.todo) /\ part = Head(old.todo)
          /\ pc = IF rest = <<>> THEN "idle" ELSE "detail"
          /\ code = IF rest = <<>> THEN "200" ELSE "none"
    OBVIOUS
<1>4. PICK got : got = old.got \cup ({part} \cap workflows[old.id].stored)
    OBVIOUS
<1>5. PICK status : status = workflows[old.id].status
    OBVIOUS
<1>6. \E r : /\ request' = [request EXCEPT ![t] = r]
             /\ r.pc \in {"idle", "detail"}
             /\ r.id = old.id
             /\ \/ r.pc = "idle" /\ r.code = "404"
                \/ r.got = old.got
                \/ r.got = got
  <2>1. \/ request' = [request EXCEPT ![t] = [old EXCEPT !.pc = "idle", !.code = "404"]]
        \/ request' = [request EXCEPT ![t] = [old EXCEPT !.todo = rest, !.pc = pc, !.code = code,
                                                         !.status = status]]
        \/ request' = [request EXCEPT ![t] = [old EXCEPT !.todo = rest, !.pc = pc, !.code = code,
                                                         !.got = got]]
      BY <1>2, <1>3, <1>4, <1>5 DEF ReadDetail
  <2>2. pc \in {"idle", "detail"}
      BY <1>3
  <2>3. CASE request' = [request EXCEPT ![t] = [old EXCEPT !.pc = "idle", !.code = "404"]]
    <3>1. PICK r : r = [old EXCEPT !.pc = "idle", !.code = "404"]
        OBVIOUS
    <3>2. r.pc = "idle" /\ r.code = "404" /\ r.id = old.id
        BY <1>2, <3>1 DEF Request
    <3> QED BY <2>3, <3>1, <3>2
  <2>4. CASE request' = [request EXCEPT ![t] = [old EXCEPT !.todo = rest, !.pc = pc,
                                                           !.code = code, !.status = status]]
    <3>1. PICK r : r = [old EXCEPT !.todo = rest, !.pc = pc, !.code = code, !.status = status]
        OBVIOUS
    <3>2. r.pc = pc /\ r.id = old.id /\ r.got = old.got
        BY <1>2, <3>1 DEF Request
    <3> QED BY <2>2, <2>4, <3>1, <3>2
  <2>5. CASE request' = [request EXCEPT ![t] = [old EXCEPT !.todo = rest, !.pc = pc,
                                                           !.code = code, !.got = got]]
    <3>1. PICK r : r = [old EXCEPT !.todo = rest, !.pc = pc, !.code = code, !.got = got]
        OBVIOUS
    <3>2. r.pc = pc /\ r.id = old.id /\ r.got = got
        BY <1>2, <3>1 DEF Request
    <3> QED BY <2>2, <2>5, <3>1, <3>2
  <2> QED BY <2>1, <2>3, <2>4, <2>5
<1>7. PICK r : /\ request' = [request EXCEPT ![t] = r]
               /\ r.pc \in {"idle", "detail"}
               /\ r.id = old.id
               /\ \/ r.pc = "idle" /\ r.code = "404"
                  \/ r.got = old.got
                  \/ r.got = got
    BY <1>6
<1>8. Existing' = Existing
    BY <1>1 DEF Existing, Exists
<1>9. request'[t] = r /\ page'[t] = page[t]
    BY <1>1, <1>7
<1>10. page[t].stage \in {"detail", "shown"}
  <2>1. page[t].stage \in {"unsent", "posted", "detail", "shown"}
      BY <1>1 DEF Submission
  <2> QED BY <1>1, <2>1 DEF ServerFits
<1>11. ~ HasWorkflow(t)' /\ ~ HasEnded(t)'
    BY <1>9, <1>10 DEF HasWorkflow, HasEnded
<1>12. ServerFits(t)'
  <2>1. page[t].stage = "detail" =>
            /\ old.id = page[t].id
            /\ old.got \subseteq workflows[page[t].id].stored
      BY <1>1, <1>2 DEF ServerFits
  <2>2. page[t].stage = "detail" => got \subseteq workflows[page[t].id].stored
      BY <1>4, <2>1
  <2> QED BY <1>1, <1>7, <1>9, <1>10, <1>11, <2>1, <2>2 DEF ServerFits
<1> QED BY <1>1, <1>7, <1>8, <1>11, <1>12, RequestMoves

(* Every step of the page and of the routes keeps ChatInv. *)
LEMMA ChatInvStep == ChatInv /\ [ChatNext]_chatVars => ChatInv'
<1> SUFFICES ASSUME ChatInv, [ChatNext]_chatVars
             PROVE  ChatInv'
    OBVIOUS
<1>0. SnapInv /\ SnapInv' /\ TableStep
    BY ChatStepIsApiStep, SnapInvStep, NextIsTableStep DEF ChatInv
<1>1. ASSUME NEW t \in Clients, NEW q \in Queries, NEW d \in BOOLEAN, Submit(t, q, d)
      PROVE  ChatInv'
    BY <1>0, <1>1, SubmitStep
<1>2. ASSUME NEW t \in Clients, PageStep(t) \/ Unreachable(t) \/ WithoutDetail(t)
      PROVE  ChatInv'
    BY <1>0, <1>2, AnswerStep, UnreachableStep, DetailEndsStep DEF PageStep, NoAnswer
<1>3. ASSUME NEW t \in Clients, ServerStep(t)
      PROVE  ChatInv'
  <2>1. page' = page /\ busy' = busy /\ RouteStep(t)
      BY <1>3 DEF ServerStep
  <2>2. ASSUME NEW part \in Parts, StorePart(t, part)
        PROVE  ChatInv'
      BY <1>0, <2>1, <2>2, StorePartStep
  <2> QED BY <1>0, <2>1, <2>2, LookupStep, CountStep, InsertStep, GraphEndsStep, RespondStep,
             ReadDetailMoves DEF RouteStep
<1>4. CASE Fault
  <2>1. page' = page /\ busy' = busy
      BY <1>4 DEF Fault
  <2>2. ASSUME NEW t \in Clients, Abandon(t)
        PROVE  ChatInv'
      BY <1>0, <2>1, <2>2, GivesUpStep DEF Abandon
  <2> QED BY <1>0, <1>4, <2>1, <2>2, RestartStep DEF Fault
<1>5. CASE UNCHANGED chatVars
  <2>1. page' = page /\ busy' = busy /\ request' = request /\ workflows' = workflows
      BY <1>5 DEF chatVars, vars
  <2>2. Existing' = Existing /\ Sent' = Sent
      BY <2>1 DEF Existing, Exists, Sent
  <2>3. \A t \in Clients : /\ ServerFits(t)' /\ BubbleFits(t)'
                           /\ HasWorkflow(t)' => HasWorkflow(t)
      BY <1>0, <2>1, RowTypes, ServerIsKept, BubbleIsKept DEF HasWorkflow
  <2>4. PageFits'
      BY <2>1, <2>2, <2>3 DEF ChatInv, PageFits
  <2>5. PICK f \in [Existing -> Sent] : Owners(f)
      BY DEF ChatInv
  <2>6. Owners(f)'
      BY <2>1, <2>2, <2>3, <2>5 DEF Owners
  <2> QED BY <1>0, <2>2, <2>4, <2>5, <2>6 DEF ChatInv
<1> QED BY <1>1, <1>2, <1>3, <1>4, <1>5 DEF ChatNext

-----------------------------------------------------------------------------
(* The inductive invariant holds in every behaviour of the page. *)
THEOREM ChatInvariant == ChatSpec => []ChatInv
<1>1. ChatInit => ChatInv
    BY ChatInvInit
<1>2. ChatInv /\ [ChatNext]_chatVars => ChatInv'
    BY ChatInvStep
<1> QED BY <1>1, <1>2, PTL DEF ChatSpec

(* The page is a client like any other: all that holds of the workflow     *)
(* routes under any requests (frontend/app.js calls only POST /workflows    *)
(* and GET /workflows/{id}) holds of them under the page. *)
THEOREM PageUsesTheRoutes == ChatSpec => Spec
<1>1. ChatInit => Init
    BY DEF ChatInit
<1>2. ChatInv /\ [ChatNext]_chatVars => [Next]_vars
    BY ChatStepIsApiStep DEF ChatInv
<1> QED BY <1>1, <1>2, ChatInvariant, PTL DEF ChatSpec, Spec

(* The variables of the page and of the routes have their types. *)
THEOREM ChatTypes == ChatSpec => []ChatTypeOK
<1>1. ChatInv => ChatTypeOK
    BY DEF ChatInv, SnapInv, ApiInv, PageFits, ChatTypeOK
<1> QED BY <1>1, ChatInvariant, PTL

(* A bubble that says nothing was run is about a workflow that has no      *)
(* execution and never will have, and one that says completed about one    *)
(* with its execution and report (app.js, friendlyMessage, renderOutcome). *)
THEOREM PageTellsNoLiesTheorem == ChatSpec => []PageTellsNoLies
<1>1. ChatInv => PageTellsNoLies
  <2> SUFFICES ASSUME ChatInv, NEW t \in Clients
               PROVE  LET b == page[t] IN
                      /\ NothingWasRun(b) => b.id \in Existing /\ workflows[b.id].stored = {}
                      /\ b.kind = "outcome" /\ ~b.dry => workflows[b.id].stored = Parts
                      /\ b.got \subseteq (IF b.id \in Existing THEN workflows[b.id].stored ELSE {})
      BY DEF PageTellsNoLies
  <2>1. PICK b : b = page[t]
      OBVIOUS
  <2>2. b \in Submission /\ BubbleFits(t)
      BY <2>1, RowTypes
  <2>3. CASE b.id = 0
    <3>1. b.kind \in {"none", "unreachable", "internal"} /\ b.got = {}
      <4>1. b.stage \in {"unsent", "posted", "detail", "shown"}
          BY <2>2 DEF Submission
      <4>2. b.stage = "unsent" => b.kind = "none"
          BY <2>1, <2>2 DEF BubbleFits, NotSent
      <4>3. b.stage = "posted" => b.kind = "none"
        <5>1. b.stage = "posted" =>
                  b = [NotSent EXCEPT !.stage = "posted", !.query = b.query, !.dry = b.dry]
            BY <2>1, <2>2 DEF BubbleFits
        <5> QED BY <5>1 DEF NotSent
      <4> QED BY <2>1, <2>2, <2>3, <4>1, <4>2, <4>3 DEF BubbleFits
    <3>2. ~ NothingWasRun(b) /\ b.kind # "outcome"
        BY <3>1 DEF NothingWasRun
    <3> QED BY <2>1, <3>1, <3>2
  <2>4. CASE b.id # 0
    <3>1. PICK w : w = workflows[b.id]
        OBVIOUS
    <3>2. /\ b.id \in Existing
          /\ w.dry = b.dry /\ w.status = b.status /\ b.status \in TerminalStatus
          /\ b.status = "dry_run_complete" => b.dry
          /\ b.kind \in {"none", KindFor(CodeFor(b.status), b.status)}
          /\ b.got \subseteq w.stored
        BY <2>1, <2>2, <2>4, <3>1 DEF BubbleFits
    <3>3. Backed(w)
        BY <3>1, <3>2 DEF ChatInv, SnapInv, RowsAreBacked
    <3>4. b.kind = "outcome" => b.status \in {"completed", "dry_run_complete"}
        BY <3>2 DEF KindFor, CodeFor, TerminalStatus, FailedStatus
    <3>5. b.kind \in {"clarification", "policy", "retrieval"} =>
              b.status \in {"needs_clarification", "rejected", "retrieval_failed"}
        BY <3>2 DEF KindFor, CodeFor, TerminalStatus, FailedStatus
    <3>6. NothingWasRun(b) => w.stored = {}
        BY <3>2, <3>3, <3>5 DEF NothingWasRun, Backed, TerminalStatus, FailedStatus
    <3>7. b.kind = "outcome" /\ ~ b.dry => w.stored = Parts
        BY <3>2, <3>3, <3>4 DEF Backed
    <3> QED BY <2>1, <3>1, <3>2, <3>6, <3>7
  <2> QED BY <2>3, <2>4
<1> QED BY <1>1, ChatInvariant, PTL

(* Each bubble is about a workflow of its own, started for its own query;  *)
(* and a workflow under no bubble belongs to a submission that waits, or   *)
(* whose bubble says that something went wrong (app.js, handleSubmit). *)
THEOREM EveryWorkflowIsAccountedForTheorem == ChatSpec => []EveryWorkflowIsAccountedFor
<1>1. ChatInv => EveryWorkflowIsAccountedFor
  <2> SUFFICES ASSUME ChatInv
               PROVE  EveryWorkflowIsAccountedFor
      OBVIOUS
  <2> DEFINE named == {t \in Clients : page[t].id # 0}
             open  == {t \in Clients : page[t].stage = "posted" \/ page[t].kind \in
                                             {"unreachable", "internal"}}
  <2>1. \A t \in Clients : BubbleFits(t) /\ page[t] \in Submission
      BY RowTypes
  <2>2. PICK f \in [Existing -> Sent] : Owners(f)
      BY DEF ChatInv
  <2>3. \A t \in named :
            /\ page[t].id \in Existing
            /\ workflows[page[t].id].query = page[t].query
            /\ workflows[page[t].id].dry = page[t].dry
      BY <2>1 DEF BubbleFits
  <2>4. \A t, u \in named : page[t].id = page[u].id => t = u
      BY <2>2 DEF Owners
  <2>5. Sent \subseteq named \cup open
    <3> SUFFICES ASSUME NEW t \in Sent
                 PROVE  t \in named \cup open
        OBVIOUS
    <3>1. /\ t \in Clients /\ BubbleFits(t)
          /\ page[t].stage \in {"posted", "detail", "shown"}
        BY <2>1 DEF Sent, Submission
    <3> QED BY <3>1 DEF BubbleFits
  <2>6. named \subseteq Sent /\ open \subseteq Sent
    <3>1. ASSUME NEW t \in Clients, page[t].stage = "unsent"
          PROVE  t \notin named /\ t \notin open
      <4>1. page[t] = NotSent
          BY <2>1, <3>1 DEF BubbleFits
      <4>2. page[t].id = 0 /\ page[t].stage = "unsent" /\ page[t].kind = "none"
          BY <4>1 DEF NotSent
      <4> QED BY <4>2
    <3> QED BY <3>1 DEF Sent
  <2>7. IsFiniteSet(Sent) /\ IsFiniteSet(Existing)
      BY ExistingIsFinite DEF ChatInv, PageFits
  <2>8. Cardinality(Existing) <= Cardinality(Sent)
    <3>1. f \in Injection(Existing, Sent)
        BY <2>2 DEF Owners, Injection, IsInjective
    <3> QED BY <2>7, <3>1, FS_Injection
  <2> HIDE DEF named, open
  <2>9. IsFiniteSet(named) /\ IsFiniteSet(open)
      BY <2>6, <2>7, FS_Subset
  <2>10. Cardinality(named \cup open) =
             Cardinality(named) + Cardinality(open) - Cardinality(named \cap open)
      BY <2>9, FS_Union
  <2>11. IsFiniteSet(named \cup open) /\ IsFiniteSet(named \cap open)
      BY <2>9, FS_Union, FS_Intersection
  <2>12. Cardinality(Sent) <= Cardinality(named \cup open)
      BY <2>5, <2>11, FS_Subset
  <2>13. Cardinality(Existing) <= Cardinality(named) + Cardinality(open)
    <3>1. /\ Cardinality(named) \in Nat /\ Cardinality(open) \in Nat
          /\ Cardinality(named \cap open) \in Nat /\ Cardinality(named \cup open) \in Nat
          /\ Cardinality(Sent) \in Nat /\ Cardinality(Existing) \in Nat
        BY <2>7, <2>9, <2>11, FS_CardinalityType
    <3> QED BY <2>8, <2>10, <2>12, <3>1
  <2> USE DEF named, open
  <2> QED BY <2>3, <2>4, <2>13 DEF EveryWorkflowIsAccountedFor
<1> QED BY <1>1, ChatInvariant, PTL

=============================================================================
