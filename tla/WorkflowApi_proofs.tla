-------------------------- MODULE WorkflowApi_proofs ---------------------------
(***************************************************************************)
(* Safety of the workflow routes, for any number of clients, keys and      *)
(* queries, and any bounds on requests and faults.                         *)
(*                                                                         *)
(* OneWorkflowPerKey is kept by the constraint of the table alone, but     *)
(* SuccessNamesTheRequest and NumbersAreDense speak of what happens        *)
(* between two transactions of a request.  RequestsAreSound says what a    *)
(* request may still believe there: a number it has counted is free or was *)
(* taken since, never beyond the first free one; and the workflow it has   *)
(* inserted or found is the one it asked for.  Nothing of a row that these *)
(* properties read is written again (TableIsKept).  SnapshotIsBacked reads *)
(* what is written again, until the workflow has ended: SnapInv says that  *)
(* there is one writer, and what a reader has seen of an ended workflow.   *)
(***************************************************************************)
EXTENDS WorkflowApi, FiniteSetTheorems, TLAPS

(* The workflow that request t names is on record, and is the same request. *)
Names(t) ==
    /\ request[t].id \in Existing
    /\ workflows[request[t].id].key = request[t].key
    /\ workflows[request[t].id].query = request[t].query
    /\ workflows[request[t].id].dry = request[t].dry

(* What request t holds from its earlier transactions is still true. *)
Sound(t) ==
    /\ request[t].pc # "idle" => request[t].code = "none"
    /\ request[t].pc \in {"lookup", "count", "insert"} => request[t].query \in Queries
    /\ request[t].pc = "lookup" => request[t].key # NoKey
    /\ request[t].pc = "insert" =>
          request[t].id \in Numbers \cap (1 .. Cardinality(Existing) + 1)
    /\ request[t].pc = "detail" => request[t].id \in Numbers /\ request[t].todo # <<>>
    /\ request[t].pc \in {"run", "respond"} => Names(t)
    /\ (request[t].pc = "detail" \/ request[t].code \in {"200", "201"})
          /\ request[t].key # NoKey => Names(t)

RequestsAreSound == \A t \in Clients : Sound(t)

ApiInv ==
    /\ ApiTypeOK
    /\ NumbersAreDense
    /\ OneWorkflowPerKey
    /\ RequestsAreSound

-----------------------------------------------------------------------------
(* The rows that exist are a finite set, and their count is a natural number. *)
LEMMA ExistingIsFinite == IsFiniteSet(Existing) /\ Cardinality(Existing) \in Nat
<1>1. IsFiniteSet(Numbers)
    BY ApiConstants, FS_Interval DEF Numbers
<1>2. Existing \subseteq Numbers
    BY DEF Existing
<1> QED BY <1>1, <1>2, FS_Subset, FS_CardinalityType

(* The same after a step: there is still a row for a number only up to MaxWorkflows. *)
LEMMA ExistingIsFinitePrimed == IsFiniteSet(Existing') /\ Cardinality(Existing') \in Nat
<1>1. IsFiniteSet(Numbers)
    BY ApiConstants, FS_Interval DEF Numbers
<1>2. Existing' \subseteq Numbers
    BY DEF Existing
<1> QED BY <1>1, <1>2, FS_Subset, FS_CardinalityType

(* A row is not the missing row, and what the graph writes leaves it one. *)
LEMMA RowUpdates ==
    ASSUME NEW w \in Workflow, NEW part \in Parts, NEW s \in TerminalStatus
    PROVE  /\ w # NoWorkflow
           /\ [w EXCEPT !.stored = @ \cup {part}] \in Workflow
           /\ [w EXCEPT !.status = s] \in Workflow
BY DEF Workflow, NoWorkflow, TerminalStatus, FailedStatus

(* What a step can do to the table: nothing, put a new row of a request    *)
(* under a number that was free, or have the graph write to a row.         *)
TableStep ==
    \/ workflows' = workflows
    \/ \E t \in Clients :
          /\ request[t].pc = "insert"
          /\ ~Conflict(t)
          /\ workflows' = [workflows EXCEPT ![request[t].id] = Row(t)]
    \/ \E t \in Clients :
          /\ request[t].pc = "run"
          /\ \/ \E part \in Parts :
                   workflows' = [workflows EXCEPT ![request[t].id].stored = @ \cup {part}]
             \/ \E s \in TerminalStatus :
                   workflows' = [workflows EXCEPT ![request[t].id].status = s]

(* Every step of the routes is one of these on the table. *)
LEMMA NextIsTableStep == [Next]_vars => TableStep
<1> SUFFICES ASSUME [Next]_vars
             PROVE  TableStep
    OBVIOUS
<1>1. ASSUME NEW t \in Clients, NEW k \in Keys \cup {NoKey}, NEW q \in Queries,
             NEW d \in BOOLEAN, Post(t, k, q, d)
      PROVE  TableStep
    BY <1>1 DEF Post, TableStep
<1>2. ASSUME NEW t \in Clients, NEW n \in Numbers, Get(t, n)
      PROVE  TableStep
    BY <1>2 DEF Get, TableStep
<1>3. ASSUME NEW t \in Clients, RouteStep(t)
      PROVE  TableStep
  <2>1. CASE Lookup(t)
      BY <2>1 DEF Lookup, TableStep
  <2>2. CASE Count(t)
      BY <2>2 DEF Count, TableStep
  <2>3. CASE Insert(t)
      BY <2>3 DEF Insert, TableStep
  <2>4. ASSUME NEW part \in Parts, StorePart(t, part)
        PROVE  TableStep
      BY <2>4 DEF StorePart, Running, TableStep
  <2>5. CASE GraphEnds(t)
      BY <2>5 DEF GraphEnds, Running, Endings, TableStep
  <2>6. CASE Respond(t)
      BY <2>6 DEF Respond, TableStep
  <2>7. CASE ReadDetail(t)
      BY <2>7 DEF ReadDetail, TableStep
  <2> QED BY <1>3, <2>1, <2>2, <2>3, <2>4, <2>5, <2>6, <2>7 DEF RouteStep
<1>4. ASSUME NEW t \in Clients, Abandon(t)
      PROVE  TableStep
    BY <1>4 DEF Abandon, TableStep
<1>5. CASE Restart
    BY <1>5 DEF Restart, TableStep
<1>6. CASE UNCHANGED vars
    BY <1>6 DEF vars, TableStep
<1> QED BY <1>1, <1>2, <1>3, <1>4, <1>5, <1>6 DEF Next

(* What a step of the table keeps: its type, the rows that exist with what *)
(* the routes wrote to them, and its two properties.                       *)
LEMMA TableIsKept ==
    ASSUME ApiInv, TableStep
    PROVE  /\ workflows' \in [Numbers -> Workflow \cup {NoWorkflow}]
           /\ \A n \in Existing :
                 /\ n \in Existing'
                 /\ workflows'[n].key = workflows[n].key
                 /\ workflows'[n].query = workflows[n].query
                 /\ workflows'[n].dry = workflows[n].dry
           /\ Cardinality(Existing') >= Cardinality(Existing)
           /\ NumbersAreDense'
           /\ OneWorkflowPerKey'
<1> USE DEF ApiInv, ApiTypeOK
<1>1. CASE workflows' = workflows
  <2>1. Existing' = Existing
      BY <1>1 DEF Existing, Exists
  <2> QED BY <1>1, <2>1, ExistingIsFinite DEF NumbersAreDense, OneWorkflowPerKey
<1>2. ASSUME NEW t \in Clients, request[t].pc = "insert", ~Conflict(t),
             workflows' = [workflows EXCEPT ![request[t].id] = Row(t)]
      PROVE  /\ workflows' \in [Numbers -> Workflow \cup {NoWorkflow}]
             /\ \A n \in Existing :
                   /\ n \in Existing'
                   /\ workflows'[n].key = workflows[n].key
                   /\ workflows'[n].query = workflows[n].query
                   /\ workflows'[n].dry = workflows[n].dry
             /\ Cardinality(Existing') >= Cardinality(Existing)
             /\ NumbersAreDense'
             /\ OneWorkflowPerKey'
  <2> DEFINE id == request[t].id
             count == Cardinality(Existing)
  <2>1. Row(t) \in Workflow /\ Row(t) # NoWorkflow
      BY <1>2 DEF Row, Workflow, NoWorkflow, Request, RequestsAreSound, Sound
  <2>2. id \in Numbers /\ id \in 1 .. count + 1 /\ id \notin Existing
      BY <1>2 DEF RequestsAreSound, Sound, Conflict, Existing
  <2>3. id = count + 1
      BY <2>2, ExistingIsFinite DEF NumbersAreDense
  <2>4. Existing' = Existing \cup {id}
      BY <1>2, <2>1, <2>2 DEF Existing, Exists
  <2>5. Cardinality(Existing') = count + 1
      BY <2>2, <2>4, ExistingIsFinite, FS_AddElement
  <2>6. NumbersAreDense'
    <3>1. Existing' = 1 .. count + 1
        BY <2>3, <2>4, ExistingIsFinite DEF NumbersAreDense
    <3> QED BY <2>5, <3>1 DEF NumbersAreDense
  <2>7. OneWorkflowPerKey'
    <3>1. workflows'[id].key = request[t].key
        BY <1>2, <2>2 DEF Row
    <3>2. \A n \in Existing : workflows'[n] = workflows[n]
        BY <1>2, <2>2 DEF Existing
    <3>3. \A n \in Existing : workflows[n].key = request[t].key => request[t].key = NoKey
        BY <1>2 DEF Conflict
    <3> QED BY <2>4, <3>1, <3>2, <3>3 DEF OneWorkflowPerKey
  <2> QED BY <1>2, <2>1, <2>2, <2>4, <2>5, <2>6, <2>7, ExistingIsFinite DEF Existing
<1>3. ASSUME NEW n \in Existing, NEW w \in Workflow,
             workflows' = [workflows EXCEPT ![n] = w],
             w.key = workflows[n].key, w.query = workflows[n].query, w.dry = workflows[n].dry
      PROVE  /\ workflows' \in [Numbers -> Workflow \cup {NoWorkflow}]
             /\ \A m \in Existing :
                   /\ m \in Existing'
                   /\ workflows'[m].key = workflows[m].key
                   /\ workflows'[m].query = workflows[m].query
                   /\ workflows'[m].dry = workflows[m].dry
             /\ Cardinality(Existing') >= Cardinality(Existing)
             /\ NumbersAreDense'
             /\ OneWorkflowPerKey'
  <2>1. w # NoWorkflow
      BY RowUpdates DEF Parts, TerminalStatus
  <2>2. n \in Numbers /\ workflows[n] # NoWorkflow
      BY DEF Existing, Exists
  <2>3. Existing' = Existing
      BY <1>3, <2>1, <2>2 DEF Existing, Exists
  <2>4. \A m \in Existing : /\ workflows'[m].key = workflows[m].key
                            /\ workflows'[m].query = workflows[m].query
                            /\ workflows'[m].dry = workflows[m].dry
      BY <1>3 DEF Existing
  <2>5. workflows' \in [Numbers -> Workflow \cup {NoWorkflow}]
      BY <1>3
  <2>6. Cardinality(Existing') = Cardinality(Existing) /\ NumbersAreDense'
      BY <2>3 DEF NumbersAreDense
  <2>7. OneWorkflowPerKey'
      BY <2>3, <2>4 DEF OneWorkflowPerKey
  <2> QED BY <2>3, <2>4, <2>5, <2>6, <2>7, ExistingIsFinite
<1>4. ASSUME NEW t \in Clients, request[t].pc = "run", NEW part \in Parts, NEW s \in TerminalStatus,
             \/ workflows' = [workflows EXCEPT ![request[t].id].stored = @ \cup {part}]
             \/ workflows' = [workflows EXCEPT ![request[t].id].status = s]
      PROVE  \E n \in Existing, w \in Workflow :
                /\ workflows' = [workflows EXCEPT ![n] = w]
                /\ w.key = workflows[n].key
                /\ w.query = workflows[n].query
                /\ w.dry = workflows[n].dry
  <2> DEFINE n == request[t].id
             old == workflows[n]
             stored == [old EXCEPT !.stored = @ \cup {part}]
             ended == [old EXCEPT !.status = s]
  <2>1. n \in Existing
      BY <1>4 DEF RequestsAreSound, Sound, Names
  <2>2. old \in Workflow
      BY <2>1 DEF Existing, Exists
  <2>3. /\ stored \in Workflow /\ ended \in Workflow
        /\ stored.key = old.key /\ stored.query = old.query /\ stored.dry = old.dry
        /\ ended.key = old.key /\ ended.query = old.query /\ ended.dry = old.dry
      BY <2>2, RowUpdates DEF Workflow
  <2>4. workflows' = [workflows EXCEPT ![n] = stored] \/ workflows' = [workflows EXCEPT ![n] = ended]
      BY <1>4
  <2> HIDE DEF n, stored, ended
  <2> QED BY <2>1, <2>3, <2>4
<1>5. "report" \in Parts /\ "completed" \in TerminalStatus
    BY DEF Parts, TerminalStatus
<1> QED BY <1>1, <1>2, <1>3, <1>4, <1>5 DEF TableStep

-----------------------------------------------------------------------------
(* A row that a request names stays the one it names. *)
LEMMA NamesAreKept ==
    ASSUME ApiInv, TableStep, NEW t \in Clients, Names(t),
           request'[t].id = request[t].id, request'[t].key = request[t].key,
           request'[t].query = request[t].query, request'[t].dry = request[t].dry
    PROVE  Names(t)'
BY TableIsKept DEF Names

(* A request that a step leaves alone stays sound, whatever the step does  *)
(* to the table.                                                           *)
LEMMA SoundIsKept ==
    ASSUME ApiInv, TableStep, NEW t \in Clients, request'[t] = request[t]
    PROVE  Sound(t)'
<1>1. Sound(t)
    BY DEF ApiInv, RequestsAreSound
<1>2. Names(t) => Names(t)'
    BY NamesAreKept
<1>3. request[t].pc = "insert" =>
          request[t].id \in Numbers \cap (1 .. Cardinality(Existing)' + 1)
  <2>1. /\ Cardinality(Existing') >= Cardinality(Existing)
        /\ Cardinality(Existing) \in Nat
        /\ Cardinality(Existing') \in Nat
      BY TableIsKept, ExistingIsFinite, ExistingIsFinitePrimed
  <2> QED BY <1>1, <2>1 DEF Sound
<1> QED BY <1>1, <1>2, <1>3 DEF Sound

(* So a step of client t has only its own request to show. *)
LEMMA StepOfOneRequest ==
    ASSUME ApiInv, TableStep, NEW t \in Clients, NEW r \in Request,
           request' = [request EXCEPT ![t] = r],
           Sound(t)',
           requests' \in 0 .. MaxRequests, faults' \in 0 .. MaxFaults
    PROVE  ApiInv'
<1>1. ApiTypeOK' /\ NumbersAreDense' /\ OneWorkflowPerKey'
    BY TableIsKept DEF ApiInv, ApiTypeOK
<1>2. ASSUME NEW u \in Clients
      PROVE  Sound(u)'
  <2>1. CASE u = t
      BY <2>1
  <2>2. CASE u # t
      BY <2>2, SoundIsKept DEF ApiInv, ApiTypeOK
  <2> QED BY <2>1, <2>2
<1> QED BY <1>1, <1>2 DEF ApiInv, RequestsAreSound

LEMMA ApiInvInit == Init => ApiInv
<1> SUFFICES ASSUME Init
             PROVE  ApiInv
    OBVIOUS
<1> USE DEF Init
<1>1. NoRequest \in Request
    BY DEF NoRequest, Request, Todo
<1>2. ApiTypeOK
    BY <1>1, ApiConstants DEF ApiTypeOK
<1>3. Existing = {}
    BY DEF Existing, Exists
<1>4. NumbersAreDense
    BY <1>3, FS_EmptySet DEF NumbersAreDense
<1>5. OneWorkflowPerKey
    BY <1>3 DEF OneWorkflowPerKey
<1>6. RequestsAreSound
    BY DEF RequestsAreSound, Sound, NoRequest
<1> QED BY <1>2, <1>4, <1>5, <1>6 DEF ApiInv

LEMMA ApiInvStep == ApiInv /\ [Next]_vars => ApiInv'
<1> SUFFICES ASSUME ApiInv, [Next]_vars
             PROVE  ApiInv'
    OBVIOUS
<1>0. TableStep
    BY NextIsTableStep
<1>1. ASSUME NEW t \in Clients, NEW k \in Keys \cup {NoKey}, NEW q \in Queries,
             NEW d \in BOOLEAN, Post(t, k, q, d)
      PROVE  ApiInv'
  <2> DEFINE r == [NoRequest EXCEPT !.pc = IF LookedUp(k) THEN "lookup" ELSE "count",
                                    !.key = k, !.query = q, !.dry = d]
  <2>1. r \in Request
      BY DEF NoRequest, Request, Todo
  <2>2. request' = [request EXCEPT ![t] = r] /\ requests' = requests + 1
        /\ requests < MaxRequests /\ faults' = faults
      BY <1>1 DEF Post
  <2>3. r.pc \in {"lookup", "count"} /\ (r.pc = "lookup" => r.key # NoKey)
        /\ r.query \in Queries /\ r.code = "none"
      BY DEF NoRequest, LookedUp
  <2> HIDE DEF r
  <2>4. Sound(t)'
      BY <2>2, <2>3 DEF Sound, ApiInv, ApiTypeOK
  <2>5. requests' \in 0 .. MaxRequests /\ faults' \in 0 .. MaxFaults
      BY <2>2, ApiConstants DEF ApiInv, ApiTypeOK
  <2> QED BY <1>0, <2>1, <2>2, <2>4, <2>5, StepOfOneRequest
<1>2. ASSUME NEW t \in Clients, NEW n \in Numbers, Get(t, n)
      PROVE  ApiInv'
  <2> DEFINE r == [NoRequest EXCEPT !.pc = "detail", !.id = n, !.todo = DetailOrder]
  <2>1. r \in Request
      BY DEF NoRequest, Request, Todo, DetailOrder
  <2>2. request' = [request EXCEPT ![t] = r] /\ requests' = requests + 1
        /\ requests < MaxRequests /\ faults' = faults
      BY <1>2 DEF Get
  <2>3. r.pc = "detail" /\ r.key = NoKey /\ r.id \in Numbers /\ r.todo # <<>> /\ r.code = "none"
      BY DEF NoRequest, Todo, DetailOrder
  <2> HIDE DEF r
  <2>4. Sound(t)'
      BY <2>2, <2>3 DEF Sound, ApiInv, ApiTypeOK
  <2>5. requests' \in 0 .. MaxRequests /\ faults' \in 0 .. MaxFaults
      BY <2>2, ApiConstants DEF ApiInv, ApiTypeOK
  <2> QED BY <1>0, <2>1, <2>2, <2>4, <2>5, StepOfOneRequest
<1>3. ASSUME NEW t \in Clients, RouteStep(t)
      PROVE  ApiInv'
  <2> DEFINE old == request[t]
  <2>0. /\ old \in Request /\ Sound(t)
        /\ requests' \in 0 .. MaxRequests /\ faults' \in 0 .. MaxFaults
      BY <1>3 DEF ApiInv, ApiTypeOK, RequestsAreSound, RouteStep, Lookup, Count, Insert,
                  StorePart, GraphEnds, Respond, ReadDetail
  <2>1. ASSUME NEW r \in Request, request' = [request EXCEPT ![t] = r], Sound(t)'
        PROVE  ApiInv'
      BY <1>0, <2>0, <2>1, StepOfOneRequest
  <2>2. ASSUME request'[t].id = old.id, request'[t].key = old.key,
               request'[t].query = old.query, request'[t].dry = old.dry, Names(t)
        PROVE  Names(t)'
      BY <1>0, <2>2, NamesAreKept
  <2>3. CASE Lookup(t)
    <3>1. old.pc = "lookup" /\ old.key # NoKey /\ old.query \in Queries /\ old.code = "none"
          /\ workflows' = workflows
        BY <2>0, <2>3 DEF Lookup, Sound
    <3>2. CASE request' = [request EXCEPT ![t].pc = "count"]
      <4> DEFINE r == [old EXCEPT !.pc = "count"]
      <4>1. r \in Request /\ request' = [request EXCEPT ![t] = r]
          BY <2>0, <3>2 DEF Request
      <4>2. request'[t].pc = "count" /\ request'[t].query = old.query /\ request'[t].code = old.code
          BY <2>0, <3>2 DEF ApiInv, ApiTypeOK, Request
      <4> QED BY <2>1, <3>1, <4>1, <4>2 DEF Sound
    <3>3. ASSUME NEW n \in Numbers, workflows[n].key = old.key, SameRequest(n, t),
                 request' = [request EXCEPT ![t].pc = "detail", ![t].id = n,
                                            ![t].todo = DetailOrder]
          PROVE  ApiInv'
      <4> DEFINE r == [old EXCEPT !.pc = "detail", !.id = n, !.todo = DetailOrder]
      <4>1. r \in Request /\ request' = [request EXCEPT ![t] = r]
          BY <2>0, <3>3 DEF Request, Todo, DetailOrder
      <4>2. /\ request'[t].pc = "detail" /\ request'[t].id = n /\ request'[t].todo = DetailOrder
            /\ request'[t].key = old.key /\ request'[t].query = old.query
            /\ request'[t].dry = old.dry /\ request'[t].code = old.code
          BY <2>0, <3>3 DEF ApiInv, ApiTypeOK, Request
      <4>3. Names(t)'
          BY <3>1, <3>3, <4>2 DEF Names, SameRequest, Existing, Exists, NoWorkflow
      <4>4. DetailOrder # <<>>
          BY DEF DetailOrder
      <4> QED BY <2>1, <3>1, <4>1, <4>2, <4>3, <4>4 DEF Sound
    <3>4. ASSUME NEW n \in Numbers,
                 request' = [request EXCEPT ![t].pc = "idle", ![t].id = n, ![t].code = "409"]
          PROVE  ApiInv'
      <4> DEFINE r == [old EXCEPT !.pc = "idle", !.id = n, !.code = "409"]
      <4>1. r \in Request /\ request' = [request EXCEPT ![t] = r]
          BY <2>0, <3>4 DEF Request
      <4>2. request'[t].pc = "idle" /\ request'[t].code = "409"
          BY <2>0, <3>4 DEF ApiInv, ApiTypeOK, Request
      <4> QED BY <2>1, <4>1, <4>2 DEF Sound
    <3>5. \/ request' = [request EXCEPT ![t].pc = "count"]
          \/ \E n \in Numbers :
                /\ workflows[n].key = old.key
                /\ SameRequest(n, t)
                /\ request' = [request EXCEPT ![t].pc = "detail", ![t].id = n,
                                              ![t].todo = DetailOrder]
          \/ \E n \in Numbers :
                request' = [request EXCEPT ![t].pc = "idle", ![t].id = n, ![t].code = "409"]
        BY <2>3 DEF Lookup, Goto
    <3> HIDE DEF old
    <3> QED BY <3>2, <3>3, <3>4, <3>5
  <2>4. CASE Count(t)
    <3> DEFINE r == [old EXCEPT !.pc = "insert", !.id = Cardinality(Existing) + 1]
    <3>1. old.pc = "count" /\ old.query \in Queries /\ old.code = "none"
          /\ workflows' = workflows /\ Cardinality(Existing) < MaxWorkflows
        BY <2>0, <2>4 DEF Count, Sound
    <3>2. Cardinality(Existing) + 1 \in Numbers \cap (1 .. Cardinality(Existing) + 1)
        BY <3>1, ExistingIsFinite, ApiConstants DEF Numbers
    <3>3. r \in Request /\ request' = [request EXCEPT ![t] = r]
        BY <2>0, <2>4, <3>2 DEF Count, Request
    <3>4. /\ request'[t].pc = "insert" /\ request'[t].id = Cardinality(Existing) + 1
          /\ request'[t].query = old.query /\ request'[t].code = old.code
        BY <2>0, <3>3 DEF ApiInv, ApiTypeOK, Request
    <3>5. Existing' = Existing
        BY <3>1 DEF Existing, Exists
    <3> QED BY <2>1, <3>1, <3>2, <3>3, <3>4, <3>5 DEF Sound
  <2>5. CASE Insert(t)
    <3>1. old.pc = "insert" /\ old.id \in Numbers /\ old.code = "none" /\ old.query \in Queries
        BY <2>0, <2>5 DEF Insert, Sound
    <3>2. CASE Conflict(t)
      <4> DEFINE r == [old EXCEPT !.pc = "idle", !.code = "500"]
      <4>1. r \in Request /\ request' = [request EXCEPT ![t] = r]
          BY <2>0, <2>5, <3>2 DEF Insert, Answer, Request
      <4>2. request'[t].pc = "idle" /\ request'[t].code = "500"
          BY <2>0, <4>1 DEF ApiInv, ApiTypeOK, Request
      <4> QED BY <2>1, <4>1, <4>2 DEF Sound
    <3>3. CASE ~Conflict(t)
      <4> DEFINE r == [old EXCEPT !.pc = "run"]
      <4>1. r \in Request /\ request' = [request EXCEPT ![t] = r]
          BY <2>0, <2>5, <3>3 DEF Insert, Goto, Request
      <4>2. /\ request'[t].pc = "run" /\ request'[t].code = "none" /\ request'[t].id = old.id
            /\ request'[t].key = old.key /\ request'[t].query = old.query
            /\ request'[t].dry = old.dry
          BY <2>0, <3>1, <4>1 DEF ApiInv, ApiTypeOK, Request
      <4>3. workflows'[old.id] = Row(t)
          BY <2>5, <3>1, <3>3 DEF Insert, ApiInv, ApiTypeOK
      <4>4. Names(t)'
          BY <3>1, <4>2, <4>3 DEF Names, Row, Existing, Exists, NoWorkflow
      <4> QED BY <2>1, <4>1, <4>2, <4>4 DEF Sound
    <3> QED BY <3>2, <3>3
  <2>6. ASSUME NEW part \in Parts, StorePart(t, part)
        PROVE  ApiInv'
    <3>1. request' = [request EXCEPT ![t] = old] /\ request'[t] = request[t]
        BY <2>6 DEF StorePart, ApiInv, ApiTypeOK
    <3> QED BY <1>0, <2>0, <2>1, <3>1, SoundIsKept
  <2>7. CASE GraphEnds(t)
    <3>1. PICK s \in TerminalStatus :
              request' = [request EXCEPT ![t].pc = "respond", ![t].status = s, ![t].got = Stored(t)]
        BY <2>7 DEF GraphEnds, Endings
    <3>2. old.pc = "run" /\ old.code = "none" /\ Names(t)
        BY <2>0, <2>7 DEF GraphEnds, Running, Sound
    <3>3. Stored(t) \in SUBSET Parts
        BY <3>2 DEF Stored, Names, Existing, Exists, ApiInv, ApiTypeOK, Workflow
    <3> DEFINE r == [old EXCEPT !.pc = "respond", !.status = s, !.got = Stored(t)]
    <3>4. r \in Request /\ request' = [request EXCEPT ![t] = r]
        BY <2>0, <3>1, <3>3 DEF Request
    <3>5. /\ request'[t].pc = "respond" /\ request'[t].code = "none" /\ request'[t].id = old.id
          /\ request'[t].key = old.key /\ request'[t].query = old.query
          /\ request'[t].dry = old.dry
        BY <2>0, <3>2, <3>4 DEF ApiInv, ApiTypeOK, Request
    <3> QED BY <2>1, <2>2, <3>2, <3>4, <3>5 DEF Sound
  <2>8. CASE Respond(t)
    <3> DEFINE r == [old EXCEPT !.pc = "idle", !.code = CodeFor(old.status)]
    <3>1. r \in Request /\ request' = [request EXCEPT ![t] = r]
        BY <2>0, <2>8 DEF Respond, Answer, CodeFor, Request
    <3>2. old.pc = "respond" /\ Names(t)
        BY <2>0, <2>8 DEF Respond, Sound
    <3>3. /\ request'[t].pc = "idle" /\ request'[t].id = old.id
          /\ request'[t].key = old.key /\ request'[t].query = old.query
          /\ request'[t].dry = old.dry
        BY <2>0, <3>1 DEF ApiInv, ApiTypeOK, Request
    <3> QED BY <2>1, <2>2, <3>1, <3>2, <3>3 DEF Sound
  <2>9. CASE ReadDetail(t)
    <3> DEFINE part == Head(old.todo)
               rest == Tail(old.todo)
               pc   == IF rest = <<>> THEN "idle" ELSE "detail"
               code == IF rest = <<>> THEN "200" ELSE "none"
               got  == old.got \cup ({part} \cap workflows[old.id].stored)
               status == workflows[old.id].status
    <3>1. old.pc = "detail" /\ old.id \in Numbers /\ old.todo # <<>> /\ workflows' = workflows
          /\ (old.key # NoKey => Names(t))
        BY <2>0, <2>9 DEF ReadDetail, Sound
    <3>2. /\ rest \in Todo
          /\ part \in {"row", "execution", "report"}
      <4>1. CASE old.todo = <<"report">>
          BY <4>1 DEF Todo
      <4>2. CASE old.todo = <<"execution", "report">>
          BY <4>2 DEF Todo
      <4>3. CASE old.todo = <<"row", "execution", "report">>
          BY <4>3 DEF Todo
      <4> QED BY <2>0, <3>1, <4>1, <4>2, <4>3 DEF Request, Todo
    <3>3. /\ pc \in {"idle", "detail"} /\ code \in {"none", "200"}
          /\ (pc = "detail" => code = "none" /\ rest # <<>>)
        OBVIOUS
    <3>4. \/ request' = [request EXCEPT ![t].pc = "idle", ![t].code = "404"]
          \/ /\ part = "row" /\ Exists(old.id)
             /\ request' = [request EXCEPT ![t].todo = rest, ![t].pc = pc, ![t].code = code,
                                           ![t].status = status]
          \/ /\ part # "row"
             /\ request' = [request EXCEPT ![t].todo = rest, ![t].pc = pc, ![t].code = code,
                                           ![t].got = got]
        BY <2>9 DEF ReadDetail
    <3> HIDE DEF rest, pc, code
    <3>5. CASE request' = [request EXCEPT ![t].pc = "idle", ![t].code = "404"]
      <4> DEFINE r == [old EXCEPT !.pc = "idle", !.code = "404"]
      <4>1. r \in Request /\ request' = [request EXCEPT ![t] = r]
          BY <2>0, <3>5 DEF Request
      <4>2. request'[t].pc = "idle" /\ request'[t].code = "404"
          BY <2>0, <4>1 DEF ApiInv, ApiTypeOK, Request
      <4> QED BY <2>1, <4>1, <4>2 DEF Sound
    <3>6. ASSUME NEW r \in Request, request' = [request EXCEPT ![t] = r],
                 r.pc = pc, r.code = code, r.todo = rest, r.id = old.id,
                 r.key = old.key, r.query = old.query, r.dry = old.dry
          PROVE  ApiInv'
      <4>1. request'[t] = r
          BY <3>6 DEF ApiInv, ApiTypeOK
      <4> QED BY <2>1, <2>2, <3>1, <3>3, <3>6, <4>1 DEF Sound
    <3>7. CASE part = "row" /\ Exists(old.id)
               /\ request' = [request EXCEPT ![t].todo = rest, ![t].pc = pc, ![t].code = code,
                                             ![t].status = status]
      <4> DEFINE r == [old EXCEPT !.todo = rest, !.pc = pc, !.code = code, !.status = status]
      <4>1. status \in TerminalStatus \cup {"none", "active"}
          BY <3>1, <3>7 DEF Exists, ApiInv, ApiTypeOK, Workflow
      <4> HIDE DEF status
      <4>2. r \in Request
          BY <2>0, <3>2, <3>3, <4>1 DEF Request
      <4>3. request' = [request EXCEPT ![t] = r]
          BY <3>7
      <4>4. /\ r.pc = pc /\ r.code = code /\ r.todo = rest /\ r.id = old.id
            /\ r.key = old.key /\ r.query = old.query /\ r.dry = old.dry
          BY <2>0 DEF Request
      <4> HIDE DEF r
      <4> QED BY <3>6, <4>2, <4>3, <4>4
    <3>8. CASE part # "row"
               /\ request' = [request EXCEPT ![t].todo = rest, ![t].pc = pc, ![t].code = code,
                                             ![t].got = got]
      <4> DEFINE r == [old EXCEPT !.todo = rest, !.pc = pc, !.code = code, !.got = got]
      <4>1. got \in SUBSET Parts
          BY <2>0, <3>2, <3>8 DEF Request, Parts
      <4> HIDE DEF got
      <4>2. r \in Request /\ request' = [request EXCEPT ![t] = r]
          BY <2>0, <3>2, <3>3, <3>8, <4>1 DEF Request
      <4>3. /\ r.pc = pc /\ r.code = code /\ r.todo = rest /\ r.id = old.id
            /\ r.key = old.key /\ r.query = old.query /\ r.dry = old.dry
          BY <2>0 DEF Request
      <4> HIDE DEF r
      <4> QED BY <3>6, <4>2, <4>3
    <3> QED BY <3>4, <3>5, <3>7, <3>8
  <2> QED BY <1>3, <2>3, <2>4, <2>5, <2>6, <2>7, <2>8, <2>9 DEF RouteStep
<1>4. ASSUME NEW t \in Clients, Abandon(t)
      PROVE  ApiInv'
  <2> DEFINE r == [request[t] EXCEPT !.pc = "idle", !.code = "500"]
  <2>1. request[t] \in Request
      BY DEF ApiInv, ApiTypeOK
  <2>2. r \in Request /\ request' = [request EXCEPT ![t] = r]
      BY <1>4, <2>1 DEF Abandon, Answer, Request
  <2>3. request'[t].pc = "idle" /\ request'[t].code = "500"
      BY <2>1, <2>2 DEF ApiInv, ApiTypeOK, Request
  <2>4. requests' \in 0 .. MaxRequests /\ faults' \in 0 .. MaxFaults
      BY <1>4, ApiConstants DEF Abandon, ApiInv, ApiTypeOK
  <2>5. Sound(t)'
      BY <2>3 DEF Sound
  <2> HIDE DEF r
  <2> QED BY <1>0, <2>2, <2>4, <2>5, StepOfOneRequest
<1>5. CASE Restart
  <2> DEFINE lost == [NoRequest EXCEPT !.code = "lost"]
  <2>1. lost \in Request /\ lost.pc = "idle" /\ lost.code = "lost"
      BY DEF NoRequest, Request, Todo
  <2>2. request' = [t \in Clients |-> IF request[t].pc = "idle" THEN request[t] ELSE lost]
      BY <1>5 DEF Restart
  <2> HIDE DEF lost
  <2>3. ApiTypeOK'
      BY <1>5, <2>1, <2>2, ApiConstants DEF Restart, ApiInv, ApiTypeOK
  <2>4. ASSUME NEW t \in Clients
        PROVE  Sound(t)'
    <3>1. CASE request[t].pc = "idle"
        BY <1>0, <2>2, <3>1, SoundIsKept
    <3>2. CASE request[t].pc # "idle"
        BY <2>1, <2>2, <3>2 DEF Sound
    <3> QED BY <3>1, <3>2
  <2> QED BY <1>0, <2>3, <2>4, TableIsKept DEF ApiInv, RequestsAreSound
<1>6. CASE UNCHANGED vars
  <2>1. ApiTypeOK' /\ NumbersAreDense' /\ OneWorkflowPerKey'
      BY <1>0, <1>6, TableIsKept DEF vars, ApiInv, ApiTypeOK
  <2>2. \A t \in Clients : Sound(t)'
      BY <1>0, <1>6, SoundIsKept DEF vars
  <2> QED BY <2>1, <2>2 DEF ApiInv, RequestsAreSound
<1> QED BY <1>1, <1>2, <1>3, <1>4, <1>5, <1>6 DEF Next

-----------------------------------------------------------------------------
THEOREM ApiInvariant == Spec => []ApiInv
<1>1. Init => ApiInv
    BY ApiInvInit
<1>2. ApiInv /\ [Next]_vars => ApiInv'
    BY ApiInvStep
<1> QED BY <1>1, <1>2, PTL DEF Spec

(* The variables of the routes keep their types. *)
THEOREM ApiTypes == Spec => []ApiTypeOK
<1>1. ApiInv => ApiTypeOK
    BY DEF ApiInv
<1> QED BY <1>1, ApiInvariant, PTL

(* Whatever requests race between the count and the insert, and whichever  *)
(* of them fail, the numbers of the workflows have no gap, so the next     *)
(* number that _next_workflow_id counts is free when it counts it.         *)
THEOREM NumbersAreDenseTheorem == Spec => []NumbersAreDense
<1>1. ApiInv => NumbersAreDense
    BY DEF ApiInv
<1> QED BY <1>1, ApiInvariant, PTL

(* One Idempotency-Key never stands for two workflows.                     *)
THEOREM OneWorkflowPerKeyTheorem == Spec => []OneWorkflowPerKey
<1>1. ApiInv => OneWorkflowPerKey
    BY DEF ApiInv
<1> QED BY <1>1, ApiInvariant, PTL

(* A client that is answered 200 or 201 under its key is answered with a   *)
(* workflow that was started for this key and this very request.           *)
THEOREM SuccessNamesTheRequestTheorem == Spec => []SuccessNamesTheRequest
<1>1. ApiInv => SuccessNamesTheRequest
    BY DEF ApiInv, RequestsAreSound, Sound, Names, SuccessNamesTheRequest
<1> QED BY <1>1, ApiInvariant, PTL

-----------------------------------------------------------------------------
(* Snapshots.  A workflow is written by one thread only, from the insertion *)
(* of its row to its terminal status; what its row says it has stored fits  *)
(* its status at every moment; and a request that has read a terminal       *)
(* status reads parts that nobody writes any more.                          *)

RunnersAreAlone ==
    \A t \in Clients :
        request[t].pc = "run" =>
            /\ workflows[request[t].id].status = "active"
            /\ \A u \in Clients \ {t} : request[u].pc = "run" => request[u].id # request[t].id

Backed(w) ==
    /\ w.stored \in {{}, {"execution"}, Parts}
    /\ w.dry => w.stored = {}
    /\ w.status = "completed" => w.stored = Parts
    /\ w.status = "execution_failed" => w.stored # Parts
    /\ w.status \in TerminalStatus \ {"completed", "execution_failed"} => w.stored = {}

RowsAreBacked == \A n \in Existing : Backed(workflows[n])

(* The parts that request t has read, if it has read the status before. *)
ReadSoFar(t, parts) ==
    /\ request[t].id \in Existing
    /\ request[t].status \in TerminalStatus =>
          /\ workflows[request[t].id].status = request[t].status
          /\ request[t].got = workflows[request[t].id].stored \cap parts

ReadIsSound(t) ==
    /\ request[t].pc \in {"lookup", "count", "insert"} => request[t].got = {}
    /\ request[t].pc = "detail" =>
          \/ request[t].todo = <<"row", "execution", "report">> /\ request[t].got = {}
          \/ request[t].todo = <<"execution", "report">> /\ request[t].got = {} /\ ReadSoFar(t, {})
          \/ request[t].todo = <<"report">> /\ ReadSoFar(t, {"execution"})
    /\ request[t].code = "200" => ReadSoFar(t, Parts)

SnapInv ==
    /\ ApiInv
    /\ RunnersAreAlone
    /\ RowsAreBacked
    /\ \A t \in Clients : ReadIsSound(t)

(* Nobody writes to a workflow that has ended. *)
LEMMA EndedRowsAreKept ==
    ASSUME ApiInv, RunnersAreAlone, TableStep, NEW n \in Existing,
           workflows[n].status \in TerminalStatus
    PROVE  n \in Existing' /\ workflows'[n] = workflows[n]
<1>1. n \in Existing' /\ n \in Numbers
    BY TableIsKept DEF Existing
<1>2. "active" \notin TerminalStatus
    BY DEF TerminalStatus, FailedStatus
<1>3. ASSUME NEW t \in Clients, request[t].pc = "insert", ~Conflict(t)
      PROVE  request[t].id # n
    BY <1>3 DEF Conflict, Existing
<1>4. ASSUME NEW t \in Clients, request[t].pc = "run"
      PROVE  request[t].id # n
    BY <1>2, <1>4 DEF RunnersAreAlone
<1> QED BY <1>1, <1>3, <1>4 DEF TableStep, ApiInv, ApiTypeOK

(* So what a request has read of one stays true while others move. *)
LEMMA ReadIsKept ==
    ASSUME SnapInv, TableStep, NEW t \in Clients, request'[t] = request[t]
    PROVE  ReadIsSound(t)'
<1>1. ASSUME NEW parts, ReadSoFar(t, parts)
      PROVE  ReadSoFar(t, parts)'
  <2>1. request[t].id \in Existing'
      BY <1>1, TableIsKept DEF SnapInv, ReadSoFar
  <2>2. request[t].status \in TerminalStatus =>
            workflows'[request[t].id] = workflows[request[t].id]
      BY <1>1, EndedRowsAreKept DEF SnapInv, ReadSoFar
  <2> QED BY <1>1, <2>1, <2>2 DEF ReadSoFar
<1>2. ReadIsSound(t)
    BY DEF SnapInv
<1> QED BY <1>1, <1>2 DEF ReadIsSound

(* A request moves and the table does not. *)
LEMMA QuietRequest ==
    ASSUME SnapInv, ApiInv', TableStep, workflows' = workflows, NEW t \in Clients, NEW r \in Request,
           request' = [request EXCEPT ![t] = r], r.pc # "run", ReadIsSound(t)'
    PROVE  SnapInv'
<1>1. \A u \in Clients : request'[u] = IF u = t THEN r ELSE request[u]
    BY DEF SnapInv, ApiInv, ApiTypeOK
<1>2. \A u \in Clients : ReadIsSound(u)'
  <2> SUFFICES ASSUME NEW u \in Clients
               PROVE  ReadIsSound(u)'
      OBVIOUS
  <2>1. CASE u = t
      BY <2>1
  <2>2. CASE u # t
      BY <1>1, <2>2, ReadIsKept
  <2> QED BY <2>1, <2>2
<1>3. RunnersAreAlone'
    BY <1>1 DEF SnapInv, RunnersAreAlone
<1>4. RowsAreBacked'
    BY DEF SnapInv, RowsAreBacked, Existing, Exists
<1> QED BY <1>2, <1>3, <1>4 DEF SnapInv

(* A row is written by the one thread that runs its workflow. *)
LEMMA RowWrite ==
    ASSUME SnapInv, ApiInv', TableStep, NEW t \in Clients, NEW r \in Request,
           request' = [request EXCEPT ![t] = r],
           NEW n \in Existing', NEW w, Backed(w), workflows' = [workflows EXCEPT ![n] = w],
           r.pc = "run" => r.id = n /\ w.status = "active",
           \A u \in Clients \ {t} : request[u].pc = "run" => request[u].id # n,
           ReadIsSound(t)'
    PROVE  SnapInv'
<1>1. \A u \in Clients : request'[u] = IF u = t THEN r ELSE request[u]
    BY DEF SnapInv, ApiInv, ApiTypeOK
<1>2. \A m \in Numbers : workflows'[m] = IF m = n THEN w ELSE workflows[m]
    BY DEF SnapInv, ApiInv, ApiTypeOK, Existing
<1>3. \A u \in Clients : ReadIsSound(u)'
  <2> SUFFICES ASSUME NEW u \in Clients
               PROVE  ReadIsSound(u)'
      OBVIOUS
  <2>1. CASE u = t
      BY <2>1
  <2>2. CASE u # t
      BY <1>1, <2>2, ReadIsKept
  <2> QED BY <2>1, <2>2
<1>4. \A u \in Clients : request[u].pc = "run" => request[u].id \in Numbers
    BY DEF SnapInv, ApiInv, RequestsAreSound, Sound, Names, Existing
<1>5. n \in Numbers
    BY DEF Existing
<1>6. RunnersAreAlone'
    BY <1>1, <1>2, <1>4, <1>5 DEF SnapInv, RunnersAreAlone
<1>7. RowsAreBacked'
    BY <1>2 DEF SnapInv, RowsAreBacked, Existing, Exists
<1> QED BY <1>3, <1>6, <1>7 DEF SnapInv

LEMMA SnapInvInit == Init => SnapInv
<1> SUFFICES ASSUME Init
             PROVE  SnapInv
    OBVIOUS
<1>1. Existing = {}
    BY DEF Init, Existing, Exists
<1>2. \A t \in Clients : request[t].pc = "idle" /\ request[t].code = "none"
    BY DEF Init, NoRequest
<1> QED BY <1>1, <1>2, ApiInvInit DEF SnapInv, RunnersAreAlone, RowsAreBacked, ReadIsSound

LEMMA ReadDetailStep ==
    ASSUME SnapInv, ApiInv', TableStep, NEW t \in Clients, ReadDetail(t)
    PROVE  SnapInv'
<1> DEFINE old == request[t]
           n == old.id
           code(rest) == IF rest = <<>> THEN "200" ELSE "none"
<1>1. /\ old \in Request /\ old.pc = "detail" /\ n \in Numbers /\ old.code = "none"
      /\ workflows' = workflows
      /\ ReadIsSound(t)
    BY DEF ReadDetail, SnapInv, ApiInv, ApiTypeOK, RequestsAreSound, Sound
<1>2. ASSUME NEW r \in Request, request' = [request EXCEPT ![t] = r], r.pc # "run",
             ReadIsSound(t)'
      PROVE  SnapInv'
    BY <1>1, <1>2, QuietRequest
<1>3. \A m : (m \in Existing)' = (m \in Existing)
    BY <1>1 DEF Existing, Exists
<1>4. CASE old.todo = <<"row", "execution", "report">> /\ ~Exists(n)
  <2> DEFINE r == [old EXCEPT !.pc = "idle", !.code = "404"]
  <2>1. Head(old.todo) = "row"
      BY <1>4
  <2>2. r \in Request /\ request' = [request EXCEPT ![t] = r]
      BY <1>1, <1>4, <2>1 DEF ReadDetail, Request
  <2>3. request'[t].pc = "idle" /\ request'[t].code = "404"
      BY <1>1, <2>2 DEF SnapInv, ApiInv, ApiTypeOK, Request
  <2>4. r.pc # "run"
      BY <1>1 DEF Request
  <2> QED BY <1>2, <2>2, <2>3, <2>4 DEF ReadIsSound
<1>5. CASE old.todo = <<"row", "execution", "report">> /\ Exists(n)
  <2> DEFINE r == [old EXCEPT !.todo = <<"execution", "report">>, !.pc = "detail", !.code = "none",
                              !.status = workflows[n].status]
  <2>1. Head(old.todo) = "row" /\ Tail(old.todo) = <<"execution", "report">>
        /\ <<"execution", "report">> # <<>>
      BY <1>5
  <2>2. workflows[n].status \in TerminalStatus \cup {"active"}
      BY <1>1, <1>5 DEF SnapInv, ApiInv, ApiTypeOK, Exists, Workflow
  <2>3. r \in Request
      BY <1>1, <2>2 DEF Request, Todo
  <2>4. request' = [request EXCEPT ![t] = r]
      BY <1>1, <1>5, <2>1 DEF ReadDetail, Request
  <2>5. /\ request'[t].pc = "detail" /\ request'[t].todo = <<"execution", "report">>
        /\ request'[t].id = n /\ request'[t].got = old.got /\ request'[t].code = "none"
        /\ request'[t].status = workflows[n].status
      BY <1>1, <2>4 DEF SnapInv, ApiInv, ApiTypeOK, Request
  <2>6. n \in Existing /\ old.got = {}
      BY <1>1, <1>5 DEF Existing, ReadIsSound
  <2>7. ReadIsSound(t)'
      BY <1>1, <1>3, <2>5, <2>6 DEF ReadIsSound, ReadSoFar
  <2>8. r.pc # "run"
      BY <1>1 DEF Request
  <2> HIDE DEF r
  <2> QED BY <1>2, <2>3, <2>4, <2>7, <2>8
<1>6. CASE old.todo = <<"execution", "report">>
  <2> DEFINE got == old.got \cup ({"execution"} \cap workflows[n].stored)
             r == [old EXCEPT !.todo = <<"report">>, !.pc = "detail", !.code = "none", !.got = got]
  <2>1. Head(old.todo) = "execution" /\ Tail(old.todo) = <<"report">> /\ <<"report">> # <<>>
      BY <1>6
  <2>2. old.got = {} /\ ReadSoFar(t, {})
      BY <1>1, <1>6 DEF ReadIsSound
  <2>3. r \in Request
      BY <1>1, <2>2 DEF Request, Todo, Parts
  <2>4. request' = [request EXCEPT ![t] = r]
      BY <1>1, <1>6, <2>1 DEF ReadDetail, Request
  <2>5. /\ request'[t].pc = "detail" /\ request'[t].todo = <<"report">>
        /\ request'[t].id = n /\ request'[t].got = got /\ request'[t].code = "none"
        /\ request'[t].status = old.status
      BY <1>1, <2>4 DEF SnapInv, ApiInv, ApiTypeOK, Request
  <2>6. ReadSoFar(t, {"execution"})'
      BY <1>1, <1>3, <2>2, <2>5 DEF ReadSoFar
  <2>7. ReadIsSound(t)'
      BY <2>5, <2>6 DEF ReadIsSound
  <2>8. r.pc # "run"
      BY <1>1 DEF Request
  <2> HIDE DEF r
  <2> QED BY <1>2, <2>3, <2>4, <2>7, <2>8
<1>7. CASE old.todo = <<"report">>
  <2> DEFINE got == old.got \cup ({"report"} \cap workflows[n].stored)
             r == [old EXCEPT !.todo = <<>>, !.pc = "idle", !.code = "200", !.got = got]
  <2>1. Head(old.todo) = "report" /\ Tail(old.todo) = <<>>
      BY <1>7
  <2>2. ReadSoFar(t, {"execution"})
      BY <1>1, <1>7 DEF ReadIsSound
  <2>3. r \in Request
      BY <1>1 DEF Request, Todo, Parts
  <2>4. request' = [request EXCEPT ![t] = r]
      BY <1>1, <1>7, <2>1 DEF ReadDetail, Request
  <2>5. /\ request'[t].pc = "idle" /\ request'[t].id = n /\ request'[t].got = got
        /\ request'[t].code = "200" /\ request'[t].status = old.status
      BY <1>1, <2>4 DEF SnapInv, ApiInv, ApiTypeOK, Request
  <2>6. ReadSoFar(t, Parts)'
      BY <1>1, <1>3, <2>2, <2>5 DEF ReadSoFar, Parts
  <2>7. ReadIsSound(t)'
      BY <2>5, <2>6 DEF ReadIsSound
  <2>8. r.pc # "run"
      BY <1>1 DEF Request
  <2> HIDE DEF r
  <2> QED BY <1>2, <2>3, <2>4, <2>7, <2>8
<1> QED BY <1>1, <1>4, <1>5, <1>6, <1>7 DEF ReadIsSound

LEMMA SnapInvStep == SnapInv /\ [Next]_vars => SnapInv'
<1> SUFFICES ASSUME SnapInv, [Next]_vars
             PROVE  SnapInv'
    OBVIOUS
<1>0. ApiInv /\ ApiInv' /\ TableStep
    BY ApiInvStep, NextIsTableStep DEF SnapInv
(* A request that has nothing of a snapshot in it. *)
<1>1. ASSUME NEW t \in Clients, NEW r \in Request, request' = [request EXCEPT ![t] = r],
             workflows' = workflows, r.pc \in {"idle", "count", "insert", "lookup", "respond"},
             r.pc \in {"lookup", "count", "insert"} => r.got = {}, r.code # "200"
      PROVE  SnapInv'
  <2>1. request'[t] = r
      BY <1>0, <1>1 DEF ApiInv, ApiTypeOK
  <2>2. ReadIsSound(t)'
      BY <1>1, <2>1 DEF ReadIsSound
  <2> QED BY <1>0, <1>1, <2>2, QuietRequest
(* A request that begins to read. *)
<1>2. ASSUME NEW t \in Clients, NEW r \in Request, request' = [request EXCEPT ![t] = r],
             workflows' = workflows, r.pc = "detail", r.todo = DetailOrder, r.got = {},
             r.code = "none"
      PROVE  SnapInv'
  <2>1. request'[t] = r
      BY <1>0, <1>2 DEF ApiInv, ApiTypeOK
  <2>2. ReadIsSound(t)'
      BY <1>2, <2>1 DEF ReadIsSound, DetailOrder
  <2> QED BY <1>0, <1>2, <2>2, QuietRequest
<1>3. ASSUME NEW t \in Clients, NEW k \in Keys \cup {NoKey}, NEW q \in Queries,
             NEW d \in BOOLEAN, Post(t, k, q, d)
      PROVE  SnapInv'
  <2> DEFINE r == [NoRequest EXCEPT !.pc = IF LookedUp(k) THEN "lookup" ELSE "count",
                                    !.key = k, !.query = q, !.dry = d]
  <2>1. r \in Request /\ r.pc \in {"lookup", "count"} /\ r.got = {} /\ r.code = "none"
      BY DEF NoRequest, Request, Todo
  <2>2. request' = [request EXCEPT ![t] = r] /\ workflows' = workflows
      BY <1>3 DEF Post
  <2> HIDE DEF r
  <2> QED BY <1>1, <2>1, <2>2
<1>4. ASSUME NEW t \in Clients, NEW n \in Numbers, Get(t, n)
      PROVE  SnapInv'
  <2> DEFINE r == [NoRequest EXCEPT !.pc = "detail", !.id = n, !.todo = DetailOrder]
  <2>1. /\ r \in Request /\ r.pc = "detail" /\ r.todo = DetailOrder /\ r.got = {}
        /\ r.code = "none"
      BY DEF NoRequest, Request, Todo, DetailOrder
  <2>2. request' = [request EXCEPT ![t] = r] /\ workflows' = workflows
      BY <1>4 DEF Get
  <2> HIDE DEF r
  <2> QED BY <1>2, <2>1, <2>2
<1>5. ASSUME NEW t \in Clients, RouteStep(t)
      PROVE  SnapInv'
  <2> DEFINE old == request[t]
  <2>0. old \in Request /\ Sound(t) /\ ReadIsSound(t)
      BY DEF SnapInv, ApiInv, ApiTypeOK, RequestsAreSound
  <2>1. CASE Lookup(t)
    <3>1. old.pc = "lookup" /\ old.got = {} /\ old.code = "none" /\ workflows' = workflows
        BY <2>0, <2>1 DEF Lookup, Sound, ReadIsSound
    <3>2. CASE request' = [request EXCEPT ![t].pc = "count"]
      <4> DEFINE r == [old EXCEPT !.pc = "count"]
      <4>1. /\ r \in Request /\ request' = [request EXCEPT ![t] = r]
            /\ r.pc = "count" /\ r.got = {} /\ r.code = "none"
          BY <2>0, <3>1, <3>2 DEF Request
      <4> HIDE DEF r
      <4> QED BY <1>1, <3>1, <4>1
    <3>3. ASSUME NEW n \in Numbers, request' = [request EXCEPT ![t].pc = "detail", ![t].id = n,
                                                               ![t].todo = DetailOrder]
          PROVE  SnapInv'
      <4> DEFINE r == [old EXCEPT !.pc = "detail", !.id = n, !.todo = DetailOrder]
      <4>1. /\ r \in Request /\ request' = [request EXCEPT ![t] = r]
            /\ r.pc = "detail" /\ r.todo = DetailOrder /\ r.got = {} /\ r.code = "none"
          BY <2>0, <3>1, <3>3 DEF Request, Todo, DetailOrder
      <4> HIDE DEF r
      <4> QED BY <1>2, <3>1, <4>1
    <3>4. ASSUME NEW n \in Numbers,
                 request' = [request EXCEPT ![t].pc = "idle", ![t].id = n, ![t].code = "409"]
          PROVE  SnapInv'
      <4> DEFINE r == [old EXCEPT !.pc = "idle", !.id = n, !.code = "409"]
      <4>1. /\ r \in Request /\ request' = [request EXCEPT ![t] = r]
            /\ r.pc = "idle" /\ r.code = "409"
          BY <2>0, <3>1, <3>4 DEF Request
      <4> HIDE DEF r
      <4> QED BY <1>1, <3>1, <4>1
    <3> QED BY <2>1, <3>2, <3>3, <3>4 DEF Lookup, Goto
  <2>2. CASE Count(t)
    <3> DEFINE id == Cardinality(Existing) + 1
               r == [old EXCEPT !.pc = "insert", !.id = id]
    <3>1. /\ old.pc = "count" /\ old.got = {} /\ old.code = "none" /\ workflows' = workflows
          /\ request' = [request EXCEPT ![t].pc = "insert", ![t].id = id]
        BY <2>0, <2>2 DEF Count, Sound, ReadIsSound
    <3>2. id \in Numbers
        BY <2>2, ExistingIsFinite, ApiConstants DEF Count, Numbers
    <3> HIDE DEF id
    <3>3. /\ r \in Request /\ request' = [request EXCEPT ![t] = r]
          /\ r.pc = "insert" /\ r.got = {} /\ r.code = "none"
        BY <2>0, <3>1, <3>2 DEF Request
    <3> HIDE DEF r
    <3> QED BY <1>1, <3>1, <3>3
  <2>3. CASE Insert(t) /\ Conflict(t)
    <3> DEFINE r == [old EXCEPT !.pc = "idle", !.code = "500"]
    <3>1. /\ r \in Request /\ request' = [request EXCEPT ![t] = r]
          /\ r.pc = "idle" /\ r.code = "500" /\ workflows' = workflows
        BY <2>0, <2>3 DEF Insert, Answer, Request
    <3> HIDE DEF r
    <3> QED BY <1>1, <3>1
  <2>4. CASE Insert(t) /\ ~Conflict(t)
    <3> DEFINE r == [old EXCEPT !.pc = "run"]
    <3>0. PICK n \in Numbers : n = old.id
        BY <2>0, <2>4 DEF Insert, Sound
    <3>1. /\ old.pc = "insert" /\ old.code = "none"
          /\ workflows' = [workflows EXCEPT ![n] = Row(t)]
          /\ request' = [request EXCEPT ![t].pc = "run"]
        BY <2>0, <2>4, <3>0 DEF Insert, Goto, Sound
    <3>2. /\ r \in Request /\ request' = [request EXCEPT ![t] = r]
          /\ r.pc = "run" /\ r.code = "none" /\ r.id = n
        BY <2>0, <3>0, <3>1 DEF Request
    <3>3. request'[t] = r
        BY <1>0, <3>2 DEF ApiInv, ApiTypeOK
    <3>4. n \in Existing'
        BY <1>0, <3>2, <3>3 DEF ApiInv, RequestsAreSound, Sound, Names
    <3>5. Backed(Row(t)) /\ Row(t).status = "active"
        BY DEF Row, Backed, TerminalStatus, FailedStatus
    <3>6. \A u \in Clients \ {t} : request[u].pc = "run" => request[u].id # n
        BY <1>0, <2>4, <3>0 DEF Conflict, ApiInv, RequestsAreSound, Sound, Names, Existing
    <3>7. ReadIsSound(t)'
        BY <3>2, <3>3 DEF ReadIsSound
    <3> DEFINE w == Row(t)
    <3>8. Backed(w) /\ w.status = "active" /\ workflows' = [workflows EXCEPT ![n] = w]
        BY <3>1, <3>5
    <3> HIDE DEF r, w
    <3> QED BY <1>0, <3>2, <3>4, <3>6, <3>7, <3>8, RowWrite
  <2>5. ASSUME NEW part \in Parts, StorePart(t, part)
        PROVE  SnapInv'
    <3>0. PICK n \in Existing : n = old.id
        BY <2>0, <2>5 DEF StorePart, Running, Sound, Names
    <3> DEFINE w == [workflows[n] EXCEPT !.stored = @ \cup {part}]
    <3>1. /\ old.pc = "run" /\ ~old.dry /\ old.code = "none"
          /\ workflows[n].stored = (IF part = "execution" THEN {} ELSE {"execution"})
          /\ workflows[n].dry = old.dry
          /\ request' = request
          /\ workflows[n].status = "active"
        BY <2>0, <2>5, <3>0 DEF StorePart, Running, Stored, Sound, Names, SnapInv, RunnersAreAlone
    <3>2. n \in Existing' /\ workflows[n] \in Workflow
        BY <1>0, <3>0, TableIsKept DEF ApiInv, ApiTypeOK, Existing, Exists
    <3>3. workflows' = [workflows EXCEPT ![n] = w]
        BY <2>5, <3>0 DEF StorePart
    <3>4. /\ w.stored = workflows[n].stored \cup {part}
          /\ w.status = "active" /\ w.dry = old.dry
        BY <3>1, <3>2 DEF Workflow
    <3> HIDE DEF w
    <3>5. w.stored \in {{"execution"}, Parts}
        BY <3>1, <3>4 DEF Parts
    <3>6. Backed(w)
        BY <3>1, <3>4, <3>5 DEF Backed, TerminalStatus, FailedStatus
    <3>7. \A u \in Clients \ {t} : request[u].pc = "run" => request[u].id # n
        BY <3>0, <3>1 DEF SnapInv, RunnersAreAlone
    <3>8. ReadIsSound(t)'
        BY <3>1 DEF ReadIsSound
    <3>9. request' = [request EXCEPT ![t] = old] /\ old.id = n
        BY <1>0, <3>0, <3>1 DEF ApiInv, ApiTypeOK
    <3> HIDE DEF old
    <3> QED BY <1>0, <2>0, <3>2, <3>3, <3>4, <3>6, <3>7, <3>8, <3>9, RowWrite
  <2>6. CASE GraphEnds(t)
    <3>0. PICK n \in Existing : n = old.id
        BY <2>0, <2>6 DEF GraphEnds, Running, Sound, Names
    <3>1. PICK s \in Endings(old.dry, workflows[n].stored) :
             /\ workflows' = [workflows EXCEPT ![n].status = s]
             /\ request' = [request EXCEPT ![t].pc = "respond", ![t].status = s,
                                           ![t].got = workflows[n].stored]
        BY <2>6, <3>0 DEF GraphEnds, Stored
    <3> DEFINE w == [workflows[n] EXCEPT !.status = s]
               r == [old EXCEPT !.pc = "respond", !.status = s, !.got = workflows[n].stored]
    <3>2. /\ old.pc = "run" /\ old.code = "none" /\ workflows[n].dry = old.dry
        BY <2>0, <2>6, <3>0 DEF GraphEnds, Running, Sound, Names
    <3>3. n \in Existing' /\ workflows[n] \in Workflow /\ Backed(workflows[n])
        BY <1>0, <3>0, TableIsKept DEF ApiInv, ApiTypeOK, Existing, Exists, SnapInv, RowsAreBacked
    <3>4. s \in TerminalStatus
        BY <3>1 DEF Endings
    <3>5. /\ w.stored = workflows[n].stored /\ w.status = s /\ w.dry = workflows[n].dry
          /\ workflows' = [workflows EXCEPT ![n] = w]
        BY <3>1, <3>3 DEF Workflow
    <3>6. Backed(w)
        BY <3>1, <3>2, <3>3, <3>5 DEF Backed, Endings
    <3>7. /\ r \in Request /\ request' = [request EXCEPT ![t] = r]
          /\ r.pc = "respond" /\ r.code = "none"
        BY <2>0, <3>1, <3>2, <3>3, <3>4 DEF Request, Workflow
    <3>8. request'[t] = r
        BY <1>0, <3>7 DEF ApiInv, ApiTypeOK
    <3>9. ReadIsSound(t)'
        BY <3>7, <3>8 DEF ReadIsSound
    <3>10. \A u \in Clients \ {t} : request[u].pc = "run" => request[u].id # n
        BY <3>0, <3>2 DEF SnapInv, RunnersAreAlone
    <3> HIDE DEF r, w
    <3> QED BY <1>0, <3>3, <3>5, <3>6, <3>7, <3>9, <3>10, RowWrite
  <2>7. CASE Respond(t)
    <3> DEFINE code == CodeFor(old.status)
               r == [old EXCEPT !.pc = "idle", !.code = code]
    <3>1. code \in {"201", "422", "424", "503"}
        BY DEF CodeFor
    <3>2. request' = [request EXCEPT ![t].pc = "idle", ![t].code = code] /\ workflows' = workflows
        BY <2>7 DEF Respond, Answer
    <3> HIDE DEF code
    <3>3. /\ r \in Request /\ request' = [request EXCEPT ![t] = r]
          /\ r.pc = "idle" /\ r.code # "200"
        BY <2>0, <3>1, <3>2 DEF Request
    <3> HIDE DEF r
    <3> QED BY <1>1, <3>2, <3>3
  <2>8. CASE ReadDetail(t)
      BY <1>0, <2>8, ReadDetailStep
  <2> QED BY <1>5, <2>1, <2>2, <2>3, <2>4, <2>5, <2>6, <2>7, <2>8 DEF RouteStep
<1>6. ASSUME NEW t \in Clients, Abandon(t)
      PROVE  SnapInv'
  <2> DEFINE r == [request[t] EXCEPT !.pc = "idle", !.code = "500"]
  <2>1. request[t] \in Request
      BY <1>0 DEF ApiInv, ApiTypeOK
  <2>2. /\ r \in Request /\ request' = [request EXCEPT ![t] = r]
        /\ r.pc = "idle" /\ r.code = "500" /\ workflows' = workflows
      BY <1>6, <2>1 DEF Abandon, Answer, Request
  <2> HIDE DEF r
  <2> QED BY <1>1, <2>2
<1>7. CASE Restart \/ UNCHANGED vars
  <2>1. /\ workflows' = workflows
        /\ \A t \in Clients : \/ request'[t] = request[t]
                              \/ request'[t].pc = "idle" /\ request'[t].code = "lost"
      BY <1>7 DEF Restart, vars, NoRequest
  <2>2. \A t \in Clients : ReadIsSound(t)'
      BY <1>0, <2>1, ReadIsKept DEF ReadIsSound
  <2>3. RunnersAreAlone' /\ RowsAreBacked'
      BY <2>1 DEF SnapInv, RunnersAreAlone, RowsAreBacked, Existing, Exists
  <2> QED BY <1>0, <2>2, <2>3 DEF SnapInv
<1> QED BY <1>3, <1>4, <1>5, <1>6, <1>7 DEF Next

(* WorkflowInspector.detail reads the row first and then what the graph     *)
(* writes before the row's terminal status, so a snapshot that shows one    *)
(* shows what that status claims, however its reads fall between writes.    *)
THEOREM SnapshotIsBackedTheorem == Spec => []SnapshotIsBacked
<1>1. SnapInv => SnapshotIsBacked
  <2> SUFFICES ASSUME SnapInv, NEW t \in Clients, request[t].code = "200"
               PROVE  /\ request[t].status = "completed" => request[t].got = Parts
                      /\ request[t].status = "execution_failed" => "report" \notin request[t].got
                      /\ request[t].status \in TerminalStatus \ {"completed", "execution_failed"}
                            => request[t].got = {}
      BY DEF SnapshotIsBacked
  <2>1. ReadSoFar(t, Parts) /\ Backed(workflows[request[t].id])
      BY DEF SnapInv, ReadIsSound, RowsAreBacked, ReadSoFar
  <2>2. "completed" \in TerminalStatus /\ "execution_failed" \in TerminalStatus
      BY DEF TerminalStatus, FailedStatus
  <2> QED BY <2>1, <2>2 DEF ReadSoFar, Backed, Parts
<1> QED BY <1>1, SnapInvInit, SnapInvStep, PTL DEF Spec

=============================================================================
