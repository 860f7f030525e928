-------------------------- MODULE Planning_proofs ---------------------------
(***************************************************************************)
(* Theorems about Planning, for every catalog, knowledge base, intent,     *)
(* top_k and budget.  Two facts carry the ones about policy and filters:   *)
(* the catalog's filter and the planner's exclusion reasons describe the   *)
(* same set of tests, and PlanningInv takes that through the pipeline.     *)
(* The ones about budget, order and risk rest on what the loop of _bound   *)
(* keeps of a ranking, on the ranks of the tests of a plan and on the      *)
(* factors growing with the evidence; RetrievalInv ties them to the state. *)
(***************************************************************************)
EXTENDS Planning, FiniteOrders

\* The set a match of one query belongs to, whatever the store held then
Fits(d, type, c, i) ==
    /\ d.type = type
    /\ IF type = "jurisdiction_rule"
       THEN d.region = i.region /\ i.module \in d.modules
       ELSE d.test \in Candidates(c, i)

\* What a request has established when it is at one of its steps
GroupsFit ==
    /\ groups \in [EvidenceTypes -> SUBSET Documents]
    /\ \A type \in EvidenceTypes : \A d \in groups[type] :
          Fits(d, type, catalog, intent)

EvidenceFits ==
    \A d \in evidence : Fits(d, d.type, catalog, intent) /\ d.type \in EvidenceTypes

VerdictIsComputed ==
    /\ pc = "decided" =>
          /\ plan = CandidatePlan(catalog, intent, evidence)
          /\ violations = Violations(plan, catalog, intent, evidence)
    /\ pc # "decided" => violations = {}

PlanningInv == knowledge \subseteq Documents /\ GroupsFit /\ EvidenceFits /\ VerdictIsComputed

-----------------------------------------------------------------------------
(* The catalog's filter and the planner agree on what can run.             *)
LEMMA FilterAndPlannerAgree ==
    ASSUME NEW c, NEW i
    PROVE  Selected(c, i) = Candidates(c, i)
  <1>1. ASSUME NEW t \in DOMAIN c
        PROVE  ExclusionReason(c[t], i) = "none"
                 <=> /\ c[t].module = i.module /\ c[t].scope = i.scope
                     /\ i.browser \in c[t].browsers /\ i.region \in c[t].regions
    BY DEF ExclusionReason
  <1>2. ASSUME NEW t PROVE t \in Selected(c, i) <=> t \in Candidates(c, i)
    BY <1>1 DEF Selected, Candidates
  <1>3. \A t : t \in Selected(c, i) <=> t \in Candidates(c, i)
    BY <1>2
  <1> QED BY <1>3

(* The tests of a plan are the candidates the evidence was filtered by.    *)
LEMMA PlannedAreCandidates ==
    ASSUME NEW c, NEW i, NEW docs
    PROVE  {x.test : x \in CandidatePlan(c, i, docs).items} = Candidates(c, i)
  <1>1. CandidatePlan(c, i, docs).items
           = {Item(t, 1, c, i, docs) : t \in Selected(c, i)}
    BY DEF CandidatePlan
  <1>2. \A t : Item(t, 1, c, i, docs).test = t
    BY DEF Item
  <1> QED BY <1>1, <1>2, FilterAndPlannerAgree

(* No check of the policy on intent or tests fails a plan of the planner.  *)
LEMMA PlannersPlanPasses ==
    ASSUME NEW c, NEW i, NEW docs
    PROVE  LET p == CandidatePlan(c, i, docs)
           IN  /\ IntentViolations(p, i) = {}
               /\ \A x \in p.items : TestViolations(x.test, c, p) = {}
  <1> DEFINE p == CandidatePlan(c, i, docs)
  <1>1. /\ p.module = i.module /\ p.scope = i.scope
        /\ p.browser = i.browser /\ p.region = i.region
    BY DEF CandidatePlan
  <1>2. IntentViolations(p, i) = {}
    BY <1>1 DEF IntentViolations
  <1>3. ASSUME NEW x \in p.items
        PROVE  TestViolations(x.test, c, p) = {}
    <2>1. x.test \in {y.test : y \in p.items}
      OBVIOUS
    <2>2. x.test \in Candidates(c, i)
      BY <2>1, PlannedAreCandidates
    <2> QED BY <1>1, <2>2 DEF Candidates, TestViolations
  <1> HIDE DEF p
  <1>4. /\ IntentViolations(p, i) = {}
        /\ \A x \in p.items : TestViolations(x.test, c, p) = {}
    BY <1>2, <1>3
  <1> QED BY <1>4 DEF p

(* What one query contributes fits the intent.                             *)
LEMMA MatchesFit ==
    ASSUME NEW type, NEW c, NEW i, NEW docs
    PROVE  /\ Matches(type, c, i, docs) \subseteq docs
           /\ \A d \in Matches(type, c, i, docs) : Fits(d, type, c, i)
  BY DEF Matches, Nearest, Compatible, Fits

-----------------------------------------------------------------------------
LEMMA PlanningInit == Init => PlanningInv
  BY DEF Init, PlanningInv, GroupsFit, EvidenceFits, VerdictIsComputed

LEMMA PlanningStep == PlanningInv /\ [Next]_vars => PlanningInv'
  <1> SUFFICES ASSUME PlanningInv, [Next]_vars PROVE PlanningInv'
    OBVIOUS
  <1> USE DEF PlanningInv
  <1>1. ASSUME NEW d \in Documents, Upsert(d) PROVE PlanningInv'
    BY <1>1 DEF Upsert, GroupsFit, EvidenceFits, VerdictIsComputed
  <1>2. ASSUME NEW i \in Intents, Ask(i) PROVE PlanningInv'
    <2>1. GroupsFit'
      BY <1>2 DEF Ask, GroupsFit
    <2>2. EvidenceFits' /\ VerdictIsComputed'
      BY <1>2 DEF Ask, EvidenceFits, VerdictIsComputed
    <2> QED BY <1>2, <2>1, <2>2 DEF Ask
  <1>3. ASSUME NEW type \in EvidenceTypes, Query(type) PROVE PlanningInv'
    <2> DEFINE new == Matches(type, catalog, intent, knowledge)
    <2>1. /\ new \subseteq Documents
          /\ \A d \in new : Fits(d, type, catalog, intent)
      BY MatchesFit
    <2> HIDE DEF new
    <2>2. groups' = [groups EXCEPT ![type] = new]
          /\ UNCHANGED <<catalog, intent, knowledge, evidence, plan, violations>>
      BY <1>3 DEF Query, new
    <2>3. GroupsFit'
      BY <2>1, <2>2 DEF GroupsFit, Fits, Candidates
    <2>4. EvidenceFits'
      BY <2>2 DEF EvidenceFits, Fits, Candidates
    <2>5. pc \in EvidenceTypes /\ pc' \in {"historical_failure", "jurisdiction_rule", "bound"}
      BY <1>3 DEF Query, AfterQuery, EvidenceTypes
    <2>6. VerdictIsComputed'
      BY <2>2, <2>5 DEF VerdictIsComputed, EvidenceTypes
    <2> QED BY <2>2, <2>3, <2>4, <2>6
  <1>4. ASSUME NEW type \in EvidenceTypes, RetrievalFails(type) PROVE PlanningInv'
    BY <1>4 DEF RetrievalFails, GroupsFit, EvidenceFits, VerdictIsComputed,
                EvidenceTypes
  <1>5. CASE Bound
    <2>1. GroupsFit'
      BY <1>5 DEF Bound, GroupsFit
    <2>2. evidence' \subseteq Retrieved
      BY <1>5 DEF Bound, Bounded
    <2>3. ASSUME NEW d \in Retrieved
          PROVE  Fits(d, d.type, catalog, intent) /\ d.type \in EvidenceTypes
      <3>1. PICK type \in EvidenceTypes : d \in groups[type]
        BY <2>3 DEF Retrieved
      <3> QED BY <3>1 DEF GroupsFit, Fits
    <2>4. EvidenceFits'
      BY <1>5, <2>2, <2>3 DEF Bound, EvidenceFits
    <2> QED BY <1>5, <2>1, <2>4 DEF Bound, VerdictIsComputed
  <1>6. CASE PlanAndValidate
    BY <1>6 DEF PlanAndValidate, GroupsFit, EvidenceFits, VerdictIsComputed
  <1>7. CASE UNCHANGED vars
    BY <1>7 DEF vars, GroupsFit, EvidenceFits, VerdictIsComputed
  <1> QED BY <1>1, <1>2, <1>3, <1>4, <1>5, <1>6, <1>7 DEF Next

(* What the request established at every step: groups and evidence fit the *)
(* intent, and plan and verdict are those of that evidence.                *)
THEOREM PlanningInvariant == PlanningSpec => []PlanningInv
  BY PlanningInit, PlanningStep, PTL DEF PlanningSpec

(* The planner never selects a test, nor states a context, that the policy *)
(* would reject: only an empty selection or a jurisdiction rule blocks.    *)
THEOREM PlannerMeetsPolicyTheorem == PlanningSpec => []PlannerMeetsPolicy
  <1>1. ASSUME PlanningInv PROVE PlannerMeetsPolicy
    <2>1. CASE pc # "decided"
      BY <1>1, <2>1 DEF PlanningInv, VerdictIsComputed, PlannerMeetsPolicy
    <2>2. CASE pc = "decided"
      <3>1. /\ plan = CandidatePlan(catalog, intent, evidence)
            /\ violations = Violations(plan, catalog, intent, evidence)
        BY <1>1, <2>2 DEF PlanningInv, VerdictIsComputed
      <3>2. /\ IntentViolations(plan, intent) = {}
            /\ \A x \in plan.items : TestViolations(x.test, catalog, plan) = {}
        BY <3>1, PlannersPlanPasses
      <3>3. violations \subseteq {"NO_TESTS_SELECTED", "JURISDICTION_VIOLATION"}
        BY <3>1, <3>2 DEF Violations
      <3> QED BY <3>3 DEF PlannerMeetsPolicy
    <2> QED BY <2>1, <2>2
  <1> QED BY <1>1, PlanningInvariant, PTL

(* RET-4: no evidence about a test that the plan does not run, and no rule *)
(* for another region or module, is used for a verdict.                    *)
THEOREM EvidenceMatchesIntentTheorem == PlanningSpec => []EvidenceMatchesIntent
  <1>1. ASSUME PlanningInv PROVE EvidenceMatchesIntent
    <2> SUFFICES ASSUME pc = "decided", NEW d \in evidence
                 PROVE  IF d.type = "jurisdiction_rule"
                        THEN d.region = intent.region /\ intent.module \in d.modules
                        ELSE d.test \in {x.test : x \in plan.items}
      BY DEF EvidenceMatchesIntent, Decided
    <2>1. plan = CandidatePlan(catalog, intent, evidence)
      BY <1>1 DEF PlanningInv, VerdictIsComputed
    <2>2. {x.test : x \in plan.items} = Candidates(catalog, intent)
      BY <2>1, PlannedAreCandidates
    <2>3. Fits(d, d.type, catalog, intent)
      BY <1>1 DEF PlanningInv, EvidenceFits
    <2> QED BY <2>2, <2>3 DEF Fits
  <1> QED BY <1>1, PlanningInvariant, PTL

-----------------------------------------------------------------------------
(* The length of a set of documents.  Cost is a sum over a finite set, and *)
(* every claim about one is proved from a smallest set that refutes it.    *)

\* The document a sum takes out first
First(s) == CHOOSE x \in s : TRUE

\* g gives every set of S the sum of its costs
SumsUp(g, S) ==
    g = [s \in S |-> IF s = {} THEN 0 ELSE First(s).cost + g[s \ {First(s)}]]

(* Cost, without the general fold it is an instance of *)
LEMMA CostIsASum ==
    ASSUME NEW S
    PROVE  Cost(S) = (CHOOSE g : SumsUp(g, SUBSET S))[S]
  BY DEF Cost, MapThenSumSet, MapThenFoldSet, SumsUp, First

(* Two such sums agree on every finite set that both are defined for: the  *)
(* smallest set on which they did not would be one element too large.      *)
LEMMA SumsAgree ==
    ASSUME NEW g, NEW h, NEW S, NEW T, SumsUp(g, SUBSET S), SumsUp(h, SUBSET T),
           NEW s, s \subseteq S, s \subseteq T, IsFiniteSet(s)
    PROVE  g[s] = h[s]
  <1> DEFINE U == {u \in SUBSET (S \cap T) : IsFiniteSet(u) /\ g[u] # h[u]}
  <1>1. ASSUME U # {} PROVE FALSE
    <2>1. \A u \in U : IsFiniteSet(u)
      OBVIOUS
    <2>2. PICK u \in U : \A v \in U : Cardinality(u) =< Cardinality(v)
      <3> HIDE DEF U
      <3> QED BY <1>1, <2>1, SmallestSet
    <2>3. u \in SUBSET S /\ u \in SUBSET T /\ IsFiniteSet(u) /\ g[u] # h[u]
      BY <2>2
    <2>4. u # {}
      BY <2>3 DEF SumsUp
    <2> DEFINE x == First(u)
               v == u \ {x}
    <2>5. x \in u
      BY <2>4 DEF First
    <2>6. g[u] = x.cost + g[v] /\ h[u] = x.cost + h[v]
      BY <2>3, <2>4 DEF SumsUp
    <2>7. Cardinality(v) < Cardinality(u) /\ IsFiniteSet(v)
      <3> HIDE DEF x
      <3>1. IsFiniteSet(u)
        BY <2>3
      <3> QED BY <3>1, <2>5, SmallerWithout
    <2>8. v \in SUBSET (S \cap T) /\ g[v] # h[v]
      BY <2>3, <2>6
    <2>9. Cardinality(u) =< Cardinality(v)
      BY <2>2, <2>7, <2>8
    <2>10. Cardinality(u) \in Nat /\ Cardinality(v) \in Nat
      BY <2>3, <2>7, FS_CardinalityType
    <2> QED BY <2>7, <2>9, <2>10
  <1> QED BY <1>1

(* There is such a sum: one for the sets of n elements extends to n + 1. *)
LEMMA SumExists ==
    ASSUME NEW S, IsFiniteSet(S)
    PROVE  \E g : SumsUp(g, SUBSET S)
  <1> DEFINE Below(n) == {s \in SUBSET S : Cardinality(s) =< n}
             T == {n \in Nat : ~ \E g : SumsUp(g, Below(n))}
  <1>0. \A s \in SUBSET S : IsFiniteSet(s) /\ Cardinality(s) \in Nat
    BY FS_Subset, FS_CardinalityType
  <1>1. ASSUME T # {} PROVE FALSE
    <2>1. PICK n \in T : \A m \in T : n =< m
      <3>1. T \in SUBSET Nat
        OBVIOUS
      <3> HIDE DEF T
      <3> QED BY <1>1, <3>1, LeastNumber
    <2>2. CASE n = 0
      <3> DEFINE g == [s \in Below(0) |-> 0]
      <3>1. \A s \in Below(0) : s = {}
        <4> TAKE s \in Below(0)
        <4>1. Cardinality(s) = 0
          BY <1>0
        <4> QED BY <1>0, <4>1, FS_EmptySet
      <3>2. SumsUp(g, Below(0))
        BY <3>1 DEF SumsUp
      <3> QED BY <2>1, <2>2, <3>2
    <2>3. CASE n # 0
      <3>1. n \in Nat /\ n - 1 \in Nat /\ n - 1 \notin T
        <4>1. n \in Nat /\ \A m \in T : n =< m
          BY <2>1
        <4>2. n - 1 \in Nat
          BY <4>1, <2>3
        <4> HIDE DEF T
        <4> QED BY <4>1, <4>2
      <3>2. PICK h : SumsUp(h, Below(n - 1))
        BY <3>1
      <3>8. PICK g : g = [s \in Below(n) |->
                             IF s = {} THEN 0 ELSE First(s).cost + h[s \ {First(s)}]]
        OBVIOUS
      <3>3. \A s \in Below(n) : s # {} => s \ {First(s)} \in Below(n - 1)
        <4> TAKE s \in Below(n)
        <4> HAVE s # {}
        <4>1. First(s) \in s
          BY DEF First
        <4>2. Cardinality(s \ {First(s)}) = Cardinality(s) - 1
              /\ Cardinality(s) \in Nat
          BY <1>0, <4>1, SmallerWithout
        <4> QED BY <4>2, <3>1
      <3>4. Below(n - 1) \subseteq Below(n)
        BY <1>0, <3>1
      <3>5. \A s \in Below(n - 1) : g[s] = h[s]
        BY <3>2, <3>4, <3>8 DEF SumsUp
      <3>6. \A s \in Below(n) : s # {} => g[s \ {First(s)}] = h[s \ {First(s)}]
        BY <3>3, <3>5
      <3>7. SumsUp(g, Below(n))
        <4> HIDE DEF Below
        <4> DEFINE k == [s \in Below(n) |->
                           IF s = {} THEN 0 ELSE First(s).cost + g[s \ {First(s)}]]
        <4>1. \A s \in Below(n) : k[s] = g[s]
          <5> TAKE s \in Below(n)
          <5>1. g[s] = IF s = {} THEN 0 ELSE First(s).cost + h[s \ {First(s)}]
            BY <3>8
          <5>2. k[s] = IF s = {} THEN 0 ELSE First(s).cost + g[s \ {First(s)}]
            OBVIOUS
          <5> HIDE DEF k
          <5> QED BY <3>6, <5>1, <5>2
        <4>2. k = [s \in Below(n) |-> k[s]]
          OBVIOUS
        <4>3. g = [s \in Below(n) |-> g[s]]
          BY <3>8
        <4>4. k = g
          <5> HIDE DEF k
          <5> QED BY <4>1, <4>2, <4>3
        <4> QED BY <4>4 DEF SumsUp
      <3> QED BY <2>1, <3>7
    <2> QED BY <2>2, <2>3
  <1>2. Cardinality(S) \in Nat
    BY <1>0
  <1>3. Below(Cardinality(S)) = SUBSET S
    BY <1>0, FS_Subset
  <1> QED BY <1>1, <1>2, <1>3

(* The equation that Cost is defined by, across its domains *)
LEMMA CostEquation ==
    ASSUME NEW S, IsFiniteSet(S)
    PROVE  Cost(S) = IF S = {} THEN 0 ELSE First(S).cost + Cost(S \ {First(S)})
  <1> DEFINE g == CHOOSE f : SumsUp(f, SUBSET S)
             h == CHOOSE f : SumsUp(f, SUBSET (S \ {First(S)}))
  <1>1. SumsUp(g, SUBSET S)
    BY SumExists
  <1>2. IsFiniteSet(S \ {First(S)})
    BY FS_RemoveElement
  <1>3. SumsUp(h, SUBSET (S \ {First(S)}))
    BY <1>2, SumExists
  <1>4. Cost(S) = g[S] /\ Cost(S \ {First(S)}) = h[S \ {First(S)}]
    BY CostIsASum
  <1> HIDE DEF g, h
  <1>5. g[S \ {First(S)}] = h[S \ {First(S)}]
    <2> DEFINE R == S \ {First(S)}
    <2>1. SumsUp(h, SUBSET R) /\ R \subseteq S /\ IsFiniteSet(R)
      BY <1>2, <1>3
    <2> HIDE DEF R
    <2>2. g[R] = h[R]
      BY <1>1, <2>1, SumsAgree
    <2> QED BY <2>2 DEF R
  <1>6. g[S] = IF S = {} THEN 0 ELSE First(S).cost + g[S \ {First(S)}]
    BY <1>1 DEF SumsUp
  <1> QED BY <1>4, <1>5, <1>6

\* No content is empty
HasCosts(S) == \A d \in S : d.cost \in Nat \ {0}

(* A cost is a number ... *)
LEMMA CostType ==
    ASSUME NEW S, IsFiniteSet(S), HasCosts(S)
    PROVE  Cost(S) \in Nat
  <1> DEFINE U == {u \in SUBSET S : Cost(u) \notin Nat}
  <1>1. ASSUME U # {} PROVE FALSE
    <2>1. \A u \in U : IsFiniteSet(u)
      BY FS_Subset
    <2>2. PICK u \in U : \A v \in U : Cardinality(u) =< Cardinality(v)
      <3> HIDE DEF U
      <3> QED BY <1>1, <2>1, SmallestSet
    <2>3. u \in SUBSET S /\ IsFiniteSet(u) /\ Cost(u) \notin Nat
      BY <2>1, <2>2
    <2>4. u # {}
      BY <2>3, CostEquation
    <2>5. First(u) \in u
      BY <2>4 DEF First
    <2> DEFINE x == First(u)
               v == u \ {x}
    <2>6. Cardinality(v) < Cardinality(u) /\ Cardinality(u) \in Nat /\ Cardinality(v) \in Nat
      <3> HIDE DEF x
      <3>1. IsFiniteSet(u) /\ x \in u
        BY <2>3, <2>5 DEF x
      <3> QED BY <3>1, SmallerWithout
    <2>7. v \in SUBSET S
      BY <2>3
    <2>8. v \notin U
      BY <2>2, <2>6
    <2>9. Cost(v) \in Nat
      BY <2>7, <2>8
    <2>10. First(u).cost \in Nat
      BY <2>3, <2>5 DEF HasCosts
    <2> QED BY <2>3, <2>4, <2>9, <2>10, CostEquation
  <1> QED BY <1>1

(* ... and it does not matter which document is added first. *)
LEMMA CostWithout ==
    ASSUME NEW S, IsFiniteSet(S), HasCosts(S), NEW x \in S
    PROVE  Cost(S) = x.cost + Cost(S \ {x})
  <1> DEFINE U == {u \in SUBSET S : \E y \in u : Cost(u) # y.cost + Cost(u \ {y})}
  <1>1. ASSUME U # {} PROVE FALSE
    <2>1. \A u \in U : IsFiniteSet(u)
      BY FS_Subset
    <2>2. PICK u \in U : \A v \in U : Cardinality(u) =< Cardinality(v)
      <3> HIDE DEF U
      <3> QED BY <1>1, <2>1, SmallestSet
    <2>3. u \in SUBSET S /\ IsFiniteSet(u)
      BY <2>1, <2>2
    <2>4. PICK y \in u : Cost(u) # y.cost + Cost(u \ {y})
      BY <2>2
    <2> DEFINE p == First(u)
    <2>5. p \in u
      BY <2>4 DEF First
    <2>6. Cost(u) = p.cost + Cost(u \ {p})
      BY <2>3, <2>5, CostEquation
    <2>7. p # y
      BY <2>4, <2>6
    <2> HIDE DEF p
    <2>8. ASSUME NEW z \in u PROVE (u \ {z}) \in SUBSET S /\ (u \ {z}) \notin U
      <3>1. IsFiniteSet(u) /\ u \in SUBSET S /\ \A v \in U : Cardinality(u) =< Cardinality(v)
        BY <2>2, <2>3
      <3> HIDE DEF U
      <3>2. Cardinality(u \ {z}) < Cardinality(u) /\ Cardinality(u \ {z}) \in Nat
            /\ Cardinality(u) \in Nat
        BY <3>1, SmallerWithout
      <3>3. ~(Cardinality(u) =< Cardinality(u \ {z}))
        BY <3>2
      <3> QED BY <3>1, <3>3
    <2>9. Cost(u \ {p}) = y.cost + Cost((u \ {p}) \ {y})
      BY <2>5, <2>7, <2>8
    <2>10. Cost(u \ {y}) = p.cost + Cost((u \ {y}) \ {p})
      BY <2>5, <2>7, <2>8
    <2>11. (u \ {p}) \ {y} = (u \ {y}) \ {p}
      OBVIOUS
    <2>12. p.cost \in Nat /\ y.cost \in Nat
      BY <2>3, <2>5 DEF HasCosts
    <2>13. Cost((u \ {y}) \ {p}) \in Nat
      <3> DEFINE w == (u \ {y}) \ {p}
      <3>1. w \in SUBSET S
        BY <2>3
      <3>2. IsFiniteSet(w) /\ HasCosts(w)
        BY <3>1, FS_Subset DEF HasCosts
      <3> HIDE DEF w
      <3>3. Cost(w) \in Nat
        BY <3>2, CostType
      <3> QED BY <3>3 DEF w
    <2> QED BY <2>4, <2>6, <2>9, <2>10, <2>11, <2>12, <2>13
  <1>2. S \in SUBSET S /\ S \notin U
    BY <1>1
  <1> QED BY <1>2

(* No document costs nothing ... *)
LEMMA CostOfNothing == Cost({}) = 0
  BY FS_EmptySet, CostEquation

(* ... one more adds its length ... *)
LEMMA CostWith ==
    ASSUME NEW S, NEW x, IsFiniteSet(S), HasCosts(S), x.cost \in Nat \ {0}, x \notin S
    PROVE  Cost(S \cup {x}) = Cost(S) + x.cost
  <1> DEFINE w == S \cup {x}
  <1>1. IsFiniteSet(w) /\ HasCosts(w) /\ x \in w /\ w \ {x} = S
    BY FS_AddElement DEF HasCosts
  <1>2. Cost(S) \in Nat
    BY CostType
  <1> HIDE DEF w
  <1>3. Cost(w) = x.cost + Cost(w \ {x})
    BY <1>1, CostWithout
  <1>4. Cost(w) = Cost(S) + x.cost
    BY <1>1, <1>2, <1>3
  <1> QED BY <1>4 DEF w

(* ... and only no document costs nothing, since no content is empty. *)
LEMMA CostIsPositive ==
    ASSUME NEW S, IsFiniteSet(S), HasCosts(S), Cost(S) = 0
    PROVE  S = {}
  <1> SUFFICES ASSUME NEW x \in S PROVE FALSE
    OBVIOUS
  <1>1. IsFiniteSet(S \ {x}) /\ HasCosts(S \ {x})
    BY FS_RemoveElement DEF HasCosts
  <1>2. Cost(S \ {x}) \in Nat
    BY <1>1, CostType
  <1>3. Cost(S) = x.cost + Cost(S \ {x})
    BY CostWithout
  <1> QED BY <1>2, <1>3 DEF HasCosts

-----------------------------------------------------------------------------
(* What _bound keeps *)

(* A strict order on documents: no two of them tie. *)
LEMMA EvidenceIsOrdered ==
    ASSUME NEW docs \in SUBSET Documents, IsFiniteSet(docs)
    PROVE  /\ \A d \in docs : Rank(d, docs) \in 1..Cardinality(docs)
           /\ \A d, e \in docs : Rank(d, docs) < Rank(e, docs) <=> Precedes(d, e)
           /\ \A d, e \in docs : Rank(d, docs) = Rank(e, docs) => d = e
  <1> DEFINE R == {p \in docs \X docs : Precedes(p[1], p[2])}
  <1>1. \A d, e \in docs : <<d, e>> \in R <=> Precedes(d, e)
    OBVIOUS
  <1>2. \A d \in docs : d.type \in EvidenceTypes /\ d.score \in Int
    BY PlanningAssumption
  <1>3. \A d \in docs : Position(d.type) \in 1..3
    BY <1>2 DEF Position, EvidenceTypes
  <1>4. \A d, e \in docs : d # e /\ d.score = e.score => Position(d.type) # Position(e.type)
    <2>1. \A d, e \in docs : d # e /\ d.score = e.score => d.type # e.type
      BY DistinctScores
    <2> QED BY <1>2, <2>1 DEF Position, EvidenceTypes
  <1>5. \A d \in docs : ~ Precedes(d, d)
    BY <1>2, <1>3 DEF Precedes
  <1>6. \A d, e, f \in docs : Precedes(d, e) /\ Precedes(e, f) => Precedes(d, f)
    BY <1>2, <1>3 DEF Precedes
  <1>7. \A d, e \in docs : d # e => Precedes(d, e) \/ Precedes(e, d)
    BY <1>2, <1>3, <1>4 DEF Precedes
  <1> HIDE DEF R
  <1>8. Orders(R, docs)
    BY <1>1, <1>5, <1>6, <1>7 DEF Orders
  <1>9. \A d \in docs : Rank(d, docs) = 1 + Cardinality(Before(d, R, docs))
    <2> TAKE d \in docs
    <2>1. {e \in docs : Precedes(e, d)} = Before(d, R, docs)
      BY <1>1 DEF Before
    <2> QED BY <2>1 DEF Rank
  <1>10. Cardinality(docs) \in Nat
    BY FS_CardinalityType
  <1>11. \A d \in docs : Cardinality(Before(d, R, docs)) \in 0..(Cardinality(docs) - 1)
    BY <1>8, RanksFollowOrder
  <1>12. \A d, e \in docs : Rank(d, docs) < Rank(e, docs) <=> Precedes(d, e)
    <2> TAKE d, e \in docs
    <2>1. Cardinality(Before(d, R, docs)) < Cardinality(Before(e, R, docs)) <=> <<d, e>> \in R
      BY <1>8, RanksFollowOrder
    <2> QED BY <1>1, <1>9, <1>10, <1>11, <2>1
  <1>13. \A d, e \in docs : Rank(d, docs) = Rank(e, docs) => d = e
    <2> TAKE d, e \in docs
    <2>1. Cardinality(Before(d, R, docs)) = Cardinality(Before(e, R, docs)) => d = e
      BY <1>8, RanksFollowOrder
    <2> QED BY <1>9, <1>10, <1>11, <2>1
  <1>14. \A d \in docs : Rank(d, docs) \in 1..Cardinality(docs)
    BY <1>9, <1>10, <1>11
  <1> QED BY <1>12, <1>13, <1>14

(* The n-th document, if it is kept beside those kept before it *)
NextKept(kept, n, docs) ==
    {d \in docs : /\ Rank(d, docs) = n
                  /\ \/ Cost(kept) + d.cost <= MaxContextChars
                     \/ Cost(kept) = 0}

\* g is what the loop holds after each of its first m turns
KeepsUpTo(g, m, docs) ==
    g = [n \in 0..m |-> IF n = 0 THEN {} ELSE g[n - 1] \cup NextKept(g[n - 1], n, docs)]

(* KeptAfter, with its loop named *)
LEMMA KeptIsALoop ==
    ASSUME NEW docs
    PROVE  KeptAfter(docs) = CHOOSE g : KeepsUpTo(g, Cardinality(docs), docs)
  BY DEF KeptAfter, KeepsUpTo, NextKept

(* A loop of any length has a run. *)
LEMMA LoopExists ==
    ASSUME NEW docs, NEW m \in Nat
    PROVE  \E g : KeepsUpTo(g, m, docs)
  <1> DEFINE T == {n \in Nat : ~ \E g : KeepsUpTo(g, n, docs)}
  <1>1. ASSUME T # {} PROVE FALSE
    <2>1. PICK n \in T : \A k \in T : n =< k
      <3>1. T \in SUBSET Nat
        OBVIOUS
      <3> HIDE DEF T
      <3> QED BY <1>1, <3>1, LeastNumber
    <2>2. n \in Nat /\ ~ \E g : KeepsUpTo(g, n, docs)
      BY <2>1
    <2>3. CASE n = 0
      <3>1. PICK g : g = [k \in 0..0 |-> {}]
        OBVIOUS
      <3>2. KeepsUpTo(g, 0, docs)
        <4>1. \A k \in 0..0 : k = 0
          OBVIOUS
        <4> QED BY <3>1, <4>1 DEF KeepsUpTo
      <3> QED BY <2>2, <2>3, <3>2
    <2>4. CASE n # 0
      <3>1. n - 1 \in Nat /\ n - 1 \notin T
        <4>1. n - 1 \in Nat /\ \A k \in T : n =< k
          BY <2>1, <2>2, <2>4
        <4> HIDE DEF T
        <4> QED BY <2>2, <4>1
      <3>2. PICK h : KeepsUpTo(h, n - 1, docs)
        BY <3>1
      <3>3. PICK g : g = [k \in 0..n |->
                            IF k = 0 THEN {} ELSE h[k - 1] \cup NextKept(h[k - 1], k, docs)]
        OBVIOUS
      <3>4. \A k \in 0..(n - 1) : g[k] = h[k]
        <4> TAKE k \in 0..(n - 1)
        <4>1. k \in 0..n
          BY <2>2
        <4>2. g[k] = IF k = 0 THEN {} ELSE h[k - 1] \cup NextKept(h[k - 1], k, docs)
          BY <4>1, <3>3
        <4>3. h[k] = IF k = 0 THEN {} ELSE h[k - 1] \cup NextKept(h[k - 1], k, docs)
          BY <3>2 DEF KeepsUpTo
        <4> QED BY <4>2, <4>3
      <3>5. \A k \in 0..n : k # 0 => g[k - 1] = h[k - 1]
        BY <2>2, <3>4
      <3> DEFINE f == [k \in 0..n |->
                         IF k = 0 THEN {} ELSE g[k - 1] \cup NextKept(g[k - 1], k, docs)]
      <3>6. \A k \in 0..n : f[k] = g[k]
        <4> TAKE k \in 0..n
        <4>1. g[k] = IF k = 0 THEN {} ELSE h[k - 1] \cup NextKept(h[k - 1], k, docs)
          BY <3>3
        <4>2. f[k] = IF k = 0 THEN {} ELSE g[k - 1] \cup NextKept(g[k - 1], k, docs)
          OBVIOUS
        <4> HIDE DEF f
        <4> QED BY <3>5, <4>1, <4>2
      <3>7. f = [k \in 0..n |-> f[k]]
        OBVIOUS
      <3>8. g = [k \in 0..n |-> g[k]]
        BY <3>3
      <3>9. f = g
        <4> HIDE DEF f
        <4> QED BY <3>6, <3>7, <3>8
      <3> QED BY <2>2, <3>9 DEF KeepsUpTo
    <2> QED BY <2>3, <2>4
  <1> QED BY <1>1

(* What the loop of _bound does at its start and in each turn *)
LEMMA KeptStepByStep ==
    ASSUME NEW docs, IsFiniteSet(docs)
    PROVE  /\ KeptAfter(docs)[0] = {}
           /\ \A n \in 1..Cardinality(docs) :
                 KeptAfter(docs)[n] = KeptAfter(docs)[n - 1]
                                      \cup NextKept(KeptAfter(docs)[n - 1], n, docs)
  <1>1. Cardinality(docs) \in Nat
    BY FS_CardinalityType
  <1>2. KeepsUpTo(KeptAfter(docs), Cardinality(docs), docs)
    BY <1>1, LoopExists, KeptIsALoop
  <1>3. PICK g, m : g = KeptAfter(docs) /\ m = Cardinality(docs)
    OBVIOUS
  <1>4. g = [n \in 0..m |-> IF n = 0 THEN {} ELSE g[n - 1] \cup NextKept(g[n - 1], n, docs)]
    BY <1>2, <1>3 DEF KeepsUpTo
  <1>5. g[0] = {} /\ \A n \in 1..m : g[n] = g[n - 1] \cup NextKept(g[n - 1], n, docs)
    <2>1. m \in Nat /\ 0 \in 0..m
      BY <1>1, <1>3
    <2>2. \A n \in 1..m : n \in 0..m /\ n # 0
      BY <2>1
    <2>3. \A n \in 0..m :
             g[n] = IF n = 0 THEN {} ELSE g[n - 1] \cup NextKept(g[n - 1], n, docs)
      BY <1>4
    <2> QED BY <2>1, <2>2, <2>3
  <1> QED BY <1>3, <1>5

(* What is known of the documents kept after n of the ranking *)
KeptWell(n, docs) ==
    LET kept == KeptAfter(docs) IN
    /\ kept[n] \subseteq docs
    /\ \A e \in docs : Rank(e, docs) > n => e \notin kept[n]
    /\ \A e \in docs : Rank(e, docs) <= n => (e \in kept[n] <=> e \in kept[Rank(e, docs)])
    /\ Cost(kept[n]) <= MaxContextChars \/ Cardinality(kept[n]) = 1

(* ... before the first turn ... *)
LEMMA KeptWellAtFirst ==
    ASSUME NEW docs \in SUBSET Documents, IsFiniteSet(docs)
    PROVE  KeptWell(0, docs)
  <1>1. KeptAfter(docs)[0] = {}
    BY KeptStepByStep
  <1>2. \A e \in docs : Rank(e, docs) \in 1..Cardinality(docs) /\ ~(Rank(e, docs) <= 0)
    <2>1. Cardinality(docs) \in Nat
      BY FS_CardinalityType
    <2> QED BY <2>1, EvidenceIsOrdered
  <1>3. Cost({}) <= MaxContextChars
    BY CostOfNothing, PlanningAssumption
  <1> QED BY <1>1, <1>2, <1>3 DEF KeptWell

(* ... after one more turn: the budget is passed only by a first document. *)
LEMMA KeptWellNext ==
    ASSUME NEW docs \in SUBSET Documents, IsFiniteSet(docs),
           NEW n \in 1..Cardinality(docs), KeptWell(n - 1, docs)
    PROVE  KeptWell(n, docs)
  <1>1. PICK k : k = KeptAfter(docs)
    OBVIOUS
  <1>2. k[n] = k[n - 1] \cup NextKept(k[n - 1], n, docs)
    BY <1>1, KeptStepByStep
  <1>3. /\ k[n - 1] \subseteq docs
        /\ \A e \in docs : Rank(e, docs) > n - 1 => e \notin k[n - 1]
        /\ \A e \in docs : Rank(e, docs) <= n - 1
                              => (e \in k[n - 1] <=> e \in k[Rank(e, docs)])
        /\ Cost(k[n - 1]) <= MaxContextChars \/ Cardinality(k[n - 1]) = 1
    BY <1>1 DEF KeptWell
  <1>4. n \in Nat /\ n - 1 \in Nat
    BY FS_CardinalityType
  <1>5. \A e \in docs : Rank(e, docs) \in Nat
    <2>1. Cardinality(docs) \in Nat
      BY FS_CardinalityType
    <2> QED BY <2>1, EvidenceIsOrdered
  <1>6. \A e \in NextKept(k[n - 1], n, docs) : e \in docs /\ Rank(e, docs) = n
    BY DEF NextKept
  <1>7. k[n] \subseteq docs
    BY <1>2, <1>3, <1>6
  <1>8. \A e \in docs : Rank(e, docs) > n => e \notin k[n]
    BY <1>2, <1>3, <1>4, <1>5, <1>6
  <1>9. \A e \in docs : Rank(e, docs) <= n => (e \in k[n] <=> e \in k[Rank(e, docs)])
    <2> TAKE e \in docs
    <2>1. CASE Rank(e, docs) = n
      BY <2>1
    <2>2. CASE Rank(e, docs) <= n - 1
      BY <1>2, <1>3, <1>4, <1>5, <1>6, <2>2
    <2> QED BY <1>4, <1>5, <2>1, <2>2
  <1>10. Cost(k[n]) <= MaxContextChars \/ Cardinality(k[n]) = 1
    <2>1. CASE NextKept(k[n - 1], n, docs) = {}
      BY <1>2, <1>3, <2>1
    <2>2. CASE NextKept(k[n - 1], n, docs) # {}
      <3>1. PICK d : d \in NextKept(k[n - 1], n, docs)
        BY <2>2
      <3>2. NextKept(k[n - 1], n, docs) = {d}
        BY <1>6, <3>1, EvidenceIsOrdered
      <3>3. k[n] = k[n - 1] \cup {d} /\ d \in docs /\ d \notin k[n - 1]
        BY <1>2, <1>3, <1>4, <1>5, <1>6, <3>1, <3>2
      <3>4. IsFiniteSet(k[n - 1]) /\ HasCosts(k[n - 1]) /\ d.cost \in Nat \ {0}
        BY <1>3, <3>3, FS_Subset, PlanningAssumption DEF HasCosts
      <3>5. Cost(k[n]) = Cost(k[n - 1]) + d.cost
        BY <3>3, <3>4, CostWith
      <3>6. CASE Cost(k[n - 1]) + d.cost <= MaxContextChars
        BY <3>5, <3>6
      <3>7. CASE Cost(k[n - 1]) = 0
        <4>1. k[n] = {d}
          BY <3>3, <3>4, <3>7, CostIsPositive
        <4> QED BY <4>1, FS_Singleton
      <3> QED BY <3>1, <3>6, <3>7 DEF NextKept
    <2> QED BY <2>1, <2>2
  <1> QED BY <1>1, <1>7, <1>8, <1>9, <1>10 DEF KeptWell

(* ... and after every turn *)
LEMMA KeptWellAlways ==
    ASSUME NEW docs \in SUBSET Documents, IsFiniteSet(docs)
    PROVE  \A n \in 0..Cardinality(docs) : KeptWell(n, docs)
  <1> DEFINE T == {n \in 0..Cardinality(docs) : ~ KeptWell(n, docs)}
  <1>0. Cardinality(docs) \in Nat
    BY FS_CardinalityType
  <1>1. ASSUME T # {} PROVE FALSE
    <2>1. T \in SUBSET Nat
      BY <1>0
    <2>2. PICK n \in T : \A m \in T : n =< m
      <3> HIDE DEF T
      <3> QED BY <1>1, <2>1, LeastNumber
    <2>3. n \in 0..Cardinality(docs) /\ ~ KeptWell(n, docs)
      BY <2>2
    <2>4. n # 0
      BY <2>3, KeptWellAtFirst
    <2>5. n \in 1..Cardinality(docs) /\ n - 1 \in 0..Cardinality(docs) /\ ~(n =< n - 1)
      BY <1>0, <2>3, <2>4
    <2>6. n - 1 \notin T
      <3> HIDE DEF T
      <3> QED BY <2>2, <2>5
    <2>7. KeptWell(n - 1, docs)
      BY <2>5, <2>6
    <2> QED BY <2>3, <2>5, <2>7, KeptWellNext
  <1> QED BY <1>1

(* What _bound keeps of a ranking respects the budget, or is one document; *)
(* what it drops did not fit beside the better ones that it kept.          *)
LEMMA BoundedKeepsTheBest ==
    ASSUME NEW docs \in SUBSET Documents, IsFiniteSet(docs)
    PROVE  /\ Cost(Bounded(docs)) <= MaxContextChars \/ Cardinality(Bounded(docs)) = 1
           /\ \A d \in docs \ Bounded(docs) :
                 LET better == {e \in Bounded(docs) : Precedes(e, d)}
                 IN  better # {} /\ Cost(better) + d.cost > MaxContextChars
  <1>0. Cardinality(docs) \in Nat
    BY FS_CardinalityType
  <1>1. PICK k : k = KeptAfter(docs)
    OBVIOUS
  <1>2. \A e \in docs : Rank(e, docs) \in 1..Cardinality(docs)
    BY EvidenceIsOrdered
  <1>3. ASSUME NEW n \in 0..Cardinality(docs)
        PROVE  k[n] = {e \in Bounded(docs) : Rank(e, docs) <= n}
    <2>1. /\ k[n] \subseteq docs
          /\ \A e \in docs : Rank(e, docs) > n => e \notin k[n]
          /\ \A e \in docs : Rank(e, docs) <= n => (e \in k[n] <=> e \in k[Rank(e, docs)])
      BY <1>1, KeptWellAlways DEF KeptWell
    <2>2. Bounded(docs) = {e \in docs : e \in k[Rank(e, docs)]}
      BY <1>1 DEF Bounded
    <2>3. \A e \in docs : Rank(e, docs) <= n \/ Rank(e, docs) > n
      BY <1>0, <1>2
    <2> QED BY <2>1, <2>2, <2>3
  <1>4. k[Cardinality(docs)] = Bounded(docs)
    <2>1. Cardinality(docs) \in 0..Cardinality(docs)
      BY <1>0
    <2>2. \A e \in Bounded(docs) : Rank(e, docs) <= Cardinality(docs)
      BY <1>0, <1>2 DEF Bounded
    <2> QED BY <1>3, <2>1, <2>2
  <1>5. Cost(Bounded(docs)) <= MaxContextChars \/ Cardinality(Bounded(docs)) = 1
    <2>1. Cardinality(docs) \in 0..Cardinality(docs)
      BY <1>0
    <2> QED BY <1>1, <1>4, <2>1, KeptWellAlways DEF KeptWell
  <1>6. ASSUME NEW d \in docs \ Bounded(docs)
        PROVE  LET better == {e \in Bounded(docs) : Precedes(e, d)}
               IN  better # {} /\ Cost(better) + d.cost > MaxContextChars
    <2> DEFINE better == {e \in Bounded(docs) : Precedes(e, d)}
    <2>1. PICK n : n = Rank(d, docs)
      OBVIOUS
    <2>2. n \in 1..Cardinality(docs) /\ n - 1 \in 0..Cardinality(docs) /\ n \in 0..Cardinality(docs)
      BY <1>0, <1>2, <2>1
    <2>3. k[n - 1] = better
      <3>1. k[n - 1] = {e \in Bounded(docs) : Rank(e, docs) <= n - 1}
        BY <1>3, <2>2
      <3>2. \A e \in Bounded(docs) : Rank(e, docs) <= n - 1 <=> Precedes(e, d)
        <4> TAKE e \in Bounded(docs)
        <4>1. e \in docs
          BY DEF Bounded
        <4>2. Rank(e, docs) < Rank(d, docs) <=> Precedes(e, d)
          BY <4>1, EvidenceIsOrdered
        <4> QED BY <1>0, <1>2, <2>1, <2>2, <4>1, <4>2
      <3> QED BY <3>1, <3>2
    <2>4. d \notin k[n]
      BY <1>1, <2>1 DEF Bounded
    <2>5. d \notin NextKept(k[n - 1], n, docs)
      BY <1>1, <2>2, <2>4, KeptStepByStep
    <2>6. ~(Cost(better) + d.cost <= MaxContextChars) /\ Cost(better) # 0
      BY <2>1, <2>3, <2>5 DEF NextKept
    <2>7. better \in SUBSET docs
      BY DEF Bounded
    <2>8. IsFiniteSet(better) /\ HasCosts(better)
      <3> HIDE DEF better
      <3> QED BY <2>7, FS_Subset, PlanningAssumption DEF HasCosts
    <2>9. Cost(better) \in Nat
      <3> HIDE DEF better
      <3> QED BY <2>8, CostType
    <2>10. d.cost \in Nat /\ MaxContextChars \in Nat
      BY PlanningAssumption
    <2>11. better # {}
      BY <2>6, CostOfNothing
    <2> HIDE DEF better
    <2>12. Cost(better) + d.cost > MaxContextChars
      BY <2>6, <2>9, <2>10
    <2> QED BY <2>11, <2>12 DEF better
  <1> QED BY <1>5, <1>6

-----------------------------------------------------------------------------
(* Risk, and the order of a plan *)

(* A least element of a nonempty set of numbers is one of its elements. *)
LEMMA MinOfNumbers ==
    ASSUME NEW S \in SUBSET Nat, S # {}
    PROVE  Min(S) \in S /\ \A n \in S : Min(S) <= n
  <1>1. \E x \in S : \A y \in S : x <= y
    BY LeastNumber
  <1> QED BY <1>1 DEF Min

LEMMA MinOfTwo ==
    ASSUME NEW a \in Nat, NEW b \in Nat
    PROVE  Min({a, b}) = IF a <= b THEN a ELSE b
  <1>1. {a, b} \in SUBSET Nat /\ {a, b} # {}
    OBVIOUS
  <1>2. Min({a, b}) \in {a, b} /\ \A n \in {a, b} : Min({a, b}) <= n
    BY <1>1, MinOfNumbers
  <1> QED BY <1>2

\* What RecencyWeight and RiskFactors look at
Ages(failures) == {d.age : d \in {f \in failures : f.age # NoDate /\ f.age >= 0}}

Failures(t, docs) == {d \in docs : d.type = "historical_failure" /\ d.test = t}

(* A test has finitely many failures, and their ages are numbers. *)
LEMMA FailuresOf ==
    ASSUME NEW docs \in SUBSET Documents, IsFiniteSet(docs), NEW t
    PROVE  /\ IsFiniteSet(Failures(t, docs))
           /\ Cardinality(Failures(t, docs)) \in Nat
           /\ Ages(Failures(t, docs)) \in SUBSET Nat
  <1>1. Failures(t, docs) \in SUBSET docs
    BY DEF Failures
  <1>2. IsFiniteSet(Failures(t, docs))
    BY <1>1, FS_Subset
  <1>3. \A d \in Failures(t, docs) : d.age \in Int \cup {NoDate}
    BY PlanningAssumption DEF Failures
  <1>4. Ages(Failures(t, docs)) \in SUBSET Nat
    BY <1>3 DEF Ages
  <1> QED BY <1>2, <1>4, FS_CardinalityType

(* The factors of a risk, by their operators *)
LEMMA FactorsOf ==
    ASSUME NEW t, NEW c, NEW i, NEW docs
    PROVE  /\ DOMAIN RiskFactors(t, c, i, docs)
                = {"criticality", "frequency", "recency", "matching"}
           /\ RiskFactors(t, c, i, docs).criticality = CriticalityWeight(c[t].criticality)
           /\ RiskFactors(t, c, i, docs).frequency
                = (30 * Min({Cardinality(Failures(t, docs)), 3})) \div 3
           /\ RiskFactors(t, c, i, docs).recency = RecencyWeight(Failures(t, docs))
           /\ RiskFactors(t, c, i, docs).matching = MatchingWeight(Failures(t, docs), i)
  BY DEF RiskFactors, Failures

(* Every factor is a number ... *)
LEMMA FactorTypes ==
    ASSUME NEW docs \in SUBSET Documents, IsFiniteSet(docs),
           NEW c \in Catalogs, NEW t \in DOMAIN c, NEW i
    PROVE  LET f == RiskFactors(t, c, i, docs)
           IN  /\ f.criticality \in Nat /\ f.frequency \in Nat
               /\ f.recency \in Nat /\ f.matching \in Nat
  <1>1. CriticalityWeight(c[t].criticality) \in Nat
    <2>1. c[t].criticality \in {"high", "medium", "low"}
      BY PlanningAssumption
    <2> QED BY <2>1 DEF CriticalityWeight
  <1>2. (30 * Min({Cardinality(Failures(t, docs)), 3})) \div 3 \in Nat
    <2>1. PICK n \in Nat : n = Cardinality(Failures(t, docs))
      BY FailuresOf
    <2>2. PICK m \in Nat : m = Min({n, 3}) /\ m \in 0..3
      BY MinOfTwo
    <2>3. (30 * m) \div 3 \in Nat
      BY <2>2
    <2> QED BY <2>1, <2>2, <2>3
  <1>3. RecencyWeight(Failures(t, docs)) \in Nat
    BY DEF RecencyWeight
  <1>4. MatchingWeight(Failures(t, docs), i) \in Nat
    BY DEF MatchingWeight
  <1> QED BY <1>1, <1>2, <1>3, <1>4, FactorsOf

(* ... and a score is at most one, in hundredths. *)
LEMMA ScoreType ==
    ASSUME NEW docs \in SUBSET Documents, IsFiniteSet(docs),
           NEW c \in Catalogs, NEW t \in DOMAIN c, NEW i
    PROVE  RiskScore(t, c, i, docs) \in 0..100
  <1> DEFINE total == Total(RiskFactors(t, c, i, docs))
  <1>1. total \in Nat
    BY FactorTypes DEF Total
  <1>2. PICK n \in Nat : n = total
    BY <1>1
  <1>3. Min({100, n}) = IF 100 <= n THEN 100 ELSE n
    BY MinOfTwo
  <1>4. Min({100, n}) \in 0..100
    BY <1>3
  <1> QED BY <1>2, <1>4 DEF RiskScore

(* A document more never lowers a factor. *)
LEMMA MoreFailuresMoreRisk ==
    ASSUME NEW docs \in SUBSET Documents, IsFiniteSet(docs), NEW less \in SUBSET docs,
           NEW c \in Catalogs, NEW t \in DOMAIN c, NEW i
    PROVE  \A name \in DOMAIN RiskFactors(t, c, i, less) :
              RiskFactors(t, c, i, less)[name] <= RiskFactors(t, c, i, docs)[name]
  <1> DEFINE F == Failures(t, docs)
             G == Failures(t, less)
  <1>0. less \in SUBSET Documents /\ IsFiniteSet(less)
    BY FS_Subset
  <1>1. G \in SUBSET F
    BY DEF Failures
  <1>2. /\ IsFiniteSet(F) /\ Cardinality(F) \in Nat /\ Ages(F) \in SUBSET Nat
        /\ IsFiniteSet(G) /\ Cardinality(G) \in Nat /\ Ages(G) \in SUBSET Nat
    BY <1>0, FailuresOf
  <1> HIDE DEF F, G
  <1>3. (30 * Min({Cardinality(G), 3})) \div 3 <= (30 * Min({Cardinality(F), 3})) \div 3
    <2>1. Cardinality(G) <= Cardinality(F)
      BY <1>1, <1>2, FS_Subset
    <2>2. PICK m \in Nat, n \in Nat : m = Min({Cardinality(G), 3}) /\ n = Min({Cardinality(F), 3})
      BY <1>2, MinOfTwo
    <2>3. m <= n /\ m \in 0..3 /\ n \in 0..3
      BY <1>2, <2>1, <2>2, MinOfTwo
    <2>4. (30 * m) \div 3 <= (30 * n) \div 3
      BY <2>3
    <2> QED BY <2>2, <2>4
  <1>4. RecencyWeight(G) <= RecencyWeight(F)
    <2>1. Ages(G) \subseteq Ages(F)
      BY <1>1 DEF Ages
    <2>2. CASE Ages(G) = {}
      BY <2>2 DEF RecencyWeight, Ages
    <2>3. CASE Ages(G) # {}
      <3>1. /\ Min(Ages(F)) \in Nat /\ Min(Ages(G)) \in Nat /\ Min(Ages(F)) <= Min(Ages(G))
            /\ Ages(F) # {}
        BY <1>2, <2>1, <2>3, MinOfNumbers
      <3>2. RecencyWeight(G) = IF Min(Ages(G)) <= 30 THEN 10
                               ELSE IF Min(Ages(G)) <= 90 THEN 5 ELSE 0
        BY <2>3 DEF RecencyWeight, Ages
      <3>3. RecencyWeight(F) = IF Min(Ages(F)) <= 30 THEN 10
                               ELSE IF Min(Ages(F)) <= 90 THEN 5 ELSE 0
        BY <3>1 DEF RecencyWeight, Ages
      <3> QED BY <3>1, <3>2, <3>3
    <2> QED BY <2>2, <2>3
  <1>5. MatchingWeight(G, i) <= MatchingWeight(F, i)
    BY <1>1 DEF MatchingWeight
  <1>6. CriticalityWeight(c[t].criticality) <= CriticalityWeight(c[t].criticality)
    <2>1. c[t].criticality \in {"high", "medium", "low"}
      BY PlanningAssumption
    <2> QED BY <2>1 DEF CriticalityWeight
  <1>7. PICK f, g : f = RiskFactors(t, c, i, docs) /\ g = RiskFactors(t, c, i, less)
    OBVIOUS
  <1>8. /\ g.criticality <= f.criticality /\ g.frequency <= f.frequency
        /\ g.recency <= f.recency /\ g.matching <= f.matching
        /\ DOMAIN g = {"criticality", "frequency", "recency", "matching"}
    BY <1>3, <1>4, <1>5, <1>6, <1>7, FactorsOf DEF F, G
  <1>9. \A name \in DOMAIN g : g[name] <= f[name]
    BY <1>8
  <1> QED BY <1>7, <1>9

(* RunsBefore orders the tests of a plan strictly, whatever their risks. *)
LEMMA TestsAreOrdered ==
    ASSUME NEW docs \in SUBSET Documents, IsFiniteSet(docs), NEW c \in Catalogs, NEW i
    PROVE  LET R == {p \in Selected(c, i) \X Selected(c, i) :
                        RunsBefore(p[1], p[2], c, i, docs)}
           IN  Orders(R, Selected(c, i)) /\ IsFiniteSet(Selected(c, i))
  <1> DEFINE S == Selected(c, i)
             R == {p \in S \X S : RunsBefore(p[1], p[2], c, i, docs)}
  <1>1. S \in SUBSET DOMAIN c /\ IsFiniteSet(DOMAIN c) /\ DOMAIN c \subseteq Nat
    BY PlanningAssumption DEF Selected
  <1>2. IsFiniteSet(S)
    BY <1>1, FS_Subset
  <1>3. \A t \in S : t \in Nat /\ RiskScore(t, c, i, docs) \in Nat
    BY <1>1, ScoreType
  <1> HIDE DEF S
  <1>4. \A t, u \in S : <<t, u>> \in R <=> RunsBefore(t, u, c, i, docs)
    OBVIOUS
  <1>5. \A t \in S : ~ RunsBefore(t, t, c, i, docs)
    BY <1>3 DEF RunsBefore
  <1>6. \A t, u, v \in S : RunsBefore(t, u, c, i, docs) /\ RunsBefore(u, v, c, i, docs)
                              => RunsBefore(t, v, c, i, docs)
    BY <1>3 DEF RunsBefore
  <1>7. \A t, u \in S : t # u => RunsBefore(t, u, c, i, docs) \/ RunsBefore(u, t, c, i, docs)
    BY <1>3 DEF RunsBefore
  <1> HIDE DEF R
  <1>8. Orders(R, S)
    BY <1>4, <1>5, <1>6, <1>7 DEF Orders
  <1> QED BY <1>2, <1>8 DEF R, S

(* The priorities of a plan are the ranks of its tests. *)
LEMMA PrioritiesAreRanks ==
    ASSUME NEW docs \in SUBSET Documents, IsFiniteSet(docs), NEW c \in Catalogs, NEW i
    PROVE  LET items == CandidatePlan(c, i, docs).items IN
           /\ IsFiniteSet(items)
           /\ Cardinality(items) = Cardinality(Selected(c, i))
           /\ {x.priority : x \in items} = 1..Cardinality(items)
           /\ \A x, y \in items : x.priority < y.priority
                                     => RunsBefore(x.test, y.test, c, i, docs)
           /\ \A x \in items : /\ x.test \in Selected(c, i)
                               /\ x.score = RiskScore(x.test, c, i, docs)
                               /\ x.factors = RiskFactors(x.test, c, i, docs)
  <1> DEFINE S == Selected(c, i)
             R == {p \in S \X S : RunsBefore(p[1], p[2], c, i, docs)}
             rank(t) == Cardinality(Before(t, R, S))
             items == CandidatePlan(c, i, docs).items
             f == [t \in S |-> Item(t, 1, c, i, docs)]
  <1>1. Orders(R, S) /\ IsFiniteSet(S)
    BY TestsAreOrdered
  <1>2. \A t \in S : Item(t, 1, c, i, docs).priority = 1 + rank(t)
    <2> TAKE t \in S
    <2>1. {u \in S : RunsBefore(u, t, c, i, docs)} = Before(t, R, S)
      BY DEF Before
    <2> QED BY <2>1 DEF Item
  <1>3. \A t \in S : /\ Item(t, 1, c, i, docs).test = t
                     /\ Item(t, 1, c, i, docs).score = RiskScore(t, c, i, docs)
                     /\ Item(t, 1, c, i, docs).factors = RiskFactors(t, c, i, docs)
    BY DEF Item
  <1>4. items = {Item(t, 1, c, i, docs) : t \in S}
    BY DEF CandidatePlan
  <1>5. Cardinality(S) \in Nat
    BY <1>1, FS_CardinalityType
  <1>6. IsFiniteSet(items) /\ Cardinality(items) = Cardinality(S)
    <2>1. f \in Surjection(S, items)
      BY <1>4 DEF Surjection
    <2>2. f \in Injection(S, items)
      BY <1>3, <2>1 DEF Surjection, Injection, IsInjective
    <2> HIDE DEF f, items, S
    <2> QED BY <1>1, <2>1, <2>2, FS_Surjection
  <1> HIDE DEF S, R
  <1>7. {rank(t) : t \in S} = 0..(Cardinality(S) - 1)
    BY <1>1, RanksAreAllTaken
  <1>8. {x.priority : x \in items} = {1 + n : n \in 0..(Cardinality(S) - 1)}
    BY <1>2, <1>4, <1>7
  <1>9. {1 + n : n \in 0..(Cardinality(S) - 1)} = 1..Cardinality(S)
    <2>1. \A m \in 1..Cardinality(S) : m - 1 \in 0..(Cardinality(S) - 1) /\ m = 1 + (m - 1)
      BY <1>5
    <2> QED BY <1>5, <2>1
  <1>10. \A t, u \in S : 1 + rank(t) < 1 + rank(u) => <<t, u>> \in R
    <2> TAKE t, u \in S
    <2>1. rank(t) \in Nat /\ rank(u) \in Nat
      BY <1>1, <1>5, RanksFollowOrder
    <2>2. rank(t) < rank(u) <=> <<t, u>> \in R
      BY <1>1, RanksFollowOrder
    <2> QED BY <2>1, <2>2
  <1>11. \A t, u \in S : <<t, u>> \in R => RunsBefore(t, u, c, i, docs)
    BY DEF R
  <1>12. \A x, y \in items : x.priority < y.priority
                               => RunsBefore(x.test, y.test, c, i, docs)
    <2> TAKE x, y \in items
    <2>1. PICK t \in S, u \in S : x = Item(t, 1, c, i, docs) /\ y = Item(u, 1, c, i, docs)
      BY <1>4
    <2>2. x.priority = 1 + rank(t) /\ y.priority = 1 + rank(u) /\ x.test = t /\ y.test = u
      BY <1>2, <1>3, <2>1
    <2> QED BY <1>10, <1>11, <2>2
  <1>13. \A x \in items : /\ x.test \in S
                          /\ x.score = RiskScore(x.test, c, i, docs)
                          /\ x.factors = RiskFactors(x.test, c, i, docs)
    BY <1>3, <1>4
  <1> HIDE DEF items
  <1>14. {x.priority : x \in items} = 1..Cardinality(items)
    BY <1>6, <1>8, <1>9
  <1> QED BY <1>6, <1>12, <1>13, <1>14 DEF S, items

-----------------------------------------------------------------------------
(* The request from the first query to the verdict *)

\* Types, and a store that only grows and stays finite
StateFits ==
    /\ catalog \in Catalogs
    /\ knowledge \in SUBSET Documents
    /\ IsFiniteSet(knowledge)
    /\ known \in SUBSET knowledge
    /\ pc \in EvidenceTypes \cup {"idle", "bound", "plan", "failed", "decided"}
    /\ intent \in Intents \cup {NoRequest}
    /\ groups \in [EvidenceTypes -> SUBSET knowledge]
    /\ evidence \in SUBSET knowledge

\* The evidence is what _bound made of the matches that are still there
EvidenceIsKept == pc \in {"plan", "decided"} => evidence = Bounded(Retrieved)

\* There is no plan before the verdict, and its rows are the saved ones
PlanIsPending ==
    /\ pc # "decided" => plan = NoPlan
    /\ saved = {[test |-> x.test, priority |-> x.priority] : x \in plan.items}

\* What can crowd a rule out of its query
Closer(r, docs) ==
    {e \in docs : e.type = r.type /\ e.region = r.region /\ e.score > r.score}

\* After the query for rules, none that applies is missing without top_k reasons
RulesAreRanked ==
    pc \in {"bound", "plan", "decided"} =>
        \A r \in known : /\ r.type = "jurisdiction_rule"
                         /\ r.region = intent.region
                         /\ intent.module \in r.modules
            => r \in groups["jurisdiction_rule"] \/ Cardinality(Closer(r, knowledge)) >= TopK

RetrievalInv == StateFits /\ EvidenceIsKept /\ PlanIsPending /\ RulesAreRanked

(* The first state: nothing is stored, asked or planned. *)
LEMMA RetrievalInit == Init => RetrievalInv
  <1> SUFFICES ASSUME Init PROVE RetrievalInv
    OBVIOUS
  <1>1. StateFits
    BY FS_EmptySet DEF Init, StateFits
  <1> QED BY <1>1 DEF Init, RetrievalInv, EvidenceIsKept, PlanIsPending, RulesAreRanked, NoPlan

(* A rule one query leaves out has top_k closer ones of its region. *)
LEMMA RulesAreMatchedOrCrowdedOut ==
    ASSUME NEW docs \in SUBSET Documents, IsFiniteSet(docs), NEW c, NEW i,
           NEW r \in docs, r.type = "jurisdiction_rule", r.region = i.region,
           i.module \in r.modules
    PROVE  \/ r \in Matches("jurisdiction_rule", c, i, docs)
           \/ Cardinality(Closer(r, docs)) >= TopK
  <1> DEFINE rules == Compatible("jurisdiction_rule", c, i, docs)
             closer == {e \in rules : e.score > r.score}
  <1>1. r \in rules
    BY DEF Compatible
  <1>2. closer = Closer(r, docs)
    BY DEF Compatible, Closer
  <1>3. closer \in SUBSET docs
    BY DEF Compatible
  <1>4. Cardinality(closer) \in Nat
    <2> HIDE DEF closer
    <2> QED BY <1>3, FS_Subset, FS_CardinalityType
  <1>5. CASE Cardinality(closer) < TopK
    <2>1. r \in Nearest(TopK, rules)
      BY <1>1, <1>5 DEF Nearest
    <2> QED BY <2>1 DEF Matches
  <1>6. CASE ~(Cardinality(closer) < TopK)
    <2> HIDE DEF closer
    <2> QED BY <1>2, <1>4, <1>6, PlanningAssumption
  <1> QED BY <1>5, <1>6

(* Documents that are ingested later only add to the closer ones. *)
LEMMA RulesStayRanked ==
    ASSUME StateFits, RulesAreRanked, knowledge \subseteq knowledge',
           knowledge' \in SUBSET Documents, IsFiniteSet(knowledge'),
           UNCHANGED <<known, intent, groups>>,
           pc' \in {"bound", "plan", "decided"} => pc \in {"bound", "plan", "decided"}
    PROVE  RulesAreRanked'
  <1> SUFFICES ASSUME pc' \in {"bound", "plan", "decided"}, NEW r \in known,
                      r.type = "jurisdiction_rule", r.region = intent.region,
                      intent.module \in r.modules,
                      r \notin groups["jurisdiction_rule"]
               PROVE  Cardinality(Closer(r, knowledge')) >= TopK
    BY DEF RulesAreRanked, Closer
  <1>1. Cardinality(Closer(r, knowledge)) >= TopK
    BY DEF RulesAreRanked
  <1>2. PICK K, L : K = Closer(r, knowledge) /\ L = Closer(r, knowledge')
    OBVIOUS
  <1>3. L \in SUBSET knowledge' /\ K \in SUBSET L
    BY <1>2 DEF Closer
  <1>4. IsFiniteSet(L) /\ IsFiniteSet(K) /\ Cardinality(K) <= Cardinality(L)
    BY <1>3, FS_Subset
  <1>5. Cardinality(K) \in Nat /\ Cardinality(L) \in Nat /\ TopK \in Nat
    BY <1>4, FS_CardinalityType, PlanningAssumption
  <1>6. Cardinality(L) >= TopK
    BY <1>1, <1>2, <1>4, <1>5
  <1> QED BY <1>2, <1>6

(* Every operation keeps RetrievalInv. *)
LEMMA RetrievalStep == RetrievalInv /\ [Next]_vars => RetrievalInv'
  <1> SUFFICES ASSUME RetrievalInv, [Next]_vars PROVE RetrievalInv'
    OBVIOUS
  <1>0. StateFits /\ EvidenceIsKept /\ PlanIsPending /\ RulesAreRanked
    BY DEF RetrievalInv
  <1>1. ASSUME NEW d \in Documents, Upsert(d) PROVE RetrievalInv'
    <2>1. /\ knowledge' = knowledge \cup {d}
          /\ UNCHANGED <<catalog, known, pc, intent, groups, evidence, plan, violations, saved>>
      BY <1>1 DEF Upsert
    <2>2. IsFiniteSet(knowledge')
      BY <1>0, <2>1, FS_AddElement DEF StateFits
    <2>3. StateFits'
      BY <1>0, <2>1, <2>2 DEF StateFits
    <2>4. EvidenceIsKept' /\ PlanIsPending'
      BY <1>0, <2>1 DEF EvidenceIsKept, PlanIsPending, Retrieved
    <2>5. RulesAreRanked'
      BY <1>0, <2>1, <2>2, <2>3, RulesStayRanked DEF StateFits
    <2> QED BY <2>3, <2>4, <2>5 DEF RetrievalInv
  <1>2. ASSUME NEW i \in Intents, Ask(i) PROVE RetrievalInv'
    <2>1. StateFits'
      BY <1>0, <1>2 DEF Ask, StateFits, EvidenceTypes
    <2>2. EvidenceIsKept' /\ PlanIsPending' /\ RulesAreRanked'
      BY <1>2 DEF Ask, EvidenceIsKept, PlanIsPending, RulesAreRanked, NoPlan
    <2> QED BY <2>1, <2>2 DEF RetrievalInv
  <1>3. ASSUME NEW type \in EvidenceTypes, Query(type) PROVE RetrievalInv'
    <2>1. PICK new : new = Matches(type, catalog, intent, knowledge)
      OBVIOUS
    <2>2. /\ groups' = [groups EXCEPT ![type] = new] /\ new \in SUBSET knowledge
          /\ UNCHANGED <<catalog, knowledge, known, intent, evidence, plan, saved>>
      BY <1>3, <2>1, MatchesFit DEF Query
    <2>3. /\ pc = type
          /\ pc' \in {"historical_failure", "jurisdiction_rule", "bound"}
          /\ pc' = "bound" => type = "jurisdiction_rule"
      BY <1>3 DEF Query, AfterQuery, EvidenceTypes
    <2>4. StateFits'
      BY <1>0, <2>2, <2>3 DEF StateFits, EvidenceTypes
    <2>5. EvidenceIsKept' /\ PlanIsPending'
      BY <1>0, <2>2, <2>3 DEF EvidenceIsKept, PlanIsPending, EvidenceTypes
    <2>6. RulesAreRanked'
      <3> SUFFICES ASSUME pc' \in {"bound", "plan", "decided"}, NEW r \in known,
                          r.type = "jurisdiction_rule", r.region = intent.region,
                          intent.module \in r.modules
                   PROVE  \/ r \in groups'["jurisdiction_rule"]
                          \/ Cardinality(Closer(r, knowledge)) >= TopK
        BY <2>2 DEF RulesAreRanked, Closer
      <3>1. type = "jurisdiction_rule"
        BY <2>3
      <3>2. groups'["jurisdiction_rule"] = new
        BY <1>0, <2>2, <3>1 DEF StateFits
      <3>3. /\ r \in knowledge /\ knowledge \in SUBSET Documents /\ IsFiniteSet(knowledge)
        BY <1>0 DEF StateFits
      <3> QED BY <2>1, <3>1, <3>2, <3>3, RulesAreMatchedOrCrowdedOut
    <2> QED BY <2>4, <2>5, <2>6 DEF RetrievalInv
  <1>4. ASSUME NEW type \in EvidenceTypes, RetrievalFails(type) PROVE RetrievalInv'
    <2>1. StateFits'
      BY <1>0, <1>4 DEF RetrievalFails, StateFits
    <2>2. EvidenceIsKept' /\ PlanIsPending' /\ RulesAreRanked'
      BY <1>0, <1>4 DEF RetrievalFails, EvidenceIsKept, PlanIsPending, RulesAreRanked,
                        EvidenceTypes
    <2> QED BY <2>1, <2>2 DEF RetrievalInv
  <1>5. CASE Bound
    <2>1. /\ pc = "bound" /\ pc' = "plan" /\ evidence' = Bounded(Retrieved)
          /\ UNCHANGED <<catalog, knowledge, known, intent, groups, plan, violations, saved>>
      BY <1>5 DEF Bound
    <2>2. Bounded(Retrieved) \in SUBSET knowledge
      BY <1>0 DEF StateFits, Bounded, Retrieved
    <2>3. StateFits'
      BY <1>0, <2>1, <2>2 DEF StateFits
    <2>4. EvidenceIsKept'
      BY <2>1 DEF EvidenceIsKept, Retrieved
    <2>5. PlanIsPending'
      BY <1>0, <2>1 DEF PlanIsPending
    <2>6. RulesAreRanked'
      BY <1>0, <2>1, <2>3, RulesStayRanked DEF StateFits
    <2> QED BY <2>3, <2>4, <2>5, <2>6 DEF RetrievalInv
  <1>6. CASE PlanAndValidate
    <2>1. /\ pc = "plan" /\ pc' = "decided"
          /\ saved' = {[test |-> x.test, priority |-> x.priority] : x \in plan'.items}
          /\ UNCHANGED <<catalog, knowledge, known, intent, groups, evidence>>
      BY <1>6 DEF PlanAndValidate
    <2>2. StateFits'
      BY <1>0, <2>1 DEF StateFits
    <2>3. EvidenceIsKept'
      BY <1>0, <2>1 DEF EvidenceIsKept, Retrieved
    <2>4. PlanIsPending'
      BY <2>1 DEF PlanIsPending
    <2>5. RulesAreRanked'
      BY <1>0, <2>1, <2>2, RulesStayRanked DEF StateFits
    <2> QED BY <2>2, <2>3, <2>4, <2>5 DEF RetrievalInv
  <1>7. CASE UNCHANGED vars
    BY <1>0, <1>7 DEF vars, RetrievalInv, StateFits, EvidenceIsKept, Retrieved, PlanIsPending,
                      RulesAreRanked, Closer
  <1> QED BY <1>1, <1>2, <1>3, <1>4, <1>5, <1>6, <1>7 DEF Next

(* Where the evidence comes from at every step, and what became of each    *)
(* rule that was there to be found.                                        *)
THEOREM RetrievalInvariant == PlanningSpec => []RetrievalInv
  BY RetrievalInit, RetrievalStep, PTL DEF PlanningSpec

(* What _bound ranks is a finite set of documents. *)
LEMMA RetrievedIsKnowledge ==
    ASSUME StateFits
    PROVE  Retrieved \in SUBSET Documents /\ IsFiniteSet(Retrieved)
  <1>1. Retrieved \in SUBSET knowledge
    BY DEF StateFits, Retrieved
  <1> QED BY <1>1, FS_Subset DEF StateFits

(* The values a plan is computed from, as values *)
LEMMA PlanIsOfValues ==
    ASSUME StateFits
    PROVE  \E c \in Catalogs, docs \in SUBSET Documents, i \in Intents \cup {NoRequest} :
              c = catalog /\ i = intent /\ docs = evidence /\ IsFiniteSet(docs)
  <1>1. evidence \in SUBSET Documents /\ IsFiniteSet(evidence)
    BY FS_Subset DEF StateFits
  <1>2. catalog \in Catalogs /\ intent \in Intents \cup {NoRequest}
    BY DEF StateFits
  <1> QED BY <1>1, <1>2

(* RET-5: the evidence is within the budget or one document, and what was  *)
(* dropped did not fit beside the better evidence, however much is stored. *)
THEOREM EvidenceIsBoundedTheorem == PlanningSpec => []EvidenceIsBounded
  <1>1. ASSUME RetrievalInv PROVE EvidenceIsBounded
    <2> SUFFICES ASSUME pc \in {"plan", "decided"} PROVE EvidenceIsBounded
      BY DEF EvidenceIsBounded
    <2>1. evidence = Bounded(Retrieved)
      BY <1>1 DEF RetrievalInv, EvidenceIsKept
    <2>2. Retrieved \in SUBSET Documents /\ IsFiniteSet(Retrieved)
      BY <1>1, RetrievedIsKnowledge DEF RetrievalInv
    <2>3. PICK docs : docs = Retrieved
      OBVIOUS
    <2>4. /\ Cost(Bounded(docs)) <= MaxContextChars \/ Cardinality(Bounded(docs)) = 1
          /\ \A d \in docs \ Bounded(docs) :
                LET better == {e \in Bounded(docs) : Precedes(e, d)}
                IN  better # {} /\ Cost(better) + d.cost > MaxContextChars
      BY <2>2, <2>3, BoundedKeepsTheBest
    <2> QED BY <2>1, <2>3, <2>4 DEF EvidenceIsBounded, Dropped
  <1> QED BY <1>1, RetrievalInvariant, PTL

(* The plan is none, or that of the evidence. *)
LEMMA PlanOfEvidence ==
    ASSUME PlanningInv, RetrievalInv
    PROVE  plan = NoPlan \/ plan = CandidatePlan(catalog, intent, evidence)
  BY DEF PlanningInv, VerdictIsComputed, RetrievalInv, PlanIsPending

(* PLN-4: the priorities of a plan are 1, 2, ... by falling risk, equal    *)
(* risks by test ID, for any number of tests.                              *)
THEOREM OrderIsByRiskTheorem == PlanningSpec => []OrderIsByRisk
  <1>1. ASSUME PlanningInv, RetrievalInv PROVE OrderIsByRisk
    <2>1. CASE plan = NoPlan
      <3>1. plan.items = {}
        BY <2>1 DEF NoPlan
      <3>2. 1..Cardinality(plan.items) = {}
        BY <3>1, FS_EmptySet
      <3> QED BY <3>1, <3>2 DEF OrderIsByRisk
    <2>2. CASE plan = CandidatePlan(catalog, intent, evidence)
      <3>1. PICK c \in Catalogs, docs \in SUBSET Documents, i \in Intents \cup {NoRequest} :
               c = catalog /\ i = intent /\ docs = evidence /\ IsFiniteSet(docs)
        BY <1>1, PlanIsOfValues DEF RetrievalInv
      <3>2. PICK items : items = CandidatePlan(c, i, docs).items
        OBVIOUS
      <3>3. /\ {x.priority : x \in items} = 1..Cardinality(items)
            /\ \A x, y \in items : x.priority < y.priority
                                     => RunsBefore(x.test, y.test, c, i, docs)
            /\ \A x \in items : x.score = RiskScore(x.test, c, i, docs)
        BY <3>1, <3>2, PrioritiesAreRanks
      <3>4. \A x, y \in items : x.priority < y.priority =>
               \/ x.score > y.score
               \/ x.score = y.score /\ x.test < y.test
        BY <3>3 DEF RunsBefore
      <3> QED BY <2>2, <3>1, <3>2, <3>3, <3>4 DEF OrderIsByRisk
    <2> QED BY <1>1, <2>1, <2>2, PlanOfEvidence
  <1> QED BY <1>1, PlanningInvariant, RetrievalInvariant, PTL

(* No piece of evidence lowers a factor of a planned test's risk.          *)
THEOREM MoreHistoryTheorem == PlanningSpec => []MoreHistoryNeverLowersRisk
  <1>1. ASSUME PlanningInv, RetrievalInv PROVE MoreHistoryNeverLowersRisk
    <2>1. CASE plan = NoPlan
      BY <2>1 DEF NoPlan, MoreHistoryNeverLowersRisk
    <2>2. CASE plan = CandidatePlan(catalog, intent, evidence)
      <3>1. PICK c \in Catalogs, docs \in SUBSET Documents, i \in Intents \cup {NoRequest} :
               c = catalog /\ i = intent /\ docs = evidence /\ IsFiniteSet(docs)
        BY <1>1, PlanIsOfValues DEF RetrievalInv
      <3>2. ASSUME NEW x \in CandidatePlan(c, i, docs).items, NEW d \in docs
            PROVE  LET without == RiskFactors(x.test, c, i, docs \ {d})
                   IN  \A name \in DOMAIN without : without[name] <= x.factors[name]
        <4>1. x.test \in DOMAIN c /\ x.factors = RiskFactors(x.test, c, i, docs)
          <5>1. PICK items : items = CandidatePlan(c, i, docs).items
            OBVIOUS
          <5>2. \A y \in items : /\ y.test \in Selected(c, i)
                                 /\ y.factors = RiskFactors(y.test, c, i, docs)
            BY <3>1, <5>1, PrioritiesAreRanks
          <5> QED BY <3>2, <5>1, <5>2 DEF Selected
        <4>2. PICK t \in DOMAIN c, less \in SUBSET docs : t = x.test /\ less = docs \ {d}
          BY <4>1
        <4>3. \A name \in DOMAIN RiskFactors(t, c, i, less) :
                 RiskFactors(t, c, i, less)[name] <= RiskFactors(t, c, i, docs)[name]
          BY <3>1, MoreFailuresMoreRisk
        <4> QED BY <4>1, <4>2, <4>3
      <3> QED BY <2>2, <3>1, <3>2 DEF MoreHistoryNeverLowersRisk
    <2> QED BY <1>1, <2>1, <2>2, PlanOfEvidence
  <1> QED BY <1>1, PlanningInvariant, RetrievalInvariant, PTL

(* Types, positive priorities, scores of at most one, and a reason for     *)
(* every near miss, for any catalog and knowledge base.                    *)
THEOREM PlanningTypes == PlanningSpec => []PlanningTypeOK
  <1>1. ASSUME PlanningInv, RetrievalInv PROVE PlanningTypeOK
    <2>1. StateFits /\ saved = {[test |-> x.test, priority |-> x.priority] : x \in plan.items}
      BY <1>1 DEF RetrievalInv, PlanIsPending
    <2>2. /\ \A x \in plan.items : x.priority \in Nat \ {0} /\ x.score \in 0..100
          /\ \A x \in plan.exclusions : x.reason \in {"scope", "browser", "region"}
      <3>1. CASE plan = NoPlan
        BY <3>1 DEF NoPlan
      <3>2. CASE plan = CandidatePlan(catalog, intent, evidence)
        <4>1. PICK c \in Catalogs, docs \in SUBSET Documents, i \in Intents \cup {NoRequest} :
                 c = catalog /\ i = intent /\ docs = evidence /\ IsFiniteSet(docs)
          BY <2>1, PlanIsOfValues
        <4>2. PICK items : items = CandidatePlan(c, i, docs).items
          OBVIOUS
        <4>3. /\ {x.priority : x \in items} = 1..Cardinality(items)
              /\ IsFiniteSet(items)
              /\ \A x \in items : x.test \in Selected(c, i)
                                  /\ x.score = RiskScore(x.test, c, i, docs)
          BY <4>1, <4>2, PrioritiesAreRanks
        <4>4. \A x \in items : x.priority \in Nat \ {0}
          <5>1. \A x \in items : x.priority \in 1..Cardinality(items)
            BY <4>3
          <5>2. Cardinality(items) \in Nat
            BY <4>3, FS_CardinalityType
          <5> QED BY <5>1, <5>2
        <4>5. \A x \in items : x.score \in 0..100
          <5>1. \A x \in items : x.test \in DOMAIN c
            BY <4>3 DEF Selected
          <5> QED BY <4>1, <4>3, <5>1, ScoreType
        <4>6. \A x \in CandidatePlan(c, i, docs).exclusions :
                 x.reason \in {"scope", "browser", "region"}
          <5>1. ASSUME NEW u \in DOMAIN c \ Selected(c, i), c[u].module = i.module
                PROVE  ExclusionReason(c[u], i) \in {"scope", "browser", "region"}
            BY <5>1 DEF Selected, ExclusionReason
          <5> QED BY <5>1 DEF CandidatePlan
        <4> QED BY <3>2, <4>1, <4>2, <4>4, <4>5, <4>6
      <3> QED BY <1>1, <3>1, <3>2, PlanOfEvidence
    <2> QED BY <2>1, <2>2 DEF StateFits, PlanningTypeOK
  <1> QED BY <1>1, PlanningInvariant, RetrievalInvariant, PTL

(* A rule that forbids the request and was stored when it arrived is       *)
(* enforced, or lost to top_k or to the budget, whatever is ingested in    *)
(* between and however often.                                              *)
THEOREM RuleIsLostOnlyByALimitTheorem == PlanningSpec => []RuleIsLostOnlyByALimit
  <1>1. ASSUME PlanningInv, RetrievalInv, EvidenceIsBounded PROVE RuleIsLostOnlyByALimit
    <2> SUFFICES ASSUME pc = "decided", NEW r \in known, Forbids(r, plan)
                 PROVE  \/ "JURISDICTION_VIOLATION" \in violations
                        \/ Cardinality(Closer(r, knowledge)) >= TopK
                        \/ /\ r \in Dropped
                           /\ Cost({e \in evidence : Precedes(e, r)}) + r.cost > MaxContextChars
      BY DEF RuleIsLostOnlyByALimit, Decided, Closer
    <2>1. /\ plan = CandidatePlan(catalog, intent, evidence)
          /\ violations = Violations(plan, catalog, intent, evidence)
      BY <1>1 DEF PlanningInv, VerdictIsComputed
    <2>2. r.type = "jurisdiction_rule" /\ r.region = intent.region /\ intent.module \in r.modules
      BY <2>1 DEF Forbids, CandidatePlan
    <2>3. CASE r \in evidence
      BY <2>1, <2>3 DEF Violations
    <2>4. CASE r \notin evidence /\ r \in groups["jurisdiction_rule"]
      <3>1. r \in Dropped
        BY <2>4 DEF Dropped, Retrieved, EvidenceTypes
      <3> QED BY <1>1, <3>1 DEF EvidenceIsBounded
    <2>5. CASE r \notin groups["jurisdiction_rule"]
      BY <1>1, <2>2, <2>5 DEF RetrievalInv, RulesAreRanked
    <2> QED BY <2>3, <2>4, <2>5
  <1> QED BY <1>1, PlanningInvariant, RetrievalInvariant, EvidenceIsBoundedTheorem, PTL

=============================================================================
