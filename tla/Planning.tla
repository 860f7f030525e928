------------------------------ MODULE Planning ------------------------------
(***************************************************************************)
(* From an actionable intent to a policy verdict: the retrieval agent asks *)
(* the vector store for evidence and bounds it, the planner selects and    *)
(* orders catalogued tests by risk, the policy service validates the plan, *)
(* and the plan is saved (src/app/agents/retrieval.py, src/app/services).  *)
(* Ingestion upserts documents into the same store between any two steps.  *)
(*                                                                         *)
(* Scores are in hundredths.  A document carries what the pipeline reads   *)
(* of it: its relevance to the query (score), its length (cost) and its    *)
(* metadata; "test" is read of documentation and failures only, "modules"  *)
(* and "unsupported" of rules only.                                        *)
(***************************************************************************)
EXTENDS Integers, FiniteSets, FiniteSetsExt

CONSTANTS
    Catalogs,        \* the catalogs considered: functions from test IDs
    Documents,       \* the documents an ingestion may upsert
    Intents,         \* the actionable intents considered
    TopK,            \* RetrievalAgent's top_k
    MaxContextChars, \* RetrievalAgent's max_context_chars
    NoDate,          \* a failure whose date does not parse
    NoRequest        \* no intent was handed over yet

EvidenceTypes == {"test_documentation", "historical_failure", "jurisdiction_rule"}

\* Documents and catalogued tests are what their models accept: a content is
\* never empty (models/evidence.py), a criticality is one of three.  A top_k below
\* 0 gets the same answer of the store as 0, which is none (retrieval/store.py).
ASSUME PlanningAssumption ==
    /\ \A c \in Catalogs :
          /\ DOMAIN c \subseteq Nat \ {0}
          /\ IsFiniteSet(DOMAIN c)
          /\ \A t \in DOMAIN c : c[t].criticality \in {"high", "medium", "low"}
    /\ \A d \in Documents :
          /\ d.type \in EvidenceTypes
          /\ d.score \in Int
          /\ d.cost \in Nat \ {0}
          /\ d.type = "historical_failure" => d.age \in Int \cup {NoDate}
    /\ NoRequest \notin Intents
    /\ TopK \in Nat
    /\ MaxContextChars \in Nat

\* The store never returns two documents of a type with one score: where it
\* would, the code keeps the store's order, which is none of its own.
ASSUME DistinctScores ==
    \A d, e \in Documents : d.type = e.type /\ d.score = e.score => d = e

VARIABLES
    catalog,     \* TestCatalog, immutable
    knowledge,   \* the documents in the vector store
    known,       \* history variable: knowledge when the request arrived
    pc,          \* where the request is
    intent,
    groups,      \* _query_groups: type -> matches
    evidence,    \* what _bound kept
    plan,
    violations,  \* codes of the policy's violations
    saved        \* test_plans rows of this workflow

vars == <<catalog, knowledge, known, pc, intent, groups, evidence, plan,
          violations, saved>>

-----------------------------------------------------------------------------
(* Compatibility is written twice in the code: once in the catalog's filter, *)
(* whose result becomes the store's where clause, once in the planner.       *)

\* TestCatalog.filter
Candidates(c, i) ==
    {t \in DOMAIN c : /\ c[t].module = i.module
                      /\ c[t].scope = i.scope
                      /\ i.browser \in c[t].browsers
                      /\ i.region \in c[t].regions}

\* Mutant: the planner forgets the region.
BadExclusionReasonNoRegion(case, i) ==
    IF case.module # i.module THEN "module"
    ELSE IF case.scope # i.scope THEN "scope"
    ELSE IF i.browser \notin case.browsers THEN "browser"
    ELSE "none"

\* _exclusion_reason: the first reason that applies
ExclusionReason(case, i) ==
    IF case.module # i.module THEN "module"
    ELSE IF case.scope # i.scope THEN "scope"
    ELSE IF i.browser \notin case.browsers THEN "browser"
    ELSE IF i.region \notin case.regions THEN "region"
    ELSE "none"

-----------------------------------------------------------------------------
(* Retrieval *)

\* Mutant: rules are not filtered by region.
BadCompatibleAnyRegion(type, c, i, docs) ==
    {d \in docs : d.type = type
                  /\ (type # "jurisdiction_rule" => d.test \in Candidates(c, i))}

\* _where_clause, over the documents of the store.  With no candidate test the
\* two queries by test are skipped, and an "in" over no test matches nothing.
Compatible(type, c, i, docs) ==
    {d \in docs :
        /\ d.type = type
        /\ IF type = "jurisdiction_rule"
           THEN d.region = i.region
           ELSE d.test \in Candidates(c, i)}

\* n_results: the k documents closest to the query
Nearest(k, docs) ==
    {d \in docs : Cardinality({e \in docs : e.score > d.score}) < k}

\* Mutant: the filter runs after the ranking.
BadMatchesFilterLast(type, c, i, docs) ==
    {d \in Compatible(type, c, i, Nearest(TopK, {e \in docs : e.type = type})) :
        type = "jurisdiction_rule" => i.module \in d.modules}

\* One turn of the loop of _query_groups.  The modules of a rule are a list
\* the store cannot filter by: they are compared after the query.
Matches(type, c, i, docs) ==
    {d \in Nearest(TopK, Compatible(type, c, i, docs)) :
        type = "jurisdiction_rule" => i.module \in d.modules}

Position(type) ==
    CASE type = "test_documentation" -> 1
      [] type = "historical_failure" -> 2
      [] type = "jurisdiction_rule"  -> 3

\* The order of "ranked": by score, then, the sort being stable, by group
Precedes(d, e) ==
    \/ d.score > e.score
    \/ d.score = e.score /\ Position(d.type) < Position(e.type)

Cost(docs) == MapThenSumSet(LAMBDA d : d.cost, docs)

Rank(d, docs) == 1 + Cardinality({e \in docs : Precedes(e, d)})

\* Mutant: the first document has to fit, too.
BadKeptAfterStrict(docs) ==
    LET kept[n \in 0..Cardinality(docs)] ==
            IF n = 0 THEN {}
            ELSE kept[n - 1] \cup
                 {d \in docs : /\ Rank(d, docs) = n
                               /\ Cost(kept[n - 1]) + d.cost <= MaxContextChars}
    IN  kept

\* What _bound's loop holds after n documents of the ranking: one that no
\* longer fits is dropped and the loop goes on; the first is always kept.
KeptAfter(docs) ==
    LET kept[n \in 0..Cardinality(docs)] ==
            IF n = 0 THEN {}
            ELSE kept[n - 1] \cup
                 {d \in docs : /\ Rank(d, docs) = n
                               /\ \/ Cost(kept[n - 1]) + d.cost <= MaxContextChars
                                  \/ Cost(kept[n - 1]) = 0}
    IN  kept

Bounded(docs) == {d \in docs : d \in KeptAfter(docs)[Rank(d, docs)]}

Retrieved == UNION {groups[type] : type \in EvidenceTypes}

-----------------------------------------------------------------------------
(* Planning *)

CriticalityWeight(criticality) ==
    CASE criticality = "high"   -> 50
      [] criticality = "medium" -> 30
      [] criticality = "low"    -> 10

\* Mutant: the oldest failure counts.
BadRecencyWeightOldest(failures) ==
    LET ages == {d.age : d \in {f \in failures : f.age # NoDate /\ f.age >= 0}}
    IN  IF ages = {} THEN 0
        ELSE IF Max(ages) <= 30 THEN 10
        ELSE IF Max(ages) <= 90 THEN 5
        ELSE 0

\* Only dated failures that are not in the future have a recency.
RecencyWeight(failures) ==
    LET ages == {d.age : d \in {f \in failures : f.age # NoDate /\ f.age >= 0}}
    IN  IF ages = {} THEN 0
        ELSE IF Min(ages) <= 30 THEN 10
        ELSE IF Min(ages) <= 90 THEN 5
        ELSE 0

MatchingWeight(failures, i) ==
    IF \E d \in failures : d.browser = i.browser /\ d.region = i.region
    THEN 10 ELSE 0

\* The factors risk_score records; the score is their sum, at most one.
RiskFactors(t, c, i, docs) ==
    LET failures == {d \in docs : d.type = "historical_failure" /\ d.test = t}
    IN  [criticality |-> CriticalityWeight(c[t].criticality),
         frequency |-> (30 * Min({Cardinality(failures), 3})) \div 3,
         recency |-> RecencyWeight(failures),
         matching |-> MatchingWeight(failures, i)]

Total(f) == f.criticality + f.frequency + f.recency + f.matching

RiskScore(t, c, i, docs) == Min({100, Total(RiskFactors(t, c, i, docs))})

Selected(c, i) == {t \in DOMAIN c : ExclusionReason(c[t], i) = "none"}

\* Mutant: the sort key lost its minus sign.
BadRunsBeforeAscending(t, u, c, i, docs) ==
    \/ RiskScore(t, c, i, docs) < RiskScore(u, c, i, docs)
    \/ RiskScore(t, c, i, docs) = RiskScore(u, c, i, docs) /\ t < u

\* Highest risk first, then test ID
RunsBefore(t, u, c, i, docs) ==
    \/ RiskScore(t, c, i, docs) > RiskScore(u, c, i, docs)
    \/ RiskScore(t, c, i, docs) = RiskScore(u, c, i, docs) /\ t < u

\* One PlanItem; the items are enumerated, in the order of the sort, from start.
Item(t, start, c, i, docs) ==
    [test |-> t,
     score |-> RiskScore(t, c, i, docs),
     factors |-> RiskFactors(t, c, i, docs),
     priority |-> start + Cardinality({u \in Selected(c, i) :
                                          RunsBefore(u, t, c, i, docs)})]

\* Mutant: priorities are enumerated from zero.
BadCandidatePlanFromZero(c, i, docs) ==
    [module |-> i.module, scope |-> i.scope,
     browser |-> i.browser, region |-> i.region,
     items |-> {Item(t, 0, c, i, docs) : t \in Selected(c, i)},
     exclusions |->
        {[test |-> t, reason |-> ExclusionReason(c[t], i)] :
            t \in {u \in DOMAIN c \ Selected(c, i) : c[u].module = i.module}}]

\* TestPlanner.plan.  Near misses of the module are recorded with the reason.
CandidatePlan(c, i, docs) ==
    [module |-> i.module, scope |-> i.scope,
     browser |-> i.browser, region |-> i.region,
     items |-> {Item(t, 1, c, i, docs) : t \in Selected(c, i)},
     exclusions |->
        {[test |-> t, reason |-> ExclusionReason(c[t], i)] :
            t \in {u \in DOMAIN c \ Selected(c, i) : c[u].module = i.module}}]

NoPlan == [items |-> {}, exclusions |-> {}]

-----------------------------------------------------------------------------
(* Policy *)

\* _check_plan_matches_intent
IntentViolations(p, i) ==
    IF /\ p.module = i.module /\ p.scope = i.scope
       /\ p.browser = i.browser /\ p.region = i.region
    THEN {} ELSE {"INTENT_MISMATCH"}

\* _check_tests, of one item
TestViolations(t, c, p) ==
    IF t \notin DOMAIN c THEN {"UNKNOWN_TEST"}
    ELSE {code \in {"MODULE_MISMATCH", "SCOPE_MISMATCH",
                    "UNSUPPORTED_BROWSER", "UNSUPPORTED_REGION"} :
            \/ code = "MODULE_MISMATCH" /\ c[t].module # p.module
            \/ code = "SCOPE_MISMATCH" /\ c[t].scope # p.scope
            \/ code = "UNSUPPORTED_BROWSER" /\ p.browser \notin c[t].browsers
            \/ code = "UNSUPPORTED_REGION" /\ p.region \notin c[t].regions}

\* The rules _check_jurisdiction finds broken
Forbids(d, p) ==
    /\ d.type = "jurisdiction_rule"
    /\ d.region = p.region
    /\ p.module \in d.modules
    /\ p.browser \in d.unsupported

\* PolicyService.validate
Violations(p, c, i, docs) ==
    IntentViolations(p, i)
    \cup (UNION {TestViolations(x.test, c, p) : x \in p.items})
    \cup {"JURISDICTION_VIOLATION" : d \in {e \in docs : Forbids(e, p)}}
    \cup (IF p.items = {} THEN {"NO_TESTS_SELECTED"} ELSE {})

-----------------------------------------------------------------------------
Init ==
    /\ catalog \in Catalogs
    /\ knowledge = {}
    /\ known = {}
    /\ pc = "idle"
    /\ intent = NoRequest
    /\ groups = [type \in EvidenceTypes |-> {}]
    /\ evidence = {}
    /\ plan = NoPlan
    /\ violations = {}
    /\ saved = {}

\* store.upsert, of a batch of an ingestion, which is another process.  One
\* document at a time is the finest order a batch can become visible in, and
\* a document that is already there is written again without effect.
Upsert(d) ==
    /\ knowledge' = knowledge \cup {d}
    /\ UNCHANGED <<catalog, known, pc, intent, groups, evidence, plan,
                   violations, saved>>

\* A workflow hands its actionable intent to retrieve.
Ask(i) ==
    /\ pc \in {"idle", "failed", "decided"}
    /\ pc' = "test_documentation"
    /\ intent' = i
    /\ known' = knowledge
    /\ groups' = [type \in EvidenceTypes |-> {}]
    /\ evidence' = {}
    /\ plan' = NoPlan
    /\ violations' = {}
    /\ saved' = {}
    /\ UNCHANGED <<catalog, knowledge>>

AfterQuery ==
    [type \in EvidenceTypes |->
        CASE type = "test_documentation" -> "historical_failure"
          [] type = "historical_failure" -> "jurisdiction_rule"
          [] type = "jurisdiction_rule"  -> "bound"]

\* One query of _query_groups
Query(type) ==
    /\ pc = type
    /\ groups' = [groups EXCEPT ![type] = Matches(type, catalog, intent, knowledge)]
    /\ pc' = AfterQuery[type]
    /\ UNCHANGED <<catalog, knowledge, known, intent, evidence, plan,
                   violations, saved>>

\* The embedding provider, before the first query, or the store fails:
\* RetrievalError, and the workflow ends without a plan, whatever the earlier
\* queries returned.  A query that is skipped cannot fail.
RetrievalFails(type) ==
    /\ pc = type
    /\ type = "historical_failure" => Candidates(catalog, intent) # {}
    /\ pc' = "failed"
    /\ UNCHANGED <<catalog, knowledge, known, intent, groups, evidence, plan,
                   violations, saved>>

\* _bound, and the retrieval node's result
Bound ==
    /\ pc = "bound"
    /\ evidence' = Bounded(Retrieved)
    /\ pc' = "plan"
    /\ UNCHANGED <<catalog, knowledge, known, intent, groups, plan, violations,
                   saved>>

\* PlanningService.plan_and_validate: the plan, its verdict, and the rows of
\* its items, if it has any, in one transaction of their own.
PlanAndValidate ==
    /\ pc = "plan"
    /\ plan' = CandidatePlan(catalog, intent, evidence)
    /\ violations' = Violations(plan', catalog, intent, evidence)
    /\ saved' = {[test |-> x.test, priority |-> x.priority] : x \in plan'.items}
    /\ pc' = "decided"
    /\ UNCHANGED <<catalog, knowledge, known, intent, groups, evidence>>

Next ==
    \/ \E d \in Documents : Upsert(d)
    \/ \E i \in Intents : Ask(i)
    \/ \E type \in EvidenceTypes : Query(type) \/ RetrievalFails(type)
    \/ Bound
    \/ PlanAndValidate

PlanningSpec == Init /\ [][Next]_vars

-----------------------------------------------------------------------------
(* Properties *)

Decided == pc = "decided"

Dropped == Retrieved \ evidence

\* Types, and what the models of models/plan.py accept: a positive priority, a
\* score of at most one, one reason for every near miss.
PlanningTypeOK ==
    /\ catalog \in Catalogs
    /\ knowledge \subseteq Documents
    /\ known \subseteq knowledge
    /\ pc \in EvidenceTypes \cup {"idle", "bound", "plan", "failed", "decided"}
    /\ intent \in Intents \cup {NoRequest}
    /\ groups \in [EvidenceTypes -> SUBSET knowledge]
    /\ evidence \subseteq knowledge
    /\ \A x \in plan.items : x.priority \in Nat \ {0} /\ x.score \in 0..100
    /\ \A x \in plan.exclusions : x.reason \in {"scope", "browser", "region"}
    /\ saved = {[test |-> x.test, priority |-> x.priority] : x \in plan.items}

\* The two places that decide what a test can run on agree: what the planner
\* selects passes every check of the policy service on tests and context, so
\* that a request is only rejected because nothing matched or a rule forbids it.
PlannerMeetsPolicy ==
    violations \subseteq {"NO_TESTS_SELECTED", "JURISDICTION_VIOLATION"}

\* RET-4: no document about a test the plan does not run reaches the planner,
\* although the store was filtered by the catalog's predicate and the plan was
\* selected by the planner's; and no rule of another region or module does.
EvidenceMatchesIntent ==
    Decided => \A d \in evidence :
        IF d.type = "jurisdiction_rule"
        THEN d.region = intent.region /\ intent.module \in d.modules
        ELSE d.test \in {x.test : x \in plan.items}

\* RET-5: the evidence respects the budget unless it is one document too large
\* for it; the best match is never lost; and what was dropped really did not
\* fit beside the better evidence that was kept.
EvidenceIsBounded ==
    pc \in {"plan", "decided"} =>
        /\ Cost(evidence) <= MaxContextChars \/ Cardinality(evidence) = 1
        /\ \A d \in Dropped :
              LET better == {e \in evidence : Precedes(e, d)}
              IN  better # {} /\ Cost(better) + d.cost > MaxContextChars

\* PLN-4: the priorities of a plan are 1, 2, ..., in the order of falling risk,
\* equal risks by test ID, so that the order of execution does not depend on
\* the order of the catalog or of the evidence.
OrderIsByRisk ==
    /\ {x.priority : x \in plan.items} = 1..Cardinality(plan.items)
    /\ \A x, y \in plan.items : x.priority < y.priority =>
          \/ x.score > y.score
          \/ x.score = y.score /\ x.test < y.test

\* More history never makes a test look safer: without any one piece of its
\* evidence no factor of a planned test's risk would have been higher.  A
\* recency of the wrong failure, or conditions all failures must match, break it.
MoreHistoryNeverLowersRisk ==
    \A x \in plan.items : \A d \in evidence :
        LET without == RiskFactors(x.test, catalog, intent, evidence \ {d})
        IN  \A name \in DOMAIN without : without[name] <= x.factors[name]

\* A rule that was in the store when the request arrived and forbids it is
\* enforced, whatever is ingested meanwhile, unless it is crowded out: by
\* top_k closer rules of its region, or by the better evidence in the budget.
RuleIsLostOnlyByALimit ==
    Decided => \A r \in known : Forbids(r, plan) =>
        \/ "JURISDICTION_VIOLATION" \in violations
        \/ Cardinality({e \in knowledge : /\ e.type = r.type
                                          /\ e.region = r.region
                                          /\ e.score > r.score}) >= TopK
        \/ /\ r \in Dropped
           /\ Cost({e \in evidence : Precedes(e, r)}) + r.cost > MaxContextChars

\* "Deterministic metadata filters run first; semantic search then ranks only
\* the compatible subset" (agents/retrieval.py:3): a rule that forbids the
\* request and is among the top_k of the rules for its region and module is
\* enforced unless the budget dropped it.
CompatibleRulesAreRanked ==
    Decided => \A r \in known : Forbids(r, plan) /\ r \notin Dropped =>
        \/ "JURISDICTION_VIOLATION" \in violations
        \/ Cardinality({e \in knowledge : /\ e.type = r.type
                                          /\ e.region = r.region
                                          /\ intent.module \in e.modules
                                          /\ e.score > r.score}) >= TopK

=============================================================================
