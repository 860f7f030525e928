---------------------------- MODULE ResultAnalysis ----------------------------
(***************************************************************************)
(* The result analyzer (app/agents/analysis.py) and the node that calls it *)
(* (analysis_node): the evidence is cut to what fits the prompt, the       *)
(* provider explains the failures, what it claims is checked against the   *)
(* results and that evidence, and a report is recorded and saved: the      *)
(* provider's, or a deterministic one that only counts.                    *)
(*                                                                         *)
(* Of an answer the model has what _to_report looks at: the rows about     *)
(* failed tests, whether there is a summary, the flag.  Its observations,  *)
(* which nothing checks, are left out.                                     *)
(***************************************************************************)
EXTENDS AgentRuns, FiniteSetsExt

CONSTANTS
    Tests,        \* tests of the catalog
    Docs,         \* documents of the knowledge base, by source id
    Score,        \* document -> its score for the query, absent being 0
    Length,       \* document -> the length of its content
    MaxEvidence,  \* documents in a prompt
    MaxChars,     \* length of the documents in a prompt
    MaxRows       \* bound on the failures of an answer

ASSUME AnalysisAssumption ==
    /\ IsFiniteSet(Docs)
    /\ Score \in [Docs -> Nat]
    /\ Length \in [Docs -> Nat]
    /\ MaxEvidence \in Nat \ {0}
    /\ MaxChars \in Nat
    /\ MaxRows \in Nat

VARIABLES
    analyzer,  \* what is wired: "none", "agent_without_provider" or "agent"
    results,   \* executed test -> "passed" or "failed"
    evidence,  \* the evidence of the plan, a sequence of documents
    shown,     \* the documents of it that are in the prompt
    report,    \* the report the thread holds, NoReport before
    verdict,   \* the status analysis_node will advance to
    saved      \* the rows of the workflow in analysis_reports

analysisVars == <<analyzer, results, evidence, shown, report, verdict, saved>>

NoResults == [t \in {} |-> "passed"]
NoReport == [kind |-> "none", failures |-> <<>>, insufficient |-> FALSE,
             observations |-> NoResults, reason |-> "none"]

Given == {evidence[i] : i \in DOMAIN evidence}
Failed == {t \in DOMAIN results : results[t] = "failed"}

-----------------------------------------------------------------------------
(* _bound_evidence *)

\* sorted(evidence, key=score, reverse=True), which is stable
RankOf(i) ==
    1 + Cardinality({j \in DOMAIN evidence :
            \/ Score[evidence[j]] > Score[evidence[i]]
            \/ Score[evidence[j]] = Score[evidence[i]] /\ j < i})

LengthUpTo(n) ==
    MapThenSumSet(LAMBDA i : Length[evidence[i]], {i \in DOMAIN evidence : RankOf(i) <= n})

\* The loop ends at the first document that does not fit; the first one is
\* always kept.
Bounded ==
    {evidence[i] : i \in {j \in DOMAIN evidence :
        /\ RankOf(j) <= MaxEvidence
        /\ \A n \in 2 .. RankOf(j) : LengthUpTo(n) <= MaxChars}}

-----------------------------------------------------------------------------
(* What the provider can say *)

\* A row that is a FailureAnalysis: its sources are not empty.
Failure == [valid : {TRUE}, test : Tests, sources : (SUBSET Docs) \ {{}}]

InvalidRow == [valid |-> FALSE, test |-> "none", sources |-> {}]

Answers == [failures : UNION {[1 .. n -> Failure \cup {InvalidRow}] : n \in 0 .. MaxRows},
            summarised : BOOLEAN, insufficient : BOOLEAN]

-----------------------------------------------------------------------------
(* _to_report *)

\* Mutant: sources are checked against everything that was retrieved.
BadObjection(row) ==
    CASE ~row.valid                   -> "invalid"
      [] row.test \notin DOMAIN results -> "unknown_test"
      [] row.test \notin Failed       -> "did_not_fail"
      [] ~(row.sources \subseteq Given) -> "unavailable_evidence"
      [] OTHER                        -> "none"

Objection(row) ==
    CASE ~row.valid                   -> "invalid"
      [] row.test \notin DOMAIN results -> "unknown_test"
      [] row.test \notin Failed       -> "did_not_fail"
      [] ~(row.sources \subseteq shown) -> "unavailable_evidence"
      [] OTHER                        -> "none"

Accepted(answer) ==
    /\ \A i \in DOMAIN answer.failures : Objection(answer.failures[i]) = "none"
    /\ answer.summarised

\* The first row that is objected to decides; AnalysisReport wants a summary.
Rejection(answer) ==
    LET refused == {i \in DOMAIN answer.failures : Objection(answer.failures[i]) # "none"}
    IN  IF refused = {} THEN "no_summary" ELSE Objection(answer.failures[Min(refused)])

Generated(answer) ==
    [NoReport EXCEPT !.kind = "ai_generated", !.failures = answer.failures,
                     !.insufficient = answer.insufficient]

\* fallback_report
Fallback(reason) ==
    [NoReport EXCEPT !.kind = "fallback", !.observations = results,
                     !.insufficient = (Failed # {}), !.reason = reason]

Judged(answer) ==
    IF Accepted(answer) THEN Generated(answer) ELSE Fallback(Rejection(answer))

AnalysisInit ==
    /\ results = NoResults
    /\ evidence = <<>>
    /\ shown = {}
    /\ report = NoReport
    /\ verdict = "none"
    /\ saved = <<>>

-----------------------------------------------------------------------------
(* ResultAnalyzer.analyze and analysis_node *)

Hold(next, value) ==
    /\ report' = value
    /\ pc' = next
    /\ UNCHANGED <<configured, status, runs, analyzer, results, evidence, shown, saved>>

\* The node goes on without the analyzer, or after it raised.
Degrade(reason) ==
    /\ Hold("analysis_save", Fallback(reason))
    /\ verdict' = "fallback_summary"

\* Mutant: asks whether there is a key, not whether there is an analyzer.
BadWithoutAnalyzer ==
    /\ pc = "analysis"
    /\ ~configured
    /\ Degrade("no_provider")

WithoutAnalyzer ==
    /\ pc = "analysis"
    /\ analyzer = "none"
    /\ Degrade("no_provider")

BoundEvidence ==
    /\ pc = "analysis"
    /\ analyzer # "none"
    /\ shown' = Bounded
    /\ pc' = "analysis_ask"
    /\ UNCHANGED <<configured, status, runs, analyzer, results, evidence, report, verdict, saved>>

WithoutProvider ==
    /\ pc = "analysis_ask"
    /\ analyzer = "agent_without_provider"
    /\ Hold("analysis_record", Fallback("no_provider"))
    /\ UNCHANGED verdict

AnalysisAnswered ==
    /\ pc = "analysis_ask"
    /\ analyzer = "agent"
    /\ \E answer \in Answers : Hold("analysis_record", Judged(answer))
    /\ UNCHANGED verdict

\* extract_structured raised, or it returned something else than an object.
AnalysisUnanswered ==
    /\ pc = "analysis_ask"
    /\ analyzer = "agent"
    /\ \E reason \in ProviderErrors \cup {"not_object"} :
          Hold("analysis_record", Fallback(reason))
    /\ UNCHANGED verdict

\* An object whose failures or observations are no lists raises a TypeError
\* that only the node catches.
AnalyzerRaises ==
    /\ pc = "analysis_ask"
    /\ analyzer = "agent"
    /\ Degrade("raised")

\* The status and the error _finish is called with
RunStatus == IF report.reason \in {"none", "no_provider"} THEN "completed" ELSE "failed"
RunError == IF RunStatus = "failed" THEN report.reason ELSE "none"

\* Mutant: the analyzer is given the AnalysisRepository too.
BadRecordAnalysisRunSaves ==
    /\ pc = "analysis_record"
    /\ RecordRun("analysis", RunStatus, report, RunError)
    /\ saved' = Append(saved, report)
    /\ verdict' = "analyzed"
    /\ pc' = "analysis_save"
    /\ UNCHANGED <<configured, status, analyzer, results, evidence, shown, report>>

RecordAnalysisRun ==
    /\ pc = "analysis_record"
    /\ RecordRun("analysis", RunStatus, report, RunError)
    /\ verdict' = "analyzed"
    /\ pc' = "analysis_save"
    /\ UNCHANGED <<configured, status, analyzer, results, evidence, shown, report, saved>>

\* Mutant: what the analyzer found is kept although analyze raised.
BadRecordAnalysisRunFails ==
    /\ pc = "analysis_record"
    /\ verdict' = "analyzed"
    /\ pc' = "analysis_save"
    /\ UNCHANGED <<configured, status, runs, analyzer, results, evidence, shown, report, saved>>

\* The audit row cannot be written: the node takes it for a failed analysis
\* and drops the report, also one that was accepted.
RecordAnalysisRunFails ==
    /\ pc = "analysis_record"
    /\ Degrade("raised")

SaveReport ==
    /\ pc = "analysis_save"
    /\ saved' = Append(saved, report)
    /\ pc' = "analysis_advance"
    /\ UNCHANGED <<configured, status, runs, analyzer, results, evidence, shown, report, verdict>>

AdvanceAnalysis ==
    /\ pc = "analysis_advance"
    /\ status' = verdict
    /\ pc' = "end"
    /\ UNCHANGED <<configured, runs, analyzer, results, evidence, shown, report, verdict, saved>>

AnalysisStep ==
    \/ WithoutAnalyzer
    \/ BoundEvidence
    \/ WithoutProvider
    \/ AnalysisAnswered
    \/ AnalysisUnanswered
    \/ AnalyzerRaises
    \/ RecordAnalysisRun
    \/ RecordAnalysisRunFails
    \/ SaveReport
    \/ AdvanceAnalysis

-----------------------------------------------------------------------------
(* Properties *)

Truthful(r) ==
    /\ \A i \in DOMAIN r.failures :
          /\ r.kind = "ai_generated"
          /\ r.failures[i].test \in Failed
          /\ r.failures[i].sources # {}
          /\ r.failures[i].sources \subseteq Given
          /\ \A s \in r.failures[i].sources, d \in Given \ shown :
                s \in shown /\ Score[d] <= Score[s]
    /\ r.kind = "fallback" =>
          /\ r.insufficient <=> Failed # {}
          /\ r.observations = results

\* analysis.py:3-5: output that cannot be verified against the results and the
\* evidence is discarded.  Whatever the provider answers and whatever fails
\* afterwards, the causes of a report are about tests that ran and failed and
\* cite evidence the plan was made with, never a document that was shown in
\* place of a stronger one; and a report that is not the provider's names no
\* cause and owns up to every failure.
ReportIsTruthful ==
    Truthful(report) /\ \A i \in DOMAIN saved : Truthful(saved[i])

=============================================================================
