------------------------- MODULE WorkflowAgents_proofs -------------------------
(***************************************************************************)
(* Safety of the two language model agents, for every vocabulary, every    *)
(* answer of the provider, every threshold and every budget.               *)
(*                                                                         *)
(* The properties of the intent agent are facts about Decide once it is    *)
(* known that the outcome is Decide of the payload (OutcomeIsDecided).     *)
(* ReportIsTruthful rests on what was shown being fixed before the         *)
(* provider is asked (ShownIsStrongest) and on the report being the only   *)
(* one that is ever saved (ThreadHolds); AuditMatchesReport on what the    *)
(* table of runs holds at each point of the thread (RunsTellTheStory).     *)
(***************************************************************************)
EXTENDS WorkflowAgents, FiniteSetTheorems, SequenceTheorems, TLAPS

-----------------------------------------------------------------------------
(* The decision on a payload *)

(* A value that was resolved is in the vocabulary, and comes from the text. *)
LEMMA ResolveIsGrounded ==
    ASSUME NEW f \in Fields, NEW text, Resolve(f, text) # NoValue
    PROVE  /\ Resolve(f, text) \in Values(f)
           /\ \/ /\ Candidate[text] \in DOMAIN Members[f]
                 /\ Resolve(f, text) = Members[f][Candidate[text]]
              \/ /\ Candidate[text] \in DOMAIN Synonyms[f]
                 /\ Resolve(f, text) = Synonyms[f][Candidate[text]]
BY IntentAssumption DEF IntentAssumption, Resolve, Values

(* A text is resolved if and only if the vocabulary of its field has it. *)
LEMMA ResolveIsComplete ==
    ASSUME NEW f \in Fields, NEW text
    PROVE  Resolve(f, text) = NoValue <=>
              /\ Candidate[text] \notin DOMAIN Members[f]
              /\ Candidate[text] \notin DOMAIN Synonyms[f]
<1>1. CASE Candidate[text] = Blank
    BY <1>1, IntentAssumption DEF IntentAssumption, Resolve
<1>2. CASE Candidate[text] # Blank /\ Candidate[text] \in DOMAIN Members[f]
    <2>1. Members[f][Candidate[text]] \in Values(f)
        BY <1>2 DEF Values
    <2> QED BY <1>2, <2>1, IntentAssumption DEF IntentAssumption, Resolve
<1>3. CASE /\ Candidate[text] # Blank /\ Candidate[text] \notin DOMAIN Members[f]
           /\ Candidate[text] \in DOMAIN Synonyms[f]
    <2>1. Synonyms[f][Candidate[text]] \in Values(f)
        BY <1>3, IntentAssumption DEF IntentAssumption
    <2> QED BY <1>3, <2>1, IntentAssumption DEF IntentAssumption, Resolve
<1>4. CASE /\ Candidate[text] # Blank /\ Candidate[text] \notin DOMAIN Members[f]
           /\ Candidate[text] \notin DOMAIN Synonyms[f]
    BY <1>4 DEF Resolve
<1> QED BY <1>1, <1>2, <1>3, <1>4

(* An intent that is decided on is complete, grounded and certain enough. *)
LEMMA DecidedIntent ==
    ASSUME NEW p \in Payloads, Decide(p).kind = "intent"
    PROVE  /\ Decide(p) = Intent(Normalized(p))
           /\ p.confidence \in Threshold .. 100
           /\ \A f \in Fields : IsText(p.fields[f]) /\ Normalized(p)[f] # NoValue
<1>1. p.confidence \in Int
    BY IntentAssumption DEF IntentAssumption, Payloads
<1>2. /\ p.confidence \in 0 .. 100 /\ Unsupported(p) = {} /\ Missing(p) = {}
      /\ ~(p.confidence < Threshold) /\ Decide(p) = Intent(Normalized(p))
    BY DEF Decide, Clarify, InvalidOutput, NoOutcome
<1>3. p.confidence \in Threshold .. 100
    BY <1>1, <1>2, IntentAssumption DEF IntentAssumption
<1>4. \A f \in Fields : IsText(p.fields[f]) /\ Normalized(p)[f] # NoValue
    BY <1>2 DEF Missing, Normalized
<1> QED BY <1>2, <1>3, <1>4

(* The fields a payload leaves without a value are those whose text, if any, *)
(* is in no vocabulary; a field that was refused is one of them.             *)
LEMMA MissingIsTheGap ==
    ASSUME NEW p
    PROVE  /\ Unsupported(p) \subseteq Missing(p)
           /\ Missing(p) = {f \in Fields : IsText(p.fields[f]) =>
                    /\ Candidate[p.fields[f]] \notin DOMAIN Members[f]
                    /\ Candidate[p.fields[f]] \notin DOMAIN Synonyms[f]}
<1>1. \A f \in Fields : f \in Missing(p) <=>
          (IsText(p.fields[f]) => Resolve(f, p.fields[f]) = NoValue)
    BY DEF Missing, Normalized
<1>2. \A f \in Unsupported(p) : f \in Fields /\
          (IsText(p.fields[f]) => Resolve(f, p.fields[f]) = NoValue)
    BY DEF Unsupported, IsText
<1>3. Missing(p) \subseteq Fields
    BY DEF Missing
<1> QED BY <1>1, <1>2, <1>3, ResolveIsComplete

(* What the schema lets through names nothing that is not supported. *)
LEMMA AllowedIsSupported ==
    ASSUME NEW p, SchemaAllows(p)
    PROVE  Unsupported(p) = {}
<1> SUFFICES ASSUME NEW f \in Unsupported(p) PROVE FALSE
    OBVIOUS
<1>1. f \in Fields
    BY DEF Unsupported
<1>2. CASE p.fields[f] = Null
    BY <1>1, <1>2, IntentAssumption DEF IntentAssumption, Unsupported, IsText
<1>3. CASE p.fields[f] \in Values(f)
    <2>1. IsText(p.fields[f]) /\ Candidate[p.fields[f]] \in DOMAIN Members[f]
        BY <1>1, <1>3, IntentAssumption DEF IntentAssumption
    <2>2. Resolve(f, p.fields[f]) # NoValue
        BY <1>1, <2>1, ResolveIsComplete
    <2> QED BY <2>1, <2>2 DEF Unsupported, IsText
<1> QED BY <1>1, <1>2, <1>3 DEF SchemaAllows

-----------------------------------------------------------------------------
(* What the intent agent has returned *)

OutcomeIsDecided ==
    /\ pc = "intent" => payload = NoPayload
    /\ payload.usable => payload \in Payloads /\ outcome = Decide(payload)
    /\ pc \in {"intent_record", "intent_advance"} /\ ~payload.usable =>
          /\ payload = NoPayload
          /\ outcome.kind = "clarification" /\ outcome.missing = Fields
          /\ outcome.unsupported = {}

(* Past the intent agent there is no payload; these steps leave the rest alone. *)
LEMMA AnalysisKeepsIntent ==
    ASSUME Analysis
    PROVE  /\ UNCHANGED <<payload, outcome, configured>>
           /\ pc \in {"analysis", "analysis_ask", "analysis_record", "analysis_save",
                      "analysis_advance"}
           /\ pc' \in {"analysis_ask", "analysis_record", "analysis_save", "analysis_advance",
                       "end"}
BY DEF Analysis, AnalysisStep, WithoutAnalyzer, BoundEvidence, WithoutProvider, AnalysisAnswered,
       AnalysisUnanswered, AnalyzerRaises, RecordAnalysisRun, RecordAnalysisRunFails, SaveReport,
       AdvanceAnalysis, Degrade, Hold, intentVars

(* Nothing but the provider's answer sets a payload, and parse_intent decides on it. *)
LEMMA OutcomeStep == OutcomeIsDecided /\ [Next]_vars => OutcomeIsDecided'
<1> SUFFICES ASSUME OutcomeIsDecided, [Next]_vars PROVE OutcomeIsDecided'
    OBVIOUS
<1>1. CASE ParseBlank \/ ProviderReturnsNoObject \/ ProviderFails
    <2>1. /\ payload' = payload /\ payload = NoPayload /\ pc' = "intent_record"
          /\ outcome'.kind = "clarification" /\ outcome'.missing = Fields
          /\ outcome'.unsupported = {}
        BY <1>1 DEF ParseBlank, ProviderReturnsNoObject, ProviderFails, Clarify, InvalidOutput,
                    NoOutcome, OutcomeIsDecided
    <2> QED BY <2>1 DEF OutcomeIsDecided, NoPayload
<1>2. CASE ProviderAnswers
    <2>1. payload' \in Payloads /\ payload'.usable
        BY <1>2 DEF ProviderAnswers, Payloads
    <2> QED BY <1>2, <2>1 DEF ProviderAnswers, OutcomeIsDecided
<1>3. CASE RecordIntentRun
    BY <1>3 DEF RecordIntentRun, OutcomeIsDecided
<1>4. CASE AdvanceIntent
    BY <1>4 DEF AdvanceIntent, OutcomeIsDecided, NoPayload
<1>5. CASE Deliver \/ EndsEarly \/ Abandon
    BY <1>5 DEF Deliver, EndsEarly, Abandon, OutcomeIsDecided, intentVars
<1>6. CASE Analysis
    BY <1>6, AnalysisKeepsIntent DEF OutcomeIsDecided
<1>7. CASE UNCHANGED vars
    BY <1>7 DEF vars, sharedVars, intentVars, OutcomeIsDecided
<1> QED BY <1>1, <1>2, <1>3, <1>4, <1>5, <1>6, <1>7 DEF Next, Intents, IntentStep

LEMMA OutcomeInvariant == Spec => []OutcomeIsDecided
<1>1. Init => OutcomeIsDecided
    BY DEF Init, IntentInit, NoPayload, OutcomeIsDecided
<1> QED BY <1>1, OutcomeStep, PTL DEF Spec

(* NothingIsGuessed, for every vocabulary and every answer.  An intent has a   *)
(* value of the vocabulary in every field, reached from that field's own text. *)
THEOREM NothingIsGuessedTheorem == Spec => []NothingIsGuessed
<1>1. OutcomeIsDecided => NothingIsGuessed
    <2> SUFFICES ASSUME OutcomeIsDecided, outcome.kind = "intent",
                        pc \in {"intent_record", "intent_advance"}
                 PROVE  /\ payload.usable
                        /\ \A f \in Fields :
                              /\ IsText(payload.fields[f])
                              /\ outcome.values[f] \in Values(f)
                              /\ \/ /\ Candidate[payload.fields[f]] \in DOMAIN Members[f]
                                    /\ outcome.values[f] = Members[f][Candidate[payload.fields[f]]]
                                 \/ /\ Candidate[payload.fields[f]] \in DOMAIN Synonyms[f]
                                    /\ outcome.values[f] = Synonyms[f][Candidate[payload.fields[f]]]
                        /\ payload.confidence \in Threshold .. 100
        BY DEF NothingIsGuessed
    <2>1. payload.usable /\ payload \in Payloads /\ outcome = Decide(payload)
        BY DEF OutcomeIsDecided
    <2>2. /\ outcome = Intent(Normalized(payload))
          /\ payload.confidence \in Threshold .. 100
          /\ \A f \in Fields : IsText(payload.fields[f]) /\ Normalized(payload)[f] # NoValue
        BY <2>1, DecidedIntent
    <2>3. \A f \in Fields : outcome.values[f] = Resolve(f, payload.fields[f])
        BY <2>2 DEF Intent, NoOutcome, Normalized
    <2>4. \A f \in Fields : Resolve(f, payload.fields[f]) # NoValue
        BY <2>2 DEF Normalized
    <2> QED BY <2>1, <2>2, <2>3, <2>4, ResolveIsGrounded
<1> QED BY <1>1, OutcomeInvariant, PTL

(* ClarificationNamesTheGap, for every vocabulary, every answer and none: a    *)
(* clarification lists the fields without a usable value, the refused ones     *)
(* among them, unless the answer's confidence is no probability; then it lists *)
(* all of them.                                                                *)
THEOREM ClarificationNamesTheGapTheorem == Spec => []ClarificationNamesTheGap
<1>1. OutcomeIsDecided => ClarificationNamesTheGap
    <2> SUFFICES ASSUME OutcomeIsDecided, outcome.kind = "clarification",
                        pc \in {"intent_record", "intent_advance"}
                 PROVE  /\ outcome.unsupported \in {{}, Unsupported(payload)}
                        /\ \/ outcome.missing = Missing(payload)
                           \/ /\ payload.confidence \notin 0 .. 100
                              /\ outcome.missing = Fields /\ outcome.unsupported = {}
        BY MissingIsTheGap DEF ClarificationNamesTheGap
    <2>1. CASE payload.usable
        <3>1. outcome = Decide(payload)
            BY <2>1 DEF OutcomeIsDecided
        <3> QED BY <3>1 DEF Decide, Clarify, InvalidOutput, Intent, NoOutcome
    <2>2. CASE ~payload.usable
        <3>1. payload = NoPayload /\ outcome.missing = Fields /\ outcome.unsupported = {}
            BY <2>2 DEF OutcomeIsDecided
        <3>2. Missing(NoPayload) = Fields
            BY DEF Missing, Normalized, NoPayload, IsText
        <3> QED BY <3>1, <3>2
    <2> QED BY <2>1, <2>2
<1> QED BY <1>1, OutcomeInvariant, PTL

(* GatesAgree, for every vocabulary: an answer that keeps to the schema is *)
(* never refused as invalid or unsupported.                                *)
THEOREM GatesAgreeTheorem == Spec => []GatesAgree
<1>1. OutcomeIsDecided => GatesAgree
    <2> SUFFICES ASSUME OutcomeIsDecided, payload.usable, SchemaAllows(payload)
                 PROVE  outcome.kind = "intent" \/
                        outcome.reason \in {"missing_fields", "low_confidence"}
        BY DEF GatesAgree
    <2>1. outcome = Decide(payload)
        BY DEF OutcomeIsDecided
    <2>2. Unsupported(payload) = {} /\ payload.confidence \in 0 .. 100
        BY AllowedIsSupported DEF SchemaAllows
    <2> QED BY <2>1, <2>2 DEF Decide, Clarify, Intent, NoOutcome
<1> QED BY <1>1, OutcomeInvariant, PTL

-----------------------------------------------------------------------------
(* What is shown to the provider *)

(* What is kept within the budget is evidence, and nothing stronger is left out: *)
(* a document of a higher score comes before, so what fits with the weaker one   *)
(* fits with it.                                                                 *)
LEMMA BoundedIsStrongest ==
    ASSUME NEW E, NEW n \in Nat, evidence = E, E \in [1 .. n -> Docs]
    PROVE  /\ Bounded \subseteq Given
           /\ \A s \in Bounded, d \in Given \ Bounded : Score[d] <= Score[s]
<1> DEFINE Before(i) == {j \in DOMAIN evidence :
            \/ Score[evidence[j]] > Score[evidence[i]]
            \/ Score[evidence[j]] = Score[evidence[i]] /\ j < i}
<1>1. DOMAIN evidence = 1 .. n /\ \A i \in 1 .. n : Score[evidence[i]] \in Nat
    BY AnalysisAssumption DEF AnalysisAssumption
<1>2. \A i \in 1 .. n : IsFiniteSet(Before(i)) /\ Cardinality(Before(i)) \in Nat
    <2> SUFFICES ASSUME NEW i \in 1 .. n
                 PROVE  IsFiniteSet(Before(i)) /\ Cardinality(Before(i)) \in Nat
        OBVIOUS
    <2>1. IsFiniteSet(1 .. n)
        BY FS_Interval
    <2>2. Before(i) \in SUBSET (1 .. n)
        BY <1>1
    <2> QED BY <2>1, <2>2, FS_Subset, FS_CardinalityType
<1>3. \A i \in 1 .. n : RankOf(i) = 1 + Cardinality(Before(i))
    BY DEF RankOf
<1>4. ASSUME NEW i \in 1 .. n, NEW j \in 1 .. n, Score[evidence[j]] > Score[evidence[i]]
      PROVE  RankOf(j) <= RankOf(i)
    <2>1. Before(j) \in SUBSET Before(i)
        BY <1>1, <1>4
    <2>2. Cardinality(Before(j)) <= Cardinality(Before(i))
        BY <1>2, <2>1, FS_Subset
    <2> HIDE DEF Before
    <2> QED BY <1>2, <1>3, <2>2
<1>5. ASSUME NEW s \in Bounded, NEW d \in Given \ Bounded, ~(Score[d] <= Score[s])
      PROVE  FALSE
    <2>1. PICK i \in 1 .. n : /\ s = evidence[i] /\ RankOf(i) <= MaxEvidence
                              /\ \A k \in 2 .. RankOf(i) : LengthUpTo(k) <= MaxChars
        BY <1>1 DEF Bounded
    <2>2. PICK j \in 1 .. n : d = evidence[j]
        BY <1>1 DEF Given
    <2>3. RankOf(j) <= RankOf(i)
        BY <1>1, <1>4, <1>5, <2>1, <2>2
    <2>4. RankOf(i) \in Nat /\ RankOf(j) \in Nat
        <3> HIDE DEF Before
        <3> QED BY <1>2, <1>3
    <2>5. RankOf(j) <= MaxEvidence
        BY <2>1, <2>3, <2>4, AnalysisAssumption DEF AnalysisAssumption
    <2>6. \A k \in 2 .. RankOf(j) : LengthUpTo(k) <= MaxChars
        BY <2>1, <2>3, <2>4
    <2>7. d \in Bounded
        BY <1>1, <2>2, <2>5, <2>6 DEF Bounded
    <2> QED BY <2>7, <1>5
<1>6. Bounded \subseteq Given
    BY DEF Bounded, Given
<1> QED BY <1>5, <1>6

(* A report that is accepted was objected to in no row. *)
LEMMA AcceptedIsGrounded ==
    ASSUME NEW answer \in Answers, Accepted(answer), NEW i \in DOMAIN answer.failures
    PROVE  /\ answer.failures[i] \in Failure
           /\ answer.failures[i].test \in Failed
           /\ answer.failures[i].sources \subseteq shown
<1>1. answer.failures[i] \in Failure \cup {InvalidRow}
    BY DEF Answers
<1>2. /\ answer.failures[i].valid /\ answer.failures[i].test \in Failed
      /\ answer.failures[i].sources \subseteq shown
    BY DEF Accepted, Objection
<1> QED BY <1>1, <1>2 DEF InvalidRow

-----------------------------------------------------------------------------
(* What the thread holds on its way to the report *)

BeforeShown == {"intent", "intent_record", "intent_advance", "between", "analysis"}
BeforeReport == BeforeShown \cup {"analysis_ask"}

ThreadHolds ==
    /\ pc \in BeforeShown => shown = {}
    /\ pc \in BeforeReport => report = NoReport /\ saved = <<>> /\ verdict = "none"
    /\ pc \in {"analysis_record", "analysis_save"} => saved = <<>>
    /\ pc = "analysis_advance" => saved = <<report>>
    /\ saved \in {<<>>, <<report>>}
    /\ evidence \in Evidences
    /\ shown \subseteq Given
    /\ \A s \in shown, d \in Given \ shown : Score[d] <= Score[s]
    /\ Truthful(report)

LEMMA EvidenceIsSequence ==
    ASSUME evidence \in Evidences
    PROVE  \E n \in Nat : evidence \in [1 .. n -> Docs]
<1>1. \E n \in 0 .. Cardinality(Docs) : evidence \in [1 .. n -> Docs]
    BY DEF Evidences
<1> QED BY <1>1

(* What the two ways to a report hold is true of the results at hand. *)
LEMMA FallbackIsTruthful == \A reason : Truthful(Fallback(reason))
<1> SUFFICES ASSUME NEW reason PROVE Truthful(Fallback(reason))
    OBVIOUS
<1>1. /\ Fallback(reason).failures = <<>>
      /\ Fallback(reason).insufficient = (Failed # {})
      /\ Fallback(reason).observations = results
    BY DEF Fallback, NoReport
<1>2. DOMAIN Fallback(reason).failures = {}
    BY <1>1
<1> QED BY <1>1, <1>2, Zenon DEF Truthful

LEMMA JudgedIsTruthful ==
    ASSUME NEW answer \in Answers, shown \subseteq Given,
           \A s \in shown, d \in Given \ shown : Score[d] <= Score[s]
    PROVE  Truthful(Judged(answer))
<1>1. CASE ~Accepted(answer)
    BY <1>1, FallbackIsTruthful DEF Judged
<1>2. CASE Accepted(answer)
    <2> DEFINE r == Generated(answer)
    <2>1. Judged(answer) = r /\ r.kind = "ai_generated" /\ r.failures = answer.failures
        BY <1>2 DEF Judged, Generated, NoReport
    <2>2. ASSUME NEW i \in DOMAIN answer.failures
          PROVE  /\ answer.failures[i].test \in Failed
                 /\ answer.failures[i].sources # {}
                 /\ answer.failures[i].sources \subseteq shown
        <3>1. answer.failures[i] \in Failure
            BY <1>2, AcceptedIsGrounded
        <3>2. answer.failures[i].sources # {}
            BY <3>1 DEF Failure
        <3> QED BY <1>2, <3>2, AcceptedIsGrounded
    <2> HIDE DEF r
    <2> QED BY <2>1, <2>2 DEF Truthful
<1> QED BY <1>1, <1>2

(* The report is made once, of the results and the evidence delivered, and is *)
(* the one that is saved.                                                     *)
LEMMA ThreadStep == ThreadHolds /\ [Next]_vars => ThreadHolds'
<1> SUFFICES ASSUME ThreadHolds, [Next]_vars PROVE ThreadHolds'
    OBVIOUS
<1> USE DEF BeforeShown, BeforeReport
<1>1. CASE Intents \/ EndsEarly \/ Abandon \/ UNCHANGED vars
    <2>1. UNCHANGED <<results, evidence, shown, report, verdict, saved>>
        BY <1>1 DEF Intents, EndsEarly, Abandon, vars, analysisVars
    <2>2. \/ pc \in BeforeShown
          \/ pc' = "lost" \/ pc' = pc
        BY <1>1 DEF Intents, IntentStep, ParseBlank, ProviderAnswers, ProviderReturnsNoObject,
                    ProviderFails, RecordIntentRun, AdvanceIntent, EndsEarly, Abandon, vars, sharedVars
    <2>3. pc' \in BeforeReport \cup {"analysis_record", "analysis_save", "analysis_advance"}
              => pc \in BeforeShown \/ pc' = pc
        BY <2>2
    <2>4. pc \in BeforeShown => pc' \notin {"analysis_ask", "analysis_record", "analysis_save",
                                            "analysis_advance"}
        BY <1>1 DEF Intents, IntentStep, ParseBlank, ProviderAnswers, ProviderReturnsNoObject,
                    ProviderFails, RecordIntentRun, AdvanceIntent, EndsEarly, Abandon, vars, sharedVars
    <2> QED BY <2>1, <2>3, <2>4 DEF ThreadHolds, Truthful, Given, Failed
<1>2. CASE Deliver
    <2>1. /\ shown' = {} /\ report' = NoReport /\ saved' = <<>> /\ verdict' = "none"
          /\ evidence' \in Evidences /\ pc' = "analysis"
        BY <1>2 DEF Deliver, ThreadHolds
    <2>2. Truthful(report)'
        BY <2>1 DEF Truthful, NoReport
    <2> QED BY <2>1, <2>2 DEF ThreadHolds
<1>3. CASE BoundEvidence /\ UNCHANGED intentVars
    <2>1. /\ shown' = Bounded /\ pc' = "analysis_ask"
          /\ UNCHANGED <<results, evidence, report, saved, verdict>>
          /\ report = NoReport /\ saved = <<>> /\ verdict = "none"
        BY <1>3 DEF BoundEvidence, ThreadHolds
    <2>2. /\ Bounded \subseteq Given
          /\ \A s \in Bounded, d \in Given \ Bounded : Score[d] <= Score[s]
        BY EvidenceIsSequence, BoundedIsStrongest DEF ThreadHolds
    <2>3. Truthful(report)' /\ Given' = Given
        BY <2>1 DEF Truthful, NoReport, Given
    <2> QED BY <2>1, <2>2, <2>3 DEF ThreadHolds
<1>4. ASSUME UNCHANGED <<results, evidence, shown>>, Truthful(report'),
             pc' \in {"analysis_record", "analysis_save"}, saved' = <<>>
      PROVE  ThreadHolds'
    BY <1>4 DEF ThreadHolds, Truthful, Given, Failed
<1>5. ASSUME NEW reason, pc \in {"analysis", "analysis_ask", "analysis_record"},
             Degrade(reason)
      PROVE  ThreadHolds'
    <2>1. /\ UNCHANGED <<results, evidence, shown>> /\ report' = Fallback(reason)
          /\ pc' = "analysis_save" /\ saved' = <<>>
        BY <1>5 DEF Degrade, Hold, ThreadHolds, WithoutAnalyzer, BoundEvidence
    <2> QED BY <1>4, <2>1, FallbackIsTruthful
<1>6. CASE WithoutAnalyzer \/ AnalyzerRaises \/ RecordAnalysisRunFails
    BY <1>5, <1>6 DEF WithoutAnalyzer, AnalyzerRaises, RecordAnalysisRunFails
<1>7. CASE WithoutProvider \/ AnalysisUnanswered
    <2>1. PICK reason : Hold("analysis_record", Fallback(reason))
        BY <1>7 DEF WithoutProvider, AnalysisUnanswered
    <2>2. pc = "analysis_ask"
        BY <1>7 DEF WithoutProvider, AnalysisUnanswered
    <2>3. UNCHANGED shown
        BY <1>7 DEF WithoutProvider, AnalysisUnanswered, Hold
    <2> QED BY <1>4, <2>1, <2>2, <2>3, FallbackIsTruthful DEF Hold, ThreadHolds
<1>8. CASE AnalysisAnswered
    <2>1. PICK answer \in Answers : Hold("analysis_record", Judged(answer))
        BY <1>8 DEF AnalysisAnswered
    <2>2. pc = "analysis_ask"
        BY <1>8 DEF AnalysisAnswered
    <2>3. Truthful(Judged(answer))
        BY JudgedIsTruthful DEF ThreadHolds
    <2> QED BY <1>4, <2>1, <2>2, <2>3 DEF Hold, ThreadHolds
<1>9. CASE RecordAnalysisRun
    BY <1>4, <1>9 DEF RecordAnalysisRun, ThreadHolds
<1>10. CASE SaveReport
    <2>1. /\ saved' = <<report>> /\ pc' = "analysis_advance"
          /\ UNCHANGED <<results, evidence, shown, report>>
        BY <1>10 DEF SaveReport, ThreadHolds
    <2> QED BY <2>1 DEF ThreadHolds, Truthful, Given, Failed
<1>11. CASE AdvanceAnalysis
    BY <1>11 DEF AdvanceAnalysis, ThreadHolds, Truthful, Given, Failed
<1> QED BY <1>1, <1>2, <1>3, <1>6, <1>7, <1>8, <1>9, <1>10, <1>11 DEF Next, Analysis, AnalysisStep

LEMMA ThreadInvariant == Spec => []ThreadHolds
<1>1. Init => ThreadHolds
    <2> SUFFICES ASSUME Init PROVE ThreadHolds
        OBVIOUS
    <2>1. evidence = <<>> /\ shown = {} /\ saved = <<>> /\ report = NoReport /\ verdict = "none"
        BY DEF Init, AnalysisInit
    <2>2. pc = "intent"
        BY DEF Init
    <2>3. <<>> \in Evidences
        <3>1. 0 \in 0 .. Cardinality(Docs)
            BY FS_CardinalityType, AnalysisAssumption DEF AnalysisAssumption
        <3>2. <<>> \in [1 .. 0 -> Docs] /\ DOMAIN <<>> = {}
            OBVIOUS
        <3> QED BY <3>1, <3>2 DEF Evidences
    <2> QED BY <2>1, <2>2, <2>3 DEF ThreadHolds, Truthful, NoReport
<1> QED BY <1>1, ThreadStep, PTL DEF Spec

(* ReportIsTruthful, for every evidence, every budget and every answer. *)
THEOREM ReportIsTruthfulTheorem == Spec => []ReportIsTruthful
<1>1. ThreadHolds => ReportIsTruthful
    <2> SUFFICES ASSUME ThreadHolds, NEW i \in DOMAIN saved PROVE saved[i] = report
        BY DEF ReportIsTruthful, ThreadHolds
    <2> QED BY DEF ThreadHolds
<1> QED BY <1>1, ThreadInvariant, PTL

-----------------------------------------------------------------------------
(* What the audit trail tells *)

IntentRun == [agent |-> "intent",
              status |-> IF outcome.reason = "provider_error" THEN "failed" ELSE "completed",
              output |-> outcome, error |-> outcome.error]
AnalysisRun == [agent |-> "analysis", status |-> RunStatus, output |-> report, error |-> RunError]

InAnalysis == {"between", "analysis", "analysis_ask", "analysis_record"}

RunsTellTheStory ==
    /\ pc \in {"intent", "intent_record"} => runs = <<>>
    /\ pc \in {"intent", "intent_record", "intent_advance"} => status = "received"
    /\ pc \in {"intent_advance"} \cup InAnalysis => runs = <<IntentRun>> /\ verdict = "none"
    /\ pc \in InAnalysis \cup {"analysis_save", "analysis_advance"} => outcome.kind = "intent"
    /\ pc \in {"analysis_save", "analysis_advance"} => verdict # "none"
    /\ verdict \in {"none", "analyzed", "fallback_summary"}
    /\ verdict = "none" => saved = <<>> /\ runs \in {<<>>, <<IntentRun>>}
    /\ verdict = "analyzed" => runs = <<IntentRun, AnalysisRun>>
    /\ verdict = "fallback_summary" => runs = <<IntentRun>> /\ report.kind = "fallback"
    /\ status \in {"analyzed", "fallback_summary"} => status = verdict /\ saved = <<report>>
    /\ status \notin {"received", "needs_clarification"} =>
          outcome.kind = "intent" /\ runs # <<>>
    /\ outcome.kind = "intent" => outcome.reason = "none"
    /\ report.kind = "ai_generated" => report.reason = "none"

(* What a run appended to one other run leaves. *)
LEMMA SecondAppended == ASSUME NEW a, NEW b PROVE Append(<<a>>, b) = <<a, b>>
<1> DEFINE appended == Append(<<a>>, b)
           both     == <<a, b>>
<1>1. <<a>> \in Seq({a, b}) /\ Len(<<a>>) = 1 /\ <<a>>[1] = a
    OBVIOUS
<1>2. both \in Seq({a, b}) /\ Len(both) = 2 /\ both[1] = a /\ both[2] = b
    OBVIOUS
<1>3. /\ appended \in Seq({a, b}) /\ Len(appended) = 2
      /\ appended[1] = a /\ appended[2] = b
    BY <1>1, AppendProperties
<1> HIDE DEF appended, both
<1>4. \A i \in 1 .. Len(appended) : appended[i] = both[i]
    BY <1>2, <1>3
<1>5. appended = both
    BY <1>2, <1>3, <1>4, SeqEqual
<1> QED BY <1>5 DEF appended, both

(* Only an intent carries no reason. *)
LEMMA IntentHasNoReason == \A p : Decide(p).kind = "intent" => Decide(p).reason = "none"
BY DEF Decide, Clarify, InvalidOutput, Intent, NoOutcome

LEMMA JudgedHasReason ==
    \A answer : Judged(answer).kind = "ai_generated" => Judged(answer).reason = "none"
BY DEF Judged, Generated, Fallback, NoReport

(* Each agent appends its run while it holds what the run is about, and what *)
(* it held is not changed afterwards.                                        *)
LEMMA StoryStep == ThreadHolds /\ RunsTellTheStory /\ [Next]_vars => RunsTellTheStory'
<1> SUFFICES ASSUME ThreadHolds, RunsTellTheStory, [Next]_vars PROVE RunsTellTheStory'
    OBVIOUS
<1> USE DEF InAnalysis, BeforeReport, BeforeShown
<1>1. CASE /\ ParseBlank \/ ProviderAnswers \/ ProviderReturnsNoObject \/ ProviderFails
           /\ UNCHANGED analysisVars
    <2>1. \/ outcome'.kind = "clarification"
          \/ \E p : outcome' = Decide(p)
        BY <1>1 DEF ParseBlank, ProviderAnswers, ProviderReturnsNoObject, ProviderFails, Clarify,
                    InvalidOutput, NoOutcome
    <2>2. outcome'.kind = "intent" => outcome'.reason = "none"
        BY <2>1, IntentHasNoReason
    <2>3. pc = "intent" /\ pc' = "intent_record" /\ UNCHANGED <<status, runs>>
        BY <1>1 DEF ParseBlank, ProviderAnswers, ProviderReturnsNoObject, ProviderFails
    <2>4. UNCHANGED <<report, verdict, saved>>
        BY <1>1 DEF analysisVars
    <2> QED BY <2>2, <2>3, <2>4 DEF RunsTellTheStory, ThreadHolds, NoReport
<1>2. CASE RecordIntentRun /\ UNCHANGED analysisVars
    <2>1. /\ runs = <<>> /\ pc' = "intent_advance"
          /\ UNCHANGED <<status, outcome, report, verdict, saved>>
          /\ report = NoReport /\ saved = <<>> /\ verdict = "none"
        BY <1>2 DEF RecordIntentRun, RunsTellTheStory, ThreadHolds, analysisVars
    <2>2. runs' = <<IntentRun>>
        BY <1>2, <2>1 DEF RecordIntentRun, RecordRun, IntentRun
    <2>3. IntentRun' = IntentRun
        BY <2>1 DEF IntentRun
    <2> QED BY <1>2, <2>1, <2>2, <2>3 DEF RecordIntentRun, RunsTellTheStory
<1>3. CASE AdvanceIntent /\ UNCHANGED analysisVars
    <2>1. UNCHANGED <<runs, outcome, report, verdict, saved>> /\ IntentRun' = IntentRun
        BY <1>3 DEF AdvanceIntent, analysisVars, IntentRun
    <2>2. verdict = "none" /\ runs = <<IntentRun>> /\ report = NoReport /\ saved = <<>>
        BY <1>3 DEF AdvanceIntent, RunsTellTheStory, ThreadHolds
    <2>3. \/ outcome.kind = "intent" /\ status' = "intent_parsed" /\ pc' = "between"
          \/ status' = "needs_clarification" /\ pc' = "end"
        BY <1>3 DEF AdvanceIntent
    <2> QED BY <2>1, <2>2, <2>3 DEF RunsTellTheStory
<1>4. CASE Deliver \/ EndsEarly
    <2>1. /\ pc = "between" /\ pc' \in {"analysis", "end"}
          /\ status' \notin {"received", "needs_clarification", "analyzed", "fallback_summary"}
          /\ UNCHANGED <<runs, outcome, report, verdict, saved>>
        BY <1>4 DEF Deliver, EndsEarly, intentVars, analysisVars
    <2>2. IntentRun' = IntentRun
        BY <2>1 DEF IntentRun
    <2>3. outcome.kind = "intent" /\ verdict = "none" /\ runs = <<IntentRun>> /\ saved = <<>>
        BY <2>1 DEF RunsTellTheStory, ThreadHolds
    <2> QED BY <2>1, <2>2, <2>3 DEF RunsTellTheStory
<1>5. CASE Abandon \/ UNCHANGED vars
    <2>1. /\ pc' = "lost" \/ pc' = pc
          /\ UNCHANGED <<status, runs, outcome, report, verdict, saved>>
        BY <1>5 DEF Abandon, vars, sharedVars, intentVars, analysisVars
    <2>2. IntentRun' = IntentRun /\ AnalysisRun' = AnalysisRun
        BY <2>1 DEF IntentRun, AnalysisRun, RunStatus, RunError
    <2> QED BY <2>1, <2>2 DEF RunsTellTheStory
<1>6. ASSUME UNCHANGED <<status, runs, outcome, verdict, saved>>,
             pc \in {"analysis", "analysis_ask"}, pc' \in {"analysis_ask", "analysis_record"},
             report'.kind = "ai_generated" => report'.reason = "none"
      PROVE  RunsTellTheStory'
    <2>1. outcome.kind = "intent" /\ verdict = "none" /\ runs = <<IntentRun>> /\ saved = <<>>
        BY <1>6 DEF RunsTellTheStory, ThreadHolds
    <2>2. IntentRun' = IntentRun /\ status \notin {"analyzed", "fallback_summary"}
        BY <1>6, <2>1 DEF IntentRun, RunsTellTheStory
    <2> QED BY <1>6, <2>1, <2>2 DEF RunsTellTheStory
<1>7. ASSUME NEW reason, pc \in {"analysis", "analysis_ask", "analysis_record"},
             Degrade(reason), UNCHANGED intentVars
      PROVE  RunsTellTheStory'
    <2>1. /\ UNCHANGED <<status, runs, outcome, saved>> /\ pc' = "analysis_save"
          /\ verdict' = "fallback_summary" /\ report' = Fallback(reason)
        BY <1>7 DEF Degrade, Hold, intentVars
    <2>2. report'.kind = "fallback"
        BY <2>1 DEF Fallback, NoReport
    <2>3. IntentRun' = IntentRun /\ runs = <<IntentRun>> /\ outcome.kind = "intent"
        BY <1>7, <2>1 DEF IntentRun, RunsTellTheStory
    <2>4. status \notin {"analyzed", "fallback_summary"}
        BY <1>7 DEF RunsTellTheStory
    <2> QED BY <2>1, <2>2, <2>3, <2>4 DEF RunsTellTheStory
<1>8. CASE /\ WithoutAnalyzer \/ AnalyzerRaises \/ RecordAnalysisRunFails
           /\ UNCHANGED intentVars
    BY <1>7, <1>8 DEF WithoutAnalyzer, AnalyzerRaises, RecordAnalysisRunFails
<1>9. CASE /\ BoundEvidence \/ WithoutProvider \/ AnalysisAnswered \/ AnalysisUnanswered
           /\ UNCHANGED intentVars
    <2>1. /\ UNCHANGED <<status, runs, outcome, verdict, saved>>
          /\ pc \in {"analysis", "analysis_ask"} /\ pc' \in {"analysis_ask", "analysis_record"}
        BY <1>9 DEF BoundEvidence, WithoutProvider, AnalysisAnswered, AnalysisUnanswered, Hold,
                    intentVars
    <2>2. \/ report' = report
          \/ \E reason : report' = Fallback(reason)
          \/ \E answer : report' = Judged(answer)
        BY <1>9 DEF BoundEvidence, WithoutProvider, AnalysisAnswered, AnalysisUnanswered, Hold
    <2>3. report'.kind = "ai_generated" => report'.reason = "none"
        BY <2>2, JudgedHasReason DEF Fallback, NoReport, RunsTellTheStory
    <2> QED BY <1>6, <2>1, <2>3
<1>10. CASE RecordAnalysisRun /\ UNCHANGED intentVars
    <2>1. /\ runs = <<IntentRun>> /\ outcome.kind = "intent" /\ pc' = "analysis_save"
          /\ UNCHANGED <<status, outcome, report, saved>> /\ verdict' = "analyzed"
        BY <1>10 DEF RecordAnalysisRun, RunsTellTheStory, intentVars
    <2>2. runs' = <<IntentRun, AnalysisRun>>
        <3>1. runs' = Append(runs, AnalysisRun)
            BY <1>10 DEF RecordAnalysisRun, RecordRun, AnalysisRun
        <3> QED BY <2>1, <3>1, SecondAppended
    <2>3. IntentRun' = IntentRun /\ AnalysisRun' = AnalysisRun
        BY <2>1 DEF IntentRun, AnalysisRun, RunStatus, RunError
    <2>4. status \notin {"analyzed", "fallback_summary"}
        BY <1>10 DEF RecordAnalysisRun, RunsTellTheStory
    <2>5. runs' # <<>> /\ pc' \notin {"intent", "intent_record", "intent_advance"} \cup InAnalysis
        BY <2>1, <2>2
    <2>6. /\ outcome.kind = "intent" => outcome.reason = "none"
          /\ report.kind = "ai_generated" => report.reason = "none"
        BY DEF RunsTellTheStory
    <2>7. runs' = <<IntentRun', AnalysisRun'>>
        BY <2>2, <2>3
    <2> HIDE DEF InAnalysis
    <2> QED BY <2>1, <2>4, <2>5, <2>6, <2>7 DEF RunsTellTheStory
<1>11. CASE (SaveReport \/ AdvanceAnalysis) /\ UNCHANGED intentVars
    <2>1. /\ UNCHANGED <<runs, outcome, report, verdict>> /\ verdict # "none"
          /\ outcome.kind = "intent"
          /\ pc \in {"analysis_save", "analysis_advance"} /\ pc' \in {"analysis_advance", "end"}
        BY <1>11 DEF SaveReport, AdvanceAnalysis, RunsTellTheStory, intentVars
    <2>2. IntentRun' = IntentRun /\ AnalysisRun' = AnalysisRun
        BY <2>1 DEF IntentRun, AnalysisRun, RunStatus, RunError
    <2>3. saved' = <<report>>
        <3>1. CASE SaveReport
            <4>1. saved = <<>> /\ saved' = Append(saved, report)
                BY <3>1 DEF SaveReport, ThreadHolds
            <4> QED BY <4>1
        <3>2. CASE AdvanceAnalysis
            BY <3>2 DEF AdvanceAnalysis, ThreadHolds
        <3> QED BY <1>11, <3>1, <3>2
    <2>4. status' \in {status, verdict}
        BY <1>11 DEF SaveReport, AdvanceAnalysis
    <2>5. runs # <<>>
        BY <2>1 DEF RunsTellTheStory
    <2>6. status \in {"analyzed", "fallback_summary"} => status = verdict
        BY DEF RunsTellTheStory
    <2>7. /\ verdict \in {"none", "analyzed", "fallback_summary"}
          /\ verdict = "analyzed" => runs' = <<IntentRun', AnalysisRun'>>
          /\ verdict = "fallback_summary" => runs' = <<IntentRun'>> /\ report.kind = "fallback"
          /\ outcome.reason = "none"
          /\ report.kind = "ai_generated" => report.reason = "none"
        BY <2>1, <2>2 DEF RunsTellTheStory
    <2>8. /\ pc' \notin {"intent", "intent_record", "intent_advance"} \cup InAnalysis
          /\ status' \in {"analyzed", "fallback_summary"} => status' = verdict
          /\ runs' # <<>>
        BY <2>1, <2>4, <2>5, <2>6
    <2> HIDE DEF InAnalysis
    <2> QED BY <2>1, <2>3, <2>7, <2>8 DEF RunsTellTheStory
<1> QED BY <1>1, <1>2, <1>3, <1>4, <1>5, <1>8, <1>9, <1>10, <1>11
        DEF Next, Intents, IntentStep, Analysis, AnalysisStep

LEMMA StoryInvariant == Spec => [](ThreadHolds /\ RunsTellTheStory)
<1>1. Init => RunsTellTheStory
    BY DEF Init, IntentInit, AnalysisInit, RunsTellTheStory, InAnalysis, NoOutcome, NoReport
<1> QED BY <1>1, StoryStep, ThreadInvariant, PTL DEF Spec

(* AuditMatchesReport, wherever a write fails or the thread ends. *)
THEOREM AuditMatchesReportTheorem == Spec => []AuditMatchesReport
<1>1. ThreadHolds /\ RunsTellTheStory => AuditMatchesReport
    <2> SUFFICES ASSUME ThreadHolds, RunsTellTheStory PROVE AuditMatchesReport
        OBVIOUS
    <2>1. runs \in {<<>>, <<IntentRun>>, <<IntentRun, AnalysisRun>>}
        BY DEF RunsTellTheStory
    <2>2. runs # <<>> => 1 \in RunsOf("intent") /\ runs[1] = IntentRun
        BY <2>1 DEF RunsOf, IntentRun
    <2>3. verdict = "analyzed" => 2 \in RunsOf("analysis") /\ runs[2] = AnalysisRun
        BY DEF RunsOf, AnalysisRun, RunsTellTheStory
    <2>4. outcome.kind = "intent" => IntentRun.status = "completed"
        BY DEF IntentRun, RunsTellTheStory
    <2>5. status \notin {"received", "needs_clarification"} =>
              \E i \in RunsOf("intent") :
                 runs[i].status = "completed" /\ runs[i].output = outcome /\ outcome.kind = "intent"
        BY <2>2, <2>4 DEF RunsTellTheStory, IntentRun
    <2>6. RunsOf("analysis") \subseteq {2} /\ (2 \in RunsOf("analysis") => runs[2] = AnalysisRun)
        BY <2>1 DEF RunsOf, IntentRun
    <2>7. status \in {"analyzed", "fallback_summary"} =>
              Len(saved) = 1 /\ \A i \in RunsOf("analysis") : runs[i].output = saved[1]
        BY <2>6 DEF RunsTellTheStory, AnalysisRun
    <2>8. ASSUME NEW n \in DOMAIN saved, saved[n].kind = "ai_generated"
          PROVE  /\ status # "fallback_summary"
                 /\ \E i \in RunsOf("analysis") :
                       runs[i].status = "completed" /\ runs[i].output = saved[n]
        <3>1. saved[n] = report /\ saved # <<>>
            BY <2>8 DEF ThreadHolds
        <3>2. verdict = "analyzed"
            BY <2>8, <3>1 DEF RunsTellTheStory
        <3>3. AnalysisRun.status = "completed" /\ AnalysisRun.output = report
            BY <2>8, <3>1 DEF AnalysisRun, RunStatus, RunsTellTheStory
        <3>4. status # "fallback_summary"
            BY <3>2 DEF RunsTellTheStory
        <3> QED BY <2>3, <3>1, <3>2, <3>3, <3>4
    <2> QED BY <2>5, <2>7, <2>8 DEF AuditMatchesReport
<1> QED BY <1>1, StoryInvariant, PTL

-----------------------------------------------------------------------------
(* Types *)

(* What the fields of an outcome can hold *)
AllValues == {NoValue} \cup UNION {Values(f) : f \in Fields}
Reasons == {"none", "empty_query", "missing_fields", "unsupported_value",
            "low_confidence", "provider_error", "invalid_output"}
Errors == {"none", "validation", "ProviderTimeoutError", "ProviderNotConfiguredError",
           "ProviderUnavailableError", "ProviderResponseError"}

(* Outcome, by the names above *)
LEMMA OutcomeFields ==
    /\ NoValue \in AllValues
    /\ \A f \in Fields : Values(f) \subseteq AllValues
    /\ [f \in Fields |-> NoValue] \in [Fields -> AllValues]
    /\ Outcome = [kind : {"none", "intent", "clarification"}, values : [Fields -> AllValues],
                  reason : Reasons, missing : SUBSET Fields, unsupported : SUBSET Fields,
                  error : Errors]
<1>1. NoValue \in AllValues
    BY DEF AllValues
<1>2. \A f \in Fields : Values(f) \subseteq AllValues
  <2> SUFFICES ASSUME NEW f \in Fields, NEW v \in Values(f)
               PROVE  v \in AllValues
      OBVIOUS
  <2>1. PICK S : S = Values(f)
      OBVIOUS
  <2>2. S \in {Values(g) : g \in Fields} /\ v \in S
      BY <2>1
  <2>3. v \in UNION {Values(g) : g \in Fields}
      BY <2>2
  <2> QED BY <2>3 DEF AllValues
<1>3. [f \in Fields |-> NoValue] \in [Fields -> AllValues]
    BY <1>1
<1>4. Outcome = [kind : {"none", "intent", "clarification"}, values : [Fields -> AllValues],
                 reason : Reasons, missing : SUBSET Fields, unsupported : SUBSET Fields,
                 error : Errors]
    BY Zenon DEF Outcome, AllValues, Reasons, Errors
<1> QED BY <1>1, <1>2, <1>3, <1>4

(* A request for clarification, field by field *)
LEMMA Clarifications ==
    ASSUME NEW reason, NEW missing, NEW unsupported
    PROVE  Clarify(reason, missing, unsupported)
             = [kind |-> "clarification", values |-> [f \in Fields |-> NoValue], reason |-> reason,
                missing |-> missing, unsupported |-> unsupported, error |-> "none"]
<1>1. PICK values : values = [f \in Fields |-> NoValue]
    OBVIOUS
<1>2. PICK none : none = NoOutcome
    OBVIOUS
<1>3. none = [kind |-> "none", values |-> values, reason |-> "none", missing |-> {},
              unsupported |-> {}, error |-> "none"]
    BY <1>1, <1>2 DEF NoOutcome
<1>4. PICK c : c = [none EXCEPT !.kind = "clarification", !.reason = reason]
    OBVIOUS
<1>5. c = [kind |-> "clarification", values |-> values, reason |-> reason, missing |-> {},
           unsupported |-> {}, error |-> "none"]
    BY <1>3, <1>4
<1>6. PICK d : d = [c EXCEPT !.missing = missing]
    OBVIOUS
<1>7. d = [kind |-> "clarification", values |-> values, reason |-> reason, missing |-> missing,
           unsupported |-> {}, error |-> "none"]
    BY <1>5, <1>6
<1>8. [d EXCEPT !.unsupported = unsupported]
        = [kind |-> "clarification", values |-> values, reason |-> reason,
           missing |-> missing, unsupported |-> unsupported, error |-> "none"]
    BY <1>7
<1>9. Clarify(reason, missing, unsupported) = [d EXCEPT !.unsupported = unsupported]
    BY <1>2, <1>4, <1>6 DEF Clarify
<1> QED BY <1>1, <1>8, <1>9

(* With any reason, any fields and any error it is an outcome. *)
LEMMA ClarificationType ==
    ASSUME NEW reason \in Reasons, NEW missing \in SUBSET Fields,
           NEW unsupported \in SUBSET Fields, NEW error \in Errors
    PROVE  /\ Clarify(reason, missing, unsupported) \in Outcome
           /\ [Clarify(reason, missing, unsupported) EXCEPT !.error = error] \in Outcome
<1>1. PICK values \in [Fields -> AllValues] : values = [f \in Fields |-> NoValue]
    BY OutcomeFields
<1>2. PICK c : c = Clarify(reason, missing, unsupported)
    OBVIOUS
<1>3. c = [kind |-> "clarification", values |-> values, reason |-> reason, missing |-> missing,
           unsupported |-> unsupported, error |-> "none"]
    BY <1>1, <1>2, Clarifications
<1>4. [c EXCEPT !.error = error]
        = [kind |-> "clarification", values |-> values, reason |-> reason, missing |-> missing,
           unsupported |-> unsupported, error |-> error]
    BY <1>3
<1>5. "none" \in Errors
    BY DEF Errors
<1> QED BY <1>1, <1>2, <1>3, <1>4, <1>5, OutcomeFields

(* What parse_intent answers without an object is an outcome. *)
LEMMA NoObjectTypes ==
    /\ NoOutcome \in Outcome
    /\ Clarify("empty_query", Fields, {}) \in Outcome
    /\ InvalidOutput("none") \in Outcome
    /\ InvalidOutput("validation") \in Outcome
    /\ \A e \in ProviderErrors : [Clarify("provider_error", Fields, {}) EXCEPT !.error = e] \in Outcome
<1>1. ProviderErrors \subseteq Errors
    BY DEF ProviderErrors, ErrorFor, Errors
<1>2. "empty_query" \in Reasons /\ "invalid_output" \in Reasons /\ "provider_error" \in Reasons
      /\ "none" \in Errors /\ "validation" \in Errors /\ "none" \in Reasons
    BY DEF Reasons, Errors
<1>3. NoOutcome \in Outcome
  <2>1. PICK values \in [Fields -> AllValues] : values = [f \in Fields |-> NoValue]
      BY OutcomeFields
  <2>2. NoOutcome = [kind |-> "none", values |-> values, reason |-> "none", missing |-> {},
                     unsupported |-> {}, error |-> "none"]
      BY <2>1 DEF NoOutcome
  <2> QED BY <1>2, <2>1, <2>2, OutcomeFields
<1>4. Fields \in SUBSET Fields /\ {} \in SUBSET Fields
    OBVIOUS
<1> HIDE DEF Fields
<1> QED BY <1>1, <1>2, <1>3, <1>4, ClarificationType DEF InvalidOutput

(* So is what it makes of an object, whatever is in it. *)
LEMMA DecidedType == ASSUME NEW p PROVE Decide(p) \in Outcome
<1>1. Normalized(p) \in [Fields -> AllValues]
  <2>1. ASSUME NEW f \in Fields
        PROVE  (IF IsText(p.fields[f]) THEN Resolve(f, p.fields[f]) ELSE NoValue) \in AllValues
    <3>1. Resolve(f, p.fields[f]) \in AllValues
        BY ResolveIsGrounded, OutcomeFields
    <3> QED BY <3>1, OutcomeFields
  <2> QED BY <2>1 DEF Normalized
<1>2. Missing(p) \in SUBSET Fields /\ Unsupported(p) \in SUBSET Fields /\ {} \in SUBSET Fields
    BY DEF Missing, Unsupported
<1>3. \A reason \in {"missing_fields", "unsupported_value", "low_confidence"} : reason \in Reasons
    BY DEF Reasons
<1> "none" \in Errors
    BY DEF Errors
<1>4. ASSUME NEW reason \in {"missing_fields", "unsupported_value", "low_confidence"},
             NEW unsupported \in SUBSET Fields
      PROVE  Clarify(reason, Missing(p), unsupported) \in Outcome
    BY <1>2, <1>3, ClarificationType
<1>5. Intent(Normalized(p)) \in Outcome
  <2>1. PICK values \in [Fields -> AllValues] : values = Normalized(p)
      BY <1>1
  <2>2. Intent(values) = [kind |-> "intent", values |-> values, reason |-> "none",
                          missing |-> {}, unsupported |-> {}, error |-> "none"]
    <3>1. PICK none, v : none = NoOutcome /\ v = [f \in Fields |-> NoValue]
        OBVIOUS
    <3>2. none = [kind |-> "none", values |-> v, reason |-> "none", missing |-> {},
                  unsupported |-> {}, error |-> "none"]
        BY <3>1 DEF NoOutcome
    <3>3. Intent(values) = [none EXCEPT !.kind = "intent", !.values = values]
        BY <3>1 DEF Intent
    <3> QED BY <3>2, <3>3
  <2>3. "none" \in Reasons /\ "none" \in Errors
      BY DEF Reasons, Errors
  <2> QED BY <1>2, <2>1, <2>2, <2>3, OutcomeFields
<1> QED BY <1>2, <1>4, <1>5, NoObjectTypes DEF Decide

(* Every report that can be made is one. *)
LEMMA ReportTypes ==
    /\ IsReport(NoReport)
    /\ \A reason : IsReport(Fallback(reason))
    /\ \A answer \in Answers : IsReport(Judged(answer))
<1>1. DOMAIN NoReport.failures \in {1 .. n : n \in 0 .. MaxRows}
  <2>1. DOMAIN NoReport.failures = 1 .. 0
      BY DEF NoReport
  <2>2. 0 \in 0 .. MaxRows
      BY AnalysisAssumption DEF AnalysisAssumption
  <2> QED BY <2>1, <2>2
<1>2. DOMAIN NoReport.failures = {}
    BY DEF NoReport
<1>3. IsReport(NoReport)
    BY <1>1, <1>2 DEF IsReport, NoReport
<1>4. ASSUME NEW reason
      PROVE  IsReport(Fallback(reason))
  <2>1. /\ Fallback(reason).kind = "fallback" /\ Fallback(reason).failures = NoReport.failures
        /\ Fallback(reason).insufficient = (Failed # {})
        /\ Fallback(reason).observations = results
      BY DEF Fallback, NoReport
  <2>2. (Failed # {}) \in BOOLEAN
      OBVIOUS
  <2> QED BY <1>1, <1>2, <2>1, <2>2 DEF IsReport
<1>5. ASSUME NEW answer \in Answers
      PROVE  IsReport(Judged(answer))
  <2>1. CASE ~ Accepted(answer)
      BY <1>4, <2>1 DEF Judged
  <2>2. CASE Accepted(answer)
    <3>1. /\ Judged(answer).kind = "ai_generated" /\ Judged(answer).failures = answer.failures
          /\ Judged(answer).insufficient = answer.insufficient
          /\ Judged(answer).observations = NoResults
        BY <2>2 DEF Judged, Generated, NoReport
    <3>2. answer.insufficient \in BOOLEAN
        BY DEF Answers
    <3>3. DOMAIN answer.failures \in {1 .. n : n \in 0 .. MaxRows}
        BY DEF Answers
    <3>4. \A i \in DOMAIN answer.failures : answer.failures[i] \in Failure
        BY <2>2, AcceptedIsGrounded
    <3> QED BY <3>1, <3>2, <3>3, <3>4 DEF IsReport
  <2> QED BY <2>1, <2>2
<1> QED BY <1>3, <1>4, <1>5

(* The types of what the thread holds: AgentsTypeOK but for the tables, whose *)
(* rows ThreadHolds and RunsTellTheStory count.                               *)
HeldTypes ==
    /\ configured \in BOOLEAN
    /\ pc \in {"intent", "intent_record", "intent_advance", "between", "analysis",
               "analysis_ask", "analysis_record", "analysis_save", "analysis_advance", "end", "lost"}
    /\ status \in Status
    /\ payload \in Payloads \cup {NoPayload}
    /\ outcome \in Outcome
    /\ analyzer \in {"none", "agent_without_provider", "agent"}
    /\ results \in Results \cup {NoResults}
    /\ IsReport(report)

LEMMA HeldTypesStep ==
    ThreadHolds /\ RunsTellTheStory /\ HeldTypes /\ [Next]_vars => HeldTypes'
<1> SUFFICES ASSUME ThreadHolds, RunsTellTheStory, HeldTypes, [Next]_vars
             PROVE  HeldTypes'
    OBVIOUS
<1>1. CASE Intents
  <2>1. /\ UNCHANGED analysisVars /\ configured' = configured
        /\ pc' \in {"intent_record", "intent_advance", "between", "end"}
        /\ status' \in {status, "intent_parsed", "needs_clarification"}
        /\ payload' \in Payloads \cup {payload, NoPayload}
      BY <1>1 DEF Intents, IntentStep, ParseBlank, ProviderAnswers, ProviderReturnsNoObject,
                  ProviderFails, RecordIntentRun, AdvanceIntent
  <2>2. outcome' \in Outcome
    <3>1. \/ outcome' = outcome
          \/ outcome' = Decide(payload')
          \/ outcome' = Clarify("empty_query", Fields, {})
          \/ outcome' = InvalidOutput("none")
          \/ \E e \in ProviderErrors :
                outcome' = [Clarify("provider_error", Fields, {}) EXCEPT !.error = e]
        BY <1>1 DEF Intents, IntentStep, ParseBlank, ProviderAnswers, ProviderReturnsNoObject,
                    ProviderFails, RecordIntentRun, AdvanceIntent
    <3>2. Decide(payload') \in Outcome
        BY DecidedType
    <3> QED BY <3>1, <3>2, NoObjectTypes DEF HeldTypes
  <2>3. IsReport(report)'
      BY <2>1 DEF HeldTypes, IsReport, analysisVars
  <2> QED BY <2>1, <2>2, <2>3 DEF HeldTypes, Status, analysisVars
<1>2. CASE Deliver
  <2>1. report' = NoReport
      BY <1>2 DEF Deliver, ThreadHolds, BeforeReport, BeforeShown
  <2>2. IsReport(report)'
      BY <2>1, ReportTypes DEF IsReport, NoReport
  <2> QED BY <1>2, <2>2 DEF Deliver, HeldTypes, Status, intentVars
<1>3. CASE EndsEarly
  <2>1. IsReport(report)'
      BY <1>3 DEF EndsEarly, HeldTypes, IsReport, analysisVars
  <2> QED BY <1>3, <2>1 DEF EndsEarly, HeldTypes, Status, intentVars, analysisVars
<1>4. CASE Analysis
  <2>1. /\ UNCHANGED <<payload, outcome, configured, analyzer, results>>
        /\ pc' \in {"analysis_ask", "analysis_record", "analysis_save", "analysis_advance", "end"}
      BY <1>4, AnalysisKeepsIntent DEF Analysis, AnalysisStep, WithoutAnalyzer, BoundEvidence,
         WithoutProvider, AnalysisAnswered, AnalysisUnanswered, AnalyzerRaises, RecordAnalysisRun,
         RecordAnalysisRunFails, SaveReport, AdvanceAnalysis, Degrade, Hold
  <2>2. \/ report' = report
        \/ \E reason : report' = Fallback(reason)
        \/ \E answer \in Answers : report' = Judged(answer)
      BY <1>4 DEF Analysis, AnalysisStep, WithoutAnalyzer, BoundEvidence,
         WithoutProvider, AnalysisAnswered, AnalysisUnanswered, AnalyzerRaises, RecordAnalysisRun,
         RecordAnalysisRunFails, SaveReport, AdvanceAnalysis, Degrade, Hold
  <2>3. IsReport(report')
      BY <2>2, ReportTypes DEF HeldTypes
  <2>4. IsReport(report)'
      BY <2>1, <2>3 DEF IsReport
  <2>5. status' = status \/ status' \in {"analyzed", "fallback_summary"}
    <3>1. status' = status \/ AdvanceAnalysis
        BY <1>4 DEF Analysis, AnalysisStep, WithoutAnalyzer, BoundEvidence,
           WithoutProvider, AnalysisAnswered, AnalysisUnanswered, AnalyzerRaises, RecordAnalysisRun,
           RecordAnalysisRunFails, SaveReport, Degrade, Hold
    <3>2. AdvanceAnalysis => status' \in {"analyzed", "fallback_summary"}
        BY DEF AdvanceAnalysis, RunsTellTheStory
    <3> QED BY <3>1, <3>2
  <2> QED BY <2>1, <2>4, <2>5 DEF HeldTypes, Status
<1>5. CASE Abandon \/ UNCHANGED vars
  <2>1. /\ UNCHANGED <<configured, status, intentVars, analysisVars>>
        /\ pc' \in {pc, "lost"}
      BY <1>5 DEF Abandon, vars, sharedVars
  <2>2. IsReport(report)'
      BY <2>1 DEF HeldTypes, IsReport, analysisVars
  <2> QED BY <2>1, <2>2 DEF HeldTypes, intentVars, analysisVars
<1> QED BY <1>1, <1>2, <1>3, <1>4, <1>5 DEF Next

(* Types of the two agents, whatever the provider answers (agents/intent.py, *)
(* agents/analysis.py): each agent records one run, and one report is saved.  *)
THEOREM AgentsTypes == Spec => []AgentsTypeOK
<1>1. Init => HeldTypes
  <2> SUFFICES ASSUME Init PROVE HeldTypes
      OBVIOUS
  <2>1. /\ payload = NoPayload /\ outcome = NoOutcome /\ results = NoResults /\ report = NoReport
        /\ pc = "intent" /\ status = "received" /\ configured \in BOOLEAN
        /\ analyzer \in {"none", "agent_without_provider", "agent"}
      BY DEF Init, IntentInit, AnalysisInit
  <2> QED BY <2>1, NoObjectTypes, ReportTypes DEF HeldTypes, Status
<1>2. ThreadHolds /\ RunsTellTheStory /\ HeldTypes => AgentsTypeOK
  <2> SUFFICES ASSUME ThreadHolds, RunsTellTheStory, HeldTypes PROVE AgentsTypeOK
      OBVIOUS
  <2>1. runs \in {<<>>, <<IntentRun>>, <<IntentRun, AnalysisRun>>}
      BY DEF RunsTellTheStory
  <2>2. Len(runs) <= 2
      BY <2>1
  <2>3. saved \in {<<>>, <<report>>}
      BY DEF ThreadHolds
  <2>4. Len(saved) <= 1 /\ \A i \in DOMAIN saved : saved[i] = report
      BY <2>3
  <2> QED BY <2>2, <2>4 DEF AgentsTypeOK, HeldTypes, ThreadHolds, RunsTellTheStory
<1> QED BY <1>1, <1>2, HeldTypesStep, StoryInvariant, PTL DEF Spec

=============================================================================
