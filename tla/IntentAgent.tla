----------------------------- MODULE IntentAgent ------------------------------
(***************************************************************************)
(* The intent agent (app/agents/intent.py, normalization.py): the query    *)
(* goes to the provider, what comes back is normalised to the controlled   *)
(* vocabulary and becomes a TestIntent or a request for clarification, the *)
(* run is recorded, and the node advances the workflow.                    *)
(*                                                                         *)
(* A payload is what the provider put into each of the four required       *)
(* fields, and its confidence in percent.  Environment, which nothing      *)
(* requires and nothing checks, is left out.                               *)
(***************************************************************************)
EXTENDS AgentRuns

CONSTANTS
    Raw,          \* for each field, the raw values a provider may give it
    Null,         \* the field is null or absent
    NotText,      \* the field holds something that is no string
    Candidate,    \* a raw string trimmed, lowered, with single spaces
    Blank,        \* the candidate of a string with nothing in it
    Members,      \* for each field, candidate -> value of that member of its enum
    Synonyms,     \* for each field, candidate -> member, the approved synonyms
    Confidences,  \* the confidences a provider may give
    Threshold     \* the configured confidence threshold

Fields == {"module", "scope", "browser", "region"}
NoValue == "none"
IsText(v) == v # Null /\ v # NotText
Values(f) == {Members[f][c] : c \in DOMAIN Members[f]}

ASSUME IntentAssumption ==
    /\ Null # NotText
    /\ \A f \in Fields : NoValue \notin Values(f)
    /\ \A f \in Fields : Blank \notin DOMAIN Members[f] \cup DOMAIN Synonyms[f]
    /\ \A f \in Fields : \A v \in Values(f) :
          IsText(v) /\ Candidate[v] \in DOMAIN Members[f]
    /\ \A f \in Fields : \A c \in DOMAIN Synonyms[f] : Synonyms[f][c] \in Values(f)
    /\ Confidences \subseteq Int
    /\ Threshold \in 0 .. 100

VARIABLES
    payload,  \* what the provider answered parse_intent, NoPayload otherwise
    outcome   \* what parse_intent returned, NoOutcome before

intentVars == <<payload, outcome>>

NoPayload == [fields |-> [f \in Fields |-> Null], confidence |-> 0, usable |-> FALSE]
NoOutcome == [kind |-> "none", values |-> [f \in Fields |-> NoValue],
              reason |-> "none", missing |-> {}, unsupported |-> {}, error |-> "none"]

Payloads == {[fields |-> r, confidence |-> c, usable |-> TRUE] :
                r \in {g \in [Fields -> UNION {Raw[f] : f \in Fields}] :
                          \A f \in Fields : g[f] \in Raw[f]},
                c \in Confidences}

\* build_intent_schema: members of the enums or null, and a probability.
\* Whether a provider keeps to it is not known before the answer is checked.
SchemaAllows(p) ==
    /\ \A f \in Fields : p.fields[f] = Null \/ p.fields[f] \in Values(f)
    /\ p.confidence \in 0 .. 100

-----------------------------------------------------------------------------
(* normalization.py *)

\* Mutant: the members themselves are not looked up.
BadResolveSynonymsOnly(f, text) ==
    LET c == Candidate[text]
    IN  IF c # Blank /\ c \in DOMAIN Synonyms[f] THEN Synonyms[f][c] ELSE NoValue

\* Mutant: a synonym of any vocabulary is good enough.
BadResolveAnyVocabulary(f, text) ==
    LET c == Candidate[text]
        known == {g \in Fields : c \in DOMAIN Synonyms[g]}
    IN  IF c = Blank THEN NoValue
        ELSE IF c \in DOMAIN Members[f] THEN Members[f][c]
        ELSE IF known # {} THEN LET g == CHOOSE g \in known : TRUE IN Synonyms[g][c]
        ELSE NoValue

\* _resolve, as normalize_module, _scope, _browser and _region call it
Resolve(f, text) ==
    LET c == Candidate[text]
    IN  IF c = Blank THEN NoValue
        ELSE IF c \in DOMAIN Members[f] THEN Members[f][c]
        ELSE IF c \in DOMAIN Synonyms[f] THEN Synonyms[f][c]
        ELSE NoValue

\* _normalize_fields: the resolved values
Normalized(p) ==
    [f \in Fields |-> IF IsText(p.fields[f]) THEN Resolve(f, p.fields[f]) ELSE NoValue]

\* _normalize_fields: the fields that name something that is not supported.
\* A blank string names nothing.
Unsupported(p) ==
    {f \in Fields :
        \/ p.fields[f] = NotText
        \/ /\ IsText(p.fields[f])
           /\ Resolve(f, p.fields[f]) = NoValue
           /\ Candidate[p.fields[f]] # Blank}

Missing(p) == {f \in Fields : Normalized(p)[f] = NoValue}

-----------------------------------------------------------------------------
(* parse_intent *)

Clarify(reason, missing, unsupported) ==
    [NoOutcome EXCEPT !.kind = "clarification", !.reason = reason,
                      !.missing = missing, !.unsupported = unsupported]

InvalidOutput(error) == [Clarify("invalid_output", Fields, {}) EXCEPT !.error = error]

Intent(values) == [NoOutcome EXCEPT !.kind = "intent", !.values = values]

\* Mutant: missing fields are only those the provider left open.
BadDecideTellsOpenFields(p) ==
    IF p.confidence \notin 0 .. 100 THEN InvalidOutput("validation")
    ELSE IF Unsupported(p) # {}
         THEN Clarify("unsupported_value", Missing(p) \ Unsupported(p), Unsupported(p))
    ELSE IF Missing(p) # {} THEN Clarify("missing_fields", Missing(p), {})
    ELSE IF p.confidence < Threshold THEN Clarify("low_confidence", Missing(p), {})
    ELSE Intent(Normalized(p))

\* What parse_intent makes of an object.  TestIntent refuses a confidence that
\* is not between 0 and 1; an absent one counts as 0.
Decide(p) ==
    IF p.confidence \notin 0 .. 100 THEN InvalidOutput("validation")
    ELSE IF Unsupported(p) # {} THEN Clarify("unsupported_value", Missing(p), Unsupported(p))
    ELSE IF Missing(p) # {} THEN Clarify("missing_fields", Missing(p), {})
    ELSE IF p.confidence < Threshold THEN Clarify("low_confidence", Missing(p), {})
    ELSE Intent(Normalized(p))

IntentInit ==
    /\ payload = NoPayload
    /\ outcome = NoOutcome

\* A query of white space passes the route and is stopped here.
ParseBlank ==
    /\ pc = "intent"
    /\ outcome' = Clarify("empty_query", Fields, {})
    /\ pc' = "intent_record"
    /\ UNCHANGED <<configured, status, runs, payload>>

\* extract_structured returned an object
ProviderAnswers ==
    /\ pc = "intent"
    /\ configured
    /\ payload' \in Payloads
    /\ outcome' = Decide(payload')
    /\ pc' = "intent_record"
    /\ UNCHANGED <<configured, status, runs>>

\* It returned something else, which only a provider other than OpenAI's does.
ProviderReturnsNoObject ==
    /\ pc = "intent"
    /\ configured
    /\ outcome' = InvalidOutput("none")
    /\ pc' = "intent_record"
    /\ UNCHANGED <<configured, status, runs, payload>>

ProviderFails ==
    /\ pc = "intent"
    /\ \E e \in ProviderErrors :
          outcome' = [Clarify("provider_error", Fields, {}) EXCEPT !.error = e]
    /\ pc' = "intent_record"
    /\ UNCHANGED <<configured, status, runs, payload>>

\* _record and _clarify: only an outage of the provider is a failed run.
RecordIntentRun ==
    /\ pc = "intent_record"
    /\ RecordRun("intent",
                 IF outcome.reason = "provider_error" THEN "failed" ELSE "completed",
                 outcome, outcome.error)
    /\ pc' = "intent_advance"
    /\ UNCHANGED <<configured, status, payload, outcome>>

\* parse_intent returned, and intent_node advances.
AdvanceIntent ==
    /\ pc = "intent_advance"
    /\ IF outcome.kind = "intent"
       THEN status' = "intent_parsed" /\ pc' = "between"
       ELSE status' = "needs_clarification" /\ pc' = "end"
    /\ payload' = NoPayload
    /\ UNCHANGED <<configured, runs, outcome>>

IntentStep ==
    \/ ParseBlank
    \/ ProviderAnswers
    \/ ProviderReturnsNoObject
    \/ ProviderFails
    \/ RecordIntentRun
    \/ AdvanceIntent

-----------------------------------------------------------------------------
(* Properties *)

\* The agent "must not invent a module, browser, region" (docs/modules/03): an
\* intent has a value of the vocabulary in every field, each reached from the
\* text of that very field, and the provider was as sure as was asked.
\* Nobody changes the intent once parse_intent has returned.
NothingIsGuessed ==
    outcome.kind = "intent" /\ pc \in {"intent_record", "intent_advance"} =>
        /\ payload.usable
        /\ \A f \in Fields :
              /\ IsText(payload.fields[f])
              /\ outcome.values[f] \in Values(f)
              /\ \/ /\ Candidate[payload.fields[f]] \in DOMAIN Members[f]
                    /\ outcome.values[f] = Members[f][Candidate[payload.fields[f]]]
                 \/ /\ Candidate[payload.fields[f]] \in DOMAIN Synonyms[f]
                    /\ outcome.values[f] = Synonyms[f][Candidate[payload.fields[f]]]
        /\ payload.confidence \in Threshold .. 100

\* The answer to the client lists missing_fields and not unsupported_values
\* (api/errors.py:109), so a field whose value was refused has to be among
\* the missing ones.  However a clarification comes about, it lists exactly
\* the fields for which the provider gave no usable value (without an answer,
\* all of them), with one exception: an answer whose confidence is no
\* probability is thrown away whole, and all four fields are listed although
\* the provider may have given each a usable value (intent.py:142-150).
ClarificationNamesTheGap ==
    outcome.kind = "clarification" /\ pc \in {"intent_record", "intent_advance"} =>
        LET gap == {f \in Fields :
                       IsText(payload.fields[f]) =>
                          /\ Candidate[payload.fields[f]] \notin DOMAIN Members[f]
                          /\ Candidate[payload.fields[f]] \notin DOMAIN Synonyms[f]}
        IN  /\ outcome.unsupported \subseteq outcome.missing
            /\ \/ outcome.missing = gap
               \/ payload.confidence \notin 0 .. 100 /\ outcome.missing = Fields

\* "Structured output is validated twice" (docs/modules/03): the second gate
\* has no objection to what the first lets through, it only asks for what is
\* missing or more certainty.
GatesAgree ==
    payload.usable /\ SchemaAllows(payload) =>
        outcome.kind = "intent" \/ outcome.reason \in {"missing_fields", "low_confidence"}

=============================================================================
