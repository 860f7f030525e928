--------------------------- MODULE MCWorkflowAgents ---------------------------
(* A small instance of WorkflowAgents.  Between them the fields are given  *)
(* by the value of a member, by a synonym, in other letters, by a synonym  *)
(* of another field, blank, as a number, or left open.  Three documents,   *)
(* two of one score, of lengths that let some pairs fit the prompt and     *)
(* others not.                                                             *)
EXTENDS WorkflowAgents, TLC

CONSTANTS t1, t2, d1, d2, d3

MCRaw == [module  |-> {"payment", "Billing", "ff", "null"},
          scope   |-> {"smoke", "null", "7"},
          browser |-> {"FF", "firefox", " "},
          region  |-> {"EU", "Usa ", "US", "null"}]

\* "null" and "7" stand for null and for a number.
MCCandidate == [r \in UNION {MCRaw[f] : f \in DOMAIN MCRaw} |->
    CASE r = "Billing" -> "billing"
      [] r = "FF"      -> "ff"
      [] r = "EU"      -> "eu"
      [] r = "US"      -> "us"
      [] r = "Usa "    -> "usa"
      [] r = " "       -> ""
      [] OTHER         -> r]

MCMembers == [module  |-> "payment" :> "payment",
              scope   |-> "smoke" :> "smoke",
              browser |-> "firefox" :> "firefox",
              region  |-> "us" :> "US" @@ "eu" :> "EU"]

MCSynonyms == [module  |-> "billing" :> "payment",
               scope   |-> "sanity" :> "smoke",
               browser |-> "ff" :> "firefox",
               region  |-> "us" :> "US" @@ "usa" :> "US"]

MCConfidences == {-1, 0, 49, 50, 100, 101}

MCTests == {t1, t2}
MCDocs == {d1, d2, d3}
MCScore == (d1 :> 2) @@ (d2 :> 2) @@ (d3 :> 1)
MCLength == (d1 :> 3) @@ (d2 :> 6) @@ (d3 :> 1)

=============================================================================
