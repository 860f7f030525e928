--------------------------- MODULE MCMockJenkins ----------------------------
(* Small instances of MockJenkins.  One job is enough for the races, which *)
(* are all about one job; a second one shows the numbering.                *)
EXTENDS MockJenkins

CONSTANTS c1, c2, r1

TwoCallers == {c1, c2}

OneRequest == {r1}

=============================================================================
