----------------------------- MODULE MCChatClient -----------------------------
(* Small instances of ChatClient: two submissions of the same query, which *)
(* overlap or do not, and room for the requests and rows they can need.    *)
EXTENDS ChatClient

CONSTANTS s1, s2, q1

TwoSubmissions == {s1, s2}
OneQuery == {q1}

=============================================================================
