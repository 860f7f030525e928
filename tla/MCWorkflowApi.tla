--------------------------- MODULE MCWorkflowApi ----------------------------
(* Small instances of WorkflowApi.  Three requests of two clients are the  *)
(* smallest number that shows two racing for a number or a key and a third *)
(* that finds what they left.                                              *)
EXTENDS WorkflowApi, TLC

CONSTANTS c1, c2, k1, q1

TwoClients == {c1, c2}
OneKey == {k1}
BothKeys == {k1, EmptyKey}
OneQuery == {q1}

ClientSymmetry == Permutations(TwoClients)

=============================================================================
