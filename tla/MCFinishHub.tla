------------------------------ MODULE MCFinishHub ------------------------------
(* Model-checking instance of FinishHub.                                    *)
EXTENDS FinishHub, TLC

\* Viewers are interchangeable.
Symmetric == Permutations(Client) \cup Permutations(Hub) \cup Permutations(Group)
=============================================================================
