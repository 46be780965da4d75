-------------------------- MODULE MCEventProjection --------------------------
(* Model-checking instance of EventProjection.                              *)
EXTENDS EventProjection, TLC

\* Observations are interchangeable, and so are participants.
Symmetric == Permutations(Log) \cup Permutations(Member)
=============================================================================
