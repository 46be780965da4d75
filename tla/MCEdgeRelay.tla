------------------------------ MODULE MCEdgeRelay ------------------------------
(* Model-checking instance of EdgeRelay.                                    *)
EXTENDS EdgeRelay, TLC

\* Instances are interchangeable, and so are addresses.
Symmetric == Permutations(Instance) \cup Permutations(Endpoint)
=============================================================================
