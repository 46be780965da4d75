--------------------------- MODULE OwnedDelivery ---------------------------
(***************************************************************************)
(* What the ownership journal promises its users, without sequences,       *)
(* batches, requests or crashes: captured observations are settled in the  *)
(* order of their capture, each once, and counted as accepted only when    *)
(* the site has stored them.                                               *)
(***************************************************************************)
EXTENDS Naturals

CONSTANT Obs

VARIABLES
    rank,     \* the place of an observation in the order of capture, 0 for none
    verdict,  \* "open", then "acked" or "rejected" for good
    stored    \* the observations the site has

vars == <<rank, verdict, stored>>

Captured == {o \in Obs : rank[o] > 0}
Settled == {o \in Captured : verdict[o] # "open"}

Init ==
    /\ rank = [o \in Obs |-> 0]
    /\ verdict = [o \in Obs |-> "open"]
    /\ stored = {}

\* New observations rank behind all that were captured before.
Capture ==
    /\ rank' \in [Obs -> Nat]
    /\ \A o \in Captured : rank'[o] = rank[o]
    /\ \A o \in Captured, n \in Obs \ Captured : rank'[n] > 0 => rank[o] < rank'[n]
    /\ UNCHANGED <<verdict, stored>>

\* The site learns of observations, from this Desk or from another producer.
Store ==
    /\ stored' \in SUBSET Obs
    /\ stored \subseteq stored'
    /\ UNCHANGED <<rank, verdict>>

\* The oldest open observations S are settled together.
Settle(S) ==
    /\ S \cap Settled = {}
    /\ \A o \in S, x \in Captured \ S : rank[x] < rank[o] => x \in Settled
    /\ verdict' \in [Obs -> {"open", "acked", "rejected"}]
    /\ \A o \in S : verdict'[o] = "rejected" \/ (verdict'[o] = "acked" /\ o \in stored)
    /\ \A o \in Obs \ S : verdict'[o] = verdict[o]
    /\ UNCHANGED <<rank, stored>>

Next ==
    \/ Capture
    \/ Store
    \/ \E S \in SUBSET Captured : Settle(S)

Spec == Init /\ [][Next]_vars
=============================================================================
