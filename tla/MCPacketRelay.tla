----------------------------- MODULE MCPacketRelay -----------------------------
(* PacketRelay with one runner and an id for a reserve slot. *)
EXTENDS PacketRelay, TLC

CONSTANTS r1, r2, race1, n1

MCPersonId == Op \cup Id \cup {"p1"}

Runner == [pid |-> "p1", text |-> "x", complete |-> TRUE]

MCRoster == (r1 :> [Empty(race1) EXCEPT !.bib = n1, !.person = Runner]) @@ (r2 :> None)

Symmetric == Permutations(Op)
=============================================================================
