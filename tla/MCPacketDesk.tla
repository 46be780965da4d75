----------------------------- MODULE MCPacketDesk -----------------------------
(* PacketDesk with a runner, a reserve slot and an id for a new registration. *)
EXTENDS PacketDesk, TLC

CONSTANTS r1, r2, r3, a, b, n1, n2, k1

MCPersonId == Op \cup Id \cup {"p1"}

Runner == [pid |-> "p1", text |-> "x", complete |-> TRUE]

MCRoster ==
    (r1 :> [Empty(a) EXCEPT !.bib = n1, !.epc = k1, !.person = Runner]) @@
    (r2 :> [Empty(b) EXCEPT !.bib = n2, !.reserve = TRUE]) @@
    (r3 :> None)

Symmetric == Permutations(Op)
=============================================================================
