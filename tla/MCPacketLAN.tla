------------------------------ MODULE MCPacketLAN ------------------------------
(* PacketLAN with two events, of which only the first has a feed. *)
EXTENDS PacketLAN, TLC

CONSTANTS e1, e2

MCMaxAction == (e1 :> 2) @@ (e2 :> 0)
=============================================================================
