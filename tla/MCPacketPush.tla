----------------------------- MODULE MCPacketPush ------------------------------
(* PacketPush with one registration taken and one free. *)
EXTENDS PacketPush, TLC

CONSTANTS r1, r2, p1

MCOwner == (r1 :> p1) @@ (r2 :> None)
=============================================================================
