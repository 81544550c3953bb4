--------------------------- MODULE MCPacketQueue ---------------------------
(* Small rings for TLC: the configurations choose the sizes. *)
EXTENDS PacketQueue
=============================================================================
