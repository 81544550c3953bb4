---------------------------- MODULE MCCaptureMux ----------------------------
(* Small instances of CaptureMux for TLC. *)
EXTENDS CaptureMux

CONSTANTS b1, b2, l1, l2

BufferIds == {b1, b2}
LoopIds == {l1, l2}
=============================================================================
