---------------------------- MODULE MCV4l2Video ----------------------------
(* Small instances of V4l2Video for TLC. *)
EXTENDS V4l2Video, TLC

CONSTANTS b1, b2, l1, l2

BufferIds == {b1, b2}
LoopIds == {l1, l2}
Symmetric == Permutations(BufferIds) \cup Permutations(LoopIds)

\* The camera sends video of its mux channels only, or other boxes as well.
VideoBoxes == 0 .. MuxCount - 1
AllBoxes == VideoBoxes \cup {MuxCount + 1}
=============================================================================
