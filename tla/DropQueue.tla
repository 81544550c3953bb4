----------------------------- MODULE DropQueue -----------------------------
(***************************************************************************)
(* What a packet queue promises (libmxuvc/src/common/queue.c): packets     *)
(* leave in the order they came; a queue that fills up drops its oldest    *)
(* packets and keeps the newest Prefill; the consumer learns once Prefill  *)
(* packets have been there at the same time.                               *)
(***************************************************************************)
EXTENDS Integers, Sequences

CONSTANTS Packets, MaxSize, Prefill

VARIABLES contents, prefilled

Newest(s, n) == SubSeq(s, Len(s) - n + 1, Len(s))

Init == contents = <<>> /\ prefilled = FALSE

Stash(p) ==
  LET all == Append(contents, p) IN
  /\ contents' = IF Len(all) = MaxSize THEN Newest(all, Prefill) ELSE all
  /\ prefilled' = (prefilled \/ Len(all) >= Prefill)

Pop ==
  /\ contents # <<>>
  /\ contents' = Tail(contents)
  /\ UNCHANGED prefilled

Reset == contents' = <<>> /\ prefilled' = FALSE

Next == (\E p \in Packets : Stash(p)) \/ Pop \/ Reset

Spec == Init /\ [][Next]_<<contents, prefilled>>
=============================================================================
