---------------------------- MODULE PacketQueue ----------------------------
(***************************************************************************)
(* The ring of packets of libmxuvc/src/common/queue.c.  One mutex covers   *)
(* each operation, so an operation is one step; but queue_pop returns a    *)
(* pointer into the ring, which the consumer reads after the mutex is      *)
(* free again.  Packets are numbered in the order they are stashed.        *)
(***************************************************************************)
EXTENDS Integers, Sequences

CONSTANTS
  MaxSize,    \* maxsize
  Prefill,    \* the prefill that queue_init was called with
  MaxPackets  \* bound: how many packets the producer stashes

\* queue_init refuses prefill > maxsize.
ASSUME QueueAssumption ==
  /\ MaxSize \in Nat \ {0}
  /\ Prefill \in 0 .. MaxSize
  /\ MaxPackets \in Nat

VARIABLES
  first, last,  \* slot of the oldest packet, and of the next one
  prefilled,
  items,        \* the ring; 0 in a slot never written
  produced,     \* number of packets stashed so far
  popped,       \* what the last queue_pop returned: slot and packet, or Nothing
  dropped       \* did the queue drop packets since?

vars == <<first, last, prefilled, items, produced, popped, dropped>>

Slots == 0 .. MaxSize - 1
Packets == 1 .. MaxPackets
Nothing == [slot |-> 0, packet |-> 0]

\* The stored threshold: q->prefill.
Threshold == Prefill - 1

\* C's remainder, corrected where it is negative, is the modulus.
Size == (last - first) % MaxSize

NextSlot(s) == (s + 1) % MaxSize

\* (Seeded fault: the full ring is noticed too late.)
FillsLate(count) == count > MaxSize
Fills(count) == count = MaxSize

\* The new first of a ring that filled up, when the last packet is in slot s.
\* (Seeded fault: the stored threshold is taken for the prefill itself.)
FirstKeptOneMore(s) == (s - Prefill) % MaxSize
FirstKept(s) == (s - Threshold) % MaxSize

TypeOK ==
  /\ first \in Slots /\ last \in Slots
  /\ prefilled \in BOOLEAN /\ dropped \in BOOLEAN
  /\ items \in [Slots -> 0 .. MaxPackets]
  /\ produced \in 0 .. MaxPackets
  /\ popped \in [slot : Slots, packet : 0 .. MaxPackets]

\* queue_init
Init ==
  /\ first = 0 /\ last = 0 /\ prefilled = FALSE
  /\ items = [s \in Slots |-> 0]
  /\ produced = 0 /\ popped = Nothing /\ dropped = FALSE

\* queue_stash: write the packet, and drop the oldest if that fills the ring.
Stash ==
  LET count == Size + 1
      full == Fills(count)
  IN
  /\ produced < MaxPackets
  /\ produced' = produced + 1
  /\ items' = [items EXCEPT ![last] = produced + 1]
  /\ prefilled' = (prefilled \/ count > Threshold)
  /\ first' = IF full THEN FirstKept(last) ELSE first
  /\ last' = NextSlot(last)
  /\ dropped' = (dropped \/ full)
  /\ UNCHANGED popped

\* queue_pop: refused when the queue is empty.
Pop ==
  /\ last # first
  /\ popped' = [slot |-> first, packet |-> items[first]]
  /\ first' = NextSlot(first)
  /\ dropped' = FALSE
  /\ UNCHANGED <<last, prefilled, items, produced>>

\* queue_reset
Reset ==
  /\ first' = 0 /\ last' = 0 /\ prefilled' = FALSE
  /\ popped' = Nothing /\ dropped' = FALSE
  /\ UNCHANGED <<items, produced>>

Next == Stash \/ Pop \/ Reset

Spec == Init /\ [][Next]_vars
-----------------------------------------------------------------------------
(* Properties. *)

Contents == [i \in 1 .. Size |-> items[(first + i - 1) % MaxSize]]

Promise == INSTANCE DropQueue WITH contents <- Contents

\* The ring does what the queue promises: order, the drop of the oldest
\* packets and no others, and the prefilled mark.
ImplementsPromise == Promise!Spec

\* The packet behind the pointer that queue_pop returned stays intact until the
\* queue overflows: only a drop lets the producer reuse its slot.
PoppedIntact ==
  ~dropped => popped = Nothing \/ items[popped.slot] = popped.packet
=============================================================================
