------------------------- MODULE PacketQueueProofs -------------------------
(* Proofs about PacketQueue, for rings of every size and every prefill. *)
EXTENDS PacketQueue, SequenceTheorems, TLAPS

\* Slot arithmetic: at most one wrap in either direction.
LEMMA Wrap ==
  ASSUME NEW m \in Nat \ {0}, NEW x \in Int, -m <= x, x < 2 * m
  PROVE  x % m = IF x < 0 THEN x + m ELSE IF x < m THEN x ELSE x - m
  OBVIOUS

\* What the assumption on the constants says of their values.
LEMMA Sizes == MaxSize \in Nat \ {0} /\ Prefill \in Nat /\ Prefill <= MaxSize
  BY QueueAssumption DEF QueueAssumption

\* The three index computations stay inside the ring.
LEMMA SlotFacts ==
  /\ \A s \in Slots :
       /\ NextSlot(s) = IF s + 1 = MaxSize THEN 0 ELSE s + 1
       /\ FirstKept(s) \in Slots
  /\ \A s, t \in Slots :
       (s - t) % MaxSize = IF s < t THEN s - t + MaxSize ELSE s - t
<1>1. ASSUME NEW s \in Slots
      PROVE  NextSlot(s) = IF s + 1 = MaxSize THEN 0 ELSE s + 1
  <2> DEFINE x == s + 1
  <2>1. x \in Int /\ -MaxSize <= x /\ 0 <= x /\ x <= MaxSize /\ x < 2 * MaxSize
    BY Sizes DEF Slots
  <2> HIDE DEF x
  <2>2. x % MaxSize = IF x < 0 THEN x + MaxSize
                      ELSE IF x < MaxSize THEN x ELSE x - MaxSize
    BY <2>1, Sizes, Wrap
  <2>3. x % MaxSize = IF x = MaxSize THEN 0 ELSE x
    BY <2>1, <2>2, Sizes
  <2> QED
    BY <2>3 DEF x, NextSlot
<1>2. ASSUME NEW s \in Slots
      PROVE  FirstKept(s) \in Slots
  BY Sizes DEF Slots, Threshold, FirstKept
<1>3. ASSUME NEW s \in Slots, NEW t \in Slots
      PROVE  (s - t) % MaxSize = IF s < t THEN s - t + MaxSize ELSE s - t
  <2> DEFINE x == s - t
  <2>1. /\ x \in Int /\ -MaxSize <= x /\ x < MaxSize /\ x < 2 * MaxSize
        /\ x < 0 <=> s < t
    BY Sizes DEF Slots
  <2> HIDE DEF x
  <2>2. x % MaxSize = IF x < 0 THEN x + MaxSize
                      ELSE IF x < MaxSize THEN x ELSE x - MaxSize
    BY <2>1, Sizes, Wrap
  <2>3. x % MaxSize = IF s < t THEN x + MaxSize ELSE x
    BY <2>1, <2>2, Sizes
  <2> QED
    BY <2>3 DEF x
<1> QED
  BY <1>1, <1>2, <1>3
-----------------------------------------------------------------------------
(* Type correctness. *)

\* The values a queue begins with are in range.
LEMMA Zeros ==
  0 \in Slots /\ 0 \in 0 .. MaxPackets /\ Nothing \in
    [slot : Slots, packet : 0 .. MaxPackets]
<1>1. 0 \in Slots /\ 0 \in 0 .. MaxPackets
  BY QueueAssumption DEF QueueAssumption, Slots
<1> QED
  BY <1>1 DEF Nothing

\* A new queue is well typed.
LEMMA TypeInit == Init => TypeOK
  BY Zeros DEF Init, TypeOK

\* Each operation keeps the indices and the packets in range.
LEMMA TypeNext == TypeOK /\ [Next]_vars => TypeOK'
<1> SUFFICES ASSUME TypeOK, [Next]_vars PROVE TypeOK'
  OBVIOUS
<1>0. \A s \in Slots : NextSlot(s) \in Slots
  BY SlotFacts, Sizes DEF Slots
<1>1. CASE Stash
  <2>1. produced' \in 0 .. MaxPackets
    BY <1>1, QueueAssumption DEF Stash, TypeOK, QueueAssumption
  <2>2. items' \in [Slots -> 0 .. MaxPackets]
    BY <1>1, <2>1 DEF Stash, TypeOK
  <2>3. first' \in Slots /\ last' \in Slots
    BY <1>1, <1>0, SlotFacts DEF Stash, TypeOK
  <2>4. prefilled' \in BOOLEAN /\ dropped' \in BOOLEAN
    BY <1>1 DEF Stash, TypeOK
  <2> QED
    BY <1>1, <2>1, <2>2, <2>3, <2>4 DEF Stash, TypeOK
<1>2. CASE Pop
  BY <1>2, <1>0 DEF Pop, TypeOK
<1>3. CASE Reset
  BY <1>3, Zeros DEF Reset, TypeOK
<1>4. CASE UNCHANGED vars
  BY <1>4 DEF vars, TypeOK
<1> QED
  BY <1>1, <1>2, <1>3, <1>4 DEF Next

\* Both indices stay inside the ring, so the assertion of queue_stash
\* (q->last + 1 <= q->maxsize) never fails.
THEOREM QueueTypeCorrect == Spec => []TypeOK
  BY TypeInit, TypeNext, PTL DEF Spec
-----------------------------------------------------------------------------
(***************************************************************************)
(* The packet last popped.  Its slot is the one just before first, and     *)
(* first moves only by a pop, which hands out another packet, or by a      *)
(* drop; so the producer gets there only by filling the ring.              *)
(***************************************************************************)

PoppedInv ==
  popped # Nothing /\ ~dropped =>
    /\ first = NextSlot(popped.slot)
    /\ items[popped.slot] = popped.packet

\* No operation but a stash that drops packets writes into the popped slot: it
\* is the slot before first, and the ring is not full.
LEMMA PoppedNext == TypeOK /\ PoppedInv /\ [Next]_vars => PoppedInv'
<1> SUFFICES ASSUME TypeOK, PoppedInv, [Next]_vars PROVE PoppedInv'
  OBVIOUS
<1>1. CASE Stash
  <2> SUFFICES ASSUME popped # Nothing, ~dropped' PROVE PoppedInv'
    BY <1>1 DEF Stash, PoppedInv
  <2>1. ~dropped /\ Size + 1 # MaxSize /\ first' = first /\ popped' = popped
    BY <1>1 DEF Stash, Fills, TypeOK
  <2>2. popped.slot \in Slots /\ first = NextSlot(popped.slot)
    BY <2>1 DEF PoppedInv, TypeOK
  <2>3. last # popped.slot
    <3> SUFFICES ASSUME last = popped.slot PROVE FALSE
      OBVIOUS
    <3>1. first = IF last + 1 = MaxSize THEN 0 ELSE last + 1
      BY <2>2, SlotFacts
    <3>2. Size = IF last < first THEN last - first + MaxSize ELSE last - first
      BY SlotFacts DEF Size, TypeOK
    <3>3. last \in Int /\ 0 <= last /\ last < MaxSize
      BY Sizes DEF TypeOK, Slots
    <3> QED
      BY <2>1, <3>1, <3>2, <3>3, Sizes
  <2>4. items'[popped.slot] = items[popped.slot]
    BY <1>1, <2>2, <2>3 DEF Stash, TypeOK
  <2> QED
    BY <2>1, <2>2, <2>4 DEF PoppedInv
<1>2. CASE Pop
  BY <1>2 DEF Pop, PoppedInv, TypeOK
<1>3. CASE Reset
  BY <1>3 DEF Reset, PoppedInv
<1>4. CASE UNCHANGED vars
  BY <1>4 DEF vars, PoppedInv
<1> QED
  BY <1>1, <1>2, <1>3, <1>4 DEF Next

\* The consumer may read the packet behind the pointer that queue_pop returned,
\* without the mutex, for as long as the queue does not overflow.
THEOREM PoppedPacketIntact == Spec => []PoppedIntact
<1>1. Init => TypeOK /\ PoppedInv
  BY TypeInit DEF Init, PoppedInv
<1>2. (TypeOK /\ PoppedInv) /\ [Next]_vars => (TypeOK /\ PoppedInv)'
  BY TypeNext, PoppedNext
<1>3. PoppedInv => PoppedIntact
  BY DEF PoppedInv, PoppedIntact
<1> QED
  BY <1>1, <1>2, <1>3, PTL DEF Spec
-----------------------------------------------------------------------------
(***************************************************************************)
(* The ring implements DropQueue.  ReadRing is Contents for any indices    *)
(* and slots, so that it also speaks of the next state; each operation is  *)
(* compared, element by element, with the sequence it should make of it.   *)
(***************************************************************************)

Elements == 0 .. MaxPackets
Count(f, l) == (l - f) % MaxSize
Place(f, i) == (f + i - 1) % MaxSize
ReadRing(r, f, l) == [i \in 1 .. Count(f, l) |-> r[Place(f, i)]]

\* A sum of two positions wraps at most once.
LEMMA Position ==
  ASSUME NEW x \in 0 .. 2 * MaxSize - 1
  PROVE  x % MaxSize = IF x < MaxSize THEN x ELSE x - MaxSize
<1>1. x \in Int /\ 0 <= x /\ x < 2 * MaxSize /\ -MaxSize <= x
  BY Sizes
<1>2. x % MaxSize = IF x < 0 THEN x + MaxSize
                    ELSE IF x < MaxSize THEN x ELSE x - MaxSize
  BY <1>1, Sizes, Wrap
<1> QED
  BY <1>1, <1>2

\* Where the packets of a ring are.
LEMMA PlaceFacts ==
  ASSUME NEW f \in Slots, NEW i \in 1 .. MaxSize
  PROVE  /\ Place(f, i) = IF f + i <= MaxSize THEN f + i - 1 ELSE f + i - 1 - MaxSize
         /\ Place(f, i) \in Slots
<1> DEFINE x == f + i - 1
<1>0. f \in 0 .. MaxSize - 1
  BY DEF Slots
<1>1. x \in 0 .. 2 * MaxSize - 1 /\ (x < MaxSize <=> f + i <= MaxSize)
  BY <1>0, Sizes
<1>2. Place(f, i) = x % MaxSize
  BY DEF Place
<1> HIDE DEF x
<1>3. x % MaxSize = IF x < MaxSize THEN x ELSE x - MaxSize
  BY <1>1, Position
<1>4. Place(f, i) = IF x < MaxSize THEN x ELSE x - MaxSize
  BY <1>2, <1>3
<1>5. Place(f, i) \in Slots
  BY <1>1, <1>4, Sizes DEF Slots
<1>6. Place(f, i) = IF f + i <= MaxSize THEN x ELSE x - MaxSize
  BY <1>1, <1>4
<1> QED
  BY <1>0, <1>5, <1>6, Sizes DEF x

\* How many packets a ring holds.
LEMMA CountFacts ==
  ASSUME NEW f \in Slots, NEW l \in Slots
  PROVE  /\ Count(f, l) = IF l < f THEN l - f + MaxSize ELSE l - f
         /\ Count(f, l) \in 0 .. MaxSize - 1
         /\ Count(f, l) = 0 <=> l = f
<1>1. Count(f, l) = IF l < f THEN l - f + MaxSize ELSE l - f
  BY SlotFacts DEF Count
<1>2. f \in 0 .. MaxSize - 1 /\ l \in 0 .. MaxSize - 1
  BY DEF Slots
<1> QED
  BY <1>1, <1>2, Sizes

\* The packets in a ring are a sequence.
LEMMA ReadRingFacts ==
  ASSUME NEW f \in Slots, NEW l \in Slots, NEW r \in [Slots -> Elements]
  PROVE  /\ ReadRing(r, f, l) \in Seq(Elements)
         /\ Len(ReadRing(r, f, l)) = Count(f, l)
         /\ \A i \in 1 .. Count(f, l) : ReadRing(r, f, l)[i] = r[Place(f, i)]
<1>1. Count(f, l) \in Nat /\ Count(f, l) < MaxSize
  BY CountFacts, Sizes
<1>2. \A i \in 1 .. Count(f, l) : r[Place(f, i)] \in Elements
  BY <1>1, PlaceFacts, Sizes
<1>3. ReadRing(r, f, l) \in [1 .. Count(f, l) -> Elements]
  BY <1>2 DEF ReadRing
<1>4. ReadRing(r, f, l) \in Seq(Elements)
  BY <1>1, <1>3, SeqDef
<1>5. /\ DOMAIN ReadRing(r, f, l) = 1 .. Count(f, l)
      /\ DOMAIN ReadRing(r, f, l) = 1 .. Len(ReadRing(r, f, l))
      /\ Len(ReadRing(r, f, l)) \in Nat
  BY <1>3, <1>4, LenProperties
<1>6. Len(ReadRing(r, f, l)) = Count(f, l)
  BY <1>1, <1>5
<1> QED
  BY <1>4, <1>6 DEF ReadRing

\* The packets of the queue, now and after a step.
LEMMA ContentsRead ==
  /\ Size = Count(first, last) /\ Size' = Count(first', last')
  /\ Contents = ReadRing(items, first, last)
  /\ Contents' = ReadRing(items', first', last')
  BY DEF Size, Count, Contents, ReadRing, Place

\* What a stash does to the variables, in the ranges of the lemmas above.
LEMMA StashFacts ==
  ASSUME TypeOK, Stash
  PROVE  /\ first \in Slots /\ last \in Slots /\ items \in [Slots -> Elements]
         /\ first' \in Slots /\ last' \in Slots /\ items' \in [Slots -> Elements]
         /\ produced + 1 \in Elements
         /\ last' = NextSlot(last) /\ items' = [items EXCEPT ![last] = produced + 1]
  BY TypeNext DEF Next, TypeOK, Elements, Stash

\* With the new packet in its slot the ring reads as the old contents and the
\* packet, from the old first.
LEMMA Stashed ==
  ASSUME TypeOK, Stash
  PROVE  /\ Append(Contents, produced + 1) \in Seq(Elements)
         /\ Len(Append(Contents, produced + 1)) = Size + 1
         /\ \A i \in 1 .. Size + 1 : Append(Contents, produced + 1)[i] = items'[Place(first, i)]
<1> DEFINE n == Count(first, last)
           all == Append(Contents, produced + 1)
<1>1. n \in Nat /\ n + 1 <= MaxSize
  BY StashFacts, CountFacts, Sizes
<1>2. last = Place(first, n + 1) /\ \A i \in 1 .. n : Place(first, i) # last
  <2>1. first \in 0 .. MaxSize - 1 /\ last \in 0 .. MaxSize - 1
    BY StashFacts DEF Slots
  <2>2. n = IF last < first THEN last - first + MaxSize ELSE last - first
    BY StashFacts, CountFacts
  <2>3. \A i \in 1 .. MaxSize :
          Place(first, i) = IF first + i <= MaxSize THEN first + i - 1 ELSE first + i - 1 - MaxSize
    BY StashFacts, PlaceFacts
  <2>4. n + 1 \in 1 .. MaxSize /\ 1 .. n \subseteq 1 .. MaxSize
    BY <1>1, Sizes
  <2> HIDE DEF n
  <2>5. last = Place(first, n + 1)
    BY <1>1, <2>1, <2>2, <2>3, <2>4, Sizes
  <2>6. ASSUME NEW i \in 1 .. n PROVE Place(first, i) # last
    BY <1>1, <2>1, <2>2, <2>3, <2>4, Sizes
  <2> QED
    BY <2>5, <2>6
<1>3. /\ Contents \in Seq(Elements) /\ Len(Contents) = n
      /\ \A i \in 1 .. n : Contents[i] = items[Place(first, i)]
  <2>1. /\ ReadRing(items, first, last) \in Seq(Elements)
        /\ Len(ReadRing(items, first, last)) = n
        /\ \A i \in 1 .. n : ReadRing(items, first, last)[i] = items[Place(first, i)]
    BY StashFacts, ReadRingFacts
  <2> QED
    BY <2>1, ContentsRead
<1>4. /\ all \in Seq(Elements) /\ Len(all) = n + 1
      /\ \A i \in 1 .. n + 1 : all[i] = IF i = n + 1 THEN produced + 1 ELSE Contents[i]
  BY StashFacts, <1>1, <1>3, AppendProperties
<1>5. ASSUME NEW i \in 1 .. n + 1 PROVE all[i] = items'[Place(first, i)]
  <2>1. CASE i = n + 1
    BY StashFacts, <1>2, <1>4, <2>1
  <2>2. CASE i # n + 1
    <3>1. i \in 1 .. n
      BY <1>1, <2>2
    <3>2. Place(first, i) \in Slots /\ Place(first, i) # last
      BY StashFacts, <1>1, <1>2, <3>1, PlaceFacts, Sizes
    <3>3. items'[Place(first, i)] = items[Place(first, i)]
      BY StashFacts, <3>2
    <3>4. all[i] = items[Place(first, i)]
      BY <1>3, <1>4, <2>2, <3>1
    <3> QED
      BY <3>3, <3>4
  <2> QED
    BY <2>1, <2>2
<1> QED
  BY <1>4, <1>5, ContentsRead

\* A stash without a drop appends the packet.
LEMMA StashAppends ==
  ASSUME TypeOK, Stash, ~Fills(Size + 1)
  PROVE  Contents' = Append(Contents, produced + 1)
<1> DEFINE n == Count(first, last)
           all == Append(Contents, produced + 1)
<1>1. n \in Nat /\ n + 1 < MaxSize
  BY StashFacts, CountFacts, ContentsRead, Sizes DEF Fills
<1>2. first' = first
  BY DEF Stash
<1>3. Count(first', last') = n + 1
  <2>1. last' = IF last + 1 = MaxSize THEN 0 ELSE last + 1
    BY StashFacts, SlotFacts
  <2>2. first \in 0 .. MaxSize - 1 /\ last \in 0 .. MaxSize - 1
    BY StashFacts DEF Slots
  <2>3. Count(first', last') = IF last' < first THEN last' - first + MaxSize ELSE last' - first
    BY StashFacts, <1>2, CountFacts
  <2>4. n = IF last < first THEN last - first + MaxSize ELSE last - first
    BY StashFacts, CountFacts
  <2> QED
    BY <1>1, <2>1, <2>2, <2>3, <2>4, Sizes
<1>4. /\ Contents' \in Seq(Elements) /\ Len(Contents') = n + 1
      /\ \A i \in 1 .. n + 1 : Contents'[i] = items'[Place(first, i)]
  <2>1. /\ ReadRing(items', first', last') \in Seq(Elements)
        /\ Len(ReadRing(items', first', last')) = Count(first', last')
        /\ \A i \in 1 .. Count(first', last') :
             ReadRing(items', first', last')[i] = items'[Place(first', i)]
    BY StashFacts, ReadRingFacts
  <2> QED
    BY <2>1, <1>2, <1>3, ContentsRead
<1>5. all \in Seq(Elements) /\ Len(all) = n + 1 /\ \A i \in 1 .. n + 1 : all[i] = items'[Place(first, i)]
  BY Stashed, ContentsRead
<1> HIDE DEF all
<1>6. Contents' = all
  BY <1>4, <1>5, SeqEqual
<1> QED
  BY <1>6 DEF all

\* A stash that fills the ring keeps the newest Prefill packets.
LEMMA StashDrops ==
  ASSUME TypeOK, Stash, Fills(Size + 1), Prefill < MaxSize
  PROVE  Contents' = Promise!Newest(Append(Contents, produced + 1), Prefill)
<1> DEFINE n == Count(first, last)
           all == Append(Contents, produced + 1)
           kept == SubSeq(all, MaxSize - Prefill + 1, MaxSize)
<1>1. n = MaxSize - 1 /\ first' = FirstKept(last)
  BY StashFacts, CountFacts, ContentsRead, Sizes DEF Fills, Stash
<1>2. all \in Seq(Elements) /\ Len(all) = MaxSize /\ \A i \in 1 .. MaxSize : all[i] = items'[Place(first, i)]
  BY <1>1, Stashed, ContentsRead, Sizes
<1>3. first \in 0 .. MaxSize - 1 /\ last \in 0 .. MaxSize - 1
  BY StashFacts DEF Slots
<1>4. first = IF last + 1 = MaxSize THEN 0 ELSE last + 1
  <2>1. n = IF last < first THEN last - first + MaxSize ELSE last - first
    BY StashFacts, CountFacts
  <2> QED
    BY <1>1, <1>3, <2>1, Sizes
<1>5. last' = first
  BY StashFacts, SlotFacts, <1>4
<1>6. first' = IF first < Prefill THEN first - Prefill + MaxSize ELSE first - Prefill
  <2> DEFINE x == last - Threshold
  <2>1. x = last + 1 - Prefill /\ x \in Int /\ -MaxSize <= x /\ x < 2 * MaxSize
    BY <1>3, Sizes DEF Threshold
  <2>2. first' = x % MaxSize
    BY <1>1 DEF FirstKept
  <2> HIDE DEF x
  <2>3. x % MaxSize = IF x < 0 THEN x + MaxSize ELSE IF x < MaxSize THEN x ELSE x - MaxSize
    BY <2>1, Sizes, Wrap
  <2> QED
    BY <1>3, <1>4, <2>1, <2>2, <2>3, Sizes
<1>7. Count(first', last') = Prefill
  <2>1. Count(first', last') = IF last' < first' THEN last' - first' + MaxSize ELSE last' - first'
    BY StashFacts, CountFacts
  <2> QED
    BY <1>3, <1>5, <1>6, <2>1, Sizes
<1>8. /\ Contents' \in Seq(Elements) /\ Len(Contents') = Prefill
      /\ \A i \in 1 .. Prefill : Contents'[i] = items'[Place(first', i)]
  <2>1. /\ ReadRing(items', first', last') \in Seq(Elements)
        /\ Len(ReadRing(items', first', last')) = Count(first', last')
        /\ \A i \in 1 .. Count(first', last') :
             ReadRing(items', first', last')[i] = items'[Place(first', i)]
    BY StashFacts, ReadRingFacts
  <2> QED
    BY <2>1, <1>7, ContentsRead
<1> HIDE DEF all
<1>9. /\ kept \in Seq(Elements) /\ Len(kept) = Prefill
      /\ \A i \in 1 .. Prefill : kept[i] = all[MaxSize - Prefill + i]
  <2>1. \A i \in MaxSize - Prefill + 1 .. MaxSize : all[i] \in Elements
    BY <1>2, Sizes, ElementOfSeq
  <2>2. MaxSize - Prefill + 1 \in Int /\ MaxSize \in Int
    BY Sizes
  <2>3. /\ kept \in Seq(Elements)
        /\ Len(kept) = IF MaxSize - Prefill + 1 <= MaxSize THEN MaxSize - (MaxSize - Prefill + 1) + 1 ELSE 0
        /\ \A i \in 1 .. MaxSize - (MaxSize - Prefill + 1) + 1 : kept[i] = all[MaxSize - Prefill + 1 + i - 1]
    BY <2>1, <2>2, SubSeqProperties
  <2>4. \A i \in 1 .. Prefill : MaxSize - Prefill + 1 + i - 1 = MaxSize - Prefill + i
    BY Sizes
  <2>5. MaxSize - (MaxSize - Prefill + 1) + 1 = Prefill /\ (MaxSize - Prefill + 1 <= MaxSize <=> Prefill # 0)
    BY Sizes
  <2> QED
    BY <2>3, <2>4, <2>5, Sizes
<1>10. ASSUME NEW i \in 1 .. Prefill PROVE Contents'[i] = kept[i]
  <2>1. MaxSize - Prefill + i \in 1 .. MaxSize /\ i \in 1 .. MaxSize
    BY Sizes
  <2>2. Place(first, MaxSize - Prefill + i) =
          IF first + (MaxSize - Prefill + i) <= MaxSize THEN first + (MaxSize - Prefill + i) - 1
          ELSE first + (MaxSize - Prefill + i) - 1 - MaxSize
    BY <2>1, StashFacts, PlaceFacts
  <2>3. Place(first', i) = IF first' + i <= MaxSize THEN first' + i - 1 ELSE first' + i - 1 - MaxSize
    BY <2>1, StashFacts, PlaceFacts
  <2>4. Place(first', i) = Place(first, MaxSize - Prefill + i)
    BY <1>3, <1>6, <2>1, <2>2, <2>3, Sizes
  <2> QED
    BY <1>2, <1>8, <1>9, <2>1, <2>4
<1> HIDE DEF kept
<1>11. Contents' = kept
  BY <1>8, <1>9, <1>10, SeqEqual
<1>12. MaxSize = Len(all)
  BY <1>2
<1> QED
  BY <1>11, <1>12 DEF kept, all, Promise!Newest

\* A pop takes the first packet.
LEMMA PopTakesFirst ==
  ASSUME TypeOK, Pop
  PROVE  Contents # <<>> /\ Contents' = Tail(Contents)
<1> DEFINE n == Count(first, last)
<1>1. /\ first \in Slots /\ last \in Slots /\ items \in [Slots -> Elements]
      /\ first' \in Slots /\ last' = last /\ items' = items /\ first' = NextSlot(first)
      /\ last # first
  BY TypeNext DEF Next, TypeOK, Elements, Pop
<1>2. n \in Nat /\ n # 0 /\ n < MaxSize
  BY <1>1, CountFacts, Sizes
<1>3. first \in 0 .. MaxSize - 1 /\ last \in 0 .. MaxSize - 1
  BY <1>1 DEF Slots
<1>4. first' = IF first + 1 = MaxSize THEN 0 ELSE first + 1
  BY <1>1, SlotFacts
<1>5. Count(first', last') = n - 1
  <2>1. Count(first', last') = IF last < first' THEN last - first' + MaxSize ELSE last - first'
    BY <1>1, CountFacts
  <2>2. n = IF last < first THEN last - first + MaxSize ELSE last - first
    BY <1>1, CountFacts
  <2> QED
    BY <1>1, <1>3, <1>4, <2>1, <2>2, Sizes
<1>6. /\ Contents \in Seq(Elements) /\ Len(Contents) = n
      /\ \A i \in 1 .. n : Contents[i] = items[Place(first, i)]
  <2>1. /\ ReadRing(items, first, last) \in Seq(Elements)
        /\ Len(ReadRing(items, first, last)) = n
        /\ \A i \in 1 .. n : ReadRing(items, first, last)[i] = items[Place(first, i)]
    BY <1>1, ReadRingFacts
  <2> QED
    BY <2>1, ContentsRead
<1>7. /\ Contents' \in Seq(Elements) /\ Len(Contents') = n - 1
      /\ \A i \in 1 .. n - 1 : Contents'[i] = items[Place(first', i)]
  <2>1. /\ ReadRing(items, first', last) \in Seq(Elements)
        /\ Len(ReadRing(items, first', last)) = Count(first', last)
        /\ \A i \in 1 .. Count(first', last) :
             ReadRing(items, first', last)[i] = items[Place(first', i)]
    BY <1>1, ReadRingFacts
  <2> QED
    BY <2>1, <1>1, <1>5, ContentsRead
<1>8. Contents # <<>>
  BY <1>2, <1>6, EmptySeq
<1>9. /\ Tail(Contents) \in Seq(Elements) /\ Len(Tail(Contents)) = n - 1
      /\ \A i \in 1 .. n - 1 : Tail(Contents)[i] = Contents[i + 1]
  BY <1>6, <1>8, HeadTailProperties
<1>10. ASSUME NEW i \in 1 .. n - 1 PROVE Contents'[i] = Tail(Contents)[i]
  <2>1. i \in 1 .. MaxSize /\ i + 1 \in 1 .. MaxSize /\ i + 1 \in 1 .. n
    BY <1>2, Sizes
  <2>2. Place(first, i + 1) = IF first + (i + 1) <= MaxSize THEN first + (i + 1) - 1
                              ELSE first + (i + 1) - 1 - MaxSize
    BY <1>1, <2>1, PlaceFacts
  <2>3. Place(first', i) = IF first' + i <= MaxSize THEN first' + i - 1 ELSE first' + i - 1 - MaxSize
    BY <1>1, <2>1, PlaceFacts
  <2>4. Place(first', i) = Place(first, i + 1)
    BY <1>3, <1>4, <2>1, <2>2, <2>3, Sizes
  <2> QED
    BY <1>6, <1>7, <1>9, <2>1, <2>4
<1>11. Contents' = Tail(Contents)
  BY <1>7, <1>9, <1>10, SeqEqual
<1> QED
  BY <1>8, <1>11

\* A ring whose indices agree is empty.
LEMMA EmptyRing ==
  ASSUME NEW f \in Slots, NEW r PROVE ReadRing(r, f, f) = <<>>
<1>1. Count(f, f) = 0
  BY CountFacts
<1> QED
  BY <1>1 DEF ReadRing

\* Each step of the ring is a step of the queue it promises, or none.
LEMMA StepImplements ==
  ASSUME TypeOK, [Next]_vars, Prefill < MaxSize
  PROVE  [Promise!Next]_<<Contents, prefilled>>
<1>1. CASE Stash
  <2>1. Len(Append(Contents, produced + 1)) = Size + 1 /\ Size \in Nat
    BY <1>1, Stashed, StashFacts, CountFacts, ContentsRead, Sizes
  <2>2. prefilled' = (prefilled \/ Len(Append(Contents, produced + 1)) >= Prefill)
    <3>1. prefilled' = (prefilled \/ Size + 1 > Threshold)
      BY <1>1 DEF Stash
    <3>2. Size + 1 > Threshold <=> Len(Append(Contents, produced + 1)) >= Prefill
      BY <2>1, Sizes DEF Threshold
    <3> QED
      BY <3>1, <3>2
  <2>3. Contents' = IF Len(Append(Contents, produced + 1)) = MaxSize
                      THEN Promise!Newest(Append(Contents, produced + 1), Prefill)
                      ELSE Append(Contents, produced + 1)
    BY <1>1, <2>1, StashAppends, StashDrops DEF Fills
  <2>4. produced + 1 \in Packets
    BY <1>1, QueueAssumption DEF Stash, TypeOK, Packets, QueueAssumption
  <2>5. Promise!Stash(produced + 1)
    BY <2>2, <2>3 DEF Promise!Stash
  <2> QED
    BY <2>4, <2>5 DEF Promise!Next
<1>2. CASE Pop
  BY <1>2, PopTakesFirst DEF Pop, Promise!Pop, Promise!Next
<1>3. CASE Reset
  <2>1. first' = last' /\ first' \in Slots
    BY <1>3, Zeros DEF Reset
  <2>2. Contents' = <<>>
    BY <2>1, EmptyRing, ContentsRead
  <2> QED
    BY <1>3, <2>2 DEF Reset, Promise!Reset, Promise!Next
<1>4. CASE UNCHANGED vars
  <2>1. first' = first /\ last' = last /\ items' = items /\ prefilled' = prefilled
    BY <1>4 DEF vars
  <2> QED
    BY <2>1, ContentsRead
<1> QED
  BY <1>1, <1>2, <1>3, <1>4 DEF Next

\* For every size and every prefill below it the ring is the queue that
\* DropQueue describes: packets leave in order, and a queue that fills up keeps
\* the newest Prefill.
THEOREM RingImplementsPromise ==
  ASSUME Prefill < MaxSize PROVE Spec => ImplementsPromise
<1>1. Init => Promise!Init
  <2> SUFFICES ASSUME Init PROVE Promise!Init
    OBVIOUS
  <2>1. first = last /\ first \in Slots
    BY Zeros DEF Init
  <2>2. Contents = <<>>
    BY <2>1, EmptyRing, ContentsRead
  <2> QED
    BY <2>2 DEF Init, Promise!Init
<1>2. TypeOK /\ [Next]_vars => [Promise!Next]_<<Contents, prefilled>>
  BY StepImplements
<1> QED
  BY <1>1, <1>2, TypeInit, TypeNext, PTL DEF Spec, ImplementsPromise, Promise!Spec
=============================================================================
