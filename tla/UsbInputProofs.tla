--------------------------- MODULE UsbInputProofs ---------------------------
(***************************************************************************)
(* Proofs about the input of the libusb backends, in the steps of UsbInput.*)
(* Of the demultiplexer (UvcDemux): what the client is called with, and    *)
(* that no frame is dropped without a loss. The packets of a payload are   *)
(* taken with FoldLeft; the proofs turn it into a run, packet by packet,   *)
(* and go along the run by induction, which rests on the least of a set of *)
(* numbers. Of the descriptor parsers (UsbDescriptors): that what they     *)
(* store is what the configuration describes, stated by counting the       *)
(* positions of its descriptors and kept as the walk goes on.              *)
(***************************************************************************)
EXTENDS UsbInput, SequenceTheorems, FiniteSetTheorems, WellFoundedInduction, TLAPS
-----------------------------------------------------------------------------
(* Numbers, and folds over sequences *)

\* The order of the numbers, as a relation.
Less == OpToRel(<, Nat)

\* Of numbers there is a least one (library: the order is well-founded).
LEMMA LeastNat ==
  ASSUME NEW T, T \subseteq Nat, T # {}
  PROVE  \E x \in T : \A y \in T : ~(y < x)
<1>1. IsWellFoundedOn(Less, Nat)
  BY Zenon, NatLessThanWellFounded DEF Less
<1>2. \E x \in T : \A y \in T : ~(<<y, x>> \in Less)
  BY <1>1, WFMin, Zenon
<1>3. ASSUME NEW x \in Nat, NEW y \in Nat, y < x PROVE <<y, x>> \in Less
  <2>1. Less = {ss \in Nat \X Nat : ss[1] < ss[2]}
    BY Zenon DEF OpToRel, Less
  <2>2. <<y, x>> \in Nat \X Nat
    OBVIOUS
  <2>3. <<y, x>>[1] < <<y, x>>[2]
    BY <1>3
  <2> QED BY <2>1, <2>2, <2>3, Zenon
<1>4. QED BY <1>2, <1>3

\* Induction, in a form the provers can use: a set of numbers that holds 0 and
\* with each number the next holds them all.
LEMMA NatInducts ==
  ASSUME NEW S, 0 \in S, \A n \in Nat : n \in S => n + 1 \in S
  PROVE  Nat \subseteq S
<1>1. SUFFICES ASSUME Nat \ S # {} PROVE FALSE
  OBVIOUS
<1>2. PICK x \in Nat \ S : \A y \in Nat \ S : ~(y < x)
  BY <1>1, LeastNat
<1>3. x - 1 \in Nat /\ x - 1 < x
  BY <1>2
<1>4. x - 1 \in S
  BY <1>2, <1>3
<1>5. QED BY <1>2, <1>3, <1>4

\* The maximum of the community modules is the number that bounds the others.
LEMMA MaxNat ==
  ASSUME NEW s, s \subseteq Nat, NEW m \in s, \A y \in s : y <= m
  PROVE  Max(s) = m
<1>1. \A x \in s : (\A y \in s : x >= y) => x = m
  OBVIOUS
<1>2. \A y \in s : m >= y
  OBVIOUS
<1>3. Max(s) \in s /\ \A y \in s : Max(s) >= y
  BY <1>2, Zenon DEF Max
<1>4. QED BY <1>1, <1>3

\* What FoldLeft chooses: the results for the initial segments of a sequence, as a
\* function of the sets of their indices.
IsFold(iter, d, ps, k) ==
  iter = [s \in SUBSET (1 .. k) |->
            IF s = {} THEN d ELSE TsPacket(iter[s \ {Max(s)}], ps[Max(s)])]

\* There is such a function, so that the choice is not arbitrary.
LEMMA FoldExists ==
  ASSUME NEW d, NEW ps, NEW n \in Nat
  PROVE  \E iter : IsFold(iter, d, ps, n)
<1> DEFINE S == {k \in Nat : \E iter : IsFold(iter, d, ps, k)}
<1>1. 0 \in S
  <2> DEFINE it == [s \in SUBSET (1 .. 0) |-> d]
  <2>1. \A s \in SUBSET (1 .. 0) : s = {}
    OBVIOUS
  <2>2. IsFold(it, d, ps, 0)
    BY <2>1, Zenon DEF IsFold
  <2>3. 0 \in Nat OBVIOUS
  <2> QED BY <2>2, <2>3, Zenon
<1>2. ASSUME NEW k \in Nat, k \in S PROVE k + 1 \in S
  <2>1. PICK it : it = [s \in SUBSET (1 .. k) |->
                     IF s = {} THEN d ELSE TsPacket(it[s \ {Max(s)}], ps[Max(s)])]
    BY <1>2, Zenon DEF IsFold
  <2> DEFINE new == [s \in SUBSET (1 .. k + 1) |->
                       IF k + 1 \in s THEN TsPacket(it[s \ {k + 1}], ps[k + 1]) ELSE it[s]]
  <2>2. ASSUME NEW s \in SUBSET (1 .. k + 1), k + 1 \in s
        PROVE  new[s] = TsPacket(new[s \ {Max(s)}], ps[Max(s)])
    <3>5. s \subseteq Nat /\ k + 1 \in s /\ \A y \in s : y <= k + 1
      BY <2>2
    <3>1. Max(s) = k + 1
      BY <3>5, MaxNat, Zenon
    <3>2. s \ {k + 1} \in SUBSET (1 .. k + 1) /\ k + 1 \notin s \ {k + 1}
      OBVIOUS
    <3>3. new[s \ {k + 1}] = it[s \ {k + 1}]
      BY <3>2, Zenon
    <3>4. new[s] = TsPacket(it[s \ {k + 1}], ps[k + 1])
      BY <2>2, Zenon
    <3> QED BY <3>1, <3>3, <3>4, Zenon
  <2>3. ASSUME NEW s \in SUBSET (1 .. k + 1), k + 1 \notin s, s # {}
        PROVE  new[s] = TsPacket(new[s \ {Max(s)}], ps[Max(s)])
    <3>1. s \in SUBSET (1 .. k)
      BY <2>3
    <3>2. s \ {Max(s)} \in SUBSET (1 .. k + 1) /\ k + 1 \notin s \ {Max(s)}
      BY <2>3
    <3>3. new[s] = it[s] /\ new[s \ {Max(s)}] = it[s \ {Max(s)}]
      BY <2>3, <3>2, Zenon
    <3>4. it[s] = TsPacket(it[s \ {Max(s)}], ps[Max(s)])
      BY <2>1, <2>3, <3>1, Zenon
    <3> QED BY <3>3, <3>4, Zenon
  <2>4. new[{}] = d
    <3>1. {} \in SUBSET (1 .. k + 1) /\ {} \in SUBSET (1 .. k) /\ k + 1 \notin {}
      OBVIOUS
    <3>2. new[{}] = it[{}]
      BY <3>1, Zenon
    <3> QED BY <2>1, <3>1, <3>2, Zenon
  <2>5. \A s \in SUBSET (1 .. k + 1) :
          new[s] = IF s = {} THEN d ELSE TsPacket(new[s \ {Max(s)}], ps[Max(s)])
    BY <2>2, <2>3, <2>4, Zenon
  <2>6. new = [s \in SUBSET (1 .. k + 1) |-> new[s]]
    OBVIOUS
  <2>7. new = [s \in SUBSET (1 .. k + 1) |->
                 IF s = {} THEN d ELSE TsPacket(new[s \ {Max(s)}], ps[Max(s)])]
    <3> HIDE DEF new
    <3> QED BY <2>5, <2>6, Zenon
  <2>8. k + 1 \in Nat
    OBVIOUS
  <2> HIDE DEF new
  <2>9. IsFold(new, d, ps, k + 1)
    BY <2>7, Zenon DEF IsFold
  <2> QED BY <2>8, <2>9, Zenon
<1>3. Nat \subseteq S
  <2> HIDE DEF S
  <2> QED BY <1>1, <1>2, NatInducts
<1>4. QED BY <1>3, Zenon

\* FoldLeft is the end of a run: the value before each element and the element give
\* the value after it.
LEMMA FoldRun ==
  ASSUME NEW d, NEW n \in Nat, NEW ps, DOMAIN ps = 1 .. n
  PROVE  \E r : /\ r[0] = d
                /\ \A i \in 1 .. n : r[i] = TsPacket(r[i - 1], ps[i])
                /\ r[n] = FoldLeft(TsPacket, d, ps)
<1>0. \E iter : IsFold(iter, d, ps, n)
  BY FoldExists, Zenon
<1> DEFINE F == CHOOSE iter :
             iter = [s \in SUBSET (1 .. n) |->
                       IF s = {} THEN d ELSE TsPacket(iter[s \ {Max(s)}], ps[Max(s)])]
<1>1. FoldLeft(TsPacket, d, ps) = F[1 .. n]
  BY Zenon DEF FoldLeft, MapThenFoldSet
<1>2. F = [s \in SUBSET (1 .. n) |->
             IF s = {} THEN d ELSE TsPacket(F[s \ {Max(s)}], ps[Max(s)])]
  BY <1>0, Zenon DEF IsFold
<1> DEFINE r == [i \in 0 .. n |-> F[1 .. i]]
<1> HIDE DEF F
<1>3. r[0] = d
  <2>1. 1 .. 0 = {} /\ {} \in SUBSET (1 .. n) /\ 0 \in 0 .. n
    OBVIOUS
  <2> QED BY <1>2, <2>1, Zenon
<1>4. ASSUME NEW i \in 1 .. n PROVE r[i] = TsPacket(r[i - 1], ps[i])
  <2>a. i \in 1 .. i /\ i \in 0 .. n /\ i - 1 \in 0 .. n
    OBVIOUS
  <2>b. (1 .. i) \subseteq (1 .. n) /\ (1 .. i) \subseteq Nat /\ \A y \in 1 .. i : y <= i
    OBVIOUS
  <2>1. (1 .. i) \in SUBSET (1 .. n) /\ (1 .. i) # {}
    BY <2>a, <2>b, Zenon
  <2>2. Max(1 .. i) = i
    BY <2>a, <2>b, MaxNat, Zenon
  <2>3. (1 .. i) \ {i} = 1 .. i - 1
    OBVIOUS
  <2>4. F[1 .. i] = TsPacket(F[(1 .. i) \ {i}], ps[i])
    BY <1>2, <2>1, <2>2, Zenon
  <2>5. r[i] = F[1 .. i] /\ r[i - 1] = F[1 .. i - 1]
    BY <2>a, Zenon
  <2> QED BY <2>3, <2>4, <2>5, Zenon
<1>5. r[n] = FoldLeft(TsPacket, d, ps)
  <2>1. n \in 0 .. n
    OBVIOUS
  <2> QED BY <1>1, <2>1, Zenon
<1> HIDE DEF r
<1>6. QED BY <1>3, <1>4, <1>5, Zenon

\* Remainders: the number below the divisor that is left.
LEMMA ModUnique ==
  ASSUME NEW M \in Nat \ {0}, NEW q \in Int, NEW r \in 0 .. M - 1
  PROVE  (M * q + r) % M = r
  OBVIOUS

\* A number is a multiple of the divisor and its remainder.
LEMMA ModDef ==
  ASSUME NEW M \in Nat \ {0}, NEW a \in Int
  PROVE  a \div M \in Int /\ a % M \in 0 .. M - 1 /\ a = (M * (a \div M)) + (a % M)
  OBVIOUS

\* A remainder may be taken before an addition (the counters of the packets of a
\* payload, and of payloads, in sequence).
LEMMA ModAdd ==
  ASSUME NEW M \in Nat \ {0}, NEW a \in Int, NEW b \in Int
  PROVE  ((a % M) + b) % M = (a + b) % M
<1> DEFINE q == a \div M
           r == a % M
           p == (r + b) \div M
           s == (r + b) % M
<1>1. q \in Int /\ r \in 0 .. M - 1 /\ a = M * q + r
  BY ModDef
<1>2. r + b \in Int
  BY <1>1
<1>3. p \in Int /\ s \in 0 .. M - 1 /\ r + b = M * p + s
  BY <1>2, ModDef
<1> HIDE DEF q, r, p, s
<1>4. a + b = M * q + (M * p + s)
  BY <1>1, <1>3
<1>5. M * q + (M * p + s) = M * (q + p) + s
  BY <1>1, <1>3
<1>6. q + p \in Int
  BY <1>1, <1>3
<1>7. (a + b) % M = s
  BY <1>3, <1>4, <1>5, <1>6, ModUnique
<1>8. QED BY <1>7 DEF s, r

\* Counters with the same successor are the same.
LEMMA ModSucc ==
  ASSUME NEW M \in Nat \ {0}, NEW a \in 0 .. M - 1, NEW b \in 0 .. M - 1,
         (a + 1) % M = (b + 1) % M
  PROVE  a = b
  OBVIOUS

\* A gap after which the counter is where it was spans whole rounds.
LEMMA ModGap ==
  ASSUME NEW M \in Nat \ {0}, NEW a \in 0 .. M - 1, NEW g \in Nat, (a + g) % M = a
  PROVE  g % M = 0
<1> DEFINE q == (a + g) \div M
<1>1. a + g \in Int
  OBVIOUS
<1>2. q \in Int /\ a + g = M * q + a
  BY <1>1, ModDef
<1> HIDE DEF q
<1>3. g = M * q + 0 /\ 0 \in 0 .. M - 1
  BY <1>2
<1>4. QED BY <1>2, <1>3, ModUnique
-----------------------------------------------------------------------------
(* What is collected *)

\* Packets, and the statics of demux_uvc.
Packets == [kind : {"video", "damaged", "other", "fill"}, frame : Nat, part : Nat,
            start : BOOLEAN, cc : Nat]
Demuxes == [first : BOOLEAN, fid : {0, 1}, eof : BOOLEAN, buf : Seq(Packets),
            error : BOOLEAN, cc : {NoCc} \cup Nat, aborted : BOOLEAN]

\* Nothing collected is the beginning of every frame.
LEMMA HoldsEmpty == \A f : Holds(<<>>, f, 0)
  BY DEF Holds, Data

\* A beginning of a frame and the next packets of it are a longer beginning; a
\* packet of something else may come before them.
LEMMA HoldsConcat ==
  ASSUME NEW s \in Seq(Packets), NEW t \in Seq(Packets), NEW f \in Nat, NEW n \in Nat,
         NEW k \in Nat, NEW o \in Nat, Holds(s, f, n), Len(t) = o + k,
         \A i \in 1 .. o : t[i].kind # "video",
         \A i \in 1 .. k : t[o + i].kind = "video" /\ t[o + i].frame = f /\ t[o + i].part = n + i
  PROVE  Holds(s \o t, f, n + k)
<1> DEFINE u == s \o t
           l == Len(s)
<1>1. l \in Nat /\ DOMAIN s = 1 .. l /\ DOMAIN t = 1 .. o + k
  OBVIOUS
<1>2. /\ u \in Seq(Packets) /\ DOMAIN u = 1 .. l + o + k
      /\ \A i \in 1 .. l : u[i] = s[i]
      /\ \A i \in 1 .. o + k : u[l + i] = t[i]
  OBVIOUS
<1> HIDE DEF u, l
<1>3. \A i \in Data(s) : i \in 1 .. l /\ i \in Data(u)
  BY <1>1, <1>2 DEF Data
<1>a. \A i \in Data(s) : s[i].frame = f /\ s[i].part \in 1 .. n
  BY DEF Holds
<1>4. \A i \in Data(s) : u[i].frame = f /\ u[i].part = s[i].part /\ u[i].part \in 1 .. n
  BY <1>2, <1>3, <1>a
<1>5. ASSUME NEW i \in 1 .. k
      PROVE  l + o + i \in Data(u) /\ u[l + o + i].frame = f /\ u[l + o + i].part = n + i
  <2>1. o + i \in 1 .. o + k /\ l + (o + i) = l + o + i /\ l + o + i \in 1 .. l + o + k
    BY <1>1
  <2>2. u[l + o + i] = t[o + i]
    BY <1>2, <2>1
  <2> QED BY <1>2, <2>1, <2>2 DEF Data
<1>6. \A i \in Data(u) : i \in Data(s) \/ \E j \in 1 .. k : i = l + o + j
  <2> SUFFICES ASSUME NEW i \in Data(u) PROVE i \in Data(s) \/ \E j \in 1 .. k : i = l + o + j
    OBVIOUS
  <2>1. i \in 1 .. l + o + k /\ u[i].kind = "video"
    BY <1>2 DEF Data
  <2>2. CASE i \in 1 .. l
    BY <1>1, <1>2, <2>1, <2>2 DEF Data
  <2>3. CASE i \in l + 1 .. l + o
    <3>1. i - l \in 1 .. o /\ i - l \in 1 .. o + k /\ l + (i - l) = i
      BY <1>1, <2>3
    <3>2. u[i] = t[i - l]
      BY <1>2, <3>1
    <3> QED BY <2>1, <3>1, <3>2
  <2>4. CASE i \in l + o + 1 .. l + o + k
    <3>1. i - l - o \in 1 .. k /\ i = l + o + (i - l - o)
      BY <1>1, <2>4
    <3> QED BY <3>1
  <2> QED BY <1>1, <2>1, <2>2, <2>3, <2>4
<1>7. {u[i].part : i \in Data(u)} = 1 .. n + k
  <2>1. ASSUME NEW x \in 1 .. n PROVE \E i \in Data(u) : u[i].part = x
    <3>1. PICK i \in Data(s) : s[i].part = x
      BY DEF Holds
    <3> QED BY <1>3, <1>4, <3>1
  <2>2. ASSUME NEW x \in n + 1 .. n + k PROVE \E i \in Data(u) : u[i].part = x
    <3>1. x - n \in 1 .. k /\ n + (x - n) = x
      BY <2>2
    <3> QED BY <1>5, <3>1
  <2>3. ASSUME NEW i \in Data(u) PROVE u[i].part \in 1 .. n + k
    <3>1. CASE i \in Data(s)
      BY <1>4, <3>1
    <3>2. CASE \E j \in 1 .. k : i = l + o + j
      BY <1>5, <3>2
    <3> QED BY <1>6, <3>1, <3>2
  <2>4. \A x \in 1 .. n + k : x \in 1 .. n \/ x \in n + 1 .. n + k
    OBVIOUS
  <2>5. \A x \in 1 .. n + k : \E i \in Data(u) : u[i].part = x
    BY <2>1, <2>2, <2>4
  <2> QED BY <2>3, <2>5
<1>8. \A i, j \in Data(u) : i < j => u[i].part < u[j].part
  <2> SUFFICES ASSUME NEW i \in Data(u), NEW j \in Data(u), i < j PROVE u[i].part < u[j].part
    OBVIOUS
  <2>1. CASE i \in Data(s) /\ j \in Data(s)
    BY <1>4, <2>1 DEF Holds
  <2>2. ASSUME NEW b \in 1 .. k, j = l + o + b, i \in Data(s) PROVE u[i].part < u[j].part
    <3>1. u[i].part \in 1 .. n
      BY <1>4, <2>2
    <3>2. u[j].part = n + b
      BY <1>5, <2>2
    <3> QED BY <3>1, <3>2
  <2>3. ASSUME NEW a \in 1 .. k, i = l + o + a, j \in Data(s) PROVE FALSE
    <3>1. j \in 1 .. l
      BY <1>3, <2>3
    <3> QED BY <1>1, <2>3, <3>1
  <2>4. ASSUME NEW a \in 1 .. k, NEW b \in 1 .. k, i = l + o + a, j = l + o + b
        PROVE  u[i].part < u[j].part
    <3>1. a < b
      BY <1>1, <2>4
    <3> QED BY <1>5, <2>4, <3>1
  <2> QED BY <1>6, <2>1, <2>2, <2>3, <2>4
<1>9. \A i \in Data(u) : u[i].frame = f
  BY <1>4, <1>5, <1>6
<1>10. QED BY <1>7, <1>8, <1>9 DEF Holds, u

\* The same for one packet.
LEMMA HoldsAppend ==
  ASSUME NEW s \in Seq(Packets), NEW p \in Packets, NEW f \in Nat, NEW n \in Nat,
         Holds(s, f, n), p.kind = "video", p.frame = f, p.part = n + 1
  PROVE  Holds(Append(s, p), f, n + 1)
<1> DEFINE t == <<p>>
<1>1. t \in Seq(Packets) /\ Len(t) = 0 + 1 /\ t[1] = p
  OBVIOUS
<1>2. Append(s, p) = s \o t
  BY AppendIsConcat
<1> HIDE DEF t
<1>3. \A i \in 1 .. 0 : t[i].kind # "video"
  OBVIOUS
<1>4. \A i \in 1 .. 1 : t[0 + i].kind = "video" /\ t[0 + i].frame = f /\ t[0 + i].part = n + i
  BY <1>1
<1>5. Holds(s \o t, f, n + 1)
  BY <1>1, <1>3, <1>4, HoldsConcat
<1>6. QED BY <1>2, <1>5
-----------------------------------------------------------------------------
(* One packet *)

\* A frame has a part at least, and the buffer has room for it.
LEMMA SizeFits ==
  /\ MaxFrameSize \in Nat /\ MaxFrameSize > 1 /\ Payloads * Parts \in Nat
  /\ Payloads * Parts >= 1 /\ MaxFrameSize > Payloads * Parts
<1>1. \A a, b \in Nat \ {0} : a * b \in Nat /\ a * b >= 1
  OBVIOUS
<1>2. QED BY <1>1, DemuxAssumption

\* The counter of the packet is the one expected.
Advances(d, p) == d.cc = NoCc \/ (d.cc + 1) % CcModulus = p.cc

\* ts_packet: the demultiplexer stays what it is.
LEMMA TsPacketType ==
  ASSUME NEW d \in Demuxes, NEW p \in Packets
  PROVE  TsPacket(d, p) \in Demuxes
<1> DEFINE jump == d.cc # NoCc /\ p.kind # "fill" /\ (d.cc + 1) % CcModulus # p.cc
           seen == [d EXCEPT !.cc = p.cc, !.error = @ \/ jump]
           head == [seen EXCEPT !.buf = IF p.start /\ Quirk THEN <<>> ELSE @]
<1>1. seen \in Demuxes
  BY DEF Demuxes, Packets
<1>2. TsPacket(d, p) =
        CASE p.kind = "other" -> d
          [] p.kind # "other" /\ (seen.error \/ p.kind = "fill") -> seen
          [] p.kind = "damaged" /\ ~seen.error -> [seen EXCEPT !.error = TRUE]
          [] p.kind = "video" /\ ~seen.error ->
               IF Quirk /\ Len(head.buf) + 1 < MaxFrameSize
                 THEN [head EXCEPT !.buf = Append(@, p)] ELSE head
  BY Zenon DEF TsPacket
<1> HIDE DEF seen
<1>a. ASSUME NEW x \in Demuxes, NEW b \in Seq(Packets)
      PROVE  [x EXCEPT !.buf = b] \in Demuxes
  BY DEF Demuxes
<1>b. ASSUME NEW x \in Demuxes
      PROVE  x.buf \in Seq(Packets) /\ [x EXCEPT !.error = TRUE] \in Demuxes
  BY DEF Demuxes
<1>c. \A b \in Seq(Packets) : Append(b, p) \in Seq(Packets)
  OBVIOUS
<1>d. (IF p.start /\ Quirk THEN <<>> ELSE seen.buf) \in Seq(Packets)
  <2>1. <<>> \in Seq(Packets)
    BY EmptySeq
  <2>2. seen.buf \in Seq(Packets)
    BY <1>1, <1>b, Zenon
  <2> QED BY <2>1, <2>2, Zenon
<1>3. head \in Demuxes /\ head.buf \in Seq(Packets)
  BY <1>1, <1>a, <1>b, <1>d, Zenon
<1>4. [seen EXCEPT !.error = TRUE] \in Demuxes
  BY <1>1, <1>b, Zenon
<1>5. [head EXCEPT !.buf = Append(@, p)] \in Demuxes
  BY <1>3, <1>a, <1>c, Zenon
<1>6. p.kind \in {"video", "damaged", "other", "fill"}
  BY DEF Packets
<1> HIDE DEF head
<1>7. QED BY <1>1, <1>3, <1>4, <1>5, <1>6, <1>2

\* What a packet cannot change, and what it takes for a packet to pass unnoticed.
LEMMA TsPacketKeeps ==
  ASSUME NEW d \in Demuxes, NEW p \in Packets
  PROVE  LET e == TsPacket(d, p)
         IN  /\ e.first = d.first /\ e.fid = d.fid /\ e.eof = d.eof /\ e.aborted = d.aborted
             /\ d.error => e.error
             /\ ~Quirk => e.buf = d.buf
             /\ p.kind = "other" => e = d
             /\ p.kind # "other" => e.cc = p.cc
             /\ p.kind = "fill" => e.error = d.error /\ e.buf = d.buf
             /\ p.kind = "damaged" => e.error
             /\ p.kind = "video" /\ ~e.error => Advances(d, p)
  BY DEF TsPacket, Demuxes, Packets, Advances

\* A packet of the video that is expected is taken.
LEMMA TsPacketGood ==
  ASSUME NEW d \in Demuxes, NEW p \in Packets, p.kind = "video", ~d.error, Advances(d, p)
  PROVE  LET e == TsPacket(d, p)
             b == IF p.start /\ Quirk THEN <<>> ELSE d.buf
         IN  /\ ~e.error
             /\ e.buf = IF Quirk /\ Len(b) + 1 < MaxFrameSize THEN Append(b, p) ELSE b
  BY DEF TsPacket, Demuxes, Packets, Advances

\* What is buffered after a packet is that packet or was buffered before.
LEMMA TsPacketBuf ==
  ASSUME NEW d \in Demuxes, NEW p \in Packets
  PROVE  LET e == TsPacket(d, p)
         IN  \A i \in DOMAIN e.buf : e.buf[i] = p \/ \E j \in DOMAIN d.buf : e.buf[i] = d.buf[j]
<1> DEFINE e == TsPacket(d, p)
           b == IF p.start /\ Quirk THEN <<>> ELSE d.buf
<1>1. e.buf \in {d.buf, b, Append(b, p)}
  BY DEF TsPacket, Demuxes, Packets
<1>2. b \in Seq(Packets) /\ \A i \in DOMAIN b : b[i] = d.buf[i] /\ i \in DOMAIN d.buf
  BY DEF Demuxes
<1> HIDE DEF e, b
<1>3. \A i \in DOMAIN Append(b, p) : Append(b, p)[i] = p \/ (i \in DOMAIN b /\ Append(b, p)[i] = b[i])
  BY <1>2
<1>4. \A i \in DOMAIN e.buf : e.buf[i] = p \/ \E j \in DOMAIN d.buf : e.buf[i] = d.buf[j]
  <2>1. CASE e.buf = d.buf
    BY <2>1
  <2>2. CASE e.buf = b
    BY <1>2, <2>2
  <2>3. CASE e.buf = Append(b, p)
    BY <1>2, <1>3, <2>3
  <2> QED BY <1>1, <2>1, <2>2, <2>3
<1>5. QED BY <1>4 DEF e

\* With the quirk, something is buffered after a packet that passed.
LEMMA TsPacketFills ==
  ASSUME NEW d \in Demuxes, NEW p \in Packets, p.kind = "video", Quirk, ~TsPacket(d, p).error
  PROVE  TsPacket(d, p).buf # <<>>
<1> DEFINE e == TsPacket(d, p)
           b == IF p.start /\ Quirk THEN <<>> ELSE d.buf
<1>1. ~d.error /\ Advances(d, p)
  BY TsPacketKeeps DEF Demuxes
<1>2. e.buf = IF Quirk /\ Len(b) + 1 < MaxFrameSize THEN Append(b, p) ELSE b
  BY <1>1, TsPacketGood
<1>3. b \in Seq(Packets)
  BY DEF Demuxes
<1> HIDE DEF e, b
<1>4. MaxFrameSize \in Nat /\ MaxFrameSize > 1
  BY SizeFits
<1>5. e.buf # <<>>
  <2>1. CASE Len(b) + 1 < MaxFrameSize
    BY <1>2, <1>3, <2>1
  <2>2. CASE ~(Len(b) + 1 < MaxFrameSize)
    <3>1. e.buf = b /\ Len(b) # 0
      BY <1>2, <1>3, <1>4, <2>2
    <3> QED BY <3>1, <1>3
  <2> QED BY <2>1, <2>2
<1>6. QED BY <1>5 DEF e
-----------------------------------------------------------------------------
(* The payloads that the camera sends *)

\* The camera: a frame, a payload of it and a counter.
CameraType ==
  camera \in [frame : Nat \ {0}, payload : 1 .. Cut, cc : 0 .. CcModulus - 1]

\* The parts of the frame that have been sent.
Base == (camera.payload - 1) * Size

\* The payloads of a frame cover its parts.
LEMMA SizeFacts ==
  ASSUME CameraType
  PROVE  /\ Cut \in Nat \ {0} /\ Size \in Nat \ {0} /\ Base \in Nat
         /\ Base + Size = camera.payload * Size /\ Base + Size <= Payloads * Parts
         /\ AtEnd => Base + Size = Payloads * Parts
         /\ camera.payload = 1 => Base = 0
         /\ camera.payload > 1 => Base >= 1
<1>1. \A a, b \in Nat \ {0} : a * b \in Nat \ {0}
  OBVIOUS
<1>2. Cut \in Nat \ {0} /\ Size \in Nat \ {0} /\ Cut * Size = Payloads * Parts
  BY <1>1, DemuxAssumption DEF Cut, Size
<1>3. camera.payload \in 1 .. Cut
  BY DEF CameraType
<1>4. \A p \in Nat \ {0}, s \in Nat \ {0} :
        (p - 1) * s \in Nat /\ (p - 1) * s + s = p * s /\ (p = 1 => (p - 1) * s = 0)
          /\ (p > 1 => (p - 1) * s >= 1)
  OBVIOUS
<1>5. \A p \in Nat \ {0}, c \in Nat \ {0}, s \in Nat \ {0} : p <= c => p * s <= c * s
  OBVIOUS
<1>6. camera.payload \in Nat \ {0} /\ camera.payload <= Cut
  BY <1>2, <1>3
<1>7. camera.payload * Size <= Payloads * Parts
  BY <1>2, <1>5, <1>6
<1>8. /\ Base \in Nat /\ Base + Size = camera.payload * Size
      /\ camera.payload = 1 => Base = 0
      /\ camera.payload > 1 => Base >= 1
  BY <1>2, <1>4, <1>6 DEF Base
<1>9. AtEnd => camera.payload * Size = Payloads * Parts
  BY <1>2 DEF AtEnd
<1>10. QED BY <1>2, <1>7, <1>8, <1>9

\* What a payload is: the next parts of the frame, with the next counters, after at
\* most one packet (o of them) of another kind.
Shape(ps, o) ==
  /\ o \in {0, 1} /\ ps \in Seq(Packets) /\ Len(ps) = o + Size
  /\ \A i \in 1 .. o + Size : ps[i].frame = camera.frame
  /\ o = 1 => /\ ps[1].kind \in {"other", "fill"}
              /\ ps[1].kind = "fill" => ps[1].cc = camera.cc
  /\ \A i \in 1 .. Size :
       /\ ps[o + i].kind \in {"video", "damaged"}
       /\ ps[o + i].part = Base + i
       /\ ps[o + i].start <=> Base + i = 1
       /\ ps[o + i].cc = (camera.cc + i) % CcModulus

\* A packet of the payload is damaged.
Damaged(ps) == \E i \in DOMAIN ps : ps[i].kind = "damaged"

\* Payloads that the camera sends have that shape: those of video alone,
LEMMA VideoShape ==
  ASSUME CameraType, NEW damaged \in BOOLEAN
  PROVE  Shape(Video(damaged), 0)
<1> DEFINE ps == Video(damaged)
<1>1. Size \in Nat \ {0} /\ Base \in Nat
  BY SizeFacts
<1>2. camera.frame \in Nat /\ camera.cc \in Nat /\ CcModulus \in Nat \ {0}
  BY DemuxAssumption DEF CameraType
<1>3. \A i \in 1 .. Size : (camera.cc + i) % CcModulus \in Nat
  BY <1>2
<1>4. \A i \in 1 .. Size :
        /\ ps[i] \in Packets /\ ps[i].frame = camera.frame /\ ps[i].part = Base + i
        /\ ps[i].start <=> Base + i = 1
        /\ ps[i].cc = (camera.cc + i) % CcModulus /\ ps[i].kind \in {"video", "damaged"}
  <2> SUFFICES ASSUME NEW i \in 1 .. Size
               PROVE  /\ ps[i] \in Packets /\ ps[i].frame = camera.frame /\ ps[i].part = Base + i
                      /\ ps[i].start <=> Base + i = 1
                      /\ ps[i].cc = (camera.cc + i) % CcModulus
                      /\ ps[i].kind \in {"video", "damaged"}
    OBVIOUS
  <2> DEFINE k == IF damaged /\ i = 1 THEN "damaged" ELSE "video"
             n == (camera.payload - 1) * Size + i
             c == (camera.cc + i) % CcModulus
             b == n = 1
  <2>1. ps[i] = [kind |-> k, frame |-> camera.frame, part |-> n, start |-> b, cc |-> c]
    BY DEF Video, Packet
  <2>2. n = Base + i
    BY DEF Base
  <2>3. k \in {"video", "damaged"} /\ c \in Nat /\ b \in BOOLEAN
    BY <1>3
  <2> HIDE DEF k, n, c, b, ps
  <2>4. n \in Nat
    BY <1>1, <2>2
  <2>5. ps[i] \in Packets
    BY <1>2, <2>1, <2>3, <2>4 DEF Packets
  <2>6. ps[i].kind = k /\ ps[i].frame = camera.frame /\ ps[i].part = n /\ ps[i].cc = c
    BY <2>1
  <2>7. ps[i].start = b
    BY <2>1
  <2>11. b <=> n = 1
    BY DEF b
  <2>8. ps[i].kind \in {"video", "damaged"} /\ ps[i].part = Base + i
    BY <2>2, <2>3, <2>6
  <2>9. ps[i].start <=> Base + i = 1
    BY <2>2, <2>7, <2>11
  <2>10. ps[i].cc = (camera.cc + i) % CcModulus
    BY <2>6, Zenon DEF c
  <2> QED BY <2>5, <2>6, <2>8, <2>9, <2>10, Zenon
<1>5. DOMAIN ps = 1 .. Size /\ ps = [i \in 1 .. Size |-> ps[i]]
  BY DEF Video
<1> HIDE DEF ps
<1>6. ps \in Seq(Packets) /\ Len(ps) = Size
  BY <1>1, <1>4, <1>5
<1>7. \A i \in 1 .. Size : 0 + i = i
  OBVIOUS
<1>8. Shape(ps, 0)
  BY <1>1, <1>4, <1>6, <1>7 DEF Shape
<1>9. QED BY <1>8 DEF ps

\* those with a packet before it,
LEMMA PrefixShape ==
  ASSUME CameraType, NEW ps, Shape(ps, 0), NEW p \in Packets, p.kind \in {"other", "fill"},
         p.frame = camera.frame, p.kind = "fill" => p.cc = camera.cc
  PROVE  Shape(<<p>> \o ps, 1)
<1> DEFINE qs == <<p>> \o ps
<1>1. Size \in Nat \ {0} /\ Base \in Nat
  BY SizeFacts
<1>2. ps \in Seq(Packets) /\ Len(ps) = Size
  BY <1>1 DEF Shape
<1>3. qs \in Seq(Packets) /\ Len(qs) = 1 + Size /\ qs[1] = p
  BY <1>2
<1>4. \A i \in 1 .. Size : qs[1 + i] = ps[i] /\ 0 + i = i
  BY <1>1, <1>2
<1> HIDE DEF qs
<1>5. \A i \in 1 .. 1 + Size : i = 1 \/ (i - 1 \in 1 .. Size /\ i = 1 + (i - 1))
  BY <1>1
<1>6. \A i \in 1 .. 1 + Size : qs[i].frame = camera.frame
  <2>1. \A i \in 1 .. Size : ps[i].frame = camera.frame
    BY <1>1 DEF Shape
  <2> SUFFICES ASSUME NEW i \in 1 .. 1 + Size PROVE qs[i].frame = camera.frame
    OBVIOUS
  <2>2. CASE i = 1
    BY <1>3, <2>2
  <2>3. CASE i - 1 \in 1 .. Size /\ i = 1 + (i - 1)
    <3>1. qs[1 + (i - 1)] = ps[i - 1]
      BY <1>4, <2>3
    <3> QED BY <2>1, <2>3, <3>1
  <2> QED BY <1>5, <2>2, <2>3
<1>7. Shape(qs, 1)
  BY <1>3, <1>4, <1>6 DEF Shape
<1>8. QED BY <1>7 DEF qs

\* and so all of them. Only transport streams have damaged or other packets.
LEMMA SendableShape ==
  ASSUME CameraType, NEW ps \in Sendable
  PROVE  /\ \E o \in {0, 1} : Shape(ps, o)
         /\ ~Transport => Shape(ps, 0) /\ ~Damaged(ps)
<1>1. Shape(Video(TRUE), 0) /\ Shape(Video(FALSE), 0)
  BY VideoShape
<1>2. ~Damaged(Video(FALSE))
  BY DEF Damaged, Video, Packet
<1>3. camera.frame \in Nat /\ camera.cc \in Nat
  BY DemuxAssumption DEF CameraType
<1>4. ASSUME NEW k \in {"other", "fill"}, NEW c \in Nat, k = "fill" => c = camera.cc
      PROVE  Shape(<<Packet(k, 0, c)>> \o Video(FALSE), 1)
  <2>1. /\ Packet(k, 0, c) \in Packets /\ Packet(k, 0, c).kind = k
        /\ Packet(k, 0, c).frame = camera.frame /\ Packet(k, 0, c).cc = c
    BY <1>3 DEF Packet, Packets
  <2> HIDE DEF Packet
  <2> QED BY <1>1, <1>4, <2>1, PrefixShape
<1>5. Shape(<<Packet("other", 0, 0)>> \o Video(FALSE), 1)
  BY <1>4
<1>6. Shape(<<Packet("fill", 0, camera.cc)>> \o Video(FALSE), 1)
  BY <1>3, <1>4
<1>7. QED BY <1>1, <1>2, <1>5, <1>6, Zenon DEF Sendable
-----------------------------------------------------------------------------
(* The packets of a payload, one after the other *)

\* Induction up to a bound.
LEMMA UpTo ==
  ASSUME NEW n \in Nat, NEW S, 0 \in S, \A i \in 1 .. n : i - 1 \in S => i \in S
  PROVE  0 .. n \subseteq S
<1> DEFINE T == {k \in Nat : k <= n => k \in S}
<1>1. 0 \in T
  OBVIOUS
<1>2. ASSUME NEW k \in Nat, k \in T PROVE k + 1 \in T
  <2>1. CASE k + 1 <= n
    <3>1. k + 1 \in 1 .. n /\ k <= n /\ (k + 1) - 1 = k
      BY <2>1
    <3> QED BY <1>2, <3>1
  <2>2. CASE ~(k + 1 <= n)
    BY <2>2
  <2> QED BY <2>1, <2>2
<1>3. Nat \subseteq T
  <2> HIDE DEF T
  <2> QED BY <1>1, <1>2, NatInducts
<1>4. QED BY <1>3

\* The run of the demultiplexer over the packets of a payload.
Run(r, d, ps) ==
  /\ r[0] = d
  /\ \A i \in 1 .. Len(ps) : r[i] = TsPacket(r[i - 1], ps[i])
  /\ \A i \in 0 .. Len(ps) : r[i] \in Demuxes
  /\ r[Len(ps)] = Demuxed(d, ps)

\* There is one, and its end is what the payload makes of the demultiplexer.
LEMMA DemuxedRun ==
  ASSUME Transport, NEW d \in Demuxes, NEW ps \in Seq(Packets)
  PROVE  \E r : Run(r, d, ps)
<1> DEFINE n == Len(ps)
<1>1. n \in Nat /\ DOMAIN ps = 1 .. n /\ \A i \in 1 .. n : ps[i] \in Packets
  OBVIOUS
<1>2. Demuxed(d, ps) = FoldLeft(TsPacket, d, ps)
  BY Zenon DEF Demuxed
<1> HIDE DEF n
<1>3. PICK r : /\ r[0] = d
               /\ \A i \in 1 .. n : r[i] = TsPacket(r[i - 1], ps[i])
               /\ r[n] = FoldLeft(TsPacket, d, ps)
  BY <1>1, FoldRun, Zenon
<1> DEFINE S == {k \in Nat : r[k] \in Demuxes}
<1>4. 0 \in S
  BY <1>3
<1>5. ASSUME NEW i \in 1 .. n, i - 1 \in S PROVE i \in S
  <2>1. r[i - 1] \in Demuxes /\ ps[i] \in Packets /\ i \in Nat
    BY <1>1, <1>5
  <2>2. TsPacket(r[i - 1], ps[i]) \in Demuxes
    BY <2>1, TsPacketType, Zenon
  <2> QED BY <1>3, <2>1, <2>2
<1>6. 0 .. n \subseteq S
  <2> HIDE DEF S
  <2> QED BY <1>1, <1>4, <1>5, UpTo
<1>7. \A i \in 0 .. n : r[i] \in Demuxes
  BY <1>6
<1>8. Run(r, d, ps)
  BY <1>2, <1>3, <1>7, Zenon DEF Run, n
<1>9. QED BY <1>8, Zenon

\* What is buffered was buffered before or has just arrived.
From(buf, d, ps) ==
  \A i \in DOMAIN buf : \/ \E j \in DOMAIN d.buf : buf[i] = d.buf[j]
                        \/ \E j \in DOMAIN ps : buf[i] = ps[j]

\* What a payload cannot change.
Keeps(e, d, ps) ==
  /\ e.first = d.first /\ e.fid = d.fid /\ e.eof = d.eof /\ e.aborted = d.aborted
  /\ d.error => e.error
  /\ ~Quirk => e.buf = d.buf
  /\ From(e.buf, d, ps)

\* It holds at every packet of the run, by induction over them.
LEMMA RunKeeps ==
  ASSUME NEW d \in Demuxes, NEW ps \in Seq(Packets), NEW r, Run(r, d, ps)
  PROVE  \A i \in 0 .. Len(ps) : Keeps(r[i], d, ps)
<1> DEFINE n == Len(ps)
           S == {k \in Nat : Keeps(r[k], d, ps)}
<1>1. n \in Nat /\ DOMAIN ps = 1 .. n /\ \A i \in 1 .. n : ps[i] \in Packets
  OBVIOUS
<1>2. 0 \in S
  <2>1. r[0] = d
    BY DEF Run
  <2> QED BY <2>1 DEF Keeps, From
<1>3. ASSUME NEW i \in 1 .. n, i - 1 \in S PROVE i \in S
  <2>1. r[i - 1] \in Demuxes /\ ps[i] \in Packets /\ r[i] = TsPacket(r[i - 1], ps[i]) /\ i \in Nat
    BY <1>1 DEF Run
  <2>2. Keeps(r[i - 1], d, ps)
    BY <1>3
  <2>3. LET e == r[i]
            c == r[i - 1]
        IN  /\ e.first = c.first /\ e.fid = c.fid /\ e.eof = c.eof /\ e.aborted = c.aborted
            /\ c.error => e.error
            /\ ~Quirk => e.buf = c.buf
    BY <2>1, TsPacketKeeps
  <2>4. \A k \in DOMAIN r[i].buf :
          r[i].buf[k] = ps[i] \/ \E j \in DOMAIN r[i - 1].buf : r[i].buf[k] = r[i - 1].buf[j]
    BY <2>1, TsPacketBuf
  <2>5. From(r[i].buf, d, ps)
    <3> SUFFICES ASSUME NEW k \in DOMAIN r[i].buf
                 PROVE  \/ \E j \in DOMAIN d.buf : r[i].buf[k] = d.buf[j]
                        \/ \E j \in DOMAIN ps : r[i].buf[k] = ps[j]
      BY Zenon DEF From
    <3>1. CASE r[i].buf[k] = ps[i]
      BY <1>1, <3>1
    <3>2. CASE \E j \in DOMAIN r[i - 1].buf : r[i].buf[k] = r[i - 1].buf[j]
      BY <2>2, <3>2, Zenon DEF Keeps, From
    <3> QED BY <2>4, <3>1, <3>2
  <2>6. Keeps(r[i], d, ps)
    <3> HIDE DEF S
    <3> QED BY <2>2, <2>3, <2>5 DEF Keeps
  <2> QED BY <2>1, <2>6
<1>4. 0 .. n \subseteq S
  <2> HIDE DEF S, n
  <2> QED BY <1>1, <1>2, <1>3, UpTo
<1>5. QED BY <1>4

\* Where the payload leaves no error there was none at any of its packets.
LEMMA RunErrors ==
  ASSUME NEW d \in Demuxes, NEW ps \in Seq(Packets), NEW r, Run(r, d, ps), NEW k \in 0 .. Len(ps),
         ~Demuxed(d, ps).error
  PROVE  ~r[k].error
<1> DEFINE n == Len(ps)
           S == {m \in Nat : ~r[n - m].error}
<1>1. n \in Nat /\ DOMAIN ps = 1 .. n /\ \A i \in 1 .. n : ps[i] \in Packets
  OBVIOUS
<1>2. 0 \in S
  <2>1. r[n] = Demuxed(d, ps) /\ n - 0 = n
    BY <1>1 DEF Run
  <2> QED BY <2>1
<1>3. ASSUME NEW i \in 1 .. n, i - 1 \in S PROVE i \in S
  <2>1. /\ n - i + 1 \in 1 .. n /\ n - (i - 1) = n - i + 1 /\ (n - i + 1) - 1 = n - i
        /\ n - i \in 0 .. n /\ i \in Nat
    BY <1>1
  <2>2. r[n - i + 1] = TsPacket(r[n - i], ps[n - i + 1]) /\ r[n - i] \in Demuxes
    BY <2>1 DEF Run
  <2>3. ps[n - i + 1] \in Packets
    BY <1>1, <2>1
  <2>4. r[n - i].error => r[n - i + 1].error
    BY <2>2, <2>3, TsPacketKeeps
  <2>5. ~r[n - i + 1].error
    BY <1>3, <2>1
  <2> QED BY <2>1, <2>4, <2>5
<1>4. 0 .. n \subseteq S
  <2> HIDE DEF S, n
  <2> QED BY <1>1, <1>2, <1>3, UpTo
<1>5. n - k \in 0 .. n /\ n - (n - k) = k
  BY <1>1
<1>6. QED BY <1>4, <1>5

\* So the payload leaves the demultiplexer what it is, whatever the format.
LEMMA DemuxedKeeps ==
  ASSUME NEW d \in Demuxes, NEW ps \in Seq(Packets)
  PROVE  Demuxed(d, ps) \in Demuxes /\ Keeps(Demuxed(d, ps), d, ps)
<1>1. CASE Transport
  <2>1. PICK r : Run(r, d, ps)
    BY <1>1, DemuxedRun
  <2>2. Len(ps) \in 0 .. Len(ps)
    OBVIOUS
  <2>3. Keeps(r[Len(ps)], d, ps)
    BY <2>1, <2>2, RunKeeps
  <2> QED BY <2>1, <2>2, <2>3 DEF Run
<1>2. CASE ~Transport
  <2>1. Demuxed(d, ps) = d
    BY <1>2, Zenon DEF Demuxed
  <2> QED BY <2>1 DEF Keeps, From
<1>3. QED BY <1>1, <1>2

\* After a payload the counter is that of its last packet.
LEMMA DemuxedCc ==
  ASSUME Transport, CameraType, NEW d \in Demuxes, NEW ps, NEW o, Shape(ps, o)
  PROVE  Demuxed(d, ps).cc = (camera.cc + Size) % CcModulus
<1>1. ps \in Seq(Packets) /\ Len(ps) = o + Size /\ o \in {0, 1} /\ Size \in Nat \ {0}
  BY SizeFacts DEF Shape
<1>2. PICK r : Run(r, d, ps)
  BY <1>1, DemuxedRun
<1>3. o + Size \in 1 .. Len(ps) /\ (o + Size) - 1 \in 0 .. Len(ps) /\ Size \in 1 .. Size
  BY <1>1
<1>4. /\ r[o + Size] = TsPacket(r[(o + Size) - 1], ps[o + Size])
      /\ r[(o + Size) - 1] \in Demuxes /\ r[o + Size] = Demuxed(d, ps)
  BY <1>1, <1>2, <1>3 DEF Run
<1>5. /\ ps[o + Size] \in Packets /\ ps[o + Size].kind # "other"
      /\ ps[o + Size].cc = (camera.cc + Size) % CcModulus
  <2>1. ps[o + Size] \in Packets
    BY <1>1, <1>3
  <2> QED BY <1>3, <2>1 DEF Shape
<1>6. TsPacket(r[(o + Size) - 1], ps[o + Size]).cc = ps[o + Size].cc
  BY <1>4, <1>5, TsPacketKeeps
<1>7. QED BY <1>4, <1>5, <1>6

\* A payload that leaves no error came without a jump of the counter: nothing was
\* lost before it, or the stream begins with it, or a packet without payload hid it.
LEMMA DemuxedSound ==
  ASSUME Transport, CameraType, NEW d \in Demuxes, d.cc \in {NoCc} \cup 0 .. CcModulus - 1,
         NEW ps, NEW o, Shape(ps, o), ~Demuxed(d, ps).error
  PROVE  /\ ~d.error /\ ~Damaged(ps)
         /\ d.cc \in {NoCc, camera.cc} \/ ps[1].kind = "fill"
         /\ Quirk => Demuxed(d, ps).buf # <<>>
<1>1. ps \in Seq(Packets) /\ Len(ps) = o + Size /\ o \in {0, 1} /\ Size \in Nat \ {0}
  BY SizeFacts DEF Shape
<1>2. PICK r : Run(r, d, ps)
  BY <1>1, DemuxedRun
<1>3. \A k \in 0 .. Len(ps) : ~r[k].error /\ r[k] \in Demuxes
  BY <1>1, <1>2, RunErrors DEF Run
<1>4. /\ r[0] = d /\ \A i \in 1 .. Len(ps) : r[i] = TsPacket(r[i - 1], ps[i])
      /\ r[Len(ps)] = Demuxed(d, ps)
  BY <1>2 DEF Run
<1>5. \A i \in 1 .. Len(ps) : ps[i] \in Packets /\ i - 1 \in 0 .. Len(ps) /\ i \in 0 .. Len(ps)
  BY <1>1
<1>6. ~d.error
  <2>1. 0 \in 0 .. Len(ps)
    BY <1>1
  <2> QED BY <1>3, <1>4, <2>1
<1>7. ASSUME NEW i \in 1 .. Len(ps) PROVE ps[i].kind # "damaged"
  <2>1. ps[i].kind = "damaged" => TsPacket(r[i - 1], ps[i]).error
    BY <1>3, <1>5, TsPacketKeeps
  <2> QED BY <1>3, <1>4, <1>5, <2>1
<1>8. ~Damaged(ps)
  BY <1>1, <1>7 DEF Damaged
<1>9. o + 1 \in 1 .. Len(ps) /\ (o + 1) - 1 = o /\ 1 \in 1 .. Size /\ o \in 0 .. Len(ps)
  BY <1>1
<1>10. ps[o + 1].kind = "video" /\ ps[o + 1].cc = (camera.cc + 1) % CcModulus
  BY <1>7, <1>9 DEF Shape
<1>11. Advances(r[o], ps[o + 1])
  <2>1. r[o + 1] = TsPacket(r[o], ps[o + 1]) /\ ~r[o + 1].error
    BY <1>3, <1>4, <1>5, <1>9
  <2> QED BY <1>3, <1>5, <1>9, <1>10, <2>1, TsPacketKeeps
<1>12. CcModulus \in Nat \ {0} /\ camera.cc \in 0 .. CcModulus - 1
  BY DemuxAssumption DEF CameraType
<1>13. r[o] = d => d.cc \in {NoCc, camera.cc}
  <2> SUFFICES ASSUME r[o] = d, d.cc # NoCc PROVE d.cc = camera.cc
    OBVIOUS
  <2>1. (d.cc + 1) % CcModulus = (camera.cc + 1) % CcModulus
    BY <1>10, <1>11 DEF Advances
  <2>2. d.cc \in 0 .. CcModulus - 1
    OBVIOUS
  <2> QED BY <1>12, <2>1, <2>2, ModSucc
<1>14. r[o] = d \/ ps[1].kind = "fill"
  <2>1. CASE o = 0
    BY <1>4, <2>1
  <2>2. CASE o = 1
    <3>1. 1 \in 1 .. Len(ps) /\ 0 \in 0 .. Len(ps) /\ 1 - 1 = 0
      BY <1>1
    <3>2. r[1] = TsPacket(r[0], ps[1]) /\ r[0] = d /\ ps[1] \in Packets
      BY <1>4, <1>5, <3>1
    <3>3. ps[1].kind \in {"other", "fill"}
      BY <2>2 DEF Shape
    <3>4. ps[1].kind = "other" => TsPacket(d, ps[1]) = d
      BY <3>2, TsPacketKeeps
    <3> QED BY <2>2, <3>2, <3>3, <3>4
  <2> QED BY <1>1, <2>1, <2>2
<1>15. ASSUME Quirk PROVE Demuxed(d, ps).buf # <<>>
  <2>1. o + Size \in 1 .. Len(ps) /\ (o + Size) - 1 \in 0 .. Len(ps) /\ Size \in 1 .. Size
    BY <1>1
  <2>2. ps[o + Size].kind = "video"
    BY <1>7, <2>1 DEF Shape
  <2>3. r[o + Size] = TsPacket(r[(o + Size) - 1], ps[o + Size]) /\ r[(o + Size) - 1] \in Demuxes
    BY <1>3, <1>4, <2>1
  <2>4. ~TsPacket(r[(o + Size) - 1], ps[o + Size]).error
    BY <1>3, <1>5, <2>1, <2>3
  <2>5. ps[o + Size] \in Packets
    BY <1>5, <2>1
  <2>6. r[o + Size].buf # <<>>
    BY <1>15, <2>2, <2>3, <2>4, <2>5, TsPacketFills
  <2> QED BY <1>1, <1>4, <2>6
<1>16. QED BY <1>6, <1>8, <1>13, <1>14, <1>15

\* A payload that continues what was collected, without a jump, leaves no error and a
\* longer beginning of the frame.
LEMMA DemuxedGood ==
  ASSUME Transport, CameraType, NEW d \in Demuxes, ~d.error, d.cc \in {NoCc, camera.cc},
         NEW ps, NEW o, Shape(ps, o), ~Damaged(ps),
         Quirk => Holds(d.buf, camera.frame, Base) /\ Len(d.buf) = Base
  PROVE  LET e == Demuxed(d, ps)
         IN  ~e.error /\ (Quirk => Holds(e.buf, camera.frame, Base + Size) /\ Len(e.buf) = Base + Size)
<1>1. /\ ps \in Seq(Packets) /\ Len(ps) = o + Size /\ o \in {0, 1} /\ Size \in Nat \ {0}
      /\ Base \in Nat /\ Base + Size < MaxFrameSize /\ MaxFrameSize \in Nat
  BY SizeFacts, SizeFits DEF Shape
<1>2. PICK r : Run(r, d, ps)
  BY <1>1, DemuxedRun
<1>3. /\ r[0] = d /\ \A i \in 1 .. o + Size : r[i] = TsPacket(r[i - 1], ps[i])
      /\ r[o + Size] = Demuxed(d, ps) /\ \A i \in 0 .. o + Size : r[i] \in Demuxes
  BY <1>1, <1>2 DEF Run
<1>4. \A i \in 1 .. o + Size : ps[i] \in Packets /\ ps[i].kind # "damaged"
  BY <1>1 DEF Damaged
<1>5. CcModulus \in Nat \ {0} /\ camera.cc \in 0 .. CcModulus - 1 /\ camera.frame \in Nat
  BY DemuxAssumption DEF CameraType
<1> DEFINE P(k) == /\ ~r[o + k].error
                   /\ k = 0 => r[o + k].cc \in {NoCc, camera.cc}
                   /\ k > 0 => r[o + k].cc = (camera.cc + k) % CcModulus
                   /\ Quirk => Holds(r[o + k].buf, camera.frame, Base + k) /\ Len(r[o + k].buf) = Base + k
           S == {k \in Nat : P(k)}
<1>6. P(0)
  <2>1. o + 0 = o /\ Base + 0 = Base
    BY <1>1
  <2>2. CASE o = 0
    BY <1>3, <2>1, <2>2
  <2>3. CASE o = 1
    <3>1. r[1] = TsPacket(d, ps[1]) /\ ps[1] \in Packets
      BY <1>1, <1>3, <1>4, <2>3
    <3>2. ps[1].kind \in {"other", "fill"} /\ (ps[1].kind = "fill" => ps[1].cc = camera.cc)
      BY <2>3 DEF Shape
    <3>3. CASE ps[1].kind = "other"
      <4>1. r[1] = d
        BY <3>1, <3>3, TsPacketKeeps
      <4> QED BY <2>1, <2>3, <4>1
    <3>4. CASE ps[1].kind = "fill"
      <4>1. r[1].cc = camera.cc /\ r[1].error = d.error /\ r[1].buf = d.buf
        BY <3>1, <3>2, <3>4, TsPacketKeeps
      <4> QED BY <2>1, <2>3, <4>1
    <3> QED BY <3>2, <3>3, <3>4
  <2> QED BY <1>1, <2>2, <2>3
<1>7. ASSUME NEW k \in 1 .. Size, P(k - 1) PROVE P(k)
  <2> DEFINE c == r[o + (k - 1)]
             p == ps[o + k]
             e == r[o + k]
  <2>1. /\ o + k \in 1 .. o + Size /\ o + (k - 1) \in 0 .. o + Size /\ (o + k) - 1 = o + (k - 1)
        /\ k - 1 \in Nat /\ (Base + (k - 1)) + 1 = Base + k /\ Base + (k - 1) \in Nat
        /\ (Base + (k - 1)) + 1 < MaxFrameSize
    BY <1>1
  <2>2. c \in Demuxes /\ p \in Packets /\ e = TsPacket(c, p)
    BY <1>3, <1>4, <2>1
  <2>3. /\ p.kind = "video" /\ p.part = Base + k /\ (p.start <=> Base + k = 1)
        /\ p.cc = (camera.cc + k) % CcModulus /\ p.frame = camera.frame
    BY <1>4, <2>1 DEF Shape
  <2>4. Advances(c, p)
    <3>1. CASE k = 1
      <4>1. c.cc = NoCc \/ c.cc = camera.cc
        BY <1>7, <3>1
      <4> QED BY <2>3, <3>1, <4>1 DEF Advances
    <3>2. CASE k # 1
      <4>1. c.cc = (camera.cc + (k - 1)) % CcModulus
        BY <1>7, <2>1, <3>2
      <4>2. camera.cc + (k - 1) \in Int /\ (camera.cc + (k - 1)) + 1 = camera.cc + k
        BY <1>5
      <4>3. (c.cc + 1) % CcModulus = (camera.cc + k) % CcModulus
        <5> DEFINE x == camera.cc + (k - 1)
        <5>1. x \in Int /\ x + 1 = camera.cc + k /\ c.cc = x % CcModulus /\ 1 \in Int
          BY <4>1, <4>2
        <5> HIDE DEF x
        <5>2. ((x % CcModulus) + 1) % CcModulus = (x + 1) % CcModulus
          BY <1>5, <5>1, ModAdd
        <5> QED BY <5>1, <5>2
      <4> QED BY <2>3, <4>3 DEF Advances
    <3> QED BY <3>1, <3>2
  <2>5. ~c.error
    BY <1>7
  <2>6. /\ ~e.error
        /\ e.buf = LET b == IF p.start /\ Quirk THEN <<>> ELSE c.buf
                   IN  IF Quirk /\ Len(b) + 1 < MaxFrameSize THEN Append(b, p) ELSE b
    BY <2>2, <2>3, <2>4, <2>5, TsPacketGood
  <2>7. e.cc = (camera.cc + k) % CcModulus
    BY <2>2, <2>3, TsPacketKeeps
  <2>8. ASSUME Quirk PROVE Holds(e.buf, camera.frame, Base + k) /\ Len(e.buf) = Base + k
    <3>1. Holds(c.buf, camera.frame, Base + (k - 1)) /\ Len(c.buf) = Base + (k - 1)
      BY <1>7, <2>8
    <3>2. c.buf \in Seq(Packets)
      BY <2>2 DEF Demuxes
    <3>3. p.start => c.buf = <<>>
      BY <1>1, <2>3, <3>1, <3>2
    <3>4. e.buf = Append(c.buf, p)
      BY <2>1, <2>6, <2>8, <3>1, <3>3
    <3>5. Holds(Append(c.buf, p), camera.frame, (Base + (k - 1)) + 1)
      BY <1>5, <2>1, <2>2, <2>3, <3>1, <3>2, HoldsAppend
    <3>6. Len(Append(c.buf, p)) = Base + k
      BY <2>1, <3>1, <3>2
    <3> QED BY <2>1, <3>4, <3>5, <3>6
  <2> QED BY <2>6, <2>7, <2>8
<1>8. 0 .. Size \subseteq S
  <2>1. 0 \in S
    BY <1>6
  <2>2. \A k \in 1 .. Size : k - 1 \in S => k \in S
    BY <1>7
  <2> HIDE DEF S
  <2> QED BY <1>1, <2>1, <2>2, UpTo
<1>9. P(Size)
  <2>1. Size \in 0 .. Size
    BY <1>1
  <2> QED BY <1>8, <2>1
<1>10. QED BY <1>3, <1>9
-----------------------------------------------------------------------------
(* One payload *)

\* The demultiplexer when the header of a payload has been read.
Opened == [Toggle(Entry(demux), Fid(camera.frame)) EXCEPT !.eof = AtEnd]

\* A frame id is one bit.
LEMMA FidType == \A f \in Nat : Fid(f) \in {0, 1}
  BY DEF Fid

\* A start resets it, a toggled id empties the buffer and counts as damage if the old
\* frame had no end, and otherwise it is as it was.
LEMMA OpenedFacts ==
  ASSUME CameraType, demux \in Demuxes
  PROVE  /\ Opened \in Demuxes /\ ~Opened.first /\ Opened.fid = Fid(camera.frame)
         /\ Opened.eof = AtEnd
         /\ demux.first => Opened.cc = NoCc /\ Opened.buf = <<>> /\ ~Opened.error /\ ~Opened.aborted
         /\ ~demux.first =>
              /\ Opened.cc = demux.cc /\ Opened.aborted = demux.aborted
              /\ demux.fid = Fid(camera.frame) => Opened.buf = demux.buf /\ Opened.error = demux.error
              /\ demux.fid # Fid(camera.frame) =>
                   Opened.buf = <<>> /\ Opened.error = (demux.error \/ ~demux.eof)
<1> DEFINE d == Entry(demux)
           f == Fid(camera.frame)
           t == Toggle(d, f)
<1>1. f \in {0, 1} /\ AtEnd \in BOOLEAN
  BY FidType DEF CameraType, AtEnd
<1>2. Reset \in Demuxes
  BY EmptySeq DEF Reset, Demuxes
<1>3. d \in Demuxes /\ (demux.first => d = Reset) /\ (~demux.first => d = demux) /\ ~d.first
  BY <1>2 DEF Entry, Reset, Demuxes
<1> HIDE DEF d, f
<1>4. /\ t.fid = f /\ t.first = d.first /\ t.cc = d.cc /\ t.aborted = d.aborted
      /\ d.fid = f => t.buf = d.buf /\ t.error = d.error
      /\ d.fid # f => t.buf = <<>> /\ t.error = (d.error \/ ~d.eof)
  BY <1>1, <1>3 DEF Toggle, Demuxes
<1>5. t \in Demuxes
  <2>1. <<>> \in Seq(Packets)
    BY EmptySeq
  <2> QED BY <1>1, <1>3, <2>1 DEF Toggle, Demuxes
<1>6. Opened = [t EXCEPT !.eof = AtEnd]
  BY Zenon DEF Opened, d, f
<1> HIDE DEF t
<1>7. /\ Opened \in Demuxes /\ Opened.eof = AtEnd /\ Opened.fid = t.fid /\ Opened.first = t.first
      /\ Opened.cc = t.cc /\ Opened.buf = t.buf /\ Opened.error = t.error /\ Opened.aborted = t.aborted
  BY <1>1, <1>5, <1>6 DEF Demuxes
<1>8. Reset.cc = NoCc /\ Reset.buf = <<>> /\ ~Reset.error /\ ~Reset.aborted /\ Reset.eof
  BY DEF Reset
<1>9. demux.first => Opened.cc = NoCc /\ Opened.buf = <<>> /\ ~Opened.error /\ ~Opened.aborted
  BY <1>3, <1>4, <1>7, <1>8
<1>10. ~demux.first =>
              /\ Opened.cc = demux.cc /\ Opened.aborted = demux.aborted
              /\ demux.fid = f => Opened.buf = demux.buf /\ Opened.error = demux.error
              /\ demux.fid # f => Opened.buf = <<>> /\ Opened.error = (demux.error \/ ~demux.eof)
  BY <1>3, <1>4, <1>7
<1>11. QED BY <1>3, <1>4, <1>7, <1>9, <1>10 DEF f

\* The demultiplexer when the payload has been collected, before delivery.
LEMMA FilledFacts ==
  ASSUME CameraType, demux \in Demuxes, NEW ps, NEW o, Shape(ps, o)
  PROVE  LET e == Filled(ps)
         IN  /\ e \in Demuxes /\ ~e.first /\ e.fid = Fid(camera.frame) /\ e.eof = AtEnd
             /\ e.aborted = Opened.aborted /\ (Opened.error => e.error)
             /\ ~Transport => e.error = Opened.error
             /\ Transport => e.error = Demuxed(Opened, ps).error
             /\ Transport => e.cc = (camera.cc + Size) % CcModulus
             /\ Quirk => e.buf = Demuxed(Opened, ps).buf
             /\ ~Quirk /\ stream.bulk => e.buf = ps
             /\ ~Quirk /\ ~stream.bulk => e.buf = Opened.buf \o ps
<1> DEFINE m == Demuxed(Opened, ps)
           e == Filled(ps)
<1>1. ps \in Seq(Packets)
  BY DEF Shape
<1>2. /\ Opened \in Demuxes /\ ~Opened.first /\ Opened.fid = Fid(camera.frame)
      /\ Opened.eof = AtEnd
  BY OpenedFacts
<1>3. m \in Demuxes /\ Keeps(m, Opened, ps)
  BY <1>1, <1>2, DemuxedKeeps
<1>4. Transport => m.cc = (camera.cc + Size) % CcModulus
  BY <1>2, DemuxedCc
<1>5. ~Transport => m = Opened /\ ~Quirk
  BY DEF Demuxed, Transport, Quirk
<1>6. e = Collect(m, ps)
  BY Zenon DEF Filled, Opened
<1>7. m.buf \o ps \in Seq(Packets)
  BY <1>1, <1>3 DEF Demuxes
<1> HIDE DEF m, e
<1>8. ~Quirk => m.buf = Opened.buf
  BY <1>3 DEF Keeps
<1>9. /\ e \in Demuxes /\ e.first = m.first /\ e.fid = m.fid /\ e.eof = m.eof /\ e.aborted = m.aborted
      /\ e.error = m.error /\ e.cc = m.cc
      /\ Quirk => e.buf = m.buf
      /\ ~Quirk /\ stream.bulk => e.buf = ps
      /\ ~Quirk /\ ~stream.bulk => e.buf = m.buf \o ps
  <2>1. CASE Quirk
    <3>1. e = m
      BY <1>6, <2>1, Zenon DEF Collect
    <3> QED BY <1>3, <2>1, <3>1
  <2>2. CASE ~Quirk /\ stream.bulk
    <3>1. e = [m EXCEPT !.buf = ps]
      BY <1>6, <2>2, Zenon DEF Collect
    <3> QED BY <1>1, <1>3, <2>2, <3>1 DEF Demuxes
  <2>3. CASE ~Quirk /\ ~stream.bulk
    <3>1. e = [m EXCEPT !.buf = m.buf \o ps]
      BY <1>6, <2>3, Zenon DEF Collect
    <3> HIDE DEF Quirk
    <3> QED BY <1>3, <1>7, <2>3, <3>1 DEF Demuxes
  <2> QED BY <2>1, <2>2, <2>3
<1>10. /\ e \in Demuxes /\ ~e.first /\ e.fid = Fid(camera.frame) /\ e.eof = AtEnd
       /\ e.aborted = Opened.aborted /\ (Opened.error => e.error)
  BY <1>2, <1>3, <1>9 DEF Keeps
<1>11. ~Transport => e.error = Opened.error
  BY <1>5, <1>9
<1>12. QED BY <1>4, <1>8, <1>9, <1>10, <1>11 DEF e, m

\* What is collected is of this frame or was buffered before.
LEMMA FilledFrom ==
  ASSUME CameraType, demux \in Demuxes, NEW ps, NEW o, Shape(ps, o)
  PROVE  \A i \in DOMAIN Filled(ps).buf :
           \/ Filled(ps).buf[i].frame = camera.frame
           \/ \E j \in DOMAIN Opened.buf : Filled(ps).buf[i] = Opened.buf[j]
<1> DEFINE b == Filled(ps).buf
<1>1. ps \in Seq(Packets) /\ DOMAIN ps = 1 .. Len(ps) /\ \A i \in 1 .. Len(ps) : ps[i].frame = camera.frame
  BY SizeFacts DEF Shape
<1>2. Opened \in Demuxes /\ Opened.buf \in Seq(Packets)
  BY OpenedFacts DEF Demuxes
<1>3. CASE Quirk
  <2>1. From(Demuxed(Opened, ps).buf, Opened, ps)
    BY <1>1, <1>2, DemuxedKeeps DEF Keeps
  <2>2. b = Demuxed(Opened, ps).buf
    BY <1>3, FilledFacts
  <2> HIDE DEF b
  <2>3. \A i \in DOMAIN b : \/ \E j \in DOMAIN Opened.buf : b[i] = Opened.buf[j]
                            \/ \E j \in DOMAIN ps : b[i] = ps[j]
    BY <2>1, <2>2, Zenon DEF From
  <2>4. \A i \in DOMAIN b : b[i].frame = camera.frame \/ \E j \in DOMAIN Opened.buf : b[i] = Opened.buf[j]
    BY <1>1, <2>3
  <2> QED BY <2>4 DEF b
<1>4. CASE ~Quirk /\ stream.bulk
  <2>1. b = ps
    BY <1>4, FilledFacts
  <2> QED BY <1>1, <2>1
<1>5. CASE ~Quirk /\ ~stream.bulk
  <2>1. b = Opened.buf \o ps
    BY <1>5, FilledFacts
  <2> HIDE DEF b
  <2>2. \A i \in DOMAIN (Opened.buf \o ps) :
          \/ i \in DOMAIN Opened.buf /\ (Opened.buf \o ps)[i] = Opened.buf[i]
          \/ i - Len(Opened.buf) \in DOMAIN ps /\ (Opened.buf \o ps)[i] = ps[i - Len(Opened.buf)]
    BY <1>1, <1>2
  <2>3. \A i \in DOMAIN b : b[i].frame = camera.frame \/ \E j \in DOMAIN Opened.buf : b[i] = Opened.buf[j]
    BY <1>1, <2>1, <2>2
  <2> QED BY <2>3 DEF b
<1>6. QED BY <1>3, <1>4, <1>5

\* A payload that continues the beginning of a frame without a loss leaves no error.
LEMMA FilledGood ==
  ASSUME CameraType, demux \in Demuxes, NEW ps, NEW o, Shape(ps, o), ~Damaged(ps),
         ~Opened.error, Transport => Opened.cc \in {NoCc, camera.cc},
         Holds(Opened.buf, camera.frame, Base), Quirk => Len(Opened.buf) = Base
  PROVE  LET e == Filled(ps)
         IN  /\ ~e.error /\ Holds(e.buf, camera.frame, Base + Size)
             /\ Quirk => Len(e.buf) = Base + Size
<1>1. /\ ps \in Seq(Packets) /\ Len(ps) = o + Size /\ o \in {0, 1} /\ Size \in Nat \ {0}
      /\ Base \in Nat /\ camera.frame \in Nat
  BY SizeFacts DEF Shape, CameraType
<1>2. Opened \in Demuxes /\ Opened.buf \in Seq(Packets)
  BY OpenedFacts DEF Demuxes
<1>3. ~Filled(ps).error
  <2>1. CASE Transport
    <3>1. ~Demuxed(Opened, ps).error
      BY <1>2, <2>1, DemuxedGood
    <3> QED BY <2>1, <3>1, FilledFacts
  <2>2. CASE ~Transport
    BY <2>2, FilledFacts
  <2> QED BY <2>1, <2>2
<1>4. ASSUME NEW s \in Seq(Packets), Holds(s, camera.frame, Base)
      PROVE  Holds(s \o ps, camera.frame, Base + Size)
  <2>1. \A i \in 1 .. o : ps[i].kind # "video"
    <3>1. \A i \in 1 .. o : i = 1 /\ o = 1
      BY <1>1
    <3> QED BY <3>1 DEF Shape
  <2>2. \A i \in 1 .. Size : ps[o + i].kind = "video" /\ ps[o + i].frame = camera.frame
                               /\ ps[o + i].part = Base + i
    <3>1. \A i \in 1 .. Size : o + i \in 1 .. o + Size /\ o + i \in DOMAIN ps
      BY <1>1
    <3> QED BY <3>1 DEF Shape, Damaged
  <2> QED BY <1>1, <1>4, <2>1, <2>2, HoldsConcat
<1>5. CASE Quirk
  <2>1. Transport
    BY <1>5 DEF Transport, Quirk
  <2>2. Holds(Demuxed(Opened, ps).buf, camera.frame, Base + Size) /\ Len(Demuxed(Opened, ps).buf) = Base + Size
    BY <1>2, <1>5, <2>1, DemuxedGood
  <2>3. Filled(ps).buf = Demuxed(Opened, ps).buf
    BY <1>5, FilledFacts
  <2> QED BY <1>3, <2>2, <2>3
<1>6. CASE ~Quirk /\ stream.bulk
  <2>1. Filled(ps).buf = ps
    BY <1>6, FilledFacts
  <2>2. camera.payload = 1
    BY <1>6 DEF CameraType, Cut
  <2>3. Base = 0
    BY <2>2, SizeFacts
  <2>4. <<>> \in Seq(Packets) /\ <<>> \o ps = ps
    BY <1>1, EmptySeq, ConcatEmptySeq
  <2>5. Holds(<<>> \o ps, camera.frame, Base + Size)
    BY <1>4, <2>3, <2>4, HoldsEmpty
  <2> QED BY <1>3, <1>6, <2>1, <2>4, <2>5
<1>7. CASE ~Quirk /\ ~stream.bulk
  <2>1. Filled(ps).buf = Opened.buf \o ps
    BY <1>7, FilledFacts
  <2> QED BY <1>2, <1>3, <1>4, <1>7, <2>1
<1>8. QED BY <1>5, <1>6, <1>7

\* In a transport stream, one that leaves no error came without a visible loss.
LEMMA FilledSound ==
  ASSUME Transport, CameraType, demux \in Demuxes, NEW ps, NEW o, Shape(ps, o),
         Opened.cc \in {NoCc} \cup 0 .. CcModulus - 1, ~Filled(ps).error
  PROVE  /\ ~Opened.error /\ ~Damaged(ps)
         /\ Opened.cc \in {NoCc, camera.cc} \/ ps[1].kind = "fill"
         /\ Filled(ps).buf # <<>>
<1>1. Opened \in Demuxes /\ Opened.buf \in Seq(Packets)
  BY OpenedFacts DEF Demuxes
<1>2. ~Demuxed(Opened, ps).error
  BY FilledFacts
<1>3. /\ ~Opened.error /\ ~Damaged(ps)
      /\ Opened.cc \in {NoCc, camera.cc} \/ ps[1].kind = "fill"
      /\ Quirk => Demuxed(Opened, ps).buf # <<>>
  BY <1>1, <1>2, DemuxedSound
<1>4. ps \in Seq(Packets) /\ Len(ps) >= 1
  BY SizeFacts DEF Shape
<1>5. Opened.buf \o ps # <<>> /\ ps # <<>>
  BY <1>1, <1>4
<1>6. Filled(ps).buf # <<>>
  BY <1>3, <1>5, FilledFacts
<1>7. QED BY <1>3, <1>6
-----------------------------------------------------------------------------
(* The invariant *)

\* What happened on the wire.
Wires == [gap : Nat, hurt : SUBSET Nat, seen : SUBSET Nat, ended : SUBSET Nat,
          headless : SUBSET Nat, hidden : BOOLEAN, due : SUBSET Nat, given : SUBSET Nat,
          first : Nat]

\* The variables of the demultiplexer have their types; a payload to be sent next
\* is one of its frame.
DemuxTypeOK ==
  /\ stream.format \in {"none", "raw", "ts", "quirk"} /\ starts \in Nat
  /\ demux \in Demuxes /\ out \in Seq(Packets) /\ CameraType /\ wire \in Wires

\* The first payload after the start has arrived.
Running == starts > 0 /\ ~demux.first /\ ~demux.aborted

\* What arrived, ended or was delivered was sent before.
Arrived ==
  /\ \A h \in wire.seen : h <= camera.frame /\ (camera.payload = 1 => h < camera.frame)
  /\ \A h \in wire.ended : h < camera.frame
  /\ \A i \in DOMAIN out : out[i].frame < camera.frame
  /\ wire.first <= camera.frame

\* Since the first of what is buffered arrived no frame of the other id did, and
\* no end of a frame.
Buffered ==
  Running =>
    \A i \in DOMAIN demux.buf :
      LET f == demux.buf[i].frame
      IN  /\ f \in wire.seen
          /\ \A h \in wire.seen : f <= h => Fid(h) = demux.fid
          /\ \A h \in wire.ended : h < f

\* The second half of DeliveredWhole.
Unmixed ==
  \A i, j \in DOMAIN out :
    LET f == out[i].frame
        g == out[j].frame
    IN  f < g => \A h \in f .. g :
                   (h \in wire.seen => Fid(h) = Fid(f)) /\ (h < g => h \notin wire.ended)

\* The counter is ahead of the last one that arrived by what was lost.
Counted ==
  Transport /\ Running =>
    demux.cc \in 0 .. CcModulus - 1 /\ camera.cc = (demux.cc + wire.gap) % CcModulus

\* Between frames, when nothing is missing.
Boundary ==
  Running /\ wire.gap = 0 =>
    /\ camera.payload = 1 => /\ demux.buf = <<>> /\ ~demux.error /\ demux.eof
                             /\ demux.fid = Fid(camera.frame - 1)
    /\ camera.payload > 1 => demux.fid = Fid(camera.frame)

\* The beginning of the frame that is being sent.
Prefix(buf) == /\ Holds(buf, camera.frame, Base)
               /\ Quirk => Len(buf) = Base
Beheaded(buf) == /\ camera.frame \in wire.headless /\ buf # <<>>
                 /\ \A i \in DOMAIN buf : buf[i].frame = camera.frame

\* What is buffered of a transport stream in the middle of a frame is the beginning of
\* that frame, if the counter showed every gap, or of one without its head.
Grown ==
  Transport /\ Running /\ ~wire.hidden /\ wire.gap = 0 /\ camera.payload > 1 /\ ~demux.error =>
    Prefix(demux.buf) \/ Beheaded(demux.buf)

\* The first half of DeliveredWhole.
OutWhole ==
  Transport /\ out # <<>> /\ ~wire.hidden => Whole(out) \/ out[1].frame \in wire.headless

\* The frame follows the end of another one, or is the first.
Due == camera.frame = wire.first \/ camera.frame - 1 \in wire.ended

\* A frame that has to be delivered has lost nothing so far.
Lossless ==
  starts > 0 /\ ~demux.aborted =>
    /\ camera.payload = 1 /\ camera.frame = wire.first => demux.first
    /\ camera.payload = 1 /\ camera.frame - 1 \in wire.ended => ~demux.first /\ wire.gap = 0
    /\ camera.payload > 1 /\ camera.frame \notin wire.hurt => ~demux.first /\ wire.gap = 0
    /\ camera.payload > 1 /\ camera.frame \notin wire.hurt /\ Due => ~demux.error /\ Prefix(demux.buf)

\* The inductive invariant: the two properties, and what they need to know of the
\* buffer, the counter and the frame id at each payload.
DemuxInv ==
  /\ DemuxTypeOK /\ Arrived /\ Buffered /\ Unmixed /\ Counted /\ Boundary /\ Grown /\ OutWhole
  /\ Lossless /\ NoFalseDrop

\* Packets have frames.
LEMMA PacketFrames ==
  ASSUME NEW s \in Seq(Packets)
  PROVE  \A i \in DOMAIN s : s[i] \in Packets /\ s[i].frame \in Nat
<1>1. \A i \in DOMAIN s : s[i] \in Packets
  OBVIOUS
<1>2. QED BY <1>1 DEF Packets

\* The camera goes on to the next payload, or to the next frame.
LEMMA SentFacts ==
  ASSUME CameraType, Sent, stream' = stream
  PROVE  /\ CameraType' /\ camera'.cc = (camera.cc + Size) % CcModulus
         /\ camera.frame \in Nat \ {0} /\ camera.payload \in Nat \ {0}
         /\ AtEnd => camera'.frame = camera.frame + 1 /\ camera'.payload = 1
         /\ ~AtEnd => /\ camera'.frame = camera.frame /\ camera'.payload > 1
                      /\ Base' = Base + Size
         /\ Size' = Size /\ (Quirk' <=> Quirk) /\ (Transport' <=> Transport)
<1>1. Cut \in Nat \ {0} /\ Size \in Nat \ {0} /\ Base + Size = camera.payload * Size
  BY SizeFacts
<1>2. Cut' = Cut /\ Size' = Size /\ (Quirk' <=> Quirk) /\ (Transport' <=> Transport)
  BY DEF Cut, Size, Quirk, Transport
<1>3. /\ camera.frame \in Nat \ {0} /\ camera.payload \in 1 .. Cut
      /\ camera.cc \in 0 .. CcModulus - 1 /\ CcModulus \in Nat \ {0}
  BY DemuxAssumption DEF CameraType
<1>4. camera.cc + Size \in Int
  BY <1>1, <1>3
<1>5. (camera.cc + Size) % CcModulus \in 0 .. CcModulus - 1
  BY <1>3, <1>4, ModDef
<1>6. CASE AtEnd
  <2>1. camera' = [frame |-> camera.frame + 1, payload |-> 1, cc |-> (camera.cc + Size) % CcModulus]
    BY <1>6, Zenon DEF Sent
  <2>2. 1 \in 1 .. Cut' /\ camera.frame + 1 \in Nat \ {0}
    BY <1>1, <1>2, <1>3
  <2>3. CameraType'
    BY <1>5, <2>1, <2>2 DEF CameraType
  <2> QED BY <1>1, <1>2, <1>3, <1>6, <2>1, <2>3
<1>7. CASE ~AtEnd
  <2>1. camera' = [frame |-> camera.frame, payload |-> camera.payload + 1,
                   cc |-> (camera.cc + Size) % CcModulus]
    BY <1>7, Zenon DEF Sent
  <2>2. camera.payload # Cut
    BY <1>7 DEF AtEnd
  <2>3. camera.payload + 1 \in 1 .. Cut'
    BY <1>1, <1>2, <1>3, <2>2
  <2>4. CameraType'
    BY <1>3, <1>5, <2>1, <2>3 DEF CameraType
  <2>5. Base' = camera.payload * Size
    <3>1. Base' = (camera'.payload - 1) * Size'
      BY DEF Base
    <3>2. camera'.payload - 1 = camera.payload
      BY <1>3, <2>1
    <3> QED BY <1>2, <3>1, <3>2
  <2> QED BY <1>1, <1>2, <1>3, <1>7, <2>1, <2>4, <2>5
<1>8. QED BY <1>6, <1>7

\* It holds before the stream is started,
LEMMA DemuxInitial == DemuxInit => DemuxInv
<1> SUFFICES ASSUME DemuxInit PROVE DemuxInv
  OBVIOUS
<1>1. /\ stream.format = "none" /\ ~stream.bulk /\ starts = 0 /\ demux = Reset /\ out = <<>>
      /\ camera = [frame |-> 1, payload |-> 1, cc |-> 0] /\ wire = WireInit
  BY DEF DemuxInit
<1>2. <<>> \in Seq(Packets) /\ Payloads \in Nat \ {0} /\ CcModulus \in Nat \ {0}
  BY EmptySeq, DemuxAssumption
<1>3. CameraType
  BY <1>1, <1>2 DEF CameraType, Cut
<1>4. wire \in Wires
  BY <1>1 DEF WireInit, Wires
<1>5. demux \in Demuxes
  BY <1>1, <1>2 DEF Reset, Demuxes
<1>6. DemuxTypeOK
  BY <1>1, <1>2, <1>3, <1>4, <1>5 DEF DemuxTypeOK
<1>7. ~Running /\ ~(starts > 0)
  BY <1>1 DEF Running
<1>8. Arrived /\ Unmixed /\ OutWhole /\ NoFalseDrop
  BY <1>1 DEF Arrived, Unmixed, OutWhole, NoFalseDrop, WireInit
<1>9. QED BY <1>6, <1>7, <1>8 DEF DemuxInv, Buffered, Counted, Boundary, Grown, Lossless

\* and a start, again, keeps it: the buffer of the old stream is not looked at,
LEMMA StartKeeps ==
  ASSUME DemuxInv, NEW format \in {"raw", "ts", "quirk"}, NEW bulk, StartStream(format, bulk)
  PROVE  DemuxInv'
<1>1. PICK frame \in {camera.frame, camera.frame + 1} :
        /\ camera' = [camera EXCEPT !.frame = frame, !.payload = 1]
        /\ wire' = [WireInit EXCEPT !.first = frame, !.due = wire.due, !.given = wire.given]
  BY DEF StartStream
<1>2. /\ starts' = starts + 1 /\ stream' = [format |-> format, bulk |-> bulk]
      /\ demux' = [demux EXCEPT !.first = TRUE] /\ out' = <<>>
  BY DEF StartStream
<1>3. DemuxTypeOK /\ NoFalseDrop
  BY DEF DemuxInv
<1>4. camera.frame \in Nat \ {0} /\ frame \in Nat \ {0} /\ camera.cc \in 0 .. CcModulus - 1
  BY <1>1, <1>3 DEF DemuxTypeOK, CameraType
<1>5. camera'.frame = frame /\ camera'.payload = 1 /\ camera'.cc = camera.cc
  BY <1>1, <1>3 DEF DemuxTypeOK, CameraType
<1>6. Cut' \in Nat \ {0}
  BY DemuxAssumption DEF Cut
<1>7. CameraType'
  <2>1. 1 \in 1 .. Cut'
    BY <1>6
  <2>2. camera' = [frame |-> frame, payload |-> 1, cc |-> camera.cc]
    BY <1>1, <1>3 DEF DemuxTypeOK, CameraType
  <2> QED BY <1>4, <2>1, <2>2 DEF CameraType
<1>8. /\ wire'.seen = {} /\ wire'.ended = {} /\ wire'.first = frame
      /\ wire'.due = wire.due /\ wire'.given = wire.given
  BY <1>1 DEF WireInit
<1>9. wire' \in Wires
  BY <1>1, <1>3, <1>4 DEF DemuxTypeOK, Wires, WireInit
<1>10. demux' \in Demuxes /\ demux'.first /\ demux'.aborted = demux.aborted
  BY <1>2, <1>3 DEF DemuxTypeOK, Demuxes
<1>11. out' \in Seq(Packets)
  BY <1>2, EmptySeq
<1>12. DemuxTypeOK'
  BY <1>2, <1>3, <1>7, <1>9, <1>10, <1>11 DEF DemuxTypeOK
<1>13. ~Running'
  BY <1>10 DEF Running
<1>14. Arrived' /\ Unmixed' /\ OutWhole'
  BY <1>2, <1>4, <1>5, <1>8 DEF Arrived, Unmixed, OutWhole
<1>15. NoFalseDrop'
  BY <1>3, <1>8, <1>10 DEF NoFalseDrop
<1>16. Lossless'
  BY <1>5, <1>8, <1>10 DEF Lossless
<1>17. QED BY <1>12, <1>13, <1>14, <1>15, <1>16 DEF DemuxInv, Buffered, Counted, Boundary, Grown

\* and so does the loss of a payload: the gap grows and the frame is marked,
LEMMA LoseKeeps ==
  ASSUME DemuxInv, Lose
  PROVE  DemuxInv'
<1>1. /\ Sent /\ wire' = [wire EXCEPT !.gap = @ + Size, !.hurt = @ \cup {camera.frame}]
      /\ stream' = stream /\ starts' = starts /\ demux' = demux /\ out' = out
  BY DEF Lose
<1>2. DemuxTypeOK
  BY DEF DemuxInv
<1>3. CameraType /\ wire \in Wires /\ demux \in Demuxes
  BY <1>2 DEF DemuxTypeOK
<1>4. Size \in Nat \ {0}
  BY <1>3, SizeFacts
<1>5. /\ CameraType' /\ camera'.cc = (camera.cc + Size) % CcModulus
      /\ camera.frame \in Nat \ {0} /\ camera.payload \in Nat \ {0}
      /\ AtEnd => camera'.frame = camera.frame + 1 /\ camera'.payload = 1
      /\ ~AtEnd => camera'.frame = camera.frame /\ camera'.payload > 1
      /\ (Transport' <=> Transport)
  BY <1>1, <1>3, SentFacts
<1>6. /\ wire'.gap = wire.gap + Size /\ wire'.hurt = wire.hurt \cup {camera.frame}
      /\ wire'.seen = wire.seen /\ wire'.ended = wire.ended /\ wire'.headless = wire.headless
      /\ wire'.hidden = wire.hidden /\ wire'.due = wire.due /\ wire'.given = wire.given
      /\ wire'.first = wire.first /\ wire.gap \in Nat /\ wire.first \in Nat
  BY <1>1, <1>3 DEF Wires
<1>7. wire' \in Wires
  <2>1. wire.gap + Size \in Nat /\ wire.hurt \cup {camera.frame} \in SUBSET Nat
    BY <1>3, <1>4, <1>5 DEF Wires
  <2> QED BY <1>1, <1>3, <2>1 DEF Wires
<1>8. DemuxTypeOK'
  BY <1>1, <1>2, <1>5, <1>7 DEF DemuxTypeOK
<1>9. Running' <=> Running
  BY <1>1 DEF Running
<1>10. wire'.gap # 0 /\ wire'.gap \in Nat
  BY <1>4, <1>6
<1>11. Arrived'
  <2>1. Arrived /\ out \in Seq(Packets)
    BY <1>2 DEF DemuxInv, DemuxTypeOK
  <2>2. /\ camera'.frame \in Nat /\ camera'.frame >= camera.frame
        /\ camera'.payload = 1 => camera'.frame > camera.frame
    BY <1>5
  <2>3. \A h \in wire.seen : h \in Nat
    BY <1>3 DEF Wires
  <2>4. \A h \in wire.ended : h \in Nat
    BY <1>3 DEF Wires
  <2>5. \A i \in DOMAIN out : out[i].frame \in Nat
    BY <2>1, PacketFrames
  <2> QED BY <1>1, <1>5, <1>6, <2>1, <2>2, <2>3, <2>4, <2>5 DEF Arrived
<1>12. Buffered' /\ Unmixed'
  BY <1>1, <1>6, <1>9 DEF DemuxInv, Buffered, Unmixed
<1>13. Counted'
  <2> SUFFICES ASSUME Transport, Running
               PROVE  demux.cc \in 0 .. CcModulus - 1 /\ camera'.cc = (demux.cc + wire'.gap) % CcModulus
    BY <1>1, <1>5, <1>9 DEF Counted
  <2>1. demux.cc \in 0 .. CcModulus - 1 /\ camera.cc = (demux.cc + wire.gap) % CcModulus
    BY DEF DemuxInv, Counted
  <2> DEFINE x == demux.cc + wire.gap
  <2>2. CcModulus \in Nat \ {0} /\ x \in Int /\ demux.cc + wire'.gap = x + Size
    BY <1>4, <1>6, <2>1, DemuxAssumption
  <2>3. camera'.cc = ((x % CcModulus) + Size) % CcModulus
    BY <1>5, <2>1
  <2> HIDE DEF x
  <2>4. ((x % CcModulus) + Size) % CcModulus = (x + Size) % CcModulus
    <3>1. Size \in Int
      BY <1>4
    <3> QED BY <2>2, <3>1, ModAdd
  <2> QED BY <2>1, <2>2, <2>3, <2>4
<1>14. Boundary' /\ Grown'
  BY <1>10 DEF Boundary, Grown
<1>15. OutWhole' /\ NoFalseDrop'
  <2>1. Whole(out)' <=> Whole(out)
    BY <1>1 DEF Whole, Holds, Data
  <2> QED BY <1>1, <1>5, <1>6, <2>1 DEF DemuxInv, OutWhole, NoFalseDrop
<1>16. Lossless'
  <2>1. Arrived
    BY DEF DemuxInv
  <2>2. camera'.payload = 1 => camera'.frame = camera.frame + 1
    BY <1>5
  <2>3. camera'.payload = 1 => camera'.frame # wire'.first
    BY <1>5, <1>6, <2>1, <2>2 DEF Arrived
  <2>4. camera'.payload = 1 => camera'.frame - 1 \notin wire'.ended
    BY <1>5, <1>6, <2>1, <2>2 DEF Arrived
  <2>5. camera'.payload > 1 => camera'.frame \in wire'.hurt
    BY <1>5, <1>6
  <2> QED BY <2>3, <2>4, <2>5 DEF Lossless
<1>17. QED BY <1>8, <1>11, <1>12, <1>13, <1>14, <1>15, <1>16 DEF DemuxInv

\* and the assertion that fails: nothing happens afterwards.
LEMMA AbortKeeps ==
  ASSUME DemuxInv, Sent, demux' = [demux EXCEPT !.aborted = TRUE], out' = out, wire' = wire,
         stream' = stream, starts' = starts
  PROVE  DemuxInv'
<1>1. DemuxTypeOK /\ Arrived /\ Unmixed /\ OutWhole
  BY DEF DemuxInv
<1>2. CameraType /\ wire \in Wires /\ demux \in Demuxes /\ out \in Seq(Packets)
  BY <1>1 DEF DemuxTypeOK
<1>3. /\ CameraType' /\ camera.frame \in Nat \ {0}
      /\ AtEnd => camera'.frame = camera.frame + 1 /\ camera'.payload = 1
      /\ ~AtEnd => camera'.frame = camera.frame /\ camera'.payload > 1
      /\ (Transport' <=> Transport)
  BY <1>2, SentFacts
<1>4. demux' \in Demuxes /\ demux'.aborted
  BY <1>2 DEF Demuxes
<1>5. DemuxTypeOK'
  BY <1>1, <1>3, <1>4 DEF DemuxTypeOK
<1>6. ~Running'
  BY <1>4 DEF Running
<1>7. Arrived'
  <2>1. \A h \in wire.seen : h \in Nat
    BY <1>2 DEF Wires
  <2>2. \A h \in wire.ended : h \in Nat
    BY <1>2 DEF Wires
  <2>3. wire.first \in Nat
    BY <1>2 DEF Wires
  <2>4. \A i \in DOMAIN out : out[i].frame \in Nat
    BY <1>2, PacketFrames
  <2> QED BY <1>1, <1>3, <2>1, <2>2, <2>3, <2>4 DEF Arrived
<1>8. Unmixed' /\ OutWhole'
  <2>1. Whole(out)' <=> Whole(out)
    BY DEF Whole, Holds, Data
  <2> QED BY <1>1, <1>3, <2>1 DEF Unmixed, OutWhole
<1>9. QED BY <1>4, <1>5, <1>6, <1>7, <1>8
       DEF DemuxInv, Buffered, Counted, Boundary, Grown, Lossless, NoFalseDrop
-----------------------------------------------------------------------------
(* A payload that arrives *)

\* The counter when the header has been read.
LEMMA RunningFacts ==
  ASSUME DemuxInv, starts > 0, ~demux.aborted, Transport
  PROVE  /\ Opened.cc \in {NoCc} \cup 0 .. CcModulus - 1
         /\ ~demux.first => demux.cc # NoCc
<1>1. CameraType /\ demux \in Demuxes
  BY DEF DemuxInv, DemuxTypeOK
<1>2. CASE demux.first
  BY <1>1, <1>2, OpenedFacts
<1>3. CASE ~demux.first
  <2>1. demux.cc \in 0 .. CcModulus - 1
    BY <1>3 DEF DemuxInv, Counted, Running
  <2>2. demux.cc # NoCc
    BY <2>1, DemuxAssumption DEF NoCc
  <2> QED BY <1>1, <1>3, <2>1, <2>2, OpenedFacts
<1>4. QED BY <1>2, <1>3

\* What is collected of a frame of which nothing was lost and that begins afresh.
LEMMA DueGood ==
  ASSUME DemuxInv, starts > 0, ~demux.aborted, NEW ps, NEW o, Shape(ps, o), ~Damaged(ps),
         camera.frame \notin wire.hurt, Due
  PROVE  LET e == Filled(ps)
         IN  /\ ~e.error /\ Holds(e.buf, camera.frame, Base + Size)
             /\ Quirk => Len(e.buf) = Base + Size
<1>1. CameraType /\ demux \in Demuxes
  BY DEF DemuxInv, DemuxTypeOK
<1>2. /\ camera.frame \in Nat \ {0} /\ camera.payload \in Nat \ {0}
      /\ camera.payload = 1 => Base = 0
  <2>1. Cut \in Nat
    BY <1>1, SizeFacts
  <2> QED BY <1>1, <2>1, SizeFacts DEF CameraType
<1>3. Lossless /\ Boundary /\ Counted
  BY DEF DemuxInv
<1>4. demux.first \in BOOLEAN
  BY <1>1 DEF Demuxes
<1>5. Len(<<>>) = 0
  OBVIOUS
<1>6. Holds(<<>>, camera.frame, 0)
  BY HoldsEmpty
<1>7. /\ ~Opened.error /\ Holds(Opened.buf, camera.frame, Base)
      /\ Quirk => Len(Opened.buf) = Base
      /\ Transport => Opened.cc \in {NoCc, camera.cc}
  <2>1. CASE demux.first
    <3>1. camera.payload = 1
      BY <1>2, <1>3, <2>1 DEF Lossless
    <3>2. Opened.cc = NoCc /\ Opened.buf = <<>> /\ ~Opened.error
      BY <1>1, <2>1, OpenedFacts
    <3> QED BY <1>2, <1>5, <1>6, <3>1, <3>2
  <2>2. CASE ~demux.first
    <3>1. wire.gap = 0 /\ Running
      BY <1>2, <1>3, <2>2 DEF Lossless, Running, Due
    <3>2. Transport => Opened.cc = camera.cc
      <4> SUFFICES ASSUME Transport PROVE Opened.cc = camera.cc
        OBVIOUS
      <4>1. demux.cc \in 0 .. CcModulus - 1 /\ camera.cc = (demux.cc + 0) % CcModulus
        BY <1>3, <3>1 DEF Counted
      <4>2. camera.cc = demux.cc
        BY <4>1, DemuxAssumption
      <4> QED BY <1>1, <2>2, <4>2, OpenedFacts
    <3>3. CASE camera.payload = 1
      <4>1. demux.buf = <<>> /\ ~demux.error /\ demux.eof
        BY <1>3, <3>1, <3>3 DEF Boundary
      <4>2. Opened.buf = <<>> /\ ~Opened.error
        BY <1>1, <2>2, <4>1, OpenedFacts
      <4> QED BY <1>2, <1>5, <1>6, <3>2, <3>3, <4>2
    <3>4. CASE camera.payload > 1
      <4>1. demux.fid = Fid(camera.frame) /\ ~demux.error /\ Prefix(demux.buf)
        BY <1>3, <3>1, <3>4 DEF Boundary, Lossless, Running
      <4>2. Opened.buf = demux.buf /\ Opened.error = demux.error
        BY <1>1, <2>2, <4>1, OpenedFacts
      <4> QED BY <3>2, <4>1, <4>2 DEF Prefix
    <3> QED BY <1>2, <3>3, <3>4
  <2> QED BY <1>4, <2>1, <2>2
<1>8. QED BY <1>1, <1>7, FilledGood

\* Whether the counter shows the gap before these packets.
Begins == demux.first \/ demux.cc = NoCc
Hides(ps) == ~Begins /\ wire.gap > 0 /\ (wire.gap % CcModulus = 0 \/ ps[1].kind = "fill")
Headless == IF Begins /\ camera.payload > 1 THEN wire.headless \cup {camera.frame} ELSE wire.headless

\* What is collected of a transport stream, as far as the counter shows: the
\* beginning of the frame, or of one whose beginning was lost before the stream's
\* first packet.
LEMMA GrownGood ==
  ASSUME DemuxInv, starts > 0, ~demux.aborted, Transport, NEW ps, NEW o, Shape(ps, o),
         ~wire.hidden, ~Hides(ps), ~Filled(ps).error
  PROVE  LET b == Filled(ps).buf
         IN  /\ b # <<>>
             /\ \/ Holds(b, camera.frame, Base + Size) /\ (Quirk => Len(b) = Base + Size)
                \/ camera.frame \in Headless /\ \A i \in DOMAIN b : b[i].frame = camera.frame
<1>1. CameraType /\ demux \in Demuxes /\ wire \in Wires
  BY DEF DemuxInv, DemuxTypeOK
<1>2. /\ camera.frame \in Nat \ {0} /\ camera.payload \in Nat \ {0}
      /\ camera.payload = 1 => Base = 0
  <2>1. Cut \in Nat
    BY <1>1, SizeFacts
  <2> QED BY <1>1, <2>1, SizeFacts DEF CameraType
<1>3. Opened.cc \in {NoCc} \cup 0 .. CcModulus - 1 /\ (~demux.first => demux.cc # NoCc)
  BY RunningFacts
<1>4. /\ ~Opened.error /\ ~Damaged(ps)
      /\ Opened.cc \in {NoCc, camera.cc} \/ ps[1].kind = "fill"
      /\ Filled(ps).buf # <<>>
  BY <1>1, <1>3, FilledSound
<1>5. Counted /\ Boundary /\ Grown
  BY DEF DemuxInv
<1>6. Len(<<>>) = 0 /\ Holds(<<>>, camera.frame, 0)
  BY HoldsEmpty
<1>7. \A i \in DOMAIN Filled(ps).buf :
           \/ Filled(ps).buf[i].frame = camera.frame
           \/ \E j \in DOMAIN Opened.buf : Filled(ps).buf[i] = Opened.buf[j]
  BY <1>1, FilledFrom
<1>8. demux.first \in BOOLEAN
  BY <1>1 DEF Demuxes
<1>9. CASE demux.first
  <2>1. Opened.cc = NoCc /\ Opened.buf = <<>>
    BY <1>1, <1>9, OpenedFacts
  <2>2. CASE camera.payload = 1
    <3>1. Holds(Opened.buf, camera.frame, Base) /\ (Quirk => Len(Opened.buf) = Base)
      BY <1>2, <1>6, <2>1, <2>2
    <3> QED BY <1>1, <1>4, <2>1, <3>1, FilledGood
  <2>3. CASE camera.payload > 1
    <3>1. camera.frame \in Headless
      BY <1>9, <2>3 DEF Headless, Begins
    <3>2. \A i \in DOMAIN Filled(ps).buf : Filled(ps).buf[i].frame = camera.frame
      BY <1>7, <2>1
    <3> QED BY <1>4, <3>1, <3>2
  <2> QED BY <1>2, <2>2, <2>3
<1>10. CASE ~demux.first
  <2>1. Running /\ ~Begins
    BY <1>3, <1>10 DEF Running, Begins
  <2>2. demux.cc \in 0 .. CcModulus - 1 /\ camera.cc = (demux.cc + wire.gap) % CcModulus
    BY <1>5, <2>1 DEF Counted
  <2>3. wire.gap \in Nat /\ CcModulus \in Nat \ {0}
    BY <1>1, DemuxAssumption DEF Wires
  <2>4. Opened.cc = demux.cc
    BY <1>1, <1>10, OpenedFacts
  <2>5. wire.gap = 0
    <3> SUFFICES ASSUME wire.gap > 0 PROVE FALSE
      BY <2>3
    <3>1. ps[1].kind # "fill" /\ wire.gap % CcModulus # 0
      BY <2>1 DEF Hides
    <3>2. camera.cc = demux.cc
      BY <1>3, <1>4, <1>10, <2>4, <3>1
    <3>3. wire.gap % CcModulus = 0
      BY <2>2, <2>3, <3>2, ModGap
    <3> QED BY <3>1, <3>3
  <2>6. Opened.cc = camera.cc
    BY <2>2, <2>3, <2>4, <2>5
  <2>7. CASE camera.payload = 1
    <3>1. demux.buf = <<>>
      BY <1>5, <2>1, <2>5, <2>7 DEF Boundary
    <3>2. Opened.buf = <<>>
      BY <1>1, <1>10, <3>1, OpenedFacts
    <3>3. Holds(Opened.buf, camera.frame, Base) /\ (Quirk => Len(Opened.buf) = Base)
      BY <1>2, <1>6, <2>7, <3>2
    <3> QED BY <1>1, <1>4, <2>6, <3>3, FilledGood
  <2>8. CASE camera.payload > 1
    <3>1. demux.fid = Fid(camera.frame)
      BY <1>5, <2>1, <2>5, <2>8 DEF Boundary
    <3>2. Opened.buf = demux.buf /\ Opened.error = demux.error
      BY <1>1, <1>10, <3>1, OpenedFacts
    <3>3. Prefix(demux.buf) \/ Beheaded(demux.buf)
      BY <1>4, <1>5, <2>1, <2>5, <2>8, <3>2 DEF Grown
    <3>4. CASE Prefix(demux.buf)
      <4>1. Holds(Opened.buf, camera.frame, Base) /\ (Quirk => Len(Opened.buf) = Base)
        BY <3>2, <3>4 DEF Prefix
      <4> QED BY <1>1, <1>4, <2>6, <4>1, FilledGood
    <3>5. CASE Beheaded(demux.buf)
      <4>1. camera.frame \in Headless
        BY <3>5 DEF Headless, Beheaded
      <4>2. \A i \in DOMAIN Filled(ps).buf : Filled(ps).buf[i].frame = camera.frame
        BY <1>7, <3>2, <3>5 DEF Beheaded
      <4> QED BY <1>4, <4>1, <4>2
    <3> QED BY <3>3, <3>4, <3>5
  <2> QED BY <1>2, <2>7, <2>8
<1>11. QED BY <1>8, <1>9, <1>10

\* What is collected is of this frame, or of earlier ones of the same id whose
\* ends were lost, and nothing of the other id arrived since.
LEMMA FilledUnmixed ==
  ASSUME DemuxInv, starts > 0, ~demux.aborted, NEW ps, NEW o, Shape(ps, o),
         NEW i \in DOMAIN Filled(ps).buf
  PROVE  LET f == Filled(ps).buf[i].frame
         IN  /\ f \in wire.seen \cup {camera.frame} /\ f <= camera.frame
             /\ \A h \in wire.seen \cup {camera.frame} : f <= h => Fid(h) = Fid(camera.frame)
             /\ \A h \in wire.ended : h < f
<1> DEFINE b == Filled(ps).buf
<1>1. CameraType /\ demux \in Demuxes /\ wire \in Wires /\ Arrived /\ Buffered
  BY DEF DemuxInv, DemuxTypeOK
<1>2. camera.frame \in Nat
  BY <1>1 DEF CameraType
<1>3. \A h \in wire.seen : h \in Nat /\ h <= camera.frame
  BY <1>1 DEF Wires, Arrived
<1>4. \A h \in wire.ended : h \in Nat /\ h < camera.frame
  BY <1>1 DEF Wires, Arrived
<1>5. b[i].frame = camera.frame \/ \E j \in DOMAIN Opened.buf : b[i] = Opened.buf[j]
  BY <1>1, FilledFrom
<1> HIDE DEF b
<1>6. CASE b[i].frame = camera.frame
  BY <1>2, <1>3, <1>4, <1>6 DEF b
<1>7. ASSUME NEW j \in DOMAIN Opened.buf, b[i] = Opened.buf[j]
      PROVE  LET f == b[i].frame
             IN  /\ f \in wire.seen \cup {camera.frame} /\ f <= camera.frame
                 /\ \A h \in wire.seen \cup {camera.frame} : f <= h => Fid(h) = Fid(camera.frame)
                 /\ \A h \in wire.ended : h < f
  <2>1. Opened.buf # <<>>
    BY <1>7
  <2>2. ~demux.first /\ demux.fid = Fid(camera.frame) /\ Opened.buf = demux.buf
    BY <1>1, <2>1, OpenedFacts
  <2>3. Running
    BY <2>2 DEF Running
  <2>4. /\ b[i].frame \in wire.seen
        /\ \A h \in wire.seen : b[i].frame <= h => Fid(h) = demux.fid
        /\ \A h \in wire.ended : h < b[i].frame
    BY <1>1, <1>7, <2>2, <2>3 DEF Buffered
  <2> QED BY <1>3, <2>2, <2>4
<1>8. QED BY <1>5, <1>6, <1>7 DEF b

\* What is noted of a payload that arrives.
LEMMA NoteFacts ==
  ASSUME CameraType, wire \in Wires, NEW ps, Note(ps)
  PROVE  LET c == camera.frame
         IN  /\ wire' \in Wires /\ wire'.gap = 0 /\ wire'.first = wire.first
             /\ wire'.hurt = IF Damaged(ps) THEN wire.hurt \cup {c} ELSE wire.hurt
             /\ wire'.seen = wire.seen \cup {c}
             /\ wire'.ended = IF AtEnd THEN wire.ended \cup {c} ELSE wire.ended
             /\ wire'.headless = Headless
             /\ wire'.hidden = (wire.hidden \/ Hides(ps))
             /\ wire'.due = IF AtEnd /\ c \notin wire.hurt /\ ~Damaged(ps) /\ Due
                              THEN wire.due \cup {c} ELSE wire.due
             /\ wire'.given = IF AtEnd /\ ~Filled(ps).error /\ Whole(Filled(ps).buf)
                                THEN wire.given \cup {c} ELSE wire.given
<1> DEFINE c == camera.frame
           hurt == IF Damaged(ps) THEN wire.hurt \cup {c} ELSE wire.hurt
           seen == wire.seen \cup {c}
           ended == IF AtEnd THEN wire.ended \cup {c} ELSE wire.ended
           hidden == wire.hidden \/ Hides(ps)
           due == IF AtEnd /\ c \notin wire.hurt /\ ~Damaged(ps) /\ Due
                    THEN wire.due \cup {c} ELSE wire.due
           given == IF AtEnd /\ ~Filled(ps).error /\ Whole(Filled(ps).buf)
                      THEN wire.given \cup {c} ELSE wire.given
<1>1. wire' = [wire EXCEPT !.gap = 0, !.hurt = hurt, !.seen = seen, !.ended = ended,
                           !.headless = Headless, !.hidden = hidden, !.due = due, !.given = given]
  BY Zenon DEF Note, Damaged, Headless, Hides, Begins, Due
<1>2. c \in Nat
  BY DEF CameraType
<1>3. /\ wire.hurt \subseteq Nat /\ wire.seen \subseteq Nat /\ wire.ended \subseteq Nat
      /\ wire.headless \subseteq Nat /\ wire.due \subseteq Nat /\ wire.given \subseteq Nat
      /\ wire.hidden \in BOOLEAN
  BY DEF Wires
<1>4. /\ hurt \in SUBSET Nat /\ seen \in SUBSET Nat /\ ended \in SUBSET Nat
      /\ Headless \in SUBSET Nat /\ due \in SUBSET Nat /\ given \in SUBSET Nat
  BY <1>2, <1>3 DEF Headless
<1>5. hidden \in BOOLEAN
  OBVIOUS
<1> HIDE DEF hurt, seen, ended, hidden, due, given
<1>6. /\ wire' \in Wires /\ wire'.gap = 0 /\ wire'.first = wire.first
      /\ wire'.hurt = hurt /\ wire'.seen = seen /\ wire'.ended = ended
      /\ wire'.headless = Headless /\ wire'.hidden = hidden /\ wire'.due = due /\ wire'.given = given
  BY <1>1, <1>4, <1>5 DEF Wires
<1>7. QED BY <1>6, Zenon DEF hurt, seen, ended, hidden, due, given

\* What the end of a frame does, and what a payload before it leaves alone.
LEMMA DeliverFacts ==
  ASSUME NEW e \in Demuxes, e.eof = AtEnd, Deliver(e)
  PROVE  /\ demux' \in Demuxes /\ demux'.first = e.first /\ demux'.fid = e.fid /\ demux'.eof = AtEnd
         /\ demux'.cc = e.cc /\ demux'.aborted = e.aborted
         /\ ~AtEnd => demux'.buf = e.buf /\ demux'.error = e.error /\ out' = out
         /\ AtEnd => /\ demux'.buf = <<>> /\ ~demux'.error
                     /\ out' = IF e.error THEN out ELSE e.buf
<1>1. <<>> \in Seq(Packets)
  BY EmptySeq
<1>2. CASE AtEnd
  <2>1. demux' = [e EXCEPT !.error = FALSE, !.buf = <<>>] /\ out' = IF e.error THEN out ELSE e.buf
    BY <1>2, Zenon DEF Deliver
  <2> HIDE DEF AtEnd
  <2> QED BY <1>1, <1>2, <2>1 DEF Demuxes
<1>3. CASE ~AtEnd
  <2>1. demux' = e /\ out' = out
    BY <1>3, Zenon DEF Deliver
  <2> QED BY <1>3, <2>1
<1>4. QED BY <1>2, <1>3

\* A payload that arrives keeps the invariant, conjunct by conjunct: c is its frame and
\* e the demultiplexer before delivery.
LEMMA ReceiveKeeps ==
  ASSUME DemuxInv, Streaming, NEW ps \in Sendable, Deliver(Filled(ps)), Note(ps), Sent,
         stream' = stream, starts' = starts
  PROVE  DemuxInv'
<1> DEFINE e == Filled(ps)
           c == camera.frame
<1>1. /\ CameraType /\ demux \in Demuxes /\ wire \in Wires /\ out \in Seq(Packets)
      /\ starts > 0 /\ ~demux.aborted /\ c <= MaxFrames /\ DemuxTypeOK
  BY DEF DemuxInv, DemuxTypeOK, Streaming
<1>2. PICK o \in {0, 1} : Shape(ps, o)
  BY <1>1, SendableShape
<1>3. /\ CameraType' /\ camera'.cc = (camera.cc + Size) % CcModulus
      /\ c \in Nat \ {0} /\ camera.payload \in Nat \ {0}
      /\ AtEnd => camera'.frame = c + 1 /\ camera'.payload = 1
      /\ ~AtEnd => camera'.frame = c /\ camera'.payload > 1 /\ Base' = Base + Size
      /\ (Quirk' <=> Quirk) /\ (Transport' <=> Transport)
  BY <1>1, SentFacts
<1>4. /\ e \in Demuxes /\ ~e.first /\ e.fid = Fid(c) /\ e.eof = AtEnd /\ ~e.aborted
      /\ Transport => e.cc = (camera.cc + Size) % CcModulus
  <2>1. ~Opened.aborted
    BY <1>1, OpenedFacts DEF Demuxes
  <2> QED BY <1>1, <1>2, <2>1, FilledFacts
<1>5. /\ wire' \in Wires /\ wire'.gap = 0 /\ wire'.first = wire.first
      /\ wire'.hurt = IF Damaged(ps) THEN wire.hurt \cup {c} ELSE wire.hurt
      /\ wire'.seen = wire.seen \cup {c}
      /\ wire'.ended = IF AtEnd THEN wire.ended \cup {c} ELSE wire.ended
      /\ wire'.headless = Headless
      /\ wire'.hidden = (wire.hidden \/ Hides(ps))
      /\ wire'.due = IF AtEnd /\ c \notin wire.hurt /\ ~Damaged(ps) /\ Due
                       THEN wire.due \cup {c} ELSE wire.due
      /\ wire'.given = IF AtEnd /\ ~e.error /\ Whole(e.buf) THEN wire.given \cup {c} ELSE wire.given
  BY <1>1, NoteFacts
<1>6. /\ demux' \in Demuxes /\ demux'.first = e.first /\ demux'.fid = e.fid /\ demux'.eof = AtEnd
      /\ demux'.cc = e.cc /\ demux'.aborted = e.aborted
      /\ ~AtEnd => demux'.buf = e.buf /\ demux'.error = e.error /\ out' = out
      /\ AtEnd => /\ demux'.buf = <<>> /\ ~demux'.error
                  /\ out' = IF e.error THEN out ELSE e.buf
  BY <1>4, DeliverFacts
<1>7. \A i \in DOMAIN e.buf :
         LET f == e.buf[i].frame
         IN  /\ f \in wire.seen \cup {c} /\ f <= c
             /\ \A h \in wire.seen \cup {c} : f <= h => Fid(h) = Fid(c)
             /\ \A h \in wire.ended : h < f
  BY <1>1, <1>2, FilledUnmixed
<1>8. e.buf \in Seq(Packets) /\ (AtEnd => Base + Size = Payloads * Parts)
  BY <1>1, <1>4, SizeFacts DEF Demuxes
<1>9. ASSUME Transport, ~wire'.hidden, ~e.error
      PROVE  /\ e.buf # <<>>
             /\ \/ Holds(e.buf, c, Base + Size) /\ (Quirk => Len(e.buf) = Base + Size)
                \/ c \in Headless /\ \A i \in DOMAIN e.buf : e.buf[i].frame = c
  <2>1. ~wire.hidden /\ ~Hides(ps)
    BY <1>5, <1>9
  <2> QED BY <1>1, <1>2, <1>9, <2>1, GrownGood
<1>10. ASSUME c \notin wire'.hurt, Due
       PROVE  ~e.error /\ Holds(e.buf, c, Base + Size) /\ (Quirk => Len(e.buf) = Base + Size)
  <2>1. c \notin wire.hurt /\ ~Damaged(ps)
    BY <1>5, <1>10
  <2> QED BY <1>1, <1>2, <1>10, <2>1, DueGood
<1>11. \A h \in wire.seen : h \in Nat /\ h <= c /\ (camera.payload = 1 => h < c)
  BY <1>1 DEF Wires, DemuxInv, Arrived
<1>12. \A h \in wire.ended : h \in Nat /\ h < c
  BY <1>1 DEF Wires, DemuxInv, Arrived
<1>13. \A i \in DOMAIN out : out[i].frame \in Nat /\ out[i].frame < c
  BY <1>1, PacketFrames DEF DemuxInv, Arrived
<1>14. wire.first \in Nat /\ wire.first <= c
  BY <1>1 DEF Wires, DemuxInv, Arrived
<1>15. \A i \in DOMAIN e.buf : e.buf[i].frame \in Nat
  BY <1>8, PacketFrames
<1>16. out' = out \/ (AtEnd /\ ~e.error /\ out' = e.buf)
  BY <1>6
<1>17. demux'.error => e.error
  BY <1>4, <1>6 DEF Demuxes
<1> HIDE DEF e, c
<1>18. DemuxTypeOK'
  <2>1. out' \in Seq(Packets)
    BY <1>1, <1>8, <1>16
  <2> QED BY <1>1, <1>3, <1>5, <1>6, <2>1 DEF DemuxTypeOK
<1>19. Arrived'
  <2>1. camera'.frame \in Nat /\ c <= camera'.frame /\ (camera'.payload = 1 => c < camera'.frame)
    BY <1>3
  <2>2. \A h \in wire'.seen : h <= camera'.frame /\ (camera'.payload = 1 => h < camera'.frame)
    BY <1>3, <1>5, <1>11, <2>1
  <2>3. \A h \in wire'.ended : h < camera'.frame
    BY <1>3, <1>5, <1>12, <2>1
  <2>4. \A i \in DOMAIN out' : out'[i].frame < camera'.frame
    BY <1>3, <1>7, <1>13, <1>15, <1>16, <2>1
  <2>5. wire'.first <= camera'.frame
    BY <1>3, <1>5, <1>14, <2>1
  <2> QED BY <2>2, <2>3, <2>4, <2>5 DEF Arrived
<1>20. Buffered'
  <2>1. CASE AtEnd
    BY <1>6, <2>1 DEF Buffered
  <2>2. CASE ~AtEnd
    <3>1. demux'.buf = e.buf /\ wire'.ended = wire.ended /\ demux'.fid = Fid(c)
      BY <1>4, <1>5, <1>6, <2>2
    <3> QED BY <1>5, <1>7, <3>1 DEF Buffered
  <2> QED BY <2>1, <2>2
<1>21. Unmixed'
  <2>1. CASE out' = out
    <3> SUFFICES ASSUME NEW i \in DOMAIN out, NEW j \in DOMAIN out, out[i].frame < out[j].frame,
                        NEW h \in out[i].frame .. out[j].frame
                 PROVE  /\ h \in wire'.seen => Fid(h) = Fid(out[i].frame)
                        /\ h < out[j].frame => h \notin wire'.ended
      BY <2>1, Zenon DEF Unmixed
    <3>1. h # c
      BY <1>3, <1>13
    <3>2. (h \in wire'.seen => h \in wire.seen) /\ (h \in wire'.ended => h \in wire.ended)
      BY <1>5, <3>1
    <3>3. /\ h \in wire.seen => Fid(h) = Fid(out[i].frame)
          /\ h < out[j].frame => h \notin wire.ended
      <4>1. Unmixed
        BY DEF DemuxInv
      <4> QED BY <4>1, Zenon DEF Unmixed
    <3> QED BY <3>2, <3>3
  <2>2. CASE out' = e.buf
    <3> SUFFICES ASSUME NEW i \in DOMAIN e.buf, NEW j \in DOMAIN e.buf, e.buf[i].frame < e.buf[j].frame,
                        NEW h \in e.buf[i].frame .. e.buf[j].frame
                 PROVE  /\ h \in wire'.seen => Fid(h) = Fid(e.buf[i].frame)
                        /\ h < e.buf[j].frame => h \notin wire'.ended
      BY <2>2, Zenon DEF Unmixed
    <3>1. e.buf[i].frame \in Nat /\ e.buf[j].frame \in Nat /\ e.buf[i].frame <= h /\ h <= e.buf[j].frame
      BY <1>15
    <3>2. h \in wire'.seen => Fid(h) = Fid(c)
      BY <1>5, <1>7, <3>1
    <3>3. Fid(e.buf[i].frame) = Fid(c)
      BY <1>7, <3>1
    <3>4. h \notin wire.ended
      <4>1. h \in wire.ended => h < e.buf[i].frame
        BY <1>7
      <4> QED BY <3>1, <4>1
    <3>5. h < e.buf[j].frame => h # c
      BY <1>3, <1>7, <3>1
    <3>6. h < e.buf[j].frame => h \notin wire'.ended
      BY <1>5, <3>4, <3>5
    <3> QED BY <3>2, <3>3, <3>6
  <2> QED BY <1>16, <2>1, <2>2
<1>22. Counted'
  <2> SUFFICES ASSUME Transport
               PROVE  demux'.cc \in 0 .. CcModulus - 1 /\ camera'.cc = (demux'.cc + wire'.gap) % CcModulus
    BY <1>3 DEF Counted
  <2>1. demux'.cc = camera'.cc /\ wire'.gap = 0
    BY <1>3, <1>4, <1>5, <1>6
  <2>2. camera'.cc \in 0 .. CcModulus - 1
    BY <1>3 DEF CameraType
  <2> QED BY <2>1, <2>2, DemuxAssumption
<1>23. Boundary'
  <2>1. CASE AtEnd
    <3>1. camera'.payload = 1 /\ camera'.frame - 1 = c /\ demux'.fid = Fid(c) /\ demux'.eof
      BY <1>3, <1>4, <1>6, <2>1
    <3>2. demux'.buf = <<>> /\ ~demux'.error
      BY <1>6, <2>1
    <3> QED BY <3>1, <3>2 DEF Boundary
  <2>2. CASE ~AtEnd
    <3>1. camera'.payload > 1 /\ camera'.payload # 1 /\ camera'.frame = c /\ demux'.fid = Fid(c)
      BY <1>3, <1>4, <1>6, <2>2
    <3> QED BY <3>1 DEF Boundary
  <2> QED BY <2>1, <2>2
<1>24. Grown'
  <2> SUFFICES ASSUME Transport, ~wire'.hidden, camera'.payload > 1, ~demux'.error
               PROVE  Prefix(demux.buf)' \/ Beheaded(demux.buf)'
    BY <1>3 DEF Grown
  <2>1. ~AtEnd
    BY <1>3
  <2>2. demux'.buf = e.buf /\ ~e.error /\ camera'.frame = c /\ Base' = Base + Size
    BY <1>3, <1>6, <2>1
  <2>3. CASE Holds(e.buf, c, Base + Size) /\ (Quirk => Len(e.buf) = Base + Size)
    <3>1. Holds(demux.buf, camera.frame, Base)' /\ (Quirk' => Len(demux'.buf) = Base')
      BY <1>3, <2>2, <2>3 DEF Holds, Data
    <3> QED BY <3>1 DEF Prefix
  <2>4. CASE e.buf # <<>> /\ c \in Headless /\ \A i \in DOMAIN e.buf : e.buf[i].frame = c
    BY <1>5, <2>2, <2>4 DEF Beheaded
  <2> QED BY <1>9, <2>2, <2>3, <2>4
<1>25. OutWhole'
  <2> SUFFICES ASSUME Transport, out' # <<>>, ~wire'.hidden
               PROVE  Whole(out)' \/ out'[1].frame \in wire'.headless
    BY <1>3 DEF OutWhole
  <2>1. CASE out' = out
    <3>1. Whole(out)' <=> Whole(out)
      BY <2>1 DEF Whole, Holds, Data
    <3>2. wire.headless \subseteq wire'.headless /\ ~wire.hidden
      BY <1>5 DEF Headless
    <3>3. Whole(out) \/ out[1].frame \in wire.headless
      BY <2>1, <3>2 DEF DemuxInv, OutWhole
    <3> QED BY <2>1, <3>1, <3>2, <3>3
  <2>2. CASE AtEnd /\ ~e.error /\ out' = e.buf
    <3>1. CASE Holds(e.buf, c, Base + Size)
      <4>1. Holds(out', c, Payloads * Parts) /\ c \in 1 .. MaxFrames
        BY <1>1, <1>3, <1>8, <2>2, <3>1, DemuxAssumption DEF c
      <4> QED BY <4>1 DEF Whole, Holds, Data
    <3>2. CASE e.buf # <<>> /\ c \in Headless /\ \A i \in DOMAIN e.buf : e.buf[i].frame = c
      <4>1. 1 \in DOMAIN e.buf
        BY <1>8, <3>2
      <4> QED BY <1>5, <2>2, <3>2, <4>1
    <3> QED BY <1>9, <2>2, <3>1, <3>2
  <2> QED BY <1>16, <2>1, <2>2
<1>26. Lossless'
  <2>1. camera'.payload = 1 => AtEnd /\ camera'.frame = c + 1 /\ camera'.frame # wire'.first
    BY <1>3, <1>5, <1>14
  <2>2. ~demux'.first /\ wire'.gap = 0
    BY <1>4, <1>5, <1>6
  <2>3. ASSUME camera'.payload > 1, camera'.frame \notin wire'.hurt, Due'
        PROVE  ~demux'.error /\ Prefix(demux.buf)'
    <3>1. ~AtEnd
      BY <1>3, <2>3
    <3>2. demux'.buf = e.buf /\ demux'.error = e.error /\ camera'.frame = c /\ Base' = Base + Size
      BY <1>3, <1>6, <3>1
    <3>3. Due
      BY <1>5, <2>3, <3>1, <3>2 DEF Due, c
    <3>4. ~e.error /\ Holds(e.buf, c, Base + Size) /\ (Quirk => Len(e.buf) = Base + Size)
      BY <1>10, <2>3, <3>2, <3>3
    <3>5. Holds(demux.buf, camera.frame, Base)' /\ (Quirk' => Len(demux'.buf) = Base')
      BY <1>3, <3>2, <3>4 DEF Holds, Data
    <3> QED BY <3>2, <3>4, <3>5 DEF Prefix
  <2> QED BY <2>1, <2>2, <2>3 DEF Lossless
<1>27. NoFalseDrop'
  <2>1. wire.due \subseteq wire.given
    BY <1>1 DEF DemuxInv, NoFalseDrop
  <2>2. ASSUME AtEnd, c \notin wire.hurt, ~Damaged(ps), Due PROVE c \in wire'.given
    <3>1. ~e.error /\ Holds(e.buf, c, Base + Size)
      BY <1>5, <1>10, <2>2
    <3>2. Whole(e.buf)
      BY <1>1, <1>3, <1>8, <2>2, <3>1, DemuxAssumption DEF Whole, c
    <3> QED BY <1>5, <2>2, <3>1, <3>2
  <2>3. wire.given \subseteq wire'.given
    BY <1>5
  <2>4. \A f \in wire'.due : f \in wire.due \/ (f = c /\ AtEnd /\ c \notin wire.hurt /\ ~Damaged(ps) /\ Due)
    BY <1>5
  <2>5. wire'.due \subseteq wire'.given
    BY <2>1, <2>2, <2>3, <2>4
  <2> QED BY <2>5 DEF NoFalseDrop
<1>28. QED BY <1>18, <1>19, <1>20, <1>21, <1>22, <1>23, <1>24, <1>25, <1>26, <1>27 DEF DemuxInv
-----------------------------------------------------------------------------
(* The theorems *)

\* Every step of the backend keeps the invariant: those of the parsers leave the
\* demultiplexer alone.
LEMMA StepKeeps ==
  ASSUME DemuxInv, [Next]_vars
  PROVE  DemuxInv'
<1>1. ASSUME UNCHANGED demuxVars PROVE DemuxInv'
  <2>1. stream' = stream /\ starts' = starts /\ demux' = demux /\ out' = out /\ camera' = camera
        /\ wire' = wire
    BY <1>1 DEF demuxVars
  <2> QED BY <2>1 DEF DemuxInv, DemuxTypeOK, CameraType, Cut, Arrived, Buffered, Unmixed, Counted,
               Boundary, Grown, Prefix, Beheaded, OutWhole, Lossless, NoFalseDrop, Transport, Quirk,
               Base, Size, Due, Running, Holds, Data, Whole
<1>2. ASSUME VideoStart PROVE DemuxInv'
  <2>1. PICK f \in {"raw", "ts", "quirk"} : StartStream(f, vcfg[1].bulk)
    BY <1>2 DEF VideoStart, Formats
  <2> QED BY <2>1, StartKeeps
<1>3. ASSUME Receive PROVE DemuxInv'
  <2>1. Streaming /\ Sent /\ stream' = stream /\ starts' = starts
    BY <1>3 DEF Receive
  <2>2. PICK ps \in Sendable :
          IF Overflows(Toggle(Entry(demux), Fid(camera.frame)), ps)
            THEN demux' = [demux EXCEPT !.aborted = TRUE] /\ UNCHANGED <<out, wire>>
            ELSE Deliver(Filled(ps)) /\ Note(ps)
    BY <1>3, Zenon DEF Receive
  <2>3. CASE Overflows(Toggle(Entry(demux), Fid(camera.frame)), ps)
    <3>1. demux' = [demux EXCEPT !.aborted = TRUE] /\ out' = out /\ wire' = wire
      BY <2>2, <2>3
    <3> QED BY <2>1, <3>1, AbortKeeps
  <2>4. CASE ~Overflows(Toggle(Entry(demux), Fid(camera.frame)), ps)
    <3>1. Deliver(Filled(ps)) /\ Note(ps)
      BY <2>2, <2>4, Zenon
    <3> QED BY <2>1, <3>1, ReceiveKeeps
  <2> QED BY <2>3, <2>4
<1>4. ASSUME Lose PROVE DemuxInv'
  BY <1>4, LoseKeeps
<1>5. QED BY <1>1, <1>2, <1>3, <1>4 DEF Next, DemuxNext, vars

\* The demultiplexer is in a state of the invariant whatever the camera sends,
\* whatever gets lost on the wire and whenever the client starts the stream again.
THEOREM DemuxInvariant == Spec => []DemuxInv
<1>1. Init => DemuxInv
  BY DemuxInitial DEF Init
<1>2. DemuxInv /\ [Next]_vars => DemuxInv'
  BY StepKeeps
<1>3. QED BY <1>1, <1>2, PTL DEF Spec

\* A frame of a transport stream reaches the client whole or not at all, and
\* frames of the camera are only merged across the loss of all their ends and of
\* every frame of the other id between them.
THEOREM DeliveredWholeHolds == Spec => []DeliveredWhole
<1>1. DemuxInv => DeliveredWhole
  <2> SUFFICES ASSUME DemuxInv PROVE DeliveredWhole
    OBVIOUS
  <2>1. OutWhole /\ Unmixed
    BY DEF DemuxInv
  <2> QED BY <2>1, Zenon DEF DeliveredWhole, OutWhole, Unmixed
<1>2. QED BY <1>1, DemuxInvariant, PTL

\* No frame is dropped that lost nothing and follows the end of another.
THEOREM NoFalseDropHolds == Spec => []NoFalseDrop
<1>1. DemuxInv => NoFalseDrop
  BY DEF DemuxInv
<1>2. QED BY <1>1, DemuxInvariant, PTL
-----------------------------------------------------------------------------
(* The descriptor parsers: their steps *)

Parses == [by : {"none", "video", "audio"}, at : Nat \ {0},
           video : {"none", "parsed", "refused"}, audio : {"none", "parsed", "refused"}]

\* What the device holds at a position that is read.
LEMMA HereFacts ==
  ASSUME device \in Devices, parse.at \in Nat \ {0}, parse.at <= Len(device)
  PROVE  /\ device \in Seq(Descriptors) /\ parse.at \in DOMAIN device
         /\ Here = device[parse.at] /\ Here \in Descriptors
<1>1. device \in Seq(Descriptors)
  BY DevicesAssumption DEF WellFormed
<1>2. QED BY <1>1 DEF Here

\* A parser goes on, or gives up; the other one's result stays.
LEMMA MoveFacts ==
  ASSUME parse \in Parses, parse.by # "none", Advance \/ Refuse
  PROVE  /\ parse' \in Parses
         /\ Advance => parse'.by = parse.by /\ parse'.at = parse.at + 1
                         /\ parse'.video = parse.video /\ parse'.audio = parse.audio
         /\ Refuse => parse'.by = "none" /\ parse'.at = parse.at
         /\ parse.by = "video" => parse'.audio = parse.audio /\ (Refuse => parse'.video = "refused")
         /\ parse.by = "audio" => parse'.video = parse.video /\ (Refuse => parse'.audio = "refused")
<1>1. CASE Advance
  <2>1. parse' = [parse EXCEPT !.at = parse.at + 1]
    BY <1>1 DEF Advance
  <2>2. ~Refuse
    <3>1. parse'.by = parse.by
      BY <2>1 DEF Parses
    <3>2. Refuse => parse'.by = "none"
      BY DEF Refuse, Parses
    <3> QED BY <3>1, <3>2
  <2> QED BY <2>1, <2>2 DEF Parses
<1>2. CASE Refuse
  <2>1. parse' = [parse EXCEPT !.by = "none", ![parse.by] = "refused"]
    BY <1>2 DEF Refuse
  <2>2. ~Advance
    <3>1. parse'.by = "none"
      BY <2>1 DEF Parses
    <3>2. Advance => parse'.by = parse.by
      BY DEF Advance, Parses
    <3> QED BY <3>1, <3>2
  <2>3. CASE parse.by = "video"
    <3>1. parse' = [parse EXCEPT !.by = "none", !.video = "refused"]
      BY <2>1, <2>3
    <3> QED BY <2>2, <2>3, <3>1 DEF Parses
  <2>4. CASE parse.by = "audio"
    <3>1. parse' = [parse EXCEPT !.by = "none", !.audio = "refused"]
      BY <2>1, <2>4
    <3> QED BY <2>2, <2>4, <3>1 DEF Parses
  <2> QED BY <2>3, <2>4 DEF Parses
<1>3. QED BY <1>1, <1>2

\* A parser begins.
LEMMA BeginFacts ==
  ASSUME NEW p \in Parses, NEW q, NEW b \in {"video", "audio"}, q = [p EXCEPT !.by = b, !.at = 1]
  PROVE  q \in Parses /\ q.by = b /\ q.at = 1 /\ q.video = p.video /\ q.audio = p.audio
<1>1. 1 \in Nat \ {0}
  OBVIOUS
<1>2. QED BY <1>1 DEF Parses

\* A parser ends.
LEMMA EndFacts ==
  ASSUME NEW p \in Parses, NEW q, NEW b \in {"video", "audio"},
         q = [p EXCEPT !.by = "none", ![b] = "parsed"]
  PROVE  /\ q \in Parses /\ q.by = "none" /\ q.at = p.at
         /\ b = "video" => q.video = "parsed" /\ q.audio = p.audio
         /\ b = "audio" => q.audio = "parsed" /\ q.video = p.video
<1>1. CASE b = "video"
  <2>1. q = [p EXCEPT !.by = "none", !.video = "parsed"]
    BY <1>1
  <2> QED BY <1>1, <2>1 DEF Parses
<1>2. CASE b = "audio"
  <2>1. q = [p EXCEPT !.by = "none", !.audio = "parsed"]
    BY <1>2
  <2> QED BY <1>2, <2>1 DEF Parses
<1>3. QED BY <1>1, <1>2

-----------------------------------------------------------------------------
(* The audio parser *)

AudioFormats == [alt : Nat, samFr : Nat]
Auds == [format : [0 .. MaxAudFmts - 1 -> AudioFormats], idx : Nat, ctrlIf : Nat,
         interface : Nat, feature : Nat, numChan : Nat]

\* Each slot of aud_cfg is free or holds an alternate setting of the camera, and
\* when the audio runs the chosen one has the rate asked for.
AudioInv ==
  /\ device \in Devices /\ rate \in Rates /\ parse \in Parses /\ aud \in Auds
  /\ \A k \in 0 .. MaxAudFmts - 1 :
       \/ aud.format[k] = NoFormat
       \/ \E i \in Positions(device, "as") :
            aud.format[k] = [alt |-> device[i].alt, samFr |-> device[i].rate]
  /\ parse.audio = "parsed" /\ parse.by # "audio" => AudioDescribed

\* What the audio parser takes from a descriptor.
LEMMA AudioDescriptors ==
  ASSUME NEW x \in Descriptors
  PROVE  /\ x.kind = "as" => x.if \in Nat /\ x.alt \in Nat /\ x.rate \in Nat
         /\ x.kind = "ac" => x.if \in Nat
         /\ x.kind = "feature" => x.id \in Nat
         /\ x.kind = "input" => x.channels \in Nat
  BY DEF Descriptors

\* The audio configuration after an assignment.
LEMMA AudFacts ==
  ASSUME NEW a \in Auds, NEW b, NEW v \in Nat,
         \/ b = [a EXCEPT !.ctrlIf = v] \/ b = [a EXCEPT !.feature = v]
         \/ b = [a EXCEPT !.numChan = v] \/ b = [a EXCEPT !.interface = v]
  PROVE  b \in Auds /\ b.format = a.format
  BY DEF Auds

\* The choice of a slot leaves the slots alone.
LEMMA ChosenFacts ==
  ASSUME NEW a \in Auds, NEW b, NEW v \in Nat, b = [a EXCEPT !.idx = v]
  PROVE  b \in Auds /\ b.format = a.format /\ b.idx = v
  BY DEF Auds

\* A slot is written.
LEMMA SlotFacts ==
  ASSUME NEW a \in Auds, NEW b, NEW f \in AudioFormats, NEW v \in Nat, a.idx \in 0 .. MaxAudFmts - 1,
         b = [format |-> [a.format EXCEPT ![a.idx] = f], idx |-> a.idx + 1, ctrlIf |-> a.ctrlIf,
              interface |-> v, feature |-> a.feature, numChan |-> a.numChan]
  PROVE  /\ b \in Auds
         /\ \A k \in 0 .. MaxAudFmts - 1 : b.format[k] = IF k = a.idx THEN f ELSE a.format[k]
<1> DEFINE F == [0 .. MaxAudFmts - 1 -> AudioFormats]
<1>1. a.format \in F /\ a.idx \in Nat
  BY DEF Auds
<1>2. b.format = [a.format EXCEPT ![a.idx] = f]
  OBVIOUS
<1>3. b.format \in F
  BY <1>1, <1>2
<1>4. a.idx + 1 \in Nat /\ a.ctrlIf \in Nat /\ a.feature \in Nat /\ a.numChan \in Nat
  BY DEF Auds
<1>5. b \in Auds
  <2> HIDE DEF F
  <2> QED BY <1>2, <1>3, <1>4 DEF Auds, F
<1>6. QED BY <1>1, <1>2, <1>5

VideoReads ==
  ParseVc \/ ParseUnit \/ ParseZero \/ ParseVs \/ ParseFormat \/ ParseFrame \/ ParseEndpoint \/ ParseAlt

\* The video parser's steps that read a descriptor.
LEMMA VideoReadsFacts ==
  ASSUME VideoReads
  PROVE  /\ parse.by = "video" /\ parse.at <= Len(device) /\ aud' = aud
         /\ device' = device /\ rate' = rate /\ (Advance \/ Refuse)
  BY DEF VideoReads, ParseVc, ParseUnit, ParseZero, ParseVs, ParseFormat, ParseFrame, ParseEndpoint,
     ParseAlt, Parsing, Reading, AudioKinds, Rest

\* Steps that leave the audio configuration alone.
LEMMA AudioRests ==
  ASSUME AudioInv, device' = device, rate' = rate, aud' = aud, parse' \in Parses,
         parse'.audio = "parsed" /\ parse'.by # "audio" => parse.audio = "parsed" /\ parse.by # "audio"
  PROVE  AudioInv'
  BY DEF AudioInv, AudioDescribed, Positions, Parses

\* A slot is only written from a descriptor, and the slot that is chosen has the
\* rate asked for: it is not one that no descriptor was written to.
LEMMA AudioKeeps ==
  ASSUME AudioInv, [DescNext]_descVars
  PROVE  AudioInv'
<1>0. parse \in Parses /\ aud \in Auds
  BY DEF AudioInv
<1>1. /\ device \in Devices /\ rate \in Rates /\ parse \in Parses
      /\ Rates \subseteq Nat \ {0} /\ MaxAudFmts \in Nat \ {0}
  BY DescriptorAssumption, DevicesAssumption DEF AudioInv
<1>2. CASE UNCHANGED descVars
  BY <1>1, <1>2, AudioRests DEF descVars
<1>3. CASE VideoReads
  <2>1. parse' \in Parses /\ parse'.audio = parse.audio /\ aud' = aud /\ device' = device /\ rate' = rate
    BY <1>1, <1>3, VideoReadsFacts, MoveFacts
  <2> QED BY <1>3, <2>1, AudioRests, VideoReadsFacts
<1>4. CASE VideoParse
  <2>1. /\ parse.by = "none" /\ aud' = aud /\ device' = device /\ rate' = rate
        /\ parse' = [parse EXCEPT !.by = "video", !.at = 1]
    BY <1>4 DEF VideoParse, Rest
  <2>2. parse' \in Parses /\ parse'.audio = parse.audio
    BY <1>0, <2>1, BeginFacts
  <2> QED BY <2>1, <2>2, AudioRests
<1>5. CASE Ignore
  <2>1. parse.by # "none" /\ Advance /\ aud' = aud /\ device' = device /\ rate' = rate
    BY <1>5 DEF Ignore, Parsing, Reading, AudioKinds, Rest
  <2>2. parse' \in Parses /\ parse'.audio = parse.audio /\ parse'.by = parse.by
    BY <1>1, <2>1, MoveFacts
  <2> QED BY <2>1, <2>2, AudioRests
<1>6. CASE AudioParse
  <2>1. /\ aud' = aud /\ device' = device /\ rate' \in Rates
        /\ parse' = [parse EXCEPT !.by = "audio", !.at = 1]
    BY <1>6 DEF AudioParse
  <2>2. parse' \in Parses /\ parse'.by = "audio"
    BY <1>0, <2>1, BeginFacts
  <2> QED BY <2>1, <2>2 DEF AudioInv, Positions
<1>7. ASSUME parse.by = "audio", Advance, device' = device, rate' = rate,
             aud' \in Auds,
             \A k \in 0 .. MaxAudFmts - 1 :
               aud'.format[k] = aud.format[k] \/
               \E i \in Positions(device, "as") :
                 aud'.format[k] = [alt |-> device[i].alt, samFr |-> device[i].rate]
      PROVE  AudioInv'
  <2>1. parse' \in Parses /\ parse'.by = "audio"
    BY <1>1, <1>7, MoveFacts
  <2>2. \A k \in 0 .. MaxAudFmts - 1 :
          \/ aud'.format[k] = NoFormat
          \/ \E i \in Positions(device, "as") :
               aud'.format[k] = [alt |-> device[i].alt, samFr |-> device[i].rate]
    BY <1>7 DEF AudioInv
  <2> QED BY <1>1, <1>7, <2>1, <2>2 DEF AudioInv, Positions
<1>8. CASE ParseAc
  <2>1. /\ parse.by = "audio" /\ Advance /\ device' = device /\ rate' = rate
        /\ parse.at <= Len(device)
    BY <1>8 DEF ParseAc, Parsing, Reading, AudioKinds, Rest
  <2>2. Here \in Descriptors
    BY <1>1, <2>1, HereFacts DEF Parses
  <2>3. PICK v \in Nat : \/ aud' = [aud EXCEPT !.ctrlIf = v]
                         \/ aud' = [aud EXCEPT !.feature = v]
                         \/ aud' = [aud EXCEPT !.numChan = v]
    BY <1>8, <2>2, AudioDescriptors DEF ParseAc, Parsing, Reading
  <2>4. aud' \in Auds /\ aud'.format = aud.format
    BY <1>0, <2>3, AudFacts
  <2> QED BY <1>7, <2>1, <2>4
<1>9. CASE ParseAs
  <2>1. /\ parse.by = "audio" /\ device' = device /\ rate' = rate /\ parse.at <= Len(device)
        /\ Here.kind = "as"
    BY <1>9 DEF ParseAs, Parsing, Reading, AudioKinds, Rest
  <2>2. /\ Here \in Descriptors /\ Here.if \in Nat /\ Here.alt \in Nat /\ Here.rate \in Nat
        /\ Here = device[parse.at] /\ parse.at \in Positions(device, "as")
    BY <1>1, <2>1, HereFacts, AudioDescriptors DEF Parses, Positions
  <2>3. CASE aud.idx >= MaxAudFmts
    <3>1. Refuse /\ aud' = aud
      BY <1>9, <2>3 DEF ParseAs
    <3>2. parse' \in Parses /\ parse'.audio = "refused"
      BY <1>1, <2>1, <3>1, MoveFacts
    <3> QED BY <2>1, <3>1, <3>2, AudioRests
  <2>4. CASE ~(aud.idx >= MaxAudFmts) /\ Here.alt = 0
    <3>1. Advance /\ aud' = [aud EXCEPT !.interface = Here.if]
      BY <1>9, <2>4 DEF ParseAs
    <3>2. aud' \in Auds /\ aud'.format = aud.format
      BY <1>0, <2>2, <3>1, AudFacts
    <3> QED BY <1>7, <2>1, <3>1, <3>2
  <2>5. CASE ~(aud.idx >= MaxAudFmts) /\ Here.alt # 0
    <3>1. aud.idx \in 0 .. MaxAudFmts - 1
      <4>1. aud.idx \in Nat
        BY <1>0 DEF Auds
      <4> QED BY <1>1, <2>5, <4>1
    <3>2. PICK new \in AudioFormats : new = [alt |-> Here.alt, samFr |-> Here.rate]
      BY <2>2 DEF AudioFormats
    <3>3. \E i \in Positions(device, "as") : new = [alt |-> device[i].alt, samFr |-> device[i].rate]
      BY <2>2, <3>2
    <3>4. PICK v \in Nat : v = Here.if
      BY <2>2
    <3>5. /\ Advance
          /\ aud' = [aud EXCEPT !.interface = v, !.idx = @ + 1, !.format[aud.idx] = new]
      BY <1>9, <2>5, <3>2, <3>4 DEF ParseAs
    <3>6. aud' = [format |-> [aud.format EXCEPT ![aud.idx] = new], idx |-> aud.idx + 1,
                  ctrlIf |-> aud.ctrlIf, interface |-> v, feature |-> aud.feature,
                  numChan |-> aud.numChan]
      BY <1>0, <3>5 DEF Auds
    <3>7. aud' \in Auds
      BY <1>0, <3>1, <3>6, SlotFacts
    <3>8. ASSUME NEW k \in 0 .. MaxAudFmts - 1
          PROVE  aud'.format[k] = IF k = aud.idx THEN new ELSE aud.format[k]
      BY <1>0, <3>1, <3>6 DEF Auds
    <3> QED BY <1>7, <2>1, <3>3, <3>5, <3>7, <3>8
  <2> QED BY <2>3, <2>4, <2>5
<1>10. CASE ParseEnd
  <2>1. parse.by # "none" /\ device' = device /\ rate' = rate
    BY <1>10 DEF ParseEnd, Rest
  <2>2. CASE parse.by = "video"
    <3>1. aud' = aud /\ parse' = [parse EXCEPT !.by = "none", !.video = "parsed"]
      BY <1>10, <2>2 DEF ParseEnd
    <3>2. parse' \in Parses /\ parse'.audio = parse.audio
      BY <1>0, <3>1, EndFacts
    <3> QED BY <2>1, <2>2, <3>1, <3>2, AudioRests
  <2>3. CASE parse.by = "audio" /\ Slots = {}
    <3>1. aud' = aud /\ Refuse
      BY <1>10, <2>3 DEF ParseEnd
    <3>2. parse' \in Parses /\ parse'.audio = "refused"
      BY <1>1, <2>3, <3>1, MoveFacts
    <3> QED BY <2>1, <3>1, <3>2, AudioRests
  <2>4. CASE parse.by = "audio" /\ Slots # {}
    <3>1. /\ aud' = [aud EXCEPT !.idx = First(Slots)]
          /\ parse' = [parse EXCEPT !.by = "none", !.audio = "parsed"]
      BY <1>10, <2>4 DEF ParseEnd
    <3>2. parse' \in Parses
      BY <1>0, <3>1, EndFacts
    <3>3. Slots \subseteq Nat
      BY <1>1 DEF Slots
    <3>4. First(Slots) \in Slots
      <4>0. PICK i \in Slots : \A j \in Slots : ~(j < i)
        BY <2>4, <3>3, LeastNat
      <4>1. \E x \in Slots : \A j \in Slots : x <= j
        BY <3>3, <4>0
      <4> QED BY <4>1, Zenon DEF First
    <3>5. PICK k \in 0 .. MaxAudFmts - 1 : k = First(Slots) /\ aud.format[k].samFr = rate
      BY <3>4 DEF Slots
    <3>6. k \in Nat /\ aud.format[k] # NoFormat
      BY <1>1, <3>5 DEF NoFormat
    <3>7. PICK i \in Positions(device, "as") :
            aud.format[k] = [alt |-> device[i].alt, samFr |-> device[i].rate]
      BY <3>6 DEF AudioInv
    <3>8. aud' \in Auds /\ aud'.format = aud.format /\ aud'.idx = k
      BY <1>0, <3>1, <3>5, <3>6, ChosenFacts
    <3>9. AudioDescribed'
      BY <2>1, <3>5, <3>7, <3>8 DEF AudioDescribed, Positions
    <3> QED BY <1>1, <2>1, <3>2, <3>8, <3>9 DEF AudioInv, Positions
  <2> QED BY <1>1, <2>1, <2>2, <2>3, <2>4 DEF Parses
<1>11. QED
  BY <1>2, <1>3, <1>4, <1>5, <1>6, <1>8, <1>9, <1>10 DEF DescNext, VideoReads

-----------------------------------------------------------------------------
(* Sets of positions, their ranks, and the functions they belong to *)

\* Positions up to one are finitely many.
LEMMA UpToFinite ==
  ASSUME NEW n \in Nat, NEW s, \A i \in s : i \in Nat /\ i <= n
  PROVE  IsFiniteSet(s) /\ Cardinality(s) \in Nat
<1>1. s \in SUBSET (0 .. n)
  OBVIOUS
<1>2. IsFiniteSet(0 .. n)
  BY FS_Interval
<1>3. IsFiniteSet(s)
  BY <1>1, <1>2, FS_Subset
<1>4. QED BY <1>3, FS_CardinalityType

\* A set of numbers that is bounded has a greatest.
LEMMA GreatestNat ==
  ASSUME NEW n \in Nat, NEW s, s # {}, \A i \in s : i \in Nat /\ i <= n
  PROVE  \E m \in s : \A i \in s : i <= m
<1> DEFINE T == {n - i : i \in s}
<1>1. T \subseteq Nat /\ T # {}
  OBVIOUS
<1>2. PICK t \in T : \A u \in T : ~(u < t)
  BY <1>1, LeastNat
<1>3. PICK m \in s : t = n - m
  BY <1>2
<1>4. ASSUME NEW i \in s PROVE i <= m
  <2>1. ~(n - i < n - m)
    BY <1>2, <1>3
  <2> QED BY <2>1
<1>5. QED BY <1>4

\* Ranks are the numbers up to the size of the set, the greatest element's is the
\* size; a greater element that joins changes none.
LEMMA RankFacts ==
  ASSUME NEW n \in Nat, NEW s, \A i \in s : i \in Nat /\ i <= n, NEW p \in Nat, n < p
  PROVE  /\ \A i \in s : Rank(i, s) \in 1 .. Cardinality(s)
         /\ \A i, j \in s : i < j => Rank(i, s) < Cardinality(s)
         /\ \A i \in s : (\A j \in s : j <= i) => Rank(i, s) = Cardinality(s)
         /\ \A i \in s : Rank(i, s \cup {p}) = Rank(i, s)
         /\ Rank(p, s \cup {p}) = Cardinality(s) + 1
         /\ Cardinality(s \cup {p}) = Cardinality(s) + 1
<1> DEFINE upto(i) == {j \in s : j <= i}
<1>1. IsFiniteSet(s) /\ Cardinality(s) \in Nat
  BY UpToFinite
<1>2. ASSUME NEW i \in s
      PROVE  /\ IsFiniteSet(upto(i)) /\ Cardinality(upto(i)) \in 1 .. Cardinality(s)
             /\ Cardinality(upto(i)) = Cardinality(s) => upto(i) = s
  <2>1. upto(i) \in SUBSET s /\ upto(i) # {}
    BY <1>2
  <2>2. IsFiniteSet(upto(i)) /\ Cardinality(upto(i)) <= Cardinality(s)
        /\ (Cardinality(s) = Cardinality(upto(i)) => s = upto(i))
    <3> HIDE DEF upto
    <3> QED BY <1>1, <2>1, FS_Subset
  <2>3. Cardinality(upto(i)) # 0 /\ Cardinality(upto(i)) \in Nat
    <3> HIDE DEF upto
    <3> QED BY <2>1, <2>2, FS_EmptySet, FS_CardinalityType
  <2> HIDE DEF upto
  <2> QED BY <1>1, <2>2, <2>3
<1>3. \A i \in s : Rank(i, s) = Cardinality(upto(i))
  BY DEF Rank
<1>4. ASSUME NEW i \in s, NEW j \in s, i < j PROVE Rank(i, s) < Cardinality(s)
  <2>1. j \notin upto(i)
    BY <1>4
  <2> HIDE DEF upto
  <2> QED BY <1>1, <1>2, <1>3, <2>1
<1>5. ASSUME NEW i \in s, \A j \in s : j <= i PROVE Rank(i, s) = Cardinality(s)
  <2>1. upto(i) = s
    BY <1>5
  <2> QED BY <1>3, <2>1
<1>6. ASSUME NEW i \in s PROVE Rank(i, s \cup {p}) = Rank(i, s)
  <2>1. {j \in s \cup {p} : j <= i} = {j \in s : j <= i}
    BY <1>6
  <2> QED BY <2>1 DEF Rank
<1>7. p \notin s
  OBVIOUS
<1>8. Cardinality(s \cup {p}) = Cardinality(s) + 1
  BY <1>1, <1>7, FS_AddElement
<1>9. {j \in s \cup {p} : j <= p} = s \cup {p}
  OBVIOUS
<1>10. Rank(p, s \cup {p}) = Cardinality(s) + 1
  BY <1>8, <1>9 DEF Rank
<1> HIDE DEF upto
<1>11. \A i \in s : Rank(i, s) \in 1 .. Cardinality(s)
  BY <1>2, <1>3
<1>12. QED BY <1>4, <1>5, <1>6, <1>8, <1>10, <1>11

\* The function of a position counts the interfaces of video control.
LEMMA FunctionFacts ==
  ASSUME NEW d \in Seq(Descriptors)
  PROVE  /\ \A i \in Nat : Function(d, i) \in Nat
         /\ Function(d, 0) = 0
         /\ \A i, j \in Nat : i <= j => Function(d, i) <= Function(d, j)
         /\ \A i, j \in Nat : \A v \in Positions(d, "vc") :
              i < v /\ v <= j => Function(d, i) < Function(d, j)
         /\ \A i, j \in Nat : i <= j /\ ~(\E v \in Positions(d, "vc") : i < v /\ v <= j)
              => Function(d, i) = Function(d, j)
         /\ \A i \in Nat : i + 1 \in Positions(d, "vc") => Function(d, i + 1) = Function(d, i) + 1
<1> DEFINE vcs(i) == {j \in Positions(d, "vc") : j <= i}
<1>1. Positions(d, "vc") \subseteq Nat \ {0}
  BY DEF Positions
<1>2. ASSUME NEW i \in Nat PROVE IsFiniteSet(vcs(i)) /\ Cardinality(vcs(i)) \in Nat
  BY <1>1, UpToFinite
<1>3. \A i : Function(d, i) = Cardinality(vcs(i))
  BY DEF Function
<1>4. ASSUME NEW i \in Nat, NEW j \in Nat, i <= j
      PROVE  /\ Cardinality(vcs(i)) <= Cardinality(vcs(j))
             /\ Cardinality(vcs(i)) = Cardinality(vcs(j)) => vcs(i) = vcs(j)
  <2>1. vcs(i) \in SUBSET vcs(j)
    BY <1>1, <1>4
  <2> HIDE DEF vcs
  <2> QED BY <1>2, <2>1, FS_Subset
<1>5. vcs(0) = {}
  BY <1>1
<1>6. ASSUME NEW i \in Nat, NEW j \in Nat, NEW v \in Positions(d, "vc"), i < v, v <= j
      PROVE  Cardinality(vcs(i)) < Cardinality(vcs(j))
  <2>1. v \in vcs(j) /\ v \notin vcs(i) /\ i <= j
    BY <1>1, <1>6
  <2> HIDE DEF vcs
  <2> QED BY <1>2, <1>4, <2>1
<1>7. ASSUME NEW i \in Nat, NEW j \in Nat, i <= j,
             ~(\E v \in Positions(d, "vc") : i < v /\ v <= j)
      PROVE  vcs(i) = vcs(j)
  BY <1>1, <1>7
<1>8. ASSUME NEW i \in Nat, i + 1 \in Positions(d, "vc")
      PROVE  Cardinality(vcs(i + 1)) = Cardinality(vcs(i)) + 1
  <2>1. vcs(i + 1) = vcs(i) \cup {i + 1} /\ i + 1 \notin vcs(i)
    BY <1>1, <1>8
  <2> HIDE DEF vcs
  <2> QED BY <1>2, <2>1, FS_AddElement
<1>9. Cardinality(vcs(0)) = 0
  BY <1>5, FS_EmptySet
<1> HIDE DEF vcs
<1>10. /\ \A i \in Nat : Function(d, i) \in Nat
       /\ Function(d, 0) = 0
       /\ \A i, j \in Nat : i <= j => Function(d, i) <= Function(d, j)
  BY <1>2, <1>3, <1>4, <1>9
<1>11. \A i, j \in Nat : \A v \in Positions(d, "vc") :
         i < v /\ v <= j => Function(d, i) < Function(d, j)
  BY <1>3, <1>6
<1>12. \A i, j \in Nat : i <= j /\ ~(\E v \in Positions(d, "vc") : i < v /\ v <= j)
         => Function(d, i) = Function(d, j)
  BY <1>3, <1>7
<1>13. \A i \in Nat : i + 1 \in Positions(d, "vc") => Function(d, i + 1) = Function(d, i) + 1
  BY <1>3, <1>8
<1> QED BY <1>10, <1>11, <1>12, <1>13

-----------------------------------------------------------------------------
(* What the next position adds *)

\* Positions are numbers, of the descriptors' kind.
LEMMA OfRange ==
  ASSUME NEW d \in Seq(Descriptors), NEW k, NEW c, NEW n \in Nat
  PROVE  /\ \A i \in Of(d, k, c, n) : /\ i \in Nat \ {0} /\ i <= n /\ i \in DOMAIN d /\ d[i].kind = k
                                      /\ Function(d, i) = c /\ Live(d, i)
         /\ \A i : FramesOf(d, i, c, n) \subseteq Of(d, "frame", c, n)
  BY DEF Of, Positions, FramesOf

\* One position of at most one kind and one function comes with the next descriptor.
LEMMA OfStep ==
  ASSUME NEW d \in Seq(Descriptors), NEW n \in Nat, n + 1 \in DOMAIN d, NEW k, NEW c
  PROVE  Of(d, k, c, n + 1) =
           IF d[n + 1].kind = k /\ Function(d, n + 1) = c /\ Live(d, n + 1)
             THEN Of(d, k, c, n) \cup {n + 1} ELSE Of(d, k, c, n)
<1>1. Positions(d, k) \subseteq Nat /\ (n + 1 \in Positions(d, k) <=> d[n + 1].kind = k)
  BY DEF Positions
<1>2. \A i \in Positions(d, k) : i <= n + 1 <=> i <= n \/ i = n + 1
  BY <1>1
<1>3. ~(n + 1 <= n)
  OBVIOUS
<1>4. QED BY <1>1, <1>2, <1>3 DEF Of

\* A frame of the last format comes with the next descriptor, or none.
LEMMA FramesStep ==
  ASSUME NEW d \in Seq(Descriptors), NEW n \in Nat, n + 1 \in DOMAIN d, NEW i \in Nat, NEW c
  PROVE  FramesOf(d, i, c, n + 1) =
           IF /\ d[n + 1].kind = "frame" /\ Function(d, n + 1) = c /\ Live(d, n + 1)
              /\ i < n + 1 /\ ~\E g \in Positions(d, "format") : i < g /\ g < n + 1
             THEN FramesOf(d, i, c, n) \cup {n + 1} ELSE FramesOf(d, i, c, n)
<1>1. CASE d[n + 1].kind = "frame" /\ Function(d, n + 1) = c /\ Live(d, n + 1)
  <2>1. Of(d, "frame", c, n + 1) = Of(d, "frame", c, n) \cup {n + 1}
    BY <1>1, OfStep
  <2> QED BY <1>1, <2>1 DEF FramesOf
<1>2. CASE ~(d[n + 1].kind = "frame" /\ Function(d, n + 1) = c /\ Live(d, n + 1))
  <2>1. Of(d, "frame", c, n + 1) = Of(d, "frame", c, n)
    BY <1>2, OfStep
  <2> QED BY <1>2, <2>1 DEF FramesOf
<1>3. QED BY <1>1, <1>2

\* A length of zero was met, and no interface of video control or streaming since.
SkipsAt(d, n) ==
  \E z \in Positions(d, "zero") : z <= n /\ \A j \in z .. n : d[j].kind \notin {"vc", "vs"}

\* Whether descriptors are skipped, by one descriptor more.
LEMMA SkipStep ==
  ASSUME NEW d \in Seq(Descriptors), NEW n \in Nat, n + 1 \in DOMAIN d
  PROVE  SkipsAt(d, n + 1) <=>
           d[n + 1].kind \notin {"vc", "vs"} /\ (d[n + 1].kind = "zero" \/ SkipsAt(d, n))
<1>1. Positions(d, "zero") \subseteq Nat
  BY DEF Positions
<1>2. ASSUME SkipsAt(d, n + 1)
      PROVE  d[n + 1].kind \notin {"vc", "vs"} /\ (d[n + 1].kind = "zero" \/ SkipsAt(d, n))
  <2>1. PICK z \in Positions(d, "zero") :
          z <= n + 1 /\ \A j \in z .. n + 1 : d[j].kind \notin {"vc", "vs"}
    BY <1>2 DEF SkipsAt
  <2>2. n + 1 \in z .. n + 1
    BY <1>1, <2>1
  <2>3. CASE z = n + 1
    BY <2>1, <2>2, <2>3 DEF Positions
  <2>4. CASE z # n + 1
    <3>1. z <= n /\ \A j \in z .. n : j \in z .. n + 1
      BY <1>1, <2>1, <2>4
    <3> QED BY <2>1, <2>2, <3>1 DEF SkipsAt
  <2> QED BY <2>3, <2>4
<1>3. ASSUME d[n + 1].kind = "zero" PROVE SkipsAt(d, n + 1)
  <2>1. n + 1 \in Positions(d, "zero") /\ \A j \in n + 1 .. n + 1 : j = n + 1
    BY <1>3 DEF Positions
  <2> QED BY <1>3, <2>1 DEF SkipsAt
<1>4. ASSUME d[n + 1].kind \notin {"vc", "vs"}, SkipsAt(d, n) PROVE SkipsAt(d, n + 1)
  <2>1. PICK z \in Positions(d, "zero") : z <= n /\ \A j \in z .. n : d[j].kind \notin {"vc", "vs"}
    BY <1>4 DEF SkipsAt
  <2>2. z <= n + 1 /\ \A j \in z .. n + 1 : j \in z .. n \/ j = n + 1
    BY <1>1, <2>1
  <2> QED BY <1>4, <2>1, <2>2 DEF SkipsAt
<1>5. QED BY <1>2, <1>3, <1>4

UnitKinds == {"camera", "processing", "extension"}

\* What is in an interface is read unless the flag is up; interfaces always are.
LEMMA LiveFacts ==
  ASSUME NEW d, WellFormed(d), NEW n \in Nat, n + 1 \in DOMAIN d
  PROVE  /\ d[n + 1].kind \in Headers => Live(d, n + 1)
         /\ d[n + 1].kind \in UnitKinds \cup {"format", "frame"} => (Live(d, n + 1) <=> ~SkipsAt(d, n))
<1>0. d \in Seq(Descriptors) /\ \A k : Positions(d, k) \subseteq Nat
  BY DEF WellFormed, Positions
<1>1. ASSUME d[n + 1].kind \in Headers PROVE Live(d, n + 1)
  <2>1. \A z \in Positions(d, "zero") : z < n + 1 => n + 1 \in z .. n + 1
    BY <1>0
  <2> QED BY <1>1, <2>1 DEF Live
<1>2. ASSUME d[n + 1].kind \in UnitKinds \cup {"format", "frame"} PROVE Live(d, n + 1) <=> ~SkipsAt(d, n)
  <2>1. PICK h \in Positions(d, "vc") \cup Positions(d, "vs") :
          h < n + 1 /\ \A j \in h + 1 .. n + 1 : d[j].kind \notin Headers
    BY <1>2 DEF WellFormed, Under, UnitKinds
  <2>2. h \in Nat /\ d[h].kind \in {"vc", "vs"}
    BY <1>0, <2>1 DEF Positions
  <2>3. ASSUME NEW z \in Positions(d, "zero"), z <= n, \A j \in z .. n : d[j].kind \notin {"vc", "vs"}
        PROVE  z < n + 1 /\ \A j \in z .. n + 1 : d[j].kind \notin Headers
    <3>1. z \in Nat /\ ~(h \in z .. n)
      BY <1>0, <2>2, <2>3
    <3>2. \A j \in z .. n + 1 : j \in h + 1 .. n + 1
      BY <2>1, <2>2, <2>3, <3>1
    <3> QED BY <2>1, <2>3, <3>1, <3>2
  <2>4. ASSUME NEW z \in Positions(d, "zero"), z < n + 1, \A j \in z .. n + 1 : d[j].kind \notin Headers
        PROVE  z <= n /\ \A j \in z .. n : d[j].kind \notin {"vc", "vs"}
    <3>1. z \in Nat /\ \A j \in z .. n : j \in z .. n + 1
      BY <1>0
    <3> QED BY <2>4, <3>1 DEF Headers
  <2> QED BY <2>3, <2>4 DEF Live, SkipsAt
<1>3. QED BY <1>1, <1>2

\* An interface of video control opens a function that has nothing yet.
LEMMA FreshFunction ==
  ASSUME NEW d \in Seq(Descriptors), NEW n \in Nat, n + 1 \in Positions(d, "vc"), NEW k
  PROVE  Of(d, k, Function(d, n + 1), n) = {}
<1>1. Function(d, n + 1) = Function(d, n) + 1 /\ Function(d, n) \in Nat
  BY FunctionFacts
<1>2. \A i \in Of(d, k, Function(d, n + 1), n) : Function(d, i) <= Function(d, n)
  BY FunctionFacts, OfRange
<1>3. \A i \in Of(d, k, Function(d, n + 1), n) : Function(d, i) = Function(d, n + 1)
  BY OfRange
<1>4. QED BY <1>1, <1>2, <1>3

\* A function has one table of formats.
LEMMA OneTable ==
  ASSUME NEW d, WellFormed(d), NEW a \in Positions(d, "vs"), NEW b \in Positions(d, "vs"),
         Function(d, a) = Function(d, b)
  PROVE  a = b
<1>0. d \in Seq(Descriptors) /\ a \in Nat /\ b \in Nat
  BY DEF WellFormed, Positions
<1>1. ASSUME NEW x \in Positions(d, "vs"), NEW y \in Positions(d, "vs"), x < y
      PROVE  Function(d, x) < Function(d, y)
  <2>1. PICK v \in Positions(d, "vc") : x < v /\ v < y
    BY <1>1 DEF WellFormed
  <2>2. x \in Nat /\ y \in Nat /\ v \in Nat
    BY <1>0 DEF Positions
  <2>3. v <= y
    BY <2>1, <2>2
  <2> QED BY <1>0, <2>1, <2>2, <2>3, FunctionFacts
<1>2. Function(d, a) \in Nat /\ Function(d, b) \in Nat
  BY <1>0, FunctionFacts
<1>3. QED BY <1>0, <1>1, <1>2

\* Formats and frames come after the table of their function, and no header
\* between.
LEMMA TableOf ==
  ASSUME NEW d, WellFormed(d), NEW i \in DOMAIN d, d[i].kind \in {"format", "frame"}
  PROVE  \E h \in Positions(d, "vs") :
           /\ h < i /\ Function(d, h) = Function(d, i)
           /\ \A j \in h + 1 .. i : d[j].kind \notin Headers
<1>0. d \in Seq(Descriptors) /\ i \in Nat
  BY DEF WellFormed
<1>1. PICK h \in Positions(d, "vs") : h < i /\ \A j \in h + 1 .. i : d[j].kind \notin Headers
  BY DEF WellFormed, Under
<1>2. h \in Nat /\ h <= i
  BY <1>0, <1>1 DEF Positions
<1>3. ASSUME NEW v \in Positions(d, "vc"), h < v, v <= i PROVE FALSE
  <2>1. v \in h + 1 .. i
    BY <1>0, <1>2, <1>3 DEF Positions
  <2> QED BY <1>1, <2>1 DEF Positions, Headers
<1>4. Function(d, h) = Function(d, i)
  BY <1>0, <1>2, <1>3, FunctionFacts
<1>5. QED BY <1>1, <1>4

\* What has a function comes after its interface of video control.
LEMMA HasFunction ==
  ASSUME NEW d, WellFormed(d), NEW i \in DOMAIN d,
         d[i].kind \in UnitKinds \cup {"format", "frame", "vs", "endpoint", "alt"}
  PROVE  Function(d, i) >= 1
<1>0. d \in Seq(Descriptors) /\ i \in Nat
  BY DEF WellFormed
<1>1. ASSUME NEW v \in Positions(d, "vc"), v < i PROVE Function(d, i) >= 1
  <2>1. v \in Nat /\ 0 < v /\ v <= i
    BY <1>0, <1>1 DEF Positions
  <2>2. Function(d, 0) < Function(d, i) /\ Function(d, 0) = 0 /\ Function(d, i) \in Nat
    BY <1>0, <2>1, FunctionFacts
  <2> QED BY <2>2
<1>2. CASE d[i].kind \in UnitKinds
  BY <1>1, <1>2 DEF WellFormed, Under, UnitKinds
<1>3. CASE d[i].kind \in {"vs", "endpoint", "alt"}
  BY <1>1, <1>3 DEF WellFormed
<1>4. CASE d[i].kind \in {"format", "frame"}
  <2>1. PICK h \in Positions(d, "vs") : h < i
    BY <1>4, TableOf
  <2>2. h \in DOMAIN d /\ h \in Nat /\ d[h].kind = "vs"
    BY <1>0, <2>1 DEF Positions
  <2>3. PICK v \in Positions(d, "vc") : v < h
    BY <2>2 DEF WellFormed
  <2>4. v \in Nat /\ v < i
    BY <1>0, <2>1, <2>2, <2>3 DEF Positions
  <2> QED BY <1>1, <2>4
<1>5. QED BY <1>2, <1>3, <1>4

\* A table that begins has no formats yet.
LEMMA FreshTable ==
  ASSUME NEW d, WellFormed(d), NEW n \in Nat, n + 1 \in Positions(d, "vs")
  PROVE  Of(d, "format", Function(d, n + 1), n) = {}
<1>0. d \in Seq(Descriptors)
  BY DEF WellFormed
<1>1. SUFFICES ASSUME NEW i \in Of(d, "format", Function(d, n + 1), n) PROVE FALSE
  OBVIOUS
<1>2. /\ i \in Nat /\ i <= n /\ i \in DOMAIN d /\ d[i].kind = "format"
      /\ Function(d, i) = Function(d, n + 1)
  BY <1>0, <1>1, OfRange
<1>3. PICK h \in Positions(d, "vs") : h < i /\ Function(d, h) = Function(d, i)
  BY <1>2, TableOf
<1>4. h = n + 1
  BY <1>2, <1>3, OneTable
<1>5. QED BY <1>2, <1>3, <1>4

\* A frame that is read belongs to the last format that was read: the formats
\* that were skipped are followed by what is skipped.
LEMMA FrameOfLast ==
  ASSUME NEW d, WellFormed(d), NEW n \in Nat, n + 1 \in Positions(d, "frame"), Live(d, n + 1),
         NEW c, Function(d, n + 1) = c, NEW i \in Of(d, "format", c, n),
         \A j \in Of(d, "format", c, n) : j <= i
  PROVE  ~\E g \in Positions(d, "format") : i < g /\ g < n + 1
<1>0. d \in Seq(Descriptors) /\ \A k : Positions(d, k) \subseteq Nat
  BY DEF WellFormed, Positions
<1>1. SUFFICES ASSUME NEW g \in Positions(d, "format"), i < g, g < n + 1 PROVE FALSE
  OBVIOUS
<1>2. /\ g \in Nat /\ g \in DOMAIN d /\ d[g].kind = "format" /\ g <= n
      /\ n + 1 \in DOMAIN d /\ d[n + 1].kind = "frame"
  BY <1>0, <1>1 DEF Positions
<1>3. i \in Nat /\ Function(d, i) = c
  BY <1>0, OfRange
<1>4. Function(d, g) = c
  <2>1. Function(d, i) <= Function(d, g) /\ Function(d, g) <= Function(d, n + 1)
    BY <1>0, <1>1, <1>2, <1>3, FunctionFacts
  <2>2. Function(d, i) \in Nat /\ Function(d, g) \in Nat
    BY <1>0, <1>2, <1>3, FunctionFacts
  <2> QED BY <1>3, <2>1, <2>2
<1>5. ~Live(d, g)
  <2>1. g \in Of(d, "format", c, n) => g <= i
    OBVIOUS
  <2> QED BY <1>1, <1>2, <1>3, <1>4, <2>1 DEF Of
<1>6. PICK z \in Positions(d, "zero") : z < g /\ \A j \in z .. g : d[j].kind \notin Headers
  BY <1>5 DEF Live
<1>7. PICK h \in Positions(d, "vs") : h < g /\ Function(d, h) = c
  BY <1>2, <1>4, TableOf
<1>8. PICK t \in Positions(d, "vs") :
        t < n + 1 /\ Function(d, t) = c /\ \A j \in t + 1 .. n + 1 : d[j].kind \notin Headers
  BY <1>2, TableOf
<1>9. t = h
  BY <1>7, <1>8, OneTable
<1>10. h \in Nat /\ z \in Nat /\ d[h].kind \in Headers
  BY <1>0, <1>7 DEF Positions, Headers
<1>11. h < z
  <2>1. h \notin z .. g
    BY <1>6, <1>10
  <2> QED BY <1>2, <1>7, <1>10, <2>1
<1>12. z < n + 1 /\ \A j \in z .. n + 1 : j \in t + 1 .. n + 1
  BY <1>2, <1>6, <1>9, <1>10, <1>11
<1>13. QED BY <1>6, <1>8, <1>12 DEF Live

-----------------------------------------------------------------------------
(* The tables of the channels *)

StoredFrames == {Unset} \cup [type : STRING, id : Nat, fri : Intervals]
OpenFormats == [type : STRING, id : Nat, frames : Seq(StoredFrames)]
StoredFormats == {Unset} \cup OpenFormats
Channels == [enabled : BOOLEAN, vcIf : Nat, camera : Nat, processing : Nat, extension : Seq(Nat),
             vsIf : Nat, formats : Seq(StoredFormats), bulk : BOOLEAN, alts : Seq(Nat)]
ChannelTables == [1 .. NumVidChannel -> Channels]
Chans == [next : Nat, cfg : Nat, format : Nat, frame : Nat, skip : BOOLEAN]

\* Tables w are v with record x for channel c.
TableSet(v, c, x, w) ==
  /\ w \in ChannelTables /\ w[c] = x
  /\ \A e \in 1 .. NumVidChannel : e # c => w[e] = v[e]

\* Record x has the fields of a, but for the formats.
OtherFields(a, x) ==
  /\ x.camera = a.camera /\ x.processing = a.processing /\ x.extension = a.extension
  /\ x.alts = a.alts /\ x.bulk = a.bulk

\* List s is f with e for its k-th value.
EntryIs(f, k, e, s) ==
  /\ Len(s) = Len(f) /\ s[k] = e
  /\ \A j \in 1 .. Len(f) : j # k => s[j] = f[j]

\* The counts after a format or a frame.
Counts(h, g, formats, frames) ==
  /\ g.next = h.next /\ g.cfg = h.cfg /\ g.format = formats /\ g.frame = frames
  /\ g.skip = h.skip

\* VideoDescribed, of the tables v.
Described(d, v, n) ==
  \A c \in 1 .. NumVidChannel :
    IF c <= Function(d, n) THEN ChannelDescribed(d, v[c], c, n) ELSE v[c] = NoChannel

\* The statics h count the formats, and the frames of the last format.
InTables(d, v, h, n) ==
  LET fs == Of(d, "format", h.cfg, n)
  IN  /\ h.format = Cardinality(fs)
      /\ \A i \in fs : (\A j \in fs : j <= i) =>
           /\ h.frame = Cardinality(FramesOf(d, i, h.cfg, n))
           /\ v[h.cfg].formats[h.format] \in OpenFormats

\* After n descriptors.
Walked(d, v, h, n) ==
  /\ Described(d, v, n)
  /\ h.cfg = Function(d, n) /\ h.next = h.cfg + 1 /\ h.cfg <= NumVidChannel
  /\ h.skip <=> SkipsAt(d, n)
  /\ \A t \in Positions(d, "vs") : t <= n /\ Function(d, t) = h.cfg => InTables(d, v, h, n)

\* What is described only asks for some kinds.
Kinds == UnitKinds \cup {"format", "frame", "endpoint", "alt"}
SameKinds(d, c, n) == \A k \in Kinds : Of(d, k, c, n + 1) = Of(d, k, c, n)

\* Without a new frame the frames of a format stay.
LEMMA FramesSame ==
  ASSUME NEW d, NEW c, NEW n, Of(d, "frame", c, n + 1) = Of(d, "frame", c, n)
  PROVE  \A i : FramesOf(d, i, c, n + 1) = FramesOf(d, i, c, n)
  BY DEF FramesOf

\* Without a new format or frame the table of formats stays described.
LEMMA FormatsSame ==
  ASSUME NEW d, NEW c, NEW n, NEW list, Of(d, "frame", c, n + 1) = Of(d, "frame", c, n),
         Of(d, "format", c, n + 1) = Of(d, "format", c, n), FormatsDescribed(d, list, c, n)
  PROVE  FormatsDescribed(d, list, c, n + 1)
<1>1. \A i : FramesOf(d, i, c, n + 1) = FramesOf(d, i, c, n)
  BY FramesSame
<1>2. \A i, s : FormatDescribed(d, s, i, c, n + 1) <=> FormatDescribed(d, s, i, c, n)
  BY <1>1 DEF FormatDescribed
<1>3. QED BY <1>2 DEF FormatsDescribed

\* A record stays described by a descriptor that adds nothing to its function.
LEMMA SameDescribed ==
  ASSUME NEW d, NEW c, NEW n, NEW v, SameKinds(d, c, n), ChannelDescribed(d, v, c, n)
  PROVE  ChannelDescribed(d, v, c, n + 1)
<1>1. /\ Of(d, "camera", c, n + 1) = Of(d, "camera", c, n)
      /\ Of(d, "processing", c, n + 1) = Of(d, "processing", c, n)
      /\ Of(d, "extension", c, n + 1) = Of(d, "extension", c, n)
      /\ Of(d, "format", c, n + 1) = Of(d, "format", c, n)
      /\ Of(d, "frame", c, n + 1) = Of(d, "frame", c, n)
      /\ Of(d, "alt", c, n + 1) = Of(d, "alt", c, n)
      /\ Of(d, "endpoint", c, n + 1) = Of(d, "endpoint", c, n)
  BY DEF SameKinds, Kinds, UnitKinds
<1>2. FormatsDescribed(d, v.formats, c, n + 1)
  BY <1>1, FormatsSame DEF ChannelDescribed
<1>3. QED BY <1>1, <1>2 DEF ChannelDescribed

\* A descriptor belongs to one function, and is of one kind.
LEMMA OtherKinds ==
  ASSUME NEW d \in Seq(Descriptors), NEW n \in Nat, n + 1 \in DOMAIN d
  PROVE  /\ \A c : c # Function(d, n + 1) => SameKinds(d, c, n)
         /\ ~Live(d, n + 1) \/ d[n + 1].kind \notin Kinds => \A c : SameKinds(d, c, n)
         /\ \A c, k : k # d[n + 1].kind => Of(d, k, c, n + 1) = Of(d, k, c, n)
         /\ Live(d, n + 1) => Of(d, d[n + 1].kind, Function(d, n + 1), n + 1)
                                = Of(d, d[n + 1].kind, Function(d, n + 1), n) \cup {n + 1}
  BY OfStep DEF SameKinds

\* It is enough that the channel of the function is described.
LEMMA DescribedStep ==
  ASSUME NEW d \in Seq(Descriptors), NEW n \in Nat, n + 1 \in DOMAIN d, d[n + 1].kind # "vc",
         NEW v, NEW w, Described(d, v, n),
         NEW c, c = Function(d, n + 1), \A e \in 1 .. NumVidChannel : e # c => w[e] = v[e],
         c \in 1 .. NumVidChannel => ChannelDescribed(d, w[c], c, n + 1)
  PROVE  Described(d, w, n + 1)
<1>1. Function(d, n + 1) = Function(d, n) /\ Function(d, n) \in Nat
  <2>1. \A x \in Positions(d, "vc") : x \in Nat /\ x # n + 1
    BY DEF Positions
  <2>2. ~(\E x \in Positions(d, "vc") : n < x /\ x <= n + 1)
    BY <2>1
  <2> QED BY <2>2, FunctionFacts
<1>2. ASSUME NEW e \in 1 .. NumVidChannel
      PROVE  IF e <= Function(d, n + 1) THEN ChannelDescribed(d, w[e], e, n + 1) ELSE w[e] = NoChannel
  <2>1. CASE e = c
    BY <1>1, <1>2, <2>1
  <2>2. CASE e # c
    <3>1. SameKinds(d, e, n) /\ w[e] = v[e]
      BY <1>2, <2>2, OtherKinds
    <3>2. CASE e <= Function(d, n)
      <4>1. ChannelDescribed(d, v[e], e, n)
        BY <1>2, <3>2 DEF Described
      <4> QED BY <1>1, <3>1, <3>2, <4>1, SameDescribed
    <3>3. CASE ~(e <= Function(d, n))
      BY <1>1, <1>2, <3>1, <3>3 DEF Described
    <3> QED BY <3>2, <3>3
  <2> QED BY <2>1, <2>2
<1>3. QED BY <1>2 DEF Described

-----------------------------------------------------------------------------
(* The walk, descriptor by descriptor *)

\* Only a header of video control begins a new function.
LEMMA SameFunction ==
  ASSUME NEW d \in Seq(Descriptors), NEW n \in Nat, n + 1 \in DOMAIN d, d[n + 1].kind # "vc"
  PROVE  Function(d, n + 1) = Function(d, n) /\ Function(d, n) \in Nat
<1>1. \A x \in Positions(d, "vc") : x \in Nat /\ x # n + 1
  BY DEF Positions
<1>2. ~(\E x \in Positions(d, "vc") : n < x /\ x <= n + 1)
  BY <1>1
<1>3. QED BY <1>2, FunctionFacts

\* The counts of the tables stay when formats and frames do.
LEMMA TablesStay ==
  ASSUME NEW d \in Seq(Descriptors), NEW n \in Nat, n + 1 \in DOMAIN d, d[n + 1].kind # "vs",
         NEW v, NEW h, NEW w, NEW g, Walked(d, v, h, n),
         g.cfg = h.cfg, g.format = h.format, g.frame = h.frame,
         w[h.cfg].formats = v[h.cfg].formats,
         Of(d, "format", h.cfg, n + 1) = Of(d, "format", h.cfg, n),
         Of(d, "frame", h.cfg, n + 1) = Of(d, "frame", h.cfg, n)
  PROVE  \A t \in Positions(d, "vs") :
           t <= n + 1 /\ Function(d, t) = g.cfg => InTables(d, w, g, n + 1)
<1>1. SUFFICES ASSUME NEW t \in Positions(d, "vs"), t <= n + 1, Function(d, t) = h.cfg
               PROVE  InTables(d, w, g, n + 1)
  BY Zenon
<1>2. t \in Nat /\ t # n + 1
  BY DEF Positions
<1>3. InTables(d, v, h, n)
  BY <1>1, <1>2 DEF Walked
<1>4. \A i : FramesOf(d, i, h.cfg, n + 1) = FramesOf(d, i, h.cfg, n)
  BY FramesSame
<1>5. QED BY <1>3, <1>4 DEF InTables

\* A descriptor that tells nothing, or that is skipped.
LEMMA WalkQuiet ==
  ASSUME NEW d, WellFormed(d), NEW n \in Nat, n + 1 \in DOMAIN d, d[n + 1].kind \notin {"vc", "vs"},
         ~Live(d, n + 1) \/ d[n + 1].kind \notin Kinds,
         NEW v, NEW h, NEW g, Walked(d, v, h, n),
         g.next = h.next, g.cfg = h.cfg, g.format = h.format, g.frame = h.frame,
         g.skip <=> d[n + 1].kind = "zero" \/ h.skip
  PROVE  Walked(d, v, g, n + 1)
<1>1. d \in Seq(Descriptors)
  BY DEF WellFormed
<1>2. Function(d, n + 1) = Function(d, n) /\ Function(d, n) \in Nat /\ h.cfg = Function(d, n)
  BY <1>1, SameFunction DEF Walked
<1>3. \A c : SameKinds(d, c, n)
  BY <1>1, OtherKinds
<1>4. Described(d, v, n + 1)
  <2>1. ASSUME h.cfg \in 1 .. NumVidChannel PROVE ChannelDescribed(d, v[h.cfg], h.cfg, n + 1)
    <3>1. ChannelDescribed(d, v[h.cfg], h.cfg, n)
      BY <1>2, <2>1 DEF Walked, Described
    <3> QED BY <1>3, <3>1, SameDescribed
  <2> QED BY <1>1, <1>2, <2>1, DescribedStep DEF Walked
<1>5. g.skip <=> SkipsAt(d, n + 1)
  BY <1>1, SkipStep DEF Walked
<1>6. \A t \in Positions(d, "vs") :
        t <= n + 1 /\ Function(d, t) = g.cfg => InTables(d, v, g, n + 1)
  <2>1. /\ Of(d, "format", h.cfg, n + 1) = Of(d, "format", h.cfg, n)
        /\ Of(d, "frame", h.cfg, n + 1) = Of(d, "frame", h.cfg, n)
    BY <1>3 DEF SameKinds, Kinds
  <2> QED BY <1>1, <2>1, TablesStay
<1>7. QED BY <1>2, <1>4, <1>5, <1>6 DEF Walked

\* A descriptor whose value goes to the record of the channel.
LEMMA WalkOne ==
  ASSUME NEW d, WellFormed(d), NEW n \in Nat, n + 1 \in DOMAIN d,
         d[n + 1].kind \in UnitKinds \cup {"endpoint", "alt"},
         NEW v, NEW h, NEW w, Walked(d, v, h, n),
         \A e \in 1 .. NumVidChannel : e # h.cfg => w[e] = v[e],
         w[h.cfg].formats = v[h.cfg].formats,
         ChannelDescribed(d, w[h.cfg], h.cfg, n + 1)
  PROVE  Walked(d, w, h, n + 1)
<1>1. d \in Seq(Descriptors)
  BY DEF WellFormed
<1>2. Function(d, n + 1) = Function(d, n) /\ Function(d, n) \in Nat /\ h.cfg = Function(d, n)
  BY <1>1, SameFunction DEF Walked, UnitKinds
<1>3. Described(d, w, n + 1)
  BY <1>1, <1>2, DescribedStep DEF Walked, UnitKinds
<1>4. h.skip <=> SkipsAt(d, n + 1)
  BY <1>1, SkipStep DEF Walked, UnitKinds
<1>5. \A t \in Positions(d, "vs") :
        t <= n + 1 /\ Function(d, t) = h.cfg => InTables(d, w, h, n + 1)
  <2>1. /\ Of(d, "format", h.cfg, n + 1) = Of(d, "format", h.cfg, n)
        /\ Of(d, "frame", h.cfg, n + 1) = Of(d, "frame", h.cfg, n)
    BY <1>1, OtherKinds DEF UnitKinds
  <2> QED BY <1>1, <2>1, TablesStay DEF UnitKinds
<1>6. QED BY <1>2, <1>3, <1>4, <1>5 DEF Walked

\* The identifier of the descriptor that is read last.
LEMMA LastIdStep ==
  ASSUME NEW d, NEW n \in Nat, NEW s, \A i \in s : i \in Nat /\ i <= n, NEW id, id = d[n + 1].id
  PROVE  LastId(d, id, s \cup {n + 1})
  BY DEF LastId

\* Position p joins those of s, after them, which keep their places.
Joins(p, s, t) ==
  /\ \A i : i \in t <=> i \in s \/ i = p
  /\ Cardinality(t) = Cardinality(s) + 1 /\ Rank(p, t) = Cardinality(s) + 1
  /\ \A i \in s : Rank(i, s) \in 1 .. Cardinality(s) /\ Rank(i, t) = Rank(i, s)

\* A position after the others joins them as the last.
LEMMA JoinsLast ==
  ASSUME NEW n \in Nat, NEW s, \A i \in s : i \in Nat /\ i <= n, NEW t, t = s \cup {n + 1}
  PROVE  Joins(n + 1, s, t)
<1>1. n + 1 \in Nat /\ n < n + 1
  OBVIOUS
<1>2. /\ Cardinality(t) = Cardinality(s) + 1 /\ Rank(n + 1, t) = Cardinality(s) + 1
      /\ \A i \in s : Rank(i, s) \in 1 .. Cardinality(s)
      /\ \A i \in s : Rank(i, t) = Rank(i, s)
  BY <1>1, RankFacts
<1>3. QED BY <1>2 DEF Joins

\* The descriptor that is read comes last among those of its kind.
LEMMA RanksOf ==
  ASSUME NEW d \in Seq(Descriptors), NEW n \in Nat, n + 1 \in DOMAIN d, Live(d, n + 1),
         NEW k, k = d[n + 1].kind, NEW c, c = Function(d, n + 1),
         NEW s, s = Of(d, k, c, n), NEW t, t = Of(d, k, c, n + 1)
  PROVE  Joins(n + 1, s, t)
<1>1. t = s \cup {n + 1}
  BY OtherKinds
<1>2. \A i \in s : i \in Nat /\ i <= n
  BY OfRange
<1>3. QED BY <1>1, <1>2, JoinsLast

\* A value is appended to a list.
Longer(S, list, e, more) == list \in Seq(S) /\ e \in S /\ more = Append(list, e)

\* The value of the position that joins is appended.
LEMMA ListedStep ==
  ASSUME NEW S, NEW p, NEW s, NEW t, Joins(p, s, t), NEW f, DOMAIN f = s, NEW g, DOMAIN g = t,
         \A i \in s : g[i] = f[i], NEW list, NEW longer, Listed(list, f), Longer(S, list, g[p], longer)
  PROVE  Listed(longer, g)
<1>1. PICK m \in Nat : m = Len(list)
  BY LenProperties DEF Longer
<1>2. /\ m = Cardinality(s) /\ \A i \in s : list[Rank(i, s)] = f[i]
  BY <1>1 DEF Listed
<1>3. /\ \A i : i \in t <=> i \in s \/ i = p
      /\ Cardinality(t) = m + 1 /\ Rank(p, t) = m + 1
      /\ \A i \in s : Rank(i, s) \in 1 .. m /\ Rank(i, t) = Rank(i, s)
  BY <1>2 DEF Joins
<1>4. /\ Len(longer) = m + 1 /\ longer[m + 1] = g[p]
      /\ \A j \in 1 .. m : longer[j] = list[j]
  BY <1>1, AppendProperties DEF Longer
<1>5. ASSUME NEW i \in t PROVE longer[Rank(i, t)] = g[i]
  <2>1. CASE i = p
    BY <1>3, <1>4, <2>1
  <2>2. CASE i \in s
    <3>1. Rank(i, t) = Rank(i, s) /\ Rank(i, s) \in 1 .. m
      BY <1>3, <2>2
    <3> QED BY <1>2, <1>4, <2>2, <3>1
  <2> QED BY <1>3, <1>5, <2>1, <2>2
<1>6. Len(longer) = Cardinality(t)
  BY <1>3, <1>4
<1>7. QED BY <1>5, <1>6 DEF Listed

\* What the video parser takes from a descriptor.
LEMMA VideoDescriptors ==
  ASSUME NEW x \in Descriptors
  PROVE  /\ x.kind \in UnitKinds => x.id \in Nat
         /\ x.kind \in {"vc", "vs"} => x.if \in Nat
         /\ x.kind = "vs" => x.formats \in Nat
         /\ x.kind = "format" => x.type \in STRING /\ x.id \in Nat /\ x.frames \in Nat
         /\ x.kind = "frame" => x.type \in STRING /\ x.id \in Nat /\ x.fri \in Intervals
         /\ x.kind = "endpoint" => x.bulk \in BOOLEAN
         /\ x.kind = "alt" => x.size \in Nat
  BY DEF Descriptors, UnitKinds

\* A descriptor that is read belongs to the channel that is filled.
LEMMA ReadFacts ==
  ASSUME NEW d, WellFormed(d), NEW n \in Nat, n + 1 \in DOMAIN d, d[n + 1].kind \in Kinds \cup {"vs"},
         NEW v, NEW h, Walked(d, v, h, n), d[n + 1].kind \in {"endpoint", "alt", "vs"} \/ ~h.skip
  PROVE  /\ d \in Seq(Descriptors) /\ d[n + 1] \in Descriptors
         /\ h.cfg \in 1 .. NumVidChannel /\ Function(d, n + 1) = h.cfg /\ Live(d, n + 1)
         /\ ChannelDescribed(d, v[h.cfg], h.cfg, n)
<1>1. d \in Seq(Descriptors) /\ d[n + 1] \in Descriptors
  BY DEF WellFormed
<1>2. d[n + 1].kind # "vc"
  BY DEF Kinds, UnitKinds
<1>3. Function(d, n + 1) = h.cfg /\ h.cfg \in Nat /\ h.cfg <= NumVidChannel
  BY <1>1, <1>2, SameFunction DEF Walked
<1>4. Function(d, n + 1) >= 1
  BY HasFunction DEF Kinds
<1>5. Live(d, n + 1)
  BY LiveFacts DEF Walked, Kinds, Headers
<1>6. NumVidChannel \in Nat
  BY DescriptorAssumption
<1>7. h.cfg \in 1 .. NumVidChannel
  BY <1>3, <1>4, <1>6
<1>8. ChannelDescribed(d, v[h.cfg], h.cfg, n)
  <2>1. h.cfg <= Function(d, n)
    BY <1>3 DEF Walked
  <2> QED BY <1>7, <2>1 DEF Walked, Described
<1>9. QED BY <1>1, <1>3, <1>5, <1>7, <1>8

\* Record x is a with what descriptor y of kind k says.
OneField(k, a, y, x) ==
  /\ x.formats = a.formats
  /\ x.camera = IF k = "camera" THEN y.id ELSE a.camera
  /\ x.processing = IF k = "processing" THEN y.id ELSE a.processing
  /\ x.extension = IF k = "extension" THEN Append(a.extension, y.id) ELSE a.extension
  /\ x.alts = IF k = "alt" THEN Append(a.alts, y.size) ELSE a.alts
  /\ x.bulk <=> IF k = "endpoint" THEN a.bulk \/ y.bulk ELSE a.bulk

\* Units, endpoints and alternate settings: one field of the record is set.
LEMMA OneRead ==
  ASSUME NEW d, WellFormed(d), NEW n \in Nat, n + 1 \in DOMAIN d,
         NEW k \in UnitKinds \cup {"endpoint", "alt"}, d[n + 1].kind = k,
         NEW v \in ChannelTables, NEW h, Walked(d, v, h, n), k \in {"endpoint", "alt"} \/ ~h.skip,
         NEW c, c = h.cfg, NEW x \in Channels, NEW w, c \in 1 .. NumVidChannel => TableSet(v, c, x, w),
         OneField(k, v[c], d[n + 1], x)
  PROVE  w \in ChannelTables /\ Walked(d, w, h, n + 1)
<1>0. /\ x.formats = v[c].formats
      /\ IF k = "camera" THEN x.camera = d[n + 1].id ELSE x.camera = v[c].camera
      /\ IF k = "processing" THEN x.processing = d[n + 1].id ELSE x.processing = v[c].processing
      /\ x.extension = IF k = "extension" THEN Append(v[c].extension, d[n + 1].id) ELSE v[c].extension
      /\ x.alts = IF k = "alt" THEN Append(v[c].alts, d[n + 1].size) ELSE v[c].alts
      /\ x.bulk <=> IF k = "endpoint" THEN v[c].bulk \/ d[n + 1].bulk ELSE v[c].bulk
  BY DEF OneField
<1> USE <1>0
<1>1. /\ d \in Seq(Descriptors) /\ d[n + 1] \in Descriptors
      /\ c \in 1 .. NumVidChannel /\ Function(d, n + 1) = c /\ Live(d, n + 1)
      /\ ChannelDescribed(d, v[c], c, n)
  BY ReadFacts DEF Kinds
<1>2. v[c] \in Channels /\ w[c] = x /\ \A e \in 1 .. NumVidChannel : e # c => w[e] = v[e]
  BY <1>1 DEF ChannelTables, TableSet
<1>3. w \in ChannelTables
  BY <1>1 DEF TableSet
<1>4. /\ \A j : j # k => Of(d, j, c, n + 1) = Of(d, j, c, n)
      /\ Of(d, k, c, n + 1) = Of(d, k, c, n) \cup {n + 1}
  <2>1. /\ \A e, j : j # d[n + 1].kind => Of(d, j, e, n + 1) = Of(d, j, e, n)
        /\ Of(d, d[n + 1].kind, Function(d, n + 1), n + 1)
             = Of(d, d[n + 1].kind, Function(d, n + 1), n) \cup {n + 1}
    BY <1>1, OtherKinds
  <2> QED BY <1>1, <2>1
<1>5. \A j : \A i \in Of(d, j, c, n) : i \in Nat /\ i <= n
  BY <1>1, OfRange
<1>6. FormatsDescribed(d, x.formats, c, n + 1)
  <2>1. k # "frame" /\ k # "format"
    BY DEF UnitKinds
  <2> QED BY <1>1, <1>4, <2>1, FormatsSame DEF ChannelDescribed
<1>7. LastId(d, x.camera, Of(d, "camera", c, n + 1))
  <2>1. CASE k = "camera"
    <3>1. x.camera = d[n + 1].id /\ \A i \in Of(d, k, c, n) : i \in Nat /\ i <= n
      BY <1>5, <2>1
    <3>2. LastId(d, x.camera, Of(d, k, c, n) \cup {n + 1})
      BY <3>1, LastIdStep, Zenon
    <3> QED BY <1>4, <2>1, <3>2
  <2>2. CASE k # "camera"
    BY <1>1, <1>4, <2>2 DEF ChannelDescribed
  <2> QED BY <2>1, <2>2
<1>8. LastId(d, x.processing, Of(d, "processing", c, n + 1))
  <2>1. CASE k = "processing"
    <3>1. x.processing = d[n + 1].id /\ \A i \in Of(d, k, c, n) : i \in Nat /\ i <= n
      BY <1>5, <2>1
    <3>2. LastId(d, x.processing, Of(d, k, c, n) \cup {n + 1})
      BY <3>1, LastIdStep, Zenon
    <3> QED BY <1>4, <2>1, <3>2
  <2>2. CASE k # "processing"
    BY <1>1, <1>4, <2>2 DEF ChannelDescribed
  <2> QED BY <2>1, <2>2
<1>9. Listed(x.extension, [i \in Of(d, "extension", c, n + 1) |-> d[i].id])
  <2>1. CASE k = "extension"
    <3>1. PICK s, t, f, g : /\ s = Of(d, k, c, n) /\ t = Of(d, k, c, n + 1)
                            /\ f = [i \in s |-> d[i].id] /\ g = [i \in t |-> d[i].id]
      OBVIOUS
    <3>2. Joins(n + 1, s, t)
      <4>1. d \in Seq(Descriptors) /\ Live(d, n + 1) /\ k = d[n + 1].kind /\ c = Function(d, n + 1)
        BY <1>1
      <4> QED BY ONLY <3>1, <4>1, n \in Nat, n + 1 \in DOMAIN d, RanksOf
    <3>3. PICK l, m : l = v[c].extension /\ m = x.extension
      OBVIOUS
    <3>4. PICK e : e = d[n + 1].id
      OBVIOUS
    <3>5. e \in Nat /\ e = g[n + 1]
      BY <1>1, <2>1, <3>1, <3>2, <3>4, VideoDescriptors DEF Joins, UnitKinds
    <3>6. Listed(l, f) /\ Longer(Nat, l, g[n + 1], m)
      BY <1>1, <1>2, <2>1, <3>1, <3>3, <3>4, <3>5 DEF Channels, ChannelDescribed, Longer
    <3>7. DOMAIN f = s /\ DOMAIN g = t /\ \A i \in s : g[i] = f[i]
      BY <3>1, <3>2 DEF Joins
    <3>8. Listed(m, g)
      BY ONLY <3>2, <3>6, <3>7, ListedStep
    <3> QED BY <2>1, <3>1, <3>3, <3>8
  <2>2. CASE k # "extension"
    BY <1>1, <1>4, <2>2 DEF ChannelDescribed
  <2> QED BY <2>1, <2>2
<1>10. Listed(x.alts, [i \in Of(d, "alt", c, n + 1) |-> d[i].size])
  <2>1. CASE k = "alt"
    <3>1. PICK s, t, f, g : /\ s = Of(d, k, c, n) /\ t = Of(d, k, c, n + 1)
                            /\ f = [i \in s |-> d[i].size] /\ g = [i \in t |-> d[i].size]
      OBVIOUS
    <3>2. Joins(n + 1, s, t)
      <4>1. d \in Seq(Descriptors) /\ Live(d, n + 1) /\ k = d[n + 1].kind /\ c = Function(d, n + 1)
        BY <1>1
      <4> QED BY ONLY <3>1, <4>1, n \in Nat, n + 1 \in DOMAIN d, RanksOf
    <3>3. PICK l, m : l = v[c].alts /\ m = x.alts
      OBVIOUS
    <3>4. PICK e : e = d[n + 1].size
      OBVIOUS
    <3>5. e \in Nat /\ e = g[n + 1]
      BY <1>1, <2>1, <3>1, <3>2, <3>4, VideoDescriptors DEF Joins, UnitKinds
    <3>6. Listed(l, f) /\ Longer(Nat, l, g[n + 1], m)
      BY <1>1, <1>2, <2>1, <3>1, <3>3, <3>4, <3>5 DEF Channels, ChannelDescribed, Longer
    <3>7. DOMAIN f = s /\ DOMAIN g = t /\ \A i \in s : g[i] = f[i]
      BY <3>1, <3>2 DEF Joins
    <3>8. Listed(m, g)
      BY ONLY <3>2, <3>6, <3>7, ListedStep
    <3> QED BY <2>1, <3>1, <3>3, <3>8
  <2>2. CASE k # "alt"
    BY <1>1, <1>4, <2>2 DEF ChannelDescribed
  <2> QED BY <2>1, <2>2
<1>11. x.bulk <=> \E i \in Of(d, "endpoint", c, n + 1) : d[i].bulk
  <2>1. v[c].bulk <=> \E i \in Of(d, "endpoint", c, n) : d[i].bulk
    BY <1>1 DEF ChannelDescribed
  <2>2. CASE k = "endpoint"
    BY <1>4, <2>1, <2>2, Zenon
  <2>3. CASE k # "endpoint"
    BY <1>4, <2>1, <2>3, Zenon
  <2> QED BY <2>2, <2>3
<1>12. ChannelDescribed(d, x, c, n + 1)
  BY <1>6, <1>7, <1>8, <1>9, <1>10, <1>11, Zenon DEF ChannelDescribed
<1>13. Walked(d, w, h, n + 1)
  <2>1. /\ d[n + 1].kind \in UnitKinds \cup {"endpoint", "alt"}
        /\ \A e \in 1 .. NumVidChannel : e # h.cfg => w[e] = v[e]
        /\ w[h.cfg].formats = v[h.cfg].formats /\ ChannelDescribed(d, w[h.cfg], h.cfg, n + 1)
    BY <1>2, <1>12
  <2> QED BY <2>1, WalkOne, Zenon
<1>14. QED BY <1>3, <1>13

\* A channel without units, formats and settings.
Blank(x) ==
  /\ x \in Channels /\ x.camera = 0 /\ x.processing = 0 /\ x.extension = <<>>
  /\ x.formats = <<>> /\ x.alts = <<>> /\ x.bulk = FALSE

\* The record of a channel that is not in use describes nothing.
LEMMA NewChannel == Blank(NoChannel)
<1> DEFINE e == <<>>
<1>1. e \in Seq(Nat) /\ e \in Seq(StoredFormats)
  BY EmptySeq
<1>2. NoChannel = [enabled |-> FALSE, vcIf |-> 0, camera |-> 0, processing |-> 0, extension |-> e,
                   vsIf |-> 0, formats |-> e, bulk |-> FALSE, alts |-> e]
  BY DEF NoChannel
<1> HIDE DEF e
<1>3. NoChannel \in Channels
  BY <1>1, <1>2 DEF Channels
<1>4. /\ NoChannel.camera = 0 /\ NoChannel.processing = 0 /\ NoChannel.extension = e
      /\ NoChannel.formats = e /\ NoChannel.alts = e /\ NoChannel.bulk = FALSE
  BY <1>2
<1>5. QED BY <1>3, <1>4 DEF Blank, e

\* A table without formats.
LEMMA NoFormats ==
  ASSUME NEW d, NEW list, NEW c, NEW n, Of(d, "format", c, n) = {}, Len(list) \in Nat
  PROVE  FormatsDescribed(d, list, c, n) /\ Cardinality(Of(d, "format", c, n)) = 0
<1>1. Cardinality(Of(d, "format", c, n)) = 0
  BY FS_EmptySet, Zenon
<1>2. ~\E i \in Of(d, "format", c, n) : TRUE
  OBVIOUS
<1>3. 0 <= Len(list)
  OBVIOUS
<1>4. QED BY <1>1, <1>2, <1>3 DEF FormatsDescribed

\* An interface of video control begins the record of the next channel.
LEMMA VcRead ==
  ASSUME NEW d, WellFormed(d), NEW n \in Nat, n + 1 \in DOMAIN d, d[n + 1].kind = "vc",
         NEW v \in ChannelTables, NEW h, Walked(d, v, h, n), NEW c, c = h.next, c <= NumVidChannel,
         NEW x, Blank(x), NEW w, c \in 1 .. NumVidChannel /\ v[c] = NoChannel => TableSet(v, c, x, w),
         NEW g, g.next = c + 1, g.cfg = c, ~g.skip
  PROVE  c \in 1 .. NumVidChannel /\ w \in ChannelTables /\ Walked(d, w, g, n + 1)
<1>1. d \in Seq(Descriptors) /\ d[n + 1] \in Descriptors /\ n + 1 \in Positions(d, "vc")
  BY DEF WellFormed, Positions
<1>2. Function(d, n + 1) = Function(d, n) + 1 /\ Function(d, n) \in Nat /\ c = Function(d, n + 1)
  BY <1>1, FunctionFacts DEF Walked
<1>3. c \in 1 .. NumVidChannel /\ v[c] = NoChannel
  <2>1. c \in 1 .. NumVidChannel /\ ~(c <= Function(d, n))
    BY <1>2, DescriptorAssumption
  <2> QED BY <2>1 DEF Walked, Described
<1>5. w \in ChannelTables /\ w[c] = x /\ \A e \in 1 .. NumVidChannel : e # c => w[e] = v[e]
  BY <1>3 DEF TableSet
<1>6. \A k : k # "vc" => Of(d, k, c, n + 1) = {}
  <2>1. ASSUME NEW k PROVE Of(d, k, c, n) = {}
    BY <1>1, <1>2, FreshFunction
  <2>2. \A k : k # "vc" => Of(d, k, c, n + 1) = Of(d, k, c, n)
    BY <1>1, OtherKinds
  <2> QED BY <2>1, <2>2
<1>7. ChannelDescribed(d, x, c, n + 1)
  <2>1. Len(<<>>) = 0 /\ Cardinality({}) = 0
    BY FS_EmptySet
  <2>2. /\ Of(d, "camera", c, n + 1) = {} /\ Of(d, "processing", c, n + 1) = {}
        /\ Of(d, "extension", c, n + 1) = {} /\ Of(d, "format", c, n + 1) = {}
        /\ Of(d, "alt", c, n + 1) = {} /\ Of(d, "endpoint", c, n + 1) = {}
    BY <1>6
  <2>3. LastId(d, 0, {})
    BY DEF LastId
  <2>4. Listed(<<>>, [i \in {} |-> d[i].id]) /\ Listed(<<>>, [i \in {} |-> d[i].size])
    BY <2>1 DEF Listed
  <2>5. FormatsDescribed(d, <<>>, c, n + 1)
    BY <2>1, <2>2, NoFormats
  <2> QED BY <2>2, <2>3, <2>4, <2>5 DEF ChannelDescribed, Blank
<1>8. ASSUME NEW e \in 1 .. NumVidChannel
      PROVE  IF e <= Function(d, n + 1) THEN ChannelDescribed(d, w[e], e, n + 1) ELSE w[e] = NoChannel
  <2>1. CASE e = c
    BY <1>2, <1>3, <1>5, <1>7, <2>1
  <2>2. CASE e # c
    <3>1. SameKinds(d, e, n) /\ w[e] = v[e]
      BY <1>1, <1>2, <1>5, <1>8, <2>2, OtherKinds
    <3>2. CASE e <= Function(d, n)
      <4>1. ChannelDescribed(d, v[e], e, n)
        BY <1>8, <3>2 DEF Walked, Described
      <4>2. e <= Function(d, n + 1)
        BY <1>2, <3>2
      <4> QED BY <3>1, <4>1, <4>2, SameDescribed
    <3>3. CASE ~(e <= Function(d, n))
      <4>1. v[e] = NoChannel
        BY <1>8, <3>3 DEF Walked, Described
      <4>2. ~(e <= Function(d, n + 1))
        BY <1>2, <1>8, <2>2, <3>3
      <4> QED BY <3>1, <4>1, <4>2
    <3> QED BY <3>2, <3>3
  <2> QED BY <2>1, <2>2
<1>9. Described(d, w, n + 1)
  BY <1>8 DEF Described
<1>10. ~SkipsAt(d, n + 1)
  BY <1>1, SkipStep
<1>11. ASSUME NEW t \in Positions(d, "vs"), t <= n + 1, Function(d, t) = c PROVE FALSE
  <2>1. t \in Nat /\ t <= n
    BY <1>1, <1>11 DEF Positions
  <2>2. Function(d, t) <= Function(d, n)
    BY <1>1, <2>1, FunctionFacts
  <2> QED BY <1>2, <1>11, <2>2
<1>12. Walked(d, w, g, n + 1)
  BY <1>2, <1>3, <1>9, <1>10, <1>11 DEF Walked
<1>13. QED BY <1>3, <1>5, <1>12

\* An interface of video streaming begins the table of formats of its channel.
LEMMA VsRead ==
  ASSUME NEW d, WellFormed(d), NEW n \in Nat, n + 1 \in DOMAIN d, d[n + 1].kind = "vs",
         NEW v \in ChannelTables, NEW h, Walked(d, v, h, n), NEW c, c = h.cfg,
         NEW x \in Channels, x.camera = v[c].camera, x.processing = v[c].processing,
         x.extension = v[c].extension, x.alts = v[c].alts, x.bulk = v[c].bulk,
         NEW w, c \in 1 .. NumVidChannel => TableSet(v, c, x, w),
         NEW g, g.next = h.next, g.cfg = c, g.format = 0, g.frame = 0, ~g.skip
  PROVE  c \in 1 .. NumVidChannel /\ w \in ChannelTables /\ Walked(d, w, g, n + 1)
<1>1. /\ d \in Seq(Descriptors) /\ d[n + 1] \in Descriptors
      /\ c \in 1 .. NumVidChannel /\ Function(d, n + 1) = c /\ Live(d, n + 1)
      /\ ChannelDescribed(d, v[c], c, n) /\ n + 1 \in Positions(d, "vs")
  BY ReadFacts DEF Positions
<1>2. v[c] \in Channels
  BY <1>1 DEF ChannelTables
<1>3. Len(x.formats) \in Nat
  BY LenProperties DEF Channels
<1>4. w \in ChannelTables /\ w[c] = x /\ \A e \in 1 .. NumVidChannel : e # c => w[e] = v[e]
  BY <1>1 DEF TableSet
<1>5. \A k : k # "vs" => Of(d, k, c, n + 1) = Of(d, k, c, n)
  BY <1>1, OtherKinds
<1>6. Of(d, "format", c, n + 1) = {} /\ Cardinality({}) = 0
  BY <1>1, <1>5, FreshTable, FS_EmptySet
<1>7. ChannelDescribed(d, x, c, n + 1)
  <2>1. FormatsDescribed(d, x.formats, c, n + 1)
    BY <1>3, <1>6, NoFormats
  <2>2. /\ Of(d, "camera", c, n + 1) = Of(d, "camera", c, n)
        /\ Of(d, "processing", c, n + 1) = Of(d, "processing", c, n)
        /\ Of(d, "extension", c, n + 1) = Of(d, "extension", c, n)
        /\ Of(d, "alt", c, n + 1) = Of(d, "alt", c, n)
        /\ Of(d, "endpoint", c, n + 1) = Of(d, "endpoint", c, n)
    BY <1>5
  <2> QED BY <1>1, <1>3, <2>1, <2>2 DEF ChannelDescribed
<1>8. Described(d, w, n + 1)
  <2>1. Described(d, v, n) /\ d[n + 1].kind # "vc"
    BY DEF Walked
  <2>2. c = Function(d, n + 1) /\ ChannelDescribed(d, w[c], c, n + 1)
    BY <1>1, <1>4, <1>7
  <2> QED BY <1>1, <1>4, <2>1, <2>2, DescribedStep
<1>9. ~SkipsAt(d, n + 1)
  BY <1>1, SkipStep
<1>10. InTables(d, w, g, n + 1)
  BY <1>6 DEF InTables
<1>11. Walked(d, w, g, n + 1)
  BY <1>1, <1>8, <1>9, <1>10 DEF Walked
<1>12. QED BY <1>1, <1>4, <1>11

\* The table of a format or a frame is the one that is filled.
LEMMA TableFacts ==
  ASSUME NEW d, WellFormed(d), NEW n \in Nat, n + 1 \in DOMAIN d, d[n + 1].kind \in {"format", "frame"},
         NEW v \in ChannelTables, NEW h, Walked(d, v, h, n), ~h.skip, NEW c, c = h.cfg
  PROVE  /\ d \in Seq(Descriptors) /\ d[n + 1] \in Descriptors
         /\ c \in 1 .. NumVidChannel /\ Function(d, n + 1) = c /\ Live(d, n + 1)
         /\ ChannelDescribed(d, v[c], c, n) /\ InTables(d, v, h, n)
         /\ v[c] \in Channels /\ v[c].formats \in Seq(StoredFormats) /\ Len(v[c].formats) \in Nat
         /\ h.format = Cardinality(Of(d, "format", c, n)) /\ h.format \in Nat
<1>1. /\ d \in Seq(Descriptors) /\ d[n + 1] \in Descriptors
      /\ c \in 1 .. NumVidChannel /\ Function(d, n + 1) = c /\ Live(d, n + 1)
      /\ ChannelDescribed(d, v[c], c, n)
  BY ReadFacts DEF Kinds
<1>2. PICK t \in Positions(d, "vs") : t < n + 1 /\ Function(d, t) = Function(d, n + 1)
  BY <1>1, TableOf
<1>3. InTables(d, v, h, n)
  <2>1. t \in Nat /\ t <= n
    BY <1>1, <1>2 DEF Positions
  <2> QED BY <1>1, <1>2, <2>1 DEF Walked
<1>4. v[c] \in Channels
  BY <1>1 DEF ChannelTables
<1>5. v[c].formats \in Seq(StoredFormats) /\ Len(v[c].formats) \in Nat
  BY <1>4, LenProperties DEF Channels
<1>6. h.format = Cardinality(Of(d, "format", c, n))
  BY <1>3 DEF InTables
<1>7. h.format \in Nat
  <2>1. \A i \in Of(d, "format", c, n) : i \in Nat /\ i <= n
    BY <1>1, OfRange
  <2> QED BY <1>6, <2>1, UpToFinite
<1>8. QED BY <1>1, <1>3, <1>4, <1>5, <1>6, <1>7

\* The other parts of a channel that gets formats or frames.
LEMMA OtherParts ==
  ASSUME NEW d \in Seq(Descriptors), NEW n \in Nat, n + 1 \in DOMAIN d,
         d[n + 1].kind \in {"format", "frame"},
         NEW c, NEW u, NEW x, ChannelDescribed(d, u, c, n), OtherFields(u, x),
         FormatsDescribed(d, x.formats, c, n + 1)
  PROVE  ChannelDescribed(d, x, c, n + 1)
<1>1. \A e, k : k # d[n + 1].kind => Of(d, k, e, n + 1) = Of(d, k, e, n)
  BY OtherKinds
<1>2. /\ Of(d, "camera", c, n + 1) = Of(d, "camera", c, n)
      /\ Of(d, "processing", c, n + 1) = Of(d, "processing", c, n)
      /\ Of(d, "extension", c, n + 1) = Of(d, "extension", c, n)
      /\ Of(d, "alt", c, n + 1) = Of(d, "alt", c, n)
      /\ Of(d, "endpoint", c, n + 1) = Of(d, "endpoint", c, n)
  BY <1>1
<1>3. QED BY <1>2 DEF ChannelDescribed, OtherFields

\* A format is described by another part of the walk when its frames are the same.
LEMMA FormatKept ==
  ASSUME NEW d, NEW c, NEW n, NEW i, NEW stored, FormatDescribed(d, stored, i, c, n),
         FramesOf(d, i, c, n + 1) = FramesOf(d, i, c, n)
  PROVE  FormatDescribed(d, stored, i, c, n + 1)
  BY DEF FormatDescribed

\* A format takes the next place of the table.
LEMMA FormatRead ==
  ASSUME NEW d, WellFormed(d), NEW n \in Nat, n + 1 \in DOMAIN d, d[n + 1].kind = "format",
         NEW v \in ChannelTables, NEW h, Walked(d, v, h, n), ~h.skip, NEW c, c = h.cfg,
         h.format < Len(v[c].formats),
         NEW r \in OpenFormats, r.id = d[n + 1].id, r.type = d[n + 1].type,
         NEW x, OtherFields(v[c], x), EntryIs(v[c].formats, h.format + 1, r, x.formats),
         NEW w, TableSet(v, c, x, w), NEW g, Counts(h, g, h.format + 1, 0)
  PROVE  Walked(d, w, g, n + 1)
<1> DEFINE s == Of(d, "format", c, n)
           t == Of(d, "format", c, n + 1)
<1>1. /\ d \in Seq(Descriptors) /\ d[n + 1] \in Descriptors
      /\ c \in 1 .. NumVidChannel /\ Function(d, n + 1) = c /\ Live(d, n + 1)
      /\ ChannelDescribed(d, v[c], c, n)
      /\ v[c].formats \in Seq(StoredFormats) /\ Len(v[c].formats) \in Nat
      /\ h.format = Cardinality(s) /\ h.format \in Nat
  BY TableFacts
<1>2. Joins(n + 1, s, t)
  <2>1. PICK k : k = "format"
    OBVIOUS
  <2>2. /\ d \in Seq(Descriptors) /\ n \in Nat /\ n + 1 \in DOMAIN d /\ Live(d, n + 1)
        /\ k = d[n + 1].kind /\ c = Function(d, n + 1) /\ s = Of(d, k, c, n) /\ t = Of(d, k, c, n + 1)
    BY <1>1, <2>1
  <2> HIDE DEF s, t
  <2> QED BY ONLY <2>2, RanksOf
<1>3. /\ Len(x.formats) = Len(v[c].formats) /\ x.formats[h.format + 1] = r
      /\ \A j \in 1 .. h.format : x.formats[j] = v[c].formats[j]
  BY <1>1 DEF EntryIs
<1>4. /\ g.next = h.next /\ g.cfg = c /\ g.format = h.format + 1 /\ g.frame = 0 /\ g.skip = h.skip
      /\ w[c] = x /\ \A e \in 1 .. NumVidChannel : e # c => w[e] = v[e]
  BY DEF Counts, TableSet
<1> USE <1>4, <1>3
<1>5. /\ \A i : i \in t <=> i \in s \/ i = n + 1
      /\ Cardinality(t) = Cardinality(s) + 1 /\ Rank(n + 1, t) = Cardinality(s) + 1
      /\ \A i \in s : Rank(i, s) \in 1 .. Cardinality(s) /\ Rank(i, t) = Rank(i, s)
  BY <1>2 DEF Joins
<1>6. \A i : FramesOf(d, i, c, n + 1) = FramesOf(d, i, c, n)
  <2>1. Of(d, "frame", c, n + 1) = Of(d, "frame", c, n)
    <3>1. \A e, k : k # d[n + 1].kind => Of(d, k, e, n + 1) = Of(d, k, e, n)
      BY <1>1, OtherKinds
    <3> QED BY <3>1
  <2> QED BY ONLY <2>1, FramesSame
<1>7. FramesOf(d, n + 1, c, n + 1) = {} /\ Cardinality(FramesOf(d, n + 1, c, n + 1)) = 0
  <2>1. \A f \in Of(d, "frame", c, n) : f \in Nat /\ f <= n
    BY <1>1, OfRange
  <2>2. FramesOf(d, n + 1, c, n) = {}
    BY <2>1 DEF FramesOf
  <2> QED BY <1>6, <2>2, FS_EmptySet, Zenon
<1>8. FormatsDescribed(d, v[c].formats, c, n)
  BY <1>1 DEF ChannelDescribed
<1>9. ASSUME NEW i \in t PROVE FormatDescribed(d, x.formats[Rank(i, t)], i, c, n + 1)
  <2>1. CASE i = n + 1
    <3>1. x.formats[Rank(i, t)] = r
      BY <1>1, <1>5, <2>1
    <3>2. 0 <= Len(r.frames)
      BY LenProperties DEF OpenFormats
    <3>3. ~\E f \in FramesOf(d, n + 1, c, n + 1) : TRUE
      BY <1>7
    <3> QED BY <1>7, <2>1, <3>1, <3>2, <3>3 DEF FormatDescribed
  <2>2. CASE i \in s
    <3>1. x.formats[Rank(i, t)] = v[c].formats[Rank(i, s)]
      BY <1>1, <1>5, <2>2
    <3>2. FormatDescribed(d, v[c].formats[Rank(i, s)], i, c, n)
      BY <1>8, <2>2 DEF FormatsDescribed
    <3> QED BY <1>6, <3>1, <3>2, FormatKept
  <2> QED BY <1>5, <1>9, <2>1, <2>2
<1>10. FormatsDescribed(d, x.formats, c, n + 1)
  <2>1. Cardinality(t) <= Len(x.formats)
    BY <1>1, <1>5
  <2> QED BY <1>9, <2>1 DEF FormatsDescribed
<1>11. ChannelDescribed(d, x, c, n + 1)
  BY <1>1, <1>10, OtherParts
<1>12. Described(d, w, n + 1)
  <2>1. /\ d \in Seq(Descriptors) /\ n \in Nat /\ n + 1 \in DOMAIN d /\ d[n + 1].kind # "vc"
        /\ Described(d, v, n) /\ c = Function(d, n + 1) /\ ChannelDescribed(d, w[c], c, n + 1)
        /\ \A e \in 1 .. NumVidChannel : e # c => w[e] = v[e]
    BY <1>1, <1>11 DEF Walked
  <2> QED BY ONLY <2>1, DescribedStep
<1>13. g.skip <=> SkipsAt(d, n + 1)
  BY <1>1, SkipStep DEF Walked
<1>14. InTables(d, w, g, n + 1)
  <2>1. g.format = Cardinality(t)
    BY <1>1, <1>5
  <2>2. ASSUME NEW i \in t, \A j \in t : j <= i PROVE i = n + 1
    <3>1. i \in Nat /\ i <= n + 1
      BY <1>1, OfRange
    <3>2. n + 1 \in t
      BY <1>5
    <3> QED BY <2>2, <3>1, <3>2
  <2>3. w[c].formats[g.format] \in OpenFormats
    OBVIOUS
  <2>4. ASSUME NEW i \in t, \A j \in t : j <= i
        PROVE  g.frame = Cardinality(FramesOf(d, i, c, n + 1))
    BY <1>7, <2>2, <2>4
  <2> QED BY <2>1, <2>3, <2>4 DEF InTables
<1>15. QED
  <2>1. Function(d, n + 1) = Function(d, n) /\ h.cfg = Function(d, n)
    BY <1>1, SameFunction DEF Walked
  <2> QED BY <1>12, <1>13, <1>14, <2>1 DEF Walked

\* The frame that is read joins those of the last format.
LEMMA LastFormat ==
  ASSUME NEW d, WellFormed(d), NEW n \in Nat, n + 1 \in DOMAIN d, d[n + 1].kind = "frame",
         NEW c, Function(d, n + 1) = c, Live(d, n + 1),
         NEW s, s = Of(d, "format", c, n), NEW o \in s, \A j \in s : j <= o
  PROVE  /\ Of(d, "format", c, n + 1) = s /\ Rank(o, s) = Cardinality(s)
         /\ Joins(n + 1, FramesOf(d, o, c, n), FramesOf(d, o, c, n + 1))
         /\ \A i \in s : i # o => /\ FramesOf(d, i, c, n + 1) = FramesOf(d, i, c, n)
                                  /\ Rank(i, s) \in 1 .. Cardinality(s) /\ Rank(i, s) # Cardinality(s)
<1>1. d \in Seq(Descriptors) /\ n + 1 \in Positions(d, "frame")
  BY DEF WellFormed, Positions
<1>2. \A i \in s : i \in Nat /\ i <= n /\ i \in Positions(d, "format")
  BY <1>1, OfRange DEF Positions
<1>3. ~\E f \in Positions(d, "format") : o < f /\ f < n + 1
  BY <1>1, FrameOfLast
<1>4. FramesOf(d, o, c, n + 1) = FramesOf(d, o, c, n) \cup {n + 1}
  <2>1. o \in Nat /\ o < n + 1
    BY <1>2
  <2> QED BY <1>1, <1>3, <2>1, FramesStep
<1>5. Joins(n + 1, FramesOf(d, o, c, n), FramesOf(d, o, c, n + 1))
  <2>1. \A i \in FramesOf(d, o, c, n) : i \in Nat /\ i <= n
    <3>1. FramesOf(d, o, c, n) \subseteq Of(d, "frame", c, n)
      BY DEF FramesOf
    <3>2. \A i \in Of(d, "frame", c, n) : i \in Nat /\ i <= n
      BY <1>1, OfRange
    <3> QED BY <3>1, <3>2
  <2> QED BY <1>4, <2>1, JoinsLast
<1>6. Of(d, "format", c, n + 1) = s
  <2>1. \A e, k : k # d[n + 1].kind => Of(d, k, e, n + 1) = Of(d, k, e, n)
    BY <1>1, OtherKinds
  <2> QED BY <2>1
<1>7. ASSUME NEW i \in s, i # o PROVE FramesOf(d, i, c, n + 1) = FramesOf(d, i, c, n)
  <2>1. i \in Nat /\ o \in Positions(d, "format") /\ i < o /\ o < n + 1
    BY <1>2, <1>7
  <2> QED BY <1>1, <2>1, FramesStep
<1>8. /\ \A i \in s : Rank(i, s) \in 1 .. Cardinality(s)
      /\ \A i, j \in s : i < j => Rank(i, s) < Cardinality(s)
      /\ Rank(o, s) = Cardinality(s)
  <2>1. n + 1 \in Nat /\ n < n + 1
    OBVIOUS
  <2> QED BY <1>2, <2>1, RankFacts
<1>9. ASSUME NEW i \in s, i # o PROVE Rank(i, s) # Cardinality(s)
  <2>1. i < o
    BY <1>2, <1>9
  <2>2. Rank(i, s) < Cardinality(s) /\ Cardinality(s) \in Nat
    BY <1>2, <1>8, <2>1, UpToFinite
  <2> QED BY <1>8, <2>2
<1>10. QED BY <1>5, <1>6, <1>7, <1>8, <1>9

\* The table of frames with one more.
LEMMA FrameListed ==
  ASSUME NEW d, NEW n, NEW o, NEW c, NEW fm, FormatDescribed(d, fm, o, c, n),
         Joins(n + 1, FramesOf(d, o, c, n), FramesOf(d, o, c, n + 1)),
         NEW m \in Nat, m = Cardinality(FramesOf(d, o, c, n)), m < Len(fm.frames), Len(fm.frames) \in Nat,
         NEW r, r.id = fm.id, r.type = fm.type, Len(r.frames) = Len(fm.frames),
         FrameDescribed(r.frames[m + 1], d[n + 1]),
         \A j \in 1 .. m : r.frames[j] = fm.frames[j]
  PROVE  FormatDescribed(d, r, o, c, n + 1)
<1> DEFINE s == FramesOf(d, o, c, n)
           t == FramesOf(d, o, c, n + 1)
<1>1. /\ \A i : i \in t <=> i \in s \/ i = n + 1
      /\ Cardinality(t) = m + 1 /\ Rank(n + 1, t) = m + 1
      /\ \A i \in s : Rank(i, s) \in 1 .. m /\ Rank(i, t) = Rank(i, s)
  BY DEF Joins
<1>2. /\ fm.id = d[o].id /\ fm.type = d[o].type
      /\ \A f \in s : FrameDescribed(fm.frames[Rank(f, s)], d[f])
  BY DEF FormatDescribed
<1> HIDE DEF s, t
<1>3. ASSUME NEW f \in t PROVE FrameDescribed(r.frames[Rank(f, t)], d[f])
  <2>1. CASE f = n + 1
    BY <1>1, <2>1
  <2>2. CASE f \in s
    <3>1. Rank(f, t) = Rank(f, s) /\ Rank(f, s) \in 1 .. m
      BY <1>1, <2>2
    <3>2. r.frames[Rank(f, t)] = fm.frames[Rank(f, s)]
      BY <3>1
    <3> QED BY <1>2, <2>2, <3>2
  <2> QED BY <1>1, <1>3, <2>1, <2>2
<1>4. Cardinality(t) <= Len(r.frames)
  BY <1>1
<1>5. QED BY <1>2, <1>3, <1>4 DEF FormatDescribed, t

\* A frame that is read comes after a format that was.
LEMMA HasFormat ==
  ASSUME NEW d, WellFormed(d), NEW n \in Nat, n + 1 \in DOMAIN d, d[n + 1].kind = "frame",
         Live(d, n + 1)
  PROVE  Of(d, "format", Function(d, n + 1), n) # {}
<1>0. d \in Seq(Descriptors) /\ \A k : Positions(d, k) \subseteq Nat
  BY DEF WellFormed, Positions
<1>1. PICK g \in Positions(d, "format") : g < n + 1 /\ \A j \in g + 1 .. n + 1 : d[j].kind \notin Headers
  BY DEF WellFormed, Under
<1>2. g \in Nat /\ g <= n /\ d[g].kind = "format"
  BY <1>0, <1>1 DEF Positions
<1>3. \A j \in g .. n + 1 : d[j].kind \notin Headers
  <2>1. \A j \in g .. n + 1 : j = g \/ j \in g + 1 .. n + 1
    BY <1>2
  <2> QED BY <1>1, <1>2, <2>1 DEF Headers
<1>4. Function(d, g) = Function(d, n + 1)
  <2>1. ASSUME NEW x \in Positions(d, "vc"), g < x, x <= n + 1 PROVE FALSE
    <3>1. x \in g .. n + 1 /\ d[x].kind = "vc"
      BY <1>0, <1>2, <2>1 DEF Positions
    <3> QED BY <1>3, <3>1 DEF Headers
  <2>2. PICK m \in Nat : m = n + 1
    OBVIOUS
  <2>3. g <= m /\ ~(\E x \in Positions(d, "vc") : g < x /\ x <= m)
    BY <1>2, <2>1, <2>2
  <2>4. Function(d, g) = Function(d, m)
    BY <1>0, <1>2, <2>3, FunctionFacts
  <2> QED BY <2>2, <2>4
<1>5. ASSUME NEW z \in Positions(d, "zero"), z < g, \A j \in z .. g : d[j].kind \notin Headers
      PROVE  FALSE
  <2>1. z \in Nat /\ \A j \in z .. n + 1 : j \in z .. g \/ j \in g .. n + 1
    BY <1>0, <1>2
  <2>2. z < n + 1 /\ \A j \in z .. n + 1 : d[j].kind \notin Headers
    BY <1>2, <1>3, <1>5, <2>1
  <2> QED BY <2>2 DEF Live
<1>6. Live(d, g)
  BY <1>5 DEF Live
<1> QED BY <1>1, <1>2, <1>4, <1>6 DEF Of

\* The format that frames are stored in.
LEMMA OpenFormat ==
  ASSUME NEW d, WellFormed(d), NEW n \in Nat, n + 1 \in DOMAIN d, d[n + 1].kind = "frame",
         NEW v \in ChannelTables, NEW h, Walked(d, v, h, n), ~h.skip, NEW c, c = h.cfg
  PROVE  h.format \in 1 .. Len(v[c].formats) /\ v[c].formats[h.format] \in OpenFormats
<1> DEFINE s == Of(d, "format", c, n)
<1>1. /\ d \in Seq(Descriptors) /\ ChannelDescribed(d, v[c], c, n) /\ InTables(d, v, h, n)
      /\ Len(v[c].formats) \in Nat /\ h.format = Cardinality(s) /\ h.format \in Nat
      /\ Function(d, n + 1) = c /\ Live(d, n + 1)
  BY TableFacts
<1>2. PICK o \in s : \A j \in s : j <= o
  <2>1. \A i \in s : i \in Nat /\ i <= n
    BY <1>1, OfRange
  <2>2. s # {}
    BY <1>1, HasFormat
  <2> HIDE DEF s
  <2> QED BY <2>1, <2>2, GreatestNat
<1>3. Cardinality(s) <= Len(v[c].formats)
  BY <1>1 DEF ChannelDescribed, FormatsDescribed
<1>4. h.format >= 1
  <2>1. Rank(o, s) = Cardinality(s) /\ Rank(o, s) \in 1 .. Cardinality(s)
    <3>1. \A i \in s : i \in Nat /\ i < n + 1
      BY <1>1, OfRange
    <3>2. n + 1 \in Nat
      OBVIOUS
    <3> HIDE DEF s
    <3> QED BY <1>2, <3>1, <3>2, RankFacts
  <2> QED BY <1>1, <2>1
<1>5. v[c].formats[h.format] \in OpenFormats
  BY <1>1, <1>2 DEF InTables
<1>6. QED BY <1>1, <1>3, <1>4, <1>5

\* A frame takes the next place of the last format.
LEMMA FrameRead ==
  ASSUME NEW d, WellFormed(d), NEW n \in Nat, n + 1 \in DOMAIN d, d[n + 1].kind = "frame",
         NEW v \in ChannelTables, NEW h, Walked(d, v, h, n), ~h.skip, NEW c, c = h.cfg,
         NEW fm, fm = v[c].formats[h.format], h.frame < Len(fm.frames),
         NEW y, FrameDescribed(y, d[n + 1]),
         NEW r \in OpenFormats, r.id = fm.id, r.type = fm.type,
         EntryIs(fm.frames, h.frame + 1, y, r.frames),
         NEW x, OtherFields(v[c], x), EntryIs(v[c].formats, h.format, r, x.formats),
         NEW w, TableSet(v, c, x, w), NEW g, Counts(h, g, h.format, h.frame + 1)
  PROVE  Walked(d, w, g, n + 1)
<1> DEFINE s == Of(d, "format", c, n)
<1>1. /\ d \in Seq(Descriptors) /\ d[n + 1] \in Descriptors
      /\ c \in 1 .. NumVidChannel /\ Function(d, n + 1) = c /\ Live(d, n + 1)
      /\ ChannelDescribed(d, v[c], c, n) /\ InTables(d, v, h, n)
      /\ v[c].formats \in Seq(StoredFormats) /\ Len(v[c].formats) \in Nat
      /\ h.format = Cardinality(s) /\ h.format \in Nat
  BY TableFacts
<1>2. /\ g.next = h.next /\ g.cfg = c /\ g.format = h.format /\ g.frame = h.frame + 1 /\ g.skip = h.skip
      /\ w[c] = x /\ \A e \in 1 .. NumVidChannel : e # c => w[e] = v[e]
  BY DEF Counts, TableSet
<1> USE <1>2
<1>3. PICK o \in s : \A j \in s : j <= o
  <2>1. \A i \in s : i \in Nat /\ i <= n
    BY <1>1, OfRange
  <2>2. s # {}
    BY <1>1, HasFormat
  <2> HIDE DEF s
  <2> QED BY <2>1, <2>2, GreatestNat
<1>4. h.frame = Cardinality(FramesOf(d, o, c, n)) /\ fm \in OpenFormats
  BY <1>1, <1>3 DEF InTables
<1>5. /\ Of(d, "format", c, n + 1) = s /\ Rank(o, s) = Cardinality(s)
      /\ Joins(n + 1, FramesOf(d, o, c, n), FramesOf(d, o, c, n + 1))
      /\ \A i \in s : i # o => /\ FramesOf(d, i, c, n + 1) = FramesOf(d, i, c, n)
                               /\ Rank(i, s) \in 1 .. Cardinality(s) /\ Rank(i, s) # Cardinality(s)
  <2>1. /\ WellFormed(d) /\ n \in Nat /\ n + 1 \in DOMAIN d /\ d[n + 1].kind = "frame"
        /\ Function(d, n + 1) = c /\ Live(d, n + 1) /\ s = Of(d, "format", c, n)
        /\ o \in s /\ \A j \in s : j <= o
    BY <1>1, <1>3
  <2> HIDE DEF s
  <2> QED BY ONLY <2>1, LastFormat
<1>6. Cardinality(s) <= Len(v[c].formats) /\ \A i \in s : FormatDescribed(d, v[c].formats[Rank(i, s)], i, c, n)
  BY <1>1 DEF ChannelDescribed, FormatsDescribed
<1>7. FormatDescribed(d, r, o, c, n + 1)
  <2>1. FormatDescribed(d, fm, o, c, n)
    BY <1>1, <1>3, <1>5, <1>6
  <2>2. h.frame \in Nat
    <3>1. FramesOf(d, o, c, n) \subseteq Of(d, "frame", c, n)
      BY DEF FramesOf
    <3>2. \A i \in Of(d, "frame", c, n) : i \in Nat /\ i <= n
      BY <1>1, OfRange
    <3>3. \A i \in FramesOf(d, o, c, n) : i \in Nat /\ i <= n
      BY <3>1, <3>2
    <3> QED BY <1>4, <3>3, UpToFinite
  <2>3. Len(fm.frames) \in Nat
    BY <1>4, LenProperties DEF OpenFormats
  <2>4. Len(r.frames) = Len(fm.frames) /\ r.id = fm.id /\ r.type = fm.type
    BY DEF EntryIs
  <2>5. /\ h.frame < Len(fm.frames) /\ FrameDescribed(r.frames[h.frame + 1], d[n + 1])
        /\ \A j \in 1 .. h.frame : r.frames[j] = fm.frames[j]
    <3>1. \A j \in 1 .. h.frame : j \in 1 .. Len(fm.frames) /\ j # h.frame + 1
      BY <2>2, <2>3
    <3>2. EntryIs(fm.frames, h.frame + 1, y, r.frames) /\ h.frame < Len(fm.frames) /\ FrameDescribed(y, d[n + 1])
      OBVIOUS
    <3> QED BY ONLY <3>1, <3>2 DEF EntryIs
  <2> QED BY ONLY <1>4, <1>5, <2>1, <2>2, <2>3, <2>4, <2>5, FrameListed
<1>8. ASSUME NEW i \in s PROVE FormatDescribed(d, x.formats[Rank(i, s)], i, c, n + 1)
  <2>1. CASE i = o
    BY <1>1, <1>5, <1>7, <2>1 DEF EntryIs
  <2>2. CASE i # o
    <3>1. /\ FramesOf(d, i, c, n + 1) = FramesOf(d, i, c, n)
          /\ Rank(i, s) \in 1 .. h.format /\ Rank(i, s) # h.format
      BY <1>1, <1>5, <1>8, <2>2
    <3>2. x.formats[Rank(i, s)] = v[c].formats[Rank(i, s)]
      <4>1. Rank(i, s) \in 1 .. Len(v[c].formats)
        BY <1>1, <1>6, <3>1
      <4> QED BY <3>1, <4>1 DEF EntryIs
    <3>3. FormatDescribed(d, v[c].formats[Rank(i, s)], i, c, n)
      BY <1>6, <1>8
    <3> QED BY <3>1, <3>2, <3>3, FormatKept
  <2> QED BY <2>1, <2>2
<1>9. FormatsDescribed(d, x.formats, c, n + 1)
  <2>1. Cardinality(s) <= Len(x.formats)
    BY <1>6 DEF EntryIs
  <2> QED BY <1>5, <1>8, <2>1 DEF FormatsDescribed
<1>10. ChannelDescribed(d, x, c, n + 1)
  BY <1>1, <1>9, OtherParts
<1>11. Described(d, w, n + 1)
  <2>1. /\ d \in Seq(Descriptors) /\ n \in Nat /\ n + 1 \in DOMAIN d /\ d[n + 1].kind # "vc"
        /\ Described(d, v, n) /\ c = Function(d, n + 1) /\ ChannelDescribed(d, w[c], c, n + 1)
        /\ \A e \in 1 .. NumVidChannel : e # c => w[e] = v[e]
    BY <1>1, <1>10 DEF Walked
  <2> QED BY ONLY <2>1, DescribedStep
<1>12. g.skip <=> SkipsAt(d, n + 1)
  BY <1>1, SkipStep DEF Walked
<1>13. InTables(d, w, g, n + 1)
  <2>1. g.format = Cardinality(Of(d, "format", c, n + 1)) /\ w[c].formats[g.format] \in OpenFormats
    BY <1>1, <1>5 DEF EntryIs
  <2>2. ASSUME NEW i \in s, \A j \in s : j <= i
        PROVE  g.frame = Cardinality(FramesOf(d, i, c, n + 1))
    <3>1. i = o
      <4>1. \A j \in s : j \in Nat
        BY <1>1, OfRange
      <4> QED BY <1>3, <2>2, <4>1
    <3>2. Cardinality(FramesOf(d, o, c, n + 1)) = h.frame + 1
      BY <1>4, <1>5 DEF Joins
    <3> QED BY <3>1, <3>2
  <2> QED BY <1>5, <2>1, <2>2 DEF InTables
<1>14. QED
  <2>1. Function(d, n + 1) = Function(d, n) /\ h.cfg = Function(d, n)
    BY <1>1, SameFunction DEF Walked
  <2> QED BY <1>11, <1>12, <1>13, <2>1 DEF Walked

-----------------------------------------------------------------------------
(* What is stored *)

\* A range with its ends exchanged, or zeroes for a list that is too long.
LEMMA IntervalsParsed ==
  ASSUME NEW type, NEW fri \in Intervals
  PROVE  /\ ParseIntervals(type, fri) \in Intervals
         /\ Ordered(ParseIntervals(type, fri))
         /\ Ordered(fri) /\ ~(/\ type = "frame_based" /\ fri.type = "discrete"
                              /\ Len(fri.list) > MaxIntervals)
              => ParseIntervals(type, fri) = fri
<1>1. CASE fri \in [type : {"discrete"}, list : Seq(Nat)]
  <2>1. fri.type = "discrete" /\ fri.list \in Seq(Nat) /\ Len(fri.list) \in Nat
    BY <1>1, LenProperties
  <2>2. CASE type = "frame_based" /\ Len(fri.list) > MaxIntervals
    <3> DEFINE zeroes == [i \in 1 .. Len(fri.list) |-> 0]
    <3>1. ParseIntervals(type, fri) = [type |-> "discrete", list |-> zeroes]
      BY <2>1, <2>2 DEF ParseIntervals
    <3>2. zeroes \in Seq(Nat)
      BY <2>1
    <3> HIDE DEF zeroes
    <3>3. [type |-> "discrete", list |-> zeroes] \in Intervals
      BY <3>2 DEF Intervals
    <3> QED BY <2>1, <2>2, <3>1, <3>3 DEF Ordered
  <2>3. CASE ~(type = "frame_based" /\ Len(fri.list) > MaxIntervals)
    <3>1. ParseIntervals(type, fri) = fri
      BY <2>1, <2>3 DEF ParseIntervals
    <3> QED BY <2>1, <3>1 DEF Ordered
  <2> QED BY <2>2, <2>3
<1>2. CASE fri \in [type : {"continuous"}, min : Nat, max : Nat, step : Nat]
  <2>1. /\ fri.type = "continuous" /\ fri.min \in Nat /\ fri.max \in Nat
        /\ ParseIntervals(type, fri)
             = IF fri.min > fri.max THEN [fri EXCEPT !.min = fri.max, !.max = fri.min] ELSE fri
    BY <1>2 DEF ParseIntervals
  <2>2. CASE fri.min > fri.max
    <3>1. PICK o : o = [fri EXCEPT !.min = fri.max, !.max = fri.min]
      OBVIOUS
    <3>2. o \in Intervals /\ o.min = fri.max /\ o.max = fri.min
      BY <1>2, <3>1 DEF Intervals
    <3>3. ParseIntervals(type, fri) = o
      BY <2>1, <2>2, <3>1
    <3> QED BY <2>1, <2>2, <3>2, <3>3 DEF Ordered
  <2>3. CASE ~(fri.min > fri.max)
    BY <2>1, <2>3 DEF Ordered
  <2> QED BY <2>2, <2>3
<1>3. QED BY <1>1, <1>2 DEF Intervals

\* parse_uvc_frame reads a frame as it is described.
LEMMA FrameParsed ==
  ASSUME NEW f \in Descriptors, f.kind = "frame"
  PROVE  ReadFrame(f) \in StoredFrames /\ FrameDescribed(ReadFrame(f), f)
<1>1. f.type \in STRING /\ f.id \in Nat /\ f.fri \in Intervals
  BY VideoDescriptors
<1>2. PICK y : y = ParseIntervals(f.type, f.fri)
  OBVIOUS
<1>3. /\ y \in Intervals /\ Ordered(y)
      /\ Ordered(f.fri) /\ ~TooMany(f) => y = f.fri
  BY <1>1, <1>2, IntervalsParsed DEF TooMany
<1>4. ReadFrame(f) = [type |-> f.type, id |-> f.id, fri |-> y]
  BY <1>2 DEF ReadFrame
<1>5. ReadFrame(f) \in StoredFrames
  BY <1>1, <1>3, <1>4 DEF StoredFrames
<1>6. FrameDescribed(ReadFrame(f), f)
  BY <1>3, <1>4 DEF FrameDescribed
<1>7. QED BY <1>5, <1>6

\* parse_uvc_format reads a format, with room for the frames it announces.
LEMMA FormatParsed ==
  ASSUME NEW f \in Descriptors, f.kind = "format"
  PROVE  ReadFormat(f) \in OpenFormats /\ ReadFormat(f).id = f.id /\ ReadFormat(f).type = f.type
<1>1. f.type \in STRING /\ f.id \in Nat /\ f.frames \in Nat
  BY VideoDescriptors
<1>2. PICK k \in Nat : k = IF f.type = "mpeg2ts" THEN 0 ELSE f.frames
  BY <1>1
<1>3. PICK fs : fs = [i \in 1 .. k |-> Unset]
  OBVIOUS
<1>4. fs \in Seq(StoredFrames)
  BY <1>3 DEF StoredFrames
<1>5. ReadFormat(f) = [type |-> f.type, id |-> f.id, frames |-> fs]
  BY <1>2, <1>3 DEF ReadFormat
<1>6. QED BY <1>1, <1>4, <1>5 DEF OpenFormats

\* One entry of a table is set.
LEMMA EntrySet ==
  ASSUME NEW S, NEW s \in Seq(S), NEW k \in 1 .. Len(s), NEW e \in S, NEW t, t = [s EXCEPT ![k] = e]
  PROVE  /\ t \in Seq(S) /\ Len(t) = Len(s) /\ t[k] = e
         /\ \A j \in 1 .. Len(s) : j # k => t[j] = s[j]
  OBVIOUS

\* The record of channel c is set.
LEMMA TableIsSet ==
  ASSUME NEW v \in ChannelTables, NEW c \in 1 .. NumVidChannel, NEW x \in Channels
  PROVE  TableSet(v, c, x, [v EXCEPT ![c] = x])
  BY DEF TableSet, ChannelTables

-----------------------------------------------------------------------------
(* The video parser's walk *)

\* How many descriptors the video parser has read.
Read == IF parse.by = "video" THEN parse.at - 1 ELSE 0

\* Until the configuration is accepted the tables hold what was read of it.
VideoInv ==
  /\ device \in Devices /\ parse \in Parses /\ vcfg \in ChannelTables /\ chan \in Chans
  /\ parse.by = "video" => parse.video = "none" /\ parse.at <= Len(device) + 1
  /\ parse.video = "none" => Walked(device, vcfg, chan, Read)
  /\ parse.video = "parsed" => VideoDescribed(Len(device))

\* VideoDescribed, now and after a step, in terms of the tables.
LEMMA VideoDescribedIs ==
  /\ \A n : VideoDescribed(n) <=> Described(device, vcfg, n)
  /\ \A n : VideoDescribed(n)' <=> Described(device', vcfg', n)
  BY DEF VideoDescribed, Described

\* The tables v and the statics h have the first n descriptors of d; the next is read.
ReadsAt(d, v, h, n) ==
  /\ d = device /\ v = vcfg /\ h = chan /\ parse.at = n + 1 /\ Here = d[n + 1]
  /\ n + 1 \in DOMAIN d /\ WellFormed(d) /\ d[n + 1] \in Descriptors
  /\ Walked(d, v, h, n) /\ v \in ChannelTables /\ h \in Chans

\* What is read, and what is known of what was.
LEMMA ReadingFacts ==
  ASSUME VideoInv, parse.by = "video", parse.at <= Len(device)
  PROVE  \E d, v, h : \E n \in Nat : ReadsAt(d, v, h, n)
<1>1. device \in Devices /\ parse.at \in Nat \ {0} /\ parse.video = "none"
  BY DEF VideoInv, Parses
<1>2. PICK n \in Nat : parse.at = n + 1
  <2>1. parse.at - 1 \in Nat /\ parse.at = (parse.at - 1) + 1
    BY <1>1
  <2> QED BY <2>1
<1>3. parse.at \in DOMAIN device /\ Here = device[parse.at] /\ Here \in Descriptors
  BY <1>1, HereFacts
<1>4. Walked(device, vcfg, chan, n)
  <2>1. parse.at - 1 = n
    BY <1>2
  <2> QED BY <1>1, <2>1 DEF VideoInv, Read
<1>5. WellFormed(device) /\ vcfg \in ChannelTables /\ chan \in Chans
  BY <1>1, DevicesAssumption DEF VideoInv
<1>6. QED BY <1>2, <1>3, <1>4, <1>5 DEF ReadsAt

\* The walk goes on.
LEMMA VideoMoves ==
  ASSUME VideoInv, parse.by = "video", parse.at <= Len(device), Advance, device' = device,
         vcfg' \in ChannelTables, chan' \in Chans, Walked(device, vcfg', chan', parse.at)
  PROVE  VideoInv'
<1>1. device \in Devices /\ parse \in Parses /\ parse.video = "none"
  BY DEF VideoInv
<1>2. parse' \in Parses /\ parse'.by = "video" /\ parse'.at = parse.at + 1 /\ parse'.video = "none"
  BY <1>1, MoveFacts
<1>3. parse.at \in Nat /\ Len(device) \in Nat
  BY <1>1, HereFacts, LenProperties DEF Parses
<1>4. Read' = parse.at /\ parse'.at <= Len(device') + 1
  BY <1>2, <1>3 DEF Read
<1>5. QED BY <1>1, <1>2, <1>4 DEF VideoInv

\* The walk ends without a result.
LEMMA VideoRefuses ==
  ASSUME VideoInv, parse.by = "video", Refuse, device' = device, vcfg' = vcfg, chan' = chan
  PROVE  VideoInv'
<1>1. parse' \in Parses /\ parse'.by = "none" /\ parse'.video = "refused"
  BY MoveFacts DEF VideoInv
<1>2. QED BY <1>1 DEF VideoInv

\* The video parser does nothing.
LEMMA VideoRests ==
  ASSUME VideoInv, device' = device, vcfg' = vcfg, chan' = chan, parse' \in Parses,
         parse'.video = parse.video, parse.by # "video", parse'.by # "video"
  PROVE  VideoInv'
<1>1. Read' = Read
  BY DEF Read
<1>2. QED BY <1>1, VideoDescribedIs DEF VideoInv
-----------------------------------------------------------------------------

\* parse_uvc_vc at the header of an interface keeps the invariant.
LEMMA VcStep ==
  ASSUME VideoInv, ParseVc
  PROVE  VideoInv'
<1>1. /\ parse.by = "video" /\ parse.at <= Len(device) /\ Here.kind = "vc" /\ device' = device
      /\ IF chan.next > NumVidChannel
           THEN Refuse /\ vcfg' = vcfg /\ chan' = chan
           ELSE /\ Advance
                /\ chan' = [chan EXCEPT !.next = @ + 1, !.cfg = chan.next, !.skip = FALSE]
                /\ vcfg' = [vcfg EXCEPT ![chan.next].enabled = TRUE, ![chan.next].vcIf = Here.if]
  BY DEF ParseVc, Parsing, Reading, AudioKinds, Rest
<1>2. CASE chan.next > NumVidChannel
  BY <1>1, <1>2, VideoRefuses
<1>3. CASE ~(chan.next > NumVidChannel)
  <2>1. PICK d, v, h : \E n \in Nat : ReadsAt(d, v, h, n)
    BY <1>1, ReadingFacts
  <2>2. PICK n \in Nat :
          /\ d = device /\ v = vcfg /\ h = chan /\ parse.at = n + 1 /\ Here = d[n + 1]
          /\ n + 1 \in DOMAIN d /\ WellFormed(d) /\ d[n + 1] \in Descriptors
          /\ Walked(d, v, h, n) /\ v \in ChannelTables /\ h \in Chans
    BY <2>1 DEF ReadsAt
  <2>3. PICK c \in Nat : c = h.next
    BY <2>2 DEF Chans
  <2>4. d[n + 1].kind = "vc" /\ c <= NumVidChannel /\ Advance
    BY <1>1, <1>3, <2>2, <2>3, DescriptorAssumption
  <2>5. PICK i \in Nat : i = d[n + 1].if
    BY <2>2, <2>4, VideoDescriptors
  <2>6. PICK w, g : /\ w = vcfg' /\ w = [v EXCEPT ![c].enabled = TRUE, ![c].vcIf = i]
                    /\ g = chan' /\ g = [h EXCEPT !.next = c + 1, !.cfg = c, !.skip = FALSE]
    BY <1>1, <1>3, <2>2, <2>3, <2>5
  <2>7. PICK x : x = [NoChannel EXCEPT !.enabled = TRUE, !.vcIf = i]
    OBVIOUS
  <2>8. x \in Channels /\ Blank(x)
    <3>1. PICK a : a = NoChannel
      OBVIOUS
    <3>2. a \in Channels /\ x = [a EXCEPT !.enabled = TRUE, !.vcIf = i]
      BY <2>7, <3>1, NewChannel DEF Blank
    <3>3. /\ x \in Channels /\ x.camera = a.camera /\ x.processing = a.processing
          /\ x.extension = a.extension /\ x.formats = a.formats /\ x.alts = a.alts /\ x.bulk = a.bulk
      BY ONLY <3>2 DEF Channels
    <3> QED BY <3>1, <3>3, NewChannel DEF Blank
  <2>9. ASSUME c \in 1 .. NumVidChannel, v[c] = NoChannel PROVE TableSet(v, c, x, w)
    <3>1. w = [v EXCEPT ![c] = x]
      BY <2>2, <2>6, <2>7, <2>9 DEF ChannelTables
    <3> QED BY <2>2, <2>8, <2>9, <3>1, TableIsSet
  <2>10. g \in Chans /\ g.next = c + 1 /\ g.cfg = c /\ ~g.skip
    <3>1. PICK p \in Nat : p = c + 1
      OBVIOUS
    <3>2. h \in Chans /\ g = [h EXCEPT !.next = p, !.cfg = c, !.skip = FALSE]
      BY <2>2, <2>6, <3>1
    <3> QED BY ONLY <3>1, <3>2 DEF Chans
  <2>11. w \in ChannelTables /\ Walked(d, w, g, n + 1)
    <3>1. /\ n + 1 \in DOMAIN d /\ WellFormed(d) /\ Walked(d, v, h, n) /\ v \in ChannelTables
          /\ d[n + 1].kind = "vc" /\ c = h.next /\ c <= NumVidChannel /\ Blank(x)
          /\ c \in 1 .. NumVidChannel /\ v[c] = NoChannel => TableSet(v, c, x, w)
      BY <2>2, <2>3, <2>4, <2>8, <2>9
    <3> QED BY ONLY <2>10, <3>1, VcRead
  <2> QED BY <1>1, <2>2, <2>4, <2>6, <2>10, <2>11, VideoMoves
<1>4. QED BY <1>2, <1>3

\* What is read in a channel belongs to one.
LEMMA CfgFacts ==
  ASSUME VideoInv, parse.by = "video", parse.at <= Len(device), Here.kind \in Kinds \cup {"vs"},
         Here.kind \in {"endpoint", "alt", "vs"} \/ ~chan.skip
  PROVE  chan.cfg \in 1 .. NumVidChannel /\ Cfg \in Channels /\ Here \in Descriptors
<1>1. PICK d, v, h : \E n \in Nat : ReadsAt(d, v, h, n)
  BY ReadingFacts
<1>2. PICK n \in Nat :
        /\ d = device /\ v = vcfg /\ h = chan /\ parse.at = n + 1 /\ Here = d[n + 1]
        /\ n + 1 \in DOMAIN d /\ WellFormed(d) /\ d[n + 1] \in Descriptors
        /\ Walked(d, v, h, n) /\ v \in ChannelTables /\ h \in Chans
  BY <1>1 DEF ReadsAt
<1>3. h.cfg \in 1 .. NumVidChannel
  <2>1. /\ n + 1 \in DOMAIN d /\ WellFormed(d) /\ Walked(d, v, h, n)
        /\ d[n + 1].kind \in Kinds \cup {"vs"}
        /\ d[n + 1].kind \in {"endpoint", "alt", "vs"} \/ ~h.skip
    BY <1>2
  <2> QED BY ONLY <2>1, ReadFacts
<1>4. QED BY <1>2, <1>3 DEF Cfg, ChannelTables

\* A descriptor goes to one field.
LEMMA OneStep ==
  ASSUME VideoInv, parse.by = "video", parse.at <= Len(device), Advance, device' = device, chan' = chan,
         NEW k \in UnitKinds \cup {"endpoint", "alt"}, Here.kind = k,
         k \in {"endpoint", "alt"} \/ ~chan.skip,
         NEW x \in Channels, OneField(k, Cfg, Here, x), vcfg' = [vcfg EXCEPT ![chan.cfg] = x]
  PROVE  VideoInv'
<1>1. PICK d, v, h : \E n \in Nat : ReadsAt(d, v, h, n)
  BY ReadingFacts
<1>2. PICK n \in Nat :
        /\ d = device /\ v = vcfg /\ h = chan /\ parse.at = n + 1 /\ Here = d[n + 1]
        /\ n + 1 \in DOMAIN d /\ WellFormed(d) /\ d[n + 1] \in Descriptors
        /\ Walked(d, v, h, n) /\ v \in ChannelTables /\ h \in Chans
  BY <1>1 DEF ReadsAt
<1>3. PICK c, w : c = h.cfg /\ w = vcfg'
  OBVIOUS
<1>4. ASSUME c \in 1 .. NumVidChannel PROVE TableSet(v, c, x, w)
  BY <1>2, <1>3, <1>4, TableIsSet
<1>5. w \in ChannelTables /\ Walked(d, w, h, n + 1)
  <2>1. /\ n + 1 \in DOMAIN d /\ WellFormed(d) /\ Walked(d, v, h, n) /\ v \in ChannelTables
        /\ d[n + 1].kind = k /\ c = h.cfg
        /\ k \in {"endpoint", "alt"} \/ ~h.skip
        /\ OneField(k, v[c], d[n + 1], x)
        /\ c \in 1 .. NumVidChannel => TableSet(v, c, x, w)
    BY <1>2, <1>3, <1>4 DEF Cfg
  <2> QED BY ONLY <2>1, OneRead
<1>6. QED BY <1>2, <1>3, <1>5, VideoMoves

\* parse_uvc_vc at a terminal or unit keeps the invariant.
LEMMA UnitStep ==
  ASSUME VideoInv, ParseUnit
  PROVE  VideoInv'
<1>1. /\ parse.by = "video" /\ parse.at <= Len(device) /\ Here.kind \in UnitKinds /\ ~chan.skip
      /\ device' = device /\ chan' = chan /\ Advance
  BY DEF ParseUnit, Parsing, Reading, AudioKinds, InInterface, Rest, UnitKinds
<1>2. chan.cfg \in 1 .. NumVidChannel /\ Cfg \in Channels /\ Here \in Descriptors
  BY <1>1, CfgFacts DEF Kinds
<1>3. PICK i \in Nat : i = Here.id
  BY <1>1, <1>2, VideoDescriptors
<1>4. PICK a \in Channels : a = Cfg
  BY <1>2
<1>5. CASE Here.kind = "camera" /\ SetCfg("camera", Here.id)
  <2>1. PICK x : x = [a EXCEPT !.camera = i]
    OBVIOUS
  <2>2. /\ x \in Channels /\ x.camera = i /\ x.processing = a.processing /\ x.extension = a.extension
        /\ x.formats = a.formats /\ x.alts = a.alts /\ x.bulk = a.bulk
    BY ONLY <2>1 DEF Channels
  <2>3. vcfg' = [vcfg EXCEPT ![chan.cfg] = x]
    BY <1>3, <1>4, <1>5, <2>1 DEF SetCfg, Cfg
  <2>4. OneField("camera", Cfg, Here, x)
    BY <1>3, <1>4, <2>2 DEF OneField
  <2> QED BY <1>1, <1>5, <2>2, <2>3, <2>4, OneStep
<1>6. CASE Here.kind = "processing" /\ SetCfg("processing", Here.id)
  <2>1. PICK x : x = [a EXCEPT !.processing = i]
    OBVIOUS
  <2>2. /\ x \in Channels /\ x.camera = a.camera /\ x.processing = i /\ x.extension = a.extension
        /\ x.formats = a.formats /\ x.alts = a.alts /\ x.bulk = a.bulk
    BY ONLY <2>1 DEF Channels
  <2>3. vcfg' = [vcfg EXCEPT ![chan.cfg] = x]
    BY <1>3, <1>4, <1>6, <2>1 DEF SetCfg, Cfg
  <2>4. OneField("processing", Cfg, Here, x)
    BY <1>3, <1>4, <2>2 DEF OneField
  <2> QED BY <1>1, <1>6, <2>2, <2>3, <2>4, OneStep
<1>7. CASE Here.kind = "extension" /\ SetCfg("extension", Append(Cfg.extension, Here.id))
  <2>0. PICK l \in Seq(Nat) : l = Append(a.extension, i)
    <3>1. a.extension \in Seq(Nat)
      BY DEF Channels
    <3> QED BY <3>1, AppendProperties
  <2>1. PICK x : x = [a EXCEPT !.extension = l]
    OBVIOUS
  <2>2. /\ x \in Channels /\ x.camera = a.camera /\ x.processing = a.processing /\ x.extension = l
        /\ x.formats = a.formats /\ x.alts = a.alts /\ x.bulk = a.bulk
    BY ONLY <2>1 DEF Channels
  <2>3. vcfg' = [vcfg EXCEPT ![chan.cfg] = x]
    BY <1>3, <1>4, <1>7, <2>0, <2>1 DEF SetCfg, Cfg
  <2>4. OneField("extension", Cfg, Here, x)
    BY <1>3, <1>4, <2>0, <2>2 DEF OneField
  <2> QED BY <1>1, <1>7, <2>2, <2>3, <2>4, OneStep
<1>8. QED BY <1>5, <1>6, <1>7 DEF ParseUnit, Parsing, Reading

\* The endpoints of the streaming interfaces keep the invariant.
LEMMA EndpointStep ==
  ASSUME VideoInv, ParseEndpoint \/ ParseAlt
  PROVE  VideoInv'
<1>1. /\ parse.by = "video" /\ parse.at <= Len(device) /\ Here.kind \in {"endpoint", "alt"}
      /\ device' = device /\ chan' = chan
      /\ \/ Refuse /\ vcfg' = vcfg
         \/ Advance
  BY DEF ParseEndpoint, ParseAlt, Parsing, Reading, AudioKinds, Rest
<1>2. CASE Refuse /\ vcfg' = vcfg
  BY <1>1, <1>2, VideoRefuses
<1>3. chan.cfg \in 1 .. NumVidChannel /\ Cfg \in Channels /\ Here \in Descriptors
  BY <1>1, CfgFacts DEF Kinds
<1>4. PICK a \in Channels : a = Cfg
  BY <1>3
<1>5. CASE Here.kind = "endpoint" /\ Advance /\ SetCfg("bulk", Cfg.bulk \/ Here.bulk)
  <2>1. Here.bulk \in BOOLEAN /\ a.bulk \in BOOLEAN
    BY <1>3, <1>5, VideoDescriptors DEF Channels
  <2>2. PICK q \in BOOLEAN : q = (a.bulk \/ Here.bulk)
    BY <2>1
  <2>3. PICK x : x = [a EXCEPT !.bulk = q]
    OBVIOUS
  <2>4. /\ x \in Channels /\ x.camera = a.camera /\ x.processing = a.processing
        /\ x.extension = a.extension /\ x.formats = a.formats /\ x.alts = a.alts /\ x.bulk = q
    BY ONLY <2>3 DEF Channels
  <2>5. vcfg' = [vcfg EXCEPT ![chan.cfg] = x]
    BY <1>4, <1>5, <2>2, <2>3 DEF SetCfg, Cfg
  <2>6. OneField("endpoint", Cfg, Here, x)
    BY <1>4, <2>1, <2>2, <2>4 DEF OneField
  <2> QED BY <1>1, <1>5, <2>4, <2>5, <2>6, OneStep
<1>6. CASE Here.kind = "alt" /\ Advance /\ SetCfg("alts", Append(Cfg.alts, Here.size))
  <2>1. PICK i \in Nat : i = Here.size
    BY <1>3, <1>6, VideoDescriptors
  <2>2. PICK l \in Seq(Nat) : l = Append(a.alts, i)
    <3>1. a.alts \in Seq(Nat)
      BY DEF Channels
    <3> QED BY <3>1, AppendProperties
  <2>3. PICK x : x = [a EXCEPT !.alts = l]
    OBVIOUS
  <2>4. /\ x \in Channels /\ x.camera = a.camera /\ x.processing = a.processing
        /\ x.extension = a.extension /\ x.formats = a.formats /\ x.alts = l /\ x.bulk = a.bulk
    BY ONLY <2>3 DEF Channels
  <2>5. vcfg' = [vcfg EXCEPT ![chan.cfg] = x]
    BY <1>4, <1>6, <2>1, <2>2, <2>3 DEF SetCfg, Cfg
  <2>6. OneField("alt", Cfg, Here, x)
    BY <1>4, <2>1, <2>2, <2>4 DEF OneField
  <2> QED BY <1>1, <1>6, <2>4, <2>5, <2>6, OneStep
<1>7. QED BY <1>1, <1>2, <1>5, <1>6 DEF ParseEndpoint, ParseAlt, Parsing, Reading

\* Nothing is told, or it is skipped.
LEMMA QuietStep ==
  ASSUME VideoInv, parse.by = "video", ParseZero \/ Ignore
  PROVE  VideoInv'
<1>1. /\ parse.by = "video" /\ parse.at <= Len(device) /\ device' = device /\ vcfg' = vcfg /\ Advance
      /\ \/ Here.kind = "zero" /\ chan' = [chan EXCEPT !.skip = TRUE]
         \/ Here.kind \in AudioKinds \cup {"unknown"} /\ chan' = chan
         \/ Here.kind \in InInterface /\ chan.skip /\ chan' = chan
  BY DEF ParseZero, Ignore, Parsing, Reading, AudioKinds, Rest
<1>2. PICK d, v, h : \E n \in Nat : ReadsAt(d, v, h, n)
  BY <1>1, ReadingFacts
<1>3. PICK n \in Nat :
        /\ d = device /\ v = vcfg /\ h = chan /\ parse.at = n + 1 /\ Here = d[n + 1]
        /\ n + 1 \in DOMAIN d /\ WellFormed(d) /\ d[n + 1] \in Descriptors
        /\ Walked(d, v, h, n) /\ v \in ChannelTables /\ h \in Chans
  BY <1>2 DEF ReadsAt
<1>4. PICK g : g = chan'
  OBVIOUS
<1>5. /\ g \in Chans /\ g.next = h.next /\ g.cfg = h.cfg /\ g.format = h.format /\ g.frame = h.frame
      /\ g.skip <=> d[n + 1].kind = "zero" \/ h.skip
  <2>1. CASE d[n + 1].kind = "zero" /\ g = [h EXCEPT !.skip = TRUE]
    BY <1>3, <2>1 DEF Chans
  <2>2. CASE g = h /\ (d[n + 1].kind # "zero" \/ h.skip)
    BY <1>3, <2>2
  <2> QED BY <1>1, <1>3, <1>4, <2>1, <2>2 DEF AudioKinds
<1>6. d[n + 1].kind \notin {"vc", "vs"} /\ (~Live(d, n + 1) \/ d[n + 1].kind \notin Kinds)
  <2>1. CASE d[n + 1].kind \in AudioKinds \cup {"unknown", "zero"}
    BY <2>1 DEF AudioKinds, Kinds, UnitKinds
  <2>2. CASE d[n + 1].kind \in InInterface /\ d[n + 1].kind \notin {"unknown", "zero"} /\ h.skip
    <3>1. d[n + 1].kind \in UnitKinds \cup {"format", "frame"} /\ SkipsAt(d, n)
      BY <1>3, <2>2 DEF InInterface, UnitKinds, Walked
    <3>2. ~Live(d, n + 1)
      BY <1>3, <3>1, LiveFacts
    <3> QED BY <2>2, <3>2 DEF InInterface
  <2> QED BY <1>1, <1>3, <2>1, <2>2
<1>7. Walked(d, v, g, n + 1)
  <2>1. WellFormed(d) /\ n + 1 \in DOMAIN d /\ Walked(d, v, h, n)
    BY <1>3
  <2> QED BY ONLY <1>5, <1>6, <2>1, WalkQuiet
<1>8. QED BY <1>1, <1>3, <1>4, <1>5, <1>7, VideoMoves

\* parse_uvc_vs at the input header keeps the invariant.
LEMMA VsStep ==
  ASSUME VideoInv, ParseVs
  PROVE  VideoInv'
<1>1. /\ parse.by = "video" /\ parse.at <= Len(device) /\ Here.kind = "vs" /\ device' = device /\ Advance
      /\ vcfg' = [vcfg EXCEPT ![chan.cfg].vsIf = Here.if,
                              ![chan.cfg].formats = [i \in 1 .. Here.formats |-> Unset]]
      /\ chan' = [chan EXCEPT !.format = 0, !.frame = 0, !.skip = FALSE]
  BY DEF ParseVs, Parsing, Reading, AudioKinds, Rest
<1>2. PICK d, v, h : \E n \in Nat : ReadsAt(d, v, h, n)
  BY <1>1, ReadingFacts
<1>3. PICK n \in Nat :
        /\ d = device /\ v = vcfg /\ h = chan /\ parse.at = n + 1 /\ Here = d[n + 1]
        /\ n + 1 \in DOMAIN d /\ WellFormed(d) /\ d[n + 1] \in Descriptors
        /\ Walked(d, v, h, n) /\ v \in ChannelTables /\ h \in Chans
  BY <1>2 DEF ReadsAt
<1>4. chan.cfg \in 1 .. NumVidChannel /\ Cfg \in Channels /\ Here \in Descriptors
  BY <1>1, CfgFacts
<1>5. PICK c \in 1 .. NumVidChannel : c = h.cfg
  BY <1>3, <1>4
<1>6. PICK a \in Channels : a = v[c]
  BY <1>3, <1>5 DEF ChannelTables
<1>7. PICK i \in Nat, s \in Seq(StoredFormats) :
        i = Here.if /\ s = [k \in 1 .. Here.formats |-> Unset]
  <2>1. Here.if \in Nat /\ Here.formats \in Nat
    BY <1>1, <1>4, VideoDescriptors
  <2>2. [k \in 1 .. Here.formats |-> Unset] \in Seq(StoredFormats)
    BY <2>1 DEF StoredFormats
  <2> QED BY <2>1, <2>2
<1>8. PICK w, g : /\ w = vcfg' /\ w = [v EXCEPT ![c].vsIf = i, ![c].formats = s]
                  /\ g = chan' /\ g = [h EXCEPT !.format = 0, !.frame = 0, !.skip = FALSE]
  BY <1>1, <1>3, <1>5, <1>7
<1>9. PICK x : x = [a EXCEPT !.vsIf = i, !.formats = s]
  OBVIOUS
<1>10. /\ x \in Channels /\ x.camera = a.camera /\ x.processing = a.processing
       /\ x.extension = a.extension /\ x.alts = a.alts /\ x.bulk = a.bulk
  BY ONLY <1>9 DEF Channels
<1>11. TableSet(v, c, x, w)
  <2>1. w = [v EXCEPT ![c] = x]
    BY <1>3, <1>6, <1>8, <1>9 DEF ChannelTables
  <2> QED BY <1>3, <1>10, <2>1, TableIsSet
<1>12. g \in Chans /\ g.next = h.next /\ g.cfg = c /\ g.format = 0 /\ g.frame = 0 /\ ~g.skip
  <2>1. h \in Chans /\ g = [h EXCEPT !.format = 0, !.frame = 0, !.skip = FALSE]
    BY <1>3, <1>8
  <2>2. g \in Chans /\ g.next = h.next /\ g.cfg = h.cfg /\ g.format = 0 /\ g.frame = 0 /\ ~g.skip
    BY ONLY <2>1 DEF Chans
  <2> QED BY <1>5, <2>2
<1>13. w \in ChannelTables /\ Walked(d, w, g, n + 1)
  <2>1. /\ n + 1 \in DOMAIN d /\ WellFormed(d) /\ Walked(d, v, h, n) /\ v \in ChannelTables
        /\ d[n + 1].kind = "vs" /\ c = h.cfg /\ x.camera = v[c].camera /\ x.processing = v[c].processing
        /\ x.extension = v[c].extension /\ x.alts = v[c].alts /\ x.bulk = v[c].bulk
        /\ TableSet(v, c, x, w) /\ x \in Channels
    BY <1>1, <1>3, <1>5, <1>6, <1>10, <1>11
  <2> QED BY ONLY <1>12, <2>1, VsRead
<1>14. QED BY <1>1, <1>3, <1>8, <1>12, <1>13, VideoMoves

\* parse_uvc_vs at a format keeps the invariant.
LEMMA FormatStep ==
  ASSUME VideoInv, ParseFormat
  PROVE  VideoInv'
<1>1. /\ parse.by = "video" /\ parse.at <= Len(device) /\ Here.kind = "format" /\ ~chan.skip
      /\ device' = device
      /\ IF chan.format >= Len(Cfg.formats)
           THEN Refuse /\ vcfg' = vcfg /\ chan' = chan
           ELSE /\ vcfg' = [vcfg EXCEPT ![chan.cfg].formats[chan.format + 1] = ReadFormat(Here)]
                /\ chan' = [chan EXCEPT !.format = @ + 1, !.frame = 0]
                /\ Advance
  BY DEF ParseFormat, Parsing, Reading, AudioKinds, InInterface, Rest
<1>2. CASE chan.format >= Len(Cfg.formats)
  BY <1>1, <1>2, VideoRefuses
<1>3. CASE ~(chan.format >= Len(Cfg.formats))
  <2>1. PICK d, v, h : \E n \in Nat : ReadsAt(d, v, h, n)
    BY <1>1, ReadingFacts
  <2>2. PICK n \in Nat :
          /\ d = device /\ v = vcfg /\ h = chan /\ parse.at = n + 1 /\ Here = d[n + 1]
          /\ n + 1 \in DOMAIN d /\ WellFormed(d) /\ d[n + 1] \in Descriptors
          /\ Walked(d, v, h, n) /\ v \in ChannelTables /\ h \in Chans
    BY <2>1 DEF ReadsAt
  <2>3. chan.cfg \in 1 .. NumVidChannel /\ Cfg \in Channels /\ Here \in Descriptors
    BY <1>1, CfgFacts DEF Kinds
  <2>4. PICK c \in 1 .. NumVidChannel : c = h.cfg
    BY <2>2, <2>3
  <2>5. PICK a \in Channels : a = v[c]
    BY <2>2, <2>4 DEF ChannelTables
  <2>6. PICK r \in OpenFormats : r = ReadFormat(Here) /\ r.id = d[n + 1].id /\ r.type = d[n + 1].type
    BY <1>1, <2>2, <2>3, FormatParsed
  <2>7. PICK f \in Seq(StoredFormats), k \in Nat, p \in Nat :
          f = a.formats /\ k = h.format /\ p = k + 1
    <3>1. a.formats \in Seq(StoredFormats)
      BY DEF Channels
    <3>2. h.format \in Nat
      BY <2>2 DEF Chans
    <3> QED BY <3>1, <3>2
  <2>8. p \in 1 .. Len(f) /\ k < Len(f) /\ Advance
    <3>1. Len(f) \in Nat
      BY LenProperties
    <3>2. ~(k >= Len(f)) /\ Advance
      BY <1>1, <1>3, <2>2, <2>4, <2>5, <2>7 DEF Cfg
    <3> QED BY <2>7, <3>1, <3>2
  <2>9. PICK s : s = [f EXCEPT ![p] = r]
    OBVIOUS
  <2>10. /\ s \in Seq(StoredFormats) /\ Len(s) = Len(f) /\ s[p] = r
         /\ \A j \in 1 .. Len(f) : j # p => s[j] = f[j]
    <3>1. r \in StoredFormats
      BY DEF StoredFormats
    <3> QED BY ONLY f \in Seq(StoredFormats), <2>8, <2>9, <3>1, EntrySet
  <2>11. PICK x : x = [a EXCEPT !.formats = s]
    OBVIOUS
  <2>12. /\ x \in Channels /\ x.camera = a.camera /\ x.processing = a.processing
         /\ x.extension = a.extension /\ x.formats = s /\ x.alts = a.alts /\ x.bulk = a.bulk
    BY ONLY <2>10, <2>11 DEF Channels
  <2>13. PICK w, g : w = vcfg' /\ g = chan'
    OBVIOUS
  <2>14. TableSet(v, c, x, w)
    <3>1. w = [v EXCEPT ![c].formats[p] = r]
      BY <1>1, <1>3, <2>2, <2>4, <2>6, <2>7, <2>13
    <3>2. w = [v EXCEPT ![c] = x]
      BY <2>5, <2>7, <2>9, <2>11, <3>1
    <3> QED BY <2>2, <2>12, <3>2, TableIsSet
  <2>15. /\ g \in Chans /\ g.next = h.next /\ g.cfg = h.cfg /\ g.format = p /\ g.frame = 0
         /\ g.skip = h.skip
    <3>1. h \in Chans /\ g = [h EXCEPT !.format = p, !.frame = 0]
      BY <1>1, <1>3, <2>2, <2>7, <2>13
    <3> QED BY ONLY <3>1 DEF Chans
  <2>16. Walked(d, w, g, n + 1)
    <3>1. /\ n + 1 \in DOMAIN d /\ WellFormed(d) /\ Walked(d, v, h, n) /\ v \in ChannelTables
          /\ d[n + 1].kind = "format" /\ ~h.skip /\ c = h.cfg /\ h.format < Len(v[c].formats)
          /\ r \in OpenFormats /\ r.id = d[n + 1].id /\ r.type = d[n + 1].type
      BY <1>1, <2>2, <2>4, <2>5, <2>6, <2>7, <2>8
    <3>2. OtherFields(v[c], x)
      BY <2>5, <2>12 DEF OtherFields
    <3>3. EntryIs(v[c].formats, h.format + 1, r, x.formats)
      BY <2>5, <2>7, <2>8, <2>10, <2>12 DEF EntryIs
    <3>4. Counts(h, g, h.format + 1, 0)
      BY <2>4, <2>7, <2>15 DEF Counts
    <3> QED BY ONLY <2>14, <3>1, <3>2, <3>3, <3>4, FormatRead
  <2>17. w \in ChannelTables
    BY <2>14 DEF TableSet
  <2> QED BY <1>1, <2>2, <2>8, <2>13, <2>15, <2>16, <2>17, VideoMoves
<1>4. QED BY <1>2, <1>3

\* parse_uvc_vs at a frame keeps the invariant.
LEMMA FrameStep ==
  ASSUME VideoInv, ParseFrame
  PROVE  VideoInv'
<1>1. /\ parse.by = "video" /\ parse.at <= Len(device) /\ Here.kind = "frame" /\ ~chan.skip
      /\ device' = device
      /\ IF chan.frame >= Len(Cfg.formats[chan.format].frames)
           THEN Refuse /\ vcfg' = vcfg /\ chan' = chan
           ELSE /\ vcfg' = [vcfg EXCEPT ![chan.cfg].formats[chan.format].frames[chan.frame + 1] = ReadFrame(Here)]
                /\ chan' = [chan EXCEPT !.frame = @ + 1]
                /\ Advance
  BY DEF ParseFrame, Parsing, Reading, AudioKinds, InInterface, Rest
<1>2. CASE chan.frame >= Len(Cfg.formats[chan.format].frames)
  BY <1>1, <1>2, VideoRefuses
<1>3. CASE ~(chan.frame >= Len(Cfg.formats[chan.format].frames))
  <2>1. PICK d, v, h : \E n \in Nat : ReadsAt(d, v, h, n)
    BY <1>1, ReadingFacts
  <2>2. PICK n \in Nat :
          /\ d = device /\ v = vcfg /\ h = chan /\ parse.at = n + 1 /\ Here = d[n + 1]
          /\ n + 1 \in DOMAIN d /\ WellFormed(d) /\ d[n + 1] \in Descriptors
          /\ Walked(d, v, h, n) /\ v \in ChannelTables /\ h \in Chans
    BY <2>1 DEF ReadsAt
  <2>3. chan.cfg \in 1 .. NumVidChannel /\ Cfg \in Channels /\ Here \in Descriptors
    BY <1>1, CfgFacts DEF Kinds
  <2>4. PICK c \in 1 .. NumVidChannel : c = h.cfg
    BY <2>2, <2>3
  <2>5. PICK a \in Channels : a = v[c]
    BY <2>2, <2>4 DEF ChannelTables
  <2>6. PICK y \in StoredFrames : y = ReadFrame(Here) /\ FrameDescribed(y, d[n + 1])
    BY <1>1, <2>2, <2>3, FrameParsed
  <2>7. PICK f \in Seq(StoredFormats), k \in Nat : f = a.formats /\ k = h.format
    <3>1. a.formats \in Seq(StoredFormats)
      BY DEF Channels
    <3>2. h.format \in Nat
      BY <2>2 DEF Chans
    <3> QED BY <3>1, <3>2
  <2>8. k \in 1 .. Len(f) /\ f[k] \in OpenFormats
    <3>1. /\ n + 1 \in DOMAIN d /\ WellFormed(d) /\ Walked(d, v, h, n) /\ v \in ChannelTables
          /\ d[n + 1].kind = "frame" /\ ~h.skip /\ c = h.cfg
      BY <1>1, <2>2, <2>4
    <3> QED BY <2>4, <2>5, <2>7, <3>1, OpenFormat
  <2>9. PICK fm \in OpenFormats : fm = f[k]
    BY <2>8
  <2>10. PICK l \in Seq(StoredFrames), p \in Nat : l = fm.frames /\ p = h.frame + 1
    <3>1. fm.frames \in Seq(StoredFrames)
      BY DEF OpenFormats
    <3>2. h.frame \in Nat /\ h.frame + 1 \in Nat
      BY <2>2 DEF Chans
    <3> QED BY <3>1, <3>2
  <2>11. p \in 1 .. Len(l) /\ h.frame < Len(l) /\ Advance
    <3>1. Len(l) \in Nat /\ h.frame \in Nat
      BY <2>2, LenProperties DEF Chans
    <3>2. ~(h.frame >= Len(l)) /\ Advance
      BY <1>1, <1>3, <2>2, <2>4, <2>5, <2>7, <2>9, <2>10 DEF Cfg
    <3> QED BY <2>10, <3>1, <3>2
  <2>12. PICK z : z = [l EXCEPT ![p] = y]
    OBVIOUS
  <2>13. z \in Seq(StoredFrames) /\ EntryIs(l, p, y, z)
    <3>1. /\ z \in Seq(StoredFrames) /\ Len(z) = Len(l) /\ z[p] = y
          /\ \A j \in 1 .. Len(l) : j # p => z[j] = l[j]
      BY ONLY l \in Seq(StoredFrames), y \in StoredFrames, <2>11, <2>12, EntrySet
    <3> QED BY ONLY <3>1 DEF EntryIs
  <2>14. PICK r : r = [fm EXCEPT !.frames = z]
    OBVIOUS
  <2>15. r \in OpenFormats /\ r.id = fm.id /\ r.type = fm.type /\ r.frames = z
    BY ONLY <2>13, <2>14 DEF OpenFormats
  <2>16. PICK s : s = [f EXCEPT ![k] = r]
    OBVIOUS
  <2>17. s \in Seq(StoredFormats) /\ EntryIs(f, k, r, s)
    <3>1. r \in StoredFormats
      BY <2>15 DEF StoredFormats
    <3>2. /\ s \in Seq(StoredFormats) /\ Len(s) = Len(f) /\ s[k] = r
          /\ \A j \in 1 .. Len(f) : j # k => s[j] = f[j]
      BY ONLY f \in Seq(StoredFormats), <2>8, <2>16, <3>1, EntrySet
    <3> QED BY ONLY <3>2 DEF EntryIs
  <2>18. PICK x : x = [a EXCEPT !.formats = s]
    OBVIOUS
  <2>19. /\ x \in Channels /\ x.camera = a.camera /\ x.processing = a.processing
         /\ x.extension = a.extension /\ x.formats = s /\ x.alts = a.alts /\ x.bulk = a.bulk
    BY ONLY <2>17, <2>18 DEF Channels
  <2>20. PICK w, g : w = vcfg' /\ g = chan'
    OBVIOUS
  <2>21. TableSet(v, c, x, w)
    <3>1. w = [v EXCEPT ![c].formats[k].frames[p] = y]
      BY <1>1, <1>3, <2>2, <2>4, <2>6, <2>7, <2>10, <2>20
    <3>2. w = [v EXCEPT ![c] = x]
      BY <2>5, <2>7, <2>9, <2>10, <2>12, <2>14, <2>16, <2>18, <3>1
    <3> QED BY <2>2, <2>19, <3>2, TableIsSet
  <2>22. g \in Chans /\ Counts(h, g, h.format, h.frame + 1)
    <3>1. h \in Chans /\ g = [h EXCEPT !.frame = p]
      BY <1>1, <1>3, <2>2, <2>10, <2>20
    <3>2. /\ g \in Chans /\ g.next = h.next /\ g.cfg = h.cfg /\ g.format = h.format /\ g.frame = p
          /\ g.skip = h.skip
      BY ONLY <3>1 DEF Chans
    <3> QED BY <2>10, <3>2 DEF Counts
  <2>23. Walked(d, w, g, n + 1)
    <3>1. /\ n + 1 \in DOMAIN d /\ WellFormed(d) /\ Walked(d, v, h, n) /\ v \in ChannelTables
          /\ d[n + 1].kind = "frame" /\ ~h.skip /\ c = h.cfg
          /\ fm = v[c].formats[h.format] /\ h.frame < Len(fm.frames) /\ FrameDescribed(y, d[n + 1])
      BY <1>1, <2>2, <2>4, <2>5, <2>6, <2>7, <2>9, <2>10, <2>11
    <3>2. /\ r \in OpenFormats /\ r.id = fm.id /\ r.type = fm.type
          /\ EntryIs(fm.frames, h.frame + 1, y, r.frames)
      BY <2>10, <2>13, <2>15
    <3>3. OtherFields(v[c], x) /\ EntryIs(v[c].formats, h.format, r, x.formats)
      BY <2>5, <2>7, <2>17, <2>19 DEF OtherFields
    <3> QED BY ONLY <2>21, <2>22, <3>1, <3>2, <3>3, FrameRead
  <2>24. w \in ChannelTables
    BY <2>21 DEF TableSet
  <2> QED BY <1>1, <2>2, <2>11, <2>20, <2>22, <2>23, <2>24, VideoMoves
<1>4. QED BY <1>2, <1>3

-----------------------------------------------------------------------------
(* The invariant *)

\* Before the walk the channels have nothing.
LEMMA VideoBegins ==
  ASSUME DescInit
  PROVE  VideoInv
<1>1. /\ device \in Devices /\ WellFormed(device) /\ device \in Seq(Descriptors)
      /\ parse = [by |-> "none", at |-> 1, video |-> "none", audio |-> "none"]
      /\ vcfg = [c \in 1 .. NumVidChannel |-> NoChannel]
      /\ chan = [next |-> 1, cfg |-> 0, format |-> 0, frame |-> 0, skip |-> FALSE]
  BY DevicesAssumption DEF DescInit, WellFormed
<1>2. parse \in Parses /\ parse.by = "none" /\ parse.video = "none" /\ Read = 0
  BY <1>1 DEF Parses, Read
<1>3. vcfg \in ChannelTables
  BY <1>1, NewChannel DEF ChannelTables, Blank
<1>4. chan \in Chans /\ chan.next = 1 /\ chan.cfg = 0 /\ ~chan.skip
  BY <1>1 DEF Chans
<1>5. Function(device, 0) = 0 /\ NumVidChannel \in Nat
  BY <1>1, FunctionFacts, DescriptorAssumption
<1>6. ~SkipsAt(device, 0) /\ ~\E t \in Positions(device, "vs") : t <= 0
  <2>1. \A k : \A i \in Positions(device, k) : ~(i <= 0)
    BY <1>1 DEF Positions
  <2> QED BY <2>1 DEF SkipsAt
<1>7. Described(device, vcfg, 0)
  BY <1>1, <1>5 DEF Described
<1>8. Walked(device, vcfg, chan, 0)
  BY <1>4, <1>5, <1>6, <1>7 DEF Walked
<1>9. QED BY <1>1, <1>2, <1>3, <1>4, <1>8 DEF VideoInv

\* Every step of either parser keeps VideoInv.
LEMMA VideoKeeps ==
  ASSUME VideoInv, [DescNext]_descVars
  PROVE  VideoInv'
<1>0. device \in Devices /\ parse \in Parses /\ vcfg \in ChannelTables /\ chan \in Chans
  BY DEF VideoInv
<1>1. CASE UNCHANGED descVars
  <2>1. Read' = Read /\ device' = device /\ parse' = parse /\ vcfg' = vcfg /\ chan' = chan
    BY <1>1 DEF descVars, Read
  <2> QED BY <2>1, VideoDescribedIs DEF VideoInv
<1>2. CASE VideoParse
  <2>1. /\ parse.by = "none" /\ parse.video = "none"
        /\ parse' = [parse EXCEPT !.by = "video", !.at = 1]
        /\ device' = device /\ vcfg' = vcfg /\ chan' = chan
    BY <1>2 DEF VideoParse, Rest
  <2>2. parse' \in Parses /\ parse'.by = "video" /\ parse'.at = 1 /\ parse'.video = "none"
    BY <1>0, <2>1, BeginFacts
  <2>3. Read = 0 /\ Read' = 0
    BY <2>1, <2>2 DEF Read
  <2>4. 1 <= Len(device) + 1
    <3>1. Len(device) \in Nat
      BY <1>0, DevicesAssumption, LenProperties DEF WellFormed
    <3> QED BY <3>1
  <2> QED BY <2>1, <2>2, <2>3, <2>4 DEF VideoInv
<1>3. ASSUME parse.by = "audio", Advance \/ Refuse, device' = device, vcfg' = vcfg, chan' = chan
      PROVE  VideoInv'
  <2>1. parse' \in Parses /\ parse'.by # "video" /\ parse'.video = parse.video
    BY <1>0, <1>3, MoveFacts
  <2> QED BY <1>3, <2>1, VideoRests
<1>4. CASE AudioParse
  <2>1. /\ parse.by = "none" /\ parse' = [parse EXCEPT !.by = "audio", !.at = 1]
        /\ device' = device /\ vcfg' = vcfg /\ chan' = chan
    BY <1>4 DEF AudioParse
  <2>2. parse' \in Parses /\ parse'.by = "audio" /\ parse'.video = parse.video
    BY <1>0, <2>1, BeginFacts
  <2> QED BY <2>1, <2>2, VideoRests
<1>5. CASE Ignore
  <2>1. CASE parse.by = "video"
    BY <1>5, <2>1, QuietStep
  <2>2. CASE parse.by # "video"
    <3>1. parse.by = "audio" /\ Advance /\ device' = device /\ vcfg' = vcfg /\ chan' = chan
      BY <1>5, <2>2 DEF Ignore, Parsing, Reading, AudioKinds, Rest
    <3> QED BY <1>3, <3>1
  <2> QED BY <2>1, <2>2
<1>6. CASE ParseAc \/ ParseAs
  <2>1. /\ parse.by = "audio" /\ device' = device /\ vcfg' = vcfg /\ chan' = chan
        /\ Advance \/ Refuse
    BY <1>6 DEF ParseAc, ParseAs, Parsing, Reading, AudioKinds, Rest
  <2> QED BY <1>3, <2>1
<1>7. CASE ParseEnd
  <2>1. parse.by # "none" /\ parse.at > Len(device) /\ device' = device /\ vcfg' = vcfg /\ chan' = chan
    BY <1>7 DEF ParseEnd, Rest
  <2>2. CASE parse.by = "video"
    <3>1. parse' = [parse EXCEPT !.by = "none", !.video = "parsed"]
      BY <1>7, <2>2 DEF ParseEnd
    <3>2. parse' \in Parses /\ parse'.by = "none" /\ parse'.video = "parsed"
      BY <1>0, <3>1, EndFacts
    <3>3. Read = Len(device)
      <4>1. parse.at \in Nat /\ Len(device) \in Nat /\ parse.at <= Len(device) + 1
        BY <1>0, <2>2, DevicesAssumption, LenProperties DEF VideoInv, Parses, WellFormed
      <4> QED BY <2>1, <2>2, <4>1 DEF Read
    <3>4. Described(device, vcfg, Len(device))
      BY <2>2, <3>3 DEF VideoInv, Walked
    <3>5. VideoDescribed(Len(device))'
      BY <2>1, <3>4, VideoDescribedIs
    <3> QED BY <1>0, <2>1, <3>2, <3>5 DEF VideoInv
  <2>3. CASE parse.by = "audio"
    <3>1. parse' \in Parses /\ parse'.by = "none" /\ parse'.video = parse.video
      <4>1. CASE Refuse
        BY <1>0, <2>3, <4>1, MoveFacts
      <4>2. CASE parse' = [parse EXCEPT !.by = "none", !.audio = "parsed"]
        BY <1>0, <4>2, EndFacts
      <4> QED BY <1>7, <2>3, <4>1, <4>2 DEF ParseEnd
    <3> QED BY <2>1, <2>3, <3>1, VideoRests
  <2> QED BY <1>0, <2>1, <2>2, <2>3 DEF Parses
<1>8. CASE ParseZero
  <2>1. parse.by = "video"
    BY <1>8 DEF ParseZero, Parsing, Reading, AudioKinds
  <2> QED BY <1>8, <2>1, QuietStep
<1>9. QED
  BY <1>1, <1>2, <1>4, <1>5, <1>6, <1>7, <1>8, VcStep, UnitStep, VsStep, FormatStep, FrameStep,
     EndpointStep DEF DescNext

-----------------------------------------------------------------------------
(* Both parsers *)

\* Before the walk no slot is taken.
LEMMA AudioBegins ==
  ASSUME DescInit
  PROVE  AudioInv
<1>1. /\ device \in Devices /\ rate \in Rates
      /\ parse = [by |-> "none", at |-> 1, video |-> "none", audio |-> "none"]
      /\ aud = [format |-> [i \in 0 .. MaxAudFmts - 1 |-> NoFormat], idx |-> 0, ctrlIf |-> 0,
                interface |-> 0, feature |-> 0, numChan |-> 0]
  BY DEF DescInit
<1>2. parse \in Parses /\ parse.audio = "none"
  BY <1>1 DEF Parses
<1>3. aud \in Auds /\ \A k \in 0 .. MaxAudFmts - 1 : aud.format[k] = NoFormat
  BY <1>1 DEF Auds, AudioFormats, NoFormat
<1>4. QED BY <1>1, <1>2, <1>3 DEF AudioInv

\* While the parsers walk, the tables hold what was read so far.
DescInv == AudioInv /\ VideoInv

\* Whatever well-formed configuration the camera has, and however often the audio is
\* initialised, the tables of the channels hold what was read of it, and the slots of the
\* audio its alternate settings.
THEOREM DescriptorsInvariant == Spec => []DescInv
<1>1. Init => DescInv
  BY AudioBegins, VideoBegins DEF Init, DescInv
<1>2. DescInv /\ [Next]_vars => DescInv'
  <2> SUFFICES ASSUME DescInv, [Next]_vars PROVE DescInv'
    OBVIOUS
  <2>1. [DescNext]_descVars
    BY DEF Next, VideoStart, vars
  <2> QED BY <2>1, AudioKeeps, VideoKeeps DEF DescInv
<1>3. QED BY <1>1, <1>2, PTL DEF Spec

\* A configuration that is accepted is understood as it is: every channel has the units,
\* formats, frames, intervals and alternate settings of its own function, and the audio an
\* alternate setting of the rate asked for.
THEOREM ParsedAsDescribedHolds == Spec => []ParsedAsDescribed
<1>1. DescInv => ParsedAsDescribed
  BY DEF DescInv, AudioInv, VideoInv, ParsedAsDescribed
<1>2. QED BY <1>1, DescriptorsInvariant, PTL
=============================================================================
