------------------------- MODULE BufferChain_proofs -------------------------
(***************************************************************************)
(* The chain of the three buffers is one bounded queue, for every depth of *)
(* the Fifo and all items.  Each buffer is shown to be a queue between its *)
(* channels; the chain follows, since concatenation is associative.        *)
(***************************************************************************)
EXTENDS BufferChain, Integers, SequenceTheorems, TLAPS

\* What crosses a channel in a clock, as a sequence of at most one item.
Opt(x) == IF x = None THEN <<>> ELSE <<x>>

\* Every entry between the pointers holds an item.
RingHolds == \A k \in 1 .. Ring!Count : entries[(rd_ptr + k - 1) % Depth] \in Items

IInv == TypeOK /\ FlagsAgree /\ RingHolds

\* The item at the Fifo's output, and what goes in and out of it.
RingItem        == IF Ring!Empty THEN None ELSE Ring!DataOut
RingIn(write)   == IF Ring!DoWrite(write) THEN write ELSE None
RingOut(read)   == IF Ring!DoRead(read) THEN Ring!DataOut ELSE None

-----------------------------------------------------------------------------
(* Pointers.                                                               *)

\* A pointer's low bits, its wrap bit and its successor.
LEMMA PointerIs ==
  ASSUME NEW p \in 0 .. 2 * Depth - 1
  PROVE  /\ p % Depth = IF p < Depth THEN p ELSE p - Depth
         /\ p \div Depth = IF p < Depth THEN 0 ELSE 1
         /\ (p + 1) % (2 * Depth) = IF p = 2 * Depth - 1 THEN 0 ELSE p + 1
<1>1. Depth \in Nat \ {0}
  BY BufferAssumption
<1>2. \A r \in 0 .. Depth - 1 : /\ r % Depth = r /\ (Depth + r) % Depth = r
                               /\ r \div Depth = 0 /\ (Depth + r) \div Depth = 1
  BY <1>1
<1>3. p \in 0 .. Depth - 1 \/ (p - Depth \in 0 .. Depth - 1 /\ p = Depth + (p - Depth))
  BY <1>1
<1>4. (p + 1) % (2 * Depth) = IF p = 2 * Depth - 1 THEN 0 ELSE p + 1
  <2> DEFINE W == 2 * Depth
  <2>1. W \in Nat \ {0} /\ p \in 0 .. W - 1
    BY <1>1
  <2> HIDE DEF W
  <2>2. (p + 1) % W = IF p = W - 1 THEN 0 ELSE p + 1
    <3>1. W % W = 0 /\ \A r \in 0 .. W - 1 : r % W = r
      BY <2>1
    <3> QED BY <2>1, <3>1
  <2> QED BY <2>2 DEF W
<1> QED BY <1>1, <1>2, <1>3, <1>4

\* The k-th entry behind a pointer.
LEMMA SlotIs ==
  ASSUME NEW p \in 0 .. 2 * Depth - 1, NEW k \in 0 .. Depth
  PROVE  (p + k) % Depth = IF p + k < Depth THEN p + k
                           ELSE IF p + k < 2 * Depth THEN p + k - Depth
                           ELSE IF p + k < 3 * Depth THEN p + k - 2 * Depth
                           ELSE 0
<1>1. Depth \in Nat \ {0}
  BY BufferAssumption
<1>2. \A r \in 0 .. Depth - 1 : /\ r % Depth = r /\ (Depth + r) % Depth = r
                               /\ (2 * Depth + r) % Depth = r /\ (3 * Depth + r) % Depth = r
  BY <1>1
<1>3. CASE p + k < Depth
  BY <1>1, <1>2, <1>3
<1>4. CASE Depth <= p + k /\ p + k < 2 * Depth
  <2>1. p + k - Depth \in 0 .. Depth - 1 /\ p + k = Depth + (p + k - Depth)
    BY <1>1, <1>4
  <2> QED BY <1>1, <1>2, <1>4, <2>1
<1>5. CASE 2 * Depth <= p + k
  <2>1. p + k - 2 * Depth \in 0 .. Depth - 1 /\ p + k = 2 * Depth + (p + k - 2 * Depth)
    BY <1>1, <1>5
  <2> QED BY <1>1, <1>2, <1>5, <2>1
<1> QED BY <1>1, <1>3, <1>4, <1>5

\* How far a pointer is behind another one, without a modulus.
LEMMA DistanceIs ==
  ASSUME NEW w \in 0 .. 2 * Depth - 1, NEW r \in 0 .. 2 * Depth - 1
  PROVE  /\ (w + 2 * Depth - r) % (2 * Depth) = IF r <= w THEN w - r ELSE w + 2 * Depth - r
         /\ (w + 2 * Depth - r) % (2 * Depth) \in 0 .. 2 * Depth - 1
<1> DEFINE W == 2 * Depth
<1>1. W \in Nat \ {0} /\ w \in 0 .. W - 1 /\ r \in 0 .. W - 1
  BY BufferAssumption
<1> HIDE DEF W
<1>2. \A i \in 0 .. W - 1 : i % W = i /\ (W + i) % W = i
  BY <1>1
<1>3. CASE r <= w
  <2>1. w - r \in 0 .. W - 1 /\ w + W - r = W + (w - r)
    BY <1>1, <1>3
  <2>2. (w + W - r) % W = w - r
    BY <1>2, <2>1
  <2> QED BY <1>3, <2>1, <2>2 DEF W
<1>4. CASE w < r
  <2>1. w + W - r \in 0 .. W - 1
    BY <1>1, <1>4
  <2>2. (w + W - r) % W = w + W - r
    BY <1>2, <2>1
  <2> QED BY <1>1, <1>4, <2>1, <2>2 DEF W
<1> QED BY <1>1, <1>3, <1>4

LEMMA CountIs ==
  ASSUME Ring!FifoTypeOK
  PROVE  /\ Ring!Count = IF rd_ptr <= wr_ptr THEN wr_ptr - rd_ptr
                         ELSE wr_ptr + 2 * Depth - rd_ptr
         /\ Ring!Count \in 0 .. 2 * Depth - 1
BY DistanceIs DEF Ring!FifoTypeOK, Ring!Count, Ring!Wrap

\* Fifo's flags of both versions: the pointers never are more than Depth apart
\* means that equal low bits tell empty and full apart by the wrap bits alone.
LEMMA FlagsFollow ==
  ASSUME Ring!FifoTypeOK, Ring!Count <= Depth
  PROVE  FlagsAgree
<1>1. Depth \in Nat \ {0} /\ wr_ptr \in 0 .. 2 * Depth - 1 /\ rd_ptr \in 0 .. 2 * Depth - 1
  BY BufferAssumption DEF Ring!FifoTypeOK, Ring!Wrap
<1>2. /\ wr_ptr % Depth = IF wr_ptr < Depth THEN wr_ptr ELSE wr_ptr - Depth
      /\ wr_ptr \div Depth = IF wr_ptr < Depth THEN 0 ELSE 1
  BY <1>1, PointerIs
<1>3. /\ rd_ptr % Depth = IF rd_ptr < Depth THEN rd_ptr ELSE rd_ptr - Depth
      /\ rd_ptr \div Depth = IF rd_ptr < Depth THEN 0 ELSE 1
  BY <1>1, PointerIs
<1>4. Ring!Count = IF rd_ptr <= wr_ptr THEN wr_ptr - rd_ptr ELSE wr_ptr + 2 * Depth - rd_ptr
  BY CountIs
<1>5. Ring!LowEq <=> IF wr_ptr < Depth
                     THEN rd_ptr = wr_ptr \/ rd_ptr = wr_ptr + Depth
                     ELSE rd_ptr = wr_ptr \/ rd_ptr = wr_ptr - Depth
  BY <1>1, <1>2, <1>3 DEF Ring!LowEq
<1>6. Ring!WrapDiff <=> ((wr_ptr < Depth) # (rd_ptr < Depth))
  BY <1>1, <1>2, <1>3 DEF Ring!WrapDiff
<1>7. Ring!StructEmpty <=> rd_ptr = wr_ptr
  BY <1>1, <1>5, <1>6 DEF Ring!StructEmpty
<1>8. Ring!StructFull <=> rd_ptr = wr_ptr + Depth \/ rd_ptr = wr_ptr - Depth
  BY <1>1, <1>5, <1>6 DEF Ring!StructFull
<1>9. (Ring!Count = 0 <=> rd_ptr = wr_ptr)
      /\ (Ring!Count = Depth <=> rd_ptr = wr_ptr + Depth \/ rd_ptr = wr_ptr - Depth)
  BY <1>1, <1>4
<1>10. {Ring!StructEmpty, Ring!Empty, Ring!StructFull, Ring!Full} \subseteq BOOLEAN
  BY DEF Ring!StructEmpty, Ring!Empty, Ring!StructFull, Ring!Full
<1> QED BY <1>7, <1>8, <1>9, <1>10 DEF FlagsAgree, Ring!Empty, Ring!Full

-----------------------------------------------------------------------------
(* Sequences.                                                              *)

LEMMA OptIs ==
  ASSUME NEW x \in Items \cup {None}
  PROVE  /\ Opt(x) \in Seq(Items)
         /\ Len(Opt(x)) = IF x = None THEN 0 ELSE 1
         /\ x # None => x \in Items /\ Opt(x)[1] = x
<1>1. CASE x = None
  BY <1>1, EmptySeq DEF Opt
<1>2. CASE x # None
  <2>1. x \in Items /\ <<x>> \in Seq(Items) /\ Len(<<x>>) = 1 /\ <<x>>[1] = x
    BY <1>2
  <2> QED BY <1>2, <2>1 DEF Opt
<1> QED BY <1>1, <1>2

\* The sequence x enters the queue q and the sequence y leaves it, which makes it r.
Moves(q, x, y, r) == q \o x = y \o r

\* A queue q is followed by r when y, its first item, leaves and x enters.
Shifts(q, x, y, r) ==
  /\ Len(r) = Len(q) + Len(Opt(x)) - Len(Opt(y))
  /\ y # None => Len(q) > 0 /\ q[1] = y
  /\ \A k \in 1 .. Len(q) - Len(Opt(y)) : r[k] = q[Len(Opt(y)) + k]
  /\ x # None => r[Len(r)] = x

LEMMA QueueShifts ==
  ASSUME NEW q \in Seq(Items), NEW r \in Seq(Items),
         NEW x \in Items \cup {None}, NEW y \in Items \cup {None},
         Shifts(q, x, y, r)
  PROVE  Moves(q, Opt(x), Opt(y), r)
<1> DEFINE i == Len(Opt(x))
           o == Len(Opt(y))
<1>0. /\ i \in Nat /\ o \in Nat
      /\ i = IF x = None THEN 0 ELSE 1
      /\ o = IF y = None THEN 0 ELSE 1
  BY OptIs
<1>1. /\ Opt(x) \in Seq(Items) /\ Opt(y) \in Seq(Items)
      /\ i = 1 => x # None /\ Opt(x)[1] = x
      /\ o = 1 => y # None /\ Opt(y)[1] = y
  BY <1>0, OptIs
<1>2. Len(q) \in Nat /\ Len(r) \in Nat
  BY LenProperties
<1>3. Len(r) = Len(q) + i - o
  BY DEF Shifts
<1>4. \A k \in 1 .. Len(q) - o : r[k] = q[o + k]
  BY DEF Shifts
<1>5. (o = 1 => Len(q) > 0 /\ q[1] = y) /\ (i = 1 => r[Len(r)] = x)
  BY <1>1 DEF Shifts
<1> DEFINE a == q \o Opt(x)
           b == Opt(y) \o r
<1>6. /\ a \in Seq(Items) /\ Len(a) = Len(q) + i
      /\ \A k \in 1 .. Len(q) + i : a[k] = IF k <= Len(q) THEN q[k] ELSE Opt(x)[k - Len(q)]
  BY <1>1, ConcatProperties, Zenon
<1>7. /\ b \in Seq(Items) /\ Len(b) = o + Len(r)
      /\ \A k \in 1 .. o + Len(r) : b[k] = IF k <= o THEN Opt(y)[k] ELSE r[k - o]
  BY <1>1, ConcatProperties, Zenon
<1> HIDE DEF a, b, i, o
<1>8. o + Len(r) = Len(q) + i
  BY <1>0, <1>2, <1>3
<1>9. ASSUME NEW k \in 1 .. Len(q) + i PROVE a[k] = b[k]
  <2>1. k \in Nat /\ 1 <= k /\ k <= Len(q) + i /\ k \in 1 .. o + Len(r)
    BY <1>0, <1>2, <1>8
  <2>2. CASE k <= o
    <3>1. o = 1 /\ k = 1
      BY <1>0, <2>1, <2>2
    <3>2. a[1] = q[1]
      BY <1>2, <1>5, <1>6, <3>1
    <3>3. b[1] = Opt(y)[1]
      BY <1>7, <2>1, <3>1
    <3> QED BY <1>1, <1>5, <3>1, <3>2, <3>3
  <2>3. CASE o < k /\ k <= Len(q)
    <3>1. k - o \in 1 .. Len(q) - o /\ o + (k - o) = k
      BY <1>0, <1>2, <2>1, <2>3
    <3>2. r[k - o] = q[k]
      BY <1>4, <3>1
    <3>3. a[k] = q[k]
      BY <1>6, <2>3
    <3>4. b[k] = r[k - o]
      BY <1>0, <1>7, <2>1, <2>3
    <3> QED BY <3>2, <3>3, <3>4
  <2>4. CASE o < k /\ Len(q) < k
    <3>1. i = 1 /\ k = Len(q) + 1
      BY <1>0, <1>2, <2>1, <2>4
    <3>2. k - Len(q) = 1 /\ k - o = Len(r)
      BY <1>0, <1>2, <1>8, <2>1, <3>1
    <3>3. a[k] = Opt(x)[1]
      BY <1>2, <1>6, <2>1, <2>4, <3>2
    <3>4. b[k] = r[Len(r)]
      BY <1>0, <1>7, <2>1, <2>4, <3>2
    <3> QED BY <1>1, <1>5, <3>1, <3>3, <3>4
  <2> QED BY <1>0, <1>2, <2>1, <2>2, <2>3, <2>4
<1>10. Len(a) = Len(b)
  BY <1>6, <1>7, <1>8
<1>11. a = b
  BY <1>6, <1>7, <1>9, <1>10, SeqEqual
<1> QED BY <1>11 DEF Moves, a, b

-----------------------------------------------------------------------------
(* The Fifo.                                                               *)

\* The items from entry r on are a sequence of items.
LEMMA WindowIs ==
  ASSUME NEW n \in Nat, NEW e, NEW r, \A k \in 1 .. n : e[(r + k - 1) % Depth] \in Items
  PROVE  LET q == [k \in 1 .. n |-> e[(r + k - 1) % Depth]]
         IN  /\ q \in Seq(Items)
             /\ Len(q) = n
             /\ \A k \in 1 .. n : q[k] = e[(r + k - 1) % Depth]
<1> DEFINE q == [k \in 1 .. n |-> e[(r + k - 1) % Depth]]
<1>1. q \in [1 .. n -> Items] /\ DOMAIN q = 1 .. n
  OBVIOUS
<1>2. q \in Seq(Items)
  BY <1>1, SeqDef
<1>3. Len(q) = n
  BY <1>1, <1>2, LenProperties
<1> QED BY <1>2, <1>3

\* One clock of the Fifo: the pointers stay apart by no more than Depth, the count
\* follows the channels, and no entry between the pointers is written.
LEMMA RingClock ==
  ASSUME Ring!FifoTypeOK, Ring!Count <= Depth, RingHolds,
         NEW write \in Items \cup {None}, NEW read \in BOOLEAN, Ring!FifoStep(write, read)
  PROVE  /\ Ring!FifoTypeOK'
         /\ Ring!Count' = Ring!Count + Len(Opt(RingIn(write))) - Len(Opt(RingOut(read)))
         /\ Ring!Count' <= Depth
         /\ RingIn(write) \in Items \cup {None} /\ RingOut(read) \in Items \cup {None}
         /\ RingOut(read) # None <=> Ring!DoRead(read)
         /\ RingIn(write) # None => Ring!Count < Depth
         /\ RingOut(read) # None =>
              Ring!Count > 0 /\ RingOut(read) = entries[rd_ptr % Depth]
         /\ \A k \in 1 .. Ring!Count - Len(Opt(RingOut(read))) :
              entries'[(rd_ptr' + k - 1) % Depth] =
                entries[(rd_ptr + Len(Opt(RingOut(read))) + k - 1) % Depth]
         /\ RingIn(write) # None => entries'[(rd_ptr' + Ring!Count' - 1) % Depth] = write
<1> DEFINE i == Len(Opt(RingIn(write)))
           o == Len(Opt(RingOut(read)))
<1>1. Depth \in Nat \ {0} /\ wr_ptr \in 0 .. 2 * Depth - 1 /\ rd_ptr \in 0 .. 2 * Depth - 1
  BY BufferAssumption DEF Ring!FifoTypeOK, Ring!Wrap
<1>2. Ring!Count \in 0 .. Depth
      /\ Ring!Count = IF rd_ptr <= wr_ptr THEN wr_ptr - rd_ptr ELSE wr_ptr + 2 * Depth - rd_ptr
  BY <1>1, CountIs
<1>3. Ring!DoRead(read) => Ring!Count > 0 /\ Ring!DataOut \in Items
  <2>1. Ring!Count # 0 => entries[(rd_ptr + 1 - 1) % Depth] \in Items
    BY <1>2 DEF RingHolds
  <2> QED BY <1>1, <1>2, <2>1 DEF Ring!DoRead, Ring!Empty, Ring!DataOut
<1>4. /\ RingIn(write) \in Items \cup {None} /\ RingOut(read) \in Items \cup {None}
      /\ RingOut(read) # None <=> Ring!DoRead(read)
      /\ RingIn(write) # None <=> Ring!DoWrite(write)
      /\ RingIn(write) # None => Ring!Count < Depth /\ RingIn(write) = write
  BY <1>1, <1>2, <1>3, BufferAssumption DEF RingIn, RingOut, Ring!DoWrite, Ring!Full
<1>5. /\ i = IF Ring!DoWrite(write) THEN 1 ELSE 0
      /\ o = IF Ring!DoRead(read) THEN 1 ELSE 0
  BY <1>4, OptIs
<1>6. /\ wr_ptr' = IF i = 0 THEN wr_ptr
                   ELSE IF wr_ptr = 2 * Depth - 1 THEN 0 ELSE wr_ptr + 1
      /\ rd_ptr' = IF o = 0 THEN rd_ptr
                   ELSE IF rd_ptr = 2 * Depth - 1 THEN 0 ELSE rd_ptr + 1
  <2>1. (wr_ptr + 1) % (2 * Depth) = IF wr_ptr = 2 * Depth - 1 THEN 0 ELSE wr_ptr + 1
    BY <1>1, PointerIs
  <2>2. (rd_ptr + 1) % (2 * Depth) = IF rd_ptr = 2 * Depth - 1 THEN 0 ELSE rd_ptr + 1
    BY <1>1, PointerIs
  <2> QED BY <1>5, <2>1, <2>2 DEF Ring!FifoStep, Ring!Wrap
<1>7. wr_ptr % Depth \in 0 .. Depth - 1
  BY <1>1
<1>8. Ring!FifoTypeOK'
  <2>1. entries' \in [0 .. Depth - 1 -> Items \cup {None}]
    BY <1>7 DEF Ring!FifoStep, Ring!FifoTypeOK
  <2>2. wr_ptr' \in 0 .. 2 * Depth - 1 /\ rd_ptr' \in 0 .. 2 * Depth - 1
    BY <1>1, <1>6
  <2> QED BY <2>1, <2>2 DEF Ring!FifoTypeOK, Ring!Wrap
<1>9. Ring!Count' = IF rd_ptr' <= wr_ptr' THEN wr_ptr' - rd_ptr'
                    ELSE wr_ptr' + 2 * Depth - rd_ptr'
  BY <1>8, DistanceIs DEF Ring!FifoTypeOK, Ring!Count, Ring!Wrap
<1>10. Ring!Count' = Ring!Count + i - o
  BY <1>1, <1>2, <1>3, <1>4, <1>5, <1>6, <1>9
<1>11. Ring!Count' <= Depth
  BY <1>1, <1>2, <1>3, <1>4, <1>5, <1>10
\* The slot of the k-th item does not depend on how the pointer gets there.
<1>12. ASSUME NEW k \in 1 .. Depth
       PROVE  (rd_ptr' + k - 1) % Depth = (rd_ptr + o + k - 1) % Depth
  <2>1. rd_ptr' \in 0 .. 2 * Depth - 1 /\ k - 1 \in 0 .. Depth /\ o + k - 1 \in 0 .. Depth
    BY <1>1, <1>5, <1>6
  <2>2. (rd_ptr' + (k - 1)) % Depth =
          IF rd_ptr' + (k - 1) < Depth THEN rd_ptr' + (k - 1)
          ELSE IF rd_ptr' + (k - 1) < 2 * Depth THEN rd_ptr' + (k - 1) - Depth
          ELSE IF rd_ptr' + (k - 1) < 3 * Depth THEN rd_ptr' + (k - 1) - 2 * Depth
          ELSE 0
    BY <2>1, SlotIs
  <2>3. (rd_ptr + (o + k - 1)) % Depth =
          IF rd_ptr + (o + k - 1) < Depth THEN rd_ptr + (o + k - 1)
          ELSE IF rd_ptr + (o + k - 1) < 2 * Depth THEN rd_ptr + (o + k - 1) - Depth
          ELSE IF rd_ptr + (o + k - 1) < 3 * Depth THEN rd_ptr + (o + k - 1) - 2 * Depth
          ELSE 0
    BY <1>1, <2>1, SlotIs
  <2>4. (rd_ptr' + (k - 1)) % Depth = (rd_ptr + (o + k - 1)) % Depth
    BY <1>1, <1>5, <1>6, <2>1, <2>2, <2>3
  <2>5. rd_ptr' + (k - 1) = rd_ptr' + k - 1 /\ rd_ptr + (o + k - 1) = rd_ptr + o + k - 1
    BY <1>1, <1>5, <2>1
  <2> QED BY <2>4, <2>5
\* The slot written is the one behind the last item, and no item's.
<1>13. (rd_ptr + Ring!Count) % Depth = wr_ptr % Depth
  <2>1. wr_ptr % Depth = IF wr_ptr < Depth THEN wr_ptr ELSE wr_ptr - Depth
    BY <1>1, PointerIs
  <2>2. (rd_ptr + Ring!Count) % Depth =
          IF rd_ptr + Ring!Count < Depth THEN rd_ptr + Ring!Count
          ELSE IF rd_ptr + Ring!Count < 2 * Depth THEN rd_ptr + Ring!Count - Depth
          ELSE IF rd_ptr + Ring!Count < 3 * Depth THEN rd_ptr + Ring!Count - 2 * Depth
          ELSE 0
    BY <1>1, <1>2, SlotIs
  <2> QED BY <1>1, <1>2, <2>1, <2>2
<1>14. ASSUME NEW k \in 1 .. Ring!Count, Ring!Count < Depth
       PROVE  (rd_ptr + k - 1) % Depth # wr_ptr % Depth
  <2>1. wr_ptr % Depth = IF wr_ptr < Depth THEN wr_ptr ELSE wr_ptr - Depth
    BY <1>1, PointerIs
  <2>2. k - 1 \in 0 .. Depth /\ rd_ptr + (k - 1) = rd_ptr + k - 1
    BY <1>1, <1>2
  <2>3. (rd_ptr + (k - 1)) % Depth =
          IF rd_ptr + (k - 1) < Depth THEN rd_ptr + (k - 1)
          ELSE IF rd_ptr + (k - 1) < 2 * Depth THEN rd_ptr + (k - 1) - Depth
          ELSE IF rd_ptr + (k - 1) < 3 * Depth THEN rd_ptr + (k - 1) - 2 * Depth
          ELSE 0
    BY <1>1, <2>2, SlotIs
  <2> QED BY <1>1, <1>2, <1>14, <2>1, <2>2, <2>3
<1>15. ASSUME NEW k \in 1 .. Ring!Count - o
       PROVE  entries'[(rd_ptr' + k - 1) % Depth] = entries[(rd_ptr + o + k - 1) % Depth]
  <2> DEFINE slot == (rd_ptr + o + k - 1) % Depth
  <2>1. k \in 1 .. Depth /\ o + k \in 1 .. Ring!Count /\ rd_ptr + (o + k) - 1 = rd_ptr + o + k - 1
    BY <1>1, <1>2, <1>5
  <2>2. slot \in 0 .. Depth - 1
    BY <1>1, <1>5, <2>1
  <2>3. Ring!DoWrite(write) => slot # wr_ptr % Depth
    BY <1>4, <1>14, <2>1
  <2>4. entries'[slot] = entries[slot]
    BY <2>2, <2>3 DEF Ring!FifoStep, Ring!FifoTypeOK
  <2> QED BY <1>12, <2>1, <2>4
<1>16. ASSUME RingIn(write) # None
       PROVE  entries'[(rd_ptr' + Ring!Count' - 1) % Depth] = write
  <2>1. Ring!DoWrite(write) /\ i = 1
    BY <1>4, <1>5, <1>16
  <2>2. Ring!Count' \in 1 .. Depth /\ rd_ptr + o + Ring!Count' - 1 = rd_ptr + Ring!Count
    BY <1>1, <1>2, <1>3, <1>5, <1>10, <1>11, <2>1
  <2>3. (rd_ptr' + Ring!Count' - 1) % Depth = wr_ptr % Depth
    BY <1>12, <1>13, <2>2
  <2> QED BY <1>7, <2>1, <2>3 DEF Ring!FifoStep, Ring!FifoTypeOK
<1>17. RingOut(read) # None => Ring!Count > 0 /\ RingOut(read) = entries[rd_ptr % Depth]
  BY <1>3, <1>4 DEF RingOut, Ring!DataOut
<1> QED BY <1>4, <1>8, <1>10, <1>11, <1>15, <1>16, <1>17

\* The Fifo is a queue between its channels.
LEMMA RingMoves ==
  ASSUME Ring!FifoTypeOK, Ring!Count <= Depth, RingHolds,
         NEW write \in Items \cup {None}, NEW read \in BOOLEAN, Ring!FifoStep(write, read)
  PROVE  /\ RingHolds'
         /\ Ring!FifoQueue \in Seq(Items) /\ Ring!FifoQueue' \in Seq(Items)
         /\ Moves(Ring!FifoQueue, Opt(RingIn(write)), Opt(RingOut(read)), Ring!FifoQueue')
<1> DEFINE i == Len(Opt(RingIn(write)))
           o == Len(Opt(RingOut(read)))
           q == Ring!FifoQueue
           n == Ring!Count
<1>1. n \in 0 .. Depth /\ Depth \in Nat
  BY CountIs, BufferAssumption
<1>2. /\ n' = n + i - o
      /\ \A k \in 1 .. n - o : entries'[(rd_ptr' + k - 1) % Depth]
                                 = entries[(rd_ptr + o + k - 1) % Depth]
      /\ RingIn(write) # None => entries'[(rd_ptr' + n' - 1) % Depth] = write
      /\ RingOut(read) # None => n > 0 /\ RingOut(read) = entries[rd_ptr % Depth]
      /\ RingIn(write) \in Items \cup {None} /\ RingOut(read) \in Items \cup {None}
  BY RingClock
<1>3. /\ i = IF RingIn(write) = None THEN 0 ELSE 1
      /\ o = IF RingOut(read) = None THEN 0 ELSE 1
      /\ Opt(RingIn(write)) \in Seq(Items) /\ Opt(RingOut(read)) \in Seq(Items)
      /\ RingIn(write) # None => Opt(RingIn(write))[1] = write
      /\ RingOut(read) # None => Opt(RingOut(read))[1] = entries[rd_ptr % Depth]
  BY <1>2, OptIs DEF RingIn
<1>4. n' \in Nat
  BY <1>1, <1>2, <1>3
<1>5. rd_ptr \in Nat
  BY BufferAssumption DEF Ring!FifoTypeOK, Ring!Wrap
<1>6. ASSUME NEW k \in 1 .. n - o
      PROVE  entries'[(rd_ptr' + k - 1) % Depth] = q[o + k] /\ q[o + k] \in Items
  <2>1. o + k \in 1 .. n /\ rd_ptr + (o + k) - 1 = rd_ptr + o + k - 1
    BY <1>1, <1>3, <1>5
  <2>2. q[o + k] = entries[(rd_ptr + (o + k) - 1) % Depth]
    BY <2>1 DEF Ring!FifoQueue
  <2>3. entries[(rd_ptr + (o + k) - 1) % Depth] \in Items
    BY <2>1 DEF RingHolds
  <2> QED BY <1>2, <2>1, <2>2, <2>3
<1>7. RingHolds'
  <2> SUFFICES ASSUME NEW k \in 1 .. n'
               PROVE  entries'[(rd_ptr' + k - 1) % Depth] \in Items
    BY DEF RingHolds
  <2>1. CASE k <= n - o
    BY <1>1, <1>3, <1>6, <2>1
  <2>2. CASE n - o < k
    <3>1. RingIn(write) # None /\ k = n'
      BY <1>1, <1>2, <1>3, <2>2
    <3> QED BY <1>2, <3>1 DEF RingIn
  <2> QED BY <1>1, <1>3, <2>1, <2>2
<1>8. q \in Seq(Items) /\ Len(q) = n
  BY <1>1, WindowIs DEF RingHolds, Ring!FifoQueue
<1>9. /\ q' \in Seq(Items) /\ Len(q') = n'
      /\ \A k \in 1 .. n' : q'[k] = entries'[(rd_ptr' + k - 1) % Depth]
  BY <1>4, <1>7, WindowIs DEF RingHolds, Ring!FifoQueue
<1>10. Moves(q, Opt(RingIn(write)), Opt(RingOut(read)), q')
  <2>1. Len(q') = Len(q) + i - o
    BY <1>2, <1>8, <1>9
  <2>2. RingOut(read) # None => Len(q) > 0 /\ q[1] = RingOut(read)
    <3>1. 1 <= n => q[1] = entries[(rd_ptr + 1 - 1) % Depth]
      BY <1>1 DEF Ring!FifoQueue
    <3> QED BY <1>1, <1>2, <1>3, <1>5, <1>8, <3>1
  <2>3. \A k \in 1 .. Len(q) - o : q'[k] = q[o + k]
    <3> SUFFICES ASSUME NEW k \in 1 .. n - o PROVE q'[k] = q[o + k]
      BY <1>8
    <3>1. k \in 1 .. n'
      BY <1>1, <1>2, <1>3
    <3> QED BY <1>6, <1>9, <3>1
  <2>4. RingIn(write) # None => q'[Len(q')] = RingIn(write)
    <3>1. RingIn(write) # None => n' \in 1 .. n'
      BY <1>1, <1>2, <1>3
    <3> QED BY <1>2, <1>3, <1>9, <3>1 DEF RingIn
  <2>5. /\ q \in Seq(Items) /\ q' \in Seq(Items)
        /\ RingIn(write) \in Items \cup {None} /\ RingOut(read) \in Items \cup {None}
    BY <1>2, <1>8, <1>9
  <2>6. Shifts(q, RingIn(write), RingOut(read), q')
    BY <2>1, <2>2, <2>3, <2>4 DEF Shifts
  <2> QED BY <2>5, <2>6, QueueShifts
<1> QED BY <1>7, <1>8, <1>9, <1>10

-----------------------------------------------------------------------------
(* The two stages of registers.                                            *)

FlowItem(in) == IF Flow!OutValid(in) THEN Flow!OutData(in) ELSE None
FlowIn(in)   == IF Flow!InReady THEN in ELSE None

\* FlowThroughBuffer is a queue of one between its channels, an item that passes
\* through included.
LEMMA FlowMoves ==
  ASSUME Flow!FlowTypeOK, NEW in \in Items \cup {None}, NEW out_ready \in BOOLEAN,
         Flow!FlowStep(in, out_ready)
  PROVE  /\ full' \in BOOLEAN /\ entry' \in Items \cup {None} /\ (full' => entry' \in Items)
         /\ FlowItem(in) \in Items \cup {None} /\ FlowIn(in) \in Items \cup {None}
         /\ Flow!FlowQueue \in Seq(Items) /\ Flow!FlowQueue' \in Seq(Items)
         /\ FlowIn(in) # None => Flow!FlowQueue = <<>>
         /\ Flow!FlowQueue \o Opt(FlowIn(in))
              = Opt(IF out_ready THEN FlowItem(in) ELSE None) \o Flow!FlowQueue'
<1> DEFINE e == IF full THEN entry ELSE None
<1>1. full \in BOOLEAN /\ entry \in Items \cup {None} /\ (full => entry \in Items)
  BY DEF Flow!FlowTypeOK
<1>2. None \notin Items
  BY BufferAssumption
<1>3. /\ full' = ((full \/ in # None) /\ ~out_ready)
      /\ entry' = IF full THEN entry ELSE in
  BY DEF Flow!FlowStep, Flow!OutValid
<1>4. FlowItem(in) = IF full THEN entry ELSE in
  BY DEF FlowItem, Flow!OutValid, Flow!OutData
<1>5. FlowIn(in) = IF full THEN None ELSE in
  BY DEF FlowIn, Flow!InReady
<1>6. Flow!FlowQueue = Opt(IF full THEN entry ELSE None)
  BY <1>1, <1>2 DEF Flow!FlowQueue, Opt
<1>7. Flow!FlowQueue' = Opt(IF out_ready THEN None ELSE FlowItem(in))
  BY <1>1, <1>2, <1>3, <1>4 DEF Flow!FlowQueue, Opt
<1>8. \A x \in Items \cup {None} :
        /\ Opt(x) \in Seq(Items)
        /\ Opt(x) \o Opt(None) = Opt(x) /\ Opt(None) \o Opt(x) = Opt(x)
  BY OptIs, ConcatEmptySeq DEF Opt
<1>9. FlowItem(in) \in Items \cup {None} /\ FlowIn(in) \in Items \cup {None}
  BY <1>1, <1>4, <1>5
<1>10. Flow!FlowQueue \o Opt(FlowIn(in))
         = Opt(IF out_ready THEN FlowItem(in) ELSE None) \o Flow!FlowQueue'
  <2>1. CASE full
    BY <1>1, <1>4, <1>5, <1>6, <1>7, <1>8, <2>1
  <2>2. CASE ~full
    BY <1>1, <1>4, <1>5, <1>6, <1>7, <1>8, <2>2
  <2> QED BY <2>1, <2>2
<1>11. Flow!FlowQueue \in Seq(Items) /\ Flow!FlowQueue' \in Seq(Items)
  <2>1. (IF full THEN entry ELSE None) \in Items \cup {None}
        /\ (IF out_ready THEN None ELSE FlowItem(in)) \in Items \cup {None}
    BY <1>1, <1>9
  <2> QED BY <1>6, <1>7, <1>8, <2>1
<1>12. FlowIn(in) # None => Flow!FlowQueue = <<>>
  BY <1>5 DEF Flow!FlowQueue
<1> QED BY <1>1, <1>3, <1>9, <1>10, <1>11, <1>12

SkidIn(in)         == IF Skid!InReady THEN in ELSE None
SkidOut(out_ready) == IF out_valid /\ out_ready THEN out_data ELSE None

\* SkidBuffer is a queue of two between its channels.
LEMMA SkidMoves ==
  ASSUME Skid!SkidTypeOK, NEW in \in Items \cup {None}, NEW out_ready \in BOOLEAN,
         Skid!SkidStep(in, out_ready)
  PROVE  /\ {out_valid', skid_valid'} \subseteq BOOLEAN
         /\ {out_data', skid_data'} \subseteq Items \cup {None}
         /\ out_valid' => out_data' \in Items
         /\ skid_valid' => out_valid' /\ skid_data' \in Items
         /\ SkidIn(in) \in Items \cup {None} /\ SkidOut(out_ready) \in Items \cup {None}
         /\ Skid!SkidQueue \in Seq(Items) /\ Skid!SkidQueue' \in Seq(Items)
         /\ Len(Skid!SkidQueue) <= 2
         /\ Skid!SkidQueue \o Opt(SkidIn(in)) = Opt(SkidOut(out_ready)) \o Skid!SkidQueue'
<1> DEFINE first  == IF out_valid THEN out_data ELSE None
           second == IF skid_valid THEN skid_data ELSE None
           stall  == out_valid /\ ~out_ready
           first1  == IF stall THEN out_data ELSE IF skid_valid THEN skid_data ELSE in
           second1 == IF stall THEN (IF skid_valid THEN skid_data ELSE in) ELSE None
<1>1. /\ out_valid \in BOOLEAN /\ skid_valid \in BOOLEAN
      /\ out_data \in Items \cup {None} /\ skid_data \in Items \cup {None}
      /\ out_valid => out_data \in Items
      /\ skid_valid => out_valid /\ skid_data \in Items
  BY DEF Skid!SkidTypeOK
<1>2. None \notin Items
  BY BufferAssumption
<1>3. /\ out_valid' = (stall \/ skid_valid \/ in # None)
      /\ skid_valid' = (stall /\ (skid_valid \/ in # None))
      /\ out_data' = IF stall THEN out_data ELSE IF skid_valid THEN skid_data ELSE in
      /\ skid_data' = IF skid_valid THEN skid_data ELSE in
  BY DEF Skid!SkidStep, Skid!Stall, Skid!AnyItem
<1>4. {first, second, first1, second1} \subseteq Items \cup {None}
  BY <1>1
<1>5. Skid!SkidQueue = Opt(first) \o Opt(second)
  BY <1>1, <1>2 DEF Skid!SkidQueue, Opt
<1>6. Skid!SkidQueue' = Opt(first1) \o Opt(second1)
  <2>1. (IF out_valid' THEN <<out_data'>> ELSE <<>>) = Opt(first1)
    BY <1>1, <1>2, <1>3 DEF Opt
  <2>2. (IF skid_valid' THEN <<skid_data'>> ELSE <<>>) = Opt(second1)
    BY <1>1, <1>2, <1>3 DEF Opt
  <2> QED BY <2>1, <2>2 DEF Skid!SkidQueue
<1>7. SkidIn(in) = IF skid_valid THEN None ELSE in
  BY <1>1 DEF SkidIn, Skid!InReady
<1>8. SkidOut(out_ready) = IF stall THEN None ELSE first
  BY <1>1 DEF SkidOut
<1>9. \A x \in Items \cup {None} :
        /\ Opt(x) \in Seq(Items) /\ Len(Opt(x)) <= 1 /\ Len(Opt(x)) \in Nat
        /\ Opt(x) \o Opt(None) = Opt(x) /\ Opt(None) \o Opt(x) = Opt(x)
  BY OptIs, ConcatEmptySeq DEF Opt
<1>10. \A x, y \in Items \cup {None} :
         /\ Opt(x) \o Opt(y) \in Seq(Items) /\ Len(Opt(x) \o Opt(y)) <= 2
         /\ (Opt(x) \o Opt(y)) \o Opt(None) = Opt(x) \o Opt(y)
         /\ Opt(None) \o (Opt(x) \o Opt(y)) = Opt(x) \o Opt(y)
  <2> SUFFICES ASSUME NEW x \in Items \cup {None}, NEW y \in Items \cup {None}
               PROVE  /\ Opt(x) \o Opt(y) \in Seq(Items) /\ Len(Opt(x) \o Opt(y)) <= 2
                      /\ (Opt(x) \o Opt(y)) \o Opt(None) = Opt(x) \o Opt(y)
                      /\ Opt(None) \o (Opt(x) \o Opt(y)) = Opt(x) \o Opt(y)
    OBVIOUS
  <2>1. Opt(x) \o Opt(y) \in Seq(Items) /\ Len(Opt(x) \o Opt(y)) = Len(Opt(x)) + Len(Opt(y))
    BY <1>9, ConcatProperties
  <2> QED BY <1>9, <2>1, ConcatEmptySeq DEF Opt
<1>11. Skid!SkidQueue \o Opt(SkidIn(in)) = Opt(SkidOut(out_ready)) \o Skid!SkidQueue'
  <2>1. CASE skid_valid /\ stall
    <3>1. first = out_data /\ second = skid_data /\ first1 = out_data /\ second1 = skid_data
      BY <1>1, <2>1
    <3>2. SkidIn(in) = None /\ SkidOut(out_ready) = None
      BY <1>7, <1>8, <2>1
    <3>3. Skid!SkidQueue = Opt(out_data) \o Opt(skid_data)
          /\ Skid!SkidQueue' = Opt(out_data) \o Opt(skid_data)
      BY <1>5, <1>6, <3>1
    <3>4. LET s == Opt(out_data) \o Opt(skid_data) IN s \o Opt(None) = s /\ Opt(None) \o s = s
      BY <1>1, <1>10
    <3> QED BY <3>2, <3>3, <3>4
  <2>2. CASE skid_valid /\ ~stall
    <3>1. out_valid /\ first = out_data /\ second = skid_data
          /\ first1 = skid_data /\ second1 = None
      BY <1>1, <2>2
    <3>2. out_data \in Items \cup {None} /\ skid_data \in Items \cup {None}
      BY <1>1
    <3>3. SkidIn(in) = None /\ SkidOut(out_ready) = out_data
      BY <1>7, <1>8, <2>2, <3>1
    <3>4. Skid!SkidQueue = Opt(out_data) \o Opt(skid_data)
          /\ Skid!SkidQueue' = Opt(skid_data) \o Opt(None)
      BY <1>5, <1>6, <3>1
    <3>5. LET s == Opt(out_data) \o Opt(skid_data) IN
          s \o Opt(None) = s /\ Opt(skid_data) \o Opt(None) = Opt(skid_data)
      BY <1>9, <1>10, <3>2
    <3> QED BY <3>3, <3>4, <3>5
  <2>3. CASE ~skid_valid /\ stall
    <3>1. first = out_data /\ second = None /\ first1 = out_data /\ second1 = in
      BY <1>1, <2>3
    <3>2. SkidIn(in) = in /\ SkidOut(out_ready) = None
      BY <1>7, <1>8, <2>3
    <3>3. Skid!SkidQueue = Opt(out_data) \o Opt(None)
          /\ Skid!SkidQueue' = Opt(out_data) \o Opt(in)
      BY <1>5, <1>6, <3>1
    <3>4. LET s == Opt(out_data) \o Opt(in) IN
          Opt(None) \o s = s /\ Opt(out_data) \o Opt(None) = Opt(out_data)
      BY <1>1, <1>9, <1>10
    <3> QED BY <3>2, <3>3, <3>4
  <2>4. CASE ~skid_valid /\ ~stall
    <3>1. second = None /\ first1 = in /\ second1 = None
      BY <1>1, <2>4
    <3>2. SkidIn(in) = in /\ SkidOut(out_ready) = first
      BY <1>7, <1>8, <2>4
    <3> QED BY <1>4, <1>5, <1>6, <1>9, <3>1, <3>2
  <2> QED BY <1>1, <2>1, <2>2, <2>3, <2>4
<1>12. /\ Skid!SkidQueue \in Seq(Items) /\ Skid!SkidQueue' \in Seq(Items)
       /\ Len(Skid!SkidQueue) <= 2
  BY <1>4, <1>5, <1>6, <1>10
<1>13. SkidIn(in) \in Items \cup {None} /\ SkidOut(out_ready) \in Items \cup {None}
  BY <1>4, <1>7, <1>8
<1>14. /\ {out_valid', skid_valid'} \subseteq BOOLEAN
       /\ {out_data', skid_data'} \subseteq Items \cup {None}
       /\ out_valid' => out_data' \in Items
       /\ skid_valid' => out_valid' /\ skid_data' \in Items
  BY <1>1, <1>3
<1> QED BY <1>11, <1>12, <1>13, <1>14

-----------------------------------------------------------------------------
(* The chain.                                                              *)

Assoc(s, t, u) == (s \o t) \o u = s \o (t \o u)

LEMMA Associative ==
  ASSUME NEW s \in Seq(Items), NEW t \in Seq(Items), NEW u \in Seq(Items)
  PROVE  Assoc(s, t, u)
BY ConcatAssociative DEF Assoc

\* Two queues one after another are a queue: what leaves one enters the next.
LEMMA TwoQueues ==
  ASSUME NEW r \in Seq(Items), NEW f \in Seq(Items), NEW r1 \in Seq(Items),
         NEW f1 \in Seq(Items), NEW x \in Seq(Items), NEW y \in Seq(Items),
         NEW z \in Seq(Items), Moves(f, x, y, f1), Moves(r, y, z, r1)
  PROVE  Moves(r \o f, x, z, r1 \o f1)
<1>1. f \o x = y \o f1 /\ r \o y = z \o r1
  BY DEF Moves
<1>2. Assoc(r, f, x) /\ Assoc(r, y, f1) /\ Assoc(z, r1, f1)
  BY Associative
<1>3. (r \o f) \o x = z \o (r1 \o f1)
  BY <1>1, <1>2, Zenon DEF Assoc
<1> QED BY <1>3 DEF Moves

\* The move of a queue that equation describes: x is appended, y was the first.
Becomes(q, x, y, r) ==
  LET z == IF x = None THEN q ELSE Append(q, x)
  IN  /\ y = None => r = z
      /\ y # None => z # <<>> /\ Head(z) = y /\ Tail(z) = r

LEMMA MoveIs ==
  ASSUME NEW q \in Seq(Items), NEW r \in Seq(Items),
         NEW x \in Items \cup {None}, NEW y \in Items \cup {None},
         Moves(q, Opt(x), Opt(y), r)
  PROVE  Becomes(q, x, y, r)
<1> DEFINE z == IF x = None THEN q ELSE Append(q, x)
<1>1. z = q \o Opt(x)
  BY AppendIsConcat, ConcatEmptySeq DEF Opt
<1>2. z = Opt(y) \o r /\ Opt(y) \in Seq(Items)
  BY <1>1, OptIs DEF Moves
<1>3. CASE y = None
  <2>1. z = r
    BY <1>2, <1>3, ConcatEmptySeq DEF Opt
  <2> QED BY <1>3, <2>1 DEF Becomes
<1>4. CASE y # None
  <2> HIDE DEF z
  <2>1. Len(Opt(y)) = 1 /\ Opt(y)[1] = y /\ Len(r) \in Nat
    BY <1>4, OptIs, LenProperties
  <2>2. /\ z \in Seq(Items) /\ Len(z) = 1 + Len(r)
        /\ \A k \in 1 .. 1 + Len(r) : z[k] = IF k <= 1 THEN y ELSE r[k - 1]
    <3>1. LET c == Opt(y) \o r IN
          /\ c \in Seq(Items) /\ Len(c) = Len(Opt(y)) + Len(r)
          /\ \A k \in 1 .. Len(Opt(y)) + Len(r) :
               c[k] = IF k <= Len(Opt(y)) THEN Opt(y)[k] ELSE r[k - Len(Opt(y))]
      BY <1>2, ConcatProperties, Zenon
    <3>2. /\ z \in Seq(Items) /\ Len(z) = 1 + Len(r)
          /\ \A k \in 1 .. 1 + Len(r) : z[k] = IF k <= 1 THEN Opt(y)[k] ELSE r[k - 1]
      BY <1>2, <2>1, <3>1
    <3> QED BY <2>1, <3>2
  <2>3. z # <<>> /\ Head(z) = y
    BY <2>1, <2>2
  <2>4. /\ Tail(z) \in Seq(Items) /\ Len(Tail(z)) = Len(r)
        /\ \A k \in 1 .. Len(r) : Tail(z)[k] = z[k + 1]
    BY <2>1, <2>2, <2>3, HeadTailProperties
  <2>5. \A k \in 1 .. Len(r) : Tail(z)[k] = r[k]
    BY <2>1, <2>2, <2>4
  <2>6. Tail(z) = r
    BY <2>4, <2>5, SeqEqual
  <2> QED BY <1>4, <2>3, <2>6 DEF Becomes, z
<1> QED BY <1>3, <1>4

LEMMA InitIs == Init => IInv /\ Queue!QueueInit
<1> SUFFICES ASSUME Init PROVE IInv /\ Queue!QueueInit
  OBVIOUS
<1> USE DEF Init, Flow!FlowInit, Ring!FifoInit, Skid!SkidInit
<1>1. Depth \in Nat \ {0}
  BY BufferAssumption
<1>2. TypeOK
  <2>1. Flow!FlowTypeOK
    BY DEF Flow!FlowTypeOK
  <2>2. Ring!FifoTypeOK
    <3>1. entries \in [0 .. Depth - 1 -> Items \cup {None}]
      OBVIOUS
    <3>2. 0 \in 0 .. 2 * Depth - 1
      BY <1>1
    <3> QED BY <3>1, <3>2 DEF Ring!FifoTypeOK, Ring!Wrap
  <2>3. Skid!SkidTypeOK
    BY DEF Skid!SkidTypeOK
  <2> QED BY <2>1, <2>2, <2>3 DEF TypeOK
<1>3. Ring!Count = 0
  BY <1>1, <1>2, CountIs DEF TypeOK
<1>4. FlagsAgree
  BY <1>1, <1>2, <1>3, FlagsFollow DEF TypeOK
<1>5. RingHolds
  BY <1>3 DEF RingHolds
<1>6. Ring!FifoQueue = <<>> /\ Flow!FlowQueue = <<>> /\ Skid!SkidQueue = <<>>
  BY <1>3 DEF Ring!FifoQueue, Flow!FlowQueue, Skid!SkidQueue
<1>7. ChainQueue = <<>>
  BY <1>6 DEF ChainQueue
<1> QED BY <1>2, <1>4, <1>5, <1>7 DEF IInv, Queue!QueueInit

\* One clock of the chain keeps the invariant, and is a move of the queue.
LEMMA ClockMoves ==
  ASSUME IInv, NEW in \in Items \cup {None}, NEW out_ready \in BOOLEAN, Clock(in, out_ready)
  PROVE  IInv' /\ Queue!QueueNext
<1> DEFINE flow_item == FlowItem(in)
<1>1. /\ Flow!FlowTypeOK /\ Ring!FifoTypeOK /\ Skid!SkidTypeOK
      /\ Ring!Count <= Depth /\ RingHolds
      /\ {put, got} \subseteq Items \cup {None}
  BY DEF IInv, TypeOK, FlagsAgree, Flow!FlowTypeOK
<1>2. /\ Flow!FlowStep(in, ~Ring!Full)
      /\ Ring!FifoStep(FlowItem(in), Skid!InReady)
      /\ Skid!SkidStep(RingItem, out_ready)
      /\ put' = FlowIn(in)
      /\ got' = SkidOut(out_ready)
  BY DEF Clock, FlowItem, RingItem, FlowIn, SkidOut
<1>3. (~Ring!Full) \in BOOLEAN /\ Skid!InReady \in BOOLEAN
  BY DEF Ring!Full, Skid!InReady
<1>4. /\ full' \in BOOLEAN /\ entry' \in Items \cup {None} /\ (full' => entry' \in Items)
      /\ FlowItem(in) \in Items \cup {None} /\ FlowIn(in) \in Items \cup {None}
      /\ Flow!FlowQueue \in Seq(Items) /\ Flow!FlowQueue' \in Seq(Items)
      /\ FlowIn(in) # None => Flow!FlowQueue = <<>>
      /\ Flow!FlowQueue \o Opt(FlowIn(in))
           = Opt(IF ~Ring!Full THEN FlowItem(in) ELSE None) \o Flow!FlowQueue'
  BY <1>1, <1>2, <1>3, FlowMoves
<1>5. /\ Ring!FifoTypeOK' /\ Ring!Count' <= Depth
      /\ RingIn(FlowItem(in)) \in Items \cup {None}
      /\ RingOut(Skid!InReady) \in Items \cup {None}
  BY <1>1, <1>2, <1>3, <1>4, RingClock
<1>6. /\ RingHolds'
      /\ Ring!FifoQueue \in Seq(Items) /\ Ring!FifoQueue' \in Seq(Items)
      /\ Moves(Ring!FifoQueue, Opt(RingIn(FlowItem(in))),
               Opt(RingOut(Skid!InReady)), Ring!FifoQueue')
  BY <1>1, <1>2, <1>3, <1>4, RingMoves
<1>7. Len(Ring!FifoQueue) \in Nat /\ Len(Ring!FifoQueue) <= Depth
  <2>1. Ring!Count \in Nat
    BY <1>1, CountIs
  <2>2. Len(Ring!FifoQueue) = Ring!Count
    BY <1>1, <2>1, WindowIs DEF RingHolds, Ring!FifoQueue
  <2> QED BY <1>1, <2>1, <2>2
<1>8. RingItem \in Items \cup {None}
  <2>1. Ring!Count \in Nat /\ rd_ptr \in Nat
    BY <1>1, CountIs, BufferAssumption DEF Ring!FifoTypeOK, Ring!Wrap
  <2>2. Ring!Count # 0 => entries[(rd_ptr + 1 - 1) % Depth] \in Items
    BY <1>1, <2>1 DEF RingHolds
  <2> QED BY <2>1, <2>2 DEF RingItem, Ring!Empty, Ring!DataOut
<1>9. /\ {out_valid', skid_valid'} \subseteq BOOLEAN
      /\ {out_data', skid_data'} \subseteq Items \cup {None}
      /\ out_valid' => out_data' \in Items
      /\ skid_valid' => out_valid' /\ skid_data' \in Items
      /\ SkidIn(RingItem) \in Items \cup {None} /\ SkidOut(out_ready) \in Items \cup {None}
      /\ Skid!SkidQueue \in Seq(Items) /\ Skid!SkidQueue' \in Seq(Items)
      /\ Len(Skid!SkidQueue) <= 2
      /\ Skid!SkidQueue \o Opt(SkidIn(RingItem))
           = Opt(SkidOut(out_ready)) \o Skid!SkidQueue'
  BY <1>1, <1>2, <1>8, SkidMoves
\* What leaves a stage enters the next one.
<1>10. (IF ~Ring!Full THEN FlowItem(in) ELSE None) = RingIn(FlowItem(in))
  BY DEF RingIn, Ring!DoWrite
<1>11. SkidIn(RingItem) = RingOut(Skid!InReady)
  BY DEF SkidIn, RingOut, RingItem, Ring!DoRead
<1>12. Moves(ChainQueue, Opt(FlowIn(in)), Opt(SkidOut(out_ready)), ChainQueue')
  <2> DEFINE p == Opt(FlowIn(in))
             u == Opt(RingIn(FlowItem(in)))
             v == Opt(RingOut(Skid!InReady))
             g == Opt(SkidOut(out_ready))
  <2>1. p \in Seq(Items) /\ u \in Seq(Items) /\ v \in Seq(Items) /\ g \in Seq(Items)
    BY <1>4, <1>5, <1>9, OptIs
  <2>2. /\ Moves(Flow!FlowQueue, p, u, Flow!FlowQueue')
        /\ Moves(Ring!FifoQueue, u, v, Ring!FifoQueue')
        /\ Moves(Skid!SkidQueue, v, g, Skid!SkidQueue')
    BY <1>4, <1>6, <1>9, <1>10, <1>11 DEF Moves
  <2> HIDE DEF p, u, v, g
  <2>3. Moves(Skid!SkidQueue \o Ring!FifoQueue, u, g, Skid!SkidQueue' \o Ring!FifoQueue')
    BY <1>6, <1>9, <2>1, <2>2, TwoQueues
  <2>4. /\ Skid!SkidQueue \o Ring!FifoQueue \in Seq(Items)
        /\ Skid!SkidQueue' \o Ring!FifoQueue' \in Seq(Items)
    BY <1>6, <1>9, ConcatProperties
  <2>5. Moves((Skid!SkidQueue \o Ring!FifoQueue) \o Flow!FlowQueue, p, g,
              (Skid!SkidQueue' \o Ring!FifoQueue') \o Flow!FlowQueue')
    BY <1>4, <2>1, <2>2, <2>3, <2>4, TwoQueues
  <2> QED BY <2>5 DEF ChainQueue, p, g
<1>13. ChainQueue \in Seq(Items) /\ ChainQueue' \in Seq(Items)
       /\ Len(ChainQueue) = Len(Skid!SkidQueue) + Len(Ring!FifoQueue) + Len(Flow!FlowQueue)
  BY <1>4, <1>6, <1>9, ConcatProperties DEF ChainQueue
<1>14. FlowIn(in) # None => Len(ChainQueue) < Depth + 3
  <2>1. FlowIn(in) # None => Len(Flow!FlowQueue) = 0
    BY <1>4
  <2>2. Len(Skid!SkidQueue) \in Nat /\ Depth \in Nat
    BY <1>9, LenProperties, BufferAssumption
  <2> QED BY <1>7, <1>9, <1>13, <2>1, <2>2
<1>15. Queue!Move(FlowIn(in), SkidOut(out_ready) # None)
  <2>1. Becomes(ChainQueue, FlowIn(in), SkidOut(out_ready), ChainQueue')
    BY <1>4, <1>9, <1>12, <1>13, MoveIs
  <2>2. /\ put' = FlowIn(in) /\ got' = SkidOut(out_ready)
        /\ FlowIn(in) # None => Len(ChainQueue) < Depth + 3
    BY <1>2, <1>14
  <2>3. CASE SkidOut(out_ready) = None
    BY <2>1, <2>2, <2>3 DEF Queue!Move, Becomes
  <2>4. CASE SkidOut(out_ready) # None
    BY <2>1, <2>2, <2>4 DEF Queue!Move, Becomes
  <2> QED BY <2>3, <2>4
<1>16. Queue!QueueNext
  BY <1>4, <1>15 DEF Queue!QueueNext
<1>17. IInv'
  <2>1. {put', got'} \subseteq Items \cup {None}
    BY <1>2, <1>4, <1>9
  <2>2. TypeOK'
    BY <1>4, <1>5, <1>9, <2>1 DEF TypeOK, Flow!FlowTypeOK, Skid!SkidTypeOK
  <2>3. FlagsAgree'
    <3>1. (Ring!FifoTypeOK /\ Ring!Count <= Depth => FlagsAgree)'
      BY FlagsFollow, PTL
    <3> QED BY <1>5, <3>1
  <2> QED BY <1>6, <2>2, <2>3 DEF IInv
<1> QED BY <1>16, <1>17

LEMMA Invariant == Spec => []IInv
<1>1. Init => IInv
  BY InitIs
<1>2. IInv /\ [Next]_vars => IInv'
  <2> SUFFICES ASSUME IInv, [Next]_vars PROVE IInv'
    OBVIOUS
  <2>1. CASE Next
    BY <2>1, ClockMoves DEF Next
  <2>2. CASE UNCHANGED vars
    BY <2>2 DEF vars, IInv, TypeOK, FlagsAgree, RingHolds, Flow!FlowTypeOK,
       Ring!FifoTypeOK, Skid!SkidTypeOK, Ring!Count, Ring!Wrap, Ring!Empty, Ring!Full,
       Ring!StructEmpty, Ring!StructFull, Ring!LowEq, Ring!WrapDiff
  <2> QED BY <2>1, <2>2
<1> QED BY <1>1, <1>2, PTL DEF Spec

\* Every register of the three buffers holds a value of its type: an item, never
\* the unknown data of an empty entry, wherever a valid flag or a pointer says so.
THEOREM TypeCorrect == Spec => []TypeOK
<1>1. IInv => TypeOK
  BY DEF IInv
<1> QED BY <1>1, Invariant, PTL

\* Fifo never holds more than Depth items, and the full and empty flags of the
\* struct version (low bits and wrap bits) are those of the behave version.
THEOREM FlagsAreRight == Spec => []FlagsAgree
<1>1. IInv => FlagsAgree
  BY DEF IInv
<1> QED BY <1>1, Invariant, PTL

\* The chain implements one queue of the three capacities together: it loses,
\* repeats and reorders no item, for every Depth, through every wrap and stall.
THEOREM ChainIsQueue == Spec => IsQueue
<1>1. Init => Queue!QueueInit
  BY InitIs
<1>2. IInv /\ [Next]_vars => [Queue!QueueNext]_(Queue!queueVars)
  <2> SUFFICES ASSUME IInv, [Next]_vars
               PROVE  [Queue!QueueNext]_(Queue!queueVars)
    OBVIOUS
  <2>1. CASE Next
    BY <2>1, ClockMoves DEF Next
  <2>2. CASE UNCHANGED vars
    <3>1. UNCHANGED Flow!FlowQueue /\ UNCHANGED Ring!FifoQueue /\ UNCHANGED Skid!SkidQueue
      BY <2>2 DEF vars, Flow!FlowQueue, Ring!FifoQueue, Skid!SkidQueue, Ring!Count, Ring!Wrap
    <3>2. UNCHANGED ChainQueue
      BY <3>1 DEF ChainQueue
    <3> QED BY <2>2, <3>2 DEF vars, Queue!queueVars
  <2> QED BY <2>1, <2>2
<1> QED BY <1>1, <1>2, Invariant, PTL DEF Spec, IsQueue, Queue!QueueSpec
=============================================================================
