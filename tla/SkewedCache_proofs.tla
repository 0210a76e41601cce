------------------------- MODULE SkewedCache_proofs -------------------------
(***************************************************************************)
(* SkewedCache's invariants hold for any number of index and tag bits,     *)
(* bytes and values, and from any content of the registers that reset      *)
(* leaves alone; with the memory behind it it implements LatencyMemory.    *)
(***************************************************************************)
EXTENDS SkewedCache, CacheControl_proofs

-----------------------------------------------------------------------------
(* The inductive invariant.                                                *)

\* The line with tag t that way w keeps at index s.
LineAt(w, t, s) ==
  [tag |-> t, set |-> IF w = 0 THEN s ELSE [b \in 0 .. SetsWidth - 1 |-> s[b] # t[b]]]

\* What the lookup read of its index in way w and still holds: the line memory
\* has ...
ReadLine(w) == LineAt(w, tag[w], LookIndex(w))

LookIsCurrent ==
  \A w \in Ways : (LookOk /\ valid[w]) =>
    ReadLine(w) \notin Devices /\ Line(w) = mem[ReadLine(w)]

\* ... and all that the RAM has: what it holds now was there at the read.
LookIsComplete ==
  \A w \in Ways : (LookOk /\ valid_mem[w][LookIndex(w)]) =>
    valid[w] /\ tag[w] = tag_mem[w][LookIndex(w)]

\* The line on its way into the cache is in neither way.
FillIsNew ==
  (waiting /\ ~wait_nocache) =>
    \A w \in Ways :
      ~(valid_mem[w][LookIndex(w)] /\ tag_mem[w][LookIndex(w)] = looked.line.tag)

IInv ==
  /\ TypeOK
  /\ ControlInv
  /\ Coherent
  /\ LookIsCurrent
  /\ LookIsComplete
  /\ FillIsNew
  /\ SingleCopy

-----------------------------------------------------------------------------
(* Lines and indices.                                                      *)

\* Taking a bit out twice gives the first bit back.
LEMMA XorTwice == \A p, q \in BOOLEAN : (p # q) \in BOOLEAN /\ ((p # q) # q) = p
  OBVIOUS

\* An index bit has a tag bit to be crossed with.
LEMMA CrossedBit ==
  ASSUME NEW t \in Tags, NEW s \in Sets, NEW b \in 0 .. SetsWidth - 1
  PROVE  s[b] \in BOOLEAN /\ t[b] \in BOOLEAN
<1>1. b \in 0 .. TagWidth - 1
  BY SkewedAssumption
<1> QED BY <1>1 DEF Tags, Sets

\* An index crossed with the tag's low bits is an index, and crossing it again
\* gives it back.
LEMMA CrossedTwice ==
  ASSUME NEW t \in Tags, NEW s \in Sets
  PROVE  LET x == [b \in 0 .. SetsWidth - 1 |-> s[b] # t[b]] IN
         /\ x \in Sets
         /\ [b \in 0 .. SetsWidth - 1 |-> x[b] # t[b]] = s
<1> DEFINE x == [b \in 0 .. SetsWidth - 1 |-> s[b] # t[b]]
           y == [b \in 0 .. SetsWidth - 1 |-> x[b] # t[b]]
<1>1. ASSUME NEW b \in 0 .. SetsWidth - 1
      PROVE  x[b] = (s[b] # t[b]) /\ x[b] \in BOOLEAN /\ y[b] = s[b]
  <2>1. s[b] \in BOOLEAN /\ t[b] \in BOOLEAN
    BY CrossedBit
  <2>2. x[b] = (s[b] # t[b]) /\ y[b] = (x[b] # t[b])
    OBVIOUS
  <2> QED BY <2>1, <2>2, XorTwice, Zenon
<1>2. x \in Sets
  BY <1>1 DEF Sets
<1>3. y = s
  BY <1>1 DEF Sets
<1> QED BY <1>2, <1>3

\* A line is found again from its tag and its index in a way.
LEMMA LineAtIndex ==
  ASSUME NEW w \in Ways, NEW l \in Lines
  PROVE  /\ IndexOf(w, l) \in Sets /\ l.tag \in Tags
         /\ LineAt(w, l.tag, IndexOf(w, l)) = l
<1>1. l.tag \in Tags /\ l.set \in Sets /\ l = [tag |-> l.tag, set |-> l.set]
  BY SkewedAssumption
<1> QED BY <1>1, CrossedTwice DEF IndexOf, LineAt

\* What a way keeps at an index is a line whose index this is.
LEMMA IndexOfLineAt ==
  ASSUME NEW w \in Ways, NEW t \in Tags, NEW s \in Sets
  PROVE  /\ LineAt(w, t, s) \in Lines /\ LineAt(w, t, s).tag = t
         /\ IndexOf(w, LineAt(w, t, s)) = s
<1>1. LineAt(w, t, s).tag = t
  BY DEF LineAt
<1>2. LineAt(w, t, s) \in Lines
  BY CrossedTwice, SkewedAssumption DEF LineAt
<1>3. IndexOf(w, LineAt(w, t, s)) = s
  BY CrossedTwice DEF LineAt, IndexOf
<1> QED BY <1>1, <1>2, <1>3

\* HeldLine is what the RAMs of a way hold at an index.
LEMMA HeldIsLineAt ==
  ASSUME TypeOK, NEW w \in Ways, NEW s \in Sets
  PROVE  /\ HeldLine(w, s) = LineAt(w, tag_mem[w][s], s)
         /\ tag_mem[w][s] \in Tags
         /\ HeldLine(w, s) \in Lines /\ HeldLine(w, s).tag = tag_mem[w][s]
         /\ IndexOf(w, HeldLine(w, s)) = s
<1>1. HeldLine(w, s) = LineAt(w, tag_mem[w][s], s)
  BY DEF HeldLine, LineAt
<1>2. tag_mem[w][s] \in Tags
  BY DEF TypeOK
<1> QED BY <1>1, <1>2, IndexOfLineAt

-----------------------------------------------------------------------------
(* Types.                                                                  *)

\* What a clock is for the control.
LEMMA ClockOfControl ==
  ASSUME NEW i \in Inputs, Clock(i)
  PROVE  /\ ControlClock(i, Hit, HitLine, SameIndex(i.req, fill_way))
         /\ LegalInputs(i)
  BY DEF Clock, ControlClock

\* What a store makes of the line it hits.
LEMMA LineType ==
  ASSUME TypeOK
  PROVE  HitLine \in Data /\ Merged(HitLine) \in Data
<1>1. HitLine \in Data
  BY DEF HitLine, HitWay, Line, Ways, TypeOK
<1>2. looked.data \in Data
  BY RequestType DEF TypeOK, ControlTypeOK
<1> QED BY <1>1, <1>2, MergeType DEF Merged

\* The indices that are read and written are indices.
LEMMA IndexType ==
  ASSUME TypeOK, NEW i \in Inputs, NEW w \in Ways
  PROVE  /\ LookIndex(w) \in Sets
         /\ RdIndex(i, w) \in Sets /\ RdIndex(i, w) = IndexOf(w, Asked(i).line)
         /\ looked.line \in Lines /\ looked.line.tag \in Tags
<1>1. looked \in Request
  BY DEF TypeOK, ControlTypeOK
<1>2. Asked(i) \in Request
  BY <1>1, InputType DEF Asked
<1>3. RdIndex(i, w) = IndexOf(w, Asked(i).line)
  BY DEF RdIndex, Asked
<1> QED BY <1>1, <1>2, <1>3, RequestType, LineAtIndex DEF LookIndex

\* A clock leaves every register and RAM in a value of its type.
LEMMA TypeStep ==
  ASSUME TypeOK, ControlInv, NEW i \in Inputs, Clock(i)
  PROVE  TypeOK' /\ ControlInv'
<1> USE IndexType
<1>1. ControlInv' /\ ControlTypeOK'
  <2>1. ControlInv'
    BY LineType, ClockOfControl, ControlInvStep
  <2> QED BY <2>1 DEF ControlInv
<1>2. valid_mem' \in [Ways -> [Sets -> BOOLEAN]] /\ valid' \in [Ways -> BOOLEAN]
  <2>1. Refill(i) \in BOOLEAN
    BY DEF Refill, Answered
  <2> QED BY <2>1 DEF Clock, ValidRam, TypeOK
<1>3. tag_mem' \in [Ways -> [Sets -> Tags]] /\ tag' \in [Ways -> Tags]
  BY DEF Clock, TagRam, TypeOK
<1>4. data_mem' \in [Ways -> [Sets -> Data]] /\ ram_line' \in [Ways -> Data]
  <2>1. Refill(i) => Head(pending) \in Data
    BY HeadType DEF Refill, Answered, ControlInv
  <2> QED BY <2>1, LineType DEF Clock, DataRam, TypeOK
<1>5. fwd' \in [Ways -> BOOLEAN] /\ fwd_line' \in Data
  <2>1. ASSUME NEW w \in Ways
        PROVE  (StoreWrite(i, Hit) /\ Hits(w) /\ SameIndex(i.req, w)) \in BOOLEAN
    OBVIOUS
  <2> QED BY <2>1, LineType DEF Clock, Forward, TypeOK
<1>6. recent' \in [Ways -> [Sets -> BOOLEAN]] /\ fill_way' \in Ways
  BY DEF Clock, Replacement, VictimWay, Ways, TypeOK
<1> QED BY <1>1, <1>2, <1>3, <1>4, <1>5, <1>6 DEF TypeOK

-----------------------------------------------------------------------------
(* The ways over one clock.                                                *)

\* The way and index a fill writes.
Fills(i, w, s) == FillWr(i, w) /\ s = LookIndex(w)

\* The way and index a store that hits writes, or an atomic that hits drops.
Stores(i, w, s) == StoreWrite(i, Hit) /\ Hits(w) /\ s = LookIndex(w)
Drops(i, w, s) == Drop(i, Hit) /\ Hits(w) /\ s = LookIndex(w)

\* What a clock makes of one place of a way.
LEMMA PlaceStep ==
  ASSUME IInv, NEW i \in Inputs, Clock(i), NEW w \in Ways, NEW s \in Sets
  PROVE  /\ valid_mem'[w][s] => Fills(i, w, s) \/ (valid_mem[w][s] /\ ~Drops(i, w, s))
         /\ tag_mem'[w][s] = IF Fills(i, w, s) THEN looked.line.tag ELSE tag_mem[w][s]
         /\ data_mem'[w][s] = IF Fills(i, w, s) THEN Head(pending)
                              ELSE IF Stores(i, w, s) THEN Merged(HitLine)
                              ELSE data_mem[w][s]
<1>1. /\ valid_mem \in [Ways -> [Sets -> BOOLEAN]]
      /\ tag_mem \in [Ways -> [Sets -> Tags]]
      /\ data_mem \in [Ways -> [Sets -> Data]]
  BY DEF IInv, TypeOK
<1>2. LookIndex(w) \in Sets
  BY IndexType DEF IInv
<1>3. Refill(i) => ~Drop(i, Hit) /\ ~StoreWrite(i, Hit)
  BY RefillAlone, ClockOfControl DEF IInv
<1>4. valid_mem'[w][s] => Fills(i, w, s) \/ (valid_mem[w][s] /\ ~Drops(i, w, s))
  BY <1>1, <1>2, <1>3 DEF Clock, ValidRam, Fills, Drops, FillWr
<1>5. tag_mem'[w][s] = IF Fills(i, w, s) THEN looked.line.tag ELSE tag_mem[w][s]
  BY <1>1, <1>2 DEF Clock, TagRam, Fills
<1>6. data_mem'[w][s] = IF Fills(i, w, s) THEN Head(pending)
                        ELSE IF Stores(i, w, s) THEN Merged(HitLine)
                        ELSE data_mem[w][s]
  BY <1>1, <1>2, <1>3 DEF Clock, DataRam, Fills, Stores, FillWr
<1> QED BY <1>4, <1>5, <1>6

\* A way that hits shows the line that is looked up, as memory has it.
LEMMA HitIsLine ==
  ASSUME IInv, LookOk
  PROVE  /\ \A w \in Ways : Hits(w) =>
              looked.line \notin Devices /\ Line(w) = mem[looked.line]
         /\ Hit => looked.line \notin Devices /\ HitLine = mem[looked.line]
<1>1. looked.line \in Lines
  BY RequestType DEF IInv, TypeOK, ControlTypeOK
<1>2. ASSUME NEW w \in Ways, Hits(w)
      PROVE  looked.line \notin Devices /\ Line(w) = mem[looked.line]
  <2>1. ReadLine(w) = looked.line
    BY <1>1, <1>2, LineAtIndex DEF Hits, ReadLine, LookIndex
  <2> QED BY <1>2, <2>1 DEF Hits, IInv, LookIsCurrent
<1>3. Hit => Hits(HitWay) /\ HitWay \in Ways
  BY DEF Hit, HitWay, Ways
<1> QED BY <1>2, <1>3 DEF HitLine

\* A way that has the line looked up says so.
LEMMA HeldLineHits ==
  ASSUME IInv, LookOk, NEW w \in Ways, NEW s \in Sets, valid_mem[w][s],
         HeldLine(w, s) = looked.line
  PROVE  s = LookIndex(w) /\ Hits(w)
<1>1. s = LookIndex(w) /\ tag_mem[w][s] = looked.line.tag
  BY HeldIsLineAt DEF LookIndex, IInv
<1> QED BY <1>1 DEF Hits, LookOk, IInv, LookIsComplete

\* A request that changes memory under a line of a way meets it: a store
\* writes the same into both, an atomic drops the line.
LEMMA WriteMeetsLine ==
  ASSUME IInv, NEW i \in Inputs, Clock(i),
         NEW w \in Ways, NEW s \in Sets, valid_mem[w][s], ~Drops(i, w, s)
  PROVE  LET l == HeldLine(w, s) IN
         /\ l \in Lines \ Devices /\ data_mem[w][s] = mem[l]
         /\ mem'[l] = IF Stores(i, w, s) THEN Merged(HitLine) ELSE mem[l]
<1> DEFINE l == HeldLine(w, s)
<1>1. looked \in Request /\ looked.line \in Lines /\ ControlTypeOK /\ TypeOK
  BY RequestType DEF IInv, TypeOK, ControlTypeOK
<1>2. l \in Lines /\ l \notin Devices /\ data_mem[w][s] = mem[l]
  BY <1>1, HeldIsLineAt DEF IInv, Coherent
<1>3. mem'[l] = IF LookReq(Hit) /\ i.mem_ready /\ looked.op # "load" /\ l = looked.line
                THEN Merge(mem[l], Written(looked, mem[l]), AsMemory(looked).bytes)
                ELSE mem[l]
  BY <1>1, <1>2, MemChange, ClockOfControl
<1>4. CASE Stores(i, w, s)
  <2>1. LookOk /\ looked.op = "store" /\ Hits(w) /\ Hit /\ i.mem_ready /\ LookReq(Hit)
    BY <1>4 DEF Stores, StoreWrite, Store, LookReq
  <2>2. valid[w] /\ tag[w] = tag_mem[w][s] /\ tag[w] = looked.line.tag
    BY <1>4, <2>1 DEF Stores, IInv, LookIsComplete, Hits
  <2>3. l = looked.line
    <3>1. s = IndexOf(w, looked.line) /\ tag_mem[w][s] = looked.line.tag
      BY <1>4, <2>2 DEF Stores, LookIndex
    <3>2. LineAt(w, looked.line.tag, IndexOf(w, looked.line)) = looked.line
      BY <1>1, LineAtIndex
    <3> QED BY <1>1, <3>1, <3>2, HeldIsLineAt
  <2>4. HitLine = mem[l]
    BY <2>1, <2>3, HitIsLine
  <2>5. AsMemory(looked).bytes = looked.bytes
    BY <2>1 DEF AsMemory
  <2>6. mem'[l] = Merge(mem[l], looked.data, looked.bytes)
    BY <1>3, <2>1, <2>3, <2>5 DEF Written
  <2> QED BY <1>2, <1>4, <2>4, <2>6 DEF Merged
<1>5. CASE ~Stores(i, w, s)
  <2>1. SUFFICES ASSUME LookReq(Hit), i.mem_ready, looked.op # "load", l = looked.line
                 PROVE  FALSE
    BY <1>2, <1>3, <1>5
  <2>2. LookOk
    BY <2>1 DEF LookReq, Store, LoadMiss
  <2>3. s = LookIndex(w) /\ Hits(w) /\ Hit
    <3>1. s = LookIndex(w) /\ Hits(w)
      BY <2>1, <2>2, HeldLineHits
    <3> QED BY <3>1 DEF Hit, Ways
  <2>4. CASE looked.op = "store"
    BY <1>5, <2>1, <2>2, <2>3, <2>4 DEF Stores, StoreWrite, Store
  <2>5. CASE looked.op = "atomic"
    BY <2>1, <2>2, <2>3, <2>5 DEF Drops, Drop, Served, LoadMiss
  <2> QED BY <1>1, <2>1, <2>4, <2>5, RequestType
<1> QED BY <1>4, <1>5

\* Every valid line of either way is still memory's.
LEMMA CoherentStep ==
  ASSUME IInv, NEW i \in Inputs, Clock(i)
  PROVE  Coherent'
<1> SUFFICES ASSUME NEW w \in Ways, NEW s \in Sets, valid_mem'[w][s]
             PROVE  /\ HeldLine(w, s)' \notin Devices
                    /\ data_mem'[w][s] = mem'[HeldLine(w, s)']
  BY DEF Coherent
<1>1. looked \in Request /\ looked.line \in Lines /\ ControlTypeOK /\ TypeOK /\ ControlInv
  BY RequestType DEF IInv, TypeOK, ControlTypeOK
<1>2. HeldLine(w, s)' = LineAt(w, tag_mem'[w][s], s)
  BY DEF HeldLine, LineAt
<1>3. CASE Fills(i, w, s)
  <2>1. Refill(i) /\ s = LookIndex(w)
    BY <1>3 DEF Fills, FillWr
  <2>2. tag_mem'[w][s] = looked.line.tag /\ data_mem'[w][s] = Head(pending)
    BY <1>3, PlaceStep
  <2>3. HeldLine(w, s)' = looked.line
    BY <1>1, <1>2, <2>1, <2>2, LineAtIndex DEF LookIndex
  <2>4. /\ looked.line \in Lines \ Devices /\ Head(pending) = mem[looked.line]
        /\ ~LookReq(Hit)
    BY <1>1, <2>1, RefillAlone, ClockOfControl
  <2>5. mem'[looked.line] = mem[looked.line]
    BY <1>1, <2>4, MemChange, ClockOfControl
  <2> QED BY <2>2, <2>3, <2>4, <2>5
<1>4. CASE ~Fills(i, w, s)
  <2>1. valid_mem[w][s] /\ ~Drops(i, w, s) /\ tag_mem'[w][s] = tag_mem[w][s]
    BY <1>4, PlaceStep
  <2>2. HeldLine(w, s)' = HeldLine(w, s)
    BY <1>1, <1>2, <2>1, HeldIsLineAt
  <2>3. data_mem'[w][s] = IF Stores(i, w, s) THEN Merged(HitLine) ELSE data_mem[w][s]
    BY <1>4, PlaceStep
  <2> QED BY <2>1, <2>2, <2>3, WriteMeetsLine
<1> QED BY <1>3, <1>4

-----------------------------------------------------------------------------
(* Lookups.                                                                *)

\* A lookup of the next clock was read where no fill writes, or is held.
LEMMA LookIndexStep ==
  ASSUME IInv, NEW i \in Inputs, Clock(i), LookOk', NEW w \in Ways
  PROVE  LET s == LookIndex(w)' IN
         /\ s \in Sets
         /\ ~Fills(i, w, s)
         /\ \/ /\ RamRd(i, Hit) /\ RdIndex(i, w) = s /\ ~Drop(i, Hit)
               /\ (StoreWrite(i, Hit) /\ Hits(w) /\ SameIndex(i.req, w)) <=> Stores(i, w, s)
            \/ /\ ~RamRd(i, Hit) /\ looked' = looked /\ s = LookIndex(w) /\ LookOk
               /\ ~i.mem_ready /\ ~StoreWrite(i, Hit)
<1> DEFINE s == LookIndex(w)'
<1>1. /\ ControlClock(i, Hit, HitLine, SameIndex(i.req, fill_way)) /\ LegalInputs(i)
      /\ ControlInv /\ TypeOK
  BY ClockOfControl DEF IInv
<1>2. s = IndexOf(w, looked'.line)
  BY DEF LookIndex, IndexOf
<1>3. s \in Sets
  <2>1. TypeOK'
    BY <1>1, TypeStep
  <2>2. looked' \in Request
    BY <2>1 DEF TypeOK, ControlTypeOK
  <2> QED BY <1>2, <2>2, RequestType, LineAtIndex
<1>4. CASE /\ RamRd(i, Hit) /\ Asked(i) = looked' /\ ~Drop(i, Hit)
           /\ Refill(i) => ~SameIndex(i.req, fill_way)
           /\ (~replay /\ i.req # None /\ looked' = i.req) \/ (replay /\ looked' = looked)
  <2>1. RdIndex(i, w) = s
    BY <1>1, <1>2, <1>4, IndexType
  <2>2. Refill(i) => ~replay
    BY <1>1, RefillAlone
  <2>3. ~Fills(i, w, s)
    BY <1>2, <1>4, <2>2 DEF Fills, FillWr, SameIndex
  <2>4. StoreWrite(i, Hit) => ~replay
    BY DEF StoreWrite, Store, LookOk
  <2>5. (StoreWrite(i, Hit) /\ Hits(w) /\ SameIndex(i.req, w)) <=> Stores(i, w, s)
    BY <1>2, <1>4, <2>4 DEF Stores, SameIndex
  <2> QED BY <1>3, <1>4, <2>1, <2>3, <2>5
<1>5. CASE /\ ~RamRd(i, Hit) /\ looked' = looked /\ LookOk /\ ~i.mem_ready
           /\ ~Refill(i) /\ ~StoreWrite(i, Hit)
  BY <1>2, <1>3, <1>5 DEF Fills, FillWr, LookIndex
<1> QED BY <1>1, <1>4, <1>5, LookStep

\* The lookup still has all that a way holds at its index.
LEMMA LookIsCompleteStep ==
  ASSUME IInv, NEW i \in Inputs, Clock(i)
  PROVE  LookIsComplete'
<1> SUFFICES ASSUME NEW w \in Ways, LookOk', valid_mem'[w][LookIndex(w)']
             PROVE  valid'[w] /\ tag'[w] = tag_mem'[w][LookIndex(w)']
  BY DEF LookIsComplete
<1> DEFINE s == LookIndex(w)'
<1>1. s \in Sets /\ ~Fills(i, w, s)
  BY LookIndexStep
<1>2. valid_mem[w][s] /\ tag_mem'[w][s] = tag_mem[w][s]
  BY <1>1, PlaceStep
<1>3. CASE RamRd(i, Hit) /\ RdIndex(i, w) = s
  <2>1. valid'[w] = valid_mem[w][s] /\ tag'[w] = tag_mem[w][s]
    BY <1>3 DEF Clock, ValidRam, TagRam
  <2> QED BY <1>2, <2>1
<1>4. CASE ~RamRd(i, Hit) /\ LookOk /\ s = LookIndex(w)
  <2>1. valid' = valid /\ tag' = tag
    BY <1>4 DEF Clock, ValidRam, TagRam
  <2> QED BY <1>2, <1>4, <2>1 DEF IInv, LookIsComplete
<1> QED BY <1>3, <1>4, LookIndexStep

\* What the lookup shows of a way is still memory's line: read from the RAM,
\* forwarded, or held.
LEMMA LookIsCurrentStep ==
  ASSUME IInv, NEW i \in Inputs, Clock(i)
  PROVE  LookIsCurrent'
<1> SUFFICES ASSUME NEW w \in Ways, LookOk', valid'[w]
             PROVE  /\ ReadLine(w)' \notin Devices
                    /\ Line(w)' = mem'[ReadLine(w)']
  BY DEF LookIsCurrent
<1> DEFINE s == LookIndex(w)'
<1>1. s \in Sets /\ ControlTypeOK /\ TypeOK
  BY LookIndexStep DEF IInv, TypeOK
<1>2. ReadLine(w)' = LineAt(w, tag'[w], s)
  BY DEF ReadLine, LineAt
<1>3. Line(w)' = IF fwd'[w] THEN fwd_line' ELSE ram_line'[w]
  BY DEF Line
<1>4. CASE /\ RamRd(i, Hit) /\ RdIndex(i, w) = s /\ ~Drop(i, Hit)
           /\ (StoreWrite(i, Hit) /\ Hits(w) /\ SameIndex(i.req, w)) <=> Stores(i, w, s)
  <2>1. valid'[w] = valid_mem[w][s] /\ tag'[w] = tag_mem[w][s] /\ ram_line'[w] = data_mem[w][s]
    BY <1>4 DEF Clock, ValidRam, TagRam, DataRam
  <2>2. ReadLine(w)' = HeldLine(w, s)
    BY <1>1, <1>2, <2>1, HeldIsLineAt
  <2>3. /\ HeldLine(w, s) \in Lines \ Devices /\ data_mem[w][s] = mem[HeldLine(w, s)]
        /\ mem'[HeldLine(w, s)] = IF Stores(i, w, s) THEN Merged(HitLine)
                                  ELSE mem[HeldLine(w, s)]
    <3>1. valid_mem[w][s] /\ ~Drops(i, w, s)
      BY <1>4, <2>1 DEF Drops
    <3> QED BY <1>1, <3>1, WriteMeetsLine
  <2>4. fwd'[w] <=> Stores(i, w, s)
    BY <1>4 DEF Clock, Forward
  <2>5. Stores(i, w, s) => fwd_line' = Merged(HitLine)
    BY DEF Clock, Forward, Stores
  <2> QED BY <1>3, <2>1, <2>2, <2>3, <2>4, <2>5
<1>5. CASE /\ ~RamRd(i, Hit) /\ s = LookIndex(w) /\ LookOk
           /\ ~i.mem_ready /\ ~StoreWrite(i, Hit)
  <2>1. /\ valid' = valid /\ tag' = tag /\ ram_line' = ram_line
        /\ fwd' = fwd /\ fwd_line' = fwd_line
    BY <1>5 DEF Clock, ValidRam, TagRam, DataRam, Forward
  <2>2. ReadLine(w)' = ReadLine(w) /\ Line(w)' = Line(w)
    BY <1>2, <1>3, <1>5, <2>1 DEF ReadLine, Line
  <2>3. ReadLine(w) \in Lines \ Devices /\ Line(w) = mem[ReadLine(w)]
    <3>1. tag[w] \in Tags
      BY <1>1 DEF TypeOK
    <3> QED BY <1>1, <1>5, <2>1, <3>1, IndexOfLineAt DEF IInv, LookIsCurrent, ReadLine
  <2>4. mem'[ReadLine(w)] = mem[ReadLine(w)]
    BY <1>1, <1>5, <2>3, MemChange, ClockOfControl
  <2> QED BY <2>2, <2>3, <2>4
<1> QED BY <1>4, <1>5, LookIndexStep

-----------------------------------------------------------------------------
(* One copy.                                                               *)

\* A miss is served for a line that neither way has, and neither way gets it
\* while it is fetched.
LEMMA FillIsNewStep ==
  ASSUME IInv, NEW i \in Inputs, Clock(i)
  PROVE  FillIsNew'
<1> SUFFICES ASSUME waiting', ~wait_nocache', NEW w \in Ways, valid_mem'[w][LookIndex(w)'],
                    tag_mem'[w][LookIndex(w)'] = looked'.line.tag
             PROVE  FALSE
  BY DEF FillIsNew
<1>1. /\ waiting' = (Served(i, Hit) \/ (waiting /\ ~i.mem_rsp))
      /\ wait_nocache' = IF Served(i, Hit) THEN Exact(looked) ELSE wait_nocache
      /\ looked' = IF Accept(i, Hit) THEN i.req ELSE looked
  BY DEF Clock, ControlStep
<1>2. looked' = looked
  BY <1>1 DEF Accept, ReadyCached, Served
<1>3. ~Refill(i)
  BY <1>1 DEF Refill, Answered, Served, LoadMiss, LookOk, IInv, ControlInv, OneAtATime
<1>4. LookIndex(w)' = LookIndex(w) /\ LookIndex(w) \in Sets /\ ~Fills(i, w, LookIndex(w))
  BY <1>2, <1>3, IndexType DEF LookIndex, Fills, FillWr, IInv
<1>5. valid_mem[w][LookIndex(w)] /\ tag_mem[w][LookIndex(w)] = looked.line.tag
  BY <1>2, <1>4, PlaceStep
<1>6. CASE Served(i, Hit)
  <2>1. LookOk /\ looked.op # "atomic" /\ ~Hit
    BY <1>1, <1>6 DEF Served, LoadMiss, Exact
  <2>2. Hits(w)
    BY <1>5, <2>1 DEF Hits, LookOk, IInv, LookIsComplete
  <2> QED BY <2>1, <2>2 DEF Hit, Ways
<1>7. CASE ~Served(i, Hit)
  BY <1>1, <1>5, <1>7 DEF IInv, FillIsNew
<1> QED BY <1>6, <1>7

\* A line in neither way, and no other, becomes a valid line of the way filled.
LEMMA SingleLineStep ==
  ASSUME IInv, NEW i \in Inputs, Clock(i), NEW s0 \in Sets, NEW s1 \in Sets,
         valid_mem'[0][s0], valid_mem'[1][s1]
  PROVE  HeldLine(0, s0)' # HeldLine(1, s1)'
<1>1. 0 \in Ways /\ 1 \in Ways /\ TypeOK /\ TypeOK' /\ looked.line \in Lines
  BY TypeStep, RequestType DEF Ways, IInv, TypeOK, ControlTypeOK
<1>2. ASSUME NEW w \in Ways, NEW s \in Sets, valid_mem'[w][s]
      PROVE  /\ Fills(i, w, s) => Refill(i) /\ fill_way = w /\ HeldLine(w, s)' = looked.line
             /\ ~Fills(i, w, s) => valid_mem[w][s] /\ HeldLine(w, s)' = HeldLine(w, s)
  <2>1. HeldLine(w, s)' = LineAt(w, tag_mem'[w][s], s)
    BY DEF HeldLine, LineAt
  <2>2. CASE Fills(i, w, s)
    <3>1. Refill(i) /\ fill_way = w /\ s = IndexOf(w, looked.line)
      BY <2>2 DEF Fills, FillWr, LookIndex
    <3>2. tag_mem'[w][s] = looked.line.tag
      BY <2>2, PlaceStep
    <3> QED BY <1>1, <2>1, <2>2, <3>1, <3>2, LineAtIndex
  <2>3. CASE ~Fills(i, w, s)
    <3>1. valid_mem[w][s] /\ tag_mem'[w][s] = tag_mem[w][s]
      BY <1>2, <2>3, PlaceStep
    <3> QED BY <1>1, <2>1, <2>3, <3>1, HeldIsLineAt
  <2> QED BY <2>2, <2>3
<1>3. ASSUME NEW w \in Ways, NEW s \in Sets, valid_mem[w][s], Refill(i)
      PROVE  HeldLine(w, s) # looked.line
  <2> SUFFICES ASSUME HeldLine(w, s) = looked.line PROVE FALSE
    OBVIOUS
  <2>1. s = LookIndex(w) /\ tag_mem[w][s] = looked.line.tag
    BY <1>1, HeldIsLineAt DEF LookIndex
  <2>2. waiting /\ ~wait_nocache
    BY <1>3 DEF Refill, Answered
  <2> QED BY <1>3, <2>1, <2>2 DEF IInv, FillIsNew
<1>4. HeldLine(0, s0) # HeldLine(1, s1) \/ ~valid_mem[0][s0] \/ ~valid_mem[1][s1]
  BY DEF IInv, SingleCopy
<1>5. ~(Fills(i, 0, s0) /\ Fills(i, 1, s1))
  BY DEF Fills, FillWr
<1> QED BY <1>1, <1>2, <1>3, <1>4, <1>5

\* A lookup never finds its line in both ways, a replayed one included.
LEMMA SingleHitStep ==
  ASSUME IInv, NEW i \in Inputs, Clock(i)
  PROVE  ~(Hits(0)' /\ Hits(1)')
<1> SUFFICES ASSUME Hits(0)', Hits(1)' PROVE FALSE
  OBVIOUS
<1>1. 0 \in Ways /\ 1 \in Ways /\ TypeOK
  BY DEF Ways, IInv
<1>2. look' = (Accept(i, Hit) \/ Held(i, Hit) \/ replay)
  BY DEF Clock, ControlStep
<1>3. looked' = IF Accept(i, Hit) THEN i.req ELSE looked
  BY DEF Clock, ControlStep
<1>4. look' /\ \A w \in Ways : valid'[w] /\ tag'[w] = looked'.line.tag
  BY DEF Hits, Ways
<1>5. CASE RamRd(i, Hit)
  <2>1. Asked(i) = looked'
    <3>1. Accept(i, Hit) => ~replay /\ i.req # None
      BY DEF Accept, ReadyCached, LooksUp
    <3> QED BY <1>3, <1>5, <3>1 DEF RamRd, Asked
  <2>2. looked'.line \in Lines
    <3>1. Asked(i) \in Request
      BY <1>1, InputType DEF Asked, TypeOK, ControlTypeOK
    <3> QED BY <2>1, <3>1, RequestType
  <2>3. ASSUME NEW w \in Ways
        PROVE  LET s == IndexOf(w, looked'.line) IN
               s \in Sets /\ valid_mem[w][s] /\ HeldLine(w, s) = looked'.line
    <3> DEFINE s == IndexOf(w, looked'.line)
    <3>1. RdIndex(i, w) = s /\ s \in Sets
      BY <1>1, <2>1, <2>2, IndexType, LineAtIndex
    <3>2. valid'[w] = valid_mem[w][s] /\ tag'[w] = tag_mem[w][s]
      BY <1>5, <3>1 DEF Clock, ValidRam, TagRam
    <3>3. HeldLine(w, s) = LineAt(w, looked'.line.tag, s)
      BY <1>1, <1>4, <3>1, <3>2, HeldIsLineAt
    <3> QED BY <1>4, <2>2, <3>1, <3>2, <3>3, LineAtIndex
  <2> QED BY <1>1, <2>3 DEF IInv, SingleCopy
<1>6. CASE ~RamRd(i, Hit)
  <2>1. look /\ looked' = looked
    BY <1>2, <1>3, <1>4, <1>6 DEF RamRd, Held, LookReq, Store, LoadMiss, LookOk
  <2>2. valid' = valid /\ tag' = tag
    BY <1>6 DEF Clock, ValidRam, TagRam
  <2>3. Hits(0) /\ Hits(1)
    BY <1>1, <1>4, <2>1, <2>2 DEF Hits
  <2> QED BY <2>3 DEF IInv, SingleCopy
<1> QED BY <1>5, <1>6

-----------------------------------------------------------------------------
(* The theorems.                                                           *)

\* Reset establishes the invariant, whatever the registers without reset hold.
LEMMA InitInvariant == Init => IInv
<1> SUFFICES ASSUME Init PROVE IInv
  OBVIOUS
<1>1. ControlInv /\ ~look /\ ~waiting
  BY ControlInvInit DEF Init, ControlInit
<1>2. TypeOK
  BY <1>1 DEF Init, TypeOK, ControlInv
<1>3. \A w \in Ways, s \in Sets : ~valid_mem[w][s]
  BY DEF Init
<1>4. Coherent /\ LookIsCurrent /\ LookIsComplete /\ FillIsNew /\ SingleCopy
  BY <1>1, <1>3 DEF Coherent, LookIsCurrent, LookIsComplete, LookOk, FillIsNew,
                    SingleCopy, Hits, Ways
<1> QED BY <1>1, <1>2, <1>4 DEF IInv

\* Every clock, with any inputs, keeps it; so does no clock at all.
LEMMA NextInvariant == IInv /\ [Next]_vars => IInv'
<1> SUFFICES ASSUME IInv, [Next]_vars PROVE IInv'
  OBVIOUS
<1>1. CASE Next
  <2>1. PICK i \in Inputs : Clock(i)
    BY <1>1 DEF Next
  <2>2. TypeOK' /\ ControlInv'
    BY <2>1, TypeStep DEF IInv
  <2>3. Coherent' /\ LookIsCurrent' /\ LookIsComplete' /\ FillIsNew'
    BY <2>1, CoherentStep, LookIsCurrentStep, LookIsCompleteStep, FillIsNewStep
  <2>4. SingleCopy'
    BY <2>1, SingleLineStep, SingleHitStep DEF SingleCopy
  <2> QED BY <2>2, <2>3, <2>4 DEF IInv
<1>2. CASE UNCHANGED vars
  <2> USE <1>2 DEF IInv, vars, memoryVars, controlVars, ramVars
  <2>1. TypeOK' /\ ControlInv'
    BY DEF TypeOK, ControlInv, ControlTypeOK, OneAtATime, OwedWhileWaiting, FillIsCurrent
  <2>2. Coherent' /\ SingleCopy'
    BY DEF Coherent, SingleCopy, HeldLine, Hits
  <2>3. LookIsComplete' /\ FillIsNew'
    BY DEF LookIsComplete, FillIsNew, LookOk, LookIndex, IndexOf
  <2>4. LookIsCurrent'
    <3>1. \A w \in Ways : ReadLine(w)' = ReadLine(w) /\ Line(w)' = Line(w)
      BY DEF ReadLine, LineAt, Line, LookIndex, IndexOf
    <3> QED BY <3>1 DEF LookIsCurrent, LookOk
  <2> QED BY <2>1, <2>2, <2>3, <2>4
<1> QED BY <1>1, <1>2

\* The inductive invariant holds in every state of every behaviour.
THEOREM Invariant == Spec => []IInv
  BY InitInvariant, NextInvariant, PTL DEF Spec

\* Every register and RAM always holds a value of its type.
THEOREM TypeCorrect == Spec => []TypeOK
<1>1. IInv => TypeOK
  BY DEF IInv
<1> QED BY <1>1, Invariant, PTL

\* No valid line of either way is ever older than memory, and no device's line
\* is ever kept: after any mix of stores, refills, atomics and invalidates.
THEOREM CacheCoherent == Spec => []Coherent
<1>1. IInv => Coherent
  BY DEF IInv
<1> QED BY <1>1, Invariant, PTL

\* A line is never in both ways, and no lookup hits in both.
THEOREM LineInOneWay == Spec => []SingleCopy
<1>1. IInv => SingleCopy
  BY DEF IInv
<1> QED BY <1>1, Invariant, PTL

\* A clock of the cache is a clock of the memory its CPU sees.
LEMMA RefinementNext == IInv /\ [Next]_vars => [Serial!MemoryNext]_(Serial!memoryVars)
<1> SUFFICES ASSUME IInv, [Next]_vars
             PROVE  [Serial!MemoryNext]_(Serial!memoryVars)
  OBVIOUS
<1>1. CASE UNCHANGED vars
  BY <1>1, RefinementStutter DEF vars
<1>2. CASE Next
  <2>1. PICK i \in Inputs : Clock(i)
    BY <1>2 DEF Next
  <2>2. HitShows(Hit, HitLine)
    BY HitIsLine DEF HitShows, LoadHit
  <2>3. ControlInv /\ HitLine \in Data
    BY LineType DEF IInv
  <2> QED BY <2>1, <2>2, <2>3, ClockOfControl, RefinementClock
<1> QED BY <1>1, <1>2

\* The cache with its memory is a memory that does every request once, in the
\* order in which the CPU made them, whichever way each line is in.
THEOREM CacheRefinesMemory == Spec => RefinesMemory
<1>1. Init => Serial!MemoryInit
  BY RefinementInit DEF Init
<1> QED BY <1>1, RefinementNext, Invariant, PTL
        DEF Spec, RefinesMemory, Serial!MemorySpec

=============================================================================
