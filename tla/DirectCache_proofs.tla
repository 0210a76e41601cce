------------------------- MODULE DirectCache_proofs -------------------------
(***************************************************************************)
(* DirectCache's invariants hold for any number of sets, tags, bytes and   *)
(* values, and from any content of the registers that reset leaves alone;  *)
(* with the memory behind it it implements LatencyMemory.                  *)
(***************************************************************************)
EXTENDS DirectCache, CacheControl_proofs

-----------------------------------------------------------------------------
(* The inductive invariant.                                                *)

\* What the lookup read of its set and still holds: the line memory has ...
SetLine == [tag |-> tag, set |-> looked.line.set]

LookIsCurrent ==
  (LookOk /\ valid) => SetLine \notin Devices /\ Line = mem[SetLine]

\* ... and all that the RAM has: what it holds now was there at the read.
LookIsComplete ==
  (LookOk /\ valid_mem[looked.line.set]) =>
    valid /\ tag = tag_mem[looked.line.set]

IInv ==
  /\ TypeOK
  /\ ControlInv
  /\ Coherent
  /\ LookIsCurrent
  /\ LookIsComplete

\* What a clock is for the control.
LEMMA ClockOfControl ==
  ASSUME NEW i \in Inputs, Clock(i)
  PROVE  ControlClock(i, Hit, Line, SameSet(i.req)) /\ LegalInputs(i)
  BY DEF Clock, ControlClock

-----------------------------------------------------------------------------
(* Types.                                                                  *)

\* A line address is a tag and a set.
LEMMA LineParts ==
  ASSUME NEW r \in Request
  PROVE  /\ r.line.set \in Sets /\ r.line.tag \in Tags
         /\ r.line = [tag |-> r.line.tag, set |-> r.line.set]
  BY RequestType, DirectAssumption

\* What a store makes of the line it hits.
LEMMA LineType ==
  ASSUME TypeOK
  PROVE  Line \in Data /\ Merged(Line) \in Data
<1>1. Line \in Data
  BY DEF Line, TypeOK
<1>2. looked.data \in Data
  BY RequestType DEF TypeOK, ControlTypeOK
<1> QED BY <1>1, <1>2, MergeType DEF Merged

\* The sets that are read and written are sets.
LEMMA SetType ==
  ASSUME TypeOK, NEW i \in Inputs
  PROVE  /\ looked.line.set \in Sets /\ looked.line.tag \in Tags
         /\ RdSet(i) \in Sets /\ RdSet(i) = Asked(i).line.set
<1>1. looked \in Request
  BY DEF TypeOK, ControlTypeOK
<1> QED BY <1>1, InputType, LineParts DEF RdSet, Asked

\* A clock leaves every register and RAM in a value of its type.
LEMMA TypeStep ==
  ASSUME TypeOK, ControlInv, NEW i \in Inputs, Clock(i)
  PROVE  TypeOK' /\ ControlInv'
<1> USE SetType
<1>1. ControlInv' /\ ControlTypeOK'
  <2>1. ControlInv'
    BY LineType, ClockOfControl, ControlInvStep
  <2> QED BY <2>1 DEF ControlInv
<1>2. valid_mem' \in [Sets -> BOOLEAN] /\ valid' \in BOOLEAN
  <2>1. Refill(i) \in BOOLEAN
    BY DEF Refill, Answered
  <2> QED BY <2>1 DEF Clock, ValidRam, TypeOK
<1>3. tag_mem' \in [Sets -> Tags] /\ tag' \in Tags
  BY DEF Clock, TagRam, TypeOK
<1>4. data_mem' \in [Sets -> Data] /\ ram_line' \in Data
  <2>1. Refill(i) => Head(pending) \in Data
    BY HeadType DEF Refill, Answered, ControlInv
  <2> QED BY <2>1, LineType DEF Clock, DataRam, TypeOK
<1>5. fwd' \in BOOLEAN /\ fwd_line' \in Data
  BY LineType DEF Clock, Forward, TypeOK
<1> QED BY <1>1, <1>2, <1>3, <1>4, <1>5 DEF TypeOK

-----------------------------------------------------------------------------
(* Coherence.                                                              *)

\* A request that changes memory under a line of the RAM meets it: a store
\* writes the same into both, an atomic drops the line.
LEMMA WriteMeetsLine ==
  ASSUME IInv, NEW i \in Inputs, Clock(i),
         NEW s \in Sets, valid_mem[s], ~(Drop(i, Hit) /\ s = looked.line.set)
  PROVE  LET l == [tag |-> tag_mem[s], set |-> s] IN
         /\ l \in Lines \ Devices /\ data_mem[s] = mem[l]
         /\ mem'[l] = IF StoreWrite(i, Hit) /\ s = looked.line.set
                      THEN Merged(Line) ELSE mem[l]
<1> USE DEF IInv
<1> DEFINE l == [tag |-> tag_mem[s], set |-> s]
<1>1. looked \in Request /\ ControlTypeOK
  BY DEF TypeOK, ControlTypeOK
<1>2. l \in Lines /\ l \notin Devices /\ data_mem[s] = mem[l]
  BY DirectAssumption DEF TypeOK, Coherent
<1>3. (LookOk /\ s = looked.line.set) => valid /\ tag = tag_mem[s]
  BY DEF LookIsComplete
<1>4. CASE StoreWrite(i, Hit) /\ s = looked.line.set
  <2>1. LookOk /\ looked.op = "store" /\ Hit /\ i.mem_ready /\ LookReq(Hit)
    BY <1>4 DEF StoreWrite, Store, LookReq
  <2>2. l = looked.line /\ SetLine = l
    BY <1>1, <1>3, <1>4, <2>1, LineParts DEF Hit, SetLine
  <2>3. Line = mem[l]
    BY <1>3, <1>4, <2>1, <2>2 DEF LookIsCurrent
  <2>4. AsMemory(looked).bytes = looked.bytes
    BY <1>1, <2>1 DEF AsMemory
  <2>5. mem'[l] = Merge(mem[l], looked.data, looked.bytes)
    BY <1>1, <1>2, <2>1, <2>2, <2>4, MemChange, ClockOfControl DEF Written
  <2> QED BY <1>2, <1>4, <2>3, <2>5 DEF Merged
<1>5. CASE ~(StoreWrite(i, Hit) /\ s = looked.line.set)
  <2>1. SUFFICES ASSUME LookReq(Hit), i.mem_ready, looked.op # "load", l = looked.line
                 PROVE  FALSE
    BY <1>1, <1>2, <1>5, MemChange, ClockOfControl
  <2>2. LookOk /\ s = looked.line.set /\ tag_mem[s] = looked.line.tag
    BY <2>1 DEF LookReq, Store, LoadMiss
  <2>3. Hit
    BY <1>3, <2>2 DEF Hit, LookOk
  <2>4. CASE looked.op = "store"
    BY <1>5, <2>1, <2>2, <2>3, <2>4 DEF StoreWrite, Store
  <2>5. CASE looked.op = "atomic"
    BY <2>1, <2>2, <2>3, <2>5 DEF Drop, Served, LoadMiss
  <2> QED BY <1>1, <2>1, <2>4, <2>5, RequestType
<1> QED BY <1>2, <1>4, <1>5

\* Every valid line of the RAM is still memory's.
LEMMA CoherentStep ==
  ASSUME IInv, NEW i \in Inputs, Clock(i)
  PROVE  Coherent'
<1> USE DEF IInv
<1> SUFFICES ASSUME NEW s \in Sets, valid_mem'[s]
             PROVE  LET l == [tag |-> tag_mem'[s], set |-> s] IN
                    l \notin Devices /\ data_mem'[s] = mem'[l]
  BY DEF Coherent
<1>1. looked \in Request /\ looked.line.set \in Sets /\ ControlTypeOK
  BY SetType DEF TypeOK, ControlTypeOK
<1>2. valid_mem \in [Sets -> BOOLEAN] /\ tag_mem \in [Sets -> Tags] /\ data_mem \in [Sets -> Data]
  BY DEF TypeOK
<1>3. CASE Refill(i) /\ s = looked.line.set
  <2>1. tag_mem'[s] = looked.line.tag /\ data_mem'[s] = Head(pending)
    BY <1>1, <1>2, <1>3 DEF Clock, TagRam, DataRam
  <2>2. [tag |-> looked.line.tag, set |-> s] = looked.line
    BY <1>1, <1>3, LineParts
  <2>3. mem'[looked.line] = mem[looked.line]
    BY <1>1, <1>3, RefillAlone, MemChange, ClockOfControl
  <2> QED BY <1>3, <2>1, <2>2, <2>3, RefillAlone, ClockOfControl
<1>4. CASE ~(Refill(i) /\ s = looked.line.set)
  <2>1. valid_mem[s] /\ ~(Drop(i, Hit) /\ s = looked.line.set)
    BY <1>1, <1>2, <1>4, RefillAlone, ClockOfControl DEF Clock, ValidRam
  <2>2. tag_mem'[s] = tag_mem[s]
    BY <1>2, <1>4 DEF Clock, TagRam
  <2>3. data_mem'[s] = IF StoreWrite(i, Hit) /\ s = looked.line.set
                       THEN Merged(Line) ELSE data_mem[s]
    BY <1>1, <1>2, <1>4, RefillAlone, ClockOfControl DEF Clock, DataRam
  <2> QED BY <2>1, <2>2, <2>3, WriteMeetsLine
<1> QED BY <1>3, <1>4

\* The set a lookup of the next clock was read for is not the refill's.
LEMMA LookSetStep ==
  ASSUME IInv, NEW i \in Inputs, Clock(i), LookOk'
  PROVE  \/ /\ RamRd(i, Hit) /\ RdSet(i) = looked'.line.set /\ ~Drop(i, Hit)
            /\ Refill(i) => looked'.line.set # looked.line.set
            /\ (i.req # None /\ looked' = i.req) \/ (replay /\ looked' = looked)
         \/ /\ ~RamRd(i, Hit) /\ looked' = looked /\ LookOk /\ ~i.mem_ready
            /\ ~Refill(i) /\ ~Drop(i, Hit) /\ ~StoreWrite(i, Hit)
<1> USE DEF IInv
<1>1. LegalInputs(i) /\ ControlClock(i, Hit, Line, SameSet(i.req))
  BY ClockOfControl
<1>2. Refill(i) => ~replay
  BY <1>1, RefillAlone
<1>3. Asked(i).line.set = RdSet(i)
  BY SetType
<1> QED BY <1>1, <1>2, <1>3, LookStep DEF SameSet

\* The lookup still has all that the RAM holds for its set.
LEMMA LookIsCompleteStep ==
  ASSUME IInv, NEW i \in Inputs, Clock(i)
  PROVE  LookIsComplete'
<1> USE DEF IInv
<1> SUFFICES ASSUME LookOk', valid_mem'[looked'.line.set]
             PROVE  valid' /\ tag' = tag_mem'[looked'.line.set]
  BY DEF LookIsComplete
<1> DEFINE s == looked'.line.set
<1>1. s \in Sets /\ looked.line.set \in Sets
  BY SetType, TypeStep, LineParts DEF TypeOK, ControlTypeOK
<1>2. valid_mem \in [Sets -> BOOLEAN] /\ tag_mem \in [Sets -> Tags]
  BY DEF TypeOK
<1>3. ~(Refill(i) /\ s = looked.line.set) => valid_mem[s] /\ tag_mem'[s] = tag_mem[s]
  BY <1>1, <1>2 DEF Clock, ValidRam, TagRam
<1>4. CASE RamRd(i, Hit) /\ RdSet(i) = s
  <2>1. valid' = valid_mem[s] /\ tag' = tag_mem[s]
    BY <1>4 DEF Clock, ValidRam, TagRam
  <2>2. ~(Refill(i) /\ s = looked.line.set)
    BY <1>4, LookSetStep
  <2> QED BY <1>3, <2>1, <2>2
<1>5. CASE ~RamRd(i, Hit) /\ looked' = looked /\ LookOk /\ ~Refill(i)
  <2>1. valid' = valid /\ tag' = tag
    BY <1>5 DEF Clock, ValidRam, TagRam
  <2> QED BY <1>3, <1>5, <2>1 DEF LookIsComplete
<1> QED BY <1>4, <1>5, LookSetStep

\* What the lookup shows of its set is still memory's line: read from the RAM,
\* forwarded, or held.
LEMMA LookIsCurrentStep ==
  ASSUME IInv, NEW i \in Inputs, Clock(i)
  PROVE  LookIsCurrent'
<1> USE DEF IInv
<1> SUFFICES ASSUME LookOk', valid'
             PROVE  SetLine' \notin Devices /\ Line' = mem'[SetLine']
  BY DEF LookIsCurrent
<1> DEFINE s == looked'.line.set
<1>1. s \in Sets /\ looked.line.set \in Sets /\ looked \in Request /\ ControlTypeOK
  BY SetType, TypeStep, LineParts DEF TypeOK, ControlTypeOK
<1>2. CASE RamRd(i, Hit) /\ RdSet(i) = s
  <2>1. valid' = valid_mem[s] /\ tag' = tag_mem[s] /\ ram_line' = data_mem[s]
    BY <1>2 DEF Clock, ValidRam, TagRam, DataRam
  <2>2. ~Drop(i, Hit)
    BY <1>2, LookSetStep
  <2> DEFINE l == [tag |-> tag_mem[s], set |-> s]
  <2>3. /\ l \in Lines \ Devices /\ data_mem[s] = mem[l]
        /\ mem'[l] = IF StoreWrite(i, Hit) /\ s = looked.line.set
                     THEN Merged(Line) ELSE mem[l]
    BY <1>1, <2>1, <2>2, WriteMeetsLine
  <2>4. SetLine' = l
    BY <2>1 DEF SetLine
  <2>5. fwd' = (StoreWrite(i, Hit) /\ SameSet(i.req))
    BY <1>2 DEF Clock, Forward
  <2>6. fwd' <=> StoreWrite(i, Hit) /\ s = looked.line.set
    <3>1. CASE i.req # None /\ looked' = i.req
      BY <2>5, <3>1 DEF SameSet
    <3>2. CASE replay
      BY <2>5, <3>2 DEF StoreWrite, Store, LookOk
    <3> QED BY <1>2, <3>1, <3>2, LookSetStep
  <2>7. fwd' => fwd_line' = Merged(Line)
    BY <2>6 DEF Clock, Forward
  <2>8. Line' = mem'[l]
    BY <2>1, <2>3, <2>6, <2>7 DEF Line
  <2> QED BY <2>3, <2>4, <2>8
<1>3. CASE /\ ~RamRd(i, Hit) /\ looked' = looked /\ LookOk /\ ~i.mem_ready
           /\ ~StoreWrite(i, Hit)
  <2>1. /\ valid' = valid /\ tag' = tag /\ ram_line' = ram_line
        /\ fwd' = fwd /\ fwd_line' = fwd_line
    BY <1>3 DEF Clock, ValidRam, TagRam, DataRam, Forward
  <2>2. SetLine' = SetLine /\ Line' = Line
    BY <1>3, <2>1 DEF SetLine, Line
  <2>3. SetLine \in Lines \ Devices /\ Line = mem[SetLine]
    BY <1>1, <1>3, <2>1, DirectAssumption DEF LookIsCurrent, SetLine, TypeOK
  <2>4. mem'[SetLine] = mem[SetLine]
    BY <1>1, <1>3, <2>3, MemChange, ClockOfControl
  <2> QED BY <2>2, <2>3, <2>4
<1> QED BY <1>2, <1>3, LookSetStep

\* A request that memory does not take is offered again: what makes it is held.
LEMMA HeldRequestStep ==
  ASSUME NEW i \in Stalls, Clock(i), LookReq(Hit)
  PROVE  LookReq(Hit)' /\ looked' = looked
<1>1. LookOk /\ Held(i, Hit) /\ ~Accept(i, Hit) /\ ~RamRd(i, Hit)
  BY DEF Stalls, Held, LookReq, Store, LoadMiss, LookOk, Accept, ReadyCached, RamRd
<1>2. look' /\ ~replay' /\ looked' = looked
  BY <1>1 DEF Clock, ControlStep
<1>3. valid' = valid /\ tag' = tag
  BY <1>1 DEF Clock, ValidRam, TagRam
<1>4. LookOk' /\ Hit' = Hit
  BY <1>1, <1>2, <1>3 DEF LookOk, Hit
<1> QED BY <1>1, <1>2, <1>4 DEF LookReq, Store, LoadMiss

-----------------------------------------------------------------------------
(* The theorems.                                                           *)

\* Reset establishes the invariant, whatever the registers without reset hold.
LEMMA InitInvariant == Init => IInv
<1> SUFFICES ASSUME Init PROVE IInv
  OBVIOUS
<1>1. ControlInv
  BY ControlInvInit DEF Init
<1>2. TypeOK
  BY <1>1 DEF Init, TypeOK, ControlInv
<1>3. Coherent /\ LookIsCurrent /\ LookIsComplete
  BY DEF Init, ControlInit, Coherent, LookIsCurrent, LookIsComplete, LookOk
<1> QED BY <1>1, <1>2, <1>3 DEF IInv

\* Every clock, with any inputs, keeps it; so does no clock at all.
LEMMA NextInvariant == IInv /\ [Next]_vars => IInv'
<1> SUFFICES ASSUME IInv, [Next]_vars PROVE IInv'
  OBVIOUS
<1>1. CASE Next
  <2>1. PICK i \in Inputs : Clock(i)
    BY <1>1 DEF Next
  <2>2. TypeOK' /\ ControlInv'
    BY <2>1, TypeStep DEF IInv
  <2>3. Coherent' /\ LookIsCurrent' /\ LookIsComplete'
    BY <2>1, CoherentStep, LookIsCurrentStep, LookIsCompleteStep
  <2> QED BY <2>2, <2>3 DEF IInv
<1>2. CASE UNCHANGED vars
  <2> USE <1>2 DEF IInv, vars, memoryVars, controlVars, ramVars
  <2>1. TypeOK' /\ ControlInv'
    BY DEF TypeOK, ControlInv, ControlTypeOK, OneAtATime, OwedWhileWaiting, FillIsCurrent
  <2>2. Coherent' /\ LookIsCurrent' /\ LookIsComplete'
    BY DEF Coherent, LookIsCurrent, LookIsComplete, LookOk, SetLine, Line
  <2> QED BY <2>1, <2>2
<1> QED BY <1>1, <1>2

\* The inductive invariant holds in every state of every behaviour.
THEOREM Invariant == Spec => []IInv
  BY InitInvariant, NextInvariant, PTL DEF Spec

\* Every register and RAM always holds a value of its type.
THEOREM TypeCorrect == Spec => []TypeOK
<1>1. IInv => TypeOK
  BY DEF IInv
<1> QED BY <1>1, Invariant, PTL

\* No valid line of the cache is ever older than memory, and no device's line
\* is ever kept: after any mix of stores, refills, atomics and invalidates.
THEOREM CacheCoherent == Spec => []Coherent
<1>1. IInv => Coherent
  BY DEF IInv
<1> QED BY <1>1, Invariant, PTL

\* What a lookup that hits shows is memory's line, and no device's.
LEMMA HitIsLine ==
  ASSUME IInv, LookOk, Hit
  PROVE  looked.line \notin Devices /\ Line = mem[looked.line]
<1>1. looked \in Request
  BY DEF IInv, TypeOK, ControlTypeOK
<1>2. SetLine = looked.line
  BY <1>1, LineParts DEF SetLine, Hit
<1> QED BY <1>2 DEF IInv, LookIsCurrent, Hit

\* A load that hits is always shown memory's line, also when the line was
\* written at the very edge at which the load read the RAM.
THEOREM HitsAreCurrent == Spec => []HitIsCurrent
<1>1. IInv => HitIsCurrent
  BY HitIsLine DEF HitIsCurrent
<1> QED BY <1>1, Invariant, PTL

\* A request to memory stays as it is until memory takes it.
THEOREM RequestsAreHeld == Spec => RequestHeld
<1> DEFINE Kept == LookReq(Hit) /\ ~(LookReq(Hit)' /\ looked' = looked)
                     => \A i \in Stalls : ~Clock(i)
<1>1. Kept
  BY HeldRequestStep
<1>2. [Kept]_vars
  BY <1>1
<1> QED BY <1>2, PTL DEF RequestHeld

-----------------------------------------------------------------------------
(* The refinement.                                                         *)

\* A clock of the cache is a clock of the memory its CPU sees.
LEMMA RefinementNext == IInv /\ [Next]_vars => [Serial!MemoryNext]_(Serial!memoryVars)
<1> SUFFICES ASSUME IInv, [Next]_vars
             PROVE  [Serial!MemoryNext]_(Serial!memoryVars)
  OBVIOUS
<1>1. CASE UNCHANGED vars
  BY <1>1, RefinementStutter DEF vars
<1>2. CASE Next
  <2>1. PICK i \in Inputs : Clock(i)
    BY <1>2 DEF Next
  <2>2. HitShows(Hit, Line)
    BY HitIsLine DEF HitShows, LoadHit
  <2>3. ControlInv /\ Line \in Data
    BY LineType DEF IInv
  <2> QED BY <2>1, <2>2, <2>3, ClockOfControl, RefinementClock
<1> QED BY <1>1, <1>2

\* The cache with its memory is a memory that does every request once, in the
\* order in which the CPU made them: for every number of sets, tags and bytes,
\* every latency of the memory and every pattern of stalls and invalidates.
THEOREM CacheRefinesMemory == Spec => RefinesMemory
<1>1. Init => Serial!MemoryInit
  BY RefinementInit DEF Init
<1> QED BY <1>1, RefinementNext, Invariant, PTL
        DEF Spec, RefinesMemory, Serial!MemorySpec

=============================================================================
