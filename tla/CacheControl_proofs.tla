------------------------- MODULE CacheControl_proofs -------------------------
(***************************************************************************)
(* What the control of the caches does whatever the ways around it are:    *)
(* "hit", "hit_line" and "conflict" are what the ways tell it in a clock.  *)
(* From a lookup whose hits show the line memory has follows that control  *)
(* and memory together implement LatencyMemory: a request is done, as the  *)
(* CPU sees it, when the cache takes it.  DirectCache_proofs and           *)
(* SkewedCache_proofs bring the ways.                                      *)
(***************************************************************************)
EXTENDS CacheControl, SequenceTheorems, TLAPS

-----------------------------------------------------------------------------
(* The control's part of the inductive invariant.                          *)

\* At most one of the three states of a request is occupied, and only a lookup
\* is replayed.
OneAtATime ==
  /\ look => ~waiting /\ ~unc_waiting
  /\ waiting => ~unc_waiting
  /\ replay => look

\* Memory owes an answer exactly when the control waits for one.
OwedWhileWaiting ==
  IF waiting \/ unc_waiting THEN \E d \in Data : pending = <<d>> ELSE pending = <<>>

\* The line on its way into the cache may be cached and is not written while
\* it is on its way.
FillIsCurrent ==
  (waiting /\ ~wait_nocache) =>
    looked.line \notin Devices /\ pending = <<mem[looked.line]>>

ControlInv ==
  /\ ControlTypeOK
  /\ OneAtATime
  /\ OwedWhileWaiting
  /\ FillIsCurrent

\* A clock of the control, for what the ways tell it.
ControlClock(i, hit, hit_line, conflict) ==
  LegalInputs(i) /\ ControlStep(i, hit, hit_line, conflict)

\* The request whose line the RAMs read.
Asked(i) == IF replay \/ i.req = None THEN looked ELSE i.req

\* A lookup that hits as a load shows the line memory has.
HitShows(hit, hit_line) ==
  LoadHit(hit) => looked.line \notin Devices /\ hit_line = mem[looked.line]

-----------------------------------------------------------------------------
(* The operators the control is built from.                                *)

\* Merging bytes of one line into another makes a line.
LEMMA MergeType ==
  ASSUME NEW old \in Data, NEW new \in Data, NEW strb
  PROVE  Merge(old, new, strb) \in Data
  BY DEF Merge, Data

\* Whatever a request does to a line, a line comes out.
LEMMA AfterType ==
  ASSUME NEW r \in MemRequest, NEW old \in Data
  PROVE  After(r, old) \in Data
<1>1. Merge(old, Written(r, old), r.bytes) \in Data
  <2>1. Written(r, old) \in Data
    BY MemoryAssumption DEF Written, MemRequest
  <2> QED BY <2>1, MergeType
<1>2. Touched(old, r.bytes) \in Data
  BY MemoryAssumption DEF Touched, Data
<1> QED BY <1>1, <1>2 DEF After

\* A request of the CPU reaches memory as a request, for the same line.
LEMMA AsMemoryType ==
  ASSUME NEW r \in Request
  PROVE  /\ AsMemory(r) \in MemRequest
         /\ AsMemory(r) # None
         /\ AsMemory(r).line = r.line
         /\ AsMemory(r).op = r.op
         /\ AsMemory(r).data = r.data
<1>1. r \in [line: Lines, op: {"load", "store", "atomic"}, path: Paths,
              bytes: SUBSET Bytes, data: Data]
  BY DEF Request
<1>2. AsMemory(r) \in MemRequest
  BY <1>1 DEF AsMemory, MemRequest
<1> QED BY <1>1, <1>2, MemRequestsAssumption DEF AsMemory

\* What the proofs below use of a request.
LEMMA RequestType ==
  ASSUME NEW r \in Request
  PROVE  /\ r # None
         /\ r.line \in Lines
         /\ r.op \in {"load", "store", "atomic"}
         /\ r.data \in Data
         /\ (r.path = "cached") <=> (r.line \notin Devices)
  BY RequestsAssumption DEF Request

\* The inputs of a clock.
LEMMA InputType ==
  ASSUME NEW i \in Inputs
  PROVE  /\ i.mem_ready \in BOOLEAN /\ i.mem_rsp \in BOOLEAN /\ i.invalidate \in BOOLEAN
         /\ i.req = None \/ i.req \in Request
  BY RequestsAssumption DEF Inputs

\* An uncached request passes only when no other request is inside, and only
\* to a device.
LEMMA UncPassWhenIdle ==
  ASSUME NEW i \in Inputs, UncPass(i)
  PROVE  /\ i.req \in Request /\ i.req.line \in Devices
         /\ ~look /\ ~waiting /\ ~UncBusy(i)
<1>1. i.req # None /\ i.req.path = "bypass"
  BY DEF UncPass, Bypasses
<1>2. i.req \in Request
  BY <1>1, InputType
<1> QED BY <1>1, <1>2, RequestType DEF UncPass, Idle

-----------------------------------------------------------------------------
(* Memory over one clock.                                                  *)

\* What a clock does to memory: nothing, or one request, for the line looked
\* up or for a device.
LEMMA MemTakenCases ==
  ASSUME NEW i \in Inputs, NEW hit
  PROVE  \/ /\ MemTaken(i, hit) = None
            /\ ~(LookReq(hit) /\ i.mem_ready)
            /\ ~(UncPass(i) /\ i.mem_ready)
         \/ /\ UncPass(i) /\ i.mem_ready /\ ~LookReq(hit)
            /\ MemTaken(i, hit) = AsMemory(i.req)
         \/ /\ LookReq(hit) /\ i.mem_ready /\ ~UncPass(i)
            /\ MemTaken(i, hit) = AsMemory(looked)
<1>1. UncPass(i) => ~LookReq(hit)
  BY UncPassWhenIdle DEF LookReq, Store, LoadMiss, LookOk
<1> QED BY <1>1 DEF MemTaken, MemReq

\* A request for memory is a request of memory.
LEMMA MemTakenType ==
  ASSUME ControlTypeOK, NEW i \in Inputs, NEW hit
  PROVE  MemTaken(i, hit) = None \/ MemTaken(i, hit) \in MemRequest
<1>1. looked \in Request
  BY DEF ControlTypeOK
<1> QED BY <1>1, MemTakenCases, UncPassWhenIdle, AsMemoryType

\* Memory stays a function from lines to data.
LEMMA MemType ==
  ASSUME ControlTypeOK, NEW i \in Inputs, NEW hit, NEW hit_line, NEW conflict,
         ControlClock(i, hit, hit_line, conflict)
  PROVE  mem' \in [Lines -> Data]
<1> DEFINE r == MemTaken(i, hit)
<1>1. mem \in [Lines -> Data]
  BY DEF ControlTypeOK
<1>2. mem' = IF r = None THEN mem ELSE [mem EXCEPT ![r.line] = After(r, @)]
  BY DEF ControlClock, ControlStep, MemoryClock
<1>3. CASE r = None
  BY <1>1, <1>2, <1>3
<1>4. CASE r \in MemRequest
  <2>1. r.line \in Lines /\ r # None
    BY <1>4, MemRequestsAssumption DEF MemRequest
  <2>2. After(r, mem[r.line]) \in Data
    BY <1>1, <1>4, <2>1, AfterType
  <2> QED BY <1>1, <1>2, <2>1, <2>2
<1> HIDE DEF r
<1> QED BY <1>3, <1>4, MemTakenType DEF r

\* A line that no device has changes only by the store or the atomic looked up
\* when memory takes it.
LEMMA MemChange ==
  ASSUME ControlTypeOK, NEW i \in Inputs, NEW hit, NEW hit_line, NEW conflict,
         ControlClock(i, hit, hit_line, conflict), NEW l \in Lines \ Devices
  PROVE  mem'[l] = IF LookReq(hit) /\ i.mem_ready /\ looked.op # "load" /\ l = looked.line
                   THEN Merge(mem[l], Written(looked, mem[l]), AsMemory(looked).bytes)
                   ELSE mem[l]
<1>1. mem \in [Lines -> Data] /\ looked \in Request
  BY DEF ControlTypeOK
<1>2. mem' = LET r == MemTaken(i, hit) IN
             IF r = None THEN mem ELSE [mem EXCEPT ![r.line] = After(r, @)]
  BY DEF ControlClock, ControlStep, MemoryClock
<1>3. CASE MemTaken(i, hit) = None /\ ~(LookReq(hit) /\ i.mem_ready)
  BY <1>2, <1>3
<1>4. CASE UncPass(i) /\ MemTaken(i, hit) = AsMemory(i.req) /\ ~LookReq(hit)
  <2>1. i.req \in Request /\ i.req.line \in Devices
    BY <1>4, UncPassWhenIdle
  <2>2. AsMemory(i.req).line # l /\ AsMemory(i.req) # None
    BY <2>1, AsMemoryType
  <2> QED BY <1>1, <1>2, <1>4, <2>2
<1>5. CASE LookReq(hit) /\ i.mem_ready /\ MemTaken(i, hit) = AsMemory(looked)
  <2>1. mem' = [mem EXCEPT ![looked.line] = After(AsMemory(looked), @)]
    BY <1>1, <1>2, <1>5, AsMemoryType
  <2>2. l = looked.line => After(AsMemory(looked), mem[l])
          = IF looked.op # "load"
            THEN Merge(mem[l], Written(looked, mem[l]), AsMemory(looked).bytes)
            ELSE mem[l]
    <3>1. Written(AsMemory(looked), mem[l]) = Written(looked, mem[l])
      BY DEF Written, AsMemory
    <3> QED BY <1>1, <3>1, AsMemoryType DEF After
  <2> QED BY <1>1, <1>5, <2>1, <2>2
<1> QED BY <1>3, <1>4, <1>5, MemTakenCases

\* The reads memory takes are those the control waits for afterwards.
LEMMA ReadTaken ==
  ASSUME ControlTypeOK, NEW i \in Inputs, NEW hit
  PROVE  Reads(MemTaken(i, hit)) <=>
           \/ Served(i, hit)
           \/ UncPass(i) /\ i.mem_ready /\ i.req.op # "store"
<1>1. looked \in Request
  BY DEF ControlTypeOK
<1>2. LookReq(hit) => (LoadMiss(hit) <=> looked.op # "store")
  BY DEF LookReq, Store, LoadMiss
<1>3. LoadMiss(hit) => LookReq(hit)
  BY DEF LookReq
<1> QED BY <1>1, <1>2, <1>3, MemTakenCases, UncPassWhenIdle, AsMemoryType DEF Reads, Served

\* A queue of one line.
LEMMA OneLine ==
  ASSUME NEW d \in Data
  PROVE  <<d>> \in Seq(Data) /\ <<d>> # <<>> /\ Head(<<d>>) = d /\ Tail(<<d>>) = <<>>
<1>1. <<d>> \in Seq(Data) /\ Len(<<d>>) = 1 /\ <<d>> # <<>> /\ Head(<<d>>) = d
  OBVIOUS
<1>2. Tail(<<d>>) \in Seq(Data) /\ Len(Tail(<<d>>)) = 0
  BY <1>1, HeadTailProperties
<1>3. Tail(<<d>>) = <<>>
  BY <1>2, EmptySeq
<1> QED BY <1>1, <1>3

\* What a queue of at most one line becomes.
LEMMA PendingStep ==
  ASSUME ControlInv, NEW i \in Inputs, NEW hit, NEW hit_line, NEW conflict,
         ControlClock(i, hit, hit_line, conflict)
  PROVE  /\ i.mem_rsp => waiting \/ unc_waiting
         /\ Reads(MemTaken(i, hit)) => mem[MemTaken(i, hit).line] \in Data
         /\ pending' = IF Reads(MemTaken(i, hit)) THEN <<mem[MemTaken(i, hit).line]>>
                       ELSE IF i.mem_rsp THEN <<>> ELSE pending
<1> USE DEF ControlInv
<1> DEFINE r == MemTaken(i, hit)
           rest == IF i.mem_rsp THEN Tail(pending) ELSE pending
<1>1. i.mem_rsp => pending # <<>>
  BY DEF ControlClock, LegalInputs
<1>2. i.mem_rsp => waiting \/ unc_waiting
  BY <1>1 DEF OwedWhileWaiting
<1>3. Reads(r) => ((waiting \/ unc_waiting) => i.mem_rsp)
  BY ReadTaken, UncPassWhenIdle
     DEF OneAtATime, Served, LoadMiss, LookOk, UncBusy
<1>4. Reads(r) => mem[r.line] \in Data
  <2>1. r \in MemRequest \/ r = None
    BY MemTakenType
  <2> QED BY <2>1 DEF Reads, MemRequest, ControlTypeOK
<1>5. pending' = rest \o (IF Reads(r) THEN <<mem[r.line]>> ELSE <<>>)
  BY DEF ControlClock, ControlStep, MemoryClock
<1>6. i.mem_rsp => rest = <<>>
  BY <1>1, OneLine DEF OwedWhileWaiting
<1>7. Reads(r) => rest = <<>>
  BY <1>3, <1>6 DEF OwedWhileWaiting
<1>8. rest \in Seq(Data)
  <2>1. pending \in Seq(Data)
    BY DEF ControlTypeOK
  <2> QED BY <1>6, <2>1, EmptySeq
<1> HIDE DEF r, rest
<1>9. CASE Reads(r)
  <2>1. <<mem[r.line]>> \in Seq(Data)
    BY <1>4, <1>9
  <2>2. pending' = <<mem[r.line]>>
    BY <1>5, <1>7, <1>9, <2>1, ConcatEmptySeq
  <2> QED BY <1>2, <1>4, <1>9, <2>2 DEF r
<1>10. CASE ~Reads(r)
  <2>1. pending' = rest
    BY <1>5, <1>8, <1>10, ConcatEmptySeq
  <2> QED BY <1>2, <1>6, <1>10, <2>1 DEF r, rest
<1> QED BY <1>9, <1>10

\* The oldest line memory owes, while the control waits for it.
LEMMA HeadType ==
  ASSUME OwedWhileWaiting, waiting \/ unc_waiting
  PROVE  Head(pending) \in Data
  BY OneLine DEF OwedWhileWaiting

-----------------------------------------------------------------------------
(* Every clock keeps the control's invariant.                              *)

\* The control's registers keep their types, and memory its own.
LEMMA ControlTypeStep ==
  ASSUME ControlInv, NEW i \in Inputs, NEW hit, NEW hit_line \in Data, NEW conflict,
         ControlClock(i, hit, hit_line, conflict)
  PROVE  ControlTypeOK'
<1> USE DEF ControlInv
<1>1. mem' \in [Lines -> Data]
  BY MemType
<1>2. pending' \in Seq(Data)
  <2>1. pending \in Seq(Data)
    BY DEF ControlTypeOK
  <2>2. Reads(MemTaken(i, hit)) => <<mem[MemTaken(i, hit).line]>> \in Seq(Data)
    BY PendingStep, OneLine
  <2> QED BY <2>1, <2>2, PendingStep, EmptySeq
<1>3. answer' \in Data \cup {None}
  <2>1. answer' = IF RspValid(i, hit) THEN RspData(hit_line) ELSE None
    BY DEF ControlClock, ControlStep
  <2>2. RspData(hit_line) \in Data
    BY HeadType DEF RspData
  <2> QED BY <2>1, <2>2
<1>4. looked' \in Request
  <2>1. looked' = IF Accept(i, hit) THEN i.req ELSE looked
    BY DEF ControlClock, ControlStep
  <2>2. Accept(i, hit) => i.req # None
    BY DEF Accept, LooksUp
  <2> QED BY <2>1, <2>2, InputType DEF ControlTypeOK
<1>5. {look', replay', waiting', unc_waiting'} \subseteq BOOLEAN
  BY DEF ControlClock, ControlStep
<1>6. wait_nocache' \in BOOLEAN
  BY DEF ControlClock, ControlStep, Exact, ControlTypeOK
<1> QED BY <1>1, <1>2, <1>3, <1>4, <1>5, <1>6 DEF ControlTypeOK

\* The states of the control exclude each other.
LEMMA OneAtATimeStep ==
  ASSUME ControlInv, NEW i \in Inputs, NEW hit, NEW hit_line, NEW conflict,
         ControlClock(i, hit, hit_line, conflict)
  PROVE  OneAtATime'
<1> USE DEF ControlInv
<1>1. look' => Accept(i, hit) \/ Held(i, hit) \/ replay
  BY DEF ControlClock, ControlStep
<1>2. replay' => look'
  BY DEF ControlClock, ControlStep
<1>3. waiting' => Served(i, hit) \/ (waiting /\ ~i.mem_rsp)
  BY DEF ControlClock, ControlStep
<1>4. unc_waiting' => UncPass(i) \/ UncBusy(i)
  BY DEF ControlClock, ControlStep
<1>5. Accept(i, hit) =>
        /\ ~(waiting /\ ~i.mem_rsp) /\ ~LoadMiss(hit) /\ ~UncBusy(i)
        /\ ~UncPass(i)
  BY DEF Accept, ReadyCached, LooksUp, UncPass, Bypasses
<1>6. LookReq(hit) \/ LoadMiss(hit) => look /\ ~replay
  BY DEF LookReq, Store, LoadMiss, LookOk
<1>7. look' => ~waiting' /\ ~unc_waiting'
  BY <1>1, <1>3, <1>4, <1>5, <1>6, UncPassWhenIdle
     DEF OneAtATime, Held, Served, UncBusy
<1>8. waiting' => ~unc_waiting'
  BY <1>3, <1>4, <1>6, UncPassWhenIdle DEF OneAtATime, Served, UncBusy
<1> QED BY <1>2, <1>7, <1>8 DEF OneAtATime

\* Memory still owes an answer exactly when the control waits for one.
LEMMA OwedWhileWaitingStep ==
  ASSUME ControlInv, NEW i \in Inputs, NEW hit, NEW hit_line, NEW conflict,
         ControlClock(i, hit, hit_line, conflict)
  PROVE  OwedWhileWaiting'
<1> USE DEF ControlInv
<1> DEFINE r == MemTaken(i, hit)
<1>1. Reads(r) => mem[r.line] \in Data
  BY PendingStep
<1>2. waiting' \/ unc_waiting' <=>
        Reads(r) \/ ((waiting \/ unc_waiting) /\ ~i.mem_rsp)
  BY ReadTaken DEF ControlClock, ControlStep, UncBusy
<1>3. pending' = IF Reads(r) THEN <<mem[r.line]>>
                 ELSE IF i.mem_rsp THEN <<>> ELSE pending
  BY PendingStep
<1> QED BY <1>1, <1>2, <1>3 DEF OwedWhileWaiting

\* The line that is fetched stays as it was when memory took the request.
LEMMA FillIsCurrentStep ==
  ASSUME ControlInv, NEW i \in Inputs, NEW hit, NEW hit_line, NEW conflict,
         ControlClock(i, hit, hit_line, conflict)
  PROVE  FillIsCurrent'
<1> USE DEF ControlInv
<1> SUFFICES ASSUME waiting', ~wait_nocache'
             PROVE  looked'.line \notin Devices /\ pending' = <<mem'[looked'.line]>>
  BY DEF FillIsCurrent
<1>1. looked \in Request /\ looked.line \in Lines
  BY RequestType DEF ControlTypeOK
<1>2. wait_nocache' = IF Served(i, hit) THEN Exact(looked) ELSE wait_nocache
  BY DEF ControlClock, ControlStep
<1>3. looked' = IF Accept(i, hit) THEN i.req ELSE looked
  BY DEF ControlClock, ControlStep
<1>4. CASE Served(i, hit)
  <2>1. looked' = looked /\ looked.path = "cached" /\ looked.op = "load" /\ LookReq(hit)
    BY <1>1, <1>2, <1>3, <1>4, RequestType
       DEF Served, Accept, ReadyCached, Exact, LookReq, LoadMiss
  <2>2. looked.line \notin Devices
    BY <1>1, <2>1, RequestType
  <2>3. MemTaken(i, hit) = AsMemory(looked) /\ Reads(MemTaken(i, hit))
    BY <1>4, <2>1, MemTakenCases, ReadTaken DEF Served
  <2>4. pending' = <<mem[looked.line]>>
    BY <1>1, <2>3, PendingStep, AsMemoryType
  <2>5. mem'[looked.line] = mem[looked.line]
    BY <1>1, <2>1, <2>2, MemChange
  <2> QED BY <2>1, <2>2, <2>4, <2>5
<1>5. CASE ~Served(i, hit)
  <2>1. waiting /\ ~i.mem_rsp /\ ~wait_nocache
    BY <1>2, <1>5 DEF ControlClock, ControlStep
  <2>2. looked' = looked
    BY <1>3, <2>1 DEF Accept, ReadyCached
  <2>3. ~Reads(MemTaken(i, hit))
    BY <1>5, <2>1, ReadTaken, UncPassWhenIdle
  <2>4. pending' = pending
    BY <2>1, <2>3, PendingStep
  <2>5. mem'[looked.line] = mem[looked.line]
    <3>1. ~LookReq(hit)
      BY <2>1 DEF OneAtATime, LookReq, Store, LoadMiss, LookOk
    <3> QED BY <1>1, <2>1, <3>1, MemChange DEF FillIsCurrent
  <2> QED BY <2>1, <2>2, <2>4, <2>5 DEF FillIsCurrent
<1> QED BY <1>4, <1>5

\* Reset establishes the control's invariant.
LEMMA ControlInvInit == ControlInit => ControlInv
  BY EmptySeq DEF ControlInit, MemoryInit, ControlInv, ControlTypeOK, OneAtATime,
                  OwedWhileWaiting, FillIsCurrent

\* Every clock keeps it, whatever the ways tell.
LEMMA ControlInvStep ==
  ASSUME ControlInv, NEW i \in Inputs, NEW hit, NEW hit_line \in Data, NEW conflict,
         ControlClock(i, hit, hit_line, conflict)
  PROVE  ControlInv'
<1>1. ControlTypeOK' /\ OneAtATime'
  BY ControlTypeStep, OneAtATimeStep
<1>2. OwedWhileWaiting' /\ FillIsCurrent'
  BY OwedWhileWaitingStep, FillIsCurrentStep
<1> QED BY <1>1, <1>2 DEF ControlInv

-----------------------------------------------------------------------------
(* What the ways use of it.                                                *)

\* While a line is written into the cache, nothing is looked up.
LEMMA RefillAlone ==
  ASSUME ControlInv, NEW i \in Inputs, NEW hit, LegalInputs(i), Refill(i)
  PROVE  /\ ~look /\ ~replay /\ ~i.invalidate
         /\ ~LookReq(hit) /\ ~StoreWrite(i, hit) /\ ~Drop(i, hit) /\ ~Held(i, hit)
         /\ looked.line \in Lines \ Devices /\ Head(pending) = mem[looked.line]
<1>1. waiting /\ ~wait_nocache
  BY DEF Refill, Answered
<1>2. ~look /\ ~replay /\ ~i.invalidate
  BY <1>1 DEF ControlInv, OneAtATime, LegalInputs
<1>3. looked.line \in Lines \ Devices /\ Head(pending) = mem[looked.line]
  <2>1. looked.line \in Lines /\ mem[looked.line] \in Data
    BY RequestType DEF ControlInv, ControlTypeOK
  <2> QED BY <1>1, <2>1, OneLine DEF ControlInv, FillIsCurrent
<1> QED BY <1>2, <1>3
        DEF LookReq, Store, LoadMiss, LookOk, StoreWrite, Drop, Served, Held

\* Where a lookup of the next clock comes from: the RAMs were read for it, or
\* it is held and nothing that it depends on changes.
LEMMA LookStep ==
  ASSUME ControlInv, NEW i \in Inputs, NEW hit, NEW hit_line, NEW conflict,
         ControlClock(i, hit, hit_line, conflict), LookOk'
  PROVE  \/ /\ RamRd(i, hit) /\ Asked(i) = looked' /\ ~Drop(i, hit)
            /\ Refill(i) => ~conflict
            /\ (Accept(i, hit) /\ ~replay /\ i.req # None /\ looked' = i.req /\ ~LoadMiss(hit))
                 \/ (replay /\ looked' = looked)
         \/ /\ ~RamRd(i, hit) /\ looked' = looked /\ LookOk /\ ~i.mem_ready
            /\ ~Refill(i) /\ ~Drop(i, hit) /\ ~StoreWrite(i, hit)
<1> USE DEF ControlInv
<1>1. look' /\ ~replay'
  BY DEF LookOk
<1>2. /\ Accept(i, hit) \/ Held(i, hit) \/ replay
      /\ looked' = IF Accept(i, hit) THEN i.req ELSE looked
      /\ Accept(i, hit) /\ Refill(i) => ~conflict
      /\ LegalInputs(i)
  BY <1>1 DEF ControlClock, ControlStep
<1>3. CASE Accept(i, hit)
  <2>1. ~replay /\ ~LoadMiss(hit) /\ i.req # None
    BY <1>3 DEF Accept, ReadyCached, LooksUp
  <2> QED BY <1>2, <1>3, <2>1 DEF RamRd, Asked, Drop, Served
<1>4. CASE ~Accept(i, hit) /\ replay
  BY <1>2, <1>4, RefillAlone DEF RamRd, Asked, Drop, Served, LoadMiss, LookOk
<1>5. CASE ~Accept(i, hit) /\ ~replay
  <2>1. LookOk /\ ~i.mem_ready /\ ~RamRd(i, hit)
    BY <1>2, <1>5 DEF Held, LookReq, Store, LoadMiss, LookOk, RamRd
  <2> QED BY <1>2, <1>5, <2>1, RefillAlone DEF Drop, Served, StoreWrite, LookOk
<1> QED BY <1>3, <1>4, <1>5

-----------------------------------------------------------------------------
(* Control and memory implement LatencyMemory.                             *)

\* The instance's operators of constants are the cache's own.
LEMMA SerialOperators ==
  /\ \A r, old : Serial!After(r, old) = After(r, old)
  /\ \A r : Serial!Reads(r) <=> Reads(r)
  BY DEF Serial!After, Serial!Written, Serial!Merge, Serial!Touched, Serial!Reads,
         After, Written, Merge, Touched, Reads

\* The request the cache takes in a clock, as memory would get it.
Taken(i, hit) ==
  IF Accept(i, hit) \/ (UncPass(i) /\ i.mem_ready) THEN AsMemory(i.req) ELSE None

\* What the cache takes is a request of the CPU, on its way to the same line.
LEMMA TakenType ==
  ASSUME NEW i \in Inputs, NEW hit
  PROVE  /\ Taken(i, hit) \in MemRequests \cup {None}
         /\ Taken(i, hit) # None <=> Accept(i, hit) \/ (UncPass(i) /\ i.mem_ready)
         /\ Taken(i, hit) # None =>
              /\ i.req \in Request /\ Taken(i, hit) = AsMemory(i.req)
              /\ Reads(Taken(i, hit)) <=> i.req.op # "store"
              /\ Taken(i, hit).line = i.req.line
<1>1. (Accept(i, hit) \/ UncPass(i)) => i.req # None /\ i.req \in Requests /\ i.req \in Request
  BY InputType DEF Accept, LooksUp, UncPass, Bypasses, Inputs
<1>2. i.req \in Requests => AsMemory(i.req) \in MemRequests
  BY RequestsAssumption
<1> QED BY <1>1, <1>2, AsMemoryType DEF Taken, Reads

\* Nothing is owed but to the control's one state that is occupied.
OwedShape ==
  /\ look => pending = <<>>
  /\ look => Owed = IF looked.op # "store" THEN <<mem[looked.line]>> ELSE <<>>
  /\ ~look => Owed = pending
  /\ look => mem[looked.line] \in Data
  /\ Owed = <<>> \/ \E d \in Data : Owed = <<d>>

\* The invariant gives what is owed that shape in every state, the next
\* one of a step included.
LEMMA OwedHasShape == ControlInv => OwedShape
<1> SUFFICES ASSUME ControlInv PROVE OwedShape
  OBVIOUS
<1>1. look => pending = <<>>
  BY DEF ControlInv, OneAtATime, OwedWhileWaiting
<1>2. looked.line \in Lines /\ mem[looked.line] \in Data /\ pending \in Seq(Data)
  BY RequestType DEF ControlInv, ControlTypeOK
<1>3. <<mem[looked.line]>> \in Seq(Data) /\ <<>> \in Seq(Data)
  BY <1>2, OneLine, EmptySeq
<1>4. look => Owed = IF looked.op # "store" THEN <<mem[looked.line]>> ELSE <<>>
  BY <1>1, <1>3, ConcatEmptySeq DEF Owed
<1>5. ~look => Owed = pending
  BY <1>2, ConcatEmptySeq DEF Owed
<1>6. Owed = <<>> \/ \E d \in Data : Owed = <<d>>
  BY <1>2, <1>4, <1>5 DEF ControlInv, OwedWhileWaiting
<1> QED BY <1>1, <1>2, <1>4, <1>5, <1>6 DEF OwedShape

\* The same as a rule for the state the invariant is assumed of.
LEMMA OwedCases == ASSUME ControlInv PROVE OwedShape
  BY OwedHasShape

\* A lookup that hits as a load changes nothing in memory.
LEMMA HitChangesNothing ==
  ASSUME ControlInv, NEW hit, NEW hit_line, HitShows(hit, hit_line), LoadHit(hit)
  PROVE  ArchMem = mem /\ hit_line = mem[looked.line]
<1>1. looked \in Request /\ mem \in [Lines -> Data] /\ looked.line \in Lines
  BY RequestType DEF ControlInv, ControlTypeOK
<1>2. looked.line \notin Devices /\ hit_line = mem[looked.line]
  BY DEF HitShows
<1>3. After(AsMemory(looked), mem[looked.line]) = mem[looked.line]
  BY <1>1, <1>2, AsMemoryType DEF After, LoadHit
<1> QED BY <1>1, <1>2, <1>3 DEF ArchMem

\* A request that is held or replayed leaves memory alone, and no other is taken.
LEMMA HeldStep ==
  ASSUME ControlInv, NEW i \in Inputs, NEW hit, NEW hit_line, NEW conflict,
         ControlClock(i, hit, hit_line, conflict), Held(i, hit) \/ replay
  PROVE  /\ mem' = mem /\ look /\ look' /\ looked' = looked
         /\ ~Accept(i, hit) /\ Taken(i, hit) = None
<1> USE DEF ControlInv
<1>1. look /\ ~Accept(i, hit) /\ ~(LookReq(hit) /\ i.mem_ready)
  BY DEF OneAtATime, Held, LookReq, Store, LoadMiss, LookOk, Accept, ReadyCached
<1>2. ~UncPass(i)
  BY <1>1, UncPassWhenIdle
<1>3. MemTaken(i, hit) = None
  BY <1>1, <1>2, MemTakenCases
<1>4. mem' = mem
  BY <1>3 DEF ControlClock, ControlStep, MemoryClock
<1> QED BY <1>1, <1>2, <1>4 DEF Taken, ControlClock, ControlStep

\* Otherwise, with no uncached request, memory catches up with what the CPU saw.
LEMMA MemCatchesUp ==
  ASSUME ControlInv, NEW i \in Inputs, NEW hit, NEW hit_line, NEW conflict,
         ControlClock(i, hit, hit_line, conflict), HitShows(hit, hit_line),
         ~Held(i, hit), ~replay, ~(UncPass(i) /\ i.mem_ready)
  PROVE  mem' = ArchMem
<1> USE DEF ControlInv
<1>1. looked \in Request
  BY DEF ControlTypeOK
<1>2. mem' = LET r == MemTaken(i, hit) IN
             IF r = None THEN mem ELSE [mem EXCEPT ![r.line] = After(r, @)]
  BY DEF ControlClock, ControlStep, MemoryClock
<1>3. CASE LookReq(hit) /\ i.mem_ready
  <2>1. MemTaken(i, hit) = AsMemory(looked) /\ look
    BY <1>3, MemTakenCases DEF LookReq, Store, LoadMiss, LookOk
  <2>2. AsMemory(looked) # None /\ AsMemory(looked).line = looked.line
    BY <1>1, AsMemoryType
  <2> QED BY <1>2, <2>1, <2>2 DEF ArchMem
<1>4. CASE ~(LookReq(hit) /\ i.mem_ready)
  <2>1. MemTaken(i, hit) = None
    BY <1>4, MemTakenCases
  <2>2. look => LoadHit(hit)
    BY <1>1, <1>4, RequestType
       DEF Held, LookReq, Store, LoadMiss, LoadHit, LookOk
  <2> QED BY <1>2, <2>1, <2>2, HitChangesNothing DEF ArchMem
<1> QED BY <1>3, <1>4

\* The memory the CPU sees changes by the request that is taken.
LEMMA ArchMemStep ==
  ASSUME ControlInv, NEW i \in Inputs, NEW hit, NEW hit_line, NEW conflict,
         ControlClock(i, hit, hit_line, conflict), HitShows(hit, hit_line)
  PROVE  LET r == Taken(i, hit) IN
         ArchMem' = IF r = None THEN ArchMem
                    ELSE [ArchMem EXCEPT ![r.line] = After(r, @)]
<1>1. ArchMem' = IF look' THEN [mem' EXCEPT ![looked'.line] = After(AsMemory(looked'), @)]
                 ELSE mem'
  BY DEF ArchMem, After, Written, Merge, Touched, AsMemory, Exact
<1>2. /\ look' = (Accept(i, hit) \/ Held(i, hit) \/ replay)
      /\ looked' = IF Accept(i, hit) THEN i.req ELSE looked
  BY DEF ControlClock, ControlStep
<1>3. CASE Held(i, hit) \/ replay
  BY <1>1, <1>3, HeldStep DEF ArchMem
<1>4. CASE ~Held(i, hit) /\ ~replay /\ ~(UncPass(i) /\ i.mem_ready)
  <2>1. Taken(i, hit) = IF Accept(i, hit) THEN AsMemory(looked') ELSE None
    BY <1>2, <1>4 DEF Taken
  <2>2. Accept(i, hit) => AsMemory(looked').line = looked'.line /\ Taken(i, hit) # None
    BY <1>2, TakenType, AsMemoryType
  <2>3. look' <=> Accept(i, hit)
    BY <1>2, <1>4
  <2> QED BY <1>1, <1>4, <2>1, <2>2, <2>3, MemCatchesUp
<1>5. CASE ~Held(i, hit) /\ ~replay /\ UncPass(i) /\ i.mem_ready
  <2>1. ~look /\ ~Accept(i, hit) /\ MemTaken(i, hit) = AsMemory(i.req)
    BY <1>5, UncPassWhenIdle, MemTakenCases
       DEF Accept, LooksUp, UncPass, Bypasses
  <2>2. Taken(i, hit) = AsMemory(i.req) /\ Taken(i, hit) # None
    BY <1>5, TakenType DEF Taken
  <2>3. mem' = [mem EXCEPT ![Taken(i, hit).line] = After(Taken(i, hit), @)]
    BY <2>1, <2>2 DEF ControlClock, ControlStep, MemoryClock
  <2> QED BY <1>1, <1>2, <1>5, <2>1, <2>2, <2>3 DEF ArchMem
<1> QED BY <1>3, <1>4, <1>5

\* Only one answer is given in a clock, and it is the oldest one owed.
LEMMA AnswerStep ==
  ASSUME ControlInv, NEW i \in Inputs, NEW hit, NEW hit_line, NEW conflict,
         ControlClock(i, hit, hit_line, conflict), HitShows(hit, hit_line)
  PROVE  /\ RspValid(i, hit) => Owed # <<>>
         /\ answer' = IF RspValid(i, hit) THEN Head(Owed) ELSE None
<1> USE DEF ControlInv
<1>1. answer' = IF RspValid(i, hit) THEN RspData(hit_line) ELSE None
  BY DEF ControlClock, ControlStep
<1>2. CASE LoadHit(hit)
  <2>1. look /\ ~waiting /\ ~unc_waiting /\ looked.op = "load"
    BY <1>2 DEF LoadHit, LookOk, OneAtATime
  <2>2. Owed = <<mem[looked.line]>> /\ Head(Owed) = mem[looked.line] /\ Owed # <<>>
    BY <2>1, OwedCases, OneLine DEF OwedShape
  <2> QED BY <1>1, <1>2, <2>1, <2>2, HitChangesNothing DEF RspData
<1>3. CASE ~LoadHit(hit) /\ RspValid(i, hit)
  <2>1. waiting \/ unc_waiting
    BY <1>3 DEF RspValid, Answered
  <2>2. ~look /\ Owed = pending
    BY <2>1, OwedCases DEF OwedShape, OneAtATime
  <2>3. pending # <<>>
    BY <2>1, OneLine DEF OwedWhileWaiting
  <2> QED BY <1>1, <1>3, <2>1, <2>2, <2>3 DEF RspData
<1> QED BY <1>1, <1>2, <1>3 DEF RspValid

\* A request is taken only when what is owed leaves room for another answer.
LEMMA RoomWhenTaken ==
  ASSUME ControlInv, NEW i \in Inputs, NEW hit, Taken(i, hit) # None
  PROVE  RspValid(i, hit) \/ Owed = <<>>
<1> USE DEF ControlInv
<1>1. looked \in Request
  BY DEF ControlTypeOK
<1>2. CASE Accept(i, hit)
  <2>1. ~(waiting /\ ~i.mem_rsp) /\ ~replay /\ ~LoadMiss(hit) /\ ~UncBusy(i)
    BY <1>2 DEF Accept, ReadyCached
  <2>2. look => LoadHit(hit) \/ looked.op = "store"
    BY <1>1, <2>1, RequestType DEF LoadMiss, LoadHit, LookOk
  <2>3. look => RspValid(i, hit) \/ Owed = <<>>
    BY <2>2, OwedCases DEF OwedShape, RspValid
  <2>4. ~look => RspValid(i, hit) \/ Owed = <<>>
    BY <2>1, OwedCases DEF OwedShape, RspValid, Answered, UncBusy, OwedWhileWaiting
  <2> QED BY <2>3, <2>4
<1>3. CASE UncPass(i)
  BY <1>3, UncPassWhenIdle, OwedCases DEF OwedShape, RspValid, UncBusy, OwedWhileWaiting
<1> QED BY <1>2, <1>3, TakenType

\* What is owed loses the answer given and gains the request taken, if it reads.
LEMMA OwedStep ==
  ASSUME ControlInv, NEW i \in Inputs, NEW hit, NEW hit_line \in Data, NEW conflict,
         ControlClock(i, hit, hit_line, conflict), HitShows(hit, hit_line)
  PROVE  LET r == Taken(i, hit) IN
         Owed' = (IF RspValid(i, hit) THEN Tail(Owed) ELSE Owed)
                   \o (IF Reads(r) THEN <<ArchMem[r.line]>> ELSE <<>>)
<1> USE DEF ControlInv
<1> DEFINE r == Taken(i, hit)
           rest == IF RspValid(i, hit) THEN Tail(Owed) ELSE Owed
           new == IF Reads(r) THEN <<ArchMem[r.line]>> ELSE <<>>
<1>1. OwedShape'
  <2>1. ControlInv'
    BY ControlInvStep
  <2> QED BY <2>1, OwedHasShape, PTL
<1>2. /\ look' = (Accept(i, hit) \/ Held(i, hit) \/ replay)
      /\ looked' = IF Accept(i, hit) THEN i.req ELSE looked
  BY DEF ControlClock, ControlStep
<1>3. rest = IF RspValid(i, hit) THEN <<>> ELSE Owed
  BY AnswerStep, OwedCases, OneLine DEF OwedShape
<1>4. Reads(r) => rest = <<>>
  BY <1>3, RoomWhenTaken DEF Reads
<1>5. ArchMem' = IF r = None THEN ArchMem ELSE [ArchMem EXCEPT ![r.line] = After(r, @)]
  BY ArchMemStep
<1>6. ArchMem \in [Lines -> Data] /\ mem \in [Lines -> Data] /\ looked \in Request
  <2>1. mem \in [Lines -> Data] /\ looked \in Request
    BY DEF ControlTypeOK
  <2>2. AsMemory(looked) \in MemRequest /\ mem[looked.line] \in Data
    BY <2>1, AsMemoryType, RequestType
  <2> QED BY <2>1, <2>2, AfterType DEF ArchMem
<1>7. Reads(r) => <<ArchMem[r.line]>> \in Seq(Data)
  BY <1>6, TakenType, RequestType, OneLine DEF Reads
<1>8. Owed \in Seq(Data)
  BY OwedCases, OneLine, EmptySeq DEF OwedShape
<1>9. rest \o new = IF Reads(r) THEN <<ArchMem[r.line]>> ELSE rest
  <2>1. rest \in Seq(Data)
    BY <1>3, <1>8, EmptySeq
  <2> HIDE DEF r, rest
  <2> QED BY <1>4, <1>7, <2>1, ConcatEmptySeq
<1>10. Owed' = IF Reads(r) THEN <<ArchMem[r.line]>> ELSE rest
  <2>1. CASE Held(i, hit) \/ replay
    <3>1. ~RspValid(i, hit)
      BY <2>1, HeldStep
         DEF RspValid, LoadHit, Answered, OneAtATime, Held, LookReq, Store, LoadMiss, LookOk
    <3> QED BY <1>1, <1>3, <2>1, <3>1, HeldStep, OwedCases DEF OwedShape, Owed, Reads
  <2>2. CASE Accept(i, hit) /\ ~Held(i, hit) /\ ~replay
    <3>1. mem' = ArchMem
      BY <2>2, MemCatchesUp DEF Accept, LooksUp, UncPass, Bypasses
    <3>2. Owed' = IF i.req.op # "store" THEN <<mem'[i.req.line]>> ELSE <<>>
      BY <1>1, <1>2, <2>2 DEF OwedShape
    <3>3. rest = <<>>
      BY <1>3, <2>2, RoomWhenTaken, TakenType
    <3> QED BY <2>2, <3>1, <3>2, <3>3, TakenType
  <2>3. CASE ~Accept(i, hit) /\ ~Held(i, hit) /\ ~replay
    <3>1. Owed' = pending'
      BY <1>1, <1>2, <2>3 DEF OwedShape
    <3>2. CASE Served(i, hit)
      <4>1. LoadMiss(hit) /\ look /\ looked.op # "store" /\ LookReq(hit) /\ i.mem_ready
        BY <3>2 DEF Served, LookReq, LoadMiss, LookOk
      <4>2. MemTaken(i, hit) = AsMemory(looked) /\ Reads(MemTaken(i, hit)) /\ ~UncPass(i)
        BY <3>2, <4>1, MemTakenCases, ReadTaken
      <4>3. pending' = <<mem[looked.line]>>
        BY <1>6, <4>2, PendingStep, AsMemoryType
      <4>4. r = None /\ ~RspValid(i, hit)
        BY <2>3, <4>1, <4>2
           DEF Taken, RspValid, Answered, LoadHit, LoadMiss, OneAtATime
      <4> QED BY <1>3, <3>1, <4>1, <4>3, <4>4, OwedCases DEF OwedShape, Reads
    <3>3. CASE UncPass(i) /\ i.mem_ready
      <4>1. ~look /\ Owed = pending /\ ArchMem = mem
        BY <3>3, UncPassWhenIdle, OwedCases DEF OwedShape, ArchMem
      <4>2. MemTaken(i, hit) = r /\ r # None
        BY <3>3, MemTakenCases, TakenType DEF Taken
      <4>3. rest = <<>>
        BY <1>3, <4>2, RoomWhenTaken
      <4>4. pending' = IF Reads(r) THEN <<mem[r.line]>> ELSE <<>>
        BY <4>1, <4>2, PendingStep, RoomWhenTaken
           DEF RspValid, Answered, LoadHit, LookOk
      <4> QED BY <3>1, <4>1, <4>3, <4>4
    <3>4. CASE ~Served(i, hit) /\ ~(UncPass(i) /\ i.mem_ready)
      <4>1. r = None /\ ~Reads(r) /\ ~Reads(MemTaken(i, hit))
        BY <2>3, <3>4, ReadTaken DEF Taken, Reads
      <4>2. pending' = IF i.mem_rsp THEN <<>> ELSE pending
        BY <4>1, PendingStep
      <4>3. CASE look
        <5>1. ~i.mem_rsp /\ pending = <<>>
          BY <4>3, PendingStep, OwedCases DEF OwedShape, OneAtATime
        <5>2. LoadHit(hit) \/ looked.op = "store"
          BY <1>6, <2>3, <3>4, <4>3, RequestType
             DEF Held, Served, LookReq, LoadMiss, LoadHit, LookOk
        <5> QED BY <1>3, <3>1, <4>1, <4>2, <4>3, <5>1, <5>2, OwedCases DEF OwedShape, RspValid
      <4>4. CASE ~look
        <5>1. RspValid(i, hit) <=> i.mem_rsp
          BY <4>4, PendingStep DEF RspValid, Answered, LoadHit, LookOk
        <5> QED BY <1>3, <3>1, <4>1, <4>2, <4>4, <5>1, OwedCases DEF OwedShape
      <4> QED BY <4>3, <4>4
    <3> QED BY <3>2, <3>3, <3>4
  <2> QED BY <2>1, <2>2, <2>3
<1> QED BY <1>9, <1>10

\* The memory the CPU sees starts as memory.
LEMMA RefinementInit == ControlInit => Serial!MemoryInit
<1> SUFFICES ASSUME ControlInit PROVE Serial!MemoryInit
  OBVIOUS
<1>1. ArchMem = mem /\ Owed = pending
  BY ControlInvInit, OwedCases DEF OwedShape, ControlInit, ArchMem
<1> QED BY <1>1 DEF ControlInit, MemoryInit, Serial!MemoryInit, Data, Serial!Data

\* Each clock takes at most one request there and gives at most one answer, if
\* what hits is memory's line.
LEMMA RefinementClock ==
  ASSUME ControlInv, NEW i \in Inputs, NEW hit, NEW hit_line \in Data, NEW conflict,
         ControlClock(i, hit, hit_line, conflict), HitShows(hit, hit_line)
  PROVE  Serial!MemoryNext
<1> DEFINE r == Taken(i, hit)
           rsp == RspValid(i, hit)
<1>1. r \in MemRequests \cup {None} /\ rsp \in BOOLEAN
  BY TakenType DEF RspValid, LoadHit, LookOk, Answered
<1>2. r # None => Serial!SlotFree(rsp)
  <2>1. rsp \/ Owed = <<>> => Serial!SlotFree(rsp)
    BY MemoryAssumption, EmptySeq DEF Serial!SlotFree
  <2> QED BY <2>1, RoomWhenTaken
<1>3. Serial!MemoryClock(r, rsp)
  BY <1>2, AnswerStep, ArchMemStep, OwedStep, SerialOperators
     DEF Serial!MemoryClock
<1> QED BY <1>1, <1>3, AnswerStep DEF Serial!MemoryNext

\* A step that leaves the cache and memory alone leaves what the CPU sees.
LEMMA RefinementStutter ==
  UNCHANGED <<memoryVars, controlVars>> => UNCHANGED Serial!memoryVars
  BY DEF memoryVars, controlVars, Serial!memoryVars, ArchMem, Owed
=============================================================================
