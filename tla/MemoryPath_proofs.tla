------------------------- MODULE MemoryPath_proofs -------------------------
(***************************************************************************)
(* The two units between the caches and memory, for every memory, size of  *)
(* their counters and queues, and pattern of stalls and latencies.         *)
(*                                                                         *)
(* AtomicUnit and the memory behind it implement a memory with atomics: an *)
(* atomic is done, as its requester sees it, when the unit takes it.       *)
(* InsnDataCacheArbiter and the memory behind it implement the memory two  *)
(* caches share: a request is done when memory takes it, and its answer    *)
(* belongs to the oldest side in the queue of owners.                      *)
(***************************************************************************)
EXTENDS AtomicUnit, InsnDataCacheArbiter, SequenceTheorems, TLAPS

-----------------------------------------------------------------------------
(* AtomicUnit.                                                             *)

\* The state of the unit besides its types: what is held is an atomic of the
\* requester's, and in WAIT the new word will be made from the old one.
HeldIsAtomic == state # "IDLE" => held.op = "atomic"

IInv == TypeOK /\ HeldIsAtomic

-----------------------------------------------------------------------------
(* Lines and requests.                                                     *)

\* Merging bytes of one line into another makes a line.
LEMMA MergeType ==
  ASSUME NEW old \in Data, NEW new \in Data, NEW strb
  PROVE  Merge(old, new, strb) \in Data
  BY DEF Merge, Data

\* Whatever a request does to a line, a line comes out.
LEMMA AfterType ==
  ASSUME NEW r \in MemRequest, NEW old \in Data
  PROVE  After(r, old) \in Data
<1>1. Written(r, old) \in Data
  BY MemoryAssumption DEF Written, MemRequest
<1>2. Merge(old, Written(r, old), r.bytes) \in Data
  BY <1>1, MergeType
<1>3. Touched(old, r.bytes) \in Data
  BY MemoryAssumption DEF Touched, Data
<1> QED BY <1>2, <1>3 DEF After

\* The inputs of a clock.
LEMMA InputType ==
  ASSUME NEW i \in Inputs
  PROVE  /\ i.mem_ready \in BOOLEAN /\ i.mem_rsp \in BOOLEAN
         /\ i.req = None \/ (i.req \in Requests /\ i.req \in MemRequest /\ i.req # None)
  BY AtomicAssumption DEF Inputs

\* Reading the bytes an atomic has and writing its result over them does to a
\* line, a device's too, what the atomic does.
LEMMA ReadThenWrite ==
  ASSUME NEW r \in MemRequest, r.op = "atomic", NEW old \in Data,
         NEW l \in MemRequest, l.op = "load", l.line = r.line, l.bytes = r.bytes
  PROVE  Merge(After(l, old), AtomicOp[<<old, r.data>>], r.bytes) = After(r, old)
<1>1. After(r, old) = Merge(old, AtomicOp[<<old, r.data>>], r.bytes)
  BY DEF After, Written
<1>2. After(l, old) = Touched(old, r.bytes) \/ After(l, old) = old
  BY DEF After
<1>3. Merge(Touched(old, r.bytes), AtomicOp[<<old, r.data>>], r.bytes)
        = Merge(old, AtomicOp[<<old, r.data>>], r.bytes)
  BY DEF Merge, Touched
<1> QED BY <1>1, <1>2, <1>3

-----------------------------------------------------------------------------
(* Memory over one clock.                                                  *)

\* The read of an atomic.
AtomicRead ==
  [line |-> held.line, op |-> "load", bytes |-> held.bytes, data |-> AnyData]

\* It is a request of memory.
LEMMA ReadIsRequest ==
  ASSUME IInv
  PROVE  AtomicRead \in MemRequest /\ AtomicRead # None
<1>1. held \in MemRequest /\ AnyData \in Data
  BY DEF IInv, TypeOK, AnyData, MemRequest
<1>2. AtomicRead \in MemRequest
  BY <1>1 DEF AtomicRead, MemRequest
<1> QED BY <1>2, AtomicAssumption

\* The write of an atomic.
AtomicWrite ==
  [line |-> held.line, op |-> "store", bytes |-> held.bytes, data |-> new_q]

\* It is a request of memory.
LEMMA WriteIsRequest ==
  ASSUME IInv
  PROVE  AtomicWrite \in MemRequest /\ AtomicWrite # None
<1>1. held \in MemRequest /\ new_q \in Data
  BY DEF IInv, TypeOK
<1>2. AtomicWrite \in MemRequest
  BY <1>1 DEF AtomicWrite, MemRequest
<1> QED BY <1>2, AtomicAssumption

\* What the unit sends memory is a request.
LEMMA MemReqType ==
  ASSUME IInv, NEW i \in Inputs
  PROVE  MemReq(i) = None \/ (MemReq(i) \in MemRequest /\ MemReq(i) # None)
<1>1. CASE state = "IDLE"
  BY <1>1, InputType DEF MemReq
<1>2. CASE state = "READ"
  BY <1>2, ReadIsRequest DEF MemReq, AtomicRead
<1>3. CASE state = "WAIT"
  BY <1>3 DEF MemReq
<1>4. CASE state = "WRITE"
  BY <1>4, WriteIsRequest DEF MemReq, AtomicWrite
<1> QED BY <1>1, <1>2, <1>3, <1>4 DEF IInv, TypeOK

\* Memory keeps its type.
LEMMA MemStep ==
  ASSUME IInv, NEW i \in Inputs, Clock(i)
  PROVE  mem' \in [Lines -> Data]
<1>1. mem' = IF MemTaken(i) = None THEN mem
             ELSE [mem EXCEPT ![MemTaken(i).line] = After(MemTaken(i), @)]
  BY DEF Clock, MemoryClock
<1>2. MemTaken(i) = None \/ MemTaken(i) \in MemRequest
  BY MemReqType DEF MemTaken
<1>3. CASE MemTaken(i) = None
  BY <1>1, <1>3 DEF IInv, TypeOK
<1>4. CASE MemTaken(i) # None
  <2>1. MemTaken(i).line \in Lines /\ mem[MemTaken(i).line] \in Data
    BY <1>2, <1>4 DEF MemRequest, IInv, TypeOK
  <2>2. After(MemTaken(i), mem[MemTaken(i).line]) \in Data
    BY <1>2, <1>4, <2>1, AfterType
  <2> QED BY <1>1, <1>4, <2>1, <2>2 DEF IInv, TypeOK
<1> QED BY <1>3, <1>4

\* What is owed over a clock: the answer given leaves, the read taken joins.
LEMMA PendingStep ==
  ASSUME IInv, NEW i \in Inputs, Clock(i)
  PROVE  /\ pending' \in Seq(Data)
         /\ Len(pending') = Len(pending) - (IF i.mem_rsp THEN 1 ELSE 0)
                              + (IF Reads(MemTaken(i)) THEN 1 ELSE 0)
         /\ i.mem_rsp => pending # <<>> /\ Head(pending) \in Data
<1> DEFINE rest == IF i.mem_rsp THEN Tail(pending) ELSE pending
           new  == IF Reads(MemTaken(i)) THEN <<mem[MemTaken(i).line]>> ELSE <<>>
<1>1. pending' = rest \o new
  BY DEF Clock, MemoryClock
<1>2. pending \in Seq(Data) /\ (i.mem_rsp => pending # <<>>)
  BY DEF IInv, TypeOK, Clock
<1>3. /\ rest \in Seq(Data)
      /\ Len(rest) = Len(pending) - (IF i.mem_rsp THEN 1 ELSE 0)
      /\ i.mem_rsp => Head(pending) \in Data
  BY <1>2, HeadTailProperties
<1>4. Reads(MemTaken(i)) => mem[MemTaken(i).line] \in Data
  BY MemReqType DEF MemTaken, Reads, MemRequest, IInv, TypeOK
<1>5. new \in Seq(Data) /\ Len(new) = IF Reads(MemTaken(i)) THEN 1 ELSE 0
  BY <1>4
<1>6. pending' \in Seq(Data) /\ Len(pending') = Len(rest) + Len(new)
  BY <1>1, <1>3, <1>5, ConcatProperties
<1> QED BY <1>2, <1>3, <1>5, <1>6

-----------------------------------------------------------------------------
(* The invariant.                                                          *)

\* No answer comes while the unit offers the atomic's read or its write.
LEMMA NoAnswerWhileBusy ==
  ASSUME IInv, NEW i \in Inputs, Clock(i), state \in {"READ", "WRITE"}
  PROVE  ~i.mem_rsp /\ pending = <<>> /\ passed = 0
<1>1. pending \in Seq(Data) /\ Len(pending) = 0 /\ passed = 0
  BY DEF IInv, TypeOK
<1>2. pending = <<>>
  BY <1>1, EmptySeq
<1> QED BY <1>1, <1>2 DEF Clock

\* Nothing is in memory when an atomic is taken, and nothing goes there.
LEMMA TakenAlone ==
  ASSUME IInv, NEW i \in Inputs, Clock(i), TakeAtomic(i)
  PROVE  /\ ~i.mem_rsp /\ pending = <<>> /\ MemTaken(i) = None /\ state = "IDLE"
         /\ i.req \in Requests /\ i.req \in MemRequest /\ i.req # None /\ i.req.op = "atomic"
<1>1. pending \in Seq(Data) /\ Len(pending) = 0 /\ state = "IDLE"
  BY DEF IInv, TypeOK, TakeAtomic
<1>2. pending = <<>>
  BY <1>1, EmptySeq
<1>3. i.req # None /\ i.req.op = "atomic"
  BY DEF TakeAtomic, IsAtomic
<1> QED BY <1>1, <1>2, <1>3, InputType DEF Clock, MemTaken, MemReq, Passes

\* The counter stays the number of reads in memory but the atomic's own.
LEMMA CounterStep ==
  ASSUME IInv, NEW i \in Inputs, Clock(i)
  PROVE  /\ state' \in {"IDLE", "READ", "WAIT", "WRITE"}
         /\ passed' \in 0 .. PendingLimit
         /\ Len(pending') = IF state' = "WAIT" THEN 1 ELSE passed'
         /\ state' # "IDLE" => passed' = 0
<1> DEFINE up == IF Reads(MemTaken(i)) THEN 1 ELSE 0
           down == IF i.mem_rsp THEN 1 ELSE 0
<1>1. /\ pending \in Seq(Data) /\ Len(pending) \in Nat
      /\ Len(pending') = Len(pending) - down + up
      /\ i.mem_rsp => Len(pending) > 0
  BY PendingStep, EmptySeq, LenProperties DEF IInv, TypeOK
<1>2. i.mem_rsp \in BOOLEAN /\ i.mem_ready \in BOOLEAN
  BY InputType
<1>3. /\ passed \in 0 .. PendingLimit /\ PendingLimit \in Nat /\ MaxPending <= PendingLimit
      /\ PendingLimit > 0 /\ MaxPending \in Nat
  BY AtomicAssumption, MemoryAssumption DEF IInv, TypeOK
<1>4. Passed(i) /\ State(i)
  BY DEF Clock
<1>5. CASE TakeAtomic(i)
  <2>1. /\ state = "IDLE" /\ passed = 0 /\ ~i.mem_rsp /\ pending = <<>> /\ MemTaken(i) = None
    BY <1>5, TakenAlone DEF TakeAtomic
  <2>2. state' = "READ" /\ passed' = 0
    BY <1>4, <1>5, <2>1 DEF State, Passed, PassRead, Reads
  <2> QED BY <1>1, <1>3, <2>1, <2>2, EmptySeq DEF Reads
<1>6. CASE state = "IDLE" /\ ~TakeAtomic(i)
  <2>1. state' = "IDLE" /\ Len(pending) = passed
    BY <1>4, <1>6 DEF State, IInv, TypeOK
  <2>2. PassRead(i) <=> Reads(MemTaken(i))
    BY <1>6 DEF PassRead
  <2>3. Reads(MemTaken(i)) => Len(pending) < MaxPending \/ i.mem_rsp
    BY DEF Clock, MemoryClock, SlotFree, Reads
  <2>4. passed' = passed - down + up
    BY <1>1, <1>2, <1>3, <1>4, <1>6, <2>1, <2>2, <2>3 DEF Passed, Up, Down
  <2> QED BY <1>1, <1>2, <1>3, <2>1, <2>3, <2>4
<1>7. CASE state # "IDLE"
  <2>1. passed = 0 /\ ~PassRead(i) /\ (i.mem_rsp => state = "WAIT")
    BY <1>7, NoAnswerWhileBusy DEF IInv, TypeOK, PassRead
  <2>2. passed' = 0
    BY <1>4, <2>1 DEF Passed
  <2>3. CASE state = "READ"
    <3>1. Reads(MemTaken(i)) <=> i.mem_ready
      <4>1. MemReq(i).op = "load" /\ MemReq(i) # None
        <5>1. MemReq(i) = AtomicRead
          BY <2>3 DEF MemReq, AtomicRead
        <5> QED BY <5>1, ReadIsRequest DEF AtomicRead
      <4> QED BY <4>1 DEF MemTaken, Reads
    <3>2. state' = (IF i.mem_ready THEN "WAIT" ELSE "READ") /\ Len(pending) = 0
      BY <1>4, <2>1, <2>3 DEF State, IInv, TypeOK
    <3> QED BY <1>1, <1>3, <2>1, <2>2, <2>3, <3>1, <3>2
  <2>4. CASE state = "WAIT"
    <3>1. ~Reads(MemTaken(i)) /\ Len(pending) = 1
      BY <2>4 DEF MemTaken, MemReq, Reads, IInv, TypeOK
    <3>2. state' = IF i.mem_rsp THEN "WRITE" ELSE "WAIT"
      BY <1>4, <2>4 DEF State
    <3> QED BY <1>1, <1>2, <1>3, <2>2, <3>1, <3>2
  <2>5. CASE state = "WRITE"
    <3>1. ~Reads(MemTaken(i)) /\ Len(pending) = 0
      BY <2>1, <2>5 DEF MemTaken, MemReq, Reads, IInv, TypeOK
    <3>2. state' = IF i.mem_ready THEN "IDLE" ELSE "WRITE"
      BY <1>4, <2>5 DEF State
    <3> QED BY <1>1, <1>2, <1>3, <2>1, <2>2, <2>5, <3>1, <3>2
  <2> QED BY <1>7, <2>3, <2>4, <2>5 DEF IInv, TypeOK
<1> QED BY <1>5, <1>6, <1>7

\* The registers of the atomic.
LEMMA HeldStep ==
  ASSUME IInv, NEW i \in Inputs, Clock(i)
  PROVE  /\ held' \in MemRequest /\ new_q' \in Data
         /\ answer' \in Data \cup {None}
         /\ HeldIsAtomic'
<1>1. held' \in MemRequest
  BY TakenAlone DEF Clock, IInv, TypeOK
<1>2. AtomicOp[<<Head(pending), held.data>>] \in Data \/ ~i.mem_rsp
  BY PendingStep, MemoryAssumption DEF IInv, TypeOK, MemRequest
<1>3. new_q' \in Data
  BY <1>2 DEF Clock, IInv, TypeOK
<1>4. answer' \in Data \cup {None}
  BY PendingStep DEF Clock
<1>5. HeldIsAtomic'
  <2>1. CASE TakeAtomic(i)
    BY <2>1, TakenAlone DEF Clock, HeldIsAtomic
  <2>2. CASE ~TakeAtomic(i)
    BY <2>2 DEF Clock, State, IInv, TypeOK, HeldIsAtomic
  <2> QED BY <2>1, <2>2
<1> QED BY <1>1, <1>3, <1>4, <1>5

\* The invariant holds after reset.
LEMMA InitInvariant == Init => IInv
  BY EmptySeq, AtomicAssumption
     DEF Init, MemoryInit, IInv, TypeOK, HeldIsAtomic

\* The invariant holds after every clock.
LEMMA NextInvariant == IInv /\ [Next]_vars => IInv'
<1> SUFFICES ASSUME IInv, [Next]_vars PROVE IInv'
  OBVIOUS
<1>1. CASE UNCHANGED vars
  BY <1>1 DEF vars, memoryVars, IInv, TypeOK, HeldIsAtomic
<1>2. CASE Next
  <2>1. PICK i \in Inputs : Clock(i)
    BY <1>2 DEF Next
  <2>2. TypeOK'
    BY <2>1, MemStep, PendingStep, CounterStep, HeldStep DEF TypeOK
  <2> QED BY <2>1, <2>2, HeldStep DEF IInv
<1> QED BY <1>1, <1>2

\* Every reachable state satisfies the invariant.
THEOREM Invariant == Spec => []IInv
  BY InitInvariant, NextInvariant, PTL DEF Spec

\* Every register keeps its type and the counter of the reads that passed is
\* the number of those in memory: no answer is unexpected, the counter never
\* overflows, and no read is in flight during an atomic but its own.
THEOREM TypeCorrect == Spec => []TypeOK
<1>1. IInv => TypeOK
  BY DEF IInv
<1> QED BY <1>1, Invariant, PTL

-----------------------------------------------------------------------------
(* The memory with atomics that the requester sees.                        *)

\* The instance's operators of constants are the unit's own.
LEMMA AtomicOperators ==
  /\ \A r, old : Atomic!After(r, old) = After(r, old)
  /\ \A r : Atomic!Reads(r) <=> Reads(r)
  BY DEF Atomic!After, Atomic!Written, Atomic!Merge, Atomic!Touched, Atomic!Reads,
         After, Written, Merge, Touched, Reads

\* The request that is done in a clock, as the requester sees it.
Taken(i) ==
  IF TakeAtomic(i) THEN i.req ELSE IF state = "IDLE" THEN MemTaken(i) ELSE None

\* It is one the requester makes.
LEMMA TakenType ==
  ASSUME IInv, NEW i \in Inputs, Clock(i)
  PROVE  Taken(i) = None \/ (Taken(i) \in Requests /\ Taken(i) \in MemRequest /\ Taken(i) # None)
<1>1. TakeAtomic(i) => i.req \in Requests /\ i.req \in MemRequest /\ i.req # None
  BY TakenAlone
<1>2. state = "IDLE" => MemTaken(i) = None \/ MemTaken(i) = i.req
  BY DEF MemTaken, MemReq
<1> QED BY <1>1, <1>2, InputType DEF Taken

\* What the atomic's own line will be: the atomic is done in each of its states.
LEMMA ArchMemShape ==
  ASSUME IInv
  PROVE  /\ held.line \in Lines /\ mem[held.line] \in Data
         /\ state = "IDLE" => ArchMem = mem
         /\ state = "READ" => ArchMem = [mem EXCEPT ![held.line] = After(held, mem[held.line])]
         /\ state = "WAIT" =>
              ArchMem = [mem EXCEPT ![held.line] =
                Merge(mem[held.line], AtomicOp[<<Head(pending), held.data>>], held.bytes)]
         /\ state = "WRITE" =>
              ArchMem = [mem EXCEPT ![held.line] = Merge(mem[held.line], new_q, held.bytes)]
<1>1. held \in MemRequest /\ mem \in [Lines -> Data]
  BY DEF IInv, TypeOK
<1>2. held.line \in Lines
  BY <1>1 DEF MemRequest
<1> QED BY <1>1, <1>2 DEF ArchMem

\* Memory as the requester sees it changes by the request taken.
LEMMA ArchMemStep ==
  ASSUME IInv, IInv', NEW i \in Inputs, Clock(i)
  PROVE  ArchMem' = IF Taken(i) = None THEN ArchMem
                    ELSE [ArchMem EXCEPT ![Taken(i).line] = After(Taken(i), @)]
<1> DEFINE old == mem[held.line]
<1>0. mem' = IF MemTaken(i) = None THEN mem
             ELSE [mem EXCEPT ![MemTaken(i).line] = After(MemTaken(i), mem[MemTaken(i).line])]
  BY DEF Clock, MemoryClock
<1>1. State(i) /\ mem \in [Lines -> Data] /\ held \in MemRequest
  BY DEF Clock, IInv, TypeOK
<1>2. held' = IF TakeAtomic(i) THEN i.req ELSE held
  BY DEF Clock
<1>3. CASE TakeAtomic(i)
  <2>1. MemTaken(i) = None /\ state = "IDLE" /\ i.req # None
    BY <1>3, TakenAlone
  <2>2. state' = "READ" /\ held' = i.req /\ mem' = mem
    BY <1>0, <1>1, <1>2, <1>3, <2>1 DEF State
  <2>3. ArchMem' = [mem EXCEPT ![i.req.line] = After(i.req, mem[i.req.line])]
    BY <2>2 DEF ArchMem
  <2> QED BY <1>3, <2>1, <2>3, ArchMemShape DEF Taken
<1>4. CASE state = "IDLE" /\ ~TakeAtomic(i)
  <2>1. state' = "IDLE"
    BY <1>1, <1>4 DEF State
  <2>2. ArchMem' = mem' /\ ArchMem = mem
    BY <1>4, <2>1 DEF ArchMem
  <2> QED BY <1>0, <1>4, <2>2 DEF Taken
<1>5. CASE state = "READ"
  <2>1. ~TakeAtomic(i) /\ Taken(i) = None /\ held' = held
    BY <1>2, <1>5 DEF TakeAtomic, Taken
  <2>2. CASE ~i.mem_ready
    <3>1. state' = "READ" /\ mem' = mem
      BY <1>0, <1>1, <1>5, <2>2 DEF State, MemTaken
    <3> QED BY <1>5, <2>1, <3>1 DEF ArchMem
  <2>3. CASE i.mem_ready
    <3>1. MemTaken(i) = AtomicRead
      BY <1>5, <2>3 DEF MemTaken, MemReq, AtomicRead
    <3>2. AtomicRead \in MemRequest /\ AtomicRead # None
      BY ReadIsRequest
    <3>3. /\ AtomicRead.line = held.line /\ AtomicRead.bytes = held.bytes
          /\ AtomicRead.op = "load"
      BY DEF AtomicRead
    <3>4. mem' = [mem EXCEPT ![held.line] = After(AtomicRead, old)]
      BY <1>0, <3>1, <3>2, <3>3
    <3>5. state' = "WAIT"
      BY <1>1, <1>5, <2>3 DEF State
    <3>6. Head(pending') = old
      <4>1. ~i.mem_rsp /\ pending = <<>>
        BY <1>5, NoAnswerWhileBusy
      <4>2. pending' = <<>> \o <<old>>
        BY <3>1, <3>2, <3>3, <4>1 DEF Clock, MemoryClock, Reads
      <4>3. <<>> \o <<old>> = <<old>>
        BY ArchMemShape, ConcatEmptySeq
      <4> QED BY <4>2, <4>3
    <3>7. ArchMem' = [mem' EXCEPT ![held.line] =
                        Merge(mem'[held.line], AtomicOp[<<old, held.data>>], held.bytes)]
      BY <2>1, <3>5, <3>6 DEF ArchMem
    <3>8. mem'[held.line] = After(AtomicRead, old)
      BY <1>1, <3>4, ArchMemShape
    <3>9. Merge(After(AtomicRead, old), AtomicOp[<<old, held.data>>], held.bytes)
            = After(held, old)
      <4>1. held.op = "atomic"
        BY <1>5 DEF IInv, HeldIsAtomic
      <4> QED BY <1>1, <3>2, <3>3, <4>1, ArchMemShape, ReadThenWrite
    <3>10. ArchMem' = [mem EXCEPT ![held.line] = After(held, old)]
      BY <1>1, <3>4, <3>7, <3>8, <3>9, ArchMemShape
    <3> QED BY <1>5, <2>1, <3>10, ArchMemShape
  <2> QED BY <2>2, <2>3
<1>6. CASE state = "WAIT"
  <2>1. ~TakeAtomic(i) /\ Taken(i) = None /\ held' = held /\ mem' = mem
    BY <1>0, <1>2, <1>6 DEF TakeAtomic, Taken, MemTaken, MemReq
  <2>2. CASE i.mem_rsp
    <3>1. state' = "WRITE" /\ new_q' = AtomicOp[<<Head(pending), held.data>>]
      BY <1>1, <1>6, <2>2 DEF State, Clock
    <3> QED BY <1>6, <2>1, <3>1 DEF ArchMem
  <2>3. CASE ~i.mem_rsp
    <3>1. state' = "WAIT"
      BY <1>1, <1>6, <2>3 DEF State
    <3>2. pending' = pending
      <4>1. pending' = pending \o <<>> /\ pending \in Seq(Data)
        BY <1>6, <2>3 DEF Clock, MemoryClock, MemTaken, MemReq, Reads, IInv, TypeOK
      <4> QED BY <4>1, ConcatEmptySeq
    <3> QED BY <1>6, <2>1, <3>1, <3>2 DEF ArchMem
  <2> QED BY <2>2, <2>3
<1>7. CASE state = "WRITE"
  <2>1. ~TakeAtomic(i) /\ Taken(i) = None /\ held' = held /\ new_q' = new_q
    BY <1>2, <1>7 DEF TakeAtomic, Taken, Clock
  <2>2. CASE ~i.mem_ready
    <3>1. state' = "WRITE" /\ mem' = mem
      BY <1>0, <1>1, <1>7, <2>2 DEF State, MemTaken
    <3> QED BY <1>7, <2>1, <3>1 DEF ArchMem
  <2>3. CASE i.mem_ready
    <3>1. MemTaken(i) = AtomicWrite /\ AtomicWrite # None /\ AtomicWrite.line = held.line
      BY <1>7, <2>3, WriteIsRequest DEF MemTaken, MemReq, AtomicWrite
    <3>2. After(AtomicWrite, old) = Merge(old, new_q, held.bytes)
      BY DEF After, Written, AtomicWrite
    <3>3. mem' = [mem EXCEPT ![held.line] = Merge(old, new_q, held.bytes)]
      BY <1>0, <3>1, <3>2
    <3>4. state' = "IDLE"
      BY <1>1, <1>7, <2>3 DEF State
    <3> QED BY <1>7, <2>1, <3>3, <3>4, ArchMemShape DEF ArchMem
  <2> QED BY <2>2, <2>3
<1> QED BY <1>3, <1>4, <1>5, <1>6, <1>7 DEF IInv, TypeOK

\* An answer of memory is the oldest one owed, and nothing is owed in READ but
\* the answer of the atomic.
LEMMA OwedShape ==
  ASSUME IInv
  PROVE  /\ state = "READ" => pending = <<>> /\ Owed = <<mem[held.line]>>
         /\ state # "READ" => Owed = pending
<1>1. pending \in Seq(Data) /\ (state = "READ" => Len(pending) = 0)
  BY DEF IInv, TypeOK
<1>2. state = "READ" => pending = <<>>
  BY <1>1, EmptySeq
<1>3. <<mem[held.line]>> \in Seq(Data)
  BY ArchMemShape
<1> QED BY <1>1, <1>2, <1>3, ConcatEmptySeq DEF Owed

\* What is owed grows by the value of the read or atomic taken and loses the
\* answer given.
LEMMA OwedStep ==
  ASSUME IInv, IInv', NEW i \in Inputs, Clock(i)
  PROVE  Owed' = (IF i.mem_rsp THEN Tail(Owed) ELSE Owed)
                   \o (IF Reads(Taken(i)) THEN <<ArchMem[Taken(i).line]>> ELSE <<>>)
<1>1. /\ state' # "READ" => Owed' = pending'
      /\ state' = "READ" => Owed' = <<mem'[held'.line]>>
  <2>1. pending' \in Seq(Data) /\ (state' = "READ" => pending' = <<>>)
    <3>1. pending' \in Seq(Data) /\ (state' = "READ" => Len(pending') = 0)
      BY DEF IInv, TypeOK
    <3> QED BY <3>1, EmptySeq
  <2>2. held' \in MemRequest /\ mem' \in [Lines -> Data]
    BY DEF IInv, TypeOK
  <2>3. <<mem'[held'.line]>> \in Seq(Data)
    BY <2>2 DEF MemRequest
  <2> QED BY <2>1, <2>2, <2>3, ConcatEmptySeq DEF Owed
<1>2. State(i) /\ held' = (IF TakeAtomic(i) THEN i.req ELSE held)
  BY DEF Clock
<1>3. pending' = (IF i.mem_rsp THEN Tail(pending) ELSE pending)
                   \o (IF Reads(MemTaken(i)) THEN <<mem[MemTaken(i).line]>> ELSE <<>>)
  BY DEF Clock, MemoryClock
<1>4. CASE TakeAtomic(i)
  <2>1. /\ ~i.mem_rsp /\ pending = <<>> /\ MemTaken(i) = None /\ state = "IDLE"
        /\ i.req \in MemRequest /\ i.req # None /\ i.req.op = "atomic"
    BY <1>4, TakenAlone
  <2>2. state' = "READ" /\ held' = i.req /\ mem' = mem
    BY <1>2, <1>4, <2>1 DEF State, Clock, MemoryClock
  <2>3. Owed' = <<mem[i.req.line]>> /\ Owed = <<>> /\ ArchMem = mem
    BY <1>1, <2>1, <2>2, OwedShape, ArchMemShape
  <2>4. mem[i.req.line] \in Data
    BY <2>1 DEF MemRequest, IInv, TypeOK
  <2>5. <<>> \o <<mem[i.req.line]>> = <<mem[i.req.line]>>
    BY <2>4, ConcatEmptySeq
  <2>6. Taken(i) = i.req /\ Reads(i.req)
    BY <1>4, <2>1 DEF Taken, Reads
  <2> QED BY <2>1, <2>3, <2>5, <2>6
<1>5. CASE state = "IDLE" /\ ~TakeAtomic(i)
  <2>1. state' = "IDLE" /\ Taken(i) = MemTaken(i)
    BY <1>2, <1>5 DEF State, Taken
  <2> QED BY <1>1, <1>3, <1>5, <2>1, OwedShape, ArchMemShape
<1>6. CASE state = "READ"
  <2>1. ~i.mem_rsp /\ pending = <<>> /\ ~TakeAtomic(i) /\ Taken(i) = None
    BY <1>6, NoAnswerWhileBusy DEF TakeAtomic, Taken
  <2>2. Owed' = <<mem[held.line]>>
    <3>1. CASE i.mem_ready
      <4>1. MemTaken(i) = AtomicRead /\ AtomicRead # None /\ AtomicRead.line = held.line
            /\ AtomicRead.op = "load"
        BY <1>6, <3>1, ReadIsRequest DEF MemTaken, MemReq, AtomicRead
      <4>2. pending' = <<>> \o <<mem[held.line]>>
        BY <1>3, <2>1, <4>1 DEF Reads
      <4>3. <<>> \o <<mem[held.line]>> = <<mem[held.line]>>
        BY ArchMemShape, ConcatEmptySeq
      <4>4. state' = "WAIT"
        BY <1>2, <1>6, <3>1 DEF State
      <4> QED BY <1>1, <4>2, <4>3, <4>4
    <3>2. CASE ~i.mem_ready
      <4>1. state' = "READ" /\ mem' = mem
        BY <1>2, <1>6, <3>2 DEF State, MemTaken, Clock, MemoryClock
      <4> QED BY <1>1, <1>2, <2>1, <4>1
    <3> QED BY <3>1, <3>2
  <2>3. Owed = <<mem[held.line]>> /\ <<mem[held.line]>> \in Seq(Data)
    BY <1>6, OwedShape, ArchMemShape
  <2> QED BY <2>1, <2>2, <2>3, ConcatEmptySeq DEF Reads
<1>7. CASE state \in {"WAIT", "WRITE"}
  <2>1. state' # "READ" /\ Taken(i) = None
    BY <1>2, <1>7 DEF State, TakeAtomic, Taken
  <2>2. ~Reads(MemTaken(i))
    BY <1>7 DEF MemTaken, MemReq, Reads
  <2> QED BY <1>1, <1>3, <1>7, <2>1, <2>2, OwedShape DEF Reads
<1> QED BY <1>4, <1>5, <1>6, <1>7 DEF IInv, TypeOK

\* The answer given is the oldest owed; a request is done only with a slot free.
LEMMA AnswerStep ==
  ASSUME IInv, NEW i \in Inputs, Clock(i)
  PROVE  /\ i.mem_rsp => Owed # <<>>
         /\ answer' = IF i.mem_rsp THEN Head(Owed) ELSE None
         /\ Taken(i) # None => Len(Owed) < MaxPending \/ i.mem_rsp
<1>1. i.mem_rsp => state # "READ"
  BY NoAnswerWhileBusy
<1>2. i.mem_rsp => Owed = pending
  BY <1>1, OwedShape
<1>3. Taken(i) # None => Len(Owed) < MaxPending \/ i.mem_rsp
  <2>1. CASE TakeAtomic(i)
    <3>1. Owed = <<>>
      BY <2>1, TakenAlone, OwedShape
    <3> QED BY <3>1, EmptySeq, MemoryAssumption
  <2>2. CASE ~TakeAtomic(i)
    BY <2>2, OwedShape DEF Taken, Clock, MemoryClock, SlotFree
  <2> QED BY <2>1, <2>2
<1> QED BY <1>2, <1>3 DEF Clock

-----------------------------------------------------------------------------
(* The theorem.                                                            *)

\* The memory the requester sees starts as memory.
LEMMA RefinementInit == Init => Atomic!MemoryInit
<1> SUFFICES ASSUME Init PROVE Atomic!MemoryInit
  OBVIOUS
<1>1. IInv
  BY InitInvariant
<1>2. ArchMem = mem /\ Owed = pending
  BY <1>1, ArchMemShape, OwedShape DEF Init
<1> QED BY <1>2 DEF Init, MemoryInit, Atomic!MemoryInit, Data, Atomic!Data

\* A clock does at most one request there and gives at most one answer.
LEMMA RefinementNext ==
  IInv /\ IInv' /\ [Next]_vars => [Atomic!MemoryNext]_(Atomic!memoryVars)
<1> SUFFICES ASSUME IInv, IInv', [Next]_vars
             PROVE  [Atomic!MemoryNext]_(Atomic!memoryVars)
  OBVIOUS
<1>1. CASE UNCHANGED vars
  BY <1>1 DEF vars, memoryVars, Atomic!memoryVars, ArchMem, Owed
<1>2. CASE Next
  <2>1. PICK i \in Inputs : Clock(i)
    BY <1>2 DEF Next
  <2>2. Taken(i) \in Requests \cup {None} /\ i.mem_rsp \in BOOLEAN
    BY <2>1, TakenType, InputType
  <2>3. Atomic!MemoryClock(Taken(i), i.mem_rsp)
    BY <2>1, AnswerStep, ArchMemStep, OwedStep, AtomicOperators
       DEF Atomic!MemoryClock, Atomic!SlotFree
  <2> QED BY <2>1, <2>2, <2>3, AnswerStep DEF Atomic!MemoryNext
<1> QED BY <1>1, <1>2

\* The unit with its memory is a memory that does every atomic at once, in the
\* order of the requests, for every operation and any number of reads in flight.
THEOREM UnitRefinesAtomicMemory == Spec => RefinesAtomicMemory
  BY RefinementInit, RefinementNext, Invariant, PTL
     DEF Spec, RefinesAtomicMemory, Atomic!MemorySpec

-----------------------------------------------------------------------------
(* InsnDataCacheArbiter.                                                   *)

\* The lemmas about a Fifo that BufferChain_proofs has, for the queue of owners.
Chain == INSTANCE BufferChain_proofs
  WITH Items <- Sides, full <- FALSE, entry <- None, out_valid <- FALSE, out_data <- None,
       skid_valid <- FALSE, skid_data <- None, put <- None, got <- None

\* Every entry between the queue's pointers is a side.
OwnersHold ==
  /\ Owners!Count <= Depth
  /\ \A k \in 1 .. Owners!Count : entries[(rd_ptr + k - 1) % Depth] \in Sides

\* What is held is what its side has waiting, and a read held has room.
HoldIsWaiting ==
  hold => /\ presented # None /\ presented = Waiting[held_side]
          /\ presented.op = "store" \/ Owners!Count < Depth

ArbInv ==
  /\ ArbTypeOK
  /\ i_full => i_entry # None
  /\ d_full => d_entry # None
  /\ OwnersHold /\ HoldIsWaiting

\* What the two sides may ask for.
SideRequests(s) == IF s = "insn" THEN InsnRequests ELSE DataRequests

\* The requests are memory's; a clock's inputs.
LEMMA ArbInputType ==
  ASSUME NEW i \in ArbInputs
  PROVE  /\ i.insn \in InsnRequests \cup {None} /\ i.data \in DataRequests \cup {None}
         /\ i.prio \in {"none", "data", "insn"}
         /\ i.mem_ready \in BOOLEAN /\ i.mem_rsp \in BOOLEAN
  BY ArbiterAssumption DEF ArbInputs

LEMMA SideRequestsAre ==
  ASSUME NEW s \in Sides
  PROVE  /\ SideRequests(s) \subseteq MemRequests /\ SideRequests(s) \subseteq MemRequest
         /\ None \notin SideRequests(s)
         /\ \A r \in SideRequests(s) : r.op \in {"load", "store"}
  BY ArbiterAssumption, MemRequestsAssumption DEF SideRequests

\* A side asks for one of its requests or for nothing.
LEMMA AsksIs ==
  ASSUME ArbInv, NEW i \in ArbInputs, NEW s \in Sides
  PROVE  /\ Asks(i, s) \in SideRequests(s) \cup {None}
         /\ Waiting[s] # None => Asks(i, s) = Waiting[s]
         /\ Asks(i, s) = IF Waiting[s] # None THEN Waiting[s]
                         ELSE IF s = "insn" THEN i.insn ELSE i.data
<1>1. CASE s = "insn"
  BY <1>1, ArbInputType DEF Asks, InsnBuf!OutData, SideRequests, ArbInv, ArbTypeOK, Waiting, Sides
<1>2. CASE s = "data"
  BY <1>2, ArbInputType DEF Asks, DataBuf!OutData, SideRequests, ArbInv, ArbTypeOK, Waiting, Sides
<1> QED BY <1>1, <1>2 DEF Sides

LEMMA SideIs ==
  ASSUME ArbInv, NEW i \in ArbInputs
  PROVE  Side(i) \in Sides
<1>1. PolicySide \in Sides
  BY DEF PolicySide, Other, Sides
<1>2. TieWinner(i.prio) \in Sides
  BY <1>1, ArbInputType DEF TieWinner, Sides
<1>3. Choice(i) \in Sides
  BY <1>2 DEF Choice, Sides
<1> QED BY <1>3 DEF Side, ArbInv, ArbTypeOK

\* The request presented is what its side asks for; a read has room.
LEMMA ArbReqIs ==
  ASSUME ArbInv, NEW i \in ArbInputs
  PROVE  /\ ArbReq(i) \in SideRequests(Side(i)) \cup {None}
         /\ ArbReq(i) # None => /\ ArbReq(i) = Asks(i, Side(i)) /\ MayGo(i, Side(i))
                                /\ ArbReq(i).op = "store" \/ Owners!Count < Depth
         /\ \A s \in Sides : MayGo(i, s) => Asks(i, s) # None
<1>1. /\ Side(i) \in Sides
      /\ \A s \in Sides : Asks(i, s) \in SideRequests(s) \cup {None}
  BY SideIs, AsksIs
<1>2. Owners!Count \in Nat /\ Owners!Count <= Depth /\ Depth \in Nat
  BY ArbiterAssumption DEF ArbInv, OwnersHold, ArbTypeOK
<1>3. \A s \in Sides : MayGo(i, s) =>
        Asks(i, s) # None /\ (Asks(i, s).op = "store" \/ Owners!Count < Depth)
  BY <1>1, <1>2 DEF MayGo, Owners!Full
<1> QED BY <1>1, <1>3 DEF ArbReq

\* What enters the queue of owners in a clock: the side of a read taken.
OwnerIn(i) == IF Reads(ArbTaken(i)) THEN Side(i) ELSE None

\* A request taken is the one presented.
LEMMA ArbTakenIs ==
  ASSUME ArbInv, NEW i \in ArbInputs
  PROVE  /\ ArbTaken(i) = None \/ (ArbTaken(i) = ArbReq(i) /\ i.mem_ready)
         /\ ArbTaken(i) # None =>
              ArbTaken(i) \in SideRequests(Side(i)) /\ ArbTaken(i) \in MemRequest
         /\ Reads(ArbTaken(i)) \in BOOLEAN
         /\ Reads(ArbTaken(i)) => ArbTaken(i) # None /\ Owners!Count < Depth
         /\ OwnerIn(i) \in Sides \cup {None}
         /\ OwnerIn(i) # None <=> Reads(ArbTaken(i))
<1>1. Side(i) \in Sides /\ None \notin Sides
  BY SideIs, ArbiterAssumption
<1>2. ArbTaken(i) = None \/ (ArbTaken(i) = ArbReq(i) /\ i.mem_ready)
  BY DEF ArbTaken
<1>3. ArbTaken(i) # None => ArbTaken(i) \in SideRequests(Side(i))
  BY <1>2, ArbReqIs
<1>4. ArbTaken(i) # None => ArbTaken(i) \in MemRequest
  BY <1>1, <1>3, SideRequestsAre
<1>5. Reads(ArbTaken(i)) \in BOOLEAN
  BY DEF Reads
<1>6. Reads(ArbTaken(i)) => ArbTaken(i) # None /\ ArbTaken(i).op # "store"
  BY DEF Reads
<1>7. Reads(ArbTaken(i)) => Owners!Count < Depth
  BY <1>2, <1>6, ArbReqIs
<1> QED BY <1>1, <1>2, <1>3, <1>4, <1>5, <1>6, <1>7 DEF OwnerIn

\* The queue of owners over a clock: a read taken adds its side, an answer takes
\* the oldest one off, and neither is ever lost to a full or an empty queue.
LEMMA OwnersStep ==
  ASSUME ArbInv, NEW i \in ArbInputs, ArbClock(i)
  PROVE  LET in  == IF Reads(ArbTaken(i)) THEN 1 ELSE 0
             out == IF i.mem_rsp THEN 1 ELSE 0
             n   == Owners!Count
         IN  /\ Owners!FifoTypeOK' /\ OwnersHold'
             /\ n' = n + in - out
             /\ i.mem_rsp => n > 0 /\ Owner = Owners!FifoQueue[1] /\ Owner \in Sides
             /\ \A k \in 1 .. n - out : Owners!FifoQueue'[k] = Owners!FifoQueue[out + k]
             /\ in = 1 => Owners!FifoQueue'[n'] = Side(i)
<1> DEFINE in  == IF Reads(ArbTaken(i)) THEN 1 ELSE 0
           out == IF i.mem_rsp THEN 1 ELSE 0
           n   == Owners!Count
           write == OwnerIn(i)
<1>0. None \notin Sides /\ Depth \in Nat \ {0} /\ \E w \in 0 .. Depth : Depth = 2 ^ w
  <2>1. Depth \in Nat \ {0} /\ None \notin Sides
    BY ArbiterAssumption
  <2>2. \E w \in 1 .. Depth : Depth = 2 ^ w
    BY ArbiterAssumption
  <2>3. 1 .. Depth \subseteq 0 .. Depth
    BY <2>1
  <2> QED BY <2>1, <2>2, <2>3
<1>1. /\ Owners!FifoTypeOK /\ n \in Nat /\ n <= Depth /\ Depth \in Nat \ {0} /\ n = Len(pending)
      /\ \A k \in 1 .. n : entries[(rd_ptr + k - 1) % Depth] \in Sides
      /\ rd_ptr \in Nat
  BY ArbiterAssumption DEF ArbInv, OwnersHold, ArbTypeOK, Owners!FifoTypeOK, Owners!Wrap
<1>2. /\ i.mem_rsp \in BOOLEAN /\ write \in Sides \cup {None} /\ None \notin Sides
      /\ write # None <=> Reads(ArbTaken(i))
      /\ Reads(ArbTaken(i)) => n < Depth
      /\ i.mem_rsp => pending # <<>>
      /\ Owners!FifoStep(write, i.mem_rsp)
  BY ArbInputType, ArbTakenIs, ArbiterAssumption DEF ArbClock, OwnerIn
<1>3. pending \in Seq(Data) /\ (i.mem_rsp => n > 0)
  BY <1>1, <1>2 DEF ArbInv, ArbTypeOK
<1>4. /\ Owners!DoWrite(write) <=> in = 1
      /\ Owners!DoRead(i.mem_rsp) <=> out = 1
  BY <1>1, <1>2, <1>3 DEF Owners!DoWrite, Owners!DoRead, Owners!Full, Owners!Empty
\* In the words of BufferChain.
<1>5. /\ Chain!Ring!Count = n /\ Chain!Ring!Count' = n'
      /\ (Chain!Ring!FifoTypeOK <=> Owners!FifoTypeOK)
      /\ (Chain!Ring!FifoTypeOK' <=> Owners!FifoTypeOK')
      /\ Chain!Ring!FifoStep(write, i.mem_rsp) <=> Owners!FifoStep(write, i.mem_rsp)
      /\ Chain!Ring!DoWrite(write) <=> Owners!DoWrite(write)
      /\ Chain!Ring!DoRead(i.mem_rsp) <=> Owners!DoRead(i.mem_rsp)
      /\ Chain!Ring!DataOut = Owners!DataOut
  BY DEF Chain!Ring!Count, Chain!Ring!Wrap, Chain!Ring!FifoTypeOK, Chain!Ring!FifoStep,
         Chain!Ring!DoWrite, Chain!Ring!DoRead, Chain!Ring!Full, Chain!Ring!Empty,
         Chain!Ring!DataOut, Owners!Count, Owners!Wrap, Owners!FifoTypeOK, Owners!FifoStep,
         Owners!DoWrite, Owners!DoRead, Owners!Full, Owners!Empty, Owners!DataOut
<1>6. Chain!RingHolds /\ (Chain!RingHolds' <=> \A k \in 1 .. n' : entries'[(rd_ptr' + k - 1) % Depth] \in Sides)
  BY <1>1, <1>5 DEF Chain!RingHolds
<1>7. /\ Chain!Ring!FifoTypeOK /\ Chain!Ring!Count <= Depth /\ Chain!RingHolds
      /\ write \in Sides \cup {None} /\ i.mem_rsp \in BOOLEAN /\ Chain!Ring!FifoStep(write, i.mem_rsp)
  BY <1>1, <1>2, <1>5, <1>6
<1>8. i.mem_rsp => Owner \in Sides /\ Owner = entries[rd_ptr % Depth]
  <2>1. 1 <= n => entries[(rd_ptr + 1 - 1) % Depth] \in Sides
    BY <1>1
  <2>2. rd_ptr + 1 - 1 = rd_ptr
    BY <1>1
  <2> QED BY <1>1, <1>3, <2>1, <2>2 DEF Owner, Owners!DataOut
<1>9. /\ Chain!RingIn(write) = IF in = 1 THEN write ELSE None
      /\ Chain!RingOut(i.mem_rsp) = IF out = 1 THEN Owner ELSE None
  BY <1>4, <1>5 DEF Chain!RingIn, Chain!RingOut, Owner
<1>10. /\ Len(Chain!Opt(Chain!RingIn(write))) = in
       /\ Len(Chain!Opt(Chain!RingOut(i.mem_rsp))) = out
  <2>1. \A x : Len(Chain!Opt(x)) = IF x = None THEN 0 ELSE 1
    BY DEF Chain!Opt
  <2>2. Chain!RingIn(write) = None <=> in = 0
    BY <1>2, <1>9
  <2>3. Chain!RingOut(i.mem_rsp) = None <=> out = 0
    BY <1>2, <1>8, <1>9
  <2> QED BY <2>1, <2>2, <2>3
<1>11. /\ Chain!Ring!FifoTypeOK'
       /\ n' = n + in - out /\ n' <= Depth
       /\ \A k \in 1 .. n - out :
            entries'[(rd_ptr' + k - 1) % Depth] = entries[(rd_ptr + out + k - 1) % Depth]
       /\ in = 1 => entries'[(rd_ptr' + n' - 1) % Depth] = Side(i)
  <2> HIDE DEF n
  <2>1. in = 1 => Chain!RingIn(write) # None /\ write = Side(i)
    BY <1>2, <1>9 DEF OwnerIn
  <2> HIDE DEF in, out, write
  <2> QED BY <1>0, <1>5, <1>7, <1>10, <2>1, Chain!RingClock
<1>12. Chain!RingHolds'
  BY <1>0, <1>7, Chain!RingMoves
<1>13. Owners!FifoTypeOK' /\ OwnersHold'
  BY <1>5, <1>6, <1>11, <1>12 DEF OwnersHold
<1>14. \A k \in 1 .. n : Owners!FifoQueue[k] = entries[(rd_ptr + k - 1) % Depth]
  BY DEF Owners!FifoQueue
<1>15. \A k \in 1 .. n' : Owners!FifoQueue'[k] = entries'[(rd_ptr' + k - 1) % Depth]
  BY DEF Owners!FifoQueue
<1>16. in \in {0, 1} /\ out \in {0, 1} /\ (out = 1 => n > 0) /\ n' \in Nat
  BY <1>1, <1>3, <1>11
<1>17. ASSUME NEW k \in 1 .. n - out
       PROVE  Owners!FifoQueue'[k] = Owners!FifoQueue[out + k]
  <2> HIDE DEF n, in, out
  <2>1. k \in 1 .. n' /\ out + k \in 1 .. n /\ rd_ptr + out + k - 1 = rd_ptr + (out + k) - 1
    BY <1>1, <1>11, <1>16
  <2> QED BY <1>11, <1>14, <1>15, <2>1
<1>18. in = 1 => Owners!FifoQueue'[n'] = Side(i)
  <2> HIDE DEF n, in, out
  <2>1. in = 1 => n' \in 1 .. n'
    BY <1>1, <1>11, <1>16
  <2> QED BY <1>11, <1>15, <2>1
<1>19. i.mem_rsp => Owner = Owners!FifoQueue[1]
  <2>1. i.mem_rsp => 1 \in 1 .. n
    BY <1>1, <1>3
  <2>2. rd_ptr + 1 - 1 = rd_ptr
    BY <1>1
  <2> QED BY <1>8, <1>14, <2>1, <2>2
<1> QED BY <1>3, <1>8, <1>11, <1>13, <1>17, <1>18, <1>19

\* The reads in memory over a clock.
LEMMA ArbPendingStep ==
  ASSUME ArbInv, NEW i \in ArbInputs, ArbClock(i)
  PROVE  /\ mem' \in [Lines -> Data] /\ pending' \in Seq(Data)
         /\ Len(pending') = Len(pending) + (IF Reads(ArbTaken(i)) THEN 1 ELSE 0)
                              - (IF i.mem_rsp THEN 1 ELSE 0)
         /\ i.mem_rsp => pending # <<>> /\ Head(pending) \in Data
<1> DEFINE r    == ArbTaken(i)
           rest == IF i.mem_rsp THEN Tail(pending) ELSE pending
           new  == IF Reads(r) THEN <<mem[r.line]>> ELSE <<>>
<1>1. /\ pending' = rest \o new
      /\ mem' = IF r = None THEN mem ELSE [mem EXCEPT ![r.line] = After(r, @)]
      /\ i.mem_rsp => pending # <<>>
  BY DEF ArbClock, MemoryClock
<1>2. /\ pending \in Seq(Data) /\ mem \in [Lines -> Data] /\ i.mem_rsp \in BOOLEAN
      /\ r # None => r \in MemRequest
      /\ Reads(r) \in BOOLEAN /\ (Reads(r) => r # None)
  BY ArbTakenIs, ArbInputType DEF ArbInv, ArbTypeOK
<1>3. /\ rest \in Seq(Data)
      /\ Len(rest) = Len(pending) - (IF i.mem_rsp THEN 1 ELSE 0)
      /\ i.mem_rsp => Head(pending) \in Data
  BY <1>1, <1>2, HeadTailProperties
<1>4. r # None => r.line \in Lines /\ mem[r.line] \in Data
  BY <1>2 DEF MemRequest
<1>5. new \in Seq(Data) /\ Len(new) = IF Reads(r) THEN 1 ELSE 0
  BY <1>2, <1>4
<1>6. mem' \in [Lines -> Data]
  <2> HIDE DEF r
  <2>1. r # None => After(r, mem[r.line]) \in Data
    BY <1>2, <1>4, AfterType
  <2> QED BY <1>1, <1>2, <1>4, <2>1
<1>7. pending' \in Seq(Data) /\ Len(pending') = Len(rest) + Len(new)
  <2> HIDE DEF rest, new
  <2> QED BY <1>1, <1>3, <1>5, ConcatProperties
<1>8. Len(pending) \in Nat
  BY <1>2
<1> HIDE DEF rest, new
<1> QED BY <1>1, <1>2, <1>3, <1>5, <1>6, <1>7, <1>8

\* What waits at a side over a clock: what it asked for, unless memory took it.
LEMMA WaitingStep ==
  ASSUME ArbInv, NEW i \in ArbInputs, ArbClock(i)
  PROVE  /\ i_full' \in BOOLEAN /\ i_entry' \in InsnRequests \cup {None}
         /\ d_full' \in BOOLEAN /\ d_entry' \in DataRequests \cup {None}
         /\ i_full' => i_entry' # None
         /\ d_full' => d_entry' # None
         /\ \A s \in Sides : Waiting'[s] = IF SideReady(i, s) THEN None ELSE Asks(i, s)
<1>1. /\ i_full \in BOOLEAN /\ i_entry \in InsnRequests \cup {None} /\ (i_full => i_entry # None)
      /\ d_full \in BOOLEAN /\ d_entry \in DataRequests \cup {None} /\ (d_full => d_entry # None)
  BY DEF ArbInv, ArbTypeOK
<1>2. /\ i.insn \in InsnRequests \cup {None} /\ i.data \in DataRequests \cup {None}
      /\ Asks(i, "insn") = IF i_full THEN i_entry ELSE i.insn
      /\ Asks(i, "data") = IF d_full THEN d_entry ELSE i.data
  BY ArbInputType DEF Asks, InsnBuf!OutData, DataBuf!OutData
<1>3. /\ i_full' = ((i_full \/ i.insn # None) /\ ~ SideReady(i, "insn"))
      /\ i_entry' = IF i_full THEN i_entry ELSE i.insn
  BY DEF ArbClock, InsnBuf!FlowStep, InsnBuf!OutValid
<1>4. /\ d_full' = ((d_full \/ i.data # None) /\ ~ SideReady(i, "data"))
      /\ d_entry' = IF d_full THEN d_entry ELSE i.data
  BY DEF ArbClock, DataBuf!FlowStep, DataBuf!OutValid
<1>5. SideReady(i, "insn") \in BOOLEAN /\ SideReady(i, "data") \in BOOLEAN
  BY DEF SideReady
<1>6. Waiting'["insn"] = IF SideReady(i, "insn") THEN None ELSE Asks(i, "insn")
  BY <1>1, <1>2, <1>3, <1>5 DEF Waiting, Sides
<1>7. Waiting'["data"] = IF SideReady(i, "data") THEN None ELSE Asks(i, "data")
  BY <1>1, <1>2, <1>4, <1>5 DEF Waiting, Sides
<1> QED BY <1>1, <1>2, <1>3, <1>4, <1>5, <1>6, <1>7 DEF Sides

\* A request not taken waits at its side, and memory still has room for its answer.
LEMMA HoldStep ==
  ASSUME ArbInv, NEW i \in ArbInputs, ArbClock(i)
  PROVE  HoldIsWaiting'
<1> SUFFICES ASSUME hold'
             PROVE  /\ presented' # None /\ presented' = Waiting'[held_side']
                    /\ presented'.op = "store" \/ Owners!Count' < Depth
  BY DEF HoldIsWaiting
<1>1. /\ ArbReq(i) # None /\ ~ i.mem_ready
      /\ presented' = ArbReq(i) /\ held_side' = Side(i)
  BY DEF ArbClock
<1>2. ArbReq(i) = Asks(i, Side(i)) /\ (ArbReq(i).op = "store" \/ Owners!Count < Depth)
  BY <1>1, ArbReqIs
<1>3. Side(i) \in Sides /\ ~ SideReady(i, Side(i))
  BY <1>1, SideIs DEF SideReady
<1>4. Waiting'[Side(i)] = Asks(i, Side(i))
  BY <1>3, WaitingStep
<1>5. ~ Reads(ArbTaken(i))
  BY <1>1 DEF ArbTaken, Reads
<1>6. Owners!Count \in Nat /\ Owners!Count' \in {Owners!Count, Owners!Count - 1}
  <2>1. Owners!Count \in Nat
    BY DEF ArbInv, ArbTypeOK
  <2>2. Owners!Count' = Owners!Count + 0 - (IF i.mem_rsp THEN 1 ELSE 0)
    BY <1>5, OwnersStep
  <2> QED BY <2>1, <2>2
<1>7. Depth \in Nat
  BY ArbiterAssumption
<1> QED BY <1>1, <1>2, <1>4, <1>6, <1>7

LEMMA ArbInitInvariant == ArbInit => ArbInv
<1> SUFFICES ASSUME ArbInit PROVE ArbInv
  OBVIOUS
<1>1. Depth \in Nat \ {0}
  BY ArbiterAssumption
<1>2. Owners!FifoTypeOK /\ Owners!Count = 0
  <2>1. (2 * Depth) % (2 * Depth) = 0
    <3> DEFINE W == 2 * Depth
    <3>1. W \in Nat \ {0}
      BY <1>1
    <3> HIDE DEF W
    <3>2. W % W = 0
      BY <3>1
    <3> QED BY <3>2 DEF W
  <2> QED BY <1>1, <2>1 DEF ArbInit, Owners!FifoInit, Owners!FifoTypeOK, Owners!Wrap, Owners!Count
<1>3. pending = <<>> /\ answer = None /\ mem \in [Lines -> Data]
  BY DEF ArbInit, MemoryInit
<1>4. ArbTypeOK
  <2>1. Owners!Count = Len(pending)
    BY <1>2, <1>3
  <2>2. pending \in Seq(Data)
    BY <1>3
  <2> QED BY <1>2, <1>3, <2>1, <2>2 DEF ArbInit, ArbTypeOK, Sides
<1> QED BY <1>1, <1>2, <1>4 DEF ArbInit, ArbInv, OwnersHold, HoldIsWaiting

LEMMA ArbNextInvariant == ArbInv /\ [ArbNext]_arbVars => ArbInv'
<1>1. ASSUME ArbInv, NEW i \in ArbInputs, ArbClock(i) PROVE ArbInv'
  <2>1. /\ mem' \in [Lines -> Data] /\ pending' \in Seq(Data)
        /\ Len(pending') = Owners!Count'
    <3>1. Owners!Count = Len(pending)
      BY <1>1 DEF ArbInv, ArbTypeOK
    <3>2. /\ mem' \in [Lines -> Data] /\ pending' \in Seq(Data)
          /\ Len(pending') = Len(pending) + (IF Reads(ArbTaken(i)) THEN 1 ELSE 0)
                               - (IF i.mem_rsp THEN 1 ELSE 0)
      BY <1>1, ArbPendingStep
    <3>3. Owners!Count' = Owners!Count + (IF Reads(ArbTaken(i)) THEN 1 ELSE 0)
                            - (IF i.mem_rsp THEN 1 ELSE 0)
      BY <1>1, OwnersStep
    <3> QED BY <3>1, <3>2, <3>3
  <2>2. answer' \in Data \cup {None} /\ answered' \in Sides \cup {None}
    BY <1>1, ArbPendingStep, OwnersStep DEF ArbClock, Answer
  <2>3. hold' \in BOOLEAN /\ held_side' \in Sides /\ last' \in Sides
    BY <1>1, SideIs DEF ArbClock, ArbInv, ArbTypeOK
  <2>4. Owners!FifoTypeOK' /\ OwnersHold'
    BY <1>1, OwnersStep
  <2>5. ArbTypeOK'
    BY <1>1, <2>1, <2>2, <2>3, <2>4, WaitingStep DEF ArbTypeOK
  <2> QED BY <1>1, <2>4, <2>5, WaitingStep, HoldStep DEF ArbInv
<1>2. ASSUME ArbInv, UNCHANGED arbVars PROVE ArbInv'
  BY <1>2 DEF ArbInv, ArbTypeOK, OwnersHold, HoldIsWaiting, Waiting, arbVars, memoryVars, sideVars,
     ownerVars, Owners!FifoTypeOK, Owners!Count, Owners!Wrap
<1> QED BY <1>1, <1>2 DEF ArbNext

LEMMA ArbInvariant == ArbSpec => []ArbInv
  BY ArbInitInvariant, ArbNextInvariant, PTL DEF ArbSpec

\* The registers keep their types, and the queue has the side of every read in
\* memory, so that no answer is without an owner (a_answer_expected).
THEOREM ArbiterTypeCorrect == ArbSpec => []ArbTypeOK
<1>1. ArbInv => ArbTypeOK
  BY DEF ArbInv
<1> QED BY <1>1, ArbInvariant, PTL

\* A request presented and not taken stays, for every policy, prio and traffic of
\* the other side (a_mem_req_held).
THEOREM ArbiterHoldsRequests == ArbSpec => RequestHeld
<1>1. ASSUME ArbInv, NEW i \in ArbInputs, ArbClock(i), hold PROVE presented' = presented
  <2>1. /\ held_side \in Sides /\ Side(i) = held_side
        /\ presented # None /\ presented = Waiting[held_side]
        /\ presented.op = "store" \/ Owners!Count < Depth
    BY <1>1 DEF ArbInv, ArbTypeOK, HoldIsWaiting, Side
  <2>2. Asks(i, held_side) = presented
    BY <1>1, <2>1, AsksIs
  <2>3. Owners!Count \in Nat /\ Depth \in Nat
    BY <1>1, ArbiterAssumption DEF ArbInv, ArbTypeOK
  <2>4. MayGo(i, held_side)
    BY <2>1, <2>2, <2>3 DEF MayGo, Owners!Full
  <2> QED BY <1>1, <2>1, <2>2, <2>4 DEF ArbClock, ArbReq
<1>2. ArbInv /\ [ArbNext]_arbVars => [hold => presented' = presented]_arbVars
  BY <1>1 DEF ArbNext
<1> QED BY <1>2, ArbInvariant, PTL DEF ArbSpec, RequestHeld

-----------------------------------------------------------------------------
(* The memory that the two caches share.                                   *)

OwedRead == [side : Sides, line : Data]

\* What they are, one by one.
OwedReadsOK ==
  /\ OwedReads \in Seq(OwedRead) /\ Len(OwedReads) = Len(pending)
  /\ DOMAIN OwedReads = 1 .. Len(pending)
  /\ \A k \in 1 .. Len(pending) :
       OwedReads[k] = [side |-> Owners!FifoQueue[k], line |-> pending[k]]

LEMMA OwedReadsAre == ArbInv => OwedReadsOK
<1> SUFFICES ASSUME ArbInv PROVE OwedReadsOK
  OBVIOUS
<1>1. /\ pending \in Seq(Data) /\ Owners!Count = Len(pending) /\ Len(pending) \in Nat
      /\ DOMAIN pending = 1 .. Len(pending)
      /\ \A k \in 1 .. Len(pending) : pending[k] \in Data
  BY DEF ArbInv, ArbTypeOK
<1>2. \A k \in 1 .. Owners!Count : Owners!FifoQueue[k] \in Sides
  BY DEF ArbInv, OwnersHold, Owners!FifoQueue
<1>3. OwedReads \in [1 .. Len(pending) -> OwedRead]
  BY <1>1, <1>2 DEF OwedReads, OwedRead
<1>4. OwedReads \in Seq(OwedRead)
  BY <1>1, <1>3, SeqDef
<1>5. Len(OwedReads) = Len(pending)
  BY <1>1, <1>3, <1>4, LenProperties
<1> QED BY <1>1, <1>4, <1>5 DEF OwedReads, OwedReadsOK

\* What a clock takes off the reads owed and adds to them.
LEMMA OwedReadsStep ==
  ASSUME ArbInv, ArbInv', NEW i \in ArbInputs, ArbClock(i)
  PROVE  LET r == ArbTaken(i)
         IN  OwedReads' = (IF i.mem_rsp THEN Tail(OwedReads) ELSE OwedReads)
               \o (IF Reads(r) THEN <<[side |-> Side(i), line |-> mem[r.line]]>> ELSE <<>>)
<1> DEFINE r    == ArbTaken(i)
           in   == IF Reads(r) THEN 1 ELSE 0
           out  == IF i.mem_rsp THEN 1 ELSE 0
           n    == Len(pending)
           last_read == [side |-> Side(i), line |-> mem[r.line]]
           rest  == IF i.mem_rsp THEN Tail(OwedReads) ELSE OwedReads
           new   == IF Reads(r) THEN <<last_read>> ELSE <<>>
           prest == IF i.mem_rsp THEN Tail(pending) ELSE pending
           pnew  == IF Reads(r) THEN <<mem[r.line]>> ELSE <<>>
           q     == Owners!FifoQueue
<1>1. /\ pending \in Seq(Data) /\ n \in Nat /\ Owners!Count = n
      /\ mem \in [Lines -> Data]
      /\ pending' \in Seq(Data) /\ Owners!Count' = Len(pending')
  BY DEF ArbInv, ArbTypeOK
<1>2. /\ i.mem_rsp \in BOOLEAN /\ (i.mem_rsp => pending # <<>> /\ n > 0)
      /\ Reads(r) \in BOOLEAN /\ (Reads(r) => mem[r.line] \in Data /\ Side(i) \in Sides)
  <2>1. Reads(r) => r \in MemRequest
    BY ArbTakenIs
  <2>2. Reads(r) => mem[r.line] \in Data
    BY <1>1, <2>1 DEF MemRequest
  <2> QED BY <1>1, <2>2, ArbInputType, ArbTakenIs, SideIs DEF ArbClock
<1>3. n \in Nat /\ in \in {0, 1} /\ out \in {0, 1} /\ out <= n
  BY <1>1, <1>2
<1>4. /\ Owners!Count' = n + in - out
      /\ \A k \in 1 .. n - out : q'[k] = q[out + k]
      /\ in = 1 => q'[n + in - out] = Side(i)
  BY <1>1, OwnersStep
<1>5. /\ prest \in Seq(Data) /\ Len(prest) = n - out
      /\ \A k \in 1 .. n - out : prest[k] = pending[out + k]
  BY <1>1, <1>2, HeadTailProperties
<1>6. /\ pnew \in Seq(Data) /\ Len(pnew) = in /\ (in = 1 => pnew[1] = mem[r.line])
  BY <1>2
<1>7. pending' = prest \o pnew
  BY DEF ArbClock, MemoryClock
<1>8. /\ Len(pending') = n + in - out
      /\ \A k \in 1 .. n + in - out :
           pending'[k] = IF k <= n - out THEN pending[out + k] ELSE mem[r.line]
  <2> HIDE DEF prest, pnew, in, out, n, r
  <2>1. /\ Len(pending') = n - out + in
        /\ \A k \in 1 .. n - out + in :
             pending'[k] = IF k <= n - out THEN prest[k] ELSE pnew[k - (n - out)]
    <3>1. /\ Len(prest \o pnew) = Len(prest) + Len(pnew)
          /\ \A k \in 1 .. Len(prest) + Len(pnew) :
               (prest \o pnew)[k] = IF k <= Len(prest) THEN prest[k] ELSE pnew[k - Len(prest)]
      BY <1>5, <1>6, ConcatProperties, Zenon
    <3>2. Len(prest) = n - out /\ Len(pnew) = in
      BY <1>5, <1>6
    <3> QED BY <1>7, <3>1, <3>2
  <2>2. ASSUME NEW k \in 1 .. n + in - out
        PROVE  pending'[k] = IF k <= n - out THEN pending[out + k] ELSE mem[r.line]
    <3>1. k \in 1 .. n - out + in
      BY <1>1, <1>3
    <3>2. CASE k <= n - out
      BY <1>1, <1>3, <1>5, <2>1, <3>1, <3>2
    <3>3. CASE n - out < k
      <4>1. k - (n - out) = 1 /\ in = 1
        BY <1>1, <1>3, <3>1, <3>3
      <4> QED BY <1>1, <1>3, <1>6, <2>1, <3>1, <3>3, <4>1
    <3> QED BY <1>1, <1>3, <3>1, <3>2, <3>3
  <2> QED BY <1>1, <1>3, <2>1, <2>2
<1>9. /\ OwedReads \in Seq(OwedRead) /\ Len(OwedReads) = n
      /\ \A k \in 1 .. n : OwedReads[k] = [side |-> q[k], line |-> pending[k]]
  BY OwedReadsAre DEF OwedReadsOK
<1>10. /\ rest \in Seq(OwedRead) /\ Len(rest) = n - out
       /\ \A k \in 1 .. n - out : rest[k] = OwedReads[out + k]
  <2>1. i.mem_rsp => OwedReads # <<>>
    BY <1>2, <1>9
  <2> HIDE DEF OwedReads, n
  <2> QED BY <1>1, <1>2, <1>9, <2>1, HeadTailProperties
<1>11. /\ new \in Seq(OwedRead) /\ Len(new) = in /\ (in = 1 => new[1] = last_read)
  <2>1. Reads(r) => last_read \in OwedRead
    BY <1>2 DEF OwedRead
  <2> HIDE DEF last_read, OwedRead
  <2>2. Reads(r) => /\ <<last_read>> \in Seq(OwedRead) /\ Len(<<last_read>>) = 1
                    /\ <<last_read>>[1] = last_read
    BY <2>1
  <2>3. <<>> \in Seq(OwedRead) /\ Len(<<>>) = 0
    OBVIOUS
  <2> QED BY <1>2, <2>2, <2>3
<1>12. /\ OwedReads' \in Seq(OwedRead) /\ Len(OwedReads') = n + in - out
       /\ \A k \in 1 .. n + in - out :
            OwedReads'[k] = [side |-> q'[k], line |-> pending'[k]]
  <2>1. /\ OwedReads' \in Seq(OwedRead) /\ Len(OwedReads') = Len(pending')
        /\ \A k \in 1 .. Len(pending') : OwedReads'[k] = [side |-> q'[k], line |-> pending'[k]]
    <3>1. OwedReadsOK'
      BY OwedReadsAre, PTL
    <3> QED BY <3>1 DEF OwedReadsOK
  <2>2. Len(pending') = n + in - out
    BY <1>8
  <2> HIDE DEF n, in, out, q
  <2> QED BY <2>1, <2>2
<1> HIDE DEF r, in, out, n, last_read, rest, new, prest, pnew, q
<1>13. /\ rest \o new \in Seq(OwedRead) /\ Len(rest \o new) = n - out + in
       /\ \A k \in 1 .. n - out + in :
            (rest \o new)[k] = IF k <= n - out THEN rest[k] ELSE new[k - (n - out)]
  <2>1. /\ rest \o new \in Seq(OwedRead) /\ Len(rest \o new) = Len(rest) + Len(new)
        /\ \A k \in 1 .. Len(rest) + Len(new) :
             (rest \o new)[k] = IF k <= Len(rest) THEN rest[k] ELSE new[k - Len(rest)]
    BY <1>10, <1>11, ConcatProperties, Zenon
  <2>2. Len(rest) = n - out /\ Len(new) = in
    BY <1>10, <1>11
  <2> QED BY <2>1, <2>2
<1>14. ASSUME NEW k \in 1 .. n + in - out
       PROVE  OwedReads'[k] = (rest \o new)[k]
  <2>1. k \in 1 .. n - out + in
    BY <1>1, <1>3
  <2>2. CASE k <= n - out
    <3>1. k \in 1 .. n - out /\ out + k \in 1 .. n
      BY <1>1, <1>3, <2>1, <2>2
    <3>2. OwedReads[out + k] = [side |-> q[out + k], line |-> pending[out + k]]
      BY <1>9, <3>1
    <3>3. q'[k] = q[out + k] /\ pending'[k] = pending[out + k]
      BY <1>4, <1>8, <2>2, <3>1
    <3>4. (rest \o new)[k] = OwedReads[out + k]
      BY <1>10, <1>13, <2>1, <2>2, <3>1
    <3> QED BY <1>12, <3>2, <3>3, <3>4
  <2>3. CASE n - out < k
    <3>1. in = 1 /\ k = n + in - out /\ k - (n - out) = 1 /\ ~ (k <= n - out)
      BY <1>1, <1>3, <2>1, <2>3
    <3>2. q'[k] = Side(i) /\ pending'[k] = mem[r.line]
      BY <1>4, <1>8, <3>1
    <3>3. (rest \o new)[k] = last_read
      BY <1>11, <1>13, <2>1, <3>1
    <3> QED BY <1>12, <3>2, <3>3 DEF last_read
  <2>4. k <= n - out \/ n - out < k
    BY <1>3
  <2> QED BY <2>2, <2>3, <2>4
<1>15. n - out + in = n + in - out
  BY <1>3
<1>16. OwedReads' = rest \o new
  BY <1>12, <1>13, <1>14, <1>15, SeqEqual
<1> QED BY <1>16 DEF rest, new, last_read, r

\* Which request of SharedMemory's a clock does, and which read it answers.
Done(i)     == IF ArbTaken(i) = None THEN None ELSE Side(i)
Given(i)    == IF i.mem_rsp THEN 1 ELSE 0
Offering(i) == [s \in Sides |-> IF s = "insn" THEN i.insn ELSE i.data]

LEMMA OfferingIs ==
  ASSUME ArbInv, NEW i \in ArbInputs
  PROVE  /\ Offering(i) \in Shared!Offers
         /\ Done(i) \in Sides \cup {None}
         /\ \A s \in Sides : Shared!Offered(Offering(i), s) = Asks(i, s)
         /\ Done(i) # None => Asks(i, Done(i)) = ArbTaken(i) /\ ArbTaken(i) # None
         /\ \A s \in Sides : s = Done(i) <=> SideReady(i, s)
<1>1. Side(i) \in Sides /\ None \notin Sides
  BY SideIs, ArbiterAssumption
<1>2. Offering(i) \in Shared!Offers
  <2> DEFINE all == (UNION {SideRequests(s) : s \in Sides}) \cup {None}
  <2>1. i.insn \in all /\ i.data \in all
    BY ArbInputType DEF Sides, SideRequests
  <2>2. Offering(i) \in [Sides -> all]
    BY <2>1 DEF Offering
  <2>3. \A s \in Sides : Offering(i)[s] \in SideRequests(s) \cup {None}
    BY ArbInputType DEF Offering, Sides, SideRequests
  <2> QED BY <2>2, <2>3 DEF Shared!Offers, SideRequests
<1>3. \A s \in Sides : Shared!Offered(Offering(i), s) = Asks(i, s)
  BY AsksIs DEF Shared!Offered, Offering
<1>4. Done(i) # None => Asks(i, Done(i)) = ArbTaken(i) /\ ArbTaken(i) # None
  BY ArbTakenIs, ArbReqIs DEF Done
<1>5. ASSUME NEW s \in Sides PROVE s = Done(i) <=> SideReady(i, s)
  <2>1. MayGo(i, s) => Asks(i, s) # None
    BY ArbReqIs
  <2>2. s = Side(i) /\ i.mem_ready /\ MayGo(i, s) => ArbTaken(i) # None
    BY <2>1 DEF ArbTaken, ArbReq
  <2>3. ArbTaken(i) # None => i.mem_ready /\ MayGo(i, Side(i))
    BY ArbTakenIs, ArbReqIs
  <2> QED BY <1>1, <2>2, <2>3 DEF Done, SideReady
<1> QED BY <1>1, <1>2, <1>3, <1>4, <1>5 DEF Done

\* The answer of a clock is that of the oldest read of its side.
LEMMA GivenIs ==
  ASSUME ArbInv, NEW i \in ArbInputs, ArbClock(i)
  PROVE  /\ Given(i) \in {0} \cup DOMAIN OwedReads
         /\ Shared!Answered(Given(i))
         /\ Shared!Without(Given(i)) = IF i.mem_rsp THEN Tail(OwedReads) ELSE OwedReads
<1>1. /\ OwedReads \in Seq(OwedRead) /\ Len(OwedReads) = Len(pending)
      /\ DOMAIN OwedReads = 1 .. Len(pending)
      /\ \A k \in 1 .. Len(pending) :
           OwedReads[k] = [side |-> Owners!FifoQueue[k], line |-> pending[k]]
  BY OwedReadsAre DEF OwedReadsOK
<1>2. /\ Len(pending) \in Nat /\ i.mem_rsp \in BOOLEAN
      /\ i.mem_rsp => pending # <<>> /\ Len(pending) > 0 /\ Head(pending) = pending[1]
  <2>1. pending \in Seq(Data) /\ (i.mem_rsp => pending # <<>>)
    BY DEF ArbInv, ArbTypeOK, ArbClock
  <2> QED BY <2>1, ArbInputType
<1>3. CASE i.mem_rsp
  <2>1. Given(i) = 1 /\ 1 \in DOMAIN OwedReads
    BY <1>1, <1>2, <1>3 DEF Given
  <2>2. OwedReads[1].side = Owner /\ OwedReads[1].line = Head(pending) /\ Owner \in Sides
    BY <1>1, <1>2, <1>3, OwnersStep
  <2>3. answered' = Owner /\ answer' = Head(pending)
    BY <1>3 DEF ArbClock, Answer
  <2>4. AnswerTo' = [s \in Sides |-> IF OwedReads[1].side = s THEN OwedReads[1].line ELSE None]
    BY <2>2, <2>3 DEF AnswerTo
  <2>5. Shared!IsFirst(1)
    BY DEF Shared!IsFirst
  <2>6. Shared!Answered(1)
    BY <2>4, <2>5 DEF Shared!Answered
  <2>7. Shared!Without(1) = Tail(OwedReads)
    <3>1. SubSeq(OwedReads, 1, 1 - 1) = <<>>
      BY SubSeqEmpty
    <3>2. OwedReads # <<>>
      BY <1>1, <1>2, <1>3
    <3>3. Tail(OwedReads) = SubSeq(OwedReads, 1 + 1, Len(OwedReads)) /\ Tail(OwedReads) \in Seq(OwedRead)
      BY <1>1, <3>2, TailIsSubSeq, HeadTailProperties
    <3>4. <<>> \o Tail(OwedReads) = Tail(OwedReads)
      BY <3>3, ConcatEmptySeq
    <3> QED BY <3>1, <3>3, <3>4 DEF Shared!Without
  <2> QED BY <1>3, <2>1, <2>6, <2>7
<1>4. CASE ~ i.mem_rsp
  <2>1. Given(i) = 0 /\ answered' = None
    BY <1>4 DEF Given, ArbClock, Answer
  <2>2. AnswerTo' = [s \in Sides |-> None]
    BY <2>1, ArbiterAssumption DEF AnswerTo
  <2> QED BY <1>4, <2>1, <2>2 DEF Shared!Answered, Shared!Without
<1> QED BY <1>2, <1>3, <1>4

LEMMA SharedInitIs == ArbInit => Shared!SharedInit
<1> SUFFICES ASSUME ArbInit PROVE Shared!SharedInit
  OBVIOUS
<1>1. mem \in [Lines -> Data] /\ pending = <<>> /\ answered = None
      /\ i_full = FALSE /\ d_full = FALSE
  BY DEF ArbInit, MemoryInit
<1>2. Waiting = [s \in Sides |-> None] /\ AnswerTo = [s \in Sides |-> None]
  BY <1>1, ArbiterAssumption DEF Waiting, AnswerTo
<1>3. OwedReads = <<>>
  <2>1. ArbInv
    BY ArbInitInvariant
  <2>2. OwedReads \in Seq(OwedRead) /\ Len(OwedReads) = 0
    BY <1>1, <2>1, OwedReadsAre DEF OwedReadsOK
  <2> QED BY <2>2, EmptySeq
<1> QED BY <1>1, <1>2, <1>3 DEF Shared!SharedInit

\* A clock of the arbiter is a step of the memory the two caches share.
LEMMA SharedStep ==
  ArbInv /\ ArbInv' /\ [ArbNext]_arbVars => [Shared!SharedNext]_(Shared!sharedVars)
<1>1. ASSUME ArbInv, ArbInv', NEW i \in ArbInputs, ArbClock(i) PROVE Shared!SharedNext
  <2> DEFINE r    == ArbTaken(i)
             done == Done(i)
             req  == IF done = None THEN None ELSE Shared!Offered(Offering(i), done)
  <2>1. /\ Offering(i) \in Shared!Offers /\ done \in Sides \cup {None} /\ None \notin Sides
        /\ \A s \in Sides : Shared!Offered(Offering(i), s) = Asks(i, s)
        /\ \A s \in Sides : s = done <=> SideReady(i, s)
    BY <1>1, OfferingIs, ArbiterAssumption
  <2>2. req = r
    <3>1. done = None => r = None
      BY <1>1, <2>1, SideIs DEF Done
    <3>2. done # None => done \in Sides /\ Asks(i, done) = r
      BY <1>1, <2>1, OfferingIs
    <3> HIDE DEF done, r
    <3> QED BY <2>1, <3>1, <3>2
  <2>3. Waiting' = [s \in Sides |-> IF s = done THEN None ELSE Shared!Offered(Offering(i), s)]
    <3>1. \A s \in Sides : Waiting'[s] = IF SideReady(i, s) THEN None ELSE Asks(i, s)
      BY <1>1, WaitingStep
    <3>2. Waiting' = [s \in Sides |-> Waiting'[s]]
      BY DEF Waiting
    <3> HIDE DEF done
    <3> QED BY <2>1, <3>1, <3>2
  <2>4. mem' = IF r = None THEN mem ELSE [mem EXCEPT ![r.line] = After(r, @)]
    BY <1>1 DEF ArbClock, MemoryClock
  <2>5. OwedReads' = Shared!Without(Given(i))
          \o (IF Reads(r) THEN <<[side |-> done, line |-> mem[r.line]]>> ELSE <<>>)
    <3>1. Reads(r) => done = Side(i)
      BY <1>1, ArbTakenIs DEF Done
    <3>2. OwedReads' = (IF i.mem_rsp THEN Tail(OwedReads) ELSE OwedReads)
            \o (IF Reads(r) THEN <<[side |-> Side(i), line |-> mem[r.line]]>> ELSE <<>>)
      BY <1>1, OwedReadsStep
    <3>3. Shared!Without(Given(i)) = IF i.mem_rsp THEN Tail(OwedReads) ELSE OwedReads
      BY <1>1, GivenIs
    <3> HIDE DEF done, r
    <3> QED BY <3>1, <3>2, <3>3
  <2>6. done # None => r # None
    BY DEF Done
  <2>7. Shared!Does(Offering(i), done, Given(i))
    <3> HIDE DEF done, r
    <3> QED BY <2>2, <2>3, <2>4, <2>5, <2>6 DEF Shared!Does
  <2>8. Given(i) \in {0} \cup DOMAIN OwedReads /\ Shared!Answered(Given(i))
    BY <1>1, GivenIs
  <2> HIDE DEF done
  <2> QED BY <2>1, <2>7, <2>8 DEF Shared!SharedNext
<1>2. ASSUME UNCHANGED arbVars PROVE UNCHANGED Shared!sharedVars
  BY <1>2 DEF arbVars, memoryVars, sideVars, ownerVars, Shared!sharedVars, Waiting, OwedReads,
     AnswerTo, Owners!FifoQueue, Owners!Count, Owners!Wrap
<1> QED BY <1>1, <1>2 DEF ArbNext

\* Seen from the two caches there is one memory, for every depth of the queue of
\* owners, policy, prio and latency: each side's requests are done in its order,
\* each read is answered once, to the side that asked.
THEOREM ArbiterSharesMemory == ArbSpec => RefinesSharedMemory
  BY ArbInvariant, SharedInitIs, SharedStep, PTL
     DEF ArbSpec, RefinesSharedMemory, Shared!SharedSpec
=============================================================================
