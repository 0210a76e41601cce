---------------------------- MODULE CacheControl ----------------------------
(***************************************************************************)
(* CacheControl, the control of a write-through, no-write-allocate cache   *)
(* that DirectCache, SetAssocCache and SkewedCache share: it takes the     *)
(* CPU's requests, asks memory and answers.  The ways are another module's *)
(* (DirectCache, SkewedCache): they give this one "hit" for the lookup and *)
(* "conflict" when the request is at the place the refill writes.          *)
(*                                                                         *)
(* One step is one clock edge.  The inputs of a clock are a record i: the  *)
(* request offered (or None), mem_ready, mem_rsp and invalidate.  The      *)
(* wires of the block are operators of the registers, i and hit.           *)
(***************************************************************************)
EXTENDS LatencyMemory

VARIABLES
  look,         \* a request taken before is looked up (or held)
  looked,       \* that request: look_line, look_we, look_wdata, look_wstrb, ...
  replay,       \* the lookup reads its RAMs again: no hit, no miss
  waiting,      \* a load miss is served: memory has not answered yet
  wait_nocache, \* the read served fills no line
  unc_waiting   \* memory took an uncached read and has not answered yet

controlVars == <<look, looked, replay, waiting, wait_nocache, unc_waiting>>

\* How a request reaches memory: through a line, as asked after a lookup
\* (req_nocache) or past the lookup (req_uncached_dbg_bypass).
Paths == {"cached", "nocache", "bypass"}

\* The CPU keeps its side of the contract: an address is used cached or
\* uncached, never both, and the CPU decides it from the address.  What a load
\* does not use is fixed: its data, and the bytes asked for when a line moves.
NoData == CHOOSE d \in Data : TRUE

Request ==
  { r \in [line: Lines, op: {"load", "store", "atomic"}, path: Paths,
           bytes: SUBSET Bytes, data: Data] :
      /\ (r.path = "cached") <=> (r.line \notin Devices)
      /\ r.op = "load" => r.data = NoData
      /\ (r.op = "load" /\ r.path = "cached") => r.bytes = Bytes }

CONSTANT Requests   \* the requests this CPU makes

\* The inputs of a clock: a request, offered or withdrawn freely, and memory's.
Inputs ==
  [req: Requests \cup {None}, mem_ready: BOOLEAN, mem_rsp: BOOLEAN,
   invalidate: BOOLEAN]

-----------------------------------------------------------------------------
Bypasses(r)  == IF r = None THEN FALSE ELSE r.path = "bypass"
LooksUp(r)   == IF r = None THEN FALSE ELSE r.path # "bypass"
Exact(r)     == r.path # "cached" \/ r.op = "atomic"    \* look_exact, or unc_pass

UncBusy(i)   == unc_waiting /\ ~i.mem_rsp
\* Mutant of Idle: an uncached request passes a store that waits in look.
IdlePastLook(i) == ~waiting /\ ~UncBusy(i)
Idle(i)      == ~look /\ ~waiting /\ ~UncBusy(i)
UncPass(i)   == Bypasses(i.req) /\ Idle(i)

LookOk         == look /\ ~replay
Store          == LookOk /\ looked.op = "store"
LoadHit(hit)   == LookOk /\ looked.op = "load" /\ hit
LoadMiss(hit)  == LookOk /\ looked.op # "store" /\ (~hit \/ looked.op = "atomic")
LookReq(hit)   == Store \/ LoadMiss(hit)
Held(i, hit)   == LookReq(hit) /\ ~i.mem_ready
Served(i, hit) == LoadMiss(hit) /\ i.mem_ready

ReadyCached(i, hit) ==
  /\ ~(waiting /\ ~i.mem_rsp)
  /\ ~replay
  /\ ~LoadMiss(hit)
  /\ ~Held(i, hit)
  /\ ~UncBusy(i)

\* Mutant of Accept: req_valid is left out.
AcceptAlways(i, hit) == ReadyCached(i, hit) /\ ~Bypasses(i.req)
Accept(i, hit) == LooksUp(i.req) /\ ReadyCached(i, hit)

\* What goes to memory: a line for a cached load, else what was asked.
AsMemory(r) ==
  [line |-> r.line, op |-> r.op, data |-> r.data,
   bytes |-> IF Exact(r) \/ r.op = "store" THEN r.bytes ELSE Bytes]

MemReq(i, hit) ==
  IF UncPass(i) THEN AsMemory(i.req)
  ELSE IF LookReq(hit) THEN AsMemory(looked)
  ELSE None

MemTaken(i, hit) == IF i.mem_ready THEN MemReq(i, hit) ELSE None

\* To the ways: what they write.
Answered(i)        == waiting /\ i.mem_rsp
Refill(i)          == Answered(i) /\ ~wait_nocache
StoreWrite(i, hit) == Store /\ hit /\ i.mem_ready
MissTaken(i, hit)  == Served(i, hit) /\ ~Exact(looked)
\* Mutant of Drop: the line an atomic changes in memory stays in the cache.
DropNever(i, hit)  == FALSE
Drop(i, hit)       == Served(i, hit) /\ looked.op = "atomic" /\ hit
\* Mutant of RamRd: the RAMs read whenever a request is offered.
RamRdOffered(i, hit) == LooksUp(i.req) \/ replay
RamRd(i, hit)      == Accept(i, hit) \/ replay
Merged(hit_line)   == Merge(hit_line, looked.data, looked.bytes)

ASSUME RequestsAssumption ==
  /\ Requests \subseteq Request
  /\ None \notin Request
  /\ \A r \in Requests : AsMemory(r) \in MemRequests

\* The answer to the CPU.
\* Mutant of RspValid: the answer of an uncached read is not passed on.
RspValidCached(i, hit) == LoadHit(hit) \/ Answered(i)
RspValid(i, hit) == LoadHit(hit) \/ Answered(i) \/ (unc_waiting /\ i.mem_rsp)
RspData(hit_line) == IF waiting \/ unc_waiting THEN Head(pending) ELSE hit_line

-----------------------------------------------------------------------------
\* The registers, and memory, over one clock.
ControlStep(i, hit, hit_line, conflict) ==
  /\ look' = (Accept(i, hit) \/ Held(i, hit) \/ replay)
  /\ looked' = IF Accept(i, hit) THEN i.req ELSE looked
  /\ replay' = (Accept(i, hit) /\ Refill(i) /\ conflict)
  /\ waiting' = (Served(i, hit) \/ (waiting /\ ~i.mem_rsp))
  /\ wait_nocache' = IF Served(i, hit) THEN Exact(looked) ELSE wait_nocache
  /\ unc_waiting' = \/ UncPass(i) /\ i.mem_ready /\ i.req.op # "store"
                    \/ UncBusy(i)
  /\ answer' = IF RspValid(i, hit) THEN RspData(hit_line) ELSE None
  /\ MemoryClock(MemTaken(i, hit), i.mem_rsp)

\* Inputs a clock may have: memory answers a read it has, is ready only with
\* a free slot; invalidate comes while no load miss is served.
LegalInputs(i) ==
  /\ i.mem_rsp => pending # <<>>
  /\ i.mem_ready => SlotFree(i.mem_rsp)
  /\ i.invalidate => ~waiting

\* After reset; the registers without reset hold anything, which look, waiting
\* and replay hide: one value stands for all.
ControlInit ==
  /\ MemoryInit
  /\ look = FALSE /\ replay = FALSE /\ waiting = FALSE /\ unc_waiting = FALSE
  /\ wait_nocache \in BOOLEAN
  /\ looked \in Request

ControlTypeOK ==
  /\ mem \in [Lines -> Data]
  /\ pending \in Seq(Data)
  /\ answer \in Data \cup {None}
  /\ looked \in Request
  /\ {look, replay, waiting, wait_nocache, unc_waiting} \subseteq BOOLEAN

-----------------------------------------------------------------------------
(* What every cache around this control promises its CPU.                  *)

\* Seen from the CPU, cache and memory are one memory that does the requests
\* in the order in which they are taken: each load is answered once, in order,
\* with the value that order gives, and each device access happens once.
ArchMem ==
  IF look THEN [mem EXCEPT ![looked.line] = After(AsMemory(looked), @)] ELSE mem

Owed ==
  pending \o (IF look /\ looked.op # "store" THEN <<mem[looked.line]>> ELSE <<>>)

Serial == INSTANCE LatencyMemory WITH mem <- ArchMem, pending <- Owed

RefinesMemory == Serial!MemorySpec
=============================================================================
