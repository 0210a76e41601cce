------------------------ MODULE InsnDataCacheArbiter ------------------------
(***************************************************************************)
(* InsnDataCacheArbiter: the memory sides of an instruction cache and of a *)
(* data cache, brought to one LatencyMemory.  Each side's request comes    *)
(* through a FlowThroughBuffer; a Fifo keeps the side of every read that   *)
(* memory took and has not answered.                                       *)
(*                                                                         *)
(* One step is one clock edge.  The inputs of a clock are a record i: what *)
(* each cache offers (or None), prio, mem_ready and mem_rsp.               *)
(***************************************************************************)
EXTENDS LatencyMemory

CONSTANTS
  InsnRequests, DataRequests,  \* the requests of the two caches
  Policy,                      \* POLICY: a tie when prio does not decide
  Prios,                       \* the values prio takes
  Depth                        \* 1 << PENDING_WIDTH, the entries of the Fifo

Sides == {"insn", "data"}

ASSUME ArbiterAssumption ==
  /\ InsnRequests \cup DataRequests \subseteq MemRequests
  /\ \A r \in InsnRequests : r.op = "load"
  /\ \A r \in DataRequests : r.op \in {"load", "store"}   \* mem_req_we
  /\ Policy \in {"data_first", "insn_first", "round_robin"}
  /\ Prios \subseteq {"none", "data", "insn"}             \* a_prio_known
  /\ Depth \in Nat \ {0} /\ \E w \in 1 .. Depth : Depth = 2 ^ w
  /\ None \notin Sides

VARIABLES
  i_full, i_entry, d_full, d_entry,  \* the two FlowThroughBuffers
  hold, held_side,                   \* hold_q, side_q: a request not taken stays
  last,                              \* last_q: the side memory took from last
  entries, wr_ptr, rd_ptr,           \* the Fifo of the sides of the reads
  presented,                         \* mem_req in the last clock, or None
  answered                           \* the side of the last clock's answer, or None

sideVars == <<i_full, i_entry, d_full, d_entry>>
ownerVars == <<entries, wr_ptr, rd_ptr>>
arbVars == <<memoryVars, sideVars, ownerVars, hold, held_side, last, presented, answered>>

InsnBuf == INSTANCE FlowThroughBuffer
  WITH full <- i_full, entry <- i_entry, Items <- InsnRequests, put <- None, got <- None
DataBuf == INSTANCE FlowThroughBuffer
  WITH full <- d_full, entry <- d_entry, Items <- DataRequests, put <- None, got <- None
Owners == INSTANCE Fifo WITH Items <- Sides

ArbInputs ==
  [insn: InsnRequests \cup {None}, data: DataRequests \cup {None}, prio: Prios,
   mem_ready: BOOLEAN, mem_rsp: BOOLEAN]

-----------------------------------------------------------------------------
\* What each side asks for, behind its buffer.
Asks(i, s) == IF s = "insn" THEN InsnBuf!OutData(i.insn) ELSE DataBuf!OutData(i.data)

\* Mutant of MayGo: a read goes although the Fifo has no room for its side.
MayGoFull(i, s) == Asks(i, s) # None
\* i_ok, d_ok: a read goes only while the Fifo has room for its side.
MayGo(i, s) == IF Asks(i, s) = None THEN FALSE ELSE Asks(i, s).op = "store" \/ ~Owners!Full

Other(s) == IF s = "insn" THEN "data" ELSE "insn"

\* Who gets memory when prio does not say and both ask.
\* Mutant of PolicySide: round robin stays with the side served last.
PolicySideAgain ==
  CASE Policy = "data_first" -> "data" [] Policy = "insn_first" -> "insn" [] OTHER -> last
PolicySide ==
  CASE Policy = "data_first" -> "data" [] Policy = "insn_first" -> "insn" [] OTHER -> Other(last)

TieWinner(prio) == IF prio = "none" THEN PolicySide ELSE prio

Choice(i) ==
  IF MayGo(i, "insn") /\ MayGo(i, "data") THEN TieWinner(i.prio)
  ELSE IF MayGo(i, "data") THEN "data" ELSE "insn"

\* Mutant of Side: the hold is left out.
SideFree(i) == Choice(i)
Side(i) == IF hold THEN held_side ELSE Choice(i)

ArbReq(i)   == IF MayGo(i, Side(i)) THEN Asks(i, Side(i)) ELSE None
ArbTaken(i) == IF i.mem_ready THEN ArbReq(i) ELSE None
Owner       == Owners!DataOut

\* i_ready, d_ready, towards the buffers.
SideReady(i, s) == i.mem_ready /\ Side(i) = s /\ MayGo(i, s)

\* Mutant of Answer: the answer goes to the side of the request of this clock.
AnswerSide(i) ==
  /\ answer' = IF i.mem_rsp THEN Head(pending) ELSE None
  /\ answered' = IF i.mem_rsp THEN Side(i) ELSE None
Answer(i) ==
  /\ answer' = IF i.mem_rsp THEN Head(pending) ELSE None
  /\ answered' = IF i.mem_rsp THEN Owner ELSE None

ArbClock(i) ==
  /\ i.mem_rsp => pending # <<>>
  /\ i.mem_ready => SlotFree(i.mem_rsp)
  /\ InsnBuf!FlowStep(i.insn, SideReady(i, "insn"))
  /\ DataBuf!FlowStep(i.data, SideReady(i, "data"))
  /\ hold' = (ArbReq(i) # None /\ ~i.mem_ready)
  /\ held_side' = Side(i)
  /\ last' = (IF ArbTaken(i) # None THEN Side(i) ELSE last)
  /\ Owners!FifoStep(IF Reads(ArbTaken(i)) THEN Side(i) ELSE None, i.mem_rsp)
  /\ Answer(i)
  /\ presented' = ArbReq(i)
  /\ MemoryClock(ArbTaken(i), i.mem_rsp)

ArbNext == \E i \in ArbInputs : ArbClock(i)

ArbInit ==
  /\ MemoryInit
  /\ i_full = FALSE /\ i_entry \in InsnRequests \cup {None}
  /\ d_full = FALSE /\ d_entry \in DataRequests \cup {None}
  /\ hold = FALSE /\ held_side = "insn" /\ last = "data"
  /\ Owners!FifoInit
  /\ presented = None /\ answered = None

ArbSpec == ArbInit /\ [][ArbNext]_arbVars

-----------------------------------------------------------------------------
(* What the arbiter promises *)

\* Every register holds a value of its type; the Fifo has one entry for each
\* read in memory, so that an answer always has an owner (a_answer_expected).
ArbTypeOK ==
  /\ mem \in [Lines -> Data] /\ pending \in Seq(Data) /\ answer \in Data \cup {None}
  /\ i_full \in BOOLEAN /\ i_entry \in InsnRequests \cup {None}
  /\ d_full \in BOOLEAN /\ d_entry \in DataRequests \cup {None}
  /\ hold \in BOOLEAN /\ {held_side, last} \subseteq Sides
  /\ Owners!FifoTypeOK
  /\ answered \in Sides \cup {None}
  /\ Owners!Count = Len(pending)

\* A request presented to memory and not taken is presented unchanged in the
\* next clock, whatever prio, the other side and the answers do
\* (a_mem_req_held).
RequestHeld == [][hold => presented' = presented]_arbVars

\* Seen from the two caches there is one memory: each side's requests are done
\* in its order, each read answered once and to the side that asked.
Waiting == [s \in Sides |->
  IF s = "insn" THEN (IF i_full THEN i_entry ELSE None)
  ELSE (IF d_full THEN d_entry ELSE None)]

\* The reads in memory with their owners.
OwedReads == [k \in DOMAIN pending |-> [side |-> Owners!FifoQueue[k], line |-> pending[k]]]

AnswerTo == [s \in Sides |-> IF answered = s THEN answer ELSE None]

Shared == INSTANCE SharedMemory
  WITH Requests <- [s \in Sides |-> IF s = "insn" THEN InsnRequests ELSE DataRequests],
       Apply <- After, Answers <- Reads,
       wait <- Waiting, owed <- OwedReads, got <- AnswerTo

RefinesSharedMemory == Shared!SharedSpec

\* A clock in which memory is ready and answers what it owes.
MemoryDoes(insn, data) ==
  \E i \in ArbInputs :
    /\ i.insn \in insn /\ i.data \in data
    /\ i.mem_ready /\ (i.mem_rsp <=> pending # <<>>)
    /\ ArbClock(i)

\* Memory does so again and again; the caches may do as they like.
ArbMemoryFair ==
  WF_arbVars(/\ ENABLED <<MemoryDoes({None}, {None})>>_arbVars
          /\ MemoryDoes(InsnRequests \cup {None}, DataRequests \cup {None}))

\* Once prio stays none, with round robin no side waits for good: its request
\* leaves its buffer however much the other side asks, and also when reads are
\* blocked by a full Fifo while the data cache's writes go on.
PrioNone == \E i \in ArbInputs : i.prio = "none" /\ ArbClock(i)

NoStarvation ==
  <>[][PrioNone]_arbVars => \A s \in Sides : []<>(Waiting[s] = None)
=============================================================================
