--------------------------- MODULE LatencyMemory ---------------------------
(***************************************************************************)
(* The memory behind a cache: SimLatencyRAM (src/rtl/lib/sim), a RAM with  *)
(* a request channel and answers of any latency of one clock or more.      *)
(*                                                                         *)
(* One step is one clock.  A request does its work at the edge at which it *)
(* is taken: a write writes, a read keeps the line as it is then until its *)
(* answer is due.  Answers go out in the order of the reads.               *)
(*                                                                         *)
(* Two things further down than SimLatencyRAM are part of the model, for   *)
(* the requests the caches send: an atomic is a read that also writes      *)
(* op(old, operand) (AtomicUnit, at the point of coherence, does it), and  *)
(* a read of a device's line changes exactly the bytes it asks for         *)
(* (ReadEffect), so that a repeated, a lost or a too wide access shows.    *)
(***************************************************************************)
EXTENDS Naturals, Sequences

CONSTANTS
  Lines,       \* line addresses
  Devices,     \* those that belong to devices and may not be cached
  Bytes,       \* the bytes of a line
  Values,      \* the values of a byte
  ReadEffect,  \* what a byte of a device becomes when it is read
  AtomicOp,    \* AtomicOp[<<old, operand>>]: what an atomic writes
  MaxPending,  \* reads that may wait for their answers (MAX_PENDING)
  MemRequests, \* the requests that come to it
  None         \* no request, no answer

Data == [Bytes -> Values]

ASSUME MemoryAssumption ==
  /\ Devices \subseteq Lines
  /\ ReadEffect \in [Values -> Values]
  /\ AtomicOp \in [Data \X Data -> Data]
  /\ MaxPending \in Nat \ {0}
  /\ None \notin Data

\* A request as memory sees it: "bytes" are a write's strobes, or what the
\* address and the size of a read ask for.
MemRequest ==
  [line: Lines, op: {"load", "store", "atomic"}, bytes: SUBSET Bytes, data: Data]

ASSUME MemRequestsAssumption == MemRequests \subseteq MemRequest /\ None \notin MemRequest

VARIABLES
  mem,      \* the line at each address
  pending,  \* lines read and not answered yet, the oldest first
  answer    \* what the last clock answered: a line, or None

memoryVars == <<mem, pending, answer>>

Merge(old, new, strb) == [b \in Bytes |-> IF b \in strb THEN new[b] ELSE old[b]]

Touched(old, bytes) ==
  [b \in Bytes |-> IF b \in bytes THEN ReadEffect[old[b]] ELSE old[b]]

\* What request r writes into the bytes it has.
Written(r, old) == IF r.op = "atomic" THEN AtomicOp[<<old, r.data>>] ELSE r.data

\* The line at r.line once request r is done.
After(r, old) ==
  IF r.op # "load" THEN Merge(old, Written(r, old), r.bytes)
  ELSE IF r.line \in Devices THEN Touched(old, r.bytes)
  ELSE old

Reads(r) == IF r = None THEN FALSE ELSE r.op # "store"

\* req_ready may be 1: there is a slot for a read, perhaps the one that this
\* clock's answer frees.
SlotFree(rsp) == Len(pending) < MaxPending \/ rsp

\* One clock: take the request r (or None), answer the oldest read when rsp.
MemoryClock(r, rsp) ==
  /\ rsp => pending # <<>>
  /\ r # None => SlotFree(rsp)
  /\ mem' = IF r = None THEN mem ELSE [mem EXCEPT ![r.line] = After(r, @)]
  /\ pending' = (IF rsp THEN Tail(pending) ELSE pending)
                  \o (IF Reads(r) THEN <<mem[r.line]>> ELSE <<>>)

MemoryInit ==
  /\ mem \in [Lines -> Data]
  /\ pending = <<>>
  /\ answer = None

-----------------------------------------------------------------------------
(* The memory by itself, seen from its channel: what every cache in front  *)
(* of it has to look like to the CPU (refined by DirectCache, SkewedCache). *)

MemoryNext ==
  \E rsp \in BOOLEAN :
    /\ rsp => pending # <<>>
    /\ answer' = IF rsp THEN Head(pending) ELSE None
    /\ \E r \in MemRequests \cup {None} : MemoryClock(r, rsp)

MemorySpec == MemoryInit /\ [][MemoryNext]_memoryVars
=============================================================================
