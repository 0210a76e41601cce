----------------------------- MODULE AtomicUnit -----------------------------
(***************************************************************************)
(* AtomicUnit: atomic memory operations in front of a LatencyMemory that   *)
(* has none.  A load or a store passes straight through; an atomic is      *)
(* taken into registers and done as a read (READ), the answer, which is    *)
(* passed on (WAIT), and a write of op(old, operand) (WRITE).              *)
(*                                                                         *)
(* One step is one clock edge.  The inputs of a clock are a record i: the  *)
(* request offered (or None), mem_ready and mem_rsp.                       *)
(***************************************************************************)
EXTENDS LatencyMemory

CONSTANTS
  Requests,      \* the requests offered to the unit
  PendingLimit   \* 1 << PENDING_WIDTH reads in memory at most

ASSUME AtomicAssumption ==
  /\ Requests \subseteq MemRequest /\ None \notin MemRequest
  /\ PendingLimit \in Nat \ {0} /\ MaxPending <= PendingLimit
  /\ \E w \in 0 .. PendingLimit : PendingLimit = 2 ^ w

VARIABLES
  state,
  held,     \* the atomic: addr_q, atop_q, operand_q
  new_q,    \* op(old, operand), in the lane of the word
  passed    \* "pending": the reads that passed and are not answered

vars == <<memoryVars, state, held, new_q, passed>>

Inputs == [req: Requests \cup {None}, mem_ready: BOOLEAN, mem_rsp: BOOLEAN]

-----------------------------------------------------------------------------
IsAtomic(r) == IF r = None THEN FALSE ELSE r.op = "atomic"
Passes(r)   == IF r = None THEN FALSE ELSE r.op # "atomic"

\* Mutant of TakeAtomic: reads that passed may still wait for their answers.
TakeAtomicEarly(i) == state = "IDLE" /\ IsAtomic(i.req)
TakeAtomic(i) == state = "IDLE" /\ IsAtomic(i.req) /\ passed = 0

AnyData == CHOOSE d \in Data : TRUE     \* data of a read: not looked at

MemReq(i) ==
  CASE state = "IDLE" -> IF Passes(i.req) THEN i.req ELSE None
    [] state = "READ" -> [line |-> held.line, op |-> "load", bytes |-> held.bytes,
                          data |-> AnyData]
    [] state = "WAIT" -> None
    [] state = "WRITE" -> [line |-> held.line, op |-> "store", bytes |-> held.bytes,
                           data |-> new_q]

MemTaken(i) == IF i.mem_ready THEN MemReq(i) ELSE None
PassRead(i) == state = "IDLE" /\ Reads(MemTaken(i))

\* Mutant of State: READ does not wait for memory to take the read.
StateReadOnce(i) ==
  state' = CASE state = "IDLE"  -> IF TakeAtomic(i) THEN "READ" ELSE state
             [] state = "READ"  -> "WAIT"
             [] state = "WAIT"  -> IF i.mem_rsp THEN "WRITE" ELSE state
             [] state = "WRITE" -> IF i.mem_ready THEN "IDLE" ELSE state
State(i) ==
  state' = CASE state = "IDLE"  -> IF TakeAtomic(i) THEN "READ" ELSE state
             [] state = "READ"  -> IF i.mem_ready THEN "WAIT" ELSE state
             [] state = "WAIT"  -> IF i.mem_rsp THEN "WRITE" ELSE state
             [] state = "WRITE" -> IF i.mem_ready THEN "IDLE" ELSE state

\* "pending" has PENDING_WIDTH + 1 bits, and wraps.
Up(n)   == IF n = 2 * PendingLimit - 1 THEN 0 ELSE n + 1
Down(n) == IF n = 0 THEN 2 * PendingLimit - 1 ELSE n - 1

\* Mutant of Passed: the answer of the atomic's own read is counted too.
PassedAll(i) ==
  passed' = IF PassRead(i) /\ ~i.mem_rsp THEN Up(passed)
            ELSE IF ~PassRead(i) /\ i.mem_rsp THEN Down(passed)
            ELSE passed
Passed(i) ==
  LET answered == i.mem_rsp /\ state # "WAIT" IN
  passed' = IF PassRead(i) /\ ~answered THEN Up(passed)
            ELSE IF ~PassRead(i) /\ answered THEN Down(passed)
            ELSE passed

Clock(i) ==
  /\ i.mem_rsp => pending # <<>>
  /\ i.mem_ready => SlotFree(i.mem_rsp)
  /\ State(i)
  /\ held' = IF TakeAtomic(i) THEN i.req ELSE held
  /\ new_q' = IF state = "WAIT" /\ i.mem_rsp THEN AtomicOp[<<Head(pending), held.data>>] ELSE new_q
  /\ Passed(i)
  /\ answer' = IF i.mem_rsp THEN Head(pending) ELSE None     \* every answer passes
  /\ MemoryClock(MemTaken(i), i.mem_rsp)

Next == \E i \in Inputs : Clock(i)

Init ==
  /\ MemoryInit
  /\ state = "IDLE" /\ passed = 0
  /\ held \in MemRequest /\ new_q \in Data

Spec == Init /\ [][Next]_vars

-----------------------------------------------------------------------------
(* What the unit promises.                                                 *)

\* Every register holds a value of its type; an answer is expected: "passed"
\* counts the reads in memory but the atomic's own (a_answer_expected,
\* a_pending_no_overflow).
TypeOK ==
  /\ mem \in [Lines -> Data] /\ pending \in Seq(Data) /\ answer \in Data \cup {None}
  /\ state \in {"IDLE", "READ", "WAIT", "WRITE"}
  /\ held \in MemRequest /\ new_q \in Data
  /\ passed \in 0 .. PendingLimit
  /\ Len(pending) = IF state = "WAIT" THEN 1 ELSE passed
  /\ state # "IDLE" => passed = 0

\* Seen from its requester, the unit and a memory without atomics are a memory
\* that does each atomic at once when it is taken: nothing comes between its
\* read and its write, and the answers stay in order.
ArchMem ==
  CASE state = "IDLE"  -> mem
    [] state = "READ"  -> [mem EXCEPT ![held.line] = After(held, @)]
    [] state = "WAIT"  -> [mem EXCEPT ![held.line] =
                             Merge(@, AtomicOp[<<Head(pending), held.data>>], held.bytes)]
    [] state = "WRITE" -> [mem EXCEPT ![held.line] = Merge(@, new_q, held.bytes)]

Owed == pending \o (IF state = "READ" THEN <<mem[held.line]>> ELSE <<>>)

Atomic == INSTANCE LatencyMemory WITH mem <- ArchMem, pending <- Owed, MemRequests <- Requests

RefinesAtomicMemory == Atomic!MemorySpec

\* Memory, again and again, takes what is offered or answers what it owes.
MemoryTakes == \E i \in Inputs : i.mem_ready /\ MemReq(i) # None /\ i.req = None /\ Clock(i)
MemoryAnswers == \E i \in Inputs : i.mem_rsp /\ i.req = None /\ Clock(i)
MemoryFair ==
  /\ WF_vars((ENABLED <<MemoryTakes>>_vars) /\ \E i \in Inputs : i.mem_ready /\ Clock(i))
  /\ WF_vars((ENABLED <<MemoryAnswers>>_vars) /\ \E i \in Inputs : i.mem_rsp /\ Clock(i))

\* An atomic comes to its end and lets the requests behind it pass.
AtomicEnds == (state # "IDLE") ~> (state = "IDLE")
=============================================================================
