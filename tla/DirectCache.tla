---------------------------- MODULE DirectCache ----------------------------
(***************************************************************************)
(* DirectCache: the direct-mapped cache around CacheControl, in front of a *)
(* LatencyMemory.  Each set holds one line; the valid, tag and data RAMs   *)
(* are read with the request and answer one clock later, reading the old   *)
(* word when it is written at the same edge (read-first).                  *)
(***************************************************************************)
EXTENDS CacheControl

CONSTANTS
  Tags, Sets    \* the parts of a line address

ASSUME DirectAssumption == Lines = [tag: Tags, set: Sets]

VARIABLES
  valid_mem, tag_mem, data_mem,  \* CacheValidRam, CacheTagRam, CacheDataRam
  valid, tag, ram_line,          \* what they read for the lookup
  fwd, fwd_line                  \* ram_line is older than a store's write: use fwd_line

ramVars == <<valid_mem, tag_mem, data_mem, valid, tag, ram_line, fwd, fwd_line>>
vars == <<memoryVars, controlVars, ramVars>>

-----------------------------------------------------------------------------
Line == IF fwd THEN fwd_line ELSE ram_line      \* the line of the set now

Hit == look /\ valid /\ tag = looked.line.tag

SameSet(r) == IF r = None THEN FALSE ELSE r.line.set = looked.line.set

\* The set the RAMs read.
RdSet(i) == IF replay \/ i.req = None THEN looked.line.set ELSE i.req.line.set

ValidRam(i) ==
  LET s == looked.line.set IN
  /\ valid_mem' = IF i.invalidate THEN [t \in Sets |-> FALSE]
                  ELSE IF Refill(i) \/ Drop(i, Hit) THEN [valid_mem EXCEPT ![s] = Refill(i)]
                  ELSE valid_mem
  /\ valid' = IF RamRd(i, Hit) THEN valid_mem[RdSet(i)] ELSE valid

TagRam(i) ==
  /\ tag_mem' = IF Refill(i) THEN [tag_mem EXCEPT ![looked.line.set] = looked.line.tag]
                ELSE tag_mem
  /\ tag' = IF RamRd(i, Hit) THEN tag_mem[RdSet(i)] ELSE tag

DataRam(i) ==
  LET wr_line == IF Refill(i) THEN Head(pending) ELSE Merged(Line) IN
  /\ data_mem' = IF Refill(i) \/ StoreWrite(i, Hit)
                 THEN [data_mem EXCEPT ![looked.line.set] = wr_line]
                 ELSE data_mem
  /\ ram_line' = IF RamRd(i, Hit) THEN data_mem[RdSet(i)] ELSE ram_line

\* Mutant of Forward: fwd is not kept for a request that is held.
ForwardOnce(i) ==
  /\ fwd' = (RamRd(i, Hit) /\ StoreWrite(i, Hit) /\ SameSet(i.req))
  /\ fwd_line' = IF StoreWrite(i, Hit) THEN Merged(Line) ELSE fwd_line

\* The request taken at the edge of a store's write read the old line.  In a
\* read-only cache (READ_ONLY: no store among Requests) fwd stays FALSE.
Forward(i) ==
  /\ fwd' = IF RamRd(i, Hit) THEN StoreWrite(i, Hit) /\ SameSet(i.req) ELSE fwd
  /\ fwd_line' = IF StoreWrite(i, Hit) THEN Merged(Line) ELSE fwd_line

Clock(i) ==
  /\ LegalInputs(i)
  /\ ControlStep(i, Hit, Line, SameSet(i.req))
  /\ ValidRam(i)
  /\ TagRam(i)
  /\ DataRam(i)
  /\ Forward(i)

Next == \E i \in Inputs : Clock(i)

\* Tags and lines are unknown until written, valid bits are reset.
Init ==
  /\ ControlInit
  /\ valid_mem = [s \in Sets |-> FALSE]
  /\ tag_mem \in [Sets -> Tags]
  /\ data_mem \in [Sets -> Data]
  /\ valid \in BOOLEAN /\ tag \in Tags /\ ram_line \in Data
  /\ fwd = FALSE /\ fwd_line \in Data

Spec == Init /\ [][Next]_vars

-----------------------------------------------------------------------------
(* What DirectCache promises; to its CPU also RefinesMemory of             *)
(* CacheControl.                                                           *)

\* Every register and RAM holds a value of its type.
TypeOK ==
  /\ ControlTypeOK
  /\ valid_mem \in [Sets -> BOOLEAN]
  /\ tag_mem \in [Sets -> Tags]
  /\ data_mem \in [Sets -> Data]
  /\ {valid, fwd} \subseteq BOOLEAN
  /\ tag \in Tags
  /\ {ram_line, fwd_line} \subseteq Data

\* Every valid line is the line memory has, and never a device's: a store that
\* hits, a refill, an atomic's drop and a forwarded merge leave no stale copy.
Coherent ==
  \A s \in Sets : valid_mem[s] =>
    LET l == [tag |-> tag_mem[s], set |-> s] IN
    l \notin Devices /\ data_mem[s] = mem[l]

\* What a lookup that hits shows the CPU is the line memory has: the RAM
\* outputs, or the forwarded line, are never older than a store or a refill
\* made at the edge they were read.
HitIsCurrent == (LookOk /\ Hit) => Line = mem[looked.line]

\* The inputs with which memory takes nothing.
Stalls == {i \in Inputs : ~i.mem_ready}

\* A lookup whose request memory does not take offers it again, unchanged, in
\* the next clock (a_look_req_held): registers, RAM outputs and forwarding hold.
RequestHeld ==
  [][LookReq(Hit) /\ ~(LookReq(Hit)' /\ looked' = looked)
       => \A i \in Stalls : ~Clock(i)]_vars

\* A clock in which memory takes a request and answers what it owes.
MemoryDoes(reqs) ==
  \E i \in Inputs :
    i.req \in reqs /\ i.mem_ready /\ (i.mem_rsp <=> pending # <<>>) /\ Clock(i)

\* Memory does so again and again.  The CPU may do as it likes: such a clock is
\* due only while one without a request changes anything.
MemoryFair ==
  WF_vars((ENABLED <<MemoryDoes({None})>>_vars) /\ MemoryDoes(Requests \cup {None}))

\* Every load taken is answered.
LoadsAnswered == (Owed # <<>>) ~> (answer # None)
=============================================================================
