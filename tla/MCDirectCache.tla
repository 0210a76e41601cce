--------------------------- MODULE MCDirectCache ---------------------------
(***************************************************************************)
(* DirectCache for TLC: two tags on each set, so that lines evict each     *)
(* other, one of the lines a device's; bytes of one bit; a device's byte   *)
(* flips when it is read.                                                  *)
(***************************************************************************)
EXTENDS DirectCache

CONSTANT NSets

MCSets == 1..NSets
MCTags == 1..2
MCLines == [tag: MCTags, set: MCSets]
MCDevices == {[tag |-> 2, set |-> NSets]}
MCAtomicOp == [p \in Data \X Data |-> p[2]]     \* swap
MCReadEffect == [v \in Values |-> IF 1 - v \in Values THEN 1 - v ELSE v]

\* Every operation on every line; a store writes either value, an atomic
\* swaps one in; a device is also read without asking for any of its bytes.
MCRequests ==
  { r \in Request :
      /\ r.op # "load" => r.bytes # {}
      /\ r.op = "atomic" => r.data = NoData }
MCMemRequests == {AsMemory(r) : r \in MCRequests}

\* The registers and RAMs without reset start with one fixed content: their
\* valid bits hide it (the proofs of DirectCache_proofs take any).
MCInit ==
  /\ looked = CHOOSE r \in Request : TRUE
  /\ wait_nocache = FALSE /\ valid = FALSE
  /\ tag_mem = [s \in Sets |-> 1] /\ tag = 1
  /\ data_mem = [s \in Sets |-> NoData] /\ ram_line = NoData /\ fwd_line = NoData
  /\ mem = [l \in Lines |-> NoData]
  /\ Init

MCSpec == MCInit /\ [][Next]_vars
MCFairSpec == MCSpec /\ MemoryFair

\* What the next clock depends on: a register whose valid bit is 0 (look,
\* waiting, a line's valid bit) is not looked at, and nothing reads answer.
LiveState ==
  <<mem, pending, look, replay, waiting, unc_waiting,
    IF look \/ waiting THEN looked ELSE None,
    waiting /\ wait_nocache,
    [s \in Sets |-> IF valid_mem[s] THEN <<tag_mem[s], data_mem[s]>> ELSE <<>>],
    IF LookOk /\ valid THEN <<tag, Line>> ELSE <<>> >>
=============================================================================
