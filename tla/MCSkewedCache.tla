--------------------------- MODULE MCSkewedCache ---------------------------
(***************************************************************************)
(* SkewedCache for TLC: one index bit and one tag bit, so four lines whose *)
(* candidates cross between the ways; one of them a device's.              *)
(***************************************************************************)
EXTENDS SkewedCache

MCLines == [tag: Tags, set: Sets]
MCDevices == {[tag |-> [b \in 0 .. TagWidth - 1 |-> TRUE],
               set |-> [b \in 0 .. SetsWidth - 1 |-> TRUE]]}
MCAtomicOp == [p \in Data \X Data |-> p[2]]     \* swap
MCReadEffect == [v \in Values |-> IF 1 - v \in Values THEN 1 - v ELSE v]

\* Every operation on every line that may be cached; a store writes 1, an
\* atomic swaps 0 in.  (The paths to a device are MCDirectCache's: here only
\* a load that is looked up and not filled.)
MCRequests ==
  { r \in Request :
      /\ r.bytes = Bytes
      /\ r.op = "store" => \A b \in Bytes : r.data[b] = 1
      /\ r.op = "atomic" => \A b \in Bytes : r.data[b] = 0
      /\ r.line \in Devices => r.op = "load" /\ r.path = "nocache" }
MCMemRequests == {AsMemory(r) : r \in MCRequests}

MCTag0 == [b \in 0 .. TagWidth - 1 |-> FALSE]

\* The registers and RAMs without reset start with one fixed content.
MCInit ==
  /\ looked = CHOOSE r \in Request : TRUE
  /\ wait_nocache = FALSE
  /\ valid = [w \in Ways |-> FALSE] /\ tag = [w \in Ways |-> MCTag0]
  /\ tag_mem = [w \in Ways |-> [s \in Sets |-> MCTag0]]
  /\ data_mem = [w \in Ways |-> [s \in Sets |-> NoData]]
  /\ ram_line = [w \in Ways |-> NoData] /\ fwd_line = NoData
  /\ recent = [w \in Ways |-> [s \in Sets |-> FALSE]] /\ fill_way = 0
  /\ mem = [l \in Lines |-> NoData]
  /\ Init

MCSpec == MCInit /\ [][Next]_vars

\* What the next clock depends on (see MCDirectCache); the recent bit of a
\* line that is not valid is written before it is compared again.
LiveState ==
  <<mem, pending, look, replay, waiting, unc_waiting,
    IF look \/ waiting THEN looked ELSE None,
    waiting /\ wait_nocache,
    [w \in Ways |-> [s \in Sets |->
       IF valid_mem[w][s] THEN <<tag_mem[w][s], data_mem[w][s]>> ELSE <<>>]],
    IF LookOk THEN [w \in Ways |-> IF valid[w] THEN <<tag[w], Line(w)>> ELSE <<>>] ELSE <<>>,
    [w \in Ways |-> [s \in Sets |->
       /\ valid_mem[w][s] \/ (LookOk /\ valid[w] /\ LookIndex(w) = s)
       /\ recent[w][s]]],
    IF waiting /\ ~wait_nocache THEN fill_way ELSE 0>>
=============================================================================
