---------------------------- MODULE MCAtomicUnit ----------------------------
(***************************************************************************)
(* AtomicUnit for TLC: one line of two words (a byte each), the atomic an  *)
(* exclusive or of a word, which shows whether it was done on the old one. *)
(***************************************************************************)
EXTENDS AtomicUnit

MCReadEffect == [v \in Values |-> v]
MCAtomicOp == [p \in Data \X Data |-> [b \in Bytes |-> (p[1][b] + p[2][b]) % 2]]

\* A load reads the line; a store writes a word; an atomic flips one.
MCRequests ==
  { r \in MemRequest :
      /\ r.op = "load" => r.bytes = Bytes /\ r.data = AnyData
      /\ r.op # "load" => \E b \in Bytes : r.bytes = {b}
      /\ r.op # "load" => \A b1, b2 \in Bytes : r.data[b1] = r.data[b2]
      /\ r.op = "atomic" => \A b \in Bytes : r.data[b] = 1 }
MCMemRequests == {r \in MCRequests : r.op # "atomic"} \cup
  { r \in MemRequest : r.op = "load" /\ r.data = AnyData} \cup {r \in MemRequest : r.op = "store"}

\* The registers and the line without reset start with one fixed content.
MCInit ==
  /\ mem = [l \in Lines |-> AnyData]
  /\ held = CHOOSE r \in MemRequest : TRUE
  /\ new_q = AnyData
  /\ Init

MCSpec == MCInit /\ [][Next]_vars /\ MemoryFair
=============================================================================
