----------------------- MODULE MCInsnDataCacheArbiter -----------------------
(***************************************************************************)
(* InsnDataCacheArbiter for TLC: one line that the data cache writes and   *)
(* both sides read, so that the value answered tells when a read was done. *)
(***************************************************************************)
EXTENDS InsnDataCacheArbiter

MCAtomicOp == [p \in Data \X Data |-> p[1]]     \* no atomic comes here
MCReadEffect == [v \in Values |-> v]
MCZero == [b \in Bytes |-> 0]

MCInsnRequests == [line: Lines, op: {"load"}, bytes: {Bytes}, data: {MCZero}]
MCDataRequests ==
  MCInsnRequests \cup [line: Lines, op: {"store"}, bytes: {Bytes}, data: Data]

\* The registers and the line without reset start with one fixed content.
MCInit ==
  /\ mem = [l \in Lines |-> MCZero]
  /\ i_entry = None /\ d_entry = None
  /\ ArbInit

MCSpec == MCInit /\ [][ArbNext]_arbVars
MCFairSpec == MCSpec /\ ArbMemoryFair

\* What the next clock depends on: an empty buffer's entry, an entry of the
\* Fifo that was read and held_side without hold are not looked at.
LiveState ==
  <<mem, pending, Waiting, hold, IF hold THEN <<held_side, presented>> ELSE <<>>, last,
    Owners!FifoQueue, wr_ptr>>
=============================================================================
