-------------------------------- MODULE Fifo --------------------------------
(***************************************************************************)
(* Fifo: a circular buffer of Depth entries with first-word fall through.  *)
(* The pointers have one bit more than an entry's address (the wrap bit)   *)
(* and wrap at twice the depth.  A write is ignored when the Fifo is full  *)
(* and a read when empty, whatever the other does in that clock.           *)
(***************************************************************************)
EXTENDS Naturals, Sequences

CONSTANTS Items, None, Depth    \* Depth = 2^ADDR_WIDTH entries

VARIABLES
  entries,         \* mem: None stands for the unknown content before a write
  wr_ptr, rd_ptr

fifoVars == <<entries, wr_ptr, rd_ptr>>

Wrap == 2 * Depth

Count       == (wr_ptr + Wrap - rd_ptr) % Wrap
EmptyAtOne  == Count <= 1             \* Mutant of Empty: almost_empty is taken for it
Empty       == Count = 0
Full        == Count = Depth
AlmostFull  == Count >= Depth - 1     \* ALMOST_FULL, by default one from full
AlmostEmpty == Count <= 1             \* ALMOST_EMPTY
DataOut     == entries[rd_ptr % Depth]

\* "write" is the item offered, or None.
DoWriteFull(write) == write # None       \* Mutant of DoWrite: full is not looked at
DoWrite(write) == write # None /\ ~Full
DoRead(read)   == read /\ ~Empty

FifoStep(write, read) ==
  /\ wr_ptr' = IF DoWrite(write) THEN (wr_ptr + 1) % Wrap ELSE wr_ptr
  /\ rd_ptr' = IF DoRead(read) THEN (rd_ptr + 1) % Wrap ELSE rd_ptr
  /\ entries' = IF DoWrite(write) THEN [entries EXCEPT ![wr_ptr % Depth] = write]
                ELSE entries

FifoInit == wr_ptr = 0 /\ rd_ptr = 0 /\ entries = [a \in 0 .. Depth - 1 |-> None]

-----------------------------------------------------------------------------
\* The flags as the struct version makes them: from the low bits and the wrap
\* bits of the pointers.
LowEq       == wr_ptr % Depth = rd_ptr % Depth
WrapDiff    == wr_ptr \div Depth # rd_ptr \div Depth
StructEmpty == LowEq /\ ~WrapDiff
StructFull  == LowEq /\ WrapDiff

FifoTypeOK ==
  /\ entries \in [0 .. Depth - 1 -> Items \cup {None}]
  /\ {wr_ptr, rd_ptr} \subseteq 0 .. Wrap - 1

\* The items inside, the oldest first.
FifoQueue == [k \in 1 .. Count |-> entries[(rd_ptr + k - 1) % Depth]]
=============================================================================
