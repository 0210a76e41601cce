---------------------------- MODULE BufferChain ----------------------------
(***************************************************************************)
(* The three valid/ready buffers of the library one after another, each    *)
(* one's channel out the next one's channel in:                            *)
(*                                                                         *)
(*   sender --> FlowThroughBuffer --> Fifo --> SkidBuffer --> receiver     *)
(*                                                                         *)
(* A channel moves an item at an edge with valid and ready both 1.  The    *)
(* Fifo takes part with in_ready = ~full, out_valid = ~empty.  The chain   *)
(* is a harness: each block is in the repository, this chain of them is    *)
(* not.                                                                    *)
(***************************************************************************)
EXTENDS Naturals, Sequences

CONSTANTS Items, None, Depth

ASSUME BufferAssumption == None \notin Items /\ Depth \in Nat \ {0}
ASSUME PowerOfTwo == \E w \in 0 .. Depth : Depth = 2 ^ w     \* ADDR_WIDTH

VARIABLES
  full, entry,                                  \* FlowThroughBuffer
  entries, wr_ptr, rd_ptr,                      \* Fifo
  out_valid, out_data, skid_valid, skid_data,   \* SkidBuffer
  put, got                                      \* what entered and left in the last clock

vars == <<full, entry, entries, wr_ptr, rd_ptr, out_valid, out_data, skid_valid,
          skid_data, put, got>>

Flow == INSTANCE FlowThroughBuffer
Ring == INSTANCE Fifo
Skid == INSTANCE SkidBuffer

\* One clock: "in" is the item the sender offers, or None.
Clock(in, out_ready) ==
  LET flow_item == IF Flow!OutValid(in) THEN Flow!OutData(in) ELSE None
      ring_item == IF Ring!Empty THEN None ELSE Ring!DataOut IN
  /\ Flow!FlowStep(in, ~Ring!Full)
  /\ Ring!FifoStep(flow_item, Skid!InReady)
  /\ Skid!SkidStep(ring_item, out_ready)
  /\ put' = IF Flow!InReady THEN in ELSE None
  /\ got' = IF out_valid /\ out_ready THEN out_data ELSE None

Init ==
  /\ Flow!FlowInit /\ entry = None
  /\ Ring!FifoInit
  /\ Skid!SkidInit /\ out_data = None /\ skid_data = None

Next == \E in \in Items \cup {None}, out_ready \in BOOLEAN : Clock(in, out_ready)

Spec == Init /\ [][Next]_vars

\* A receiver that is ready again and again.  The sender may do as it likes: a
\* clock is due only while one without an item offered changes anything.
Ready(in) == Clock(in, TRUE)

ReceiverFair ==
  WF_vars((ENABLED <<Ready(None)>>_vars) /\ \E in \in Items \cup {None} : Ready(in))

FairSpec == Spec /\ ReceiverFair

-----------------------------------------------------------------------------
\* Every register of the three buffers holds a value of its type.
TypeOK == Flow!FlowTypeOK /\ Ring!FifoTypeOK /\ Skid!SkidTypeOK

\* The chain is a queue of the three capacities together: no item is lost,
\* repeated or overtaken, whatever the stalls on either side and wherever the
\* pointers wrap.
ChainQueue == Skid!SkidQueue \o Ring!FifoQueue \o Flow!FlowQueue

Queue == INSTANCE BoundedQueue WITH queue <- ChainQueue, Capacity <- Depth + 3

IsQueue == Queue!QueueSpec

\* Fifo's flags from the pointers agree with the number of items, and the
\* struct version's low-bits-and-wrap-bit flags with the behave version's.
FlagsAgree ==
  /\ Ring!Count <= Depth
  /\ Ring!StructEmpty = Ring!Empty
  /\ Ring!StructFull = Ring!Full

\* An item that entered leaves: the buffers never stall for good.
Drains == (ChainQueue # <<>>) ~> (got # None)
=============================================================================
