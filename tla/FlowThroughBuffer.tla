------------------------- MODULE FlowThroughBuffer -------------------------
(***************************************************************************)
(* FlowThroughBuffer: a valid/ready stage of one entry whose in_ready is a *)
(* flop.  An item flows through while the entry is empty, and stays in it  *)
(* when it is not taken.                                                   *)
(***************************************************************************)
EXTENDS Naturals, Sequences

CONSTANTS Items, None

VARIABLES
  full,     \* the entry holds an item that was not taken
  entry,    \* loads in_data while empty: None stands for data of no item
  put, got  \* what crossed the two channels in the last clock

flowVars == <<full, entry, put, got>>

\* The channel in: "in" is the item offered, or None.
InReady      == ~full
OutValid(in) == full \/ in # None
OutData(in)  == IF full THEN entry ELSE in

\* Mutant of FlowStep: the entry loads in_data while it is full.
FlowStepOverwrites(in, out_ready) ==
  /\ full' = (OutValid(in) /\ ~out_ready)
  /\ entry' = in

FlowStep(in, out_ready) ==
  /\ full' = (OutValid(in) /\ ~out_ready)
  /\ entry' = IF full THEN entry ELSE in

Channels(in, out_ready) ==
  /\ put' = IF InReady THEN in ELSE None
  /\ got' = IF OutValid(in) /\ out_ready THEN OutData(in) ELSE None

FlowInit == full = FALSE /\ entry \in Items \cup {None} /\ put = None /\ got = None

FlowNext ==
  \E in \in Items \cup {None}, out_ready \in BOOLEAN :
    FlowStep(in, out_ready) /\ Channels(in, out_ready)

FlowSpec == FlowInit /\ [][FlowNext]_flowVars

-----------------------------------------------------------------------------
FlowTypeOK ==
  /\ full \in BOOLEAN
  /\ entry \in Items \cup {None}
  /\ {put, got} \subseteq Items \cup {None}
  /\ full => entry \in Items

\* The items inside.
FlowQueue == IF full THEN <<entry>> ELSE <<>>

Queue == INSTANCE BoundedQueue WITH queue <- FlowQueue, Capacity <- 1
=============================================================================
