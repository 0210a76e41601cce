--------------------------- MODULE MCBufferChain ---------------------------
(***************************************************************************)
(* BufferChain for TLC.  The buffers never look at an item, so two kinds   *)
(* tell a loss, a repetition or an exchange of neighbours apart.           *)
(***************************************************************************)
EXTENDS BufferChain, FiniteSets

ASSUME MCAssumption == Cardinality(Items) = 2
=============================================================================
