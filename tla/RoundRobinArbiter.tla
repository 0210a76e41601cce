------------------------- MODULE RoundRobinArbiter -------------------------
(***************************************************************************)
(* RoundRobinArbiter: one of the requesters 0 .. n - 1 wins, and the       *)
(* priority rotates downwards.  The register below_q, "the requesters      *)
(* below the last winner", is kept as the winner's number; n stands for    *)
(* the reset, when all of them count as below it.                          *)
(***************************************************************************)
EXTENDS Naturals

Highest(r) == CHOOSE i \in r : \A j \in r : j <= i

Below(last) == {i \in 0 .. last : i < last}

\* One-hot: the winner alone, or nobody.
Grant(req, last) ==
  LET cand == IF req \cap Below(last) # {} THEN req \cap Below(last) ELSE req
  IN  IF req = {} THEN {} ELSE {Highest(cand)}

\* "advance" uses the grant: its winner is the last winner from then on.
Moved(last, grant, advance) ==
  IF advance /\ grant # {} THEN CHOOSE w \in grant : TRUE ELSE last

\* How many requesters, of n, come before i.
Rank(i, last, n) == IF i < last THEN last - 1 - i ELSE last + n - 1 - i
=============================================================================
