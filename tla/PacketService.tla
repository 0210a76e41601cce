--------------------------- MODULE PacketService ---------------------------
(***************************************************************************)
(* What a mesh promises to its nodes: every packet offered comes out once, *)
(* at its destination, with all its flits in order.  Packets do not stay   *)
(* in order among themselves, even from one node to one node.              *)
(***************************************************************************)
EXTENDS Naturals, Sequences

CONSTANTS Nodes, Packets   \* packets [dest, len, ...]

VARIABLES
  offered,   \* the packets of this run
  inbox      \* inbox[n]: what came out at n, each packet as the flits it had

Whole(p) == [k \in 1 .. p.len |-> <<p, k>>]

Delivered(p) == \E k \in DOMAIN inbox[p.dest] : inbox[p.dest][k] = Whole(p)

\* At every node at most one packet completes in a step.
Deliver ==
  /\ inbox' = [n \in Nodes |-> inbox'[n]]
  /\ \A n \in Nodes :
       \/ inbox'[n] = inbox[n]
       \/ \E p \in offered : /\ p.dest = n /\ ~Delivered(p)
                             /\ inbox'[n] = Append(inbox[n], Whole(p))
  /\ UNCHANGED offered

Arrive(p) ==
  /\ p \in offered /\ ~Delivered(p)
  /\ inbox' = [inbox EXCEPT ![p.dest] = Append(@, Whole(p))]
  /\ UNCHANGED offered

Init == inbox = [n \in Nodes |-> <<>>]

\* What may come out; and that all of it does.
SafeSpec == Init /\ [][Deliver]_<<offered, inbox>>

Spec == SafeSpec /\ \A p \in Packets : WF_inbox(Arrive(p))
=============================================================================
