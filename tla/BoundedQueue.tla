---------------------------- MODULE BoundedQueue ----------------------------
(***************************************************************************)
(* What a valid/ready buffer promises: a queue of at most Capacity items   *)
(* that loses, repeats and reorders none.  In one clock one item may enter *)
(* and the oldest one may leave; an item may pass through in one clock.    *)
(***************************************************************************)
EXTENDS Naturals, Sequences

CONSTANTS Items, None, Capacity

VARIABLES
  queue,  \* the items inside, the oldest first
  put,    \* the item the sender handed over in the last clock, or None
  got     \* the item the receiver took in the last clock, or None

queueVars == <<queue, put, got>>

Move(in, take) ==
  LET q == IF in = None THEN queue ELSE Append(queue, in) IN
  /\ in # None => Len(queue) < Capacity
  /\ take => q # <<>>
  /\ put' = in
  /\ got' = IF take THEN Head(q) ELSE None
  /\ queue' = IF take THEN Tail(q) ELSE q

QueueInit == queue = <<>> /\ put = None /\ got = None

QueueNext == \E in \in Items \cup {None}, take \in BOOLEAN : Move(in, take)

QueueSpec == QueueInit /\ [][QueueNext]_queueVars
=============================================================================
