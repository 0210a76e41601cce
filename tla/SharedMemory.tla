---------------------------- MODULE SharedMemory ----------------------------
(***************************************************************************)
(* What the instruction cache and the data cache may expect of the memory  *)
(* they share: each side's requests are done in its own order and one at a *)
(* time, each read is answered once, to the side that asked, with the line *)
(* memory had when it was done, a side's reads in order.  Nothing is       *)
(* promised between the sides (software orders them, FENCE.I): the oldest  *)
(* read of either side may be answered first.                              *)
(***************************************************************************)
EXTENDS Naturals, Sequences

CONSTANTS
  Lines, Data,
  Requests,       \* Requests[s]: the requests of side s
  Sides, None,
  Apply(_, _),    \* Apply(r, old): the line once request r is done
  Answers(_)      \* request r is a read

VARIABLES
  mem,   \* the line at each address
  wait,  \* per side: the request that was accepted and is not done yet, or None
  owed,  \* the reads done and not answered, oldest first: [side, line]
  got    \* per side: the line answered in the last clock, or None

sharedVars == <<mem, wait, owed, got>>

SharedInit ==
  /\ mem \in [Lines -> Data]
  /\ wait = [s \in Sides |-> None]
  /\ owed = <<>>
  /\ got = [s \in Sides |-> None]

\* The side asks when nothing of it waits.
Offered(in, s) == IF wait[s] = None THEN in[s] ELSE wait[s]

\* The k-th read is the oldest of its side.
IsFirst(k) == \A j \in 1 .. k - 1 : owed[j].side # owed[k].side

\* The k-th read owed is answered to its side; k = 0: nobody is answered.
Answered(k) ==
  /\ k # 0 => IsFirst(k)
  /\ got' = [s \in Sides |->
       IF k = 0 THEN None ELSE IF owed[k].side = s THEN owed[k].line ELSE None]

Without(k) ==
  IF k = 0 THEN owed ELSE SubSeq(owed, 1, k - 1) \o SubSeq(owed, k + 1, Len(owed))

\* The request of one side, or none, is done.
Does(in, done, k) ==
  LET req == IF done = None THEN None ELSE Offered(in, done) IN
  /\ done # None => req # None
  /\ wait' = [s \in Sides |-> IF s = done THEN None ELSE Offered(in, s)]
  /\ mem' = IF req = None THEN mem ELSE [mem EXCEPT ![req.line] = Apply(req, @)]
  /\ owed' = Without(k)
       \o (IF Answers(req) THEN <<[side |-> done, line |-> mem[req.line]]>> ELSE <<>>)

\* What the sides may offer in one clock.
Offers ==
  {in \in [Sides -> (UNION {Requests[s] : s \in Sides}) \cup {None}] :
     \A s \in Sides : in[s] \in Requests[s] \cup {None}}

SharedNext ==
  \E k \in {0} \cup DOMAIN owed :
    /\ Answered(k)
    /\ \E in \in Offers, done \in Sides \cup {None} : Does(in, done, k)

SharedSpec == SharedInit /\ [][SharedNext]_sharedVars
=============================================================================
