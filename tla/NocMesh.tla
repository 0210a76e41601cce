------------------------------ MODULE NocMesh ------------------------------
(***************************************************************************)
(* NocMesh: X_SIZE x Y_SIZE routers, joined by two links of LINK_DELAY     *)
(* registers between neighbors, one each way.  The ports at the edges are  *)
(* tied off: no flit comes in, no credit comes back.                       *)
(*                                                                         *)
(* One step is one clock edge.  The network interface of a node is not in  *)
(* the repository: it is modelled as the test bench of the mesh drives and *)
(* checks the local ports.  A sender starts a packet only on a VC whose    *)
(* last tail went and sends only with a credit; a receiver returns one     *)
(* credit for each flit, when it likes.                                    *)
(***************************************************************************)
EXTENDS NocRouter, FiniteSetsExt

CONSTANTS
  X_SIZE, Y_SIZE, LINK_DELAY,
  Packets,       \* [src, dest, vc, len, id]; a sender sends those of one VC by id
  Plans,         \* which packets may be offered together
  MaxStalls      \* bound on the clocks a sender or a receiver lets pass

Nodes == (0 .. X_SIZE - 1) \X (0 .. Y_SIZE - 1)

ASSUME MeshAssumption ==
  /\ X_SIZE \in Nat \ {0} /\ Y_SIZE \in Nat \ {0}
  /\ LINK_DELAY \in Nat /\ MaxStalls \in Nat
  /\ None \notin VCs /\ None \notin [pkt : Packets, n : Nat, vc : VCs]
  /\ Plans \subseteq SUBSET Packets
  /\ \A p \in Packets : /\ p.src \in Nodes /\ p.dest \in Nodes /\ p.vc \in VCs
                        /\ p.len \in Nat \ {0} /\ p.id \in Nat
  /\ \A p, q \in Packets : (p.src = q.src /\ p.vc = q.vc /\ p.id = q.id) => p = q

VARIABLES
  router,        \* router[n]: the registers of the router of node n
  link,          \* link[n][p]: from output port p of n, "fwd" flits and "bwd" credits
  offered,       \* the packets of this run
  sent,          \* sent[p]: flits of packet p that went in
  tx_credits,    \* tx_credits[n][v]: the sender's count
  assembling,    \* assembling[n][v]: flits that came out since the last tail
  inbox,         \* inbox[n]: the packets that came out, as the flits they had
  owed,          \* owed[n]: VCs of the flits whose credits the receiver keeps
  stalls,
  clk            \* turns over at every clock edge

vars == <<router, link, offered, sent, tx_credits, assembling, inbox, owed, stalls, clk>>

-----------------------------------------------------------------------------
Neighbor(n, port) ==
  CASE port = NORTH -> <<n[1], n[2] + 1>>
    [] port = SOUTH -> <<n[1], n[2] - 1>>
    [] port = WEST  -> <<n[1] - 1, n[2]>>
    [] port = EAST  -> <<n[1] + 1, n[2]>>
    [] OTHER -> n

Opposite == [port \in Ports |->
  CASE port = NORTH -> SOUTH [] port = SOUTH -> NORTH
    [] port = WEST -> EAST [] port = EAST -> WEST [] OTHER -> LOCAL_PORT]

Linked(n, port) == port # LOCAL_PORT /\ Neighbor(n, port) \in Nodes

\* NocLinkWire: what comes out of LINK_DELAY registers, and their next content.
Out(line, src)  == IF LINK_DELAY = 0 THEN src ELSE line[LINK_DELAY]
Shift(line, src) == [k \in 1 .. LINK_DELAY |-> IF k = 1 THEN src ELSE line[k - 1]]

\* What comes out of the links; w: the wires of every router.
BwdIn(n, port)  == router[Neighbor(n, port)].credit_q[Opposite[port]]
BwdOut(n, port) == Out(link[n][port].bwd, BwdIn(n, port))
FwdOut(w, n, port) == Out(link[n][port].fwd, w[n].out_fwd[port])

\* "flit" comes from the node on its local port, "credit" back to it.
InFwd(w, n, flit) == [port \in Ports |->
  IF port = LOCAL_PORT THEN flit
  ELSE IF Linked(n, port) THEN FwdOut(w, Neighbor(n, port), Opposite[port]) ELSE None]
OutBwd(n, credit) == [port \in Ports |->
  IF port = LOCAL_PORT THEN credit ELSE IF Linked(n, port) THEN BwdOut(n, port) ELSE None]

-----------------------------------------------------------------------------
\* The network interfaces.
MaySend(n) ==
  {p \in offered : /\ p.src = n /\ sent[p] < p.len /\ tx_credits[n][p.vc] > 0
                   /\ \A q \in offered : (q.src = n /\ q.vc = p.vc /\ q.id < p.id)
                                            => sent[q] = q.len}

\* Packets in "hold" are not sent although they may, nodes in "keep" return no
\* credit although they owe one.
Tx(n, hold) ==
  LET ready == MaySend(n) \ hold
      p == CHOOSE p \in ready : \A q \in ready : p.vc <= q.vc
  IN  IF ready = {} THEN None ELSE [pkt |-> p, n |-> sent[p] + 1, vc |-> p.vc]
Rx(n, keep) == IF n \in keep \/ owed[n] = <<>> THEN None ELSE Head(owed[n])

\* "out" is the flit that comes out of the local port of n.
AssemblingNext(n, v, out) ==
  IF ~OnVc(out, v) THEN assembling[n][v]
  ELSE IF IsTail(out) THEN <<>> ELSE Append(assembling[n][v], <<out.pkt, out.n>>)

InboxNext(n, out) ==
  IF out = None THEN inbox[n]
  ELSE IF IsTail(out)
  THEN Append(inbox[n], Append(assembling[n][out.vc], <<out.pkt, out.n>>))
  ELSE inbox[n]

OwedNext(n, out, credit) ==
  LET left == IF credit = None THEN owed[n] ELSE Tail(owed[n])
  IN  IF out = None THEN left ELSE Append(left, out.vc)

\* w: the wires; tx, rx: the flits and the credits that the nodes send.
ClockWith(w, tx, rx, in_fwd, out_bwd) ==
  /\ router' = [n \in Nodes |-> RouterNext(n, router[n], w[n], in_fwd[n], out_bwd[n])]
  /\ link' = [n \in Nodes |-> [port \in {q \in Ports : Linked(n, q)} |->
                [fwd |-> Shift(link[n][port].fwd, w[n].out_fwd[port]),
                 bwd |-> Shift(link[n][port].bwd, BwdIn(n, port))]]]
  /\ sent' = [p \in Packets |->
       IF tx[p.src] # None /\ tx[p.src] = [pkt |-> p, n |-> sent[p] + 1, vc |-> p.vc]
       THEN sent[p] + 1 ELSE sent[p]]
  /\ tx_credits' = [n \in Nodes |-> [v \in VCs |->
       CreditsNext(tx_credits[n][v], OnVc(tx[n], v), router[n].credit_q[LOCAL_PORT] = v)]]
  /\ assembling' = [n \in Nodes |-> [v \in VCs |-> AssemblingNext(n, v, w[n].out_fwd[LOCAL_PORT])]]
  /\ inbox' = [n \in Nodes |-> InboxNext(n, w[n].out_fwd[LOCAL_PORT])]
  /\ owed' = [n \in Nodes |-> OwedNext(n, w[n].out_fwd[LOCAL_PORT], rx[n])]
  /\ UNCHANGED offered

Tick == clk' = 1 - clk

Clock(hold, keep) ==
  /\ Tick
  /\ stalls' = stalls + Cardinality(hold) + Cardinality(keep)
  /\ \E pick \in {[n \in Nodes |-> Picks(router[n])]},
        tx \in {[n \in Nodes |-> Tx(n, hold)]}, rx \in {[n \in Nodes |-> Rx(n, keep)]} :
     \E win \in {[n \in Nodes |-> Wins(router[n], pick[n])]} :
     \E w \in {[n \in Nodes |-> Wires(router[n], pick[n], win[n])]} :
     \E in_fwd \in {[n \in Nodes |-> InFwd(w, n, tx[n])]},
        out_bwd \in {[n \in Nodes |-> OutBwd(n, rx[n])]} :
       ClockWith(w, tx, rx, in_fwd, out_bwd)

Some(set) == UNION {kSubset(k, set) : k \in 0 .. MaxStalls - stalls}

Next ==
  \E hold \in Some(UNION {MaySend(n) : n \in Nodes}), keep \in Some({n \in Nodes : owed[n] # <<>>}) :
    /\ stalls + Cardinality(hold) + Cardinality(keep) <= MaxStalls
    /\ Clock(hold, keep)

Init ==
  /\ router = [n \in Nodes |-> RouterReset]
  /\ link = [n \in Nodes |-> [port \in {q \in Ports : Linked(n, q)} |->
               [fwd |-> [k \in 1 .. LINK_DELAY |-> None],
                bwd |-> [k \in 1 .. LINK_DELAY |-> None]]]]
  /\ offered \in Plans
  /\ sent = [p \in Packets |-> 0]
  /\ tx_credits = [n \in Nodes |-> [v \in VCs |-> BUF_DEPTH]]
  /\ assembling = [n \in Nodes |-> [v \in VCs |-> <<>>]]
  /\ inbox = [n \in Nodes |-> <<>>]
  /\ owed = [n \in Nodes |-> <<>>]
  /\ stalls = 0
  /\ clk = 0

Spec == Init /\ [][Next]_vars
FairSpec == Spec /\ WF_clk(Tick)
=============================================================================
