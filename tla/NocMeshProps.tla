---------------------------- MODULE NocMeshProps ----------------------------
(***************************************************************************)
(* The properties of the mesh.                                             *)
(***************************************************************************)
EXTENDS NocMesh, SequencesExt

InVcState == [state: {"IDLE", "WAIT_VC", "ACTIVE"}, route: Ports, out_vc: VCs]
MaybeVc   == VCs \cup {None}
IsFlit(f) == f.pkt \in offered /\ f.n \in 1 .. f.pkt.len /\ f.vc \in VCs

\* The registers hold what they can hold; a count of credits stays between 0
\* and BUF_DEPTH, the buffers within their slots.
TypeOK ==
  /\ \A n \in Nodes :
       /\ \A p \in Ports, v \in VCs :
            /\ router[n].vc[p][v] \in InVcState
            /\ Len(router[n].buf[p][v]) <= BufSlots
            /\ \A k \in DOMAIN router[n].buf[p][v] : IsFlit(router[n].buf[p][v][k])
            /\ router[n].credits[p][v] \in 0 .. BUF_DEPTH
            /\ router[n].taken[p][v] \in BOOLEAN
            /\ tx_credits[n][v] \in 0 .. BUF_DEPTH
       /\ \A p \in Ports :
            /\ router[n].credit_q[p] \in MaybeVc
            /\ router[n].va_last[p] \in 0 .. 5 * NUM_VCS
            /\ router[n].in_last[p] \in 0 .. NUM_VCS
            /\ router[n].out_last[p] \in 0 .. 5
  /\ offered \in Plans
  /\ \A p \in Packets : sent[p] \in 0 .. p.len
  /\ stalls \in 0 .. MaxStalls /\ clk \in {0, 1}

-----------------------------------------------------------------------------
Times(seq, x) == Cardinality({k \in DOMAIN seq : seq[k] = x})
OnWire(line, v) == Cardinality({k \in DOMAIN line : OnVc(line[k], v)})
Bit(b) == IF b THEN 1 ELSE 0

\* No slot of a buffer is lost or used twice: for every VC of every link, the
\* credits the sender counts, the flits and the credits on the link, the flits
\* in the buffer and the credit about to leave it are BUF_DEPTH together; the
\* same between a router and its node.  (NocVirtChOut, NocVirtChIn and the
\* input unit's credit_q, over NocLinkWire.)
CreditsConserved ==
  \A n \in Nodes, v \in VCs :
    /\ \A port \in DOMAIN link[n] :
         LET far == router[Neighbor(n, port)]
             at  == Opposite[port]
         IN  router[n].credits[port][v] + OnWire(link[n][port].fwd, v) + Len(far.buf[at][v])
               + Bit(far.credit_q[at] = v) + Times(link[n][port].bwd, v) = BUF_DEPTH
    /\ tx_credits[n][v] + Len(router[n].buf[LOCAL_PORT][v])
         + Bit(router[n].credit_q[LOCAL_PORT] = v) = BUF_DEPTH
    /\ router[n].credits[LOCAL_PORT][v] + Times(owed[n], v) = BUF_DEPTH

-----------------------------------------------------------------------------
Holders(n, port, v) ==
  {h \in Ports \X VCs : /\ router[n].vc[h[1]][h[2]].state = "ACTIVE"
                        /\ router[n].vc[h[1]][h[2]].route = port
                        /\ router[n].vc[h[1]][h[2]].out_vc = v}

\* Behind an output: the buffer of its VC v at the other end and the places of
\* the link, the oldest first; and where on this track there are flits of v.
Track(n, port, v) ==
  router[Neighbor(n, port)].buf[Opposite[port]][v] \o Reverse(link[n][port].fwd)
Stream(track, v) == {k \in DOMAIN track : OnVc(track[k], v)}

Follows(a, b) == IF IsTail(a) THEN IsHead(b) ELSE b.pkt = a.pkt /\ b.n = a.n + 1

\* A VC belongs to one packet from its head to its tail: an output VC is taken
\* exactly while one input VC sends on it; the flits behind it are packets,
\* each whole and in order; and after a flit that is no tail the holder has
\* the next flit of that packet.  (VC allocation, which frees and gives VCs in
\* the same clocks, and NocVirtChIn's assertions.)
VcHeldByOnePacket ==
  \A n \in Nodes, port \in Ports, v \in VCs :
    /\ Cardinality(Holders(n, port, v)) = Bit(router[n].taken[port][v])
    /\ Linked(n, port) =>
         LET t == Track(n, port, v) IN
         /\ \A j, k \in Stream(t, v) :
              (j < k /\ \A i \in Stream(t, v) : i <= j \/ k <= i) => Follows(t[j], t[k])
         /\ \A k \in Stream(t, v) :
              ((\A i \in Stream(t, v) : i <= k) /\ ~IsTail(t[k])) =>
                \E h \in Holders(n, port, v) :
                  LET buf == router[n].buf[h[1]][h[2]]
                  IN  buf # <<>> => Follows(t[k], buf[1])

-----------------------------------------------------------------------------
\* Who wins depends on the registers alone: the picks and winners of a clock.
PickNow(n, p)   == Pick(router[n], p)
WinNow(n, port) == Wins(router[n], Picks(router[n]))[port]
PopsNow(n, p)   == \E port \in Ports : p \in WinNow(n, port)

\* A requester that does not win comes no later for it, and comes earlier when
\* another one wins: nobody starves at an arbiter.
Closer(req, win, last, next, size) ==
  \A i \in req \ win : /\ Rank(i, next, size) <= Rank(i, last, size)
                       /\ win # {} => Rank(i, next, size) < Rank(i, last, size)

\* Nobody loses a turn in a router: at the three stages of arbitration a
\* packet that waits for an output VC, a VC that may send, and an input whose
\* pick wants an output come closer to the front with every grant of another.
\* At the first stage of switch allocation a grant is one whose pick also won
\* at its output.  (RoundRobinArbiter, NocVirtChAlloc, NocSwitchAlloc.)
TurnComesCloser ==
  \A n \in Nodes, p \in Ports :
    LET r == router[n] IN
    /\ Closer(VcReq(r, p), Grant(VcReq(r, p), r.va_last[p]), r.va_last[p],
              router'[n].va_last[p], 5 * NUM_VCS)
    /\ Closer(Eligible(r, p), IF PopsNow(n, p) THEN PickNow(n, p) ELSE {}, r.in_last[p],
              router'[n].in_last[p], NUM_VCS)
    /\ Closer(Want(r, Picks(r), p), WinNow(n, p), r.out_last[p], router'[n].out_last[p], 5)

TurnsComeCloser == [][TurnComesCloser]_vars

-----------------------------------------------------------------------------
Service == INSTANCE PacketService

\* The mesh does what PacketService promises: every packet arrives, once,
\* whole, at its destination.  With XY routing no cycle of packets that wait
\* for each other's VCs can form, and no credit or grant is lost on the way.
DeliversPackets == Service!Spec
=============================================================================
