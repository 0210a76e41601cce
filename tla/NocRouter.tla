----------------------------- MODULE NocRouter -----------------------------
(***************************************************************************)
(* NocVirtChRouter: an input-queued router of a mesh with virtual          *)
(* channels.  Its registers are a record r:                                *)
(*   buf, vc        each input VC: its flits, and the packet it serves     *)
(*   credit_q       each input port: the VC whose slot a pop made free     *)
(*   credits, taken each output VC: the slots and the holder it knows of   *)
(*   va_last, in_last, out_last   the round-robin arbiters                 *)
(* A clock edge takes r to RouterNext(at, r, w, in_fwd, out_bwd), w its    *)
(* wires.  A flit is [pkt, n, vc]: flit n of packet pkt, on virtual        *)
(* channel vc of its link.                                                 *)
(***************************************************************************)
EXTENDS RoundRobinArbiter, Integers, Sequences

CONSTANTS
  NUM_VCS, BUF_DEPTH,
  None         \* no flit, or no credit, on the wires

ASSUME NocAssumption == NUM_VCS \in Nat \ {0} /\ BUF_DEPTH \in Nat \ {0}

LOCAL_PORT == 0
NORTH == 1
SOUTH == 2
WEST  == 3
EAST  == 4
Ports == 0 .. 4
VCs   == 0 .. NUM_VCS - 1

\* An input VC as a requester of VC allocation.
Requesters  == 0 .. 5 * NUM_VCS - 1
PortOf(k)   == k \div NUM_VCS
VcOf(k)     == k % NUM_VCS

IsHead(f) == f.n = 1
IsTail(f) == f.n = f.pkt.len

\* A power of 2: every divisor of s but 1 is even.
PowerOf2(s) == \A d \in 2 .. s, k \in 1 .. s : d * k = s => d % 2 = 0

\* FifoT: BUF_DEPTH rounded up to a power of 2, at least 2.
BufSlots == CHOOSE s \in 2 .. 2 * BUF_DEPTH :
              PowerOf2(s) /\ BUF_DEPTH <= s /\ (s < 2 * BUF_DEPTH \/ s = 2)

-----------------------------------------------------------------------------
\* Mutant of XyPort: from two of the four corners of a square y comes first.
XyPortTurns(at, dest) ==
  LET dx == dest[1] - at[1]
      dy == dest[2] - at[2]
  IN  CASE dy > 0 /\ dx >= 0 -> NORTH
        [] dy < 0 /\ dx <= 0 -> SOUTH
        [] dx < 0 -> WEST
        [] dx > 0 -> EAST
        [] OTHER  -> LOCAL_PORT

\* NocRouteXy: at and dest are places <<x, y>>.
XyPort(at, dest) ==
  LET dx == dest[1] - at[1]
      dy == dest[2] - at[2]
  IN  CASE dx < 0 -> WEST
        [] dx > 0 -> EAST
        [] dx = 0 /\ dy < 0 -> SOUTH
        [] dx = 0 /\ dy > 0 -> NORTH
        [] OTHER  -> LOCAL_PORT

-----------------------------------------------------------------------------
\* NocVirtChAlloc: each output port with a free VC gives the highest to one
\* of the packets that wait for it.
Waiting(r, port) ==
  {k \in Requesters : /\ r.vc[PortOf(k)][VcOf(k)].state = "WAIT_VC"
                      /\ r.vc[PortOf(k)][VcOf(k)].route = port}

\* Mutant of FreeVcs: a VC whose credits are all back counts as free.
FreeVcsIdle(r, port) ==
  {w \in VCs : ~r.taken[port][w] \/ r.credits[port][w] = BUF_DEPTH}
FreeVcs(r, port) == {w \in VCs : ~r.taken[port][w]}

VcReq(r, port) == IF FreeVcs(r, port) = {} THEN {} ELSE Waiting(r, port)

-----------------------------------------------------------------------------
\* Mutant of Eligible: no credit is asked for.
EligibleAnyCredit(r, p) ==
  {v \in VCs : r.vc[p][v].state = "ACTIVE" /\ r.buf[p][v] # <<>>}

\* NocSwitchAlloc: stage 1, each input port picks one of its eligible VCs;
\* stage 2, each output port takes one of the inputs whose pick wants it.
Eligible(r, p) ==
  {v \in VCs : /\ r.vc[p][v].state = "ACTIVE"
               /\ r.buf[p][v] # <<>>
               /\ r.credits[r.vc[p][v].route][r.vc[p][v].out_vc] > 0}

Pick(r, p) == IF NUM_VCS = 1 THEN Eligible(r, p) ELSE Grant(Eligible(r, p), r.in_last[p])

Want(r, pick, port) == {p \in Ports : \E v \in pick[p] : r.vc[p][v].route = port}

\* The flit the pick of input port p sends, on the VC its packet was given.
Picked(r, pick, p) ==
  LET v == CHOOSE v \in pick[p] : TRUE
  IN  [Head(r.buf[p][v]) EXCEPT !.vc = r.vc[p][v].out_vc]

\* The wires of a clock, each a function of the registers alone: the picks, the
\* inputs the outputs take, the winners of VC allocation, and the flits out.
Picks(r)      == [p \in Ports |-> Pick(r, p)]
Wins(r, pick) == [port \in Ports |-> Grant(Want(r, pick, port), r.out_last[port])]
Wires(r, pick, win) ==
  [pick    |-> pick,
   win     |-> win,
   va_win  |-> [port \in Ports |-> Grant(VcReq(r, port), r.va_last[port])],
   pop     |-> [p \in Ports |-> IF \E port \in Ports : p \in win[port] THEN pick[p] ELSE {}],
   out_fwd |-> [port \in Ports |->
                  IF win[port] = {} THEN None ELSE Picked(r, pick, CHOOSE p \in win[port] : TRUE)]]

OnVc(flit, v) == IF flit = None THEN FALSE ELSE flit.vc = v

-----------------------------------------------------------------------------
\* NocVirtChIn: the buffer of an input VC, and the packet at its front.
BufNext(r, w, p, v, flit) ==
  LET popped == IF v \in w.pop[p] THEN Tail(r.buf[p][v]) ELSE r.buf[p][v]
  IN  IF OnVc(flit, v) /\ Len(r.buf[p][v]) < BufSlots THEN Append(popped, flit) ELSE popped

IsGranted(w, route, p, v) == p * NUM_VCS + v \in w.va_win[route]

VcNext(at, r, w, p, v) ==
  LET s == r.vc[p][v] IN
  CASE s.state = "IDLE" /\ r.buf[p][v] # <<>> /\ IsHead(Head(r.buf[p][v])) ->
         [s EXCEPT !.state = "WAIT_VC", !.route = XyPort(at, Head(r.buf[p][v]).pkt.dest)]
    [] s.state = "WAIT_VC" /\ IsGranted(w, s.route, p, v) ->
         [s EXCEPT !.state = "ACTIVE", !.out_vc = Highest(FreeVcs(r, s.route))]
    [] s.state = "ACTIVE" /\ v \in w.pop[p] /\ IsTail(Head(r.buf[p][v])) ->
         [s EXCEPT !.state = "IDLE"]
    [] OTHER -> s

\* The credit of the flit popped leaves a clock later.
CreditNext(w, p) == IF w.pop[p] = {} THEN None ELSE CHOOSE v \in w.pop[p] : TRUE

\* Mutant of CreditsNext: a credit that comes back with a send is missed.
CreditsNextOne(count, sends, comes) ==
  IF sends THEN count - 1 ELSE IF comes THEN count + 1 ELSE count

\* NocVirtChOut: a flit sent takes a credit, one that comes back returns it.
CreditsNext(count, sends, comes) ==
  count - (IF sends THEN 1 ELSE 0) + (IF comes THEN 1 ELSE 0)

TakenNext(r, w, port, v) ==
  LET alloc == w.va_win[port] # {} /\ v = Highest(FreeVcs(r, port))
      frees == OnVc(w.out_fwd[port], v) /\ IsTail(w.out_fwd[port])
  IN  alloc \/ (r.taken[port][v] /\ ~frees)

\* Mutant of InLastNext: the input arbiter moves on although its pick lost.
InLastNextAlways(r, w, p) == Moved(r.in_last[p], w.pick[p], TRUE)
InLastNext(r, w, p) == Moved(r.in_last[p], w.pick[p], w.pop[p] # {})

RouterNext(at, r, w, in_fwd, out_bwd) ==
  [buf      |-> [p \in Ports |-> [v \in VCs |-> BufNext(r, w, p, v, in_fwd[p])]],
   vc       |-> [p \in Ports |-> [v \in VCs |-> VcNext(at, r, w, p, v)]],
   credit_q |-> [p \in Ports |-> CreditNext(w, p)],
   credits  |-> [port \in Ports |-> [v \in VCs |->
                   CreditsNext(r.credits[port][v], OnVc(w.out_fwd[port], v), out_bwd[port] = v)]],
   taken    |-> [port \in Ports |-> [v \in VCs |-> TakenNext(r, w, port, v)]],
   va_last  |-> [port \in Ports |-> Moved(r.va_last[port], w.va_win[port], TRUE)],
   in_last  |-> [p \in Ports |-> InLastNext(r, w, p)],
   out_last |-> [port \in Ports |-> Moved(r.out_last[port], w.win[port], TRUE)]]

\* route and out_vc have no reset, and mean nothing while the VC is idle.
RouterReset ==
  [buf      |-> [p \in Ports |-> [v \in VCs |-> <<>>]],
   vc       |-> [p \in Ports |-> [v \in VCs |->
                   [state |-> "IDLE", route |-> LOCAL_PORT, out_vc |-> 0]]],
   credit_q |-> [p \in Ports |-> None],
   credits  |-> [port \in Ports |-> [w \in VCs |-> BUF_DEPTH]],
   taken    |-> [port \in Ports |-> [w \in VCs |-> FALSE]],
   va_last  |-> [port \in Ports |-> 5 * NUM_VCS],
   in_last  |-> [p \in Ports |-> NUM_VCS],
   out_last |-> [port \in Ports |-> 5]]
=============================================================================
