--------------------------- MODULE NocMesh_proofs ---------------------------
(***************************************************************************)
(* For a mesh of any size, any number and depth of virtual channels, any   *)
(* delay of the links, any packets and any stalls: nobody loses a turn at  *)
(* an arbiter, routes lead home, no credit is lost (MeshInv), a virtual    *)
(* channel belongs to one packet at a time (PacketsInv), and every packet  *)
(* that comes out is whole, at its destination, and the only one (WayInv). *)
(***************************************************************************)
EXTENDS NocMeshProps, FiniteSetTheorems, FunctionTheorems, WellFoundedInduction, TLAPS

-----------------------------------------------------------------------------
(* The round-robin arbiter.                                                *)

\* A set of requesters has a highest one, and Highest is it.
LEMMA HighestIs ==
  ASSUME NEW size \in Nat, NEW r \in SUBSET (0 .. size - 1), r # {}
  PROVE  Highest(r) \in r /\ \A j \in r : j <= Highest(r)
<1> DEFINE Above(i) == {j \in r : i < j}
           T == {Above(i) : i \in r}
<1>1. IsFiniteSet(r)
  BY FS_BoundedSetOfNaturals
<1>2. T \subseteq SUBSET r /\ T # {}
  OBVIOUS
<1>3. PICK s \in T : \A t \in T : ~ (<<t, s>> \in StrictSubsetOrdering(r))
  <2>1. IsWellFoundedOn(StrictSubsetOrdering(r), SUBSET r)
    BY <1>1, FS_StrictSubsetOrderingWellFounded, FS_FiniteSubsetsOfFinite
  <2> QED BY <2>1, <1>2, WFMin, Zenon
<1>4. PICK i \in r : s = Above(i)
  BY <1>3
<1>5. ASSUME NEW j \in r, i < j PROVE FALSE
  <2>1. Above(j) \in T
    OBVIOUS
  <2>4. Above(j) \subseteq Above(i)
    <3> SUFFICES ASSUME NEW k \in r, j < k PROVE i < k
      OBVIOUS
    <3>1. i \in Int /\ j \in Int /\ k \in Int
      OBVIOUS
    <3> QED BY <1>5, <3>1
  <2>2. j \in Above(i) /\ j \notin Above(j)
    BY <1>5
  <2>3. <<Above(j), s>> \in StrictSubsetOrdering(r)
    BY <2>1, <2>2, <2>4, <1>2, <1>4 DEF StrictSubsetOrdering
  <2> QED BY <2>1, <2>3, <1>3
<1>6. \A j \in r : j <= i
  BY <1>5
<1> QED BY <1>4, <1>6 DEF Highest

\* A grant is one-hot, and given to a requester: to the highest below the last
\* winner, else to the highest.
LEMMA GrantIs ==
  ASSUME NEW size \in Nat, NEW req \in SUBSET (0 .. size - 1), NEW last \in 0 .. size
  PROVE  \/ req = {} /\ Grant(req, last) = {}
         \/ \E w \in req : /\ Grant(req, last) = {w}
                           /\ \A j \in req : w < j => w < last /\ last <= j
                           /\ last <= w => \A j \in req : last <= j
<1> DEFINE low == req \cap Below(last)
           cand == IF low # {} THEN low ELSE req
<1>1. CASE req = {}
  BY <1>1 DEF Grant
<1>2. CASE req # {}
  <2>1. cand \in SUBSET (0 .. size - 1) /\ cand # {} /\ cand \subseteq req
    BY <1>2
  <2>2. Highest(cand) \in cand /\ \A j \in cand : j <= Highest(cand)
    BY <2>1, HighestIs
  <2>3. Grant(req, last) = {Highest(cand)}
    BY <1>2 DEF Grant
  <2>4. \A j \in req : j < last <=> j \in low
    BY DEF Below
  <2> DEFINE w == Highest(cand)
  <2>5. w \in req /\ w \in 0 .. size - 1
    BY <2>1, <2>2
  <2> HIDE DEF w
  <2>6. ASSUME NEW j \in req, w < j PROVE w < last /\ last <= j
    <3>1. j \notin cand
      BY <2>2, <2>5, <2>6 DEF w
    <3>2. low # {} /\ j \notin low
      BY <3>1
    <3>3. w \in low
      BY <2>2, <3>2 DEF w
    <3> QED BY <2>4, <2>5, <3>2, <3>3
  <2>7. last <= w => \A j \in req : last <= j
    BY <2>1, <2>2, <2>4, <2>5 DEF w
  <2> QED BY <2>3, <2>5, <2>6, <2>7 DEF w
<1> QED BY <1>1, <1>2

\* One requester wins if there is one, nobody if there is none.
LEMMA GrantIsOneHot ==
  ASSUME NEW size \in Nat, NEW req \in SUBSET (0 .. size - 1), NEW last \in 0 .. size
  PROVE  /\ Grant(req, last) = {} <=> req = {}
         /\ req # {} => \E w \in req : Grant(req, last) = {w}
<1>1. CASE req = {}
  BY <1>1 DEF Grant
<1>2. CASE req # {}
  <2>1. PICK w \in req : Grant(req, last) = {w}
    BY <1>2, GrantIs
  <2> QED BY <1>2, <2>1
<1> QED BY <1>1, <1>2

\* The order an arbiter keeps stays one of its requesters, or the reset's.
LEMMA MovedType ==
  ASSUME NEW size \in Nat, NEW req \in SUBSET (0 .. size - 1), NEW last \in 0 .. size,
         NEW advance \in BOOLEAN
  PROVE  Moved(last, Grant(req, last), advance) \in 0 .. size
<1>1. CASE advance /\ Grant(req, last) # {}
  <2>1. PICK w \in req : Grant(req, last) = {w}
    BY <1>1, GrantIs
  <2> QED BY <1>1, <2>1 DEF Moved
<1>2. CASE ~ (advance /\ Grant(req, last) # {})
  BY <1>2 DEF Moved
<1> QED BY <1>1, <1>2

\* A used grant brings every other requester closer to its turn, and a grant
\* that is not used leaves the order as it is.
LEMMA TurnCloser ==
  ASSUME NEW size \in Nat, NEW req \in SUBSET (0 .. size - 1), NEW last \in 0 .. size,
         NEW used \in BOOLEAN
  PROVE  Closer(req, IF used THEN Grant(req, last) ELSE {}, last,
                Moved(last, Grant(req, last), used), size)
<1>1. CASE used /\ req # {}
  <2>1. PICK w \in req : /\ Grant(req, last) = {w}
                         /\ \A j \in req : w < j => w < last /\ last <= j
                         /\ last <= w => \A j \in req : last <= j
    BY <1>1, GrantIs
  <2>2. Moved(last, Grant(req, last), used) = w
    BY <1>1, <2>1 DEF Moved
  <2>3. ASSUME NEW i \in req, i # w PROVE Rank(i, w, size) < Rank(i, last, size)
    <3>1. i \in Int /\ w \in Int /\ 0 <= i /\ i < size /\ 0 <= w /\ w < size
      OBVIOUS
    <3>2. CASE i < w
      <4>1. Rank(i, w, size) = w - 1 - i
        BY <3>2 DEF Rank
      <4>2. CASE i < last
        <5>1. w < last
          BY <2>1, <3>1, <4>2
        <5> QED BY <3>1, <4>1, <4>2, <5>1 DEF Rank
      <4>3. CASE last <= i
        BY <3>1, <4>1, <4>3 DEF Rank
      <4> QED BY <3>1, <4>2, <4>3
    <3>3. CASE w < i
      <4>1. w < last /\ last <= i
        BY <2>1, <3>3
      <4> QED BY <3>1, <3>3, <4>1 DEF Rank
    <3> QED BY <2>3, <3>1, <3>2, <3>3
  <2>4. \A i \in req \ {w} : Rank(i, w, size) \in Int /\ Rank(i, last, size) \in Int
    BY DEF Rank
  <2>5. (IF used THEN Grant(req, last) ELSE {}) = {w}
    BY <1>1, <2>1
  <2>6. Closer(req, {w}, last, w, size)
    BY <2>3, <2>4 DEF Closer
  <2> QED BY <2>2, <2>5, <2>6
<1>2. CASE ~ used \/ req = {}
  <2>1. (IF used THEN Grant(req, last) ELSE {}) = {} /\ Moved(last, Grant(req, last), used) = last
    BY <1>2 DEF Grant, Moved
  <2>2. \A i \in req : Rank(i, last, size) \in Int
    BY DEF Rank
  <2> QED BY <2>1, <2>2 DEF Closer
<1> QED BY <1>1, <1>2

-----------------------------------------------------------------------------
(* The arbiters of a router.                                               *)

\* The requesters of the three stages are numbers of their arbiter's inputs.
LEMMA RequestsAreInputs ==
  ASSUME NEW r, NEW p \in Ports, NEW pick
  PROVE  /\ 5 * NUM_VCS \in Nat /\ NUM_VCS \in Nat
         /\ VcReq(r, p) \in SUBSET (0 .. 5 * NUM_VCS - 1)
         /\ Eligible(r, p) \in SUBSET (0 .. NUM_VCS - 1)
         /\ Want(r, pick, p) \in SUBSET (0 .. 5 - 1)
<1>1. VcReq(r, p) \subseteq Requesters
  BY DEF VcReq, Waiting
<1>2. Eligible(r, p) \subseteq VCs
  BY DEF Eligible
<1>3. Want(r, pick, p) \subseteq Ports
  BY DEF Want
<1> QED BY <1>1, <1>2, <1>3, NocAssumption DEF Requesters, VCs, Ports

\* With one VC the pick is what an arbiter of one requester would grant.
LEMMA PickIsGrant ==
  ASSUME NEW r, NEW p \in Ports, r.in_last[p] \in 0 .. NUM_VCS
  PROVE  Pick(r, p) = Grant(Eligible(r, p), r.in_last[p])
<1>1. CASE NUM_VCS = 1
  <2>1. Eligible(r, p) \in SUBSET {0}
    BY <1>1, RequestsAreInputs
  <2>2. /\ 1 \in Nat /\ Eligible(r, p) \in SUBSET (0 .. 1 - 1)
        /\ r.in_last[p] \in 0 .. 1
    BY <1>1, <2>1
  <2> DEFINE els == Eligible(r, p)
             last == r.in_last[p]
  <2> HIDE DEF els, last
  <2>3. /\ Grant(els, last) = {} <=> els = {}
        /\ els # {} => \E w \in els : Grant(els, last) = {w}
    BY <2>2, GrantIsOneHot DEF els, last
  <2>4. Grant(els, last) = els
    BY <2>1, <2>3 DEF els
  <2> QED BY <1>1, <2>4 DEF Pick, els, last
<1>2. CASE NUM_VCS # 1
  BY <1>2 DEF Pick
<1> QED BY <1>1, <1>2

\* The orders the arbiters of the routers keep.
ArbitersOK ==
  \A n \in Nodes, p \in Ports :
    /\ router[n].va_last[p] \in 0 .. 5 * NUM_VCS
    /\ router[n].in_last[p] \in 0 .. NUM_VCS
    /\ router[n].out_last[p] \in 0 .. 5

\* After reset every requester counts as below the last winner.
LEMMA InitArbiters == Init => ArbitersOK
<1> SUFFICES ASSUME Init, NEW n \in Nodes, NEW p \in Ports
             PROVE  /\ router[n].va_last[p] \in 0 .. 5 * NUM_VCS
                    /\ router[n].in_last[p] \in 0 .. NUM_VCS
                    /\ router[n].out_last[p] \in 0 .. 5
  BY DEF ArbitersOK
<1>1. router[n] = RouterReset
  BY DEF Init
<1>2. /\ RouterReset.va_last[p] = 5 * NUM_VCS /\ RouterReset.in_last[p] = NUM_VCS
      /\ RouterReset.out_last[p] = 5
  BY DEF RouterReset
<1> QED BY <1>1, <1>2, NocAssumption

\* What a clock does to the arbiters.
LEMMA NextArbiters ==
  ASSUME Next, NEW n \in Nodes, NEW p \in Ports
  PROVE  LET r == router[n] IN
         /\ router'[n].va_last[p] = Moved(r.va_last[p], Grant(VcReq(r, p), r.va_last[p]), TRUE)
         /\ router'[n].in_last[p] = Moved(r.in_last[p], Pick(r, p),
              (IF PopsNow(n, p) THEN Pick(r, p) ELSE {}) # {})
         /\ router'[n].out_last[p] = Moved(r.out_last[p], WinNow(n, p), TRUE)
<1> DEFINE r == router[n]
           win == Wins(r, Picks(r))
           W == Wires(r, Picks(r), win)
<1>1. PICK in_fwd, out_bwd : router'[n] = RouterNext(n, r, W, in_fwd, out_bwd)
  <2>1. PICK hold, keep : Clock(hold, keep)
    BY DEF Next
  <2>2. PICK pick \in {[m \in Nodes |-> Picks(router[m])]},
             tx \in {[m \in Nodes |-> Tx(m, hold)]}, rx \in {[m \in Nodes |-> Rx(m, keep)]} :
             \E wn \in {[m \in Nodes |-> Wins(router[m], pick[m])]} :
             \E w \in {[m \in Nodes |-> Wires(router[m], pick[m], wn[m])]} :
             \E fwd \in {[m \in Nodes |-> InFwd(w, m, tx[m])]},
                bwd \in {[m \in Nodes |-> OutBwd(m, rx[m])]} : ClockWith(w, tx, rx, fwd, bwd)
    BY <2>1 DEF Clock
  <2>3. PICK wn \in {[m \in Nodes |-> Wins(router[m], pick[m])]} :
             \E w \in {[m \in Nodes |-> Wires(router[m], pick[m], wn[m])]} :
             \E fwd, bwd : ClockWith(w, tx, rx, fwd, bwd)
    BY <2>2
  <2>4. PICK w \in {[m \in Nodes |-> Wires(router[m], pick[m], wn[m])]} :
             \E fwd, bwd : ClockWith(w, tx, rx, fwd, bwd)
    BY <2>3
  <2>5. pick[n] = Picks(r) /\ wn[n] = win /\ w[n] = W
    BY <2>2, <2>3, <2>4
  <2>6. PICK fwd, bwd : ClockWith(w, tx, rx, fwd, bwd)
    BY <2>4
  <2>7. router' = [m \in Nodes |-> RouterNext(m, router[m], w[m], fwd[m], bwd[m])]
    BY <2>6 DEF ClockWith
  <2> QED BY <2>5, <2>7
<1>2. /\ router'[n].va_last = [port \in Ports |-> Moved(r.va_last[port], W.va_win[port], TRUE)]
      /\ router'[n].in_last = [q \in Ports |-> InLastNext(r, W, q)]
      /\ router'[n].out_last = [port \in Ports |-> Moved(r.out_last[port], W.win[port], TRUE)]
  BY <1>1 DEF RouterNext
<1>3. /\ W.va_win = [port \in Ports |-> Grant(VcReq(r, port), r.va_last[port])]
      /\ W.win = win /\ W.pick = Picks(r)
      /\ W.pop = [q \in Ports |-> IF \E port \in Ports : q \in win[port] THEN Picks(r)[q] ELSE {}]
  BY DEF Wires
<1>4. Picks(r)[p] = Pick(r, p)
  BY DEF Picks
<1>5. PopsNow(n, p) <=> \E port \in Ports : p \in win[port]
  BY DEF PopsNow, WinNow
<1>6. W.pop[p] = IF PopsNow(n, p) THEN Pick(r, p) ELSE {}
  BY <1>3, <1>4, <1>5
<1>7. InLastNext(r, W, p) = Moved(r.in_last[p], W.pick[p], W.pop[p] # {})
  BY DEF InLastNext
<1>8. win[p] = WinNow(n, p)
  BY DEF WinNow
<1>9. router'[n].va_last[p] = Moved(r.va_last[p], Grant(VcReq(r, p), r.va_last[p]), TRUE)
  BY <1>2, <1>3
<1>10. router'[n].in_last[p]
         = Moved(r.in_last[p], Pick(r, p), (IF PopsNow(n, p) THEN Pick(r, p) ELSE {}) # {})
  <2>1. router'[n].in_last[p] = InLastNext(r, W, p)
    BY <1>2
  <2>2. W.pick[p] = Pick(r, p)
    BY <1>3, <1>4
  <2> QED BY <2>1, <2>2, <1>6, <1>7
<1>11. router'[n].out_last[p] = Moved(r.out_last[p], WinNow(n, p), TRUE)
  <2>1. W.win[p] = WinNow(n, p)
    BY <1>3, <1>8
  <2>2. router'[n].out_last[p] = Moved(r.out_last[p], W.win[p], TRUE)
    BY <1>2
  <2> QED BY <2>1, <2>2
<1> QED BY <1>9, <1>10, <1>11

\* The three arbiters of port p as requests, last winner and used or not.
LEMMA StepArbiters ==
  ASSUME Next, ArbitersOK, NEW n \in Nodes, NEW p \in Ports
  PROVE  LET r == router[n] IN
         /\ router'[n].va_last[p] \in 0 .. 5 * NUM_VCS
         /\ router'[n].in_last[p] \in 0 .. NUM_VCS
         /\ router'[n].out_last[p] \in 0 .. 5
         /\ Closer(VcReq(r, p), Grant(VcReq(r, p), r.va_last[p]), r.va_last[p],
                   router'[n].va_last[p], 5 * NUM_VCS)
         /\ Closer(Eligible(r, p), IF PopsNow(n, p) THEN PickNow(n, p) ELSE {}, r.in_last[p],
                   router'[n].in_last[p], NUM_VCS)
         /\ Closer(Want(r, Picks(r), p), WinNow(n, p), r.out_last[p], router'[n].out_last[p], 5)
<1> DEFINE r == router[n]
           els == Eligible(r, p)
           used == PopsNow(n, p) /\ els # {}
<1>1. /\ r.va_last[p] \in 0 .. 5 * NUM_VCS /\ r.in_last[p] \in 0 .. NUM_VCS
      /\ r.out_last[p] \in 0 .. 5
  BY DEF ArbitersOK
<1>2. /\ 5 * NUM_VCS \in Nat /\ NUM_VCS \in Nat /\ 5 \in Nat
      /\ VcReq(r, p) \in SUBSET (0 .. 5 * NUM_VCS - 1)
      /\ els \in SUBSET (0 .. NUM_VCS - 1)
      /\ Want(r, Picks(r), p) \in SUBSET (0 .. 5 - 1)
  BY RequestsAreInputs
<1>3. /\ Pick(r, p) = Grant(els, r.in_last[p])
      /\ PickNow(n, p) = Grant(els, r.in_last[p])
  BY <1>1, PickIsGrant DEF PickNow
<1>4. WinNow(n, p) = Grant(Want(r, Picks(r), p), r.out_last[p])
  BY DEF WinNow, Wins
<1>5. /\ Closer(VcReq(r, p), Grant(VcReq(r, p), r.va_last[p]), r.va_last[p],
                router'[n].va_last[p], 5 * NUM_VCS)
      /\ router'[n].va_last[p] \in 0 .. 5 * NUM_VCS
  <2>1. router'[n].va_last[p] = Moved(r.va_last[p], Grant(VcReq(r, p), r.va_last[p]), TRUE)
    BY NextArbiters
  <2>2. Closer(VcReq(r, p), IF TRUE THEN Grant(VcReq(r, p), r.va_last[p]) ELSE {}, r.va_last[p],
               Moved(r.va_last[p], Grant(VcReq(r, p), r.va_last[p]), TRUE), 5 * NUM_VCS)
    BY <1>1, <1>2, TurnCloser
  <2>3. Moved(r.va_last[p], Grant(VcReq(r, p), r.va_last[p]), TRUE) \in 0 .. 5 * NUM_VCS
    BY <1>1, <1>2, MovedType
  <2> QED BY <2>1, <2>2, <2>3
<1>6. /\ Closer(Want(r, Picks(r), p), WinNow(n, p), r.out_last[p], router'[n].out_last[p], 5)
      /\ router'[n].out_last[p] \in 0 .. 5
  <2> DEFINE req == Want(r, Picks(r), p)
  <2>1. router'[n].out_last[p] = Moved(r.out_last[p], Grant(req, r.out_last[p]), TRUE)
    BY NextArbiters, <1>4
  <2>2. Closer(req, IF TRUE THEN Grant(req, r.out_last[p]) ELSE {}, r.out_last[p],
               Moved(r.out_last[p], Grant(req, r.out_last[p]), TRUE), 5)
    BY <1>1, <1>2, TurnCloser
  <2>3. Moved(r.out_last[p], Grant(req, r.out_last[p]), TRUE) \in 0 .. 5
    BY <1>1, <1>2, MovedType
  <2> QED BY <2>1, <2>2, <2>3, <1>4
<1>7. /\ Closer(els, IF PopsNow(n, p) THEN PickNow(n, p) ELSE {}, r.in_last[p],
                router'[n].in_last[p], NUM_VCS)
      /\ router'[n].in_last[p] \in 0 .. NUM_VCS
  <2> DEFINE g == Grant(els, r.in_last[p])
  <2>1. g = {} <=> els = {}
    BY <1>1, <1>2, GrantIsOneHot
  <2>2. used \in BOOLEAN
    BY DEF PopsNow
  <2>3. (IF PopsNow(n, p) THEN g ELSE {}) = (IF used THEN g ELSE {})
    BY <2>1
  <2>4. ((IF PopsNow(n, p) THEN g ELSE {}) # {}) <=> used
    BY <2>1
  <2>5. router'[n].in_last[p] = Moved(r.in_last[p], g, used)
    BY NextArbiters, <1>3, <2>4, <2>2 DEF Moved
  <2>6. Closer(els, IF used THEN g ELSE {}, r.in_last[p], Moved(r.in_last[p], g, used), NUM_VCS)
    BY <1>1, <1>2, <2>2, TurnCloser
  <2>7. Moved(r.in_last[p], g, used) \in 0 .. NUM_VCS
    BY <1>1, <1>2, <2>2, MovedType
  <2> QED BY <1>3, <2>3, <2>5, <2>6, <2>7
<1> QED BY <1>5, <1>6, <1>7

-----------------------------------------------------------------------------
\* The orders of the arbiters stay orders of their requesters.
THEOREM ArbitersStayOK == Spec => []ArbitersOK
<1>1. ArbitersOK /\ [Next]_vars => ArbitersOK'
  <2> SUFFICES ASSUME ArbitersOK, [Next]_vars PROVE ArbitersOK'
    OBVIOUS
  <2>1. CASE Next
    <3>1. \A n \in Nodes, p \in Ports : /\ router'[n].va_last[p] \in 0 .. 5 * NUM_VCS
                                        /\ router'[n].in_last[p] \in 0 .. NUM_VCS
                                        /\ router'[n].out_last[p] \in 0 .. 5
      BY <2>1, StepArbiters
    <3> QED BY <3>1 DEF ArbitersOK
  <2>2. CASE UNCHANGED vars
    BY <2>2 DEF vars, ArbitersOK
  <2> QED BY <2>1, <2>2
<1> QED BY <1>1, InitArbiters, PTL DEF Spec

\* Nobody loses a turn: in every mesh, with every number of VCs, a requester
\* that keeps requesting wins after at most as many used grants of others as
\* there are requesters before it, since each brings it closer.
THEOREM NobodyLosesATurn == Spec => TurnsComeCloser
<1>1. ArbitersOK /\ [Next]_vars => [TurnComesCloser]_vars
  <2> SUFFICES ASSUME ArbitersOK, Next PROVE TurnComesCloser
    OBVIOUS
  <2> QED BY StepArbiters DEF TurnComesCloser
<1> QED BY <1>1, ArbitersStayOK, PTL DEF Spec, TurnsComeCloser

-----------------------------------------------------------------------------
(* Routes.                                                                 *)

Abs(x) == IF x < 0 THEN 0 - x ELSE x
Distance(at, dest) == Abs(dest[1] - at[1]) + Abs(dest[2] - at[2])

\* In a mesh of any size a packet leaves a router by the local port only at
\* its destination, and by any other port over a link of the mesh, never over
\* an edge, to a router closer to it; and once it moves north or south it
\* never turns east or west again, so that routes make no cycle of links.
THEOREM RouteLeadsHome ==
  ASSUME NEW at \in Nodes, NEW dest \in Nodes
  PROVE  LET port == XyPort(at, dest)
             next == Neighbor(at, port)
         IN  /\ port \in Ports
             /\ port = LOCAL_PORT <=> at = dest
             /\ port # LOCAL_PORT =>
                  /\ Linked(at, port)
                  /\ Distance(next, dest) = Distance(at, dest) - 1
                  /\ port \in {NORTH, SOUTH} => XyPort(next, dest) \notin {WEST, EAST}
<1> USE DEF NORTH, SOUTH, WEST, EAST, LOCAL_PORT
<1>1. PICK x \in 0 .. X_SIZE - 1, y \in 0 .. Y_SIZE - 1 : at = <<x, y>>
  BY DEF Nodes
<1>2. PICK u \in 0 .. X_SIZE - 1, v \in 0 .. Y_SIZE - 1 : dest = <<u, v>>
  BY DEF Nodes
<1>3. X_SIZE \in Nat /\ Y_SIZE \in Nat
  BY MeshAssumption
<1>4. \A i, j \in Int : <<i, j>> \in Nodes <=> i \in 0 .. X_SIZE - 1 /\ j \in 0 .. Y_SIZE - 1
  BY DEF Nodes
<1>5. CASE u < x
  <2>1. XyPort(at, dest) = WEST /\ Neighbor(at, WEST) = <<x - 1, y>>
    BY <1>1, <1>2, <1>5 DEF XyPort, Neighbor
  <2>2. x - 1 \in 0 .. X_SIZE - 1
    BY <1>3, <1>5
  <2> QED BY <1>1, <1>2, <1>3, <1>4, <1>5, <2>1, <2>2 DEF Ports, Linked, Distance, Abs
<1>6. CASE x < u
  <2>1. XyPort(at, dest) = EAST /\ Neighbor(at, EAST) = <<x + 1, y>>
    BY <1>1, <1>2, <1>6 DEF XyPort, Neighbor
  <2>2. x + 1 \in 0 .. X_SIZE - 1
    BY <1>3, <1>6
  <2> QED BY <1>1, <1>2, <1>3, <1>4, <1>6, <2>1, <2>2 DEF Ports, Linked, Distance, Abs
<1>7. CASE x = u /\ v < y
  <2>1. XyPort(at, dest) = SOUTH /\ Neighbor(at, SOUTH) = <<x, y - 1>>
    BY <1>1, <1>2, <1>7 DEF XyPort, Neighbor
  <2>2. y - 1 \in 0 .. Y_SIZE - 1
    BY <1>3, <1>7
  <2>3. XyPort(<<x, y - 1>>, dest) \notin {WEST, EAST}
    BY <1>2, <1>7 DEF XyPort
  <2> QED BY <1>1, <1>2, <1>3, <1>4, <1>7, <2>1, <2>2, <2>3 DEF Ports, Linked, Distance, Abs
<1>8. CASE x = u /\ y < v
  <2>1. XyPort(at, dest) = NORTH /\ Neighbor(at, NORTH) = <<x, y + 1>>
    BY <1>1, <1>2, <1>8 DEF XyPort, Neighbor
  <2>2. y + 1 \in 0 .. Y_SIZE - 1
    BY <1>3, <1>8
  <2>3. XyPort(<<x, y + 1>>, dest) \notin {WEST, EAST}
    BY <1>2, <1>8 DEF XyPort
  <2> QED BY <1>1, <1>2, <1>3, <1>4, <1>8, <2>1, <2>2, <2>3 DEF Ports, Linked, Distance, Abs
<1>9. CASE x = u /\ y = v
  BY <1>1, <1>2, <1>9 DEF XyPort, Ports
<1> QED BY <1>3, <1>5, <1>6, <1>7, <1>8, <1>9
-----------------------------------------------------------------------------
(* The slots of a buffer.                                                  *)

\* Twice a power of 2 is one.
LEMMA TwicePowerOf2 ==
  ASSUME NEW s \in Nat, PowerOf2(s)
  PROVE  PowerOf2(2 * s)
<1> SUFFICES ASSUME NEW d \in 2 .. 2 * s, NEW k \in 1 .. 2 * s, d * k = 2 * s, d % 2 # 0
             PROVE  FALSE
  BY DEF PowerOf2
<1>1. PICK i \in Nat : d = 2 * i + 1
  <2>1. d = 2 * (d \div 2) + (d % 2) /\ d % 2 \in {0, 1} /\ d \div 2 \in Nat
    OBVIOUS
  <2> QED BY <2>1
<1>2. CASE k % 2 = 0
  <2>1. PICK j \in Nat : k = 2 * j
    BY <1>2
  <2>2. d * k = 2 * (d * j) /\ d * j \in Nat
    BY <2>1, SMTT(30)
  <2>3. d * j = s
    BY <2>2
  <2>4. j # 0
    BY <2>1
  <2>5. d <= d * j /\ j <= d * j
    BY <2>4, SMTT(30)
  <2>6. d \in 2 .. s /\ j \in 1 .. s
    BY <2>3, <2>4, <2>5
  <2> QED BY <2>3, <2>6 DEF PowerOf2
<1>3. CASE k % 2 # 0
  <2>1. PICK j \in Nat : k = 2 * j + 1
    <3>1. k = 2 * (k \div 2) + (k % 2) /\ k % 2 \in {0, 1} /\ k \div 2 \in Nat
      OBVIOUS
    <3> QED BY <1>3, <3>1
  <2>2. d * k = 2 * (2 * (i * j) + i + j) + 1 /\ i * j \in Nat
    BY <1>1, <2>1, SMTT(30)
  <2> QED BY <2>2
<1> QED BY <1>2, <1>3

RoundsUp(n, s) == s \in 2 .. 2 * n /\ PowerOf2(s) /\ n <= s /\ (s < 2 * n \/ s = 2)

\* Every depth can be rounded up to a power of 2.
LEMMA RoundingUp == \A n \in Nat \ {0} : \E s \in Nat : RoundsUp(n, s)
<1> DEFINE Bad == {n \in Nat \ {0} : ~ \E s \in Nat : RoundsUp(n, s)}
<1> SUFFICES Bad = {}
  OBVIOUS
<1> SUFFICES ASSUME Bad # {} PROVE FALSE
  OBVIOUS
<1>1. PICK n \in Bad : \A m \in Bad : ~ (m < n)
  <2>1. PICK n \in Bad : \A m \in Bad : <<m, n>> \notin OpToRel(<, Nat)
    <3>1. Bad \subseteq Nat
      OBVIOUS
    <3> QED BY <3>1, NatLessThanWellFounded, WFMin
  <2>2. \A m \in Bad : ~ (m < n)
    BY <2>1 DEF OpToRel
  <2> QED BY <2>2
<1>2. n \in Nat /\ n # 0 /\ \A s \in Nat : ~ RoundsUp(n, s)
  OBVIOUS
<1>3. PowerOf2(2)
  BY DEF PowerOf2
<1>4. CASE n <= 2
  <2>1. RoundsUp(n, 2)
    BY <1>2, <1>3, <1>4 DEF RoundsUp
  <2> QED BY <1>2, <2>1
<1>5. CASE 2 < n
  <2> DEFINE m == (n + 1) \div 2
  <2>1. m \in Nat /\ 2 <= m /\ m < n /\ n <= 2 * m /\ 2 * m <= n + 1
    BY <1>2, <1>5
  <2>2. m \notin Bad
    BY <1>1, <2>1
  <2> HIDE DEF m
  <2>3. PICK s \in Nat : RoundsUp(m, s)
    BY <2>1, <2>2
  <2>4. /\ s \in 2 .. 2 * m /\ PowerOf2(s) /\ m <= s /\ (s < 2 * m \/ s = 2)
    BY <2>3 DEF RoundsUp
  <2>5. PowerOf2(2 * s)
    BY <2>4, TwicePowerOf2
  <2>6. s % 2 = 0
    <3>1. s * 1 = s /\ s \in 2 .. s /\ 1 \in 1 .. s
      BY <2>1, <2>4
    <3> QED BY <2>4, <3>1 DEF PowerOf2
  <2>7. s < n
    <3>1. CASE s = 2
      BY <1>5, <3>1
    <3>2. CASE s < 2 * m
      BY <1>2, <2>1, <2>4, <2>6, <3>2, n % 2 \in {0, 1} DEF m
    <3> QED BY <2>4, <3>1, <3>2
  <2>8. RoundsUp(n, 2 * s)
    BY <1>2, <2>1, <2>4, <2>5, <2>7 DEF RoundsUp
  <2> QED BY <1>2, <2>8
<1> QED BY <1>2, <1>4, <1>5

\* A buffer has as many slots as there are credits for it, or more.
LEMMA SlotsEnough == BufSlots \in Nat /\ BUF_DEPTH <= BufSlots
<1>1. PICK s \in Nat : RoundsUp(BUF_DEPTH, s)
  BY RoundingUp, NocAssumption
<1>2. RoundsUp(BUF_DEPTH, BufSlots)
  <2>1. /\ s \in 2 .. 2 * BUF_DEPTH
        /\ PowerOf2(s) /\ BUF_DEPTH <= s /\ (s < 2 * BUF_DEPTH \/ s = 2)
    BY <1>1 DEF RoundsUp
  <2> QED BY <2>1 DEF BufSlots, RoundsUp
<1> QED BY <1>2, NocAssumption DEF RoundsUp

-----------------------------------------------------------------------------
(* The wires of a router, and its registers a clock later.                 *)

\* A set of flits closed under a change of the virtual channel.
FlitSet(flits) ==
  /\ None \notin flits
  /\ \A f \in flits : /\ f.vc \in VCs
                   /\ \A v \in VCs : /\ [f EXCEPT !.vc = v] \in flits
                                     /\ [f EXCEPT !.vc = v].vc = v
                                     /\ [f EXCEPT !.vc = v].pkt = f.pkt
                                     /\ [f EXCEPT !.vc = v].n = f.n

\* The registers of a router hold what they can hold; how the counts of
\* credits are bounded takes the other end of the link to say.
RouterOK(r, flits) ==
  \A p \in Ports :
    /\ r.va_last[p] \in 0 .. 5 * NUM_VCS /\ r.in_last[p] \in 0 .. NUM_VCS
    /\ r.out_last[p] \in 0 .. 5
    /\ r.credit_q[p] \in MaybeVc
    /\ \A v \in VCs : /\ r.vc[p][v] \in InVcState
                      /\ r.buf[p][v] \in Seq(flits)
                      /\ r.credits[p][v] \in Nat
                      /\ r.taken[p][v] \in BOOLEAN

\* The wires as the registers alone determine them.
Now(r) == Wires(r, Picks(r), Wins(r, Picks(r)))

LEMMA VcsAre == VCs = 0 .. NUM_VCS - 1 /\ NUM_VCS \in Nat \ {0} /\ None \notin VCs
  BY NocAssumption, MeshAssumption DEF VCs

\* An input port picks one of its eligible VCs, or none.
LEMMA PickIsOneHot ==
  ASSUME NEW r, NEW flits, RouterOK(r, flits), NEW p \in Ports
  PROVE  Pick(r, p) = {} \/ \E v \in Eligible(r, p) : Pick(r, p) = {v}
<1>1. r.in_last[p] \in 0 .. NUM_VCS
  BY DEF RouterOK
<1> DEFINE els == Eligible(r, p)
           last == r.in_last[p]
<1>2. Pick(r, p) = Grant(els, last)
  BY <1>1, PickIsGrant
<1>3. /\ NUM_VCS \in Nat /\ els \in SUBSET (0 .. NUM_VCS - 1)
      /\ last \in 0 .. NUM_VCS
  BY <1>1, RequestsAreInputs
<1> HIDE DEF els, last
<1>4. /\ Grant(els, last) = {} <=> els = {}
      /\ els # {} => \E w \in els : Grant(els, last) = {w}
  BY <1>3, GrantIsOneHot
<1> QED BY <1>2, <1>4 DEF els

\* A pop takes the flit at the front of one VC of the port.
LEMMA PopIs ==
  ASSUME NEW r, NEW flits, RouterOK(r, flits), NEW p \in Ports
  PROVE  \/ Now(r).pop[p] = {}
         \/ \E v \in VCs : Now(r).pop[p] = {v} /\ r.buf[p][v] # <<>>
<1>1. Now(r).pop[p] = {} \/ Now(r).pop[p] = Pick(r, p)
  BY DEF Now, Wires, Picks
<1>2. \A v \in Eligible(r, p) : v \in VCs /\ r.buf[p][v] # <<>>
  BY DEF Eligible
<1> QED BY <1>1, <1>2, PickIsOneHot

\* A flit goes out on a port: from the front of an eligible VC whose packet
\* goes there, on the virtual channel it was given.
LEMMA OutIs ==
  ASSUME NEW r, NEW flits, RouterOK(r, flits), NEW port \in Ports
  PROVE  \/ Now(r).out_fwd[port] = None
         \/ \E p \in Ports : \E v \in Eligible(r, p) :
              /\ r.vc[p][v].route = port
              /\ Now(r).out_fwd[port] = [Head(r.buf[p][v]) EXCEPT !.vc = r.vc[p][v].out_vc]
<1> DEFINE pick == Picks(r)
           want == Want(r, pick, port)
           win  == Wins(r, pick)
           last == r.out_last[port]
<1>1. Now(r).out_fwd[port] = IF win[port] = {} THEN None
                             ELSE Picked(r, pick, CHOOSE p \in win[port] : TRUE)
  BY DEF Now, Wires
<1>2. win[port] = Grant(want, last)
  BY DEF Wins
<1>3. 5 \in Nat /\ want \in SUBSET (0 .. 5 - 1) /\ last \in 0 .. 5
  BY RequestsAreInputs DEF RouterOK
<1>4. \A p \in want : p \in Ports /\ \E v \in pick[p] : r.vc[p][v].route = port
  BY DEF Want
<1>5. \A p \in Ports : pick[p] = Pick(r, p)
  BY DEF Picks
<1> HIDE DEF pick, want, win, last
<1>6. /\ Grant(want, last) = {} <=> want = {}
      /\ want # {} => \E p \in want : Grant(want, last) = {p}
  BY <1>3, GrantIsOneHot
<1>7. CASE Grant(want, last) = {}
  BY <1>1, <1>2, <1>7
<1>8. ASSUME NEW p \in want, Grant(want, last) = {p}
      PROVE  \E v \in Eligible(r, p) :
              /\ r.vc[p][v].route = port
              /\ Now(r).out_fwd[port] = [Head(r.buf[p][v]) EXCEPT !.vc = r.vc[p][v].out_vc]
  <2>1. (CHOOSE q \in win[port] : TRUE) = p /\ win[port] # {}
    BY <1>2, <1>8
  <2>2. p \in Ports
    BY <1>4
  <2>3. PICK v \in pick[p] : r.vc[p][v].route = port
    BY <1>4
  <2>4. v \in Eligible(r, p) /\ pick[p] = {v}
    BY <1>5, <2>2, <2>3, PickIsOneHot
  <2>5. (CHOOSE u \in pick[p] : TRUE) = v
    BY <2>4
  <2>6. Picked(r, pick, p) = [Head(r.buf[p][v]) EXCEPT !.vc = r.vc[p][v].out_vc]
    BY <2>5 DEF Picked
  <2> QED BY <1>1, <2>1, <2>3, <2>4, <2>6
<1> QED BY <1>4, <1>6, <1>7, <1>8

\* What goes out is a flit, and it goes only with a credit.
LEMMA OutFlit ==
  ASSUME NEW r, NEW flits, FlitSet(flits), RouterOK(r, flits), NEW port \in Ports
  PROVE  /\ Now(r).out_fwd[port] \in flits \cup {None}
         /\ \A v \in VCs : OnVc(Now(r).out_fwd[port], v) => r.credits[port][v] > 0
<1> DEFINE out == Now(r).out_fwd[port]
<1>1. CASE out = None
  BY <1>1 DEF OnVc
<1>2. ASSUME NEW p \in Ports, NEW v \in Eligible(r, p), r.vc[p][v].route = port,
             out = [Head(r.buf[p][v]) EXCEPT !.vc = r.vc[p][v].out_vc]
      PROVE  /\ out \in flits
             /\ \A w \in VCs : OnVc(out, w) => r.credits[port][w] > 0
  <2> DEFINE c == r.vc[p][v].out_vc
             f == Head(r.buf[p][v])
  <2>1. v \in VCs /\ r.buf[p][v] # <<>> /\ r.credits[port][c] > 0
    BY <1>2 DEF Eligible
  <2>2. r.buf[p][v] \in Seq(flits) /\ r.vc[p][v] \in InVcState
    BY <2>1 DEF RouterOK
  <2>3. f \in flits
    BY <2>1, <2>2
  <2>4. c \in VCs
    BY <2>2 DEF InVcState
  <2>5. [f EXCEPT !.vc = c] \in flits /\ [f EXCEPT !.vc = c].vc = c
    BY <2>3, <2>4 DEF FlitSet
  <2>6. out = [f EXCEPT !.vc = c]
    BY <1>2
  <2> HIDE DEF f, c
  <2>7. out \in flits
    BY <2>5, <2>6
  <2>8. out # None
    BY <2>7 DEF FlitSet
  <2> SUFFICES ASSUME NEW w \in VCs, out.vc = w PROVE r.credits[port][w] > 0
    BY <2>7, <2>8 DEF OnVc
  <2> QED BY <2>1, <2>5, <2>6
<1> HIDE DEF out
<1>3. \/ out = None
      \/ \E p \in Ports : \E v \in Eligible(r, p) :
           /\ r.vc[p][v].route = port
           /\ out = [Head(r.buf[p][v]) EXCEPT !.vc = r.vc[p][v].out_vc]
  BY OutIs DEF out
<1> QED BY <1>1, <1>2, <1>3 DEF out

\* A buffer takes the flit that comes for it, if it has a slot, and gives up
\* the one that is popped.
LEMMA BufStep ==
  ASSUME NEW r, NEW flits, RouterOK(r, flits), NEW p \in Ports, NEW v \in VCs,
         NEW flit \in flits \cup {None}
  PROVE  LET next == BufNext(r, Now(r), p, v, flit) IN
         /\ next \in Seq(flits)
         /\ (OnVc(flit, v) => Len(r.buf[p][v]) < BufSlots) =>
              Len(next) = Len(r.buf[p][v]) + Bit(OnVc(flit, v)) - Bit(v \in Now(r).pop[p])
<1> DEFINE buf == r.buf[p][v]
           pops == v \in Now(r).pop[p]
           comes == OnVc(flit, v)
           popped == IF pops THEN Tail(buf) ELSE buf
<1>1. buf \in Seq(flits)
  BY DEF RouterOK
<1>2. pops => buf # <<>>
  BY PopIs
<1>3. comes => flit \in flits
  BY DEF OnVc
<1>4. BufNext(r, Now(r), p, v, flit)
        = IF comes /\ Len(buf) < BufSlots THEN Append(popped, flit) ELSE popped
  BY DEF BufNext
<1> HIDE DEF buf, pops, comes
<1>5. popped \in Seq(flits) /\ Len(popped) = Len(buf) - Bit(pops)
  <2>1. CASE pops
    <3>1. Tail(buf) \in Seq(flits) /\ Len(Tail(buf)) = Len(buf) - 1
      BY <1>1, <1>2, <2>1
    <3> QED BY <2>1, <3>1 DEF Bit
  <2>2. CASE ~ pops
    BY <1>1, <2>2 DEF Bit
  <2> QED BY <2>1, <2>2
<1> DEFINE next == IF comes /\ Len(buf) < BufSlots THEN Append(popped, flit) ELSE popped
<1> HIDE DEF popped
<1>6. Len(buf) \in Nat /\ Bit(pops) \in Int
  BY <1>1 DEF Bit
<1>7. CASE comes /\ Len(buf) < BufSlots
  <2>1. next \in Seq(flits) /\ Len(next) = Len(popped) + 1
    BY <1>3, <1>5, <1>7
  <2>2. Bit(comes) = 1
    BY <1>7 DEF Bit
  <2> QED BY <1>4, <1>5, <1>6, <2>1, <2>2 DEF buf, pops, comes
<1>8. CASE ~ (comes /\ Len(buf) < BufSlots)
  <2>1. next = popped
    BY <1>8
  <2>2. (comes => Len(buf) < BufSlots) => Bit(comes) = 0
    BY <1>3, <1>8 DEF Bit
  <2> QED BY <1>4, <1>5, <1>6, <2>1, <2>2 DEF buf, pops, comes
<1> QED BY <1>7, <1>8

LEMMA XyPortIsPort ==
  ASSUME NEW at, NEW dest
  PROVE  XyPort(at, dest) \in Ports
  BY DEF XyPort, Ports, LOCAL_PORT, NORTH, SOUTH, WEST, EAST

\* An output port that grants a VC has one that is free.
LEMMA GivenVcIsFree ==
  ASSUME NEW r, NEW flits, RouterOK(r, flits), NEW port \in Ports, Now(r).va_win[port] # {}
  PROVE  /\ Highest(FreeVcs(r, port)) \in FreeVcs(r, port)
         /\ Highest(FreeVcs(r, port)) \in VCs
<1> DEFINE free == FreeVcs(r, port)
<1>1. Now(r).va_win[port] = Grant(VcReq(r, port), r.va_last[port])
  BY DEF Now, Wires
<1>2. VcReq(r, port) # {}
  <2>1. \A last : Grant({}, last) = {}
    BY DEF Grant
  <2> QED BY <1>1, <2>1
<1>3. free # {} /\ free \subseteq VCs
  BY <1>2 DEF VcReq, FreeVcs
<1> HIDE DEF free
<1>4. NUM_VCS \in Nat /\ free \in SUBSET (0 .. NUM_VCS - 1)
  BY <1>3, VcsAre
<1>5. Highest(free) \in free
  BY <1>3, <1>4, HighestIs
<1> QED BY <1>3, <1>5 DEF free

LEMMA VcStep ==
  ASSUME NEW r, NEW flits, RouterOK(r, flits), NEW at, NEW p \in Ports, NEW v \in VCs
  PROVE  VcNext(at, r, Now(r), p, v) \in InVcState
<1> DEFINE s == r.vc[p][v]
           port == XyPort(at, Head(r.buf[p][v]).pkt.dest)
           new  == Highest(FreeVcs(r, s.route))
<1>1. s \in InVcState
  BY DEF RouterOK
<1>2. port \in Ports
  BY XyPortIsPort
<1>3. IsGranted(Now(r), s.route, p, v) => new \in VCs
  <2>1. s.route \in Ports
    BY <1>1 DEF InVcState
  <2> HIDE DEF s
  <2>2. ASSUME IsGranted(Now(r), s.route, p, v) PROVE Now(r).va_win[s.route] # {}
    BY <2>2 DEF IsGranted
  <2> QED BY <2>1, <2>2, GivenVcIsFree
<1>4. \/ VcNext(at, r, Now(r), p, v) = [s EXCEPT !.state = "WAIT_VC", !.route = port]
      \/ /\ IsGranted(Now(r), s.route, p, v)
         /\ VcNext(at, r, Now(r), p, v) = [s EXCEPT !.state = "ACTIVE", !.out_vc = new]
      \/ VcNext(at, r, Now(r), p, v) = [s EXCEPT !.state = "IDLE"]
      \/ VcNext(at, r, Now(r), p, v) = s
  BY DEF VcNext
<1> HIDE DEF s, port, new
<1> QED BY <1>1, <1>2, <1>3, <1>4 DEF InVcState

\* The VC whose credit leaves next is the one that is popped.
LEMMA CreditStep ==
  ASSUME NEW r, NEW flits, RouterOK(r, flits), NEW p \in Ports
  PROVE  /\ CreditNext(Now(r), p) \in MaybeVc
         /\ \A v \in VCs : CreditNext(Now(r), p) = v <=> v \in Now(r).pop[p]
<1> DEFINE pop == Now(r).pop[p]
<1>1. CreditNext(Now(r), p) = IF pop = {} THEN None ELSE CHOOSE v \in pop : TRUE
  BY DEF CreditNext
<1>2. pop = {} \/ \E v \in VCs : pop = {v}
  BY PopIs
<1> HIDE DEF pop
<1>3. None \notin VCs
  BY VcsAre
<1>4. CASE pop = {}
  BY <1>1, <1>3, <1>4 DEF MaybeVc, pop
<1>5. ASSUME NEW v \in VCs, pop = {v}
      PROVE  CreditNext(Now(r), p) = v
  BY <1>1, <1>5
<1> QED BY <1>2, <1>4, <1>5 DEF MaybeVc, pop

\* next: the registers a clock later, component by component.
IsNext(next, at, r, in_fwd, out_bwd) ==
  \A p \in Ports :
    /\ next.credit_q[p] = CreditNext(Now(r), p)
    /\ next.va_last[p] = Moved(r.va_last[p], Now(r).va_win[p], TRUE)
    /\ next.in_last[p] = InLastNext(r, Now(r), p)
    /\ next.out_last[p] = Moved(r.out_last[p], Now(r).win[p], TRUE)
    /\ \A v \in VCs :
         /\ next.buf[p][v] = BufNext(r, Now(r), p, v, in_fwd[p])
         /\ next.vc[p][v] = VcNext(at, r, Now(r), p, v)
         /\ next.credits[p][v]
              = CreditsNext(r.credits[p][v], OnVc(Now(r).out_fwd[p], v), out_bwd[p] = v)
         /\ next.taken[p][v] = TakenNext(r, Now(r), p, v)

LEMMA RouterNextIs ==
  ASSUME NEW at, NEW r, NEW in_fwd, NEW out_bwd
  PROVE  IsNext(RouterNext(at, r, Now(r), in_fwd, out_bwd), at, r, in_fwd, out_bwd)
<1> DEFINE w == Now(r)
<1> HIDE DEF w
<1> QED BY DEF IsNext, RouterNext, w

\* A count of credits never goes below zero.
LEMMA CreditsStep ==
  ASSUME NEW count \in Nat, NEW sends \in BOOLEAN, NEW comes \in BOOLEAN, sends => count > 0
  PROVE  /\ CreditsNext(count, sends, comes) \in Nat
         /\ CreditsNext(count, sends, comes) = count - Bit(sends) + Bit(comes)
  BY DEF CreditsNext, Bit

\* A router whose inputs carry flits keeps its registers in order.
LEMMA RouterStep ==
  ASSUME NEW at, NEW r, NEW flits, FlitSet(flits), RouterOK(r, flits),
         NEW in_fwd, NEW out_bwd, \A p \in Ports : in_fwd[p] \in flits \cup {None},
         NEW next, IsNext(next, at, r, in_fwd, out_bwd),
         \A p \in Ports : /\ next.va_last[p] \in 0 .. 5 * NUM_VCS
                          /\ next.in_last[p] \in 0 .. NUM_VCS
                          /\ next.out_last[p] \in 0 .. 5
  PROVE  RouterOK(next, flits)
<1>1. ASSUME NEW p \in Ports PROVE next.credit_q[p] \in MaybeVc
  <2>1. next.credit_q[p] = CreditNext(Now(r), p)
    BY DEF IsNext
  <2> QED BY <2>1, CreditStep
<1>2. ASSUME NEW p \in Ports, NEW v \in VCs
      PROVE  /\ next.vc[p][v] \in InVcState /\ next.buf[p][v] \in Seq(flits)
             /\ next.credits[p][v] \in Nat /\ next.taken[p][v] \in BOOLEAN
  <2>1. next.vc[p][v] \in InVcState
    <3>1. next.vc[p][v] = VcNext(at, r, Now(r), p, v)
      BY DEF IsNext
    <3> QED BY <3>1, VcStep
  <2>2. next.buf[p][v] \in Seq(flits)
    <3>1. next.buf[p][v] = BufNext(r, Now(r), p, v, in_fwd[p])
      BY DEF IsNext
    <3> QED BY <3>1, BufStep
  <2>3. next.credits[p][v] \in Nat
    <3> DEFINE sends == OnVc(Now(r).out_fwd[p], v)
               comes == out_bwd[p] = v
               count == r.credits[p][v]
    <3>1. count \in Nat /\ (sends => count > 0)
      BY OutFlit DEF RouterOK
    <3>2. sends \in BOOLEAN /\ comes \in BOOLEAN
      BY DEF OnVc
    <3>3. next.credits[p][v] = CreditsNext(count, sends, comes)
      BY DEF IsNext
    <3> HIDE DEF sends, comes, count
    <3> QED BY <3>1, <3>2, <3>3, CreditsStep
  <2>4. next.taken[p][v] \in BOOLEAN
    <3>1. next.taken[p][v] = TakenNext(r, Now(r), p, v)
      BY DEF IsNext
    <3> QED BY <3>1 DEF TakenNext
  <2> QED BY <2>1, <2>2, <2>3, <2>4
<1> QED BY <1>1, <1>2 DEF RouterOK

-----------------------------------------------------------------------------
(* What a link and a sequence of credits hold, as they move by one place.  *)

\* Places that move up by one, the first filled or not, the last falling out.
LEMMA ShiftCount ==
  ASSUME NEW d \in Nat \ {0}, NEW old \in SUBSET (1 .. d), NEW first \in BOOLEAN,
         NEW new, new = {k \in 1 .. d : (k = 1 /\ first) \/ (k # 1 /\ k - 1 \in old)}
  PROVE  /\ Cardinality(old) \in Nat /\ Cardinality(new) \in Nat
         /\ Cardinality(new) = Cardinality(old) + Bit(first) - Bit(d \in old)
<1> DEFINE stay  == old \ {d}
           moved == {k \in 1 .. d : k # 1 /\ k - 1 \in old}
<1>1. IsFiniteSet(old) /\ IsFiniteSet(moved) /\ IsFiniteSet(stay)
  <2>1. IsFiniteSet(1 .. d)
    BY FS_Interval
  <2>2. old \subseteq 1 .. d /\ moved \subseteq 1 .. d /\ stay \subseteq 1 .. d
    OBVIOUS
  <2> HIDE DEF moved, stay
  <2> QED BY <2>1, <2>2, FS_Subset
<1>2. Cardinality(old) \in Nat /\ Cardinality(moved) \in Nat /\ Cardinality(stay) \in Nat
  BY <1>1, FS_CardinalityType
<1>3. Cardinality(stay) = Cardinality(moved)
  <2> DEFINE up == [k \in stay |-> k + 1]
  <2>1. up \in Bijection(stay, moved)
    <3>1. \A k \in stay : up[k] \in moved
      OBVIOUS
    <3>2. \A j, k \in stay : up[j] = up[k] => j = k
      OBVIOUS
    <3>3. \A i \in moved : \E k \in stay : up[k] = i
      <4> TAKE i \in moved
      <4>1. i - 1 \in stay /\ up[i - 1] = i
        OBVIOUS
      <4> QED BY <4>1
    <3>4. up \in [stay -> moved]
      BY <3>1
    <3> HIDE DEF up, stay, moved
    <3> QED BY <3>2, <3>3, <3>4, Fun_IsBij
  <2> HIDE DEF up, stay, moved
  <2>2. ExistsBijection(stay, moved)
    BY <2>1 DEF ExistsBijection
  <2> QED BY <2>2, <1>1, FS_Bijection
<1>4. Cardinality(stay) = Cardinality(old) - Bit(d \in old)
  <2>1. Cardinality(old \ {d}) = IF d \in old THEN Cardinality(old) - 1 ELSE Cardinality(old)
    BY <1>1, FS_RemoveElement
  <2> QED BY <1>2, <2>1 DEF Bit
<1> DEFINE in == Bit(first)
           out == Bit(d \in old)
<1>5. Cardinality(new) = Cardinality(moved) + in
  <2>1. CASE first
    <3>1. new = moved \cup {1} /\ 1 \notin moved /\ in = 1
      BY <2>1 DEF Bit
    <3> HIDE DEF moved, in
    <3>2. Cardinality(moved \cup {1}) = Cardinality(moved) + 1
      BY <1>1, <3>1, FS_AddElement
    <3> QED BY <3>1, <3>2
  <2>2. CASE ~ first
    <3>1. new = moved /\ in = 0
      BY <2>2 DEF Bit
    <3> HIDE DEF moved, in
    <3> QED BY <1>2, <3>1
  <2> QED BY <2>1, <2>2
<1>6. Bit(first) \in {0, 1} /\ Bit(d \in old) \in {0, 1}
  BY DEF Bit
<1> HIDE DEF moved, stay, in, out
<1>7. in \in {0, 1} /\ out \in {0, 1}
  BY <1>6 DEF in, out
<1>8. Cardinality(stay) = Cardinality(old) - out /\ Cardinality(new) = Cardinality(moved) + in
  BY <1>4, <1>5 DEF in, out
<1>9. Cardinality(new) = Cardinality(old) + in - out /\ Cardinality(new) \in Nat
  BY <1>2, <1>3, <1>7, <1>8
<1> QED BY <1>2, <1>9 DEF in, out

\* A clock moves the flits of a link: one comes in, one goes out.
LEMMA WireShift ==
  ASSUME NEW line, DOMAIN line = 1 .. LINK_DELAY, NEW src, NEW v
  PROVE  /\ DOMAIN Shift(line, src) = 1 .. LINK_DELAY
         /\ OnWire(line, v) \in Nat /\ OnWire(Shift(line, src), v) \in Nat
         /\ OnWire(Shift(line, src), v)
              = OnWire(line, v) + Bit(OnVc(src, v)) - Bit(OnVc(Out(line, src), v))
<1> DEFINE next == Shift(line, src)
           old == {k \in 1 .. LINK_DELAY : OnVc(line[k], v)}
           new == {k \in 1 .. LINK_DELAY : OnVc(next[k], v)}
<1>1. LINK_DELAY \in Nat
  BY MeshAssumption
<1>2. DOMAIN next = 1 .. LINK_DELAY
  BY DEF Shift
<1>3. \A k \in 1 .. LINK_DELAY : next[k] = IF k = 1 THEN src ELSE line[k - 1]
  BY DEF Shift
<1>4. OnWire(line, v) = Cardinality(old) /\ OnWire(next, v) = Cardinality(new)
  BY <1>2 DEF OnWire
<1> HIDE DEF next
<1>5. CASE LINK_DELAY = 0
  <2>1. old = {} /\ new = {}
    BY <1>5
  <2>2. Cardinality({}) = 0
    BY FS_EmptySet
  <2>3. Out(line, src) = src
    BY <1>5 DEF Out
  <2> HIDE DEF old, new
  <2> QED BY <1>2, <1>4, <2>1, <2>2, <2>3 DEF next, Bit
<1>6. CASE LINK_DELAY # 0
  <2>1. new = {k \in 1 .. LINK_DELAY : (k = 1 /\ OnVc(src, v)) \/ (k # 1 /\ k - 1 \in old)}
    <3>1. ASSUME NEW k \in 1 .. LINK_DELAY
          PROVE  OnVc(next[k], v) <=> (k = 1 /\ OnVc(src, v)) \/ (k # 1 /\ k - 1 \in old)
      <4>1. CASE k = 1
        BY <1>3, <4>1
      <4>2. CASE k # 1
        <5>1. k - 1 \in 1 .. LINK_DELAY
          BY <1>1, <4>2
        <5> QED BY <1>3, <4>2, <5>1
      <4> QED BY <4>1, <4>2
    <3> QED BY <3>1
  <2>2. old \in SUBSET (1 .. LINK_DELAY) /\ OnVc(src, v) \in BOOLEAN
        /\ LINK_DELAY \in Nat \ {0}
    BY <1>1, <1>6 DEF OnVc
  <2>3. LINK_DELAY \in old <=> OnVc(Out(line, src), v)
    BY <1>1, <1>6 DEF Out
  <2> HIDE DEF old, new
  <2>4. /\ Cardinality(old) \in Nat /\ Cardinality(new) \in Nat
        /\ Cardinality(new) = Cardinality(old) + Bit(OnVc(src, v)) - Bit(LINK_DELAY \in old)
    BY <2>1, <2>2, ShiftCount
  <2>5. Bit(LINK_DELAY \in old) = Bit(OnVc(Out(line, src), v))
    BY <2>3 DEF Bit
  <2> QED BY <1>2, <1>4, <2>4, <2>5 DEF next
<1> QED BY <1>5, <1>6

\* The same of the credits on a link.
LEMMA CreditShift ==
  ASSUME NEW line, DOMAIN line = 1 .. LINK_DELAY, NEW src, NEW v
  PROVE  /\ DOMAIN Shift(line, src) = 1 .. LINK_DELAY
         /\ Times(line, v) \in Nat /\ Times(Shift(line, src), v) \in Nat
         /\ Times(Shift(line, src), v)
              = Times(line, v) + Bit(src = v) - Bit(Out(line, src) = v)
<1> DEFINE next == Shift(line, src)
           old == {k \in 1 .. LINK_DELAY : line[k] = v}
           new == {k \in 1 .. LINK_DELAY : next[k] = v}
<1>1. LINK_DELAY \in Nat
  BY MeshAssumption
<1>2. DOMAIN next = 1 .. LINK_DELAY
  BY DEF Shift
<1>3. \A k \in 1 .. LINK_DELAY : next[k] = IF k = 1 THEN src ELSE line[k - 1]
  BY DEF Shift
<1>4. Times(line, v) = Cardinality(old) /\ Times(next, v) = Cardinality(new)
  BY <1>2 DEF Times
<1> HIDE DEF next
<1>5. CASE LINK_DELAY = 0
  <2>1. old = {} /\ new = {}
    BY <1>5
  <2>2. Cardinality({}) = 0
    BY FS_EmptySet
  <2>3. Out(line, src) = src
    BY <1>5 DEF Out
  <2> HIDE DEF old, new
  <2> QED BY <1>2, <1>4, <2>1, <2>2, <2>3 DEF next, Bit
<1>6. CASE LINK_DELAY # 0
  <2>1. new = {k \in 1 .. LINK_DELAY : (k = 1 /\ src = v) \/ (k # 1 /\ k - 1 \in old)}
    <3>1. ASSUME NEW k \in 1 .. LINK_DELAY
          PROVE  next[k] = v <=> (k = 1 /\ src = v) \/ (k # 1 /\ k - 1 \in old)
      <4>1. CASE k = 1
        BY <1>3, <4>1
      <4>2. CASE k # 1
        <5>1. k - 1 \in 1 .. LINK_DELAY
          BY <1>1, <4>2
        <5> QED BY <1>3, <4>2, <5>1
      <4> QED BY <4>1, <4>2
    <3> QED BY <3>1
  <2>2. old \in SUBSET (1 .. LINK_DELAY) /\ (src = v) \in BOOLEAN /\ LINK_DELAY \in Nat \ {0}
    BY <1>1, <1>6
  <2>3. LINK_DELAY \in old <=> Out(line, src) = v
    BY <1>1, <1>6 DEF Out
  <2> HIDE DEF old, new
  <2>4. /\ Cardinality(old) \in Nat /\ Cardinality(new) \in Nat
        /\ Cardinality(new) = Cardinality(old) + Bit(src = v) - Bit(LINK_DELAY \in old)
    BY <2>1, <2>2, ShiftCount
  <2>5. Bit(LINK_DELAY \in old) = Bit(Out(line, src) = v)
    BY <2>3 DEF Bit
  <2> QED BY <1>2, <1>4, <2>4, <2>5 DEF next
<1> QED BY <1>5, <1>6

\* What the first of a sequence adds to a count, and a new last one.
LEMMA TimesTail ==
  ASSUME NEW S, NEW seq \in Seq(S), seq # <<>>, NEW x
  PROVE  Times(Tail(seq), x) = Times(seq, x) - Bit(Head(seq) = x)
<1> DEFINE d == Len(seq)
           old == {k \in 1 .. d - 1 : Tail(seq)[k] = x}
           new == {k \in 1 .. d : seq[k] = x}
<1>1. d \in Nat \ {0} /\ Len(Tail(seq)) = d - 1 /\ DOMAIN seq = 1 .. d
  OBVIOUS
<1>2. Times(seq, x) = Cardinality(new) /\ Times(Tail(seq), x) = Cardinality(old)
  <2>1. DOMAIN Tail(seq) = 1 .. d - 1
    BY <1>1
  <2> QED BY <1>1, <2>1 DEF Times
<1>3. new = {k \in 1 .. d : (k = 1 /\ Head(seq) = x) \/ (k # 1 /\ k - 1 \in old)}
  <2>1. ASSUME NEW k \in 1 .. d
        PROVE  seq[k] = x <=> (k = 1 /\ Head(seq) = x) \/ (k # 1 /\ k - 1 \in old)
    <3>1. CASE k = 1
      BY <3>1
    <3>2. CASE k # 1
      <4>1. k - 1 \in 1 .. d - 1 /\ Tail(seq)[k - 1] = seq[k]
        BY <1>1, <3>2
      <4> QED BY <3>2, <4>1
    <3> QED BY <3>1, <3>2
  <2> QED BY <2>1
<1>4. old \in SUBSET (1 .. d) /\ d \notin old /\ (Head(seq) = x) \in BOOLEAN
  BY <1>1
<1> HIDE DEF d, old, new
<1>5. /\ Cardinality(old) \in Nat /\ Cardinality(new) \in Nat
      /\ Cardinality(new) = Cardinality(old) + Bit(Head(seq) = x) - Bit(d \in old)
  BY <1>1, <1>3, <1>4, ShiftCount
<1>6. Bit(d \in old) = 0 /\ Bit(Head(seq) = x) \in {0, 1}
  BY <1>4 DEF Bit
<1> QED BY <1>2, <1>5, <1>6

LEMMA TimesType ==
  ASSUME NEW S, NEW seq \in Seq(S), NEW x
  PROVE  Times(seq, x) \in Nat
<1> DEFINE at == {k \in DOMAIN seq : seq[k] = x}
<1>1. at \subseteq 1 .. Len(seq) /\ IsFiniteSet(1 .. Len(seq))
  BY FS_Interval
<1>2. IsFiniteSet(at)
  BY <1>1, FS_Subset
<1> QED BY <1>2, FS_CardinalityType DEF Times

LEMMA TimesAppend ==
  ASSUME NEW S, NEW seq \in Seq(S), NEW e \in S, NEW x
  PROVE  Times(Append(seq, e), x) = Times(seq, x) + Bit(e = x)
<1> DEFINE d == Len(seq) + 1
           old == {k \in 1 .. Len(seq) : seq[k] = x}
           new == {k \in 1 .. d : Append(seq, e)[k] = x}
<1>1. Times(seq, x) = Cardinality(old)
  <2>1. DOMAIN seq = 1 .. Len(seq)
    OBVIOUS
  <2> QED BY <2>1 DEF Times
<1>2. Times(Append(seq, e), x) = Cardinality(new)
  <2>1. DOMAIN Append(seq, e) = 1 .. d
    OBVIOUS
  <2> QED BY <2>1 DEF Times
<1>3. /\ \A k \in 1 .. Len(seq) : Append(seq, e)[k] = seq[k]
      /\ Append(seq, e)[d] = e /\ Len(seq) \in Nat
  OBVIOUS
<1>4. IsFiniteSet(old) /\ d \notin old
  <2>1. old \subseteq 1 .. Len(seq) /\ IsFiniteSet(1 .. Len(seq)) /\ d \notin 1 .. Len(seq)
    BY <1>3, FS_Interval
  <2> QED BY <2>1, FS_Subset
<1>5. CASE e = x
  <2>1. new = old \cup {d}
    BY <1>3, <1>5
  <2> HIDE DEF d, old, new
  <2>2. Cardinality(old \cup {d}) = Cardinality(old) + 1
    BY <1>4, FS_AddElement
  <2> QED BY <1>1, <1>2, <1>5, <2>1, <2>2 DEF Bit
<1>6. CASE e # x
  <2>1. new = old
    BY <1>3, <1>6
  <2>2. Cardinality(old) \in Nat
    BY <1>4, FS_CardinalityType
  <2> HIDE DEF d, old, new
  <2> QED BY <1>1, <1>2, <1>6, <2>1, <2>2 DEF Bit
<1> QED BY <1>5, <1>6

\* A link leads back: the port opposite to it, at the other end, is linked to
\* the port it starts from.
LEMMA NeighborBack ==
  ASSUME NEW n \in Nodes, NEW port \in Ports, Linked(n, port)
  PROVE  LET m == Neighbor(n, port)
             at == Opposite[port]
         IN  /\ m \in Nodes /\ at \in Ports /\ at # LOCAL_PORT
             /\ Linked(m, at) /\ Neighbor(m, at) = n /\ Opposite[at] = port
<1> USE DEF NORTH, SOUTH, WEST, EAST, LOCAL_PORT
<1>1. PICK x \in 0 .. X_SIZE - 1, y \in 0 .. Y_SIZE - 1 : n = <<x, y>>
  BY DEF Nodes
<1>2. port \in {1, 2, 3, 4} /\ Neighbor(n, port) \in Nodes
  BY DEF Linked, Ports
<1>3. x \in Int /\ y \in Int
  BY <1>1, MeshAssumption
<1>4. /\ Opposite[1] = 2 /\ Opposite[2] = 1 /\ Opposite[3] = 4 /\ Opposite[4] = 3
  BY DEF Opposite, Ports
<1>5. \A i, j \in Int : /\ Neighbor(<<i, j>>, 1) = <<i, j + 1>>
                        /\ Neighbor(<<i, j>>, 2) = <<i, j - 1>>
                        /\ Neighbor(<<i, j>>, 3) = <<i - 1, j>>
                        /\ Neighbor(<<i, j>>, 4) = <<i + 1, j>>
  BY DEF Neighbor
<1>6. /\ x + 1 \in Int /\ x - 1 \in Int /\ y + 1 \in Int /\ y - 1 \in Int
      /\ (x + 1) - 1 = x /\ (x - 1) + 1 = x /\ (y + 1) - 1 = y /\ (y - 1) + 1 = y
  BY <1>3
<1>7. CASE port = 1
  <2>1. Neighbor(n, port) = <<x, y + 1>> /\ Neighbor(<<x, y + 1>>, 2) = n
    <3>1. Neighbor(n, port) = <<x, y + 1>>
      BY <1>1, <1>3, <1>5, <1>7
    <3>2. Neighbor(<<x, y + 1>>, 2) = <<x, (y + 1) - 1>>
      BY <1>3, <1>5, <1>6
    <3> QED BY <1>1, <1>6, <3>1, <3>2
  <2>2. Opposite[port] = 2 /\ Opposite[2] = 1
    BY <1>4, <1>7
  <2> QED BY <1>2, <1>7, <2>1, <2>2 DEF Linked, Ports
<1>8. CASE port = 2
  <2>1. Neighbor(n, port) = <<x, y - 1>> /\ Neighbor(<<x, y - 1>>, 1) = n
    <3>1. Neighbor(n, port) = <<x, y - 1>>
      BY <1>1, <1>3, <1>5, <1>8
    <3>2. Neighbor(<<x, y - 1>>, 1) = <<x, (y - 1) + 1>>
      BY <1>3, <1>5, <1>6
    <3> QED BY <1>1, <1>6, <3>1, <3>2
  <2>2. Opposite[port] = 1 /\ Opposite[1] = 2
    BY <1>4, <1>8
  <2> QED BY <1>2, <1>8, <2>1, <2>2 DEF Linked, Ports
<1>9. CASE port = 3
  <2>1. Neighbor(n, port) = <<x - 1, y>> /\ Neighbor(<<x - 1, y>>, 4) = n
    <3>1. Neighbor(n, port) = <<x - 1, y>>
      BY <1>1, <1>3, <1>5, <1>9
    <3>2. Neighbor(<<x - 1, y>>, 4) = <<(x - 1) + 1, y>>
      BY <1>3, <1>5, <1>6
    <3> QED BY <1>1, <1>6, <3>1, <3>2
  <2>2. Opposite[port] = 4 /\ Opposite[4] = 3
    BY <1>4, <1>9
  <2> QED BY <1>2, <1>9, <2>1, <2>2 DEF Linked, Ports
<1>10. CASE port = 4
  <2>1. Neighbor(n, port) = <<x + 1, y>> /\ Neighbor(<<x + 1, y>>, 3) = n
    <3>1. Neighbor(n, port) = <<x + 1, y>>
      BY <1>1, <1>3, <1>5, <1>10
    <3>2. Neighbor(<<x + 1, y>>, 3) = <<(x + 1) - 1, y>>
      BY <1>3, <1>5, <1>6
    <3> QED BY <1>1, <1>6, <3>1, <3>2
  <2>2. Opposite[port] = 3 /\ Opposite[3] = 4
    BY <1>4, <1>10
  <2> QED BY <1>2, <1>10, <2>1, <2>2 DEF Linked, Ports
<1> QED BY <1>2, <1>7, <1>8, <1>9, <1>10

-----------------------------------------------------------------------------
(* The inductive invariant of the mesh.                                    *)

\* The flits of the packets of this run.
Flits == {f \in [pkt : offered, n : Nat, vc : VCs] : f.n \in 1 .. f.pkt.len}

\* A link carries flits one way and credits the other, in LINK_DELAY places.
LinksOK ==
  \A n \in Nodes :
    /\ DOMAIN link[n] = {port \in Ports : Linked(n, port)}
    /\ \A port \in DOMAIN link[n] :
         /\ link[n][port].fwd \in [1 .. LINK_DELAY -> Flits \cup {None}]
         /\ DOMAIN link[n][port].bwd = 1 .. LINK_DELAY

\* At the edges of the mesh nothing comes in, and no credit comes back.
EdgesIdle ==
  \A n \in Nodes, port \in Ports \ {LOCAL_PORT}, v \in VCs :
    ~ Linked(n, port) => router[n].buf[port][v] = <<>> /\ router[n].credits[port][v] <= BUF_DEPTH

NodesOK ==
  \A n \in Nodes : owed[n] \in Seq(VCs) /\ \A v \in VCs : tx_credits[n][v] \in Nat

RunOK ==
  /\ offered \in Plans
  /\ \A p \in Packets : sent[p] \in 0 .. p.len
  /\ stalls \in 0 .. MaxStalls /\ clk \in {0, 1}

RoutersOK == \A n \in Nodes : RouterOK(router[n], Flits)

MeshInv == RoutersOK /\ LinksOK /\ EdgesIdle /\ NodesOK /\ RunOK /\ CreditsConserved

-----------------------------------------------------------------------------
(* A clock of the mesh.                                                    *)

AllWires == [n \in Nodes |-> Now(router[n])]

\* A clock with the wires, and with what the nodes send, put in place.
Clocked(hold, keep) ==
  ClockWith(AllWires, [n \in Nodes |-> Tx(n, hold)], [n \in Nodes |-> Rx(n, keep)],
            [n \in Nodes |-> InFwd(AllWires, n, Tx(n, hold))],
            [n \in Nodes |-> OutBwd(n, Rx(n, keep))])

LEMMA ClockIs ==
  ASSUME NEW hold, NEW keep, Clock(hold, keep)
  PROVE  Clocked(hold, keep)
<1> DEFINE Pk == [n \in Nodes |-> Picks(router[n])]
           T  == [n \in Nodes |-> Tx(n, hold)]
           R  == [n \in Nodes |-> Rx(n, keep)]
           Wn == [n \in Nodes |-> Wins(router[n], Pk[n])]
           W  == [n \in Nodes |-> Wires(router[n], Pk[n], Wn[n])]
           F  == [n \in Nodes |-> InFwd(W, n, T[n])]
           B  == [n \in Nodes |-> OutBwd(n, R[n])]
<1>1. ClockWith(W, T, R, F, B)
  <2>1. \E pick \in {Pk}, tx \in {T}, rx \in {R} :
        \E win \in {[n \in Nodes |-> Wins(router[n], pick[n])]} :
        \E w \in {[n \in Nodes |-> Wires(router[n], pick[n], win[n])]} :
        \E in_fwd \in {[n \in Nodes |-> InFwd(w, n, tx[n])]},
           out_bwd \in {[n \in Nodes |-> OutBwd(n, rx[n])]} :
          ClockWith(w, tx, rx, in_fwd, out_bwd)
    BY DEF Clock
  <2> HIDE DEF Pk, T, R
  <2>2. \E win \in {Wn} :
        \E w \in {[n \in Nodes |-> Wires(router[n], Pk[n], win[n])]} :
        \E in_fwd \in {[n \in Nodes |-> InFwd(w, n, T[n])]},
           out_bwd \in {[n \in Nodes |-> OutBwd(n, R[n])]} : ClockWith(w, T, R, in_fwd, out_bwd)
    BY <2>1
  <2> HIDE DEF Wn
  <2>3. \E w \in {W} :
        \E in_fwd \in {[n \in Nodes |-> InFwd(w, n, T[n])]},
           out_bwd \in {[n \in Nodes |-> OutBwd(n, R[n])]} : ClockWith(w, T, R, in_fwd, out_bwd)
    BY <2>2
  <2> HIDE DEF W
  <2>4. \E in_fwd \in {F}, out_bwd \in {B} : ClockWith(W, T, R, in_fwd, out_bwd)
    BY <2>3
  <2> HIDE DEF F, B
  <2> QED BY <2>4
<1>2. W = AllWires
  <2>1. \A n \in Nodes : Pk[n] = Picks(router[n]) /\ Wn[n] = Wins(router[n], Picks(router[n]))
    OBVIOUS
  <2>2. \A n \in Nodes : Wires(router[n], Pk[n], Wn[n]) = Now(router[n])
    BY <2>1 DEF Now
  <2> HIDE DEF Pk, Wn
  <2> QED BY <2>2 DEF AllWires
<1> HIDE DEF W
<1>3. F = [n \in Nodes |-> InFwd(AllWires, n, Tx(n, hold))] /\ B = [n \in Nodes |-> OutBwd(n, Rx(n, keep))]
  BY <1>2
<1> HIDE DEF F, B
<1> QED BY <1>1, <1>2, <1>3 DEF Clocked

\* The flit that leaves a router, and the one that comes out of a link.
Sent(n, port) == Now(router[n]).out_fwd[port]
Came(n, port) == Out(link[n][port].fwd, Sent(n, port))

\* The registers of a router after a clock.
LEMMA RouterAfter ==
  ASSUME NEW hold, NEW keep, Clocked(hold, keep), NEW n \in Nodes
  PROVE  IsNext(router'[n], n, router[n], InFwd(AllWires, n, Tx(n, hold)), OutBwd(n, Rx(n, keep)))
<1> DEFINE F(m) == InFwd(AllWires, m, Tx(m, hold))
           B(m) == OutBwd(m, Rx(m, keep))
<1>1. router' = [m \in Nodes |-> RouterNext(m, router[m], AllWires[m],
                   [k \in Nodes |-> F(k)][m], [k \in Nodes |-> B(k)][m])]
  BY DEF Clocked, ClockWith
<1>2. AllWires[n] = Now(router[n])
  BY DEF AllWires
<1> HIDE DEF F, B
<1>3. router'[n] = RouterNext(n, router[n], Now(router[n]), F(n), B(n))
  BY <1>1, <1>2
<1>4. IsNext(router'[n], n, router[n], F(n), B(n))
  BY <1>3, RouterNextIs
<1> QED BY <1>4 DEF F, B

\* What comes in on the ports of a router.
LEMMA WiresIn ==
  ASSUME NEW n \in Nodes, NEW port \in Ports, NEW flit, NEW credit
  PROVE  /\ port = LOCAL_PORT => /\ InFwd(AllWires, n, flit)[port] = flit
                                 /\ OutBwd(n, credit)[port] = credit
         /\ port # LOCAL_PORT /\ ~ Linked(n, port) =>
              InFwd(AllWires, n, flit)[port] = None /\ OutBwd(n, credit)[port] = None
         /\ Linked(n, port) =>
              /\ InFwd(AllWires, n, flit)[port] = Came(Neighbor(n, port), Opposite[port])
              /\ OutBwd(n, credit)[port] = BwdOut(n, port)
<1>1. InFwd(AllWires, n, flit)[port] =
        IF port = LOCAL_PORT THEN flit
        ELSE IF Linked(n, port) THEN FwdOut(AllWires, Neighbor(n, port), Opposite[port]) ELSE None
  BY DEF InFwd
<1>2. OutBwd(n, credit)[port] =
        IF port = LOCAL_PORT THEN credit ELSE IF Linked(n, port) THEN BwdOut(n, port) ELSE None
  BY DEF OutBwd
<1>3. Linked(n, port) => port # LOCAL_PORT /\ Neighbor(n, port) \in Nodes
  BY DEF Linked
<1>4. \A m \in Nodes : \A at : FwdOut(AllWires, m, at) = Came(m, at)
  BY DEF FwdOut, Came, Sent, AllWires
<1> QED BY <1>1, <1>2, <1>3, <1>4

LEMMA FlitsAre ==
  ASSUME RunOK
  PROVE  FlitSet(Flits)
<1>1. offered \subseteq Packets /\ None \notin VCs /\ None \notin [pkt : Packets, n : Nat, vc : VCs]
  BY MeshAssumption DEF RunOK
<1>2. None \notin Flits
  BY <1>1 DEF Flits
<1>3. ASSUME NEW f \in Flits, NEW v \in VCs
      PROVE  /\ f.vc \in VCs /\ [f EXCEPT !.vc = v] \in Flits
             /\ [f EXCEPT !.vc = v].vc = v /\ [f EXCEPT !.vc = v].pkt = f.pkt
             /\ [f EXCEPT !.vc = v].n = f.n
  <2>1. f \in [pkt : offered, n : Nat, vc : VCs] /\ f.n \in 1 .. f.pkt.len
    BY DEF Flits
  <2>2. /\ [f EXCEPT !.vc = v] \in [pkt : offered, n : Nat, vc : VCs]
        /\ [f EXCEPT !.vc = v].n = f.n /\ [f EXCEPT !.vc = v].pkt = f.pkt
        /\ [f EXCEPT !.vc = v].vc = v
    BY <2>1
  <2> QED BY <2>1, <2>2 DEF Flits
<1>4. \A f \in Flits : f.vc \in VCs
  BY DEF Flits
<1> QED BY <1>2, <1>3, <1>4 DEF FlitSet

\* A nonempty set of packets has one on a lowest VC.
LEMMA LowestVc ==
  ASSUME NEW S \in SUBSET Packets, S # {}
  PROVE  \E p \in S : \A q \in S : p.vc <= q.vc
<1> DEFINE flip == {NUM_VCS - 1 - p.vc : p \in S}
<1>1. NUM_VCS \in Nat /\ \A p \in S : p.vc \in 0 .. NUM_VCS - 1
  BY MeshAssumption, NocAssumption DEF VCs
<1>2. flip \in SUBSET (0 .. NUM_VCS - 1) /\ flip # {}
  BY <1>1
<1>3. Highest(flip) \in flip /\ \A j \in flip : j <= Highest(flip)
  <2> HIDE DEF flip
  <2> QED BY <1>1, <1>2, HighestIs
<1>4. PICK p \in S : Highest(flip) = NUM_VCS - 1 - p.vc
  BY <1>3
<1>5. \A q \in S : NUM_VCS - 1 - q.vc <= NUM_VCS - 1 - p.vc
  BY <1>3, <1>4
<1>6. \A q \in S : p.vc <= q.vc
  BY <1>1, <1>5
<1> QED BY <1>6

\* A sender sends the next flit of a packet it may send, or nothing.
LEMMA TxIs ==
  ASSUME RunOK, NEW n \in Nodes, NEW hold
  PROVE  \/ Tx(n, hold) = None
         \/ \E p \in MaySend(n) :
              /\ Tx(n, hold) = [pkt |-> p, n |-> sent[p] + 1, vc |-> p.vc]
              /\ Tx(n, hold) \in Flits
<1> DEFINE ready == MaySend(n) \ hold
           p == CHOOSE q \in ready : \A s \in ready : q.vc <= s.vc
<1>1. offered \subseteq Packets
  BY MeshAssumption DEF RunOK
<1>2. ready \subseteq Packets
  BY <1>1 DEF MaySend
<1>3. Tx(n, hold) = IF ready = {} THEN None ELSE [pkt |-> p, n |-> sent[p] + 1, vc |-> p.vc]
  BY DEF Tx
<1>4. ready \subseteq MaySend(n)
  OBVIOUS
<1> HIDE DEF ready
<1>5. CASE ready # {}
  <2>1. p \in ready
    BY <1>2, <1>5, LowestVc
  <2>2. p \in Packets /\ p \in offered /\ sent[p] < p.len
    BY <1>2, <1>4, <2>1 DEF MaySend
  <2>3. p.vc \in VCs /\ p.len \in Nat /\ sent[p] \in 0 .. p.len
    BY <2>2, MeshAssumption DEF RunOK
  <2> HIDE DEF p
  <2>4. [pkt |-> p, n |-> sent[p] + 1, vc |-> p.vc] \in Flits
    BY <2>2, <2>3 DEF Flits
  <2> QED BY <1>3, <1>4, <1>5, <2>1, <2>4
<1> QED BY <1>3, <1>5

\* The sender sends with a credit.
LEMMA TxHasCredit ==
  ASSUME RunOK, NEW n \in Nodes, NEW hold, NEW v \in VCs, OnVc(Tx(n, hold), v)
  PROVE  tx_credits[n][v] > 0
<1>1. Tx(n, hold) # None /\ Tx(n, hold).vc = v
  BY DEF OnVc
<1>2. PICK p \in MaySend(n) : Tx(n, hold) = [pkt |-> p, n |-> sent[p] + 1, vc |-> p.vc]
  BY <1>1, TxIs
<1>3. p.vc = v
  BY <1>1, <1>2
<1> QED BY <1>3 DEF MaySend

\* What comes out of a link is a flit.
LEMMA CameIsFlit ==
  ASSUME RoutersOK, LinksOK, RunOK, NEW n \in Nodes, NEW port \in Ports, Linked(n, port)
  PROVE  Came(n, port) \in Flits \cup {None}
<1>1. Sent(n, port) \in Flits \cup {None}
  <2>1. RouterOK(router[n], Flits) /\ FlitSet(Flits)
    BY FlitsAre DEF RoutersOK
  <2> QED BY <2>1, OutFlit DEF Sent
<1>2. \A k \in 1 .. LINK_DELAY : link[n][port].fwd[k] \in Flits \cup {None}
  BY DEF LinksOK
<1>3. LINK_DELAY = 0 \/ LINK_DELAY \in 1 .. LINK_DELAY
  BY MeshAssumption
<1> QED BY <1>1, <1>2, <1>3 DEF Came, Out

\* What comes into a router are flits.
LEMMA FlitsComeIn ==
  ASSUME RoutersOK, LinksOK, RunOK, NEW n \in Nodes, NEW hold, NEW p \in Ports
  PROVE  InFwd(AllWires, n, Tx(n, hold))[p] \in Flits \cup {None}
<1> DEFINE in == InFwd(AllWires, n, Tx(n, hold))[p]
<1>1. CASE p = LOCAL_PORT
  BY <1>1, WiresIn, TxIs
<1>2. CASE p # LOCAL_PORT /\ ~ Linked(n, p)
  BY <1>2, WiresIn
<1>3. CASE Linked(n, p)
  <2> DEFINE m == Neighbor(n, p)
             at == Opposite[p]
  <2>1. m \in Nodes /\ at \in Ports /\ Linked(m, at)
    BY <1>3, NeighborBack
  <2>2. in = Came(m, at)
    BY <1>3, WiresIn
  <2> HIDE DEF m, at, in
  <2>3. in \in Flits \cup {None}
    BY <2>1, <2>2, CameIsFlit
  <2> QED BY <2>3 DEF in
<1> QED BY <1>1, <1>2, <1>3

LEMMA RoutersStep ==
  ASSUME MeshInv, Next, NEW hold, NEW keep, Clocked(hold, keep)
  PROVE  RoutersOK'
<1>1. Flits' = Flits
  BY DEF Clocked, ClockWith, Flits
<1>2. ArbitersOK
  BY DEF MeshInv, RoutersOK, RouterOK, ArbitersOK
<1>3. FlitSet(Flits)
  BY FlitsAre DEF MeshInv
<1>4. ASSUME NEW n \in Nodes PROVE RouterOK(router'[n], Flits)
  <2>1. RouterOK(router[n], Flits)
    BY DEF MeshInv, RoutersOK
  <2>2. \A p \in Ports : /\ router'[n].va_last[p] \in 0 .. 5 * NUM_VCS
                         /\ router'[n].in_last[p] \in 0 .. NUM_VCS
                         /\ router'[n].out_last[p] \in 0 .. 5
    BY <1>2, StepArbiters
  <2>3. IsNext(router'[n], n, router[n], InFwd(AllWires, n, Tx(n, hold)), OutBwd(n, Rx(n, keep)))
    BY RouterAfter
  <2>4. \A p \in Ports : InFwd(AllWires, n, Tx(n, hold))[p] \in Flits \cup {None}
    BY FlitsComeIn DEF MeshInv
  <2> QED BY <1>3, <2>1, <2>2, <2>3, <2>4, RouterStep
<1> QED BY <1>1, <1>4 DEF RoutersOK

\* The registers of a link after a clock.
LEMMA LinkAfter ==
  ASSUME NEW hold, NEW keep, Clocked(hold, keep), NEW n \in Nodes
  PROVE  /\ DOMAIN link'[n] = {port \in Ports : Linked(n, port)}
         /\ \A port \in Ports : Linked(n, port) =>
              /\ link'[n][port].fwd = Shift(link[n][port].fwd, Sent(n, port))
              /\ link'[n][port].bwd = Shift(link[n][port].bwd, BwdIn(n, port))
<1>1. link'[n] = [port \in {q \in Ports : Linked(n, q)} |->
                    [fwd |-> Shift(link[n][port].fwd, AllWires[n].out_fwd[port]),
                     bwd |-> Shift(link[n][port].bwd, BwdIn(n, port))]]
  BY DEF Clocked, ClockWith
<1>2. \A port : AllWires[n].out_fwd[port] = Sent(n, port)
  BY DEF AllWires, Sent
<1> QED BY <1>1, <1>2

LEMMA LinksStep ==
  ASSUME MeshInv, NEW hold, NEW keep, Clocked(hold, keep)
  PROVE  LinksOK'
<1>1. Flits' = Flits
  BY DEF Clocked, ClockWith, Flits
<1>2. ASSUME NEW n \in Nodes, NEW port \in Ports, Linked(n, port)
      PROVE  /\ link'[n][port].fwd \in [1 .. LINK_DELAY -> Flits \cup {None}]
             /\ DOMAIN link'[n][port].bwd = 1 .. LINK_DELAY
  <2>1. /\ link'[n][port].fwd = Shift(link[n][port].fwd, Sent(n, port))
        /\ link'[n][port].bwd = Shift(link[n][port].bwd, BwdIn(n, port))
    BY <1>2, LinkAfter
  <2>2. Sent(n, port) \in Flits \cup {None}
    <3>1. RouterOK(router[n], Flits) /\ FlitSet(Flits)
      BY FlitsAre DEF MeshInv, RoutersOK
    <3> QED BY <3>1, OutFlit DEF Sent
  <2>3. \A k \in 1 .. LINK_DELAY : link[n][port].fwd[k] \in Flits \cup {None}
    BY <1>2 DEF MeshInv, LinksOK
  <2>4. ASSUME NEW k \in 1 .. LINK_DELAY, k # 1 PROVE k - 1 \in 1 .. LINK_DELAY
    BY <2>4, MeshAssumption
  <2>5. Shift(link[n][port].fwd, Sent(n, port)) \in [1 .. LINK_DELAY -> Flits \cup {None}]
    BY <2>2, <2>3, <2>4 DEF Shift
  <2>6. \A line, src : DOMAIN Shift(line, src) = 1 .. LINK_DELAY
    BY DEF Shift
  <2> QED BY <2>1, <2>5, <2>6
<1>3. \A n \in Nodes : DOMAIN link'[n] = {port \in Ports : Linked(n, port)}
  BY LinkAfter
<1> QED BY <1>1, <1>2, <1>3 DEF LinksOK

\* What a clock does to the buffer of an input VC and to its credit.
LEMMA BufAfter ==
  ASSUME MeshInv, NEW hold, NEW keep, Clocked(hold, keep),
         NEW n \in Nodes, NEW p \in Ports, NEW v \in VCs
  PROVE  LET in == InFwd(AllWires, n, Tx(n, hold))[p] IN
         (OnVc(in, v) => Len(router[n].buf[p][v]) < BufSlots) =>
           Len(router'[n].buf[p][v]) + Bit(router'[n].credit_q[p] = v)
             = Len(router[n].buf[p][v]) + Bit(OnVc(in, v))
<1> DEFINE in == InFwd(AllWires, n, Tx(n, hold))[p]
           pops == v \in Now(router[n]).pop[p]
           old == router[n].buf[p][v]
           new == router'[n].buf[p][v]
           credit == router'[n].credit_q[p]
<1>1. IsNext(router'[n], n, router[n], InFwd(AllWires, n, Tx(n, hold)), OutBwd(n, Rx(n, keep)))
  BY RouterAfter
<1>2. RouterOK(router[n], Flits)
  BY DEF MeshInv, RoutersOK
<1>3. credit = CreditNext(Now(router[n]), p) /\ new = BufNext(router[n], Now(router[n]), p, v, in)
  BY <1>1 DEF IsNext
<1>4. credit = v <=> pops
  BY <1>2, <1>3, CreditStep
<1>5. Bit(credit = v) = Bit(pops)
  BY <1>4 DEF Bit
<1>6. in \in Flits \cup {None}
  BY FlitsComeIn DEF MeshInv
<1>7. (OnVc(in, v) => Len(old) < BufSlots) => Len(new) = Len(old) + Bit(OnVc(in, v)) - Bit(pops)
  BY <1>2, <1>3, <1>6, BufStep
<1>8. Len(old) \in Nat
  BY <1>2 DEF RouterOK
<1> DEFINE out == Bit(pops)
           come == Bit(OnVc(in, v))
<1>9. out \in {0, 1} /\ come \in {0, 1}
  BY DEF Bit
<1>10. Bit(credit = v) = out
  BY <1>5
<1> HIDE DEF old, new, credit, out, come
<1>11. (OnVc(in, v) => Len(old) < BufSlots) => Len(new) = Len(old) + come - out
  BY <1>7 DEF come, out
<1> HIDE DEF in
<1>12. (OnVc(in, v) => Len(old) < BufSlots) => Len(new) + out = Len(old) + come
  BY <1>8, <1>9, <1>11
<1> QED BY <1>10, <1>12 DEF old, new, credit, come, in

\* What a clock does to a count of credits.
LEMMA CreditsAfter ==
  ASSUME MeshInv, NEW hold, NEW keep, Clocked(hold, keep),
         NEW n \in Nodes, NEW port \in Ports, NEW v \in VCs
  PROVE  LET comes == OutBwd(n, Rx(n, keep))[port] = v IN
         /\ router[n].credits[port][v] \in Nat
         /\ OnVc(Sent(n, port), v) => router[n].credits[port][v] > 0
         /\ router'[n].credits[port][v]
              = router[n].credits[port][v] - Bit(OnVc(Sent(n, port), v)) + Bit(comes)
<1> DEFINE sends == OnVc(Sent(n, port), v)
           comes == OutBwd(n, Rx(n, keep))[port] = v
           count == router[n].credits[port][v]
<1>1. IsNext(router'[n], n, router[n], InFwd(AllWires, n, Tx(n, hold)), OutBwd(n, Rx(n, keep)))
  BY RouterAfter
<1>2. RouterOK(router[n], Flits) /\ FlitSet(Flits)
  BY FlitsAre DEF MeshInv, RoutersOK
<1>3. count \in Nat /\ (sends => count > 0)
  BY <1>2, OutFlit DEF RouterOK, Sent
<1>4. router'[n].credits[port][v] = CreditsNext(count, sends, comes)
  BY <1>1 DEF IsNext, Sent
<1>5. sends \in BOOLEAN /\ comes \in BOOLEAN
  BY DEF OnVc
<1> HIDE DEF sends, comes, count
<1>6. CreditsNext(count, sends, comes) = count - Bit(sends) + Bit(comes)
  BY <1>3, <1>5, CreditsStep
<1> QED BY <1>3, <1>4, <1>6 DEF sends, comes, count

\* What a clock does to the credits a receiver owes.
LEMMA OwedAfter ==
  ASSUME MeshInv, NEW hold, NEW keep, Clocked(hold, keep), NEW n \in Nodes
  PROVE  /\ owed'[n] \in Seq(VCs)
         /\ \A v \in VCs : /\ Times(owed[n], v) \in Nat
                           /\ Times(owed'[n], v) = Times(owed[n], v)
                                + Bit(OnVc(Sent(n, LOCAL_PORT), v)) - Bit(Rx(n, keep) = v)
<1> DEFINE out == Sent(n, LOCAL_PORT)
           credit == Rx(n, keep)
           left == IF credit = None THEN owed[n] ELSE Tail(owed[n])
           new == IF out = None THEN left ELSE Append(left, out.vc)
<1>1. owed'[n] = new
  <2>1. owed' = [m \in Nodes |-> OwedNext(m, AllWires[m].out_fwd[LOCAL_PORT],
                                   [k \in Nodes |-> Rx(k, keep)][m])]
    BY DEF Clocked, ClockWith
  <2>2. AllWires[n].out_fwd[LOCAL_PORT] = out
    BY DEF AllWires, Sent
  <2>3. owed'[n] = OwedNext(n, out, credit)
    BY <2>1, <2>2
  <2> QED BY <2>3 DEF OwedNext
<1>2. owed[n] \in Seq(VCs) /\ None \notin VCs
  BY VcsAre DEF MeshInv, NodesOK
<1>3. credit = None \/ (owed[n] # <<>> /\ credit = Head(owed[n]) /\ credit # None)
  <2>1. owed[n] # <<>> => Head(owed[n]) \in VCs
    BY <1>2
  <2> QED BY <1>2, <2>1 DEF Rx
<1>4. out = None \/ (out # None /\ out.vc \in VCs)
  <2>1. RouterOK(router[n], Flits) /\ FlitSet(Flits) /\ LOCAL_PORT \in Ports
    BY FlitsAre DEF MeshInv, RoutersOK, LOCAL_PORT, Ports
  <2>2. out \in Flits \cup {None}
    BY <2>1, OutFlit DEF Sent
  <2> QED BY <2>1, <2>2 DEF FlitSet
<1>5. \A v \in VCs : OnVc(out, v) <=> (out # None /\ out.vc = v)
  BY DEF OnVc
<1> HIDE DEF credit, out
<1>6. /\ left \in Seq(VCs)
      /\ \A v \in VCs : Times(left, v) = Times(owed[n], v) - Bit(credit = v)
  <2>1. CASE credit = None
    <3>1. left = owed[n]
      BY <2>1
    <3>2. ASSUME NEW v \in VCs PROVE Times(left, v) = Times(owed[n], v) - Bit(credit = v)
      <4>1. Bit(credit = v) = 0
        BY <1>2, <2>1 DEF Bit
      <4>2. Times(owed[n], v) \in Nat
        BY <1>2, TimesType
      <4> HIDE DEF left
      <4> QED BY <3>1, <4>1, <4>2
    <3> QED BY <1>2, <3>1, <3>2
  <2>2. CASE credit # None
    <3>1. left = Tail(owed[n]) /\ owed[n] # <<>> /\ credit = Head(owed[n])
      BY <1>3, <2>2
    <3>2. \A v \in VCs : Times(Tail(owed[n]), v) = Times(owed[n], v) - Bit(Head(owed[n]) = v)
      BY <1>2, <3>1, TimesTail
    <3>3. Tail(owed[n]) \in Seq(VCs)
      BY <1>2, <3>1
    <3> HIDE DEF left
    <3> QED BY <3>1, <3>2, <3>3
  <2> QED BY <2>1, <2>2
<1> HIDE DEF left
<1>7. /\ new \in Seq(VCs)
      /\ \A v \in VCs : Times(new, v) = Times(left, v) + Bit(OnVc(out, v))
  <2>1. CASE out = None
    <3>1. new = left
      BY <2>1
    <3>2. ASSUME NEW v \in VCs PROVE Times(new, v) = Times(left, v) + Bit(OnVc(out, v))
      <4>1. Bit(OnVc(out, v)) = 0
        BY <1>5, <2>1 DEF Bit
      <4>2. Times(left, v) \in Nat
        BY <1>6, TimesType
      <4> HIDE DEF new
      <4> QED BY <3>1, <4>1, <4>2
    <3> QED BY <1>6, <3>1, <3>2
  <2>2. CASE out # None
    <3>1. new = Append(left, out.vc) /\ out.vc \in VCs
      BY <1>4, <2>2
    <3>2. ASSUME NEW v \in VCs PROVE Times(new, v) = Times(left, v) + Bit(OnVc(out, v))
      <4>1. Times(Append(left, out.vc), v) = Times(left, v) + Bit(out.vc = v)
        BY <1>6, <3>1, TimesAppend
      <4>2. Bit(out.vc = v) = Bit(OnVc(out, v))
        BY <1>5, <2>2 DEF Bit
      <4> HIDE DEF new
      <4> QED BY <3>1, <4>1, <4>2
    <3>3. Append(left, out.vc) \in Seq(VCs)
      BY <1>6, <3>1
    <3> QED BY <3>1, <3>2, <3>3
  <2> QED BY <2>1, <2>2
<1> HIDE DEF new
<1>8. ASSUME NEW v \in VCs
      PROVE  /\ Times(owed[n], v) \in Nat
             /\ Times(owed'[n], v) = Times(owed[n], v) + Bit(OnVc(out, v)) - Bit(credit = v)
  <2> DEFINE come == Bit(OnVc(out, v))
             go == Bit(credit = v)
  <2>1. come \in {0, 1} /\ go \in {0, 1}
    BY DEF Bit
  <2>2. Times(left, v) = Times(owed[n], v) - go /\ Times(new, v) = Times(left, v) + come
    BY <1>6, <1>7
  <2>3. Times(owed[n], v) \in Nat
    BY <1>2, TimesType
  <2> HIDE DEF come, go
  <2>4. Times(owed'[n], v) = Times(owed[n], v) + come - go
    BY <1>1, <2>1, <2>2, <2>3
  <2> QED BY <2>3, <2>4 DEF come, go
<1> QED BY <1>1, <1>7, <1>8 DEF out, credit

\* What a clock does to the credits a sender counts.
LEMMA TxCreditsAfter ==
  ASSUME MeshInv, NEW hold, NEW keep, Clocked(hold, keep), NEW n \in Nodes, NEW v \in VCs
  PROVE  /\ tx_credits'[n][v] \in Nat
         /\ tx_credits'[n][v] = tx_credits[n][v] - Bit(OnVc(Tx(n, hold), v))
                                + Bit(router[n].credit_q[LOCAL_PORT] = v)
<1> DEFINE sends == OnVc(Tx(n, hold), v)
           comes == router[n].credit_q[LOCAL_PORT] = v
           count == tx_credits[n][v]
<1>1. tx_credits'[n][v] = CreditsNext(count, sends, comes)
  BY DEF Clocked, ClockWith
<1>2. count \in Nat /\ (sends => count > 0)
  BY TxHasCredit DEF MeshInv, NodesOK
<1>3. sends \in BOOLEAN /\ comes \in BOOLEAN
  BY DEF OnVc
<1> HIDE DEF sends, comes, count
<1>4. /\ CreditsNext(count, sends, comes) \in Nat
      /\ CreditsNext(count, sends, comes) = count - Bit(sends) + Bit(comes)
  BY <1>2, <1>3, CreditsStep
<1> QED BY <1>1, <1>4 DEF sends, comes, count

LEMMA NodesStep ==
  ASSUME MeshInv, NEW hold, NEW keep, Clocked(hold, keep)
  PROVE  NodesOK'
<1>1. \A n \in Nodes : owed'[n] \in Seq(VCs)
  BY OwedAfter
<1>2. \A n \in Nodes, v \in VCs : tx_credits'[n][v] \in Nat
  BY TxCreditsAfter
<1> QED BY <1>1, <1>2 DEF NodesOK

LEMMA EdgesStep ==
  ASSUME MeshInv, RoutersOK', NEW hold, NEW keep, Clocked(hold, keep)
  PROVE  EdgesIdle'
<1>1. ASSUME NEW n \in Nodes, NEW port \in Ports \ {LOCAL_PORT}, NEW v \in VCs, ~ Linked(n, port)
      PROVE  router'[n].buf[port][v] = <<>> /\ router'[n].credits[port][v] <= BUF_DEPTH
  <2>1. /\ InFwd(AllWires, n, Tx(n, hold))[port] = None
        /\ OutBwd(n, Rx(n, keep))[port] = None
    BY <1>1, WiresIn
  <2>2. router[n].buf[port][v] = <<>> /\ router[n].credits[port][v] <= BUF_DEPTH
    BY <1>1 DEF MeshInv, EdgesIdle
  <2>3. router'[n].buf[port][v] = <<>>
    <3> DEFINE in == InFwd(AllWires, n, Tx(n, hold))[port]
               new == router'[n].buf[port][v]
               old == router[n].buf[port][v]
               left == Bit(router'[n].credit_q[port] = v)
    <3>1. (OnVc(in, v) => Len(old) < BufSlots) => Len(new) + left = Len(old) + Bit(OnVc(in, v))
      BY BufAfter
    <3>2. ~ OnVc(in, v) /\ Bit(OnVc(in, v)) = 0
      BY <2>1 DEF OnVc, Bit
    <3>3. new \in Seq(Flits')
      BY DEF RoutersOK, RouterOK
    <3>4. left \in {0, 1}
      BY DEF Bit
    <3>5. Len(old) = 0
      BY <2>2
    <3> HIDE DEF new, old, left, in
    <3>6. Len(new) = 0
      BY <3>1, <3>2, <3>3, <3>4, <3>5
    <3>7. new = <<>>
      BY <3>3, <3>6
    <3> QED BY <3>7 DEF new
  <2>4. router'[n].credits[port][v] <= BUF_DEPTH
    <3> DEFINE comes == OutBwd(n, Rx(n, keep))[port] = v
               count == router[n].credits[port][v]
               go == Bit(OnVc(Sent(n, port), v))
    <3>1. count \in Nat /\ router'[n].credits[port][v] = count - go + Bit(comes)
      BY CreditsAfter
    <3>2. Bit(comes) = 0
      BY <2>1, VcsAre DEF Bit
    <3>3. go \in {0, 1}
      BY DEF Bit
    <3>4. count <= BUF_DEPTH /\ BUF_DEPTH \in Nat
      BY <2>2, NocAssumption
    <3> HIDE DEF comes, count, go
    <3> QED BY <3>1, <3>2, <3>3, <3>4
  <2> QED BY <2>3, <2>4
<1> QED BY <1>1 DEF EdgesIdle, Linked

\* A packet goes on by the flit its sender sends, and only if it may.
LEMMA SentAfter ==
  ASSUME RunOK, NEW hold, NEW keep, Clocked(hold, keep), NEW p \in Packets
  PROVE  LET f == [pkt |-> p, n |-> sent[p] + 1, vc |-> p.vc] IN
         /\ Tx(p.src, hold) = f => p \in MaySend(p.src) /\ sent'[p] = sent[p] + 1
         /\ Tx(p.src, hold) # f => sent'[p] = sent[p]
<1> DEFINE f == [pkt |-> p, n |-> sent[p] + 1, vc |-> p.vc]
<1>1. p.src \in Nodes /\ p.len \in Nat /\ sent[p] \in 0 .. p.len /\ p.vc \in VCs
  BY MeshAssumption DEF RunOK
<1>2. sent'[p] = IF Tx(p.src, hold) # None /\ Tx(p.src, hold) = f THEN sent[p] + 1 ELSE sent[p]
  <2>1. sent' = [q \in Packets |->
           IF /\ [n \in Nodes |-> Tx(n, hold)][q.src] # None
              /\ [n \in Nodes |-> Tx(n, hold)][q.src]
                   = [pkt |-> q, n |-> sent[q] + 1, vc |-> q.vc]
           THEN sent[q] + 1 ELSE sent[q]]
    BY DEF Clocked, ClockWith
  <2> QED BY <1>1, <2>1
<1>3. f \in [pkt : Packets, n : Nat, vc : VCs] /\ f # None
  <2>1. f \in [pkt : Packets, n : Nat, vc : VCs]
    BY <1>1
  <2> QED BY <2>1, MeshAssumption
<1>4. ASSUME Tx(p.src, hold) = f PROVE p \in MaySend(p.src)
  <2>1. PICK q \in MaySend(p.src) : Tx(p.src, hold) = [pkt |-> q, n |-> sent[q] + 1, vc |-> q.vc]
    BY <1>1, <1>3, <1>4, TxIs
  <2>2. q = p
    BY <1>4, <2>1
  <2> QED BY <2>1, <2>2
<1> QED BY <1>2, <1>3, <1>4

\* The packets go on as far as they go.
LEMMA RunStep ==
  ASSUME RunOK,
         NEW hold \in Some(UNION {MaySend(n) : n \in Nodes}),
         NEW keep \in Some({n \in Nodes : owed[n] # <<>>}),
         stalls + Cardinality(hold) + Cardinality(keep) <= MaxStalls,
         Clock(hold, keep)
  PROVE  RunOK'
<1>1. Clocked(hold, keep)
  BY ClockIs
<1>2. offered' \in Plans /\ clk' \in {0, 1}
  BY <1>1 DEF Clocked, ClockWith, Clock, Tick, RunOK
<1>3. Cardinality(hold) \in Nat /\ Cardinality(keep) \in Nat
  <2>1. \A S, T : T \in Some(S) => \E k \in 0 .. MaxStalls - stalls : T \in kSubset(k, S)
    BY DEF Some
  <2>2. \A S, T : T \in Some(S) => Cardinality(T) \in Nat
    BY <2>1 DEF kSubset
  <2> QED BY <2>2
<1>4. stalls' \in 0 .. MaxStalls
  <2>1. stalls' = stalls + Cardinality(hold) + Cardinality(keep)
    BY DEF Clock
  <2>2. stalls \in 0 .. MaxStalls /\ MaxStalls \in Nat
    BY MeshAssumption DEF RunOK
  <2> QED BY <1>3, <2>1, <2>2
<1>5. ASSUME NEW p \in Packets PROVE sent'[p] \in 0 .. p.len
  <2>1. p.src \in Nodes /\ p.len \in Nat /\ sent[p] \in 0 .. p.len
    BY MeshAssumption DEF RunOK
  <2>2. \/ p \in MaySend(p.src) /\ sent'[p] = sent[p] + 1
        \/ sent'[p] = sent[p]
    BY <1>1, SentAfter
  <2>3. p \in MaySend(p.src) => sent[p] < p.len
    BY DEF MaySend
  <2> QED BY <2>1, <2>2, <2>3
<1> QED BY <1>2, <1>4, <1>5 DEF RunOK

-----------------------------------------------------------------------------
(* No slot of a buffer is lost or used twice.                              *)

\* There is a slot at the other end for a flit that comes out of a link,
LEMMA SlotForCame ==
  ASSUME MeshInv, NEW n \in Nodes, NEW port \in Ports, Linked(n, port), NEW v \in VCs,
         OnVc(Came(n, port), v)
  PROVE  Len(router[Neighbor(n, port)].buf[Opposite[port]][v]) < BufSlots
<1> DEFINE far == router[Neighbor(n, port)]
           at == Opposite[port]
           sends == Bit(OnVc(Sent(n, port), v))
           comes == Bit(OnVc(Came(n, port), v))
           left  == Bit(far.credit_q[at] = v)
           count == router[n].credits[port][v]
           fwd   == OnWire(link[n][port].fwd, v)
           fwd2  == OnWire(Shift(link[n][port].fwd, Sent(n, port)), v)
           len   == Len(far.buf[at][v])
           bwd   == Times(link[n][port].bwd, v)
<1>1. Neighbor(n, port) \in Nodes /\ at \in Ports
  BY NeighborBack
<1>2. count + fwd + len + left + bwd = BUF_DEPTH
  <2>1. port \in DOMAIN link[n]
    BY DEF MeshInv, LinksOK
  <2> QED BY <2>1 DEF MeshInv, CreditsConserved
<1>3. DOMAIN link[n][port].fwd = 1 .. LINK_DELAY /\ DOMAIN link[n][port].bwd = 1 .. LINK_DELAY
  BY DEF MeshInv, LinksOK
<1>4. fwd \in Nat /\ fwd2 \in Nat /\ fwd2 = fwd + sends - comes
  BY <1>3, WireShift DEF Came
<1>5. bwd \in Nat
  BY <1>3, CreditShift
<1>6. count \in Nat /\ (OnVc(Sent(n, port), v) => count > 0)
  <2>1. RouterOK(router[n], Flits) /\ FlitSet(Flits)
    BY FlitsAre DEF MeshInv, RoutersOK
  <2> QED BY <2>1, OutFlit DEF RouterOK, Sent
<1>7. len \in Nat
  <2>1. far.buf[at][v] \in Seq(Flits)
    BY <1>1 DEF MeshInv, RoutersOK, RouterOK
  <2> HIDE DEF far
  <2> QED BY <2>1
<1>8. /\ sends \in {0, 1} /\ comes = 1 /\ left \in {0, 1}
      /\ sends = 1 => OnVc(Sent(n, port), v)
  BY DEF Bit
<1>9. BUF_DEPTH \in Nat /\ BufSlots \in Nat /\ BUF_DEPTH <= BufSlots
  BY SlotsEnough, NocAssumption
<1> HIDE DEF sends, comes, left, count, fwd, fwd2, len, bwd
<1>10. sends <= count /\ fwd + sends >= 1
  BY <1>4, <1>6, <1>8
<1>11. len < BufSlots
  BY <1>2, <1>4, <1>5, <1>6, <1>7, <1>8, <1>9, <1>10
<1> QED BY <1>11 DEF len

\* and in the router of its node for one that a sender sends.
LEMMA SlotForTx ==
  ASSUME MeshInv, NEW hold, NEW n \in Nodes, NEW v \in VCs, OnVc(Tx(n, hold), v)
  PROVE  Len(router[n].buf[LOCAL_PORT][v]) < BufSlots
<1> DEFINE count == tx_credits[n][v]
           len   == Len(router[n].buf[LOCAL_PORT][v])
           left  == Bit(router[n].credit_q[LOCAL_PORT] = v)
<1>1. count + len + left = BUF_DEPTH
  BY DEF MeshInv, CreditsConserved
<1>2. count \in Nat /\ count > 0
  BY TxHasCredit DEF MeshInv, NodesOK
<1>3. len \in Nat
  <2>1. router[n].buf[LOCAL_PORT][v] \in Seq(Flits)
    BY DEF MeshInv, RoutersOK, RouterOK, LOCAL_PORT, Ports
  <2> QED BY <2>1
<1>4. left \in {0, 1}
  BY DEF Bit
<1>5. BUF_DEPTH \in Nat /\ BufSlots \in Nat /\ BUF_DEPTH <= BufSlots
  BY SlotsEnough, NocAssumption
<1> HIDE DEF count, len, left
<1>6. len < BufSlots
  BY <1>1, <1>2, <1>3, <1>4, <1>5
<1> QED BY <1>6 DEF len

\* A clock moves the slots of one VC of a link from one place to the next.
LEMMA LinkConserves ==
  ASSUME MeshInv, RoutersOK', NEW hold, NEW keep, Clocked(hold, keep),
         NEW n \in Nodes, NEW port \in Ports, Linked(n, port), NEW v \in VCs
  PROVE  LET far == router'[Neighbor(n, port)]
             at  == Opposite[port]
         IN  router'[n].credits[port][v] + OnWire(link'[n][port].fwd, v) + Len(far.buf[at][v])
               + Bit(far.credit_q[at] = v) + Times(link'[n][port].bwd, v) = BUF_DEPTH
<1> DEFINE m  == Neighbor(n, port)
           at == Opposite[port]
           sends == Bit(OnVc(Sent(n, port), v))
           comes == Bit(OnVc(Came(n, port), v))
           back  == Bit(BwdOut(n, port) = v)
           left  == Bit(router[m].credit_q[at] = v)
           leaves == Bit(router'[m].credit_q[at] = v)
           count == router[n].credits[port][v]
           fwd   == OnWire(link[n][port].fwd, v)
           len   == Len(router[m].buf[at][v])
           bwd   == Times(link[n][port].bwd, v)
           count2 == router'[n].credits[port][v]
           fwd2  == OnWire(link'[n][port].fwd, v)
           len2  == Len(router'[m].buf[at][v])
           bwd2  == Times(link'[n][port].bwd, v)
<1>1. /\ m \in Nodes /\ at \in Ports /\ at # LOCAL_PORT
      /\ Linked(m, at) /\ Neighbor(m, at) = n /\ Opposite[at] = port
  BY NeighborBack
<1>2. count + fwd + len + left + bwd = BUF_DEPTH
  <2>1. port \in DOMAIN link[n]
    BY DEF MeshInv, LinksOK
  <2> QED BY <2>1 DEF MeshInv, CreditsConserved
<1>3. /\ DOMAIN link[n][port].fwd = 1 .. LINK_DELAY /\ DOMAIN link[n][port].bwd = 1 .. LINK_DELAY
      /\ link'[n][port].fwd = Shift(link[n][port].fwd, Sent(n, port))
      /\ link'[n][port].bwd = Shift(link[n][port].bwd, BwdIn(n, port))
  BY LinkAfter DEF MeshInv, LinksOK
<1>4. fwd \in Nat /\ fwd2 \in Nat /\ fwd2 = fwd + sends - comes
  BY <1>3, WireShift DEF Came
<1>5. bwd \in Nat /\ bwd2 \in Nat /\ bwd2 = bwd + left - back
  <2>1. BwdIn(n, port) = router[m].credit_q[at]
    BY DEF BwdIn
  <2>2. BwdOut(n, port) = Out(link[n][port].bwd, router[m].credit_q[at])
    BY <2>1 DEF BwdOut
  <2> HIDE DEF m, at
  <2> QED BY <1>3, <2>1, <2>2, CreditShift
<1>6. /\ count \in Nat /\ count2 = count - sends + back
      /\ OnVc(Sent(n, port), v) => count > 0
  <2>1. OutBwd(n, Rx(n, keep))[port] = BwdOut(n, port)
    BY WiresIn
  <2> QED BY <2>1, CreditsAfter
<1>7. len \in Nat /\ len2 \in Nat
  <2> HIDE DEF m, at
  <2>1. router[m].buf[at][v] \in Seq(Flits)
    BY <1>1 DEF MeshInv, RoutersOK, RouterOK
  <2>2. router'[m].buf[at][v] \in Seq(Flits')
    BY <1>1 DEF RoutersOK, RouterOK
  <2>3. len \in Nat
    BY <2>1
  <2>4. len2 \in Nat
    BY <2>2
  <2> QED BY <2>3, <2>4
<1>8. /\ sends \in {0, 1} /\ comes \in {0, 1} /\ back \in {0, 1}
      /\ left \in {0, 1} /\ leaves \in {0, 1}
      /\ OnVc(Came(n, port), v) => comes = 1
      /\ sends = 1 => OnVc(Sent(n, port), v)
  BY DEF Bit
<1>9. InFwd(AllWires, m, Tx(m, hold))[at] = Came(n, port)
  BY <1>1, WiresIn
<1> HIDE DEF m, at
<1>10. (OnVc(Came(n, port), v) => len < BufSlots) => len2 + leaves = len + comes
  BY <1>1, <1>9, BufAfter
<1>12. OnVc(Came(n, port), v) => len < BufSlots
  BY SlotForCame DEF m, at
<1> HIDE DEF sends, comes, back, left, leaves, count, fwd, len, bwd, count2, fwd2, len2, bwd2
<1>11. BUF_DEPTH \in Nat
  BY NocAssumption
<1>13. len2 + leaves = len + comes
  BY <1>10, <1>12
<1>14. count2 + fwd2 + len2 + leaves + bwd2 = BUF_DEPTH
  BY <1>2, <1>4, <1>5, <1>6, <1>7, <1>8, <1>11, <1>13
<1> QED BY <1>14 DEF m, at, leaves, count2, fwd2, len2, bwd2

\* The same between a sender and the router of its node.
LEMMA SenderConserves ==
  ASSUME MeshInv, RoutersOK', NEW hold, NEW keep, Clocked(hold, keep), NEW n \in Nodes, NEW v \in VCs
  PROVE  tx_credits'[n][v] + Len(router'[n].buf[LOCAL_PORT][v])
           + Bit(router'[n].credit_q[LOCAL_PORT] = v) = BUF_DEPTH
<1> DEFINE sends == Bit(OnVc(Tx(n, hold), v))
           left  == Bit(router[n].credit_q[LOCAL_PORT] = v)
           leaves == Bit(router'[n].credit_q[LOCAL_PORT] = v)
           count == tx_credits[n][v]
           len   == Len(router[n].buf[LOCAL_PORT][v])
           count2 == tx_credits'[n][v]
           len2  == Len(router'[n].buf[LOCAL_PORT][v])
<1>1. LOCAL_PORT \in Ports
  BY DEF LOCAL_PORT, Ports
<1>2. count + len + left = BUF_DEPTH
  BY DEF MeshInv, CreditsConserved
<1>3. count \in Nat /\ (OnVc(Tx(n, hold), v) => count > 0)
  BY TxHasCredit DEF MeshInv, NodesOK
<1>4. count2 \in Nat /\ count2 = count - sends + left
  BY TxCreditsAfter
<1>5. len \in Nat /\ len2 \in Nat
  <2>1. router[n].buf[LOCAL_PORT][v] \in Seq(Flits)
    BY <1>1 DEF MeshInv, RoutersOK, RouterOK
  <2>2. router'[n].buf[LOCAL_PORT][v] \in Seq(Flits')
    BY <1>1 DEF RoutersOK, RouterOK
  <2>3. len \in Nat
    BY <2>1
  <2>4. len2 \in Nat
    BY <2>2
  <2> QED BY <2>3, <2>4
<1>6. /\ sends \in {0, 1} /\ left \in {0, 1} /\ leaves \in {0, 1}
  BY DEF Bit
<1>7. InFwd(AllWires, n, Tx(n, hold))[LOCAL_PORT] = Tx(n, hold)
  BY <1>1, WiresIn
<1>8. (OnVc(Tx(n, hold), v) => len < BufSlots) => len2 + leaves = len + sends
  BY <1>1, <1>7, BufAfter
<1>9. BUF_DEPTH \in Nat
  BY NocAssumption
<1>10. OnVc(Tx(n, hold), v) => len < BufSlots
  BY SlotForTx
<1> HIDE DEF sends, left, leaves, count, len, count2, len2
<1>11. count2 + len2 + leaves = BUF_DEPTH
  BY <1>2, <1>3, <1>4, <1>5, <1>6, <1>8, <1>9, <1>10
<1> QED BY <1>11 DEF leaves, count2, len2

\* The same between a router and the receiver of its node.
LEMMA ReceiverConserves ==
  ASSUME MeshInv, NEW hold, NEW keep, Clocked(hold, keep), NEW n \in Nodes, NEW v \in VCs
  PROVE  router'[n].credits[LOCAL_PORT][v] + Times(owed'[n], v) = BUF_DEPTH
<1> DEFINE sends == Bit(OnVc(Sent(n, LOCAL_PORT), v))
           back  == Bit(Rx(n, keep) = v)
           count == router[n].credits[LOCAL_PORT][v]
           owes  == Times(owed[n], v)
           count2 == router'[n].credits[LOCAL_PORT][v]
           owes2 == Times(owed'[n], v)
<1>1. LOCAL_PORT \in Ports
  BY DEF LOCAL_PORT, Ports
<1>2. count + owes = BUF_DEPTH
  BY DEF MeshInv, CreditsConserved
<1>3. owes \in Nat /\ owes2 = owes + sends - back
  BY OwedAfter
<1>4. count \in Nat /\ count2 = count - sends + back
  <2>1. OutBwd(n, Rx(n, keep))[LOCAL_PORT] = Rx(n, keep)
    BY <1>1, WiresIn
  <2> QED BY <1>1, <2>1, CreditsAfter
<1>5. sends \in {0, 1} /\ back \in {0, 1}
  BY DEF Bit
<1> HIDE DEF sends, back, count, owes, count2, owes2
<1>6. count2 + owes2 = BUF_DEPTH
  BY <1>2, <1>3, <1>4, <1>5
<1> QED BY <1>6 DEF count2, owes2

LEMMA ConservedStep ==
  ASSUME MeshInv, RoutersOK', NEW hold, NEW keep, Clocked(hold, keep)
  PROVE  CreditsConserved'
<1>1. ASSUME NEW n \in Nodes, NEW v \in VCs, NEW port \in DOMAIN link'[n]
      PROVE  port \in Ports /\ Linked(n, port)
  BY LinkAfter
<1>2. \A n \in Nodes, v \in VCs : \A port \in DOMAIN link'[n] :
        LET far == router'[Neighbor(n, port)]
            at  == Opposite[port]
        IN  router'[n].credits[port][v] + OnWire(link'[n][port].fwd, v) + Len(far.buf[at][v])
              + Bit(far.credit_q[at] = v) + Times(link'[n][port].bwd, v) = BUF_DEPTH
  BY <1>1, LinkConserves
<1>3. \A n \in Nodes, v \in VCs :
        tx_credits'[n][v] + Len(router'[n].buf[LOCAL_PORT][v])
          + Bit(router'[n].credit_q[LOCAL_PORT] = v) = BUF_DEPTH
  BY SenderConserves
<1>4. \A n \in Nodes, v \in VCs : router'[n].credits[LOCAL_PORT][v] + Times(owed'[n], v) = BUF_DEPTH
  BY ReceiverConserves
<1> QED BY <1>2, <1>3, <1>4 DEF CreditsConserved, OnWire, Times

LEMMA MeshInvStep == MeshInv /\ [Next]_vars => MeshInv'
<1> SUFFICES ASSUME MeshInv, [Next]_vars PROVE MeshInv'
  OBVIOUS
<1>1. CASE Next
  <2>1. PICK hold \in Some(UNION {MaySend(n) : n \in Nodes}),
             keep \in Some({n \in Nodes : owed[n] # <<>>}) :
               /\ stalls + Cardinality(hold) + Cardinality(keep) <= MaxStalls
               /\ Clock(hold, keep)
    BY <1>1 DEF Next
  <2>2. Clocked(hold, keep)
    BY <2>1, ClockIs
  <2>3. RoutersOK'
    BY <1>1, <2>2, RoutersStep
  <2>4. LinksOK' /\ NodesOK'
    BY <2>2, LinksStep, NodesStep
  <2>5. EdgesIdle' /\ CreditsConserved'
    BY <2>2, <2>3, EdgesStep, ConservedStep
  <2>6. RunOK'
    BY <2>1, RunStep DEF MeshInv
  <2> QED BY <2>3, <2>4, <2>5, <2>6 DEF MeshInv
<1>2. CASE UNCHANGED vars
  <2>1. Flits' = Flits
    BY <1>2 DEF vars, Flits
  <2>2. RoutersOK' /\ LinksOK'
    BY <1>2, <2>1 DEF vars, MeshInv, RoutersOK, LinksOK
  <2>3. EdgesIdle' /\ NodesOK' /\ RunOK'
    BY <1>2 DEF vars, MeshInv, EdgesIdle, NodesOK, RunOK
  <2>4. CreditsConserved'
    BY <1>2 DEF vars, MeshInv, CreditsConserved
  <2> QED BY <2>2, <2>3, <2>4 DEF MeshInv
<1> QED BY <1>1, <1>2

LEMMA MeshInvInit == Init => MeshInv
<1> SUFFICES ASSUME Init PROVE MeshInv
  OBVIOUS
<1>1. NUM_VCS \in Nat /\ BUF_DEPTH \in Nat /\ MaxStalls \in Nat /\ None \notin VCs /\ 0 \in VCs
  BY NocAssumption, MeshAssumption DEF VCs
<1>2. RunOK
  <2>1. \A p \in Packets : p.len \in Nat
    BY MeshAssumption
  <2> QED BY <1>1, <2>1 DEF Init, RunOK
<1>3. ASSUME NEW n \in Nodes PROVE RouterOK(router[n], Flits)
  <2>1. router[n] = RouterReset
    BY DEF Init
  <2>2. LOCAL_PORT \in Ports
    BY DEF LOCAL_PORT, Ports
  <2>3. RouterOK(RouterReset, Flits)
    BY <1>1, <2>2 DEF RouterOK, RouterReset, InVcState, MaybeVc
  <2> QED BY <2>1, <2>3
<1>4. ASSUME NEW n \in Nodes, NEW p \in Ports, NEW v \in VCs
      PROVE  /\ router[n].buf[p][v] = <<>> /\ router[n].credits[p][v] = BUF_DEPTH
             /\ router[n].credit_q[p] = None
  BY DEF Init, RouterReset
<1>5. ASSUME NEW n \in Nodes
      PROVE  /\ DOMAIN link[n] = {port \in Ports : Linked(n, port)}
             /\ \A port \in DOMAIN link[n] :
                  /\ link[n][port].fwd = [k \in 1 .. LINK_DELAY |-> None]
                  /\ link[n][port].bwd = [k \in 1 .. LINK_DELAY |-> None]
  BY DEF Init
<1>6. LinksOK
  BY <1>5 DEF LinksOK
<1>7. EdgesIdle
  BY <1>1, <1>4 DEF EdgesIdle
<1>8. ASSUME NEW n \in Nodes, NEW v \in VCs
      PROVE  tx_credits[n][v] = BUF_DEPTH /\ owed[n] = <<>>
  BY DEF Init
<1>9. NodesOK
  BY <1>1, <1>8 DEF NodesOK, Init
<1>10. CreditsConserved
  <2>1. Cardinality({}) = 0
    BY FS_EmptySet
  <2>2. ASSUME NEW v \in VCs
        PROVE  /\ OnWire([k \in 1 .. LINK_DELAY |-> None], v) = 0
               /\ Times([k \in 1 .. LINK_DELAY |-> None], v) = 0
               /\ Times(<<>>, v) = 0
               /\ Bit(None = v) = 0
    <3> DEFINE line == [k \in 1 .. LINK_DELAY |-> None]
    <3>1. {k \in DOMAIN line : OnVc(line[k], v)} = {}
      BY DEF OnVc
    <3>2. {k \in DOMAIN line : line[k] = v} = {}
      BY <1>1
    <3>3. {k \in DOMAIN <<>> : <<>>[k] = v} = {}
      OBVIOUS
    <3>4. Bit(None = v) = 0
      BY <1>1 DEF Bit
    <3> HIDE DEF line
    <3>5. OnWire(line, v) = 0 /\ Times(line, v) = 0 /\ Times(<<>>, v) = 0
      BY <2>1, <3>1, <3>2, <3>3 DEF OnWire, Times
    <3> QED BY <3>4, <3>5 DEF line
  <2>3. ASSUME NEW n \in Nodes, NEW v \in VCs, NEW port \in DOMAIN link[n]
        PROVE  LET far == router[Neighbor(n, port)]
                   at  == Opposite[port]
               IN  router[n].credits[port][v] + OnWire(link[n][port].fwd, v)
                     + Len(far.buf[at][v]) + Bit(far.credit_q[at] = v)
                     + Times(link[n][port].bwd, v) = BUF_DEPTH
    <3>1. port \in Ports /\ Linked(n, port)
      BY <1>5
    <3>2. Neighbor(n, port) \in Nodes /\ Opposite[port] \in Ports
      BY <3>1, NeighborBack
    <3>3. /\ OnWire(link[n][port].fwd, v) = 0 /\ Times(link[n][port].bwd, v) = 0
      BY <1>5, <2>2
    <3>4. /\ router[n].credits[port][v] = BUF_DEPTH
          /\ router[Neighbor(n, port)].buf[Opposite[port]][v] = <<>>
          /\ Bit(router[Neighbor(n, port)].credit_q[Opposite[port]] = v) = 0
      BY <1>4, <2>2, <3>1, <3>2
    <3>5. Len(<<>>) = 0
      OBVIOUS
    <3> QED BY <1>1, <3>3, <3>4, <3>5
  <2>4. ASSUME NEW n \in Nodes, NEW v \in VCs
        PROVE  /\ tx_credits[n][v] + Len(router[n].buf[LOCAL_PORT][v])
                    + Bit(router[n].credit_q[LOCAL_PORT] = v) = BUF_DEPTH
               /\ router[n].credits[LOCAL_PORT][v] + Times(owed[n], v) = BUF_DEPTH
    <3>1. LOCAL_PORT \in Ports
      BY DEF LOCAL_PORT, Ports
    <3>2. /\ router[n].credits[LOCAL_PORT][v] = BUF_DEPTH
          /\ router[n].buf[LOCAL_PORT][v] = <<>>
          /\ Bit(router[n].credit_q[LOCAL_PORT] = v) = 0
      BY <1>4, <2>2, <3>1
    <3>3. Len(<<>>) = 0
      OBVIOUS
    <3> QED BY <1>1, <1>8, <2>2, <3>2, <3>3
  <2> QED BY <2>3, <2>4 DEF CreditsConserved
<1> QED BY <1>2, <1>3, <1>6, <1>7, <1>9, <1>10 DEF MeshInv, RoutersOK

-----------------------------------------------------------------------------
\* In every state the credits agree with buffers and links and every VC with its output.
THEOREM MeshInvariant == Spec => []MeshInv
  BY MeshInvInit, MeshInvStep, PTL DEF Spec

\* No slot of a buffer is lost or used twice, in a mesh of any size, with any
\* number of VCs and slots and any length of the links, whatever is sent: the
\* credits, flits and slots of every VC of every link add up to BUF_DEPTH.
THEOREM CreditsAreConserved == Spec => []CreditsConserved
<1>1. MeshInv => CreditsConserved
  BY DEF MeshInv
<1> QED BY <1>1, MeshInvariant, PTL

\* A buffer never overflows and a count of credits never leaves 0 .. BUF_DEPTH:
\* the flit that comes always finds a slot (NocVirtChIn's push is never lost).
LEMMA InvIsTyped == MeshInv => TypeOK
<1> SUFFICES ASSUME MeshInv PROVE TypeOK
  OBVIOUS
<1>1. BUF_DEPTH \in Nat /\ BufSlots \in Nat /\ BUF_DEPTH <= BufSlots
  BY SlotsEnough, NocAssumption
<1>2. ASSUME NEW n \in Nodes, NEW p \in Ports, NEW v \in VCs
      PROVE  /\ router[n].buf[p][v] \in Seq(Flits) /\ router[n].credits[p][v] \in Nat
             /\ Len(router[n].buf[p][v]) \in Nat
             /\ Bit(router[n].credit_q[p] = v) \in {0, 1}
  BY DEF MeshInv, RoutersOK, RouterOK, Bit
<1>3. ASSUME NEW n \in Nodes, NEW v \in VCs
      PROVE  tx_credits[n][v] \in Nat /\ Times(owed[n], v) \in Nat
  BY TimesType DEF MeshInv, NodesOK
<1>4. ASSUME NEW n \in Nodes, NEW port \in Ports, Linked(n, port), NEW v \in VCs
      PROVE  /\ router[n].credits[port][v] <= BUF_DEPTH
             /\ Len(router[Neighbor(n, port)].buf[Opposite[port]][v]) <= BUF_DEPTH
  <2> DEFINE m == Neighbor(n, port)
             at == Opposite[port]
             count == router[n].credits[port][v]
             len == Len(router[m].buf[at][v])
             left == Bit(router[m].credit_q[at] = v)
             fwd == OnWire(link[n][port].fwd, v)
             bwd == Times(link[n][port].bwd, v)
  <2>1. m \in Nodes /\ at \in Ports
    BY <1>4, NeighborBack
  <2>2. count \in Nat /\ len \in Nat /\ left \in {0, 1}
    BY <1>2, <2>1
  <2>3. /\ port \in DOMAIN link[n]
        /\ DOMAIN link[n][port].fwd = 1 .. LINK_DELAY /\ DOMAIN link[n][port].bwd = 1 .. LINK_DELAY
    BY <1>4 DEF MeshInv, LinksOK
  <2>4. fwd \in Nat /\ bwd \in Nat
    BY <2>3, WireShift, CreditShift
  <2>5. count + fwd + len + left + bwd = BUF_DEPTH
    BY <2>3 DEF MeshInv, CreditsConserved
  <2> HIDE DEF count, len, left, fwd, bwd
  <2>6. count <= BUF_DEPTH /\ len <= BUF_DEPTH
    BY <1>1, <2>2, <2>4, <2>5
  <2> QED BY <2>6 DEF count, len, m, at
<1>5. ASSUME NEW n \in Nodes, NEW v \in VCs
      PROVE  /\ tx_credits[n][v] <= BUF_DEPTH
             /\ router[n].credits[LOCAL_PORT][v] <= BUF_DEPTH
             /\ Len(router[n].buf[LOCAL_PORT][v]) <= BUF_DEPTH
  <2> DEFINE len == Len(router[n].buf[LOCAL_PORT][v])
             left == Bit(router[n].credit_q[LOCAL_PORT] = v)
             count == router[n].credits[LOCAL_PORT][v]
             owes == Times(owed[n], v)
             tx == tx_credits[n][v]
  <2>1. LOCAL_PORT \in Ports
    BY DEF LOCAL_PORT, Ports
  <2>2. count \in Nat /\ len \in Nat /\ left \in {0, 1} /\ owes \in Nat /\ tx \in Nat
    BY <1>2, <1>3, <2>1
  <2>3. tx + len + left = BUF_DEPTH /\ count + owes = BUF_DEPTH
    BY DEF MeshInv, CreditsConserved
  <2> HIDE DEF len, left, count, owes, tx
  <2>4. tx <= BUF_DEPTH /\ count <= BUF_DEPTH /\ len <= BUF_DEPTH
    BY <1>1, <2>2, <2>3
  <2> QED BY <2>4 DEF len, count, tx
<1>6. ASSUME NEW n \in Nodes, NEW p \in Ports, NEW v \in VCs
      PROVE  router[n].credits[p][v] <= BUF_DEPTH /\ Len(router[n].buf[p][v]) <= BUF_DEPTH
  <2>1. CASE p = LOCAL_PORT
    BY <1>5, <2>1
  <2>2. CASE Linked(n, p)
    <3>1. /\ Neighbor(n, p) \in Nodes /\ Opposite[p] \in Ports /\ Linked(Neighbor(n, p), Opposite[p])
          /\ Neighbor(Neighbor(n, p), Opposite[p]) = n /\ Opposite[Opposite[p]] = p
      BY <2>2, NeighborBack
    <3>2. Len(router[n].buf[p][v]) <= BUF_DEPTH
      BY <1>4, <3>1
    <3> QED BY <1>4, <2>2, <3>2
  <2>3. CASE p # LOCAL_PORT /\ ~ Linked(n, p)
    BY <1>1, <2>3 DEF MeshInv, EdgesIdle
  <2> QED BY <2>1, <2>2, <2>3
<1>7. \A f \in Flits : IsFlit(f)
  BY DEF Flits, IsFlit
<1>8. ASSUME NEW n \in Nodes, NEW p \in Ports, NEW v \in VCs
      PROVE  /\ router[n].vc[p][v] \in InVcState
             /\ Len(router[n].buf[p][v]) <= BufSlots
             /\ \A k \in DOMAIN router[n].buf[p][v] : IsFlit(router[n].buf[p][v][k])
             /\ router[n].credits[p][v] \in 0 .. BUF_DEPTH
             /\ router[n].taken[p][v] \in BOOLEAN
             /\ tx_credits[n][v] \in 0 .. BUF_DEPTH
  <2>1. router[n].vc[p][v] \in InVcState /\ router[n].taken[p][v] \in BOOLEAN
    BY DEF MeshInv, RoutersOK, RouterOK
  <2>2. Len(router[n].buf[p][v]) <= BufSlots /\ router[n].credits[p][v] \in 0 .. BUF_DEPTH
    BY <1>1, <1>2, <1>6
  <2>3. \A k \in DOMAIN router[n].buf[p][v] : router[n].buf[p][v][k] \in Flits
    BY <1>2
  <2>4. tx_credits[n][v] \in 0 .. BUF_DEPTH
    BY <1>1, <1>3, <1>5
  <2> QED BY <1>7, <2>1, <2>2, <2>3, <2>4
<1>9. \A n \in Nodes, p \in Ports : /\ router[n].credit_q[p] \in MaybeVc
                                    /\ router[n].va_last[p] \in 0 .. 5 * NUM_VCS
                                    /\ router[n].in_last[p] \in 0 .. NUM_VCS
                                    /\ router[n].out_last[p] \in 0 .. 5
  BY DEF MeshInv, RoutersOK, RouterOK
<1> QED BY <1>8, <1>9 DEF TypeOK, MeshInv, RunOK

\* The types of the mesh, for every mesh: counts of credits stay in range and
\* buffers within their slots.
THEOREM TypeCorrect == Spec => []TypeOK
  BY MeshInvariant, InvIsTyped, PTL

-----------------------------------------------------------------------------
(* The packets on a virtual channel.                                       *)

\* What has to come next: a head ({}), or flit k of a packet ({<<pkt, k>>}).
After(f)        == IF IsTail(f) THEN {} ELSE {<<f.pkt, f.n + 1>>}
Accepts(e, f)   == IF e = {} THEN IsHead(f) ELSE e = {<<f.pkt, f.n>>}
Pass(e, f, v)   == IF OnVc(f, v) THEN After(f) ELSE e

\* What the sender of node n has to send next on VC v.
Due(n, v) ==
  {<<p, sent[p] + 1>> : p \in {q \in offered : q.src = n /\ q.vc = v /\ 0 < sent[q] /\ sent[q] < q.len}}

\* G[n][port][v][k]: what comes next behind place k of the link from an output
\* port, at k = 0 what its router has to send next.  What comes next into the
\* buffer of an input VC:
Expected(G, n, p, v) ==
  IF p = LOCAL_PORT THEN Due(n, v)
  ELSE IF Linked(n, p) THEN G[Neighbor(n, p)][Opposite[p]][v][LINK_DELAY] ELSE {}

\* The places of a link carry packets, each whole and in order.
PlacesOK(G) ==
  \A n \in Nodes, port \in Ports, v \in VCs : Linked(n, port) =>
    \A k \in 1 .. LINK_DELAY :
      /\ G[n][port][v][k - 1] = Pass(G[n][port][v][k], link[n][port].fwd[k], v)
      /\ OnVc(link[n][port].fwd[k], v) => Accepts(G[n][port][v][k], link[n][port].fwd[k])

\* So does a buffer before which e comes next.
BufOK(buf, e, v) ==
  /\ \A k \in 1 .. Len(buf) : OnVc(buf[k], v)
  /\ \A k \in 1 .. Len(buf) - 1 : Follows(buf[k], buf[k + 1])
  /\ buf # <<>> => e = After(buf[Len(buf)])

\* The front of a buffer, there or still to come, is what is due.
NextUp(due, buf, e) == IF buf # <<>> THEN Accepts(due, buf[1]) ELSE e = due

\* An input VC that sends has what is due behind its output VC; one that does
\* not begins with a packet.
VcOK(G, n, p, v) ==
  LET s   == router[n].vc[p][v]
      buf == router[n].buf[p][v]
      e   == Expected(G, n, p, v)
  IN  /\ BufOK(buf, e, v)
      /\ s.state = "ACTIVE" => /\ router[n].taken[s.route][s.out_vc]
                               /\ NextUp(G[n][s.route][s.out_vc][0], buf, e)
                               /\ buf = <<>> => e # {}
      /\ s.state # "ACTIVE" => NextUp({}, buf, e)
      /\ s.state = "WAIT_VC" => buf # <<>>

HeldOnce(n, port, v) ==
  /\ router[n].taken[port][v] => Holders(n, port, v) # {}
  /\ \A g, h \in Holders(n, port, v) : g = h

FreeIsDone(G) ==
  \A n \in Nodes, port \in Ports, v \in VCs : ~ router[n].taken[port][v] => G[n][port][v][0] = {}

SendOrder ==
  \A p, q \in offered :
    (p.src = q.src /\ p.vc = q.vc /\ p.id < q.id /\ sent[q] > 0) => sent[p] = p.len

PacketsOK(G) ==
  /\ PlacesOK(G) /\ FreeIsDone(G) /\ SendOrder
  /\ \A n \in Nodes, p \in Ports, v \in VCs : VcOK(G, n, p, v) /\ HeldOnce(n, p, v)

\* A flit that follows another is what comes next behind it.
LEMMA FollowsIsNext ==
  ASSUME NEW a, NEW b
  PROVE  /\ Follows(a, b) <=> Accepts(After(a), b)
         /\ After(a) = {} <=> IsTail(a)
<1>1. CASE IsTail(a)
  BY <1>1 DEF Follows, Accepts, After
<1>2. CASE ~ IsTail(a)
  <2>1. After(a) = {<<a.pkt, a.n + 1>>} /\ After(a) # {}
    BY <1>2 DEF After
  <2>2. {<<a.pkt, a.n + 1>>} = {<<b.pkt, b.n>>} <=> b.pkt = a.pkt /\ b.n = a.n + 1
    <3>1. \A x, y : {x} = {y} <=> x = y
      OBVIOUS
    <3>2. <<a.pkt, a.n + 1>> = <<b.pkt, b.n>> <=> b.pkt = a.pkt /\ b.n = a.n + 1
      OBVIOUS
    <3> QED BY <3>1, <3>2
  <2> QED BY <1>2, <2>1, <2>2 DEF Follows, Accepts
<1> QED BY <1>1, <1>2

\* A buffer that gives up its front has what comes behind it in front.
LEMMA TailStep ==
  ASSUME NEW S, NEW buf \in Seq(S), buf # <<>>, NEW e, NEW v, BufOK(buf, e, v)
  PROVE  BufOK(Tail(buf), e, v) /\ NextUp(After(buf[1]), Tail(buf), e)
<1> DEFINE new == Tail(buf)
<1>1. /\ Len(buf) \in Nat /\ Len(buf) >= 1 /\ new \in Seq(S) /\ Len(new) = Len(buf) - 1
      /\ \A k \in 1 .. Len(new) : new[k] = buf[k + 1]
  OBVIOUS
<1> HIDE DEF new
<1>2. new = <<>> <=> Len(buf) = 1
  <2>1. new = <<>> <=> Len(new) = 0
    BY <1>1
  <2> QED BY <1>1, <2>1
<1>3. \A k \in 1 .. Len(new) : k + 1 \in 1 .. Len(buf)
  BY <1>1
<1>4. \A k \in 1 .. Len(new) - 1 :
        k + 1 \in 1 .. Len(buf) - 1 /\ k \in 1 .. Len(new) /\ k + 1 \in 1 .. Len(new)
  BY <1>1
<1>5. /\ \A k \in 1 .. Len(new) : OnVc(new[k], v)
      /\ \A k \in 1 .. Len(new) - 1 : Follows(new[k], new[k + 1])
  <2>1. \A k \in 1 .. Len(new) : OnVc(new[k], v)
    BY <1>1, <1>3 DEF BufOK
  <2>2. ASSUME NEW k \in 1 .. Len(new) - 1 PROVE Follows(new[k], new[k + 1])
    <3>1. new[k] = buf[k + 1] /\ new[k + 1] = buf[(k + 1) + 1]
      BY <1>1, <1>4
    <3>2. Follows(buf[k + 1], buf[(k + 1) + 1])
      BY <1>4 DEF BufOK
    <3> QED BY <3>1, <3>2
  <2> QED BY <2>1, <2>2
<1>6. e = After(buf[Len(buf)])
  BY DEF BufOK
<1>7. CASE Len(buf) = 1
  <2>1. new = <<>> /\ e = After(buf[1])
    BY <1>2, <1>6, <1>7
  <2>2. BufOK(new, e, v)
    BY <1>5, <2>1 DEF BufOK
  <2> QED BY <2>1, <2>2 DEF NextUp, new
<1>8. CASE Len(buf) # 1
  <2>1. new # <<>> /\ Len(new) \in 1 .. Len(new) /\ 1 \in 1 .. Len(buf) - 1 /\ 1 \in 1 .. Len(new)
    BY <1>1, <1>2, <1>8
  <2>2. new[Len(new)] = buf[Len(buf)] /\ new[1] = buf[1 + 1]
    <3>1. new[Len(new)] = buf[Len(new) + 1] /\ new[1] = buf[1 + 1]
      BY <1>1, <2>1
    <3>2. Len(new) + 1 = Len(buf)
      BY <1>1
    <3> QED BY <3>1, <3>2
  <2>3. BufOK(new, e, v)
    BY <1>5, <1>6, <2>2 DEF BufOK
  <2>4. Follows(buf[1], buf[1 + 1])
    BY <2>1 DEF BufOK
  <2>5. Accepts(After(buf[1]), new[1])
    BY <2>2, <2>4, FollowsIsNext
  <2> QED BY <2>1, <2>3, <2>5 DEF NextUp, new
<1> QED BY <1>7, <1>8

\* A buffer that takes what comes next stays whole and in order.
LEMMA AppendStep ==
  ASSUME NEW S, NEW buf \in Seq(S), NEW a \in S, NEW e, NEW v, BufOK(buf, e, v),
         OnVc(a, v), Accepts(e, a)
  PROVE  /\ BufOK(Append(buf, a), After(a), v) /\ Append(buf, a) # <<>>
         /\ \A due : NextUp(due, buf, e) => NextUp(due, Append(buf, a), After(a))
<1> DEFINE new == Append(buf, a)
<1>1. /\ Len(buf) \in Nat /\ new \in Seq(S) /\ Len(new) = Len(buf) + 1
      /\ \A k \in 1 .. Len(buf) : new[k] = buf[k]
      /\ new[Len(buf) + 1] = a /\ new # <<>>
  OBVIOUS
<1> HIDE DEF new
<1>2. \A k \in 1 .. Len(new) : OnVc(new[k], v)
  <2>1. \A k \in 1 .. Len(new) : k \in 1 .. Len(buf) \/ k = Len(buf) + 1
    BY <1>1
  <2> QED BY <1>1, <2>1 DEF BufOK
<1>3. ASSUME NEW k \in 1 .. Len(new) - 1 PROVE Follows(new[k], new[k + 1])
  <2>1. CASE k = Len(buf)
    <3>1. buf # <<>> /\ k \in 1 .. Len(buf)
      BY <1>1, <2>1
    <3>2. e = After(buf[k])
      BY <2>1, <3>1 DEF BufOK
    <3>3. new[k] = buf[k] /\ new[k + 1] = a
      BY <1>1, <2>1, <3>1
    <3> QED BY <3>2, <3>3, FollowsIsNext
  <2>2. CASE k # Len(buf)
    <3>1. k \in 1 .. Len(buf) - 1 /\ k \in 1 .. Len(buf) /\ k + 1 \in 1 .. Len(buf)
      BY <1>1, <2>2
    <3>2. new[k] = buf[k] /\ new[k + 1] = buf[k + 1]
      BY <1>1, <3>1
    <3> QED BY <3>1, <3>2 DEF BufOK
  <2> QED BY <2>1, <2>2
<1>4. BufOK(new, After(a), v)
  BY <1>1, <1>2, <1>3 DEF BufOK
<1>5. ASSUME NEW due, NextUp(due, buf, e) PROVE NextUp(due, new, After(a))
  <2>1. CASE buf = <<>>
    <3>1. new[1] = a /\ e = due
      BY <1>1, <1>5, <2>1 DEF NextUp
    <3> QED BY <1>1, <3>1 DEF NextUp
  <2>2. CASE buf # <<>>
    <3>1. 1 \in 1 .. Len(buf)
      BY <1>1, <2>2
    <3>2. new[1] = buf[1] /\ Accepts(due, buf[1])
      BY <1>1, <1>5, <2>2, <3>1 DEF NextUp
    <3> QED BY <1>1, <3>2 DEF NextUp
  <2> QED BY <2>1, <2>2
<1> QED BY <1>1, <1>4, <1>5 DEF new

\* One clock of a buffer with a slot for what comes: e came next, a comes.
QueueNext(buf, pops, a, v) ==
  LET popped == IF pops THEN Tail(buf) ELSE buf
  IN  IF OnVc(a, v) THEN Append(popped, a) ELSE popped

LEMMA QueueStep ==
  ASSUME NEW S, NEW buf \in Seq(S), NEW e, NEW v, NEW a, NEW pops \in BOOLEAN,
         BufOK(buf, e, v), pops => buf # <<>>, OnVc(a, v) => a \in S /\ Accepts(e, a)
  PROVE  LET new == QueueNext(buf, pops, a, v)
             e2  == Pass(e, a, v)
         IN  /\ BufOK(new, e2, v)
             /\ pops => NextUp(After(buf[1]), new, e2)
             /\ ~ pops => /\ \A due : NextUp(due, buf, e) => NextUp(due, new, e2)
                          /\ new = <<>> => buf = <<>> /\ e2 = e
<1> DEFINE popped == IF pops THEN Tail(buf) ELSE buf
           new == QueueNext(buf, pops, a, v)
           e2  == Pass(e, a, v)
<1>1. popped \in Seq(S) /\ BufOK(popped, e, v)
  <2>1. CASE pops
    <3>1. Tail(buf) \in Seq(S)
      BY <2>1
    <3>2. BufOK(Tail(buf), e, v)
      BY <2>1, TailStep
    <3> QED BY <2>1, <3>1, <3>2
  <2>2. CASE ~ pops
    BY <2>2
  <2> QED BY <2>1, <2>2
<1>2. pops => NextUp(After(buf[1]), popped, e)
  BY TailStep
<1>3. ~ pops => popped = buf
  OBVIOUS
<1>4. new = IF OnVc(a, v) THEN Append(popped, a) ELSE popped
  BY DEF QueueNext
<1>5. e2 = IF OnVc(a, v) THEN After(a) ELSE e
  BY DEF Pass
<1> HIDE DEF popped, new, e2
<1>6. CASE OnVc(a, v)
  <2>1. /\ BufOK(Append(popped, a), After(a), v) /\ Append(popped, a) # <<>>
        /\ \A due : NextUp(due, popped, e) => NextUp(due, Append(popped, a), After(a))
    BY <1>1, <1>6, AppendStep
  <2>2. new = Append(popped, a) /\ e2 = After(a)
    BY <1>4, <1>5, <1>6
  <2>3. /\ BufOK(new, e2, v) /\ new # <<>>
        /\ \A due : NextUp(due, popped, e) => NextUp(due, new, e2)
    BY <2>1, <2>2
  <2> QED BY <1>2, <1>3, <2>3 DEF new, e2
<1>7. CASE ~ OnVc(a, v)
  <2>1. new = popped /\ e2 = e
    BY <1>4, <1>5, <1>7
  <2> QED BY <1>1, <1>2, <1>3, <2>1 DEF new, e2
<1> QED BY <1>6, <1>7

-----------------------------------------------------------------------------
(* Who sends on an output VC.                                              *)

Senders(r, port, w) ==
  {h \in Ports \X VCs : /\ r.vc[h[1]][h[2]].state = "ACTIVE"
                        /\ r.vc[h[1]][h[2]].route = port
                        /\ r.vc[h[1]][h[2]].out_vc = w}

\* Input VC (p, v) sends the flit at its front on output VC w of a port.
Sends(r, p, v, port, w) ==
  /\ r.vc[p][v].state = "ACTIVE" /\ r.vc[p][v].route = port /\ r.vc[p][v].out_vc = w
  /\ v \in Now(r).pop[p] /\ r.buf[p][v] # <<>>
  /\ OnVc(Now(r).out_fwd[port], w)
  /\ Now(r).out_fwd[port].pkt = Head(r.buf[p][v]).pkt
  /\ Now(r).out_fwd[port].n = Head(r.buf[p][v]).n

\* The flit at the front, on the virtual channel its packet was given.
LEMMA FrontOut ==
  ASSUME NEW r, NEW flits, FlitSet(flits), RouterOK(r, flits), NEW port \in Ports,
         NEW p \in Ports, NEW v \in Eligible(r, p), r.vc[p][v].route = port,
         v \in Now(r).pop[p],
         Now(r).out_fwd[port] = [Head(r.buf[p][v]) EXCEPT !.vc = r.vc[p][v].out_vc]
  PROVE  v \in VCs /\ r.vc[p][v].out_vc \in VCs /\ Sends(r, p, v, port, r.vc[p][v].out_vc)
<1> DEFINE w == r.vc[p][v].out_vc
           f == Head(r.buf[p][v])
           out == Now(r).out_fwd[port]
<1>1. v \in VCs /\ r.vc[p][v].state = "ACTIVE" /\ r.buf[p][v] # <<>>
  BY DEF Eligible
<1>2. r.buf[p][v] \in Seq(flits) /\ r.vc[p][v] \in InVcState
  BY <1>1 DEF RouterOK
<1>3. f \in flits /\ w \in VCs
  <2>1. w \in VCs
    BY <1>2 DEF InVcState
  <2> QED BY <1>1, <1>2, <2>1
<1>4. out = [f EXCEPT !.vc = w]
  OBVIOUS
<1> HIDE DEF f, w
<1>5. /\ [f EXCEPT !.vc = w] \in flits /\ [f EXCEPT !.vc = w].vc = w
      /\ [f EXCEPT !.vc = w].pkt = f.pkt /\ [f EXCEPT !.vc = w].n = f.n
  BY <1>3 DEF FlitSet
<1>6. out # None
  BY <1>4, <1>5 DEF FlitSet
<1>7. OnVc(out, w) /\ out.pkt = f.pkt /\ out.n = f.n
  BY <1>4, <1>5, <1>6 DEF OnVc
<1> QED BY <1>1, <1>3, <1>7 DEF Sends, f, w

\* An output port takes one of the input ports that want it, or none.
LEMMA OneWins ==
  ASSUME NEW r, NEW flits, RouterOK(r, flits), NEW port \in Ports
  PROVE  LET want == Want(r, Picks(r), port)
             win  == Wins(r, Picks(r))[port]
         IN  win = {} \/ \E q \in want : win = {q}
<1> DEFINE want == Want(r, Picks(r), port)
           last == r.out_last[port]
<1>1. Wins(r, Picks(r))[port] = Grant(want, last)
  BY DEF Wins
<1>2. 5 \in Nat /\ want \in SUBSET (0 .. 5 - 1) /\ last \in 0 .. 5
  BY RequestsAreInputs DEF RouterOK
<1> HIDE DEF want, last
<1>3. /\ Grant(want, last) = {} <=> want = {}
      /\ want # {} => \E q \in want : Grant(want, last) = {q}
  BY <1>2, GrantIsOneHot
<1> QED BY <1>1, <1>3 DEF want

\* The port that takes the pick of an input port sends its front.
LEMMA WinIs ==
  ASSUME NEW r, NEW flits, RouterOK(r, flits), NEW port \in Ports, NEW p \in Wins(r, Picks(r))[port]
  PROVE  /\ p \in Ports
         /\ \E v \in Eligible(r, p) :
              /\ Pick(r, p) = {v} /\ r.vc[p][v].route = port
              /\ Now(r).pop[p] = {v}
              /\ Now(r).out_fwd[port] = [Head(r.buf[p][v]) EXCEPT !.vc = r.vc[p][v].out_vc]
<1> DEFINE pick == Picks(r)
           want == Want(r, pick, port)
           win  == Wins(r, pick)
<1>1. Now(r).out_fwd[port] = IF win[port] = {} THEN None
                             ELSE Picked(r, pick, CHOOSE q \in win[port] : TRUE)
  BY DEF Now, Wires
<1>2. win[port] = {} \/ \E q \in want : win[port] = {q}
  BY OneWins
<1>3. \A q \in want : q \in Ports /\ \E v \in pick[q] : r.vc[q][v].route = port
  BY DEF Want
<1>4. \A q \in Ports : pick[q] = Pick(r, q)
  BY DEF Picks
<1>5. \A q \in Ports : Now(r).pop[q] = IF \E o \in Ports : q \in win[o] THEN pick[q] ELSE {}
  BY DEF Now, Wires
<1> HIDE DEF pick, want, win
<1>6. p \in win[port]
  BY DEF win, pick
<1>7. p \in want /\ win[port] = {p}
  BY <1>2, <1>6
<1>8. p \in Ports
  BY <1>3, <1>7
<1>9. PICK v \in pick[p] : r.vc[p][v].route = port
  BY <1>3, <1>7
<1>10. v \in Eligible(r, p) /\ pick[p] = {v}
  BY <1>4, <1>8, <1>9, PickIsOneHot
<1>11. Now(r).pop[p] = {v}
  BY <1>5, <1>6, <1>8, <1>10
<1>12. Picked(r, pick, p) = [Head(r.buf[p][v]) EXCEPT !.vc = r.vc[p][v].out_vc]
  <2>1. (CHOOSE u \in pick[p] : TRUE) = v
    BY <1>10
  <2> QED BY <2>1 DEF Picked
<1>13. (CHOOSE q \in win[port] : TRUE) = p /\ win[port] # {}
  BY <1>7
<1> QED BY <1>1, <1>4, <1>8, <1>9, <1>10, <1>11, <1>12, <1>13

\* What is popped is sent on the output VC of its packet,
LEMMA PopSends ==
  ASSUME NEW r, NEW flits, FlitSet(flits), RouterOK(r, flits),
         NEW p \in Ports, NEW v \in Now(r).pop[p]
  PROVE  v \in VCs /\ Sends(r, p, v, r.vc[p][v].route, r.vc[p][v].out_vc)
<1>1. Now(r).pop[p] = IF \E port \in Ports : p \in Wins(r, Picks(r))[port] THEN Picks(r)[p] ELSE {}
  BY DEF Now, Wires
<1>2. PICK port \in Ports : p \in Wins(r, Picks(r))[port]
  BY <1>1
<1>3. PICK u \in Eligible(r, p) :
         /\ r.vc[p][u].route = port /\ Now(r).pop[p] = {u}
         /\ Now(r).out_fwd[port] = [Head(r.buf[p][u]) EXCEPT !.vc = r.vc[p][u].out_vc]
  BY <1>2, WinIs
<1>4. u = v
  BY <1>3
<1>5. v \in VCs /\ Sends(r, p, v, port, r.vc[p][v].out_vc)
  BY <1>3, <1>4, FrontOut
<1> QED BY <1>3, <1>4, <1>5

\* and what goes out on an output VC is popped.
LEMMA SentIsPopped ==
  ASSUME NEW r, NEW flits, FlitSet(flits), RouterOK(r, flits),
         NEW port \in Ports, NEW w \in VCs, OnVc(Now(r).out_fwd[port], w)
  PROVE  \E p \in Ports, v \in VCs : Sends(r, p, v, port, w)
<1>1. Now(r).out_fwd[port] # None /\ Now(r).out_fwd[port].vc = w
  BY DEF OnVc
<1>2. PICK p \in Wins(r, Picks(r))[port] : TRUE
  <2>1. Now(r).out_fwd[port] = IF Wins(r, Picks(r))[port] = {} THEN None
                               ELSE Picked(r, Picks(r), CHOOSE q \in Wins(r, Picks(r))[port] : TRUE)
    BY DEF Now, Wires
  <2> QED BY <1>1, <2>1
<1>3. /\ p \in Ports
      /\ \E u \in Eligible(r, p) :
              /\ Pick(r, p) = {u} /\ r.vc[p][u].route = port
              /\ Now(r).pop[p] = {u}
              /\ Now(r).out_fwd[port] = [Head(r.buf[p][u]) EXCEPT !.vc = r.vc[p][u].out_vc]
  BY <1>2, WinIs
<1>4. PICK v \in Eligible(r, p) :
              /\ r.vc[p][v].route = port /\ Now(r).pop[p] = {v}
              /\ Now(r).out_fwd[port] = [Head(r.buf[p][v]) EXCEPT !.vc = r.vc[p][v].out_vc]
  BY <1>3
<1>5. v \in VCs /\ Sends(r, p, v, port, r.vc[p][v].out_vc)
  BY <1>3, <1>4, FrontOut
<1>6. OnVc(Now(r).out_fwd[port], r.vc[p][v].out_vc)
  BY <1>5 DEF Sends
<1>7. r.vc[p][v].out_vc = w
  BY <1>1, <1>6 DEF OnVc
<1> QED BY <1>3, <1>5, <1>7

\* What a clock does to an input VC.
VcMoves(r, p, v, s2) ==
  LET s == r.vc[p][v] IN
  \/ /\ s.state = "IDLE" /\ s2.state = "WAIT_VC"
     /\ r.buf[p][v] # <<>> /\ IsHead(Head(r.buf[p][v]))
  \/ /\ s.state = "WAIT_VC" /\ IsGranted(Now(r), s.route, p, v)
     /\ s2.state = "ACTIVE" /\ s2.route = s.route /\ s2.out_vc = Highest(FreeVcs(r, s.route))
  \/ /\ s.state = "ACTIVE" /\ v \in Now(r).pop[p] /\ IsTail(Head(r.buf[p][v]))
     /\ s2.state = "IDLE"
  \/ /\ s2 = s
     /\ ~ (s.state = "WAIT_VC" /\ IsGranted(Now(r), s.route, p, v))
     /\ ~ (s.state = "ACTIVE" /\ v \in Now(r).pop[p] /\ IsTail(Head(r.buf[p][v])))

LEMMA VcMovesIs ==
  ASSUME NEW r, NEW flits, RouterOK(r, flits), NEW at, NEW p \in Ports, NEW v \in VCs
  PROVE  VcMoves(r, p, v, VcNext(at, r, Now(r), p, v))
<1> DEFINE s == r.vc[p][v]
           port == XyPort(at, Head(r.buf[p][v]).pkt.dest)
           new  == Highest(FreeVcs(r, s.route))
           s2 == VcNext(at, r, Now(r), p, v)
           begins == r.buf[p][v] # <<>> /\ IsHead(Head(r.buf[p][v]))
           granted == IsGranted(Now(r), s.route, p, v)
           ends == v \in Now(r).pop[p] /\ IsTail(Head(r.buf[p][v]))
<1>1. s \in InVcState
  BY DEF RouterOK
<1>2. s2 = CASE s.state = "IDLE" /\ begins -> [s EXCEPT !.state = "WAIT_VC", !.route = port]
             [] s.state = "WAIT_VC" /\ granted -> [s EXCEPT !.state = "ACTIVE", !.out_vc = new]
             [] s.state = "ACTIVE" /\ ends -> [s EXCEPT !.state = "IDLE"]
             [] OTHER -> s
  BY DEF VcNext
<1> HIDE DEF s, port, new, s2, begins, granted, ends
<1>3. /\ [s EXCEPT !.state = "WAIT_VC", !.route = port].state = "WAIT_VC"
      /\ [s EXCEPT !.state = "ACTIVE", !.out_vc = new].state = "ACTIVE"
      /\ [s EXCEPT !.state = "ACTIVE", !.out_vc = new].out_vc = new
      /\ [s EXCEPT !.state = "ACTIVE", !.out_vc = new].route = s.route
      /\ [s EXCEPT !.state = "IDLE"].state = "IDLE"
  BY <1>1 DEF InVcState
<1>4. \/ s.state = "IDLE" /\ begins /\ s2.state = "WAIT_VC"
      \/ /\ s.state = "WAIT_VC" /\ granted
         /\ s2.state = "ACTIVE" /\ s2.route = s.route /\ s2.out_vc = new
      \/ s.state = "ACTIVE" /\ ends /\ s2.state = "IDLE"
      \/ s2 = s /\ ~ (s.state = "WAIT_VC" /\ granted) /\ ~ (s.state = "ACTIVE" /\ ends)
  <2>1. CASE s.state = "IDLE" /\ begins
    BY <1>2, <1>3, <2>1
  <2>2. CASE s.state = "WAIT_VC" /\ granted
    BY <1>2, <1>3, <2>2
  <2>3. CASE s.state = "ACTIVE" /\ ends
    BY <1>2, <1>3, <2>3
  <2>4. CASE /\ ~ (s.state = "IDLE" /\ begins) /\ ~ (s.state = "WAIT_VC" /\ granted)
             /\ ~ (s.state = "ACTIVE" /\ ends)
    BY <1>2, <2>4
  <2> QED BY <2>1, <2>2, <2>3, <2>4
<1> QED BY <1>4 DEF VcMoves, s, new, s2, begins, granted, ends

\* The number of an input VC as a requester names it.
LEMMA RequesterIs ==
  /\ \A k \in Requesters : PortOf(k) \in Ports /\ VcOf(k) \in VCs /\ PortOf(k) * NUM_VCS + VcOf(k) = k
  /\ \A p, q \in Ports, v, u \in VCs :
       p * NUM_VCS + v = q * NUM_VCS + u => p = q /\ v = u
<1>1. NUM_VCS \in Nat /\ NUM_VCS > 0
  BY NocAssumption
<1>2. ASSUME NEW k \in Requesters
      PROVE  PortOf(k) \in Ports /\ VcOf(k) \in VCs /\ PortOf(k) * NUM_VCS + VcOf(k) = k
  <2> DEFINE p == k \div NUM_VCS
             v == k % NUM_VCS
  <2>1. k \in Nat /\ k < 5 * NUM_VCS
    BY <1>1, <1>2 DEF Requesters
  <2>2. p \in Int /\ v \in 0 .. NUM_VCS - 1 /\ p * NUM_VCS + v = k
    BY <1>1, <2>1, SMTT(30)
  <2> HIDE DEF p, v
  <2>3. 0 <= p
    <3> SUFFICES ASSUME p <= 0 - 1 PROVE FALSE
      BY <2>2
    <3>1. p * NUM_VCS <= (0 - 1) * NUM_VCS
      BY <1>1, <2>2, SMTT(30)
    <3> QED BY <1>1, <2>1, <2>2, <3>1
  <2>4. p <= 4
    <3> SUFFICES ASSUME 5 <= p PROVE FALSE
      BY <2>2
    <3>1. 5 * NUM_VCS <= p * NUM_VCS
      BY <1>1, <2>2, SMTT(30)
    <3> QED BY <1>1, <2>1, <2>2, <3>1
  <2> QED BY <2>2, <2>3, <2>4 DEF p, v, PortOf, VcOf, Ports, VCs
<1>3. ASSUME NEW p \in Ports, NEW q \in Ports, NEW v \in VCs, NEW u \in VCs,
             p * NUM_VCS + v = q * NUM_VCS + u
      PROVE  p = q /\ v = u
  <2>1. p \in {0, 1, 2, 3, 4} /\ q \in {0, 1, 2, 3, 4}
    BY DEF Ports
  <2>2. v \in Int /\ 0 <= v /\ v < NUM_VCS /\ u \in Int /\ 0 <= u /\ u < NUM_VCS
    BY <1>1 DEF VCs
  <2>3. CASE p = 0
    BY <1>1, <1>3, <2>1, <2>2, <2>3
  <2>4. CASE p = 1
    BY <1>1, <1>3, <2>1, <2>2, <2>4
  <2>5. CASE p = 2
    BY <1>1, <1>3, <2>1, <2>2, <2>5
  <2>6. CASE p = 3
    BY <1>1, <1>3, <2>1, <2>2, <2>6
  <2>7. CASE p = 4
    BY <1>1, <1>3, <2>1, <2>2, <2>7
  <2> QED BY <2>1, <2>3, <2>4, <2>5, <2>6, <2>7
<1> QED BY <1>2, <1>3

\* An arbiter that grants has one winner.
LEMMA OneGranted ==
  ASSUME NEW size \in Nat, NEW req \in SUBSET (0 .. size - 1), NEW last \in 0 .. size,
         Grant(req, last) # {}
  PROVE  \E k \in req : Grant(req, last) = {k}
BY GrantIsOneHot

\* A port gives its VC to one input VC that waits for it.
LEMMA GrantOf ==
  ASSUME NEW r, NEW flits, RouterOK(r, flits), NEW port \in Ports, Now(r).va_win[port] # {}
  PROVE  \E p \in Ports, v \in VCs :
           /\ Now(r).va_win[port] = {p * NUM_VCS + v}
           /\ r.vc[p][v].state = "WAIT_VC" /\ r.vc[p][v].route = port
<1> DEFINE req == VcReq(r, port)
           last == r.va_last[port]
           size == 5 * NUM_VCS
<1>1. Now(r).va_win[port] = Grant(req, last)
  BY DEF Now, Wires
<1>2. size \in Nat /\ req \in SUBSET (0 .. size - 1) /\ last \in 0 .. size
  BY RequestsAreInputs DEF RouterOK
<1>3. \A k \in req : /\ k \in Requesters
                     /\ r.vc[PortOf(k)][VcOf(k)].state = "WAIT_VC"
                     /\ r.vc[PortOf(k)][VcOf(k)].route = port
  BY DEF VcReq, Waiting
<1> HIDE DEF req, last, size
<1>5. PICK k \in req : Now(r).va_win[port] = {k}
  BY <1>1, <1>2, OneGranted
<1>6. PortOf(k) \in Ports /\ VcOf(k) \in VCs /\ PortOf(k) * NUM_VCS + VcOf(k) = k
  BY <1>3, RequesterIs
<1> QED BY <1>3, <1>5, <1>6

\* The output VCs of a router: each is taken exactly while one input VC sends
\* on it.
RouterHeld(r) ==
  /\ \A port \in Ports, w \in VCs :
       /\ r.taken[port][w] => Senders(r, port, w) # {}
       /\ \A g, h \in Senders(r, port, w) : g = h
  /\ \A p \in Ports, v \in VCs :
       r.vc[p][v].state = "ACTIVE" => r.taken[r.vc[p][v].route][r.vc[p][v].out_vc]

\* An input VC sends, after a clock, on a VC it had and has not done with, or
\* on one it was given.
LEMMA SenderWas ==
  ASSUME NEW r, NEW flits, RouterOK(r, flits), NEW p \in Ports, NEW v \in VCs,
         NEW s2, VcMoves(r, p, v, s2), s2.state = "ACTIVE"
  PROVE  LET s == r.vc[p][v] IN
         /\ s2.route = s.route /\ s2.route \in Ports
         /\ \/ /\ s.state = "ACTIVE" /\ s2.out_vc = s.out_vc /\ s2.out_vc \in VCs
               /\ ~ (v \in Now(r).pop[p] /\ IsTail(Head(r.buf[p][v])))
            \/ /\ s.state = "WAIT_VC" /\ p * NUM_VCS + v \in Now(r).va_win[s.route]
               /\ s2.out_vc = Highest(FreeVcs(r, s.route))
               /\ s2.out_vc \in FreeVcs(r, s.route) /\ s2.out_vc \in VCs
<1> DEFINE s == r.vc[p][v]
<1>1. s \in InVcState
  BY DEF RouterOK
<1>2. s.route \in Ports /\ s.out_vc \in VCs
  BY <1>1 DEF InVcState
<1>3. CASE /\ s.state = "WAIT_VC" /\ IsGranted(Now(r), s.route, p, v)
           /\ s2.state = "ACTIVE" /\ s2.route = s.route /\ s2.out_vc = Highest(FreeVcs(r, s.route))
  <2>1. p * NUM_VCS + v \in Now(r).va_win[s.route]
    BY <1>3 DEF IsGranted
  <2>2. /\ Highest(FreeVcs(r, s.route)) \in FreeVcs(r, s.route)
        /\ Highest(FreeVcs(r, s.route)) \in VCs
    <3>1. Now(r).va_win[s.route] # {}
      BY <2>1
    <3> HIDE DEF s
    <3> QED BY <1>2, <3>1, GivenVcIsFree
  <2> QED BY <1>2, <1>3, <2>1, <2>2
<1>4. CASE s2 = s /\ ~ (s.state = "ACTIVE" /\ v \in Now(r).pop[p] /\ IsTail(Head(r.buf[p][v])))
  BY <1>2, <1>4
<1> QED BY <1>3, <1>4 DEF VcMoves

LEMMA HeldStep ==
  ASSUME NEW r, NEW flits, FlitSet(flits), RouterOK(r, flits), RouterHeld(r),
         NEW at, NEW in_fwd, NEW out_bwd, NEW next, IsNext(next, at, r, in_fwd, out_bwd)
  PROVE  RouterHeld(next)
<1> DEFINE Gives(port, w) == Now(r).va_win[port] # {} /\ w = Highest(FreeVcs(r, port))
           Frees(port, w) == OnVc(Now(r).out_fwd[port], w) /\ IsTail(Now(r).out_fwd[port])
           Ends(p, v) == v \in Now(r).pop[p] /\ IsTail(Head(r.buf[p][v]))
<1>1. \A port \in Ports, w \in VCs :
        next.taken[port][w] <=> Gives(port, w) \/ (r.taken[port][w] /\ ~ Frees(port, w))
  BY DEF IsNext, TakenNext
<1>2. ASSUME NEW p \in Ports, NEW v \in VCs
      PROVE  VcMoves(r, p, v, next.vc[p][v])
  <2>1. next.vc[p][v] = VcNext(at, r, Now(r), p, v)
    BY DEF IsNext
  <2> QED BY <2>1, VcMovesIs
<1>3. ASSUME NEW p \in Ports, NEW v \in VCs, NEW port, NEW w, Sends(r, p, v, port, w)
      PROVE  IsTail(Now(r).out_fwd[port]) <=> IsTail(Head(r.buf[p][v]))
  BY <1>3 DEF Sends, IsTail
<1>4. ASSUME NEW port \in Ports, NEW w \in VCs, NEW h \in Senders(r, port, w)
      PROVE  Frees(port, w) <=> Ends(h[1], h[2])
  <2>1. h[1] \in Ports /\ h[2] \in VCs
    BY DEF Senders
  <2>2. ASSUME Frees(port, w) PROVE Ends(h[1], h[2])
    <3>1. PICK p \in Ports, v \in VCs : Sends(r, p, v, port, w)
      BY <2>2, SentIsPopped
    <3>2. <<p, v>> \in Senders(r, port, w)
      BY <3>1 DEF Sends, Senders
    <3>3. h = <<p, v>>
      BY <3>2 DEF RouterHeld
    <3>4. h[1] = p /\ h[2] = v
      BY <3>3
    <3> QED BY <1>3, <2>2, <3>1, <3>4 DEF Sends
  <2>3. ASSUME Ends(h[1], h[2]) PROVE Frees(port, w)
    <3>1. Sends(r, h[1], h[2], r.vc[h[1]][h[2]].route, r.vc[h[1]][h[2]].out_vc)
      BY <2>1, <2>3, PopSends
    <3>2. r.vc[h[1]][h[2]].route = port /\ r.vc[h[1]][h[2]].out_vc = w
      BY DEF Senders
    <3>3. Sends(r, h[1], h[2], port, w)
      BY <3>1, <3>2
    <3> QED BY <1>3, <2>1, <2>3, <3>3 DEF Sends
  <2> QED BY <2>2, <2>3
<1> HIDE DEF Gives, Frees, Ends
<1>5. ASSUME NEW p \in Ports, NEW v \in VCs, next.vc[p][v].state = "ACTIVE"
      PROVE  LET s  == r.vc[p][v]
                 s2 == next.vc[p][v]
             IN  /\ s2.route = s.route /\ s2.route \in Ports /\ s2.out_vc \in VCs
                 /\ \/ /\ s.state = "ACTIVE" /\ s2.out_vc = s.out_vc /\ ~ Ends(p, v)
                       /\ <<p, v>> \in Senders(r, s2.route, s2.out_vc)
                    \/ /\ s.state = "WAIT_VC" /\ p * NUM_VCS + v \in Now(r).va_win[s2.route]
                       /\ Gives(s2.route, s2.out_vc) /\ ~ r.taken[s2.route][s2.out_vc]
  <2> DEFINE s  == r.vc[p][v]
             s2 == next.vc[p][v]
  <2>1. VcMoves(r, p, v, s2)
    BY <1>2
  <2>2. /\ s2.route = s.route /\ s2.route \in Ports
        /\ \/ /\ s.state = "ACTIVE" /\ s2.out_vc = s.out_vc /\ s2.out_vc \in VCs
              /\ ~ (v \in Now(r).pop[p] /\ IsTail(Head(r.buf[p][v])))
           \/ /\ s.state = "WAIT_VC" /\ p * NUM_VCS + v \in Now(r).va_win[s.route]
              /\ s2.out_vc = Highest(FreeVcs(r, s.route))
              /\ s2.out_vc \in FreeVcs(r, s.route) /\ s2.out_vc \in VCs
    <3> HIDE DEF s2
    <3> QED BY <1>5, <2>1, SenderWas DEF s2
  <2>3. CASE /\ s.state = "ACTIVE" /\ s2.out_vc = s.out_vc /\ s2.out_vc \in VCs
             /\ ~ (v \in Now(r).pop[p] /\ IsTail(Head(r.buf[p][v])))
    <3>1. <<p, v>> \in Senders(r, s2.route, s2.out_vc)
      BY <2>2, <2>3 DEF Senders
    <3> QED BY <2>2, <2>3, <3>1 DEF Ends
  <2>4. CASE /\ s.state = "WAIT_VC" /\ p * NUM_VCS + v \in Now(r).va_win[s.route]
             /\ s2.out_vc = Highest(FreeVcs(r, s.route))
             /\ s2.out_vc \in FreeVcs(r, s.route) /\ s2.out_vc \in VCs
    <3>1. ~ r.taken[s2.route][s2.out_vc]
      BY <2>2, <2>4 DEF FreeVcs
    <3>2. Gives(s2.route, s2.out_vc)
      BY <2>2, <2>4 DEF Gives
    <3> QED BY <2>2, <2>4, <3>1, <3>2
  <2> QED BY <2>2, <2>3, <2>4
<1>6. ASSUME NEW p \in Ports, NEW v \in VCs, next.vc[p][v].state = "ACTIVE"
      PROVE  next.taken[next.vc[p][v].route][next.vc[p][v].out_vc]
  <2> DEFINE port == next.vc[p][v].route
             w == next.vc[p][v].out_vc
  <2>1. port \in Ports /\ w \in VCs
    BY <1>5, <1>6
  <2>2. CASE Gives(port, w)
    BY <1>1, <2>1, <2>2
  <2>3. CASE <<p, v>> \in Senders(r, port, w) /\ ~ Ends(p, v)
    <3>1. <<p, v>>[1] = p /\ <<p, v>>[2] = v
      OBVIOUS
    <3>2. ~ Frees(port, w)
      BY <1>4, <2>1, <2>3, <3>1
    <3>3. r.taken[port][w]
      BY <2>3 DEF Senders, RouterHeld
    <3> QED BY <1>1, <2>1, <3>2, <3>3
  <2> QED BY <1>5, <1>6, <2>2, <2>3
<1>7. ASSUME NEW port \in Ports, NEW w \in VCs, next.taken[port][w]
      PROVE  Senders(next, port, w) # {}
  <2>1. CASE Gives(port, w)
    <3>1. PICK p \in Ports, v \in VCs : /\ Now(r).va_win[port] = {p * NUM_VCS + v}
                                        /\ r.vc[p][v].state = "WAIT_VC" /\ r.vc[p][v].route = port
      BY <2>1, GrantOf DEF Gives
    <3>2. IsGranted(Now(r), port, p, v)
      BY <3>1 DEF IsGranted
    <3>3. /\ next.vc[p][v].state = "ACTIVE" /\ next.vc[p][v].route = port
          /\ next.vc[p][v].out_vc = w
      BY <1>2, <2>1, <3>1, <3>2 DEF VcMoves, Gives
    <3>4. <<p, v>> \in Senders(next, port, w)
      BY <3>3 DEF Senders
    <3> QED BY <3>4
  <2>2. CASE r.taken[port][w] /\ ~ Frees(port, w)
    <3>1. PICK h \in Senders(r, port, w) : TRUE
      BY <2>2 DEF RouterHeld
    <3>2. h[1] \in Ports /\ h[2] \in VCs /\ h = <<h[1], h[2]>>
      BY DEF Senders
    <3>3. /\ r.vc[h[1]][h[2]].state = "ACTIVE" /\ r.vc[h[1]][h[2]].route = port
          /\ r.vc[h[1]][h[2]].out_vc = w
      BY DEF Senders
    <3>4. ~ Ends(h[1], h[2])
      BY <1>4, <2>2
    <3>5. next.vc[h[1]][h[2]] = r.vc[h[1]][h[2]]
      BY <1>2, <3>2, <3>3, <3>4 DEF VcMoves, Ends
    <3>6. h \in Senders(next, port, w)
      BY <3>2, <3>3, <3>5 DEF Senders
    <3> QED BY <3>6
  <2> QED BY <1>1, <1>7, <2>1, <2>2
<1>8. ASSUME NEW port \in Ports, NEW w \in VCs,
             NEW g \in Senders(next, port, w), NEW h \in Senders(next, port, w)
      PROVE  g = h
  <2>1. /\ g[1] \in Ports /\ g[2] \in VCs /\ g = <<g[1], g[2]>>
        /\ h[1] \in Ports /\ h[2] \in VCs /\ h = <<h[1], h[2]>>
    BY DEF Senders
  <2> DEFINE Had(i) == i \in Senders(r, port, w)
             Given(i) == /\ i[1] * NUM_VCS + i[2] \in Now(r).va_win[port]
                         /\ ~ r.taken[port][w]
  <2>2. ASSUME NEW i \in Senders(next, port, w), i[1] \in Ports, i[2] \in VCs, i = <<i[1], i[2]>>
        PROVE  Had(i) \/ Given(i)
    <3>1. /\ next.vc[i[1]][i[2]].state = "ACTIVE" /\ next.vc[i[1]][i[2]].route = port
          /\ next.vc[i[1]][i[2]].out_vc = w
      BY DEF Senders
    <3> QED BY <1>5, <2>2, <3>1
  <2>3. Had(g) \/ Given(g)
    BY <2>1, <2>2
  <2>4. Had(h) \/ Given(h)
    BY <2>1, <2>2
  <2>5. ASSUME NEW i \in Senders(r, port, w) PROVE r.taken[port][w]
    <3>1. /\ i[1] \in Ports /\ i[2] \in VCs
          /\ r.vc[i[1]][i[2]].state = "ACTIVE"
          /\ r.vc[i[1]][i[2]].route = port /\ r.vc[i[1]][i[2]].out_vc = w
      BY DEF Senders
    <3> QED BY <3>1 DEF RouterHeld
  <2>6. CASE Had(g) /\ Had(h)
    BY <2>6 DEF RouterHeld
  <2>7. CASE Given(g) /\ Given(h)
    <3>1. PICK k : Now(r).va_win[port] = {k}
      <4>1. Now(r).va_win[port] # {}
        BY <2>7
      <4>2. \E p \in Ports, v \in VCs : Now(r).va_win[port] = {p * NUM_VCS + v}
        BY <4>1, GrantOf
      <4> QED BY <4>2
    <3>2. g[1] * NUM_VCS + g[2] = h[1] * NUM_VCS + h[2]
      BY <2>7, <3>1
    <3>3. g[1] = h[1] /\ g[2] = h[2]
      BY <2>1, <3>2, RequesterIs
    <3> QED BY <2>1, <3>3
  <2> QED BY <2>3, <2>4, <2>5, <2>6, <2>7
<1> QED BY <1>6, <1>7, <1>8 DEF RouterHeld

-----------------------------------------------------------------------------
(* A clock of the packets on the virtual channels.                         *)

\* H: what comes next behind every place a clock later.
IsNextDue(H, G) ==
  \A n \in Nodes, port \in Ports, v \in VCs :
    /\ H[n][port][v][0] = Pass(G[n][port][v][0], Sent(n, port), v)
    /\ \A k \in 1 .. LINK_DELAY : H[n][port][v][k] = G[n][port][v][k - 1]

\* What a router sends is due.
LEMMA SentIsDue ==
  ASSUME MeshInv, NEW G, PacketsOK(G), NEW n \in Nodes, NEW port \in Ports, NEW v \in VCs,
         OnVc(Sent(n, port), v)
  PROVE  /\ Accepts(G[n][port][v][0], Sent(n, port))
         /\ router[n].taken[port][v]
         /\ \E p \in Ports, u \in VCs :
              /\ Sends(router[n], p, u, port, v)
              /\ After(Sent(n, port)) = After(router[n].buf[p][u][1])
<1> DEFINE r == router[n]
           out == Sent(n, port)
<1>1. RouterOK(r, Flits) /\ FlitSet(Flits)
  BY FlitsAre DEF MeshInv, RoutersOK
<1>2. out = Now(r).out_fwd[port]
  BY DEF Sent
<1>3. PICK p \in Ports, u \in VCs : Sends(r, p, u, port, v)
  BY <1>1, <1>2, SentIsPopped
<1> DEFINE buf == r.buf[p][u]
<1>4. /\ r.vc[p][u].state = "ACTIVE" /\ r.vc[p][u].route = port /\ r.vc[p][u].out_vc = v
      /\ buf # <<>> /\ out.pkt = Head(buf).pkt /\ out.n = Head(buf).n
  BY <1>2, <1>3 DEF Sends
<1>5. VcOK(G, n, p, u)
  BY DEF PacketsOK
<1>6. r.taken[port][v] /\ NextUp(G[n][port][v][0], buf, Expected(G, n, p, u))
  BY <1>4, <1>5 DEF VcOK
<1>7. Accepts(G[n][port][v][0], buf[1])
  BY <1>4, <1>6 DEF NextUp
<1>8. out.pkt = buf[1].pkt /\ out.n = buf[1].n
  <2>1. Head(buf) = buf[1]
    OBVIOUS
  <2> QED BY <1>4, <2>1
<1> HIDE DEF out, buf
<1>9. Accepts(G[n][port][v][0], out) /\ After(out) = After(buf[1])
  BY <1>7, <1>8 DEF Accepts, After, IsHead, IsTail
<1> QED BY <1>3, <1>6, <1>9 DEF out, buf

\* Flits and what comes next behind them move on together.
LEMMA PlacesStep ==
  ASSUME MeshInv, NEW G, PacketsOK(G), NEW H, IsNextDue(H, G),
         NEW hold, NEW keep, Clocked(hold, keep)
  PROVE  PlacesOK(H)'
<1>1. ASSUME NEW n \in Nodes, NEW port \in Ports, NEW v \in VCs, Linked(n, port),
             NEW k \in 1 .. LINK_DELAY
      PROVE  /\ H[n][port][v][k - 1] = Pass(H[n][port][v][k], link'[n][port].fwd[k], v)
             /\ OnVc(link'[n][port].fwd[k], v) => Accepts(H[n][port][v][k], link'[n][port].fwd[k])
  <2> DEFINE fwd == link[n][port].fwd
             g == G[n][port][v]
             h == H[n][port][v]
             f == link'[n][port].fwd[k]
  <2>1. f = IF k = 1 THEN Sent(n, port) ELSE fwd[k - 1]
    <3>1. link'[n][port].fwd = Shift(fwd, Sent(n, port))
      BY <1>1, LinkAfter
    <3> QED BY <3>1 DEF Shift
  <2>2. h[0] = Pass(g[0], Sent(n, port), v) /\ \A i \in 1 .. LINK_DELAY : h[i] = g[i - 1]
    BY DEF IsNextDue
  <2>3. \A i \in 1 .. LINK_DELAY : /\ g[i - 1] = Pass(g[i], fwd[i], v)
                                   /\ OnVc(fwd[i], v) => Accepts(g[i], fwd[i])
    BY <1>1 DEF PacketsOK, PlacesOK
  <2>4. OnVc(Sent(n, port), v) => Accepts(g[0], Sent(n, port))
    BY SentIsDue
  <2> HIDE DEF fwd, g, h, f
  <2>5. h[k - 1] = Pass(h[k], f, v) /\ (OnVc(f, v) => Accepts(h[k], f))
    <3>1. CASE k = 1
      <4>1. k - 1 = 0
        BY <3>1
      <4> QED BY <2>1, <2>2, <2>4, <3>1, <4>1
    <3>2. CASE k # 1
      <4>1. k - 1 \in 1 .. LINK_DELAY
        BY <3>2, MeshAssumption
      <4> QED BY <2>1, <2>2, <2>3, <3>2, <4>1
    <3> QED BY <3>1, <3>2
  <2> QED BY <2>5 DEF f, h
<1> QED BY <1>1 DEF PlacesOK, Linked

\* What comes out of a link is what was due behind it.
LEMMA CameIsDue ==
  ASSUME MeshInv, NEW G, PacketsOK(G), NEW H, IsNextDue(H, G),
         NEW n \in Nodes, NEW port \in Ports, NEW v \in VCs, Linked(n, port)
  PROVE  LET e == G[n][port][v][LINK_DELAY] IN
         /\ OnVc(Came(n, port), v) => Accepts(e, Came(n, port))
         /\ H[n][port][v][LINK_DELAY] = Pass(e, Came(n, port), v)
<1> DEFINE fwd == link[n][port].fwd
           g == G[n][port][v]
           h == H[n][port][v]
<1>1. h[0] = Pass(g[0], Sent(n, port), v) /\ \A i \in 1 .. LINK_DELAY : h[i] = g[i - 1]
  BY DEF IsNextDue
<1>2. \A i \in 1 .. LINK_DELAY : /\ g[i - 1] = Pass(g[i], fwd[i], v)
                                 /\ OnVc(fwd[i], v) => Accepts(g[i], fwd[i])
  BY DEF PacketsOK, PlacesOK
<1>3. OnVc(Sent(n, port), v) => Accepts(g[0], Sent(n, port))
  BY SentIsDue
<1>4. Came(n, port) = IF LINK_DELAY = 0 THEN Sent(n, port) ELSE fwd[LINK_DELAY]
  BY DEF Came, Out
<1>5. LINK_DELAY = 0 \/ LINK_DELAY \in 1 .. LINK_DELAY
  BY MeshAssumption
<1> HIDE DEF fwd, g, h
<1>6. /\ OnVc(Came(n, port), v) => Accepts(g[LINK_DELAY], Came(n, port))
      /\ h[LINK_DELAY] = Pass(g[LINK_DELAY], Came(n, port), v)
  BY <1>1, <1>2, <1>3, <1>4, <1>5
<1> QED BY <1>6 DEF g, h

\* What a sender sends is due, and the rest of its packet comes next.
LEMMA DueStep ==
  ASSUME RunOK, SendOrder, NEW hold, NEW keep, Clocked(hold, keep), NEW n \in Nodes, NEW v \in VCs
  PROVE  /\ OnVc(Tx(n, hold), v) => Accepts(Due(n, v), Tx(n, hold))
         /\ Due(n, v)' = Pass(Due(n, v), Tx(n, hold), v)
<1> DEFINE tx == Tx(n, hold)
           Here(q) == q \in offered /\ q.src = n /\ q.vc = v
           F(q) == [pkt |-> q, n |-> sent[q] + 1, vc |-> q.vc]
<1>1. offered \subseteq Packets /\ offered' = offered
  BY MeshAssumption DEF RunOK, Clocked, ClockWith
<1>2. ASSUME NEW q, Here(q)
      PROVE  /\ q \in Packets /\ q.len \in Nat /\ sent[q] \in 0 .. q.len /\ sent[q] \in Int
             /\ tx = F(q) => q \in MaySend(n) /\ sent'[q] = sent[q] + 1
             /\ tx # F(q) => sent'[q] = sent[q]
  <2>1. q \in Packets /\ q.len \in Nat /\ sent[q] \in 0 .. q.len
    BY <1>1, <1>2, MeshAssumption DEF RunOK
  <2>2. sent[q] \in Int
    BY <2>1
  <2> QED BY <1>2, <2>1, <2>2, SentAfter
<1>3. /\ Due(n, v) = {<<q, sent[q] + 1>> : q \in {s \in offered : s.src = n /\ s.vc = v /\ 0 < sent[s] /\ sent[s] < s.len}}
      /\ Due(n, v)' = {<<q, sent'[q] + 1>> : q \in {s \in offered : s.src = n /\ s.vc = v /\ 0 < sent'[s] /\ sent'[s] < s.len}}
  BY <1>1 DEF Due
<1>4. OnVc(tx, v) \/ ~ OnVc(tx, v)
  OBVIOUS
<1>5. CASE ~ OnVc(tx, v)
  <2>1. ASSUME NEW q, Here(q) PROVE sent'[q] = sent[q]
    <3>1. tx # F(q)
      <4> SUFFICES ASSUME tx = F(q) PROVE FALSE
        OBVIOUS
      <4>1. q \in Packets /\ sent[q] + 1 \in Nat
        BY <1>2, <2>1
      <4>2. F(q) \in [pkt : Packets, n : Nat, vc : VCs] /\ F(q).vc = v
        BY <2>1, <4>1
      <4>3. F(q) # None
        BY <4>2, MeshAssumption
      <4> QED BY <1>5, <4>2, <4>3 DEF OnVc
    <3> QED BY <1>2, <2>1, <3>1
  <2>2. Due(n, v)' = Due(n, v)
    BY <1>3, <2>1
  <2> QED BY <1>5, <2>2 DEF Pass
<1>6. CASE OnVc(tx, v)
  <2>1. tx # None /\ tx.vc = v
    BY <1>6 DEF OnVc
  <2>2. PICK p \in MaySend(n) : tx = F(p)
    BY <2>1, TxIs
  <2>3. p.vc = v /\ p \in offered /\ p.src = n /\ sent[p] < p.len
    BY <2>1, <2>2 DEF MaySend
  <2>4. \A q \in offered : q.src = n /\ q.vc = v /\ q.id < p.id => sent[q] = q.len
    BY <2>3 DEF MaySend
  <2>5. /\ p \in Packets /\ p.len \in Nat /\ sent[p] \in 0 .. p.len /\ sent[p] \in Int
        /\ sent'[p] = sent[p] + 1
    BY <1>2, <2>2, <2>3
  <2>6. ASSUME NEW q, Here(q), q # p
        PROVE  /\ ~ (0 < sent[q] /\ sent[q] < q.len)
               /\ sent'[q] = sent[q]
    <3>1. tx # F(q)
      BY <2>2, <2>6
    <3>2. sent'[q] = sent[q] /\ sent[q] \in Int /\ q.len \in Nat /\ q \in Packets
      BY <1>2, <2>6, <3>1
    <3>3. q.id \in Nat /\ p.id \in Nat /\ q.id # p.id
      BY <2>3, <2>5, <2>6, <3>2, MeshAssumption
    <3>4. CASE q.id < p.id
      BY <2>4, <2>6, <3>2, <3>4
    <3>5. CASE p.id < q.id
      <4>1. sent[q] > 0 => sent[p] = p.len
        BY <2>3, <2>6, <3>5 DEF SendOrder
      <4> QED BY <2>3, <2>5, <3>2, <4>1
    <3> QED BY <3>3, <3>4, <3>5
  <2>7. Due(n, v) = IF 0 < sent[p] THEN {<<p, sent[p] + 1>>} ELSE {}
    <3>1. {s \in offered : s.src = n /\ s.vc = v /\ 0 < sent[s] /\ sent[s] < s.len}
            = IF 0 < sent[p] THEN {p} ELSE {}
      BY <2>3, <2>6
    <3> QED BY <1>3, <3>1
  <2>8. Due(n, v)' = IF sent[p] + 1 < p.len THEN {<<p, (sent[p] + 1) + 1>>} ELSE {}
    <3>1. 0 < sent'[p] /\ (sent'[p] < p.len <=> sent[p] + 1 < p.len)
      BY <2>5
    <3>2. {s \in offered : s.src = n /\ s.vc = v /\ 0 < sent'[s] /\ sent'[s] < s.len}
            = IF sent[p] + 1 < p.len THEN {p} ELSE {}
      BY <2>3, <2>6, <3>1
    <3> QED BY <1>3, <2>5, <3>2
  <2>9. tx.pkt = p /\ tx.n = sent[p] + 1
    BY <2>2
  <2>10. After(tx) = IF sent[p] + 1 < p.len THEN {<<p, (sent[p] + 1) + 1>>} ELSE {}
    <3>1. IsTail(tx) <=> ~ (sent[p] + 1 < p.len)
      BY <2>3, <2>5, <2>9 DEF IsTail
    <3> QED BY <2>9, <3>1 DEF After
  <2>11. Accepts(Due(n, v), tx)
    <3>1. CASE 0 < sent[p]
      BY <2>7, <2>9, <3>1 DEF Accepts
    <3>2. CASE ~ (0 < sent[p])
      <4>1. sent[p] + 1 = 1
        BY <2>5, <3>2
      <4> QED BY <2>7, <2>9, <3>2, <4>1 DEF Accepts, IsHead
    <3> QED BY <3>1, <3>2
  <2> QED BY <1>6, <2>8, <2>10, <2>11 DEF Pass
<1> QED BY <1>4, <1>5, <1>6

\* The packets of a VC are sent by their ids.
LEMMA SendOrderStep ==
  ASSUME RunOK, SendOrder, NEW hold, NEW keep, Clocked(hold, keep)
  PROVE  SendOrder'
<1>1. offered \subseteq Packets /\ offered' = offered
  BY MeshAssumption DEF RunOK, Clocked, ClockWith
<1>2. ASSUME NEW p \in offered, NEW q \in offered,
             p.src = q.src, p.vc = q.vc, p.id < q.id, sent'[q] > 0
      PROVE  sent'[p] = p.len
  <2>1. /\ p \in Packets /\ q \in Packets /\ p.len \in Nat
        /\ sent[p] \in 0 .. p.len /\ sent[q] \in 0 .. q.len /\ q.len \in Nat
    BY <1>1, MeshAssumption DEF RunOK
  <2>2. sent[p] = p.len
    <3>1. CASE sent[q] > 0
      BY <1>2, <3>1 DEF SendOrder
    <3>2. CASE ~ (sent[q] > 0)
      <4>1. q \in MaySend(q.src)
        BY <1>2, <2>1, <3>2, SentAfter
      <4> QED BY <1>2, <4>1 DEF MaySend
    <3> QED BY <3>1, <3>2
  <2>3. p \notin MaySend(p.src)
    BY <2>1, <2>2 DEF MaySend
  <2> QED BY <2>1, <2>2, <2>3, SentAfter
<1> QED BY <1>1, <1>2 DEF SendOrder

\* What comes into a buffer is what comes next there.
LEMMA ExpectedStep ==
  ASSUME MeshInv, NEW G, PacketsOK(G), NEW H, IsNextDue(H, G),
         NEW hold, NEW keep, Clocked(hold, keep), NEW n \in Nodes, NEW p \in Ports, NEW v \in VCs
  PROVE  LET in == InFwd(AllWires, n, Tx(n, hold))[p]
             e  == Expected(G, n, p, v)
         IN  /\ OnVc(in, v) => in \in Flits /\ Accepts(e, in)
             /\ Expected(H, n, p, v)' = Pass(e, in, v)
<1> DEFINE in == InFwd(AllWires, n, Tx(n, hold))[p]
           e  == Expected(G, n, p, v)
           e2 == Expected(H, n, p, v)'
<1>1. OnVc(in, v) => in \in Flits
  <2>1. in \in Flits \cup {None}
    BY FlitsComeIn DEF MeshInv
  <2> QED BY <2>1 DEF OnVc
<1>2. CASE p = LOCAL_PORT
  <2>1. in = Tx(n, hold)
    BY <1>2, WiresIn
  <2>2. e = Due(n, v) /\ e2 = Due(n, v)'
    BY <1>2 DEF Expected
  <2>3. /\ OnVc(Tx(n, hold), v) => Accepts(Due(n, v), Tx(n, hold))
        /\ Due(n, v)' = Pass(Due(n, v), Tx(n, hold), v)
    BY DueStep DEF MeshInv, PacketsOK
  <2> HIDE DEF in, e, e2
  <2>4. (OnVc(in, v) => Accepts(e, in)) /\ e2 = Pass(e, in, v)
    BY <2>1, <2>2, <2>3
  <2> QED BY <1>1, <2>4 DEF in, e, e2
<1>3. CASE p # LOCAL_PORT /\ ~ Linked(n, p)
  <2>1. in = None
    BY <1>3, WiresIn
  <2>2. e = {} /\ e2 = {} /\ ~ OnVc(None, v)
    BY <1>3 DEF Expected, OnVc, Linked
  <2> HIDE DEF in, e, e2
  <2>3. ~ OnVc(in, v) /\ e2 = Pass(e, in, v)
    BY <2>1, <2>2 DEF Pass
  <2> QED BY <2>3 DEF in, e, e2
<1>4. CASE Linked(n, p)
  <2> DEFINE m == Neighbor(n, p)
             at == Opposite[p]
  <2>1. m \in Nodes /\ at \in Ports /\ Linked(m, at)
    BY <1>4, NeighborBack
  <2>2. in = Came(m, at)
    BY <1>4, WiresIn
  <2>3. e = G[m][at][v][LINK_DELAY] /\ e2 = H[m][at][v][LINK_DELAY]
    BY <1>4 DEF Expected, Linked
  <2> HIDE DEF in, e, e2, m, at
  <2>4. /\ OnVc(Came(m, at), v) => Accepts(G[m][at][v][LINK_DELAY], Came(m, at))
        /\ H[m][at][v][LINK_DELAY] = Pass(G[m][at][v][LINK_DELAY], Came(m, at), v)
    BY <2>1, CameIsDue
  <2>5. (OnVc(in, v) => Accepts(e, in)) /\ e2 = Pass(e, in, v)
    BY <2>2, <2>3, <2>4
  <2> QED BY <1>1, <2>5 DEF in, e, e2
<1> QED BY <1>2, <1>3, <1>4 DEF Linked

\* There is a slot for every flit that comes in.
LEMMA SlotForFlit ==
  ASSUME MeshInv, NEW hold, NEW n \in Nodes, NEW p \in Ports, NEW v \in VCs,
         OnVc(InFwd(AllWires, n, Tx(n, hold))[p], v)
  PROVE  Len(router[n].buf[p][v]) < BufSlots
<1> DEFINE in == InFwd(AllWires, n, Tx(n, hold))[p]
<1>1. CASE p = LOCAL_PORT
  BY <1>1, WiresIn, SlotForTx
<1>2. CASE p # LOCAL_PORT /\ ~ Linked(n, p)
  BY <1>2, WiresIn DEF OnVc
<1>3. CASE Linked(n, p)
  <2> DEFINE m == Neighbor(n, p)
             at == Opposite[p]
  <2>1. m \in Nodes /\ at \in Ports /\ Linked(m, at) /\ Neighbor(m, at) = n /\ Opposite[at] = p
    BY <1>3, NeighborBack
  <2>2. in = Came(m, at)
    BY <1>3, WiresIn
  <2> HIDE DEF in, m, at
  <2>3. Len(router[Neighbor(m, at)].buf[Opposite[at]][v]) < BufSlots
    BY <2>1, <2>2, SlotForCame DEF in
  <2> QED BY <2>1, <2>3
<1> QED BY <1>1, <1>2, <1>3

\* An input VC and an output VC a clock later.
LEMMA RegsAfter ==
  ASSUME NEW hold, NEW keep, Clocked(hold, keep), NEW n \in Nodes, NEW p \in Ports, NEW v \in VCs
  PROVE  LET r == router[n] IN
         /\ router'[n].buf[p][v] = BufNext(r, Now(r), p, v, InFwd(AllWires, n, Tx(n, hold))[p])
         /\ router'[n].vc[p][v] = VcNext(n, r, Now(r), p, v)
         /\ router'[n].taken[p][v] = TakenNext(r, Now(r), p, v)
<1> DEFINE F == InFwd(AllWires, n, Tx(n, hold))
           B == OutBwd(n, Rx(n, keep))
<1>1. IsNext(router'[n], n, router[n], F, B)
  BY RouterAfter
<1> HIDE DEF F, B
<1>2. /\ router'[n].buf[p][v] = BufNext(router[n], Now(router[n]), p, v, F[p])
      /\ router'[n].vc[p][v] = VcNext(n, router[n], Now(router[n]), p, v)
      /\ router'[n].taken[p][v] = TakenNext(router[n], Now(router[n]), p, v)
  BY <1>1 DEF IsNext
<1> QED BY <1>2 DEF F

\* So a buffer loses no flit.
LEMMA BufAfterIs ==
  ASSUME MeshInv, NEW hold, NEW keep, Clocked(hold, keep),
         NEW n \in Nodes, NEW p \in Ports, NEW v \in VCs
  PROVE  router'[n].buf[p][v] = QueueNext(router[n].buf[p][v], v \in Now(router[n]).pop[p],
                                          InFwd(AllWires, n, Tx(n, hold))[p], v)
<1> DEFINE in == InFwd(AllWires, n, Tx(n, hold))[p]
           r == router[n]
<1>1. router'[n].buf[p][v] = BufNext(r, Now(r), p, v, in)
  BY RegsAfter
<1>2. OnVc(in, v) => Len(r.buf[p][v]) < BufSlots
  BY SlotForFlit
<1> HIDE DEF in, r
<1>3. BufNext(r, Now(r), p, v, in) = QueueNext(r.buf[p][v], v \in Now(r).pop[p], in, v)
  BY <1>2 DEF BufNext, QueueNext
<1> QED BY <1>1, <1>3 DEF in, r

\* The output VCs of a router are held as HeldOnce says.
LEMMA HeldIs ==
  ASSUME NEW G, PacketsOK(G), NEW n \in Nodes
  PROVE  RouterHeld(router[n])
<1>1. \A p \in Ports, v \in VCs : VcOK(G, n, p, v) /\ HeldOnce(n, p, v)
  BY DEF PacketsOK
<1>2. ASSUME NEW port, NEW w PROVE Holders(n, port, w) = Senders(router[n], port, w)
  BY DEF Holders, Senders
<1>3. \A p \in Ports, v \in VCs : router[n].vc[p][v].state = "ACTIVE" =>
        router[n].taken[router[n].vc[p][v].route][router[n].vc[p][v].out_vc]
  BY <1>1 DEF VcOK
<1>4. ASSUME NEW port \in Ports, NEW w \in VCs
      PROVE  /\ router[n].taken[port][w] => Senders(router[n], port, w) # {}
             /\ \A g, h \in Senders(router[n], port, w) : g = h
  <2>1. HeldOnce(n, port, w) /\ Holders(n, port, w) = Senders(router[n], port, w)
    BY <1>1, <1>2
  <2> QED BY <2>1 DEF HeldOnce
<1> QED BY <1>3, <1>4 DEF RouterHeld

LEMMA HeldAfter ==
  ASSUME MeshInv, NEW G, PacketsOK(G), NEW hold, NEW keep, Clocked(hold, keep), NEW n \in Nodes
  PROVE  /\ RouterHeld(router'[n])
         /\ \A port \in Ports, v \in VCs : HeldOnce(n, port, v)'
<1>1. RouterOK(router[n], Flits) /\ FlitSet(Flits)
  BY FlitsAre DEF MeshInv, RoutersOK
<1>2. IsNext(router'[n], n, router[n], InFwd(AllWires, n, Tx(n, hold)), OutBwd(n, Rx(n, keep)))
  BY RouterAfter
<1>3. RouterHeld(router[n])
  BY HeldIs
<1>4. RouterHeld(router'[n])
  BY <1>1, <1>2, <1>3, HeldStep
<1>5. ASSUME NEW port, NEW w PROVE Holders(n, port, w)' = Senders(router'[n], port, w)
  BY DEF Holders, Senders
<1>6. ASSUME NEW port \in Ports, NEW v \in VCs PROVE HeldOnce(n, port, v)'
  <2>1. /\ router'[n].taken[port][v] => Senders(router'[n], port, v) # {}
        /\ \A g, h \in Senders(router'[n], port, v) : g = h
    BY <1>4 DEF RouterHeld
  <2>2. Holders(n, port, v)' = Senders(router'[n], port, v)
    BY <1>5
  <2> QED BY <2>1, <2>2 DEF HeldOnce
<1> QED BY <1>4, <1>6

\* A free output VC has done with its packets.
LEMMA FreeStep ==
  ASSUME MeshInv, NEW G, PacketsOK(G), NEW H, IsNextDue(H, G),
         NEW hold, NEW keep, Clocked(hold, keep)
  PROVE  FreeIsDone(H)'
<1>1. ASSUME NEW n \in Nodes, NEW port \in Ports, NEW v \in VCs, ~ router'[n].taken[port][v]
      PROVE  H[n][port][v][0] = {}
  <2>1. router'[n].taken[port][v] <=> TakenNext(router[n], Now(router[n]), port, v)
    BY RegsAfter
  <2>2. ~ (router[n].taken[port][v] /\ ~ (OnVc(Sent(n, port), v) /\ IsTail(Sent(n, port))))
    BY <1>1, <2>1 DEF TakenNext, Sent
  <2>3. H[n][port][v][0] = IF OnVc(Sent(n, port), v) THEN After(Sent(n, port)) ELSE G[n][port][v][0]
    BY DEF IsNextDue, Pass
  <2>4. ~ router[n].taken[port][v] => G[n][port][v][0] = {}
    BY DEF PacketsOK, FreeIsDone
  <2>5. OnVc(Sent(n, port), v) => router[n].taken[port][v]
    BY SentIsDue
  <2>6. IsTail(Sent(n, port)) => After(Sent(n, port)) = {}
    BY DEF After
  <2> QED BY <2>2, <2>3, <2>4, <2>5, <2>6
<1> QED BY <1>1 DEF FreeIsDone

\* What is due from an input VC that sends, a clock later.
DueMoves(G, H, n, p, v) ==
  LET r  == router[n]
      s  == r.vc[p][v]
      s2 == router'[n].vc[p][v]
      due == H[n][s2.route][s2.out_vc][0]
  IN  \/ s.state = "WAIT_VC" /\ due = {}
      \/ /\ s.state = "ACTIVE" /\ v \in Now(r).pop[p]
         /\ due = After(r.buf[p][v][1]) /\ due # {}
      \/ /\ s.state = "ACTIVE" /\ v \notin Now(r).pop[p]
         /\ due = G[n][s.route][s.out_vc][0]

LEMMA DueFromVc ==
  ASSUME MeshInv, NEW G, PacketsOK(G), NEW H, IsNextDue(H, G),
         NEW hold, NEW keep, Clocked(hold, keep), NEW n \in Nodes, NEW p \in Ports, NEW v \in VCs,
         router'[n].vc[p][v].state = "ACTIVE"
  PROVE  DueMoves(G, H, n, p, v)
<1> DEFINE r  == router[n]
           s  == r.vc[p][v]
           s2 == router'[n].vc[p][v]
           port == s2.route
           w == s2.out_vc
           out == Sent(n, port)
           due == H[n][port][w][0]
<1>1. RouterOK(r, Flits) /\ FlitSet(Flits)
  BY FlitsAre DEF MeshInv, RoutersOK
<1>2. RouterHeld(r)
  BY HeldIs
<1>3. VcMoves(r, p, v, s2)
  <2>1. s2 = VcNext(n, r, Now(r), p, v)
    BY RegsAfter
  <2> HIDE DEF s2, r
  <2> QED BY <1>1, <2>1, VcMovesIs
<1>4. /\ port = s.route /\ port \in Ports
      /\ \/ /\ s.state = "ACTIVE" /\ w = s.out_vc /\ w \in VCs
            /\ ~ (v \in Now(r).pop[p] /\ IsTail(Head(r.buf[p][v])))
         \/ /\ s.state = "WAIT_VC" /\ w \in FreeVcs(r, s.route) /\ w \in VCs
  <2>1. s2.state = "ACTIVE"
    OBVIOUS
  <2> HIDE DEF s2, r
  <2> QED BY <1>1, <1>3, <2>1, SenderWas DEF s, port, w
<1>5. due = IF OnVc(out, w) THEN After(out) ELSE G[n][port][w][0]
  BY <1>4 DEF IsNextDue, Pass
<1> HIDE DEF port, w, out, due
<1>6. ASSUME s.state = "WAIT_VC", w \in FreeVcs(r, s.route), w \in VCs
      PROVE  due = {}
  <2>1. ~ r.taken[port][w]
    BY <1>4, <1>6 DEF FreeVcs
  <2>2. ~ OnVc(out, w)
    BY <1>4, <1>6, <2>1, SentIsDue DEF out
  <2>3. G[n][port][w][0] = {}
    BY <1>4, <2>1 DEF PacketsOK, FreeIsDone
  <2> QED BY <1>5, <1>6, <2>2, <2>3
<1>7. ASSUME s.state = "ACTIVE", w = s.out_vc, w \in VCs,
             ~ (v \in Now(r).pop[p] /\ IsTail(Head(r.buf[p][v])))
      PROVE  /\ v \in Now(r).pop[p] => due = After(r.buf[p][v][1]) /\ due # {}
             /\ v \notin Now(r).pop[p] => due = G[n][s.route][s.out_vc][0]
  <2>1. <<p, v>> \in Senders(r, port, w)
    BY <1>4, <1>7 DEF Senders
  <2>2. ASSUME v \in Now(r).pop[p] PROVE due = After(r.buf[p][v][1]) /\ due # {}
    <3>1. Sends(r, p, v, port, w)
      <4>1. Sends(r, p, v, s.route, s.out_vc)
        BY <1>1, <2>2, PopSends
      <4> QED BY <1>4, <1>7, <4>1
    <3>2. /\ OnVc(out, w) /\ r.buf[p][v] # <<>>
          /\ out.pkt = Head(r.buf[p][v]).pkt /\ out.n = Head(r.buf[p][v]).n
      BY <3>1 DEF Sends, Sent, out
    <3>3. Head(r.buf[p][v]) = r.buf[p][v][1]
      OBVIOUS
    <3>4. After(out) = After(r.buf[p][v][1]) /\ After(out) # {}
      <4>1. ~ IsTail(Head(r.buf[p][v]))
        BY <1>7, <2>2
      <4> HIDE DEF r
      <4>2. After(out) = After(r.buf[p][v][1]) /\ ~ IsTail(out)
        BY <3>2, <3>3, <4>1 DEF After, IsTail
      <4>3. After(out) # {}
        BY <4>2, FollowsIsNext
      <4> QED BY <4>2, <4>3
    <3> QED BY <1>5, <3>2, <3>4
  <2>3. ASSUME v \notin Now(r).pop[p] PROVE due = G[n][s.route][s.out_vc][0]
    <3>1. ASSUME OnVc(out, w) PROVE FALSE
      <4>1. \E q \in Ports, u \in VCs : Sends(r, q, u, port, w)
        BY <1>4, <1>7, <3>1, SentIsDue DEF out
      <4>2. PICK q \in Ports, u \in VCs : Sends(r, q, u, port, w)
        BY <4>1
      <4>3. <<q, u>> \in Senders(r, port, w) /\ u \in Now(r).pop[q]
        BY <4>2 DEF Sends, Senders
      <4>4. <<q, u>> = <<p, v>>
        BY <1>2, <1>4, <2>1, <4>3 DEF RouterHeld
      <4> QED BY <2>3, <4>3, <4>4
    <3> QED BY <1>4, <1>5, <1>7, <2>3, <3>1
  <2> QED BY <2>2, <2>3
<1>8. \/ s.state = "WAIT_VC" /\ due = {}
      \/ s.state = "ACTIVE" /\ v \in Now(r).pop[p] /\ due = After(r.buf[p][v][1]) /\ due # {}
      \/ s.state = "ACTIVE" /\ v \notin Now(r).pop[p] /\ due = G[n][s.route][s.out_vc][0]
  BY <1>4, <1>6, <1>7
<1> QED BY <1>8 DEF DueMoves, due, port, w

\* What a clock does to a buffer; only a packet with an output VC leaves it.
LEMMA BufferStep ==
  ASSUME MeshInv, NEW G, PacketsOK(G), NEW H, IsNextDue(H, G),
         NEW hold, NEW keep, Clocked(hold, keep), NEW n \in Nodes, NEW p \in Ports, NEW v \in VCs
  PROVE  LET r    == router[n]
             s    == r.vc[p][v]
             buf  == r.buf[p][v]
             new  == router'[n].buf[p][v]
             e    == Expected(G, n, p, v)
             e2   == Expected(H, n, p, v)'
             pops == v \in Now(r).pop[p]
         IN  /\ pops => s.state = "ACTIVE" /\ buf # <<>>
             /\ BufOK(new, e2, v)
             /\ pops => NextUp(After(buf[1]), new, e2)
             /\ ~ pops => /\ \A due : NextUp(due, buf, e) => NextUp(due, new, e2)
                          /\ new = <<>> => buf = <<>> /\ e2 = e
<1> DEFINE r   == router[n]
           s   == r.vc[p][v]
           buf == r.buf[p][v]
           new == router'[n].buf[p][v]
           in  == InFwd(AllWires, n, Tx(n, hold))[p]
           e   == Expected(G, n, p, v)
           e2  == Expected(H, n, p, v)'
           pops == v \in Now(r).pop[p]
<1>1. RouterOK(r, Flits) /\ FlitSet(Flits)
  BY FlitsAre DEF MeshInv, RoutersOK
<1>2. BufOK(buf, e, v)
  BY DEF PacketsOK, VcOK
<1>3. pops => /\ s.state = "ACTIVE" /\ buf # <<>>
  <2>1. ASSUME pops PROVE Sends(r, p, v, s.route, s.out_vc)
    BY <1>1, <2>1, PopSends
  <2> QED BY <2>1 DEF Sends
<1>4. /\ BufOK(new, e2, v)
      /\ pops => NextUp(After(buf[1]), new, e2)
      /\ ~ pops => /\ \A due : NextUp(due, buf, e) => NextUp(due, new, e2)
                   /\ new = <<>> => buf = <<>> /\ e2 = e
  <2>1. buf \in Seq(Flits) /\ pops \in BOOLEAN
    BY <1>1 DEF RouterOK
  <2>2. (OnVc(in, v) => in \in Flits /\ Accepts(e, in)) /\ e2 = Pass(e, in, v)
    BY ExpectedStep
  <2>3. new = QueueNext(buf, pops, in, v)
    BY BufAfterIs
  <2>4. BufOK(buf, e, v) /\ (pops => buf # <<>>)
    BY <1>2, <1>3
  <2> HIDE DEF buf, new, in, e, e2, pops
  <2> QED BY <2>1, <2>2, <2>3, <2>4, QueueStep
<1> QED BY <1>3, <1>4

\* An input VC stays in order.
LEMMA VcOKStep ==
  ASSUME MeshInv, NEW G, PacketsOK(G), NEW H, IsNextDue(H, G),
         NEW hold, NEW keep, Clocked(hold, keep), NEW n \in Nodes, NEW p \in Ports, NEW v \in VCs
  PROVE  VcOK(H, n, p, v)'
<1> DEFINE r   == router[n]
           s   == r.vc[p][v]
           s2  == router'[n].vc[p][v]
           buf == r.buf[p][v]
           new == router'[n].buf[p][v]
           e   == Expected(G, n, p, v)
           e2  == Expected(H, n, p, v)'
           pops == v \in Now(r).pop[p]
           g0  == G[n][s.route][s.out_vc][0]
           h0  == H[n][s2.route][s2.out_vc][0]
<1>1. RouterOK(r, Flits) /\ FlitSet(Flits)
  BY FlitsAre DEF MeshInv, RoutersOK
<1>2. /\ BufOK(buf, e, v)
      /\ s.state = "ACTIVE" => NextUp(g0, buf, e) /\ (buf = <<>> => e # {})
      /\ s.state # "ACTIVE" => NextUp({}, buf, e)
      /\ s.state = "WAIT_VC" => buf # <<>>
  BY DEF PacketsOK, VcOK
<1>3. pops => /\ s.state = "ACTIVE" /\ buf # <<>>
  BY BufferStep
<1>4. VcMoves(r, p, v, s2)
  <2>1. s2 = VcNext(n, r, Now(r), p, v)
    BY RegsAfter
  <2> HIDE DEF s2, r
  <2> QED BY <1>1, <2>1, VcMovesIs
<1>5. /\ BufOK(new, e2, v)
      /\ pops => NextUp(After(buf[1]), new, e2)
      /\ ~ pops => /\ \A due : NextUp(due, buf, e) => NextUp(due, new, e2)
                   /\ new = <<>> => buf = <<>> /\ e2 = e
  BY BufferStep
<1>6. s2.state = "ACTIVE" =>
        /\ router'[n].taken[s2.route][s2.out_vc]
        /\ \/ s.state = "WAIT_VC" /\ h0 = {}
           \/ s.state = "ACTIVE" /\ pops /\ h0 = After(buf[1]) /\ h0 # {}
           \/ s.state = "ACTIVE" /\ ~ pops /\ h0 = g0
  <2>1. ASSUME s2.state = "ACTIVE" PROVE router'[n].taken[s2.route][s2.out_vc]
    <3>1. RouterHeld(router'[n])
      BY HeldAfter
    <3>2. router'[n].vc[p][v].state = "ACTIVE"
      BY <2>1
    <3> QED BY <3>1, <3>2 DEF RouterHeld
  <2>2. ASSUME s2.state = "ACTIVE"
        PROVE  \/ s.state = "WAIT_VC" /\ h0 = {}
               \/ s.state = "ACTIVE" /\ pops /\ h0 = After(buf[1]) /\ h0 # {}
               \/ s.state = "ACTIVE" /\ ~ pops /\ h0 = g0
    <3>1. DueMoves(G, H, n, p, v)
      BY <2>2, DueFromVc
    <3> QED BY <3>1 DEF DueMoves
  <2> QED BY <2>1, <2>2
<1>7. \/ s.state = "IDLE" /\ s2.state = "WAIT_VC" /\ buf # <<>>
      \/ s.state = "WAIT_VC" /\ s2.state = "ACTIVE"
      \/ s.state = "ACTIVE" /\ pops /\ IsTail(buf[1]) /\ s2.state = "IDLE"
      \/ s2.state = s.state
  <2>1. s.state = "ACTIVE" /\ pops => Head(buf) = buf[1]
    BY <1>3
  <2> QED BY <1>4, <2>1 DEF VcMoves
<1>8. IsTail(buf[1]) => After(buf[1]) = {}
  BY DEF After
<1>9. VcOK(H, n, p, v)' <=>
        /\ BufOK(new, e2, v)
        /\ s2.state = "ACTIVE" => /\ router'[n].taken[s2.route][s2.out_vc]
                                  /\ NextUp(h0, new, e2)
                                  /\ new = <<>> => e2 # {}
        /\ s2.state # "ACTIVE" => NextUp({}, new, e2)
        /\ s2.state = "WAIT_VC" => new # <<>>
  BY DEF VcOK
<1> DEFINE st == s.state
           st2 == s2.state
           had == After(buf[1])
           taken2 == router'[n].taken[s2.route][s2.out_vc]
<1>10. new = <<>> => (NextUp(had, new, e2) => e2 = had)
  BY DEF NextUp
<1> HIDE DEF st, st2, had, taken2, buf, new, e, e2, pops, g0, h0, r, s, s2
<1>11. \A due : ~ pops /\ NextUp(due, buf, e) => NextUp(due, new, e2)
  BY <1>5
<1>12. st2 = "ACTIVE" => taken2 /\ NextUp(h0, new, e2) /\ (new = <<>> => e2 # {})
  <2> SUFFICES ASSUME st2 = "ACTIVE" PROVE NextUp(h0, new, e2) /\ (new = <<>> => e2 # {})
    BY <1>6 DEF st2, taken2
  <2>1. CASE st = "WAIT_VC" /\ h0 = {}
    <3>1. ~ pops /\ NextUp({}, buf, e) /\ buf # <<>>
      BY <1>2, <1>3, <2>1 DEF st
    <3> QED BY <1>5, <1>11, <2>1, <3>1
  <2>2. CASE st = "ACTIVE" /\ pops /\ h0 = had /\ h0 # {}
    BY <1>5, <1>10, <2>2 DEF had
  <2>3. CASE st = "ACTIVE" /\ ~ pops /\ h0 = g0
    <3>1. NextUp(g0, buf, e) /\ (buf = <<>> => e # {})
      BY <1>2, <2>3 DEF st
    <3> QED BY <1>5, <1>11, <2>3, <3>1
  <2> QED BY <1>6, <2>1, <2>2, <2>3 DEF st, st2, had
<1>13. st2 # "ACTIVE" => NextUp({}, new, e2)
  <2> SUFFICES ASSUME st2 # "ACTIVE" PROVE NextUp({}, new, e2)
    OBVIOUS
  <2>1. CASE st = "ACTIVE" /\ pops /\ IsTail(buf[1])
    BY <1>5, <1>8, <2>1
  <2>2. CASE st # "ACTIVE"
    <3>1. ~ pops /\ NextUp({}, buf, e)
      BY <1>2, <1>3, <2>2 DEF st
    <3> QED BY <1>11, <3>1
  <2> QED BY <1>7, <2>1, <2>2 DEF st, st2
<1>14. st2 = "WAIT_VC" => new # <<>>
  <2> SUFFICES ASSUME st2 = "WAIT_VC" PROVE new # <<>>
    OBVIOUS
  <2>1. st # "ACTIVE" /\ buf # <<>>
    BY <1>2, <1>7 DEF st, st2
  <2>2. ~ pops
    BY <1>3, <2>1 DEF st
  <2> QED BY <1>5, <2>1, <2>2
<1> QED BY <1>5, <1>9, <1>12, <1>13, <1>14 DEF st2, taken2

LEMMA PacketsStep ==
  ASSUME MeshInv, NEW G, PacketsOK(G), NEW H, IsNextDue(H, G),
         NEW hold, NEW keep, Clocked(hold, keep)
  PROVE  PacketsOK(H)'
<1>1. PlacesOK(H)'
  BY PlacesStep
<1>2. FreeIsDone(H)'
  BY FreeStep
<1>3. SendOrder'
  BY SendOrderStep DEF MeshInv, PacketsOK
<1>4. \A n \in Nodes, p \in Ports, v \in VCs : VcOK(H, n, p, v)'
  BY VcOKStep
<1>5. \A n \in Nodes, p \in Ports, v \in VCs : HeldOnce(n, p, v)'
  BY HeldAfter
<1> QED BY <1>1, <1>2, <1>3, <1>4, <1>5 DEF PacketsOK

\* After reset no packet is on its way.
LEMMA PacketsInit ==
  ASSUME Init
  PROVE  \E G : PacketsOK(G) /\ \A n \in Nodes, port \in Ports, v \in VCs : G[n][port][v][0] = {}
<1> DEFINE places == [k \in 0 .. LINK_DELAY |-> {}]
           G == [n \in Nodes |-> [port \in Ports |-> [v \in VCs |-> places]]]
<1>1. LINK_DELAY \in Nat /\ \A k \in 1 .. LINK_DELAY : k \in 0 .. LINK_DELAY /\ k - 1 \in 0 .. LINK_DELAY
  BY MeshAssumption
<1>2. \A n \in Nodes, port \in Ports, v \in VCs : \A k \in 0 .. LINK_DELAY : G[n][port][v][k] = {}
  OBVIOUS
<1> HIDE DEF G
<1>3. 0 \in 0 .. LINK_DELAY /\ LINK_DELAY \in 0 .. LINK_DELAY
  BY <1>1
<1>4. \A v : ~ OnVc(None, v)
  BY DEF OnVc
<1>5. offered \subseteq Packets /\ \A q \in offered : sent[q] = 0
  BY MeshAssumption DEF Init
<1>6. PlacesOK(G)
  <2> SUFFICES ASSUME NEW n \in Nodes, NEW port \in Ports, NEW v \in VCs, Linked(n, port),
                      NEW k \in 1 .. LINK_DELAY
               PROVE  /\ G[n][port][v][k - 1] = Pass(G[n][port][v][k], link[n][port].fwd[k], v)
                      /\ OnVc(link[n][port].fwd[k], v) => Accepts(G[n][port][v][k], link[n][port].fwd[k])
    BY DEF PlacesOK
  <2>1. link[n][port].fwd[k] = None
    BY DEF Init
  <2>2. G[n][port][v][k - 1] = {} /\ G[n][port][v][k] = {}
    BY <1>1, <1>2
  <2> QED BY <1>4, <2>1, <2>2 DEF Pass
<1>7. FreeIsDone(G)
  BY <1>2, <1>3 DEF FreeIsDone
<1>8. SendOrder
  BY <1>5 DEF SendOrder
<1>9. ASSUME NEW n \in Nodes, NEW p \in Ports, NEW v \in VCs
      PROVE  VcOK(G, n, p, v) /\ HeldOnce(n, p, v)
  <2>1. router[n] = RouterReset
    BY DEF Init
  <2>2. /\ router[n].buf[p][v] = <<>> /\ router[n].vc[p][v].state = "IDLE"
        /\ ~ router[n].taken[p][v]
        /\ \A q \in Ports, u \in VCs : router[n].vc[q][u].state = "IDLE"
    BY <2>1 DEF RouterReset
  <2>3. Expected(G, n, p, v) = {}
    <3>1. Due(n, v) = {}
      BY <1>5 DEF Due
    <3>2. Linked(n, p) => Neighbor(n, p) \in Nodes /\ Opposite[p] \in Ports
      BY NeighborBack
    <3> QED BY <1>2, <1>3, <3>1, <3>2 DEF Expected
  <2>4. Holders(n, p, v) = {}
    <3>1. \A h \in Ports \X VCs : router[n].vc[h[1]][h[2]].state = "IDLE"
      BY <2>2
    <3> QED BY <3>1 DEF Holders
  <2>5. VcOK(G, n, p, v)
    BY <2>2, <2>3 DEF VcOK, BufOK, NextUp
  <2> QED BY <2>2, <2>4, <2>5 DEF HeldOnce
<1>10. PacketsOK(G)
  BY <1>6, <1>7, <1>8, <1>9 DEF PacketsOK
<1> QED BY <1>2, <1>3, <1>10

PacketsInv == \E G : PacketsOK(G)

\* There always is what comes next a clock later.
LEMMA NextDueExists ==
  ASSUME NEW G
  PROVE  \E H : IsNextDue(H, G)
<1> DEFINE places(n, port, v) ==
             [k \in 0 .. LINK_DELAY |->
                IF k = 0 THEN Pass(G[n][port][v][0], Sent(n, port), v) ELSE G[n][port][v][k - 1]]
           now == [n \in Nodes |-> [port \in Ports |-> [v \in VCs |-> places(n, port, v)]]]
<1>1. LINK_DELAY \in Nat /\ 0 \in 0 .. LINK_DELAY /\ \A k \in 1 .. LINK_DELAY : k \in 0 .. LINK_DELAY /\ k # 0
  BY MeshAssumption
<1>2. ASSUME NEW n \in Nodes, NEW port \in Ports, NEW v \in VCs
      PROVE  /\ places(n, port, v)[0] = Pass(G[n][port][v][0], Sent(n, port), v)
             /\ \A k \in 1 .. LINK_DELAY : places(n, port, v)[k] = G[n][port][v][k - 1]
  BY <1>1
<1>3. \A n \in Nodes, port \in Ports, v \in VCs : now[n][port][v] = places(n, port, v)
  OBVIOUS
<1> HIDE DEF now, places
<1>4. IsNextDue(now, G)
  BY <1>2, <1>3 DEF IsNextDue
<1> QED BY <1>4

\* When nothing moves, the packets stay as they are.
LEMMA PacketsStay ==
  ASSUME NEW G, PacketsOK(G), UNCHANGED vars
  PROVE  PacketsOK(G)'
<1>1. router' = router /\ link' = link /\ sent' = sent /\ offered' = offered
  BY DEF vars
<1>2. PlacesOK(G)' /\ FreeIsDone(G)' /\ SendOrder'
  BY <1>1 DEF PacketsOK, PlacesOK, FreeIsDone, SendOrder
<1>3. ASSUME NEW n \in Nodes, NEW p \in Ports, NEW v \in VCs
      PROVE  VcOK(G, n, p, v)' /\ HeldOnce(n, p, v)'
  <2>1. VcOK(G, n, p, v) /\ HeldOnce(n, p, v)
    BY DEF PacketsOK
  <2>2. Holders(n, p, v)' = Holders(n, p, v)
    BY <1>1 DEF Holders
  <2>3. Expected(G, n, p, v)' = Expected(G, n, p, v)
    BY <1>1 DEF Expected, Due
  <2>4. VcOK(G, n, p, v)'
    BY <1>1, <2>1, <2>3 DEF VcOK
  <2> QED BY <1>1, <2>1, <2>2, <2>4 DEF HeldOnce
<1> QED BY <1>2, <1>3 DEF PacketsOK

\* Every step keeps the packets whole and in order.
LEMMA PacketsInvStep == MeshInv /\ PacketsInv /\ [Next]_vars => PacketsInv'
<1> SUFFICES ASSUME MeshInv, PacketsInv, [Next]_vars PROVE PacketsInv'
  OBVIOUS
<1>1. PICK G : PacketsOK(G)
  BY DEF PacketsInv
<1>2. CASE Next
  <2>1. PICK hold, keep : Clock(hold, keep)
    BY <1>2 DEF Next
  <2>2. Clocked(hold, keep)
    BY <2>1, ClockIs
  <2>3. PICK H : IsNextDue(H, G)
    BY NextDueExists
  <2>4. PacketsOK(H)'
    BY <1>1, <2>2, <2>3, PacketsStep
  <2> QED BY <2>4 DEF PacketsInv
<1>3. CASE UNCHANGED vars
  BY <1>1, <1>3, PacketsStay DEF PacketsInv
<1> QED BY <1>2, <1>3

\* E[j] is what comes next behind index j of track t, from index L on.
Chain(E, t, L, M, v) ==
  /\ \A q \in L + 1 .. M : E[q] = Pass(E[q - 1], t[q], v)
  /\ L > 0 => E[L] = After(t[L])

\* A flit of v at index j, and none after it up to index q.
Gap(t, j, q, v) == OnVc(t[j], v) /\ \A i \in j + 1 .. q : ~ OnVc(t[i], v)

\* Over a gap nothing changes: what comes next is what follows the flit.
LEMMA NextIsAfterLast ==
  ASSUME NEW L \in Nat, NEW M \in Nat, NEW t, NEW E, NEW v, Chain(E, t, L, M, v),
         NEW j \in 1 .. M, NEW q \in L .. M, L <= j, j <= q, Gap(t, j, q, v)
  PROVE  E[q] = After(t[j])
<1>0. /\ \A x \in L + 1 .. M : E[x] = Pass(E[x - 1], t[x], v)
      /\ L > 0 => E[L] = After(t[L])
      /\ OnVc(t[j], v) /\ \A i \in j + 1 .. q : ~ OnVc(t[i], v)
  BY DEF Chain, Gap
<1> DEFINE A == {x \in j .. q : E[x] = After(t[j])}
<1>1. L \in Int /\ M \in Int /\ j \in Int /\ q \in Int /\ 1 <= j /\ q <= M
  OBVIOUS
<1>2. j \in A
  <2>1. CASE j = L
    BY <1>0, <1>1, <2>1
  <2>2. CASE j # L
    <3>1. j \in L + 1 .. M
      BY <1>1, <2>2
    <3>2. E[j] = Pass(E[j - 1], t[j], v)
      BY <1>0, <3>1
    <3> QED BY <1>0, <1>1, <3>2 DEF Pass
  <2> QED BY <2>1, <2>2
<1>3. q + 1 \in Nat /\ A \in SUBSET (0 .. (q + 1) - 1) /\ A # {}
  BY <1>1, <1>2
<1>4. \A x \in A : x \in Int /\ j <= x /\ x <= q /\ E[x] = After(t[j])
  BY <1>1
<1>5. \A x \in j .. q : E[x] = After(t[j]) => x \in A
  OBVIOUS
<1> DEFINE top == Highest(A)
           size == q + 1
<1> HIDE DEF A, size
<1>6. top \in A /\ \A x \in A : x <= top
  <2>1. size \in Nat /\ A \in SUBSET (0 .. size - 1)
    BY <1>3 DEF size
  <2> QED BY <1>3, <2>1, HighestIs
<1> HIDE DEF top
<1>7. CASE top = q
  BY <1>4, <1>6, <1>7
<1>8. CASE top # q
  <2>1. top \in Int /\ j <= top /\ top < q /\ E[top] = After(t[j])
    BY <1>1, <1>4, <1>6, <1>8
  <2>2. top + 1 \in L + 1 .. M /\ top + 1 \in j + 1 .. q /\ top + 1 \in j .. q /\ (top + 1) - 1 = top
    BY <1>1, <2>1
  <2>3. E[top + 1] = Pass(E[top], t[top + 1], v) /\ ~ OnVc(t[top + 1], v)
    BY <1>0, <2>2
  <2>4. top + 1 \in A
    BY <1>5, <2>1, <2>2, <2>3 DEF Pass
  <2> QED BY <1>6, <2>1, <2>4
<1> QED BY <1>7, <1>8

\* The indices of a track: the buffer, then the places of the link backwards.
LEMMA TrackIs ==
  ASSUME MeshInv, NEW n \in Nodes, NEW port \in Ports, NEW v \in VCs, Linked(n, port)
  PROVE  LET buf == router[Neighbor(n, port)].buf[Opposite[port]][v]
             fwd == link[n][port].fwd
             t   == Track(n, port, v)
         IN  /\ Len(buf) \in Nat /\ LINK_DELAY \in Nat
             /\ DOMAIN t = 1 .. Len(buf) + LINK_DELAY
             /\ \A j \in 1 .. Len(buf) : t[j] = buf[j]
             /\ \A j \in Len(buf) + 1 .. Len(buf) + LINK_DELAY :
                  t[j] = fwd[LINK_DELAY - (j - Len(buf)) + 1]
<1> DEFINE buf == router[Neighbor(n, port)].buf[Opposite[port]][v]
           fwd == link[n][port].fwd
           S   == Flits \cup {None}
           rev == Reverse(fwd)
<1>1. buf \in Seq(S)
  <2>1. Neighbor(n, port) \in Nodes /\ Opposite[port] \in Ports
    BY NeighborBack
  <2>2. buf \in Seq(Flits)
    BY <2>1 DEF MeshInv, RoutersOK, RouterOK
  <2> HIDE DEF buf
  <2>3. DOMAIN buf = 1 .. Len(buf) /\ Len(buf) \in Nat /\ \A i \in 1 .. Len(buf) : buf[i] \in S
    BY <2>2
  <2>4. Seq(Flits) \subseteq Seq(S)
    OBVIOUS
  <2> QED BY <2>2, <2>4
<1>2. fwd \in [1 .. LINK_DELAY -> S] /\ LINK_DELAY \in Nat
  BY MeshAssumption DEF MeshInv, LinksOK
<1>3. Track(n, port, v) = buf \o rev
  BY DEF Track
<1> HIDE DEF buf, fwd, S, rev
<1>4. fwd \in Seq(S) /\ Len(fwd) = LINK_DELAY
  BY <1>2
<1>5. rev = [i \in 1 .. LINK_DELAY |-> fwd[(LINK_DELAY - i) + 1]]
  BY <1>4 DEF Reverse, rev
<1>6. rev \in Seq(S) /\ Len(rev) = LINK_DELAY
  <2>1. \A i \in 1 .. LINK_DELAY : fwd[(LINK_DELAY - i) + 1] \in S
    BY <1>2
  <2> QED BY <1>2, <1>5, <2>1
<1>7. Len(buf) \in Nat
  BY <1>1
<1>8. /\ DOMAIN (buf \o rev) = 1 .. Len(buf) + LINK_DELAY
      /\ \A j \in 1 .. Len(buf) : (buf \o rev)[j] = buf[j]
      /\ \A j \in Len(buf) + 1 .. Len(buf) + LINK_DELAY : (buf \o rev)[j] = rev[j - Len(buf)]
  BY <1>1, <1>6, <1>7
<1>9. \A j \in Len(buf) + 1 .. Len(buf) + LINK_DELAY :
        rev[j - Len(buf)] = fwd[LINK_DELAY - (j - Len(buf)) + 1]
  <2> SUFFICES ASSUME NEW j \in Len(buf) + 1 .. Len(buf) + LINK_DELAY
               PROVE  rev[j - Len(buf)] = fwd[LINK_DELAY - (j - Len(buf)) + 1]
    OBVIOUS
  <2> DEFINE i == j - Len(buf)
  <2>1. i \in 1 .. LINK_DELAY
    BY <1>2, <1>7
  <2> HIDE DEF i
  <2>2. rev[i] = fwd[LINK_DELAY - i + 1]
    BY <1>5, <2>1
  <2> QED BY <2>2 DEF i
<1> QED BY <1>2, <1>3, <1>7, <1>8, <1>9 DEF buf, fwd

\* A place of the link as an index of the track, and what comes next behind it.
\* E[j] is what comes next behind index j.
LEMMA TrackOK ==
  ASSUME MeshInv, NEW G, PacketsOK(G), NEW n \in Nodes, NEW port \in Ports, NEW v \in VCs,
         Linked(n, port)
  PROVE  LET buf == router[Neighbor(n, port)].buf[Opposite[port]][v]
             t == Track(n, port, v)
             L == Len(buf)
             M == Len(buf) + LINK_DELAY
             E == [j \in L .. M |-> G[n][port][v][LINK_DELAY - (j - L)]]
         IN  /\ \A j \in 1 .. L : OnVc(t[j], v)
             /\ \A j \in 1 .. L - 1 : Follows(t[j], t[j + 1])
             /\ L > 0 => E[L] = After(t[L])
             /\ \A j \in L + 1 .. M : /\ E[j] = Pass(E[j - 1], t[j], v)
                                      /\ OnVc(t[j], v) => Accepts(E[j - 1], t[j])
             /\ E[M] = G[n][port][v][0]
<1> DEFINE buf == router[Neighbor(n, port)].buf[Opposite[port]][v]
           fwd == link[n][port].fwd
           t == Track(n, port, v)
           L == Len(buf)
           g == G[n][port][v]
           M == L + LINK_DELAY
           E == [j \in L .. M |-> g[LINK_DELAY - (j - L)]]
<1>1. /\ L \in Nat /\ LINK_DELAY \in Nat
      /\ \A j \in 1 .. L : t[j] = buf[j]
      /\ \A j \in L + 1 .. M : t[j] = fwd[LINK_DELAY - (j - L) + 1]
  BY TrackIs
<1>2. BufOK(buf, g[LINK_DELAY], v)
  <2> DEFINE m  == Neighbor(n, port)
             at == Opposite[port]
  <2>1. /\ m \in Nodes /\ at \in Ports /\ at # LOCAL_PORT
        /\ Linked(m, at) /\ Neighbor(m, at) = n /\ Opposite[at] = port
    BY NeighborBack
  <2> HIDE DEF m, at
  <2>2. VcOK(G, m, at, v)
    BY <2>1 DEF PacketsOK
  <2>3. Expected(G, m, at, v) = G[n][port][v][LINK_DELAY]
    BY <2>1 DEF Expected
  <2>4. BufOK(router[m].buf[at][v], G[n][port][v][LINK_DELAY], v)
    BY <2>2, <2>3 DEF VcOK
  <2> QED BY <2>4 DEF m, at
<1>3. \A k \in 1 .. LINK_DELAY : /\ g[k - 1] = Pass(g[k], fwd[k], v)
                                 /\ OnVc(fwd[k], v) => Accepts(g[k], fwd[k])
  BY DEF PacketsOK, PlacesOK
<1> HIDE DEF buf, fwd, t, g
<1>4. \A j \in 1 .. L : OnVc(t[j], v)
  BY <1>1, <1>2 DEF BufOK
<1>5. \A j \in 1 .. L - 1 : Follows(t[j], t[j + 1])
  <2>1. \A j \in 1 .. L - 1 : j \in 1 .. L /\ j + 1 \in 1 .. L
    BY <1>1
  <2> QED BY <1>1, <1>2, <2>1 DEF BufOK
<1>6. L > 0 => E[L] = After(t[L])
  <2> SUFFICES ASSUME L > 0 PROVE E[L] = After(t[L])
    OBVIOUS
  <2>1. L \in 1 .. L /\ L \in L .. M /\ LINK_DELAY - (L - L) = LINK_DELAY /\ buf # <<>>
    BY <1>1
  <2>2. g[LINK_DELAY] = After(buf[L])
    BY <1>2, <2>1 DEF BufOK
  <2> QED BY <1>1, <2>1, <2>2
<1>7. ASSUME NEW j \in L + 1 .. M
      PROVE  /\ E[j] = Pass(E[j - 1], t[j], v)
             /\ OnVc(t[j], v) => Accepts(E[j - 1], t[j])
  <2> DEFINE k == LINK_DELAY - (j - L) + 1
  <2>1. /\ k \in 1 .. LINK_DELAY /\ j \in L .. M /\ j - 1 \in L .. M
        /\ LINK_DELAY - (j - L) = k - 1 /\ LINK_DELAY - ((j - 1) - L) = k
    BY <1>1
  <2>2. t[j] = fwd[k]
    BY <1>1
  <2>3. E[j] = g[LINK_DELAY - (j - L)] /\ E[j - 1] = g[LINK_DELAY - ((j - 1) - L)]
    BY <2>1
  <2> HIDE DEF k, E
  <2>4. E[j] = g[k - 1] /\ E[j - 1] = g[k]
    BY <2>1, <2>3
  <2> QED BY <1>3, <2>1, <2>2, <2>4
<1>8. E[M] = g[0]
  <2>1. M \in L .. M /\ LINK_DELAY - (M - L) = 0
    BY <1>1
  <2> QED BY <2>1
<1> QED BY <1>4, <1>5, <1>6, <1>7, <1>8 DEF buf, t, g

\* A flit follows the one before it on its VC; after the last one, the holder
\* has what follows.
LEMMA HeldByOne == MeshInv /\ PacketsInv => VcHeldByOnePacket
<1> SUFFICES ASSUME MeshInv, PacketsInv, NEW n \in Nodes, NEW port \in Ports, NEW v \in VCs
             PROVE  /\ Cardinality(Holders(n, port, v)) = Bit(router[n].taken[port][v])
                    /\ Linked(n, port) =>
                         LET t == Track(n, port, v) IN
                         /\ \A j, k \in Stream(t, v) :
                              (j < k /\ \A i \in Stream(t, v) : i <= j \/ k <= i) => Follows(t[j], t[k])
                         /\ \A k \in Stream(t, v) :
                              ((\A i \in Stream(t, v) : i <= k) /\ ~IsTail(t[k])) =>
                                \E h \in Holders(n, port, v) :
                                  LET buf == router[n].buf[h[1]][h[2]]
                                  IN  buf # <<>> => Follows(t[k], buf[1])
  BY DEF VcHeldByOnePacket
<1>1. PICK G : PacketsOK(G)
  BY DEF PacketsInv
<1>2. HeldOnce(n, port, v)
  BY <1>1 DEF PacketsOK
<1>3. ASSUME NEW h \in Holders(n, port, v)
      PROVE  /\ router[n].taken[port][v]
             /\ LET buf == router[n].buf[h[1]][h[2]]
                IN  buf # <<>> => Accepts(G[n][port][v][0], buf[1])
  <2>1. /\ h[1] \in Ports /\ h[2] \in VCs /\ router[n].vc[h[1]][h[2]].state = "ACTIVE"
        /\ router[n].vc[h[1]][h[2]].route = port /\ router[n].vc[h[1]][h[2]].out_vc = v
    BY DEF Holders
  <2>2. VcOK(G, n, h[1], h[2])
    BY <1>1, <2>1 DEF PacketsOK
  <2> QED BY <2>1, <2>2 DEF VcOK, NextUp
<1>4. Cardinality(Holders(n, port, v)) = Bit(router[n].taken[port][v])
  <2>1. CASE router[n].taken[port][v]
    <3>1. PICK h : Holders(n, port, v) = {h}
      BY <1>2, <2>1 DEF HeldOnce
    <3>2. Cardinality(Holders(n, port, v)) = 1
      BY <3>1, FS_Singleton
    <3> QED BY <2>1, <3>2 DEF Bit
  <2>2. CASE ~ router[n].taken[port][v]
    <3>1. Holders(n, port, v) = {}
      BY <1>3, <2>2
    <3>2. Cardinality(Holders(n, port, v)) = 0
      BY <3>1, FS_EmptySet
    <3> QED BY <2>2, <3>2 DEF Bit
  <2> QED BY <2>1, <2>2
<1>5. ASSUME Linked(n, port)
      PROVE  LET t == Track(n, port, v) IN
             /\ \A j, k \in Stream(t, v) :
                  (j < k /\ \A i \in Stream(t, v) : i <= j \/ k <= i) => Follows(t[j], t[k])
             /\ \A k \in Stream(t, v) :
                  ((\A i \in Stream(t, v) : i <= k) /\ ~IsTail(t[k])) =>
                    \E h \in Holders(n, port, v) :
                      LET buf == router[n].buf[h[1]][h[2]]
                      IN  buf # <<>> => Follows(t[k], buf[1])
  <2> DEFINE t == Track(n, port, v)
             L == Len(router[Neighbor(n, port)].buf[Opposite[port]][v])
             M == L + LINK_DELAY
             E == [j \in L .. M |-> G[n][port][v][LINK_DELAY - (j - L)]]
             g0 == G[n][port][v][0]
  <2>1. L \in Nat /\ M \in Nat /\ L <= M /\ DOMAIN t = 1 .. M
    <3>1. L \in Nat /\ LINK_DELAY \in Nat /\ DOMAIN t = 1 .. M
      BY <1>5, TrackIs
    <3>2. LINK_DELAY \in Nat
      BY MeshAssumption
    <3> HIDE DEF L, t
    <3> QED BY <3>1, <3>2 DEF M
  <2>2. /\ \A j \in 1 .. L : OnVc(t[j], v)
        /\ \A j \in 1 .. L - 1 : Follows(t[j], t[j + 1])
        /\ L > 0 => E[L] = After(t[L])
        /\ \A j \in L + 1 .. M : /\ E[j] = Pass(E[j - 1], t[j], v)
                                 /\ OnVc(t[j], v) => Accepts(E[j - 1], t[j])
        /\ E[M] = g0
    BY <1>1, <1>5, TrackOK
  <2> HIDE DEF t, L, M, E, g0
  <2>3. \A j : j \in Stream(t, v) <=> j \in 1 .. M /\ OnVc(t[j], v)
    BY <2>1 DEF Stream
  <2>4. ASSUME NEW j \in 1 .. M, OnVc(t[j], v), NEW q \in L .. M, j <= q,
               \A i \in j + 1 .. q : ~ OnVc(t[i], v)
        PROVE  E[q] = After(t[j])
    <3>1. L <= j
      <4> SUFFICES ASSUME ~ (L <= j) PROVE FALSE
        OBVIOUS
      <4>1. j + 1 \in 1 .. L /\ j + 1 \in j + 1 .. q
        BY <2>1
      <4> QED BY <2>2, <2>4, <4>1
    <3>2. Chain(E, t, L, M, v) /\ L \in Nat /\ M \in Nat
      BY <2>1, <2>2 DEF Chain
    <3>3. Gap(t, j, q, v) /\ j <= q
      BY <2>4 DEF Gap
    <3> QED BY <3>1, <3>2, <3>3, NextIsAfterLast
  <2>5. ASSUME NEW j \in Stream(t, v), NEW k \in Stream(t, v), j < k,
               \A i \in Stream(t, v) : i <= j \/ k <= i
        PROVE  Follows(t[j], t[k])
    <3>1. /\ j \in 1 .. M /\ OnVc(t[j], v) /\ k \in 1 .. M /\ OnVc(t[k], v)
          /\ j \in Int /\ k \in Int
      BY <2>1, <2>3
    <3>2. \A i \in j + 1 .. k - 1 : ~ OnVc(t[i], v)
      <4> SUFFICES ASSUME NEW i \in j + 1 .. k - 1, OnVc(t[i], v) PROVE FALSE
        OBVIOUS
      <4>1. i \in 1 .. M /\ ~ (i <= j) /\ ~ (k <= i)
        BY <2>1, <3>1
      <4> QED BY <2>3, <2>5, <4>1
    <3>3. CASE k <= L
      <4>1. j + 1 = k
        <5> SUFFICES ASSUME j + 1 # k PROVE FALSE
          OBVIOUS
        <5>1. j + 1 \in j + 1 .. k - 1 /\ j + 1 \in 1 .. L
          BY <2>1, <2>5, <3>1, <3>3
        <5> QED BY <2>2, <3>2, <5>1
      <4>2. j \in 1 .. L - 1
        BY <2>1, <3>1, <3>3, <4>1
      <4> QED BY <2>2, <4>1, <4>2
    <3>4. CASE L < k
      <4>1. k \in L + 1 .. M /\ k - 1 \in L .. M /\ j <= k - 1
        BY <2>1, <2>5, <3>1, <3>4
      <4>2. E[k - 1] = After(t[j])
        BY <2>4, <3>1, <3>2, <4>1
      <4>3. Accepts(E[k - 1], t[k])
        BY <2>2, <3>1, <4>1
      <4> QED BY <4>2, <4>3, FollowsIsNext
    <3> QED BY <2>1, <3>1, <3>3, <3>4
  <2>6. ASSUME NEW k \in Stream(t, v), \A i \in Stream(t, v) : i <= k, ~ IsTail(t[k])
        PROVE  \E h \in Holders(n, port, v) :
                 LET buf == router[n].buf[h[1]][h[2]]
                 IN  buf # <<>> => Follows(t[k], buf[1])
    <3>1. k \in 1 .. M /\ OnVc(t[k], v) /\ k \in Int
      BY <2>1, <2>3
    <3>2. \A i \in k + 1 .. M : ~ OnVc(t[i], v)
      <4> SUFFICES ASSUME NEW i \in k + 1 .. M, OnVc(t[i], v) PROVE FALSE
        OBVIOUS
      <4>1. i \in 1 .. M /\ ~ (i <= k)
        BY <2>1, <3>1
      <4> QED BY <2>3, <2>6, <4>1
    <3>3. g0 = After(t[k])
      <4>1. M \in L .. M /\ k <= M
        BY <2>1, <3>1
      <4> QED BY <2>2, <2>4, <3>1, <3>2, <4>1
    <3>4. router[n].taken[port][v]
      <4>1. g0 # {}
        BY <2>6, <3>3, FollowsIsNext
      <4> QED BY <1>1, <4>1 DEF PacketsOK, FreeIsDone, g0
    <3>5. PICK h \in Holders(n, port, v) : TRUE
      BY <1>2, <3>4 DEF HeldOnce
    <3> DEFINE buf == router[n].buf[h[1]][h[2]]
    <3>6. buf # <<>> => Accepts(g0, buf[1])
      BY <1>3 DEF g0
    <3> HIDE DEF buf
    <3>7. buf # <<>> => Follows(t[k], buf[1])
      BY <3>3, <3>6, FollowsIsNext
    <3> QED BY <3>7 DEF buf
  <2> QED BY <2>5, <2>6 DEF t
<1> QED BY <1>4, <1>5

\* A virtual channel belongs to one packet from its head to its tail: in every
\* mesh, for every delay of the links, every number and depth of the virtual
\* channels, every set of packets and all stalls.
THEOREM VcsAreHeldByOnePacket == Spec => []VcHeldByOnePacket
<1>1. Init => PacketsInv
  BY PacketsInit DEF PacketsInv
<1>2. MeshInv /\ PacketsInv /\ [Next]_vars => PacketsInv'
  BY PacketsInvStep
<1>3. MeshInv /\ PacketsInv => VcHeldByOnePacket
  BY HeldByOne
<1> QED BY <1>1, <1>2, <1>3, MeshInvariant, PTL DEF Spec

-----------------------------------------------------------------------------
(* Every packet comes out whole, once, and where it goes.                  *)

\* What came out of a local port since the last tail, when e comes next there.
PartOf(e, a) ==
  /\ e = {} => a = <<>>
  /\ \A p, k : e = {<<p, k>>} => a = [j \in 1 .. k - 1 |-> <<p, j>>]

PartsOK(G) == \A n \in Nodes, v \in VCs : PartOf(G[n][LOCAL_PORT][v][0], assembling[n][v])

\* The packet at the front of a buffer, there or still to come.
FrontIs(buf, e, pkt) == IF buf # <<>> THEN buf[1].pkt = pkt ELSE \E k : e = {<<pkt, k>>}

\* An input VC with a route has the one of the packet at its front.
RouteOK(G, n, p, v) ==
  router[n].vc[p][v].state # "IDLE" =>
    \A pkt : FrontIs(router[n].buf[p][v], Expected(G, n, p, v), pkt) =>
               router[n].vc[p][v].route = XyPort(n, pkt.dest)

RoutesOK(G) == \A n \in Nodes, p \in Ports, v \in VCs : RouteOK(G, n, p, v)

\* With the flit that is due the part that came out grows by one.
LEMMA PartGrows ==
  ASSUME NEW e, NEW a, PartOf(e, a), NEW f, f.n \in Nat \ {0}, Accepts(e, f)
  PROVE  /\ Append(a, <<f.pkt, f.n>>) = [j \in 1 .. f.n |-> <<f.pkt, j>>]
         /\ PartOf(After(f), IF IsTail(f) THEN <<>> ELSE Append(a, <<f.pkt, f.n>>))
<1> DEFINE k == f.n
           pkt == f.pkt
           whole == [j \in 1 .. k |-> <<pkt, j>>]
<1>1. a = [j \in 1 .. k - 1 |-> <<pkt, j>>]
  <2>1. CASE e = {}
    <3>1. k = 1 /\ a = <<>>
      BY <2>1 DEF Accepts, IsHead, PartOf
    <3>2. [j \in 1 .. 1 - 1 |-> <<pkt, j>>] = <<>>
      OBVIOUS
    <3> QED BY <3>1, <3>2
  <2>2. CASE e # {}
    BY <2>2 DEF Accepts, PartOf
  <2> QED BY <2>1, <2>2
<1> HIDE DEF k, pkt
<1>2. k \in Nat \ {0}
  BY DEF k
<1>3. Append(a, <<pkt, k>>) = whole
  <2> DEFINE S == {<<pkt, j>> : j \in Nat}
  <2>1. a \in Seq(S) /\ Len(a) = k - 1 /\ <<pkt, k>> \in S
    BY <1>1, <1>2
  <2>2. whole \in Seq(S) /\ Len(whole) = k
    BY <1>2
  <2>3. /\ Append(a, <<pkt, k>>) \in Seq(S) /\ Len(Append(a, <<pkt, k>>)) = k
        /\ Append(a, <<pkt, k>>)[k] = <<pkt, k>>
        /\ \A j \in 1 .. k - 1 : Append(a, <<pkt, k>>)[j] = a[j]
    <3> HIDE DEF S
    <3> QED BY <1>2, <2>1
  <2>4. \A j \in 1 .. k : Append(a, <<pkt, k>>)[j] = whole[j]
    <3>1. \A j \in 1 .. k - 1 : a[j] = <<pkt, j>>
      BY <1>1
    <3>2. \A j \in 1 .. k : whole[j] = <<pkt, j>> /\ (j = k \/ j \in 1 .. k - 1)
      BY <1>2
    <3> HIDE DEF whole
    <3> QED BY <2>3, <3>1, <3>2
  <2> HIDE DEF S, whole
  <2> QED BY <1>2, <2>2, <2>3, <2>4
<1>4. PartOf(After(f), IF IsTail(f) THEN <<>> ELSE Append(a, <<pkt, k>>))
  <2>1. CASE IsTail(f)
    BY <2>1 DEF After, PartOf
  <2>2. CASE ~ IsTail(f)
    <3>1. After(f) = {<<pkt, k + 1>>}
      BY <2>2 DEF After, pkt, k
    <3>2. ASSUME NEW p, NEW i, After(f) = {<<p, i>>} PROVE whole = [j \in 1 .. i - 1 |-> <<p, j>>]
      <4>1. p = pkt /\ i = k + 1
        <5>1. <<p, i>> = <<pkt, k + 1>>
          BY <3>1, <3>2
        <5> QED BY <5>1
      <4>2. i - 1 = k
        BY <1>2, <4>1
      <4> QED BY <4>1, <4>2
    <3> QED BY <1>3, <2>2, <3>1, <3>2 DEF PartOf
  <2> QED BY <2>1, <2>2
<1> QED BY <1>3, <1>4 DEF pkt, k

\* What a node gets in a clock.
LEMMA NodeAfter ==
  ASSUME NEW hold, NEW keep, Clocked(hold, keep), NEW n \in Nodes
  PROVE  /\ inbox' = [m \in Nodes |-> inbox'[m]]
         /\ inbox'[n] = InboxNext(n, Sent(n, LOCAL_PORT))
         /\ \A v \in VCs : assembling'[n][v] = AssemblingNext(n, v, Sent(n, LOCAL_PORT))
<1>1. \A m \in Nodes : AllWires[m].out_fwd[LOCAL_PORT] = Sent(m, LOCAL_PORT)
  BY DEF AllWires, Sent
<1>2. inbox' = [m \in Nodes |-> InboxNext(m, AllWires[m].out_fwd[LOCAL_PORT])]
  BY DEF Clocked, ClockWith
<1>3. assembling' = [m \in Nodes |-> [v \in VCs |->
                       AssemblingNext(m, v, AllWires[m].out_fwd[LOCAL_PORT])]]
  BY DEF Clocked, ClockWith
<1>4. inbox' = [m \in Nodes |-> inbox'[m]]
  BY <1>2
<1>5. inbox'[n] = InboxNext(n, Sent(n, LOCAL_PORT))
  BY <1>1, <1>2
<1>6. ASSUME NEW v \in VCs PROVE assembling'[n][v] = AssemblingNext(n, v, Sent(n, LOCAL_PORT))
  BY <1>1, <1>3
<1> QED BY <1>4, <1>5, <1>6

\* What a router sends is a flit.
LEMMA SentIsFlit ==
  ASSUME MeshInv, NEW n \in Nodes, NEW port \in Ports
  PROVE  /\ Sent(n, port) \in Flits \cup {None} /\ None \notin Flits
         /\ Sent(n, port) # None =>
              /\ Sent(n, port).vc \in VCs /\ OnVc(Sent(n, port), Sent(n, port).vc)
              /\ Sent(n, port).n \in Nat \ {0} /\ Sent(n, port).pkt \in offered
<1>1. RouterOK(router[n], Flits) /\ FlitSet(Flits)
  BY FlitsAre DEF MeshInv, RoutersOK
<1>2. Sent(n, port) \in Flits \cup {None}
  BY <1>1, OutFlit DEF Sent
<1>3. \A f \in Flits : f.vc \in VCs /\ f.n \in Nat \ {0} /\ f.pkt \in offered
  <2> SUFFICES ASSUME NEW f \in Flits PROVE f.vc \in VCs /\ f.n \in Nat \ {0} /\ f.pkt \in offered
    OBVIOUS
  <2>1. f.pkt \in offered /\ f.n \in Nat /\ f.vc \in VCs /\ f.n \in 1 .. f.pkt.len
    BY DEF Flits
  <2>2. f.pkt.len \in Nat
    BY <2>1, MeshAssumption DEF MeshInv, RunOK
  <2> QED BY <2>1, <2>2
<1> QED BY <1>1, <1>2, <1>3 DEF FlitSet, OnVc

\* The parts that came out grow as their packets go on.
LEMMA PartsStep ==
  ASSUME MeshInv, NEW G, PacketsOK(G), PartsOK(G), NEW H, IsNextDue(H, G),
         NEW hold, NEW keep, Clocked(hold, keep)
  PROVE  PartsOK(H)'
<1>1. LOCAL_PORT \in Ports
  BY DEF LOCAL_PORT, Ports
<1>2. ASSUME NEW n \in Nodes, NEW v \in VCs
      PROVE  PartOf(H[n][LOCAL_PORT][v][0], assembling'[n][v])
  <2> DEFINE out == Sent(n, LOCAL_PORT)
             g == G[n][LOCAL_PORT][v][0]
             h == H[n][LOCAL_PORT][v][0]
             a == assembling[n][v]
  <2>1. assembling'[n][v] = IF ~ OnVc(out, v) THEN a
                            ELSE IF IsTail(out) THEN <<>> ELSE Append(a, <<out.pkt, out.n>>)
    BY NodeAfter DEF AssemblingNext
  <2>2. h = IF OnVc(out, v) THEN After(out) ELSE g
    BY <1>1 DEF IsNextDue, Pass
  <2>3. PartOf(g, a)
    BY DEF PartsOK
  <2>4. OnVc(out, v) => Accepts(g, out) /\ out.n \in Nat \ {0}
    BY <1>1, SentIsDue, SentIsFlit DEF OnVc
  <2> HIDE DEF out, g, h, a
  <2> DEFINE a2 == assembling'[n][v]
             grown == IF IsTail(out) THEN <<>> ELSE Append(a, <<out.pkt, out.n>>)
  <2>5. OnVc(out, v) => PartOf(After(out), grown)
    BY <2>3, <2>4, PartGrows
  <2>6. a2 = IF OnVc(out, v) THEN grown ELSE a
    BY <2>1
  <2> HIDE DEF a2, grown
  <2>7. PartOf(h, a2)
    BY <2>2, <2>3, <2>5, <2>6
  <2> QED BY <2>7 DEF h, a2
<1> QED BY <1>2 DEF PartsOK

\* A packet keeps its route to its tail.
LEMMA RouteStep ==
  ASSUME MeshInv, NEW G, PacketsOK(G), RoutesOK(G), NEW H, IsNextDue(H, G),
         NEW hold, NEW keep, Clocked(hold, keep), NEW n \in Nodes, NEW p \in Ports, NEW v \in VCs
  PROVE  RouteOK(H, n, p, v)'
<1> DEFINE r   == router[n]
           s   == r.vc[p][v]
           s2  == router'[n].vc[p][v]
           buf == r.buf[p][v]
           new == router'[n].buf[p][v]
           in  == InFwd(AllWires, n, Tx(n, hold))[p]
           e   == Expected(G, n, p, v)
           e2  == Expected(H, n, p, v)'
           pops == v \in Now(r).pop[p]
<1>1. RouterOK(r, Flits) /\ FlitSet(Flits)
  BY FlitsAre DEF MeshInv, RoutersOK
<1>2. /\ BufOK(buf, e, v)
      /\ s.state = "ACTIVE" /\ buf = <<>> => e # {}
      /\ s.state = "WAIT_VC" => buf # <<>>
  BY DEF PacketsOK, VcOK
<1>3. pops => /\ s.state = "ACTIVE" /\ buf # <<>>
  BY BufferStep
<1>4. buf \in Seq(Flits) /\ pops \in BOOLEAN /\ s \in InVcState
  BY <1>1 DEF RouterOK
<1>5. /\ OnVc(in, v) => in \in Flits /\ Accepts(e, in)
      /\ e2 = Pass(e, in, v) /\ new = QueueNext(buf, pops, in, v)
  BY ExpectedStep, BufAfterIs
<1>6. /\ pops => NextUp(After(buf[1]), new, e2)
      /\ ~ pops /\ new = <<>> => buf = <<>> /\ e2 = e
  BY BufferStep
<1>7. ~ pops => /\ buf # <<>> => new # <<>> /\ new[1] = buf[1]
                /\ buf = <<>> /\ new # <<>> => OnVc(in, v) /\ new[1] = in
  <2> HIDE DEF buf, new, in, pops
  <2>1. ASSUME ~ pops
        PROVE  new = QueueNext(buf, FALSE, in, v)
    BY <1>5, <2>1 DEF QueueNext
  <2> QED BY <1>4, <1>5, <2>1 DEF QueueNext
<1>8. \/ /\ s.state = "IDLE" /\ buf # <<>> /\ s2.route = XyPort(n, buf[1].pkt.dest)
      \/ s2.state = "IDLE"
      \/ /\ s.state # "IDLE" /\ s2.route = s.route /\ ~ (pops /\ IsTail(buf[1]))
  <2>1. s2 = VcNext(n, r, Now(r), p, v)
    BY RegsAfter
  <2>2. buf # <<>> => Head(buf) = buf[1]
    BY <1>4
  <2>3. /\ \A x, y : [s EXCEPT !.state = x, !.route = y].route = y
        /\ \A x, y : [s EXCEPT !.state = x, !.out_vc = y].route = s.route
        /\ \A x : [s EXCEPT !.state = x].state = x
    <3> HIDE DEF s
    <3> QED BY <1>4 DEF InVcState
  <2>4. s.state \in {"IDLE", "WAIT_VC", "ACTIVE"}
    BY <1>4 DEF InVcState
  <2> DEFINE starts == s.state = "IDLE" /\ buf # <<>> /\ IsHead(Head(buf))
             granted == s.state = "WAIT_VC" /\ IsGranted(Now(r), s.route, p, v)
             ends == s.state = "ACTIVE" /\ pops /\ IsTail(Head(buf))
             vc == Highest(FreeVcs(r, s.route))
             home == XyPort(n, Head(buf).pkt.dest)
  <2>5. s2 = CASE starts  -> [s EXCEPT !.state = "WAIT_VC", !.route = home]
               [] granted -> [s EXCEPT !.state = "ACTIVE", !.out_vc = vc]
               [] ends    -> [s EXCEPT !.state = "IDLE"]
               [] OTHER   -> s
    BY <2>1 DEF VcNext
  <2> HIDE DEF s2, s, home, vc
  <2>6. CASE starts
    <3>1. s2 = [s EXCEPT !.state = "WAIT_VC", !.route = home]
      BY <2>5, <2>6
    <3>2. s2.route = home
      BY <2>3, <3>1
    <3> QED BY <2>2, <2>6, <3>2 DEF home
  <2>7. CASE granted
    <3>1. s2 = [s EXCEPT !.state = "ACTIVE", !.out_vc = vc]
      BY <2>5, <2>7
    <3> QED BY <1>3, <2>3, <2>7, <3>1
  <2>8. CASE ends
    <3>1. s2 = [s EXCEPT !.state = "IDLE"]
      BY <2>5, <2>8
    <3> QED BY <2>3, <3>1
  <2>9. CASE ~ starts /\ ~ granted /\ ~ ends
    <3>1. s2 = s
      BY <2>5, <2>9
    <3> QED BY <1>3, <2>2, <2>9, <3>1
  <2> QED BY <2>6, <2>7, <2>8, <2>9
<1>9. \A pkt : FrontIs(buf, e, pkt) /\ s.state # "IDLE" => s.route = XyPort(n, pkt.dest)
  BY DEF RoutesOK, RouteOK
<1> HIDE DEF r, s, s2, buf, new, in, e, e2, pops
<1>10. ASSUME s2.state # "IDLE", NEW pkt, FrontIs(new, e2, pkt)
       PROVE  s2.route = XyPort(n, pkt.dest)
  <2>1. CASE s.state = "IDLE" /\ buf # <<>> /\ s2.route = XyPort(n, buf[1].pkt.dest)
    <3>1. ~ pops
      BY <1>3, <2>1
    <3> QED BY <1>7, <1>10, <2>1, <3>1 DEF FrontIs
  <2>2. CASE s.state # "IDLE" /\ s2.route = s.route /\ ~ pops
    <3>1. CASE buf # <<>>
      <4>1. FrontIs(buf, e, pkt)
        BY <1>7, <1>10, <2>2, <3>1 DEF FrontIs
      <4> QED BY <1>9, <2>2, <4>1
    <3>2. CASE buf = <<>> /\ new # <<>>
      <4>1. e # {}
        BY <1>2, <1>4, <2>2, <3>2 DEF InVcState
      <4>2. OnVc(in, v) /\ in.pkt = pkt
        BY <1>7, <1>10, <2>2, <3>2 DEF FrontIs
      <4>3. e = {<<pkt, in.n>>}
        BY <1>5, <4>1, <4>2 DEF Accepts
      <4>4. FrontIs(buf, e, pkt)
        BY <3>2, <4>3 DEF FrontIs
      <4> QED BY <1>9, <2>2, <4>4
    <3>3. CASE buf = <<>> /\ new = <<>>
      <4>1. FrontIs(buf, e, pkt)
        BY <1>6, <1>10, <2>2, <3>3 DEF FrontIs
      <4> QED BY <1>9, <2>2, <4>1
    <3> QED BY <3>1, <3>2, <3>3
  <2>3. CASE s.state # "IDLE" /\ s2.route = s.route /\ pops /\ ~ IsTail(buf[1])
    <3>1. buf # <<>> /\ After(buf[1]) = {<<buf[1].pkt, buf[1].n + 1>>} /\ After(buf[1]) # {}
      BY <1>3, <2>3 DEF After
    <3>2. NextUp(After(buf[1]), new, e2)
      BY <1>6, <2>3
    <3>3. \E k : After(buf[1]) = {<<pkt, k>>}
      <4>1. CASE new # <<>>
        <5>1. Accepts(After(buf[1]), new[1]) /\ new[1].pkt = pkt
          BY <1>10, <3>2, <4>1 DEF NextUp, FrontIs
        <5> QED BY <3>1, <5>1 DEF Accepts
      <4>2. CASE new = <<>>
        BY <1>10, <3>2, <4>2 DEF NextUp, FrontIs
      <4> QED BY <4>1, <4>2
    <3>4. buf[1].pkt = pkt
      <4>1. PICK k : After(buf[1]) = {<<pkt, k>>}
        BY <3>3
      <4>2. <<buf[1].pkt, buf[1].n + 1>> = <<pkt, k>>
        BY <3>1, <4>1
      <4> QED BY <4>2
    <3>5. FrontIs(buf, e, pkt)
      BY <3>1, <3>4 DEF FrontIs
    <3> QED BY <1>9, <2>3, <3>5
  <2> QED BY <1>8, <1>10, <2>1, <2>2, <2>3
<1> QED BY <1>10 DEF RouteOK, s2, new, e2

-----------------------------------------------------------------------------
(* No tail is in two places.                                               *)

IsTailOf(f, q) == f # None /\ f.pkt = q /\ f.n = q.len

\* Where the tail of a packet can be: with its sender, in the buffer of an
\* input VC, in a register of a link, and out of the mesh.
WithSender        == <<"sender", 0, 0, 0>>
InBuffer(n, p, v) == <<"buffer", n, p, v>>
OnLink(n, port, k) == <<"link", n, port, k>>
Arrived           == <<"out", 0, 0, 0>>

\* W[q]: where the tail of packet q is.  It is nowhere else.
TailsOK(W) ==
  /\ \A n \in Nodes, p \in Ports, v \in VCs : \A k \in 1 .. Len(router[n].buf[p][v]), q \in offered :
       IsTailOf(router[n].buf[p][v][k], q) =>
         /\ W[q] = InBuffer(n, p, v)
         /\ \A j \in 1 .. Len(router[n].buf[p][v]) : IsTailOf(router[n].buf[p][v][j], q) => j = k
  /\ \A n \in Nodes, port \in Ports : Linked(n, port) =>
       \A k \in 1 .. LINK_DELAY, q \in offered :
         IsTailOf(link[n][port].fwd[k], q) => W[q] = OnLink(n, port, k)
  /\ \A q \in offered : sent[q] < q.len => W[q] = WithSender
  /\ \A q \in offered : Service!Delivered(q) => W[q] = Arrived

InboxOK == \A n \in Nodes : inbox[n] \in Seq({Service!Whole(q) : q \in offered})

\* Where the tail goes that leaves router n by "port" on VC w, and where a tail
\* is a clock later.
Onto(n, port, w) ==
  IF port = LOCAL_PORT THEN Arrived
  ELSE IF LINK_DELAY = 0 THEN InBuffer(Neighbor(n, port), Opposite[port], w)
  ELSE OnLink(n, port, 1)

LeavesBuffer(at, q) ==
  /\ at[1] = "buffer"
  /\ at[4] \in Now(router[at[2]]).pop[at[3]]
  /\ IsTailOf(router[at[2]].buf[at[3]][at[4]][1], q)

Goes(at, q, hold) ==
  IF Tx(q.src, hold) = [pkt |-> q, n |-> q.len, vc |-> q.vc]
  THEN InBuffer(q.src, LOCAL_PORT, q.vc)
  ELSE IF LeavesBuffer(at, q)
  THEN Onto(at[2], router[at[2]].vc[at[3]][at[4]].route, router[at[2]].vc[at[3]][at[4]].out_vc)
  ELSE IF at[1] = "link"
  THEN IF at[4] = LINK_DELAY
       THEN InBuffer(Neighbor(at[2], at[3]), Opposite[at[3]], link[at[2]][at[3]].fwd[LINK_DELAY].vc)
       ELSE OnLink(at[2], at[3], at[4] + 1)
  ELSE at

AllGo(W, X, hold) == \A q \in offered : X[q] = Goes(W[q], q, hold)

\* A queue holds a tail of T once; a is no second one.
LEMMA QueueTails ==
  ASSUME NEW S, NEW buf \in Seq(S), NEW T, NEW pops \in BOOLEAN, pops => buf # <<>>,
         NEW a, NEW v, OnVc(a, v) => a \in S,
         \A j, k \in 1 .. Len(buf) : buf[j] \in T /\ buf[k] \in T => j = k,
         OnVc(a, v) /\ a \in T => \A k \in 1 .. Len(buf) : buf[k] \notin T
  PROVE  LET new == QueueNext(buf, pops, a, v) IN
         /\ \A j, k \in 1 .. Len(new) : new[j] \in T /\ new[k] \in T => j = k
         /\ \A k \in 1 .. Len(new) : new[k] \in T =>
              \/ OnVc(a, v) /\ a \in T
              \/ /\ \E j \in 1 .. Len(buf) : buf[j] \in T
                 /\ ~ (pops /\ buf[1] \in T)
<1> DEFINE popped == IF pops THEN Tail(buf) ELSE buf
           d == IF pops THEN 1 ELSE 0
<1>1. /\ popped \in Seq(S) /\ Len(popped) = Len(buf) - d
      /\ \A k \in 1 .. Len(popped) : popped[k] = buf[k + d] /\ k + d \in 1 .. Len(buf)
      /\ d \in {0, 1} /\ (pops => d = 1 /\ 1 \in 1 .. Len(buf))
  <2>1. CASE pops
    <3>1. /\ Tail(buf) \in Seq(S) /\ Len(Tail(buf)) = Len(buf) - 1
          /\ \A k \in 1 .. Len(buf) - 1 : Tail(buf)[k] = buf[k + 1]
          /\ Len(buf) \in Nat \ {0}
      BY <2>1
    <3> QED BY <2>1, <3>1
  <2>2. CASE ~ pops
    BY <2>2
  <2> QED BY <2>1, <2>2
<1> HIDE DEF popped, d
<1>2. \A j, k \in 1 .. Len(popped) : popped[j] \in T /\ popped[k] \in T => j = k
  <2> SUFFICES ASSUME NEW j \in 1 .. Len(popped), NEW k \in 1 .. Len(popped),
                      popped[j] \in T, popped[k] \in T
               PROVE  j = k
    OBVIOUS
  <2>1. j + d = k + d
    BY <1>1
  <2> QED BY <1>1, <2>1
<1>3. \A k \in 1 .. Len(popped) : popped[k] \in T =>
        (\E j \in 1 .. Len(buf) : buf[j] \in T) /\ ~ (pops /\ buf[1] \in T)
  <2> SUFFICES ASSUME NEW k \in 1 .. Len(popped), popped[k] \in T
               PROVE  (\E j \in 1 .. Len(buf) : buf[j] \in T) /\ ~ (pops /\ buf[1] \in T)
    OBVIOUS
  <2>1. k + d \in 1 .. Len(buf) /\ buf[k + d] \in T
    BY <1>1
  <2>2. ASSUME pops, buf[1] \in T PROVE FALSE
    <3>1. k + d = 1 /\ d = 1
      BY <1>1, <2>1, <2>2
    <3> QED BY <3>1
  <2> QED BY <2>1, <2>2
<1>4. CASE ~ OnVc(a, v)
  <2>1. QueueNext(buf, pops, a, v) = popped
    BY <1>4 DEF QueueNext, popped
  <2> QED BY <1>2, <1>3, <2>1
<1>5. CASE OnVc(a, v)
  <2> DEFINE new == Append(popped, a)
  <2>1. QueueNext(buf, pops, a, v) = new
    BY <1>5 DEF QueueNext, popped
  <2>2. /\ Len(new) = Len(popped) + 1 /\ new[Len(popped) + 1] = a /\ Len(popped) \in Nat
        /\ \A k \in 1 .. Len(popped) : new[k] = popped[k]
        /\ \A k \in 1 .. Len(new) : k = Len(popped) + 1 \/ k \in 1 .. Len(popped)
    BY <1>1, <1>5
  <2> HIDE DEF new
  <2>3. a \in T => \A k \in 1 .. Len(popped) : popped[k] \notin T
    BY <1>1, <1>5
  <2>4. \A j, k \in 1 .. Len(new) : new[j] \in T /\ new[k] \in T => j = k
    BY <1>2, <2>2, <2>3
  <2>5. \A k \in 1 .. Len(new) : new[k] \in T =>
          a \in T \/ ((\E j \in 1 .. Len(buf) : buf[j] \in T) /\ ~ (pops /\ buf[1] \in T))
    BY <1>3, <2>2
  <2> QED BY <1>5, <2>1, <2>4, <2>5
<1> QED BY <1>4, <1>5

\* The sender of a tail had it, and it goes to the router.
LEMMA TxTail ==
  ASSUME MeshInv, NEW W, TailsOK(W), NEW hold, NEW n \in Nodes,
         NEW q \in offered, IsTailOf(Tx(n, hold), q)
  PROVE  /\ q.src = n /\ sent[q] + 1 = q.len /\ W[q] = WithSender
         /\ Tx(n, hold) = [pkt |-> q, n |-> q.len, vc |-> q.vc]
         /\ Tx(n, hold).vc = q.vc
<1>1. PICK p \in MaySend(n) : Tx(n, hold) = [pkt |-> p, n |-> sent[p] + 1, vc |-> p.vc]
  BY TxIs DEF IsTailOf, MeshInv
<1>2. p = q /\ sent[q] + 1 = q.len
  BY <1>1 DEF IsTailOf
<1>3. q.src = n /\ sent[q] < q.len
  BY <1>1, <1>2 DEF MaySend
<1>4. W[q] = WithSender
  BY <1>3 DEF TailsOK
<1> QED BY <1>1, <1>2, <1>3, <1>4

\* A tail that is not with its sender is not sent by it.
LEMMA TailStays ==
  ASSUME MeshInv, NEW W, TailsOK(W), NEW hold, NEW q \in offered, W[q] # WithSender
  PROVE  Tx(q.src, hold) # [pkt |-> q, n |-> q.len, vc |-> q.vc]
<1> SUFFICES ASSUME Tx(q.src, hold) = [pkt |-> q, n |-> q.len, vc |-> q.vc] PROVE FALSE
  OBVIOUS
<1>1. q \in Packets /\ q.src \in Nodes /\ q.len \in Nat /\ q.vc \in VCs
  BY MeshAssumption DEF MeshInv, RunOK
<1>2. [pkt |-> q, n |-> q.len, vc |-> q.vc] # None
  BY <1>1, MeshAssumption
<1>3. IsTailOf(Tx(q.src, hold), q)
  BY <1>2 DEF IsTailOf
<1> QED BY <1>1, <1>3, TxTail

\* The tail a router sends leaves one of its buffers.
LEMMA SentTail ==
  ASSUME MeshInv, NEW W, TailsOK(W), NEW hold, NEW X, AllGo(W, X, hold),
         NEW n \in Nodes, NEW port \in Ports, NEW q \in offered, IsTailOf(Sent(n, port), q)
  PROVE  /\ \E p \in Ports, v \in VCs : W[q] = InBuffer(n, p, v)
         /\ X[q] = Onto(n, port, Sent(n, port).vc)
<1> DEFINE r == router[n]
           w == Sent(n, port).vc
<1>1. RouterOK(r, Flits) /\ FlitSet(Flits)
  BY FlitsAre DEF MeshInv, RoutersOK
<1>2. w \in VCs /\ OnVc(Sent(n, port), w)
  BY SentIsFlit DEF IsTailOf
<1>3. PICK p \in Ports, v \in VCs : Sends(r, p, v, port, w)
  <2> HIDE DEF w
  <2>1. OnVc(Now(r).out_fwd[port], w)
    BY <1>2 DEF Sent
  <2> HIDE DEF r
  <2> QED BY <1>1, <1>2, <2>1, SentIsPopped
<1> DEFINE buf == r.buf[p][v]
<1>4. buf \in Seq(Flits) /\ buf # <<>> /\ v \in Now(r).pop[p]
  BY <1>1, <1>3 DEF RouterOK, Sends
<1>5. /\ Head(buf) = buf[1] /\ 1 \in 1 .. Len(buf) /\ buf[1] \in Flits
  <2> HIDE DEF buf
  <2> QED BY <1>4
<1>6. buf[1].pkt = Sent(n, port).pkt /\ buf[1].n = Sent(n, port).n
  BY <1>3, <1>5 DEF Sends, Sent
<1>7. IsTailOf(buf[1], q)
  BY <1>1, <1>5, <1>6 DEF IsTailOf, FlitSet
<1>8. W[q] = InBuffer(n, p, v)
  BY <1>5, <1>7 DEF TailsOK
<1>9. W[q] # WithSender
  BY <1>8 DEF InBuffer, WithSender
<1>10. X[q] = Onto(n, r.vc[p][v].route, r.vc[p][v].out_vc)
  <2>1. LeavesBuffer(W[q], q)
    BY <1>4, <1>7, <1>8 DEF LeavesBuffer, InBuffer
  <2>2. W[q][2] = n /\ W[q][3] = p /\ W[q][4] = v
    BY <1>8 DEF InBuffer
  <2>3. Tx(q.src, hold) # [pkt |-> q, n |-> q.len, vc |-> q.vc]
    BY <1>9, TailStays
  <2>4. X[q] = Onto(W[q][2], router[W[q][2]].vc[W[q][3]][W[q][4]].route,
                    router[W[q][2]].vc[W[q][3]][W[q][4]].out_vc)
    BY <2>1, <2>3 DEF AllGo, Goes
  <2> QED BY <2>2, <2>4
<1>11. r.vc[p][v].route = port /\ r.vc[p][v].out_vc = w
  BY <1>3 DEF Sends
<1> QED BY <1>8, <1>10, <1>11

\* Where a tail is that does not leave a buffer: as before, or one place on.
LEMMA TailMoves ==
  ASSUME MeshInv, NEW W, TailsOK(W), NEW hold, NEW X, AllGo(W, X, hold), NEW q \in offered,
         NEW n \in Nodes, NEW port \in Ports
  PROVE  /\ \A v \in VCs :
              /\ W[q] = InBuffer(n, port, v)
              /\ ~ (v \in Now(router[n]).pop[port] /\ IsTailOf(router[n].buf[port][v][1], q))
              => X[q] = W[q]
         /\ \A k : W[q] = OnLink(n, port, k) =>
              X[q] = IF k = LINK_DELAY
                     THEN InBuffer(Neighbor(n, port), Opposite[port], link[n][port].fwd[LINK_DELAY].vc)
                     ELSE OnLink(n, port, k + 1)
         /\ W[q] = Arrived => X[q] = Arrived
<1>1. X[q] = Goes(W[q], q, hold)
  BY DEF AllGo
<1>2. W[q] # WithSender => Tx(q.src, hold) # [pkt |-> q, n |-> q.len, vc |-> q.vc]
  BY TailStays
<1>3. ASSUME NEW v \in VCs, W[q] = InBuffer(n, port, v),
             ~ (v \in Now(router[n]).pop[port] /\ IsTailOf(router[n].buf[port][v][1], q))
      PROVE  X[q] = W[q]
  <2>1. /\ W[q] # WithSender /\ W[q][1] # "link"
        /\ W[q][2] = n /\ W[q][3] = port /\ W[q][4] = v
    BY <1>3 DEF InBuffer, WithSender
  <2>2. ~ LeavesBuffer(W[q], q)
    BY <1>3, <2>1 DEF LeavesBuffer
  <2> QED BY <1>1, <1>2, <2>1, <2>2 DEF Goes
<1>4. ASSUME NEW k, W[q] = OnLink(n, port, k)
      PROVE  X[q] = IF k = LINK_DELAY
                    THEN InBuffer(Neighbor(n, port), Opposite[port], link[n][port].fwd[LINK_DELAY].vc)
                    ELSE OnLink(n, port, k + 1)
  <2>1. /\ W[q] # WithSender /\ W[q][1] = "link" /\ W[q][1] # "buffer"
        /\ W[q][2] = n /\ W[q][3] = port /\ W[q][4] = k
    BY <1>4 DEF OnLink, WithSender
  <2>2. ~ LeavesBuffer(W[q], q)
    BY <2>1 DEF LeavesBuffer
  <2> QED BY <1>1, <1>2, <2>1, <2>2 DEF Goes
<1>5. ASSUME W[q] = Arrived PROVE X[q] = Arrived
  <2>1. W[q] # WithSender /\ W[q][1] = "out" /\ W[q][1] # "link" /\ W[q][1] # "buffer"
    BY <1>5 DEF Arrived, WithSender
  <2>2. ~ LeavesBuffer(W[q], q)
    BY <2>1 DEF LeavesBuffer
  <2> QED BY <1>1, <1>2, <1>5, <2>1, <2>2 DEF Goes
<1> QED BY <1>3, <1>4, <1>5

\* The tail that comes out of a link goes to the buffer at its end.
LEMMA CameTail ==
  ASSUME MeshInv, NEW W, TailsOK(W), NEW hold, NEW X, AllGo(W, X, hold),
         NEW n \in Nodes, NEW port \in Ports, Linked(n, port), NEW q \in offered,
         IsTailOf(Came(n, port), q), NEW v \in VCs
  PROVE  /\ X[q] = InBuffer(Neighbor(n, port), Opposite[port], Came(n, port).vc)
         /\ W[q] # InBuffer(Neighbor(n, port), Opposite[port], v)
<1>1. LINK_DELAY \in Nat
  BY MeshAssumption
<1>2. CASE LINK_DELAY = 0
  <2>1. Came(n, port) = Sent(n, port)
    BY <1>2 DEF Came, Out
  <2>2. PICK p \in Ports, u \in VCs : W[q] = InBuffer(n, p, u)
    BY <2>1, SentTail
  <2>3. X[q] = Onto(n, port, Came(n, port).vc)
    BY <2>1, SentTail
  <2>4. port # LOCAL_PORT
    BY DEF Linked
  <2>5. Neighbor(n, port) # n
    <3>1. n[1] \in Int /\ n[2] \in Int
      BY MeshAssumption DEF Nodes
    <3>2. port \in {NORTH, SOUTH, WEST, EAST}
      BY <2>4 DEF Ports, LOCAL_PORT, NORTH, SOUTH, WEST, EAST
    <3>3. Neighbor(n, port)[1] # n[1] \/ Neighbor(n, port)[2] # n[2]
      BY <3>1, <3>2 DEF Neighbor, NORTH, SOUTH, WEST, EAST
    <3> QED BY <3>3
  <2>6. W[q][2] = n /\ InBuffer(Neighbor(n, port), Opposite[port], v)[2] = Neighbor(n, port)
    BY <2>2 DEF InBuffer
  <2> QED BY <1>2, <2>3, <2>4, <2>5, <2>6 DEF Onto
<1>3. CASE LINK_DELAY # 0
  <2>1. Came(n, port) = link[n][port].fwd[LINK_DELAY] /\ LINK_DELAY \in 1 .. LINK_DELAY
    BY <1>1, <1>3 DEF Came, Out
  <2>2. W[q] = OnLink(n, port, LINK_DELAY)
    BY <2>1 DEF TailsOK
  <2>3. X[q] = InBuffer(Neighbor(n, port), Opposite[port], Came(n, port).vc)
    BY <2>1, <2>2, TailMoves
  <2>4. W[q][1] = "link" /\ InBuffer(Neighbor(n, port), Opposite[port], v)[1] = "buffer"
    BY <2>2 DEF OnLink, InBuffer
  <2> QED BY <2>3, <2>4
<1> QED BY <1>2, <1>3

\* The tail that comes into a buffer was not there.
LEMMA InTail ==
  ASSUME MeshInv, NEW W, TailsOK(W), NEW hold, NEW X, AllGo(W, X, hold),
         NEW n \in Nodes, NEW p \in Ports, NEW v \in VCs, NEW q \in offered,
         OnVc(InFwd(AllWires, n, Tx(n, hold))[p], v),
         IsTailOf(InFwd(AllWires, n, Tx(n, hold))[p], q)
  PROVE  W[q] # InBuffer(n, p, v) /\ X[q] = InBuffer(n, p, v)
<1> DEFINE in == InFwd(AllWires, n, Tx(n, hold))[p]
<1>1. in # None /\ in.vc = v
  BY DEF OnVc
<1>2. CASE p = LOCAL_PORT
  <2>1. in = Tx(n, hold)
    BY <1>2, WiresIn
  <2>2. /\ q.src = n /\ W[q] = WithSender /\ Tx(n, hold).vc = q.vc
        /\ Tx(n, hold) = [pkt |-> q, n |-> q.len, vc |-> q.vc]
    BY <2>1, TxTail
  <2>3. q.vc = v
    BY <1>1, <2>1, <2>2
  <2>4. X[q] = InBuffer(n, p, v)
    BY <1>2, <2>2, <2>3 DEF AllGo, Goes
  <2>5. W[q][1] = "sender" /\ InBuffer(n, p, v)[1] = "buffer"
    BY <2>2 DEF WithSender, InBuffer
  <2> QED BY <2>4, <2>5
<1>3. CASE p # LOCAL_PORT /\ ~ Linked(n, p)
  BY <1>1, <1>3, WiresIn
<1>4. CASE Linked(n, p)
  <2> DEFINE m == Neighbor(n, p)
             at == Opposite[p]
  <2>1. m \in Nodes /\ at \in Ports /\ Linked(m, at) /\ Neighbor(m, at) = n /\ Opposite[at] = p
    BY <1>4, NeighborBack
  <2>2. in = Came(m, at)
    BY <1>4, WiresIn
  <2>3. IsTailOf(in, q)
    OBVIOUS
  <2> HIDE DEF in, m, at
  <2>4. /\ X[q] = InBuffer(Neighbor(m, at), Opposite[at], Came(m, at).vc)
        /\ W[q] # InBuffer(Neighbor(m, at), Opposite[at], v)
    BY <2>1, <2>2, <2>3, CameTail
  <2> QED BY <1>1, <2>1, <2>2, <2>4
<1> QED BY <1>2, <1>3, <1>4

\* So a buffer holds no tail that is elsewhere, or twice.
LEMMA BufferTails ==
  ASSUME MeshInv, NEW W, TailsOK(W), NEW hold, NEW keep, Clocked(hold, keep),
         NEW X, AllGo(W, X, hold),
         NEW n \in Nodes, NEW p \in Ports, NEW v \in VCs, NEW q \in offered
  PROVE  LET new == router'[n].buf[p][v] IN
         \A k \in 1 .. Len(new) : IsTailOf(new[k], q) =>
           /\ X[q] = InBuffer(n, p, v)
           /\ \A j \in 1 .. Len(new) : IsTailOf(new[j], q) => j = k
<1> DEFINE r   == router[n]
           buf == r.buf[p][v]
           new == router'[n].buf[p][v]
           in  == InFwd(AllWires, n, Tx(n, hold))[p]
           pops == v \in Now(r).pop[p]
           T == {f \in Flits : IsTailOf(f, q)}
<1>1. RouterOK(r, Flits) /\ FlitSet(Flits)
  BY FlitsAre DEF MeshInv, RoutersOK
<1>2. buf \in Seq(Flits) /\ pops \in BOOLEAN
  BY <1>1 DEF RouterOK
<1>3. pops => buf # <<>>
  <2>1. ASSUME pops PROVE Sends(r, p, v, r.vc[p][v].route, r.vc[p][v].out_vc)
    BY <1>1, <2>1, PopSends
  <2> QED BY <2>1 DEF Sends
<1>4. OnVc(in, v) => in \in Flits
  <2>1. in \in Flits \cup {None}
    BY FlitsComeIn DEF MeshInv
  <2> HIDE DEF in
  <2> QED BY <2>1 DEF OnVc
<1>5. new = QueueNext(buf, pops, in, v)
  BY BufAfterIs
<1>6. \A k \in 1 .. Len(buf) : buf[k] \in T =>
        W[q] = InBuffer(n, p, v) /\ \A j \in 1 .. Len(buf) : buf[j] \in T => j = k
  BY DEF TailsOK
<1>7. OnVc(in, v) /\ in \in T => W[q] # InBuffer(n, p, v) /\ X[q] = InBuffer(n, p, v)
  BY InTail
<1>8. W[q] = InBuffer(n, p, v) /\ ~ (pops /\ buf[1] \in T) => X[q] = InBuffer(n, p, v)
  <2>1. pops => buf[1] \in Flits
    <3> HIDE DEF buf, pops
    <3> QED BY <1>2, <1>3
  <2> QED BY <2>1, TailMoves
<1>9. new \in Seq(Flits)
  <2>1. RouterOK(r, Flits) /\ in \in Flits \cup {None}
    BY <1>1, FlitsComeIn DEF MeshInv
  <2>2. new = BufNext(r, Now(r), p, v, in)
    BY RegsAfter
  <2> HIDE DEF r, in, new
  <2> QED BY <2>1, <2>2, BufStep
<1>10. \A f \in Flits : f \in T <=> IsTailOf(f, q)
  OBVIOUS
<1> HIDE DEF r, buf, new, in, pops, T
<1>11. OnVc(in, v) /\ in \in T => \A k \in 1 .. Len(buf) : buf[k] \notin T
  BY <1>6, <1>7
<1>12. /\ \A j, k \in 1 .. Len(new) : new[j] \in T /\ new[k] \in T => j = k
       /\ \A k \in 1 .. Len(new) : new[k] \in T =>
            \/ OnVc(in, v) /\ in \in T
            \/ /\ \E j \in 1 .. Len(buf) : buf[j] \in T
               /\ ~ (pops /\ buf[1] \in T)
  <2>1. \A j, k \in 1 .. Len(buf) : buf[j] \in T /\ buf[k] \in T => j = k
    BY <1>6
  <2> QED BY <1>2, <1>3, <1>4, <1>5, <1>11, <2>1, QueueTails
<1>13. \A k \in 1 .. Len(new) : new[k] \in T => X[q] = InBuffer(n, p, v)
  BY <1>6, <1>7, <1>8, <1>12
<1>14. \A k \in 1 .. Len(new) : new[k] \in Flits
  BY <1>9
<1>15. \A k \in 1 .. Len(new) : IsTailOf(new[k], q) =>
           /\ X[q] = InBuffer(n, p, v)
           /\ \A j \in 1 .. Len(new) : IsTailOf(new[j], q) => j = k
  BY <1>10, <1>12, <1>13, <1>14
<1> QED BY <1>15 DEF new

\* The same for the registers of a link.
LEMMA LinkTails ==
  ASSUME MeshInv, NEW W, TailsOK(W), NEW hold, NEW keep, Clocked(hold, keep),
         NEW X, AllGo(W, X, hold),
         NEW n \in Nodes, NEW port \in Ports, Linked(n, port),
         NEW k \in 1 .. LINK_DELAY, NEW q \in offered, IsTailOf(link'[n][port].fwd[k], q)
  PROVE  X[q] = OnLink(n, port, k)
<1>1. LINK_DELAY \in Nat /\ LINK_DELAY # 0 /\ k \in Int
  BY MeshAssumption
<1>2. link'[n][port].fwd = Shift(link[n][port].fwd, Sent(n, port))
  BY LinkAfter
<1>3. link'[n][port].fwd[k] = IF k = 1 THEN Sent(n, port) ELSE link[n][port].fwd[k - 1]
  BY <1>2 DEF Shift
<1>4. CASE k = 1
  <2>1. X[q] = Onto(n, port, Sent(n, port).vc)
    BY <1>3, <1>4, SentTail
  <2> QED BY <1>1, <1>4, <2>1 DEF Onto, Linked
<1>5. CASE k # 1
  <2>1. k - 1 \in 1 .. LINK_DELAY /\ k - 1 # LINK_DELAY /\ (k - 1) + 1 = k
    BY <1>1, <1>5
  <2>2. W[q] = OnLink(n, port, k - 1)
    BY <1>3, <1>5, <2>1 DEF TailsOK
  <2> QED BY <2>1, <2>2, TailMoves
<1> QED BY <1>4, <1>5

\* A sender keeps the tails it does not send.
LEMMA SenderTails ==
  ASSUME MeshInv, NEW W, TailsOK(W), NEW hold, NEW keep, Clocked(hold, keep),
         NEW X, AllGo(W, X, hold), NEW q \in offered, sent'[q] < q.len
  PROVE  X[q] = WithSender
<1> DEFINE f == [pkt |-> q, n |-> sent[q] + 1, vc |-> q.vc]
           last == [pkt |-> q, n |-> q.len, vc |-> q.vc]
<1>1. q \in Packets /\ q.src \in Nodes /\ q.len \in Nat /\ sent[q] \in 0 .. q.len /\ q.vc \in VCs
  BY MeshAssumption DEF MeshInv, RunOK
<1>2. /\ Tx(q.src, hold) = f => sent'[q] = sent[q] + 1
      /\ Tx(q.src, hold) # f => sent'[q] = sent[q]
  BY <1>1, SentAfter DEF MeshInv
<1>3. sent[q] < q.len
  <2> HIDE DEF f
  <2> QED BY <1>1, <1>2
<1>4. W[q] = WithSender
  BY <1>3 DEF TailsOK
<1>5. Tx(q.src, hold) # last
  <2> SUFFICES ASSUME Tx(q.src, hold) = last PROVE FALSE
    OBVIOUS
  <2>1. last # None
    BY <1>1, MeshAssumption
  <2>2. IsTailOf(Tx(q.src, hold), q)
    BY <2>1 DEF IsTailOf
  <2>3. sent[q] + 1 = q.len
    BY <1>1, <2>2, TxTail
  <2> QED BY <1>1, <1>2, <2>3
<1>6. W[q][1] = "sender" /\ W[q][1] # "buffer" /\ W[q][1] # "link"
  BY <1>4 DEF WithSender
<1>7. X[q] = W[q]
  BY <1>5, <1>6 DEF AllGo, Goes, LeavesBuffer
<1> QED BY <1>4, <1>7

\* What a local port brings to its node.
LEMMA WholeComesOut ==
  ASSUME MeshInv, NEW G, PacketsOK(G), PartsOK(G), RoutesOK(G), NEW W, TailsOK(W),
         NEW hold, NEW keep, Clocked(hold, keep), NEW n \in Nodes
  PROVE  LET out == Sent(n, LOCAL_PORT) IN
         \/ inbox'[n] = inbox[n] /\ \A q \in offered : ~ IsTailOf(out, q)
         \/ /\ out.pkt \in offered /\ IsTailOf(out, out.pkt)
            /\ out.pkt.dest = n /\ ~ Service!Delivered(out.pkt)
            /\ inbox'[n] = Append(inbox[n], Service!Whole(out.pkt))
<1> DEFINE out == Sent(n, LOCAL_PORT)
           a   == assembling[n][out.vc]
           q   == out.pkt
           r   == router[n]
<1>1. LOCAL_PORT \in Ports
  BY DEF LOCAL_PORT, Ports
<1>2. inbox'[n] = IF out = None THEN inbox[n]
                  ELSE IF IsTail(out) THEN Append(inbox[n], Append(a, <<out.pkt, out.n>>)) ELSE inbox[n]
  BY NodeAfter DEF InboxNext
<1>3. CASE out = None \/ ~ IsTail(out)
  <2>1. inbox'[n] = inbox[n]
    BY <1>2, <1>3
  <2> QED BY <1>3, <2>1 DEF IsTailOf, IsTail
<1>4. CASE out # None /\ IsTail(out)
  <2>1. /\ out.vc \in VCs /\ OnVc(out, out.vc)
        /\ out.n \in Nat \ {0} /\ out.pkt \in offered
    BY <1>1, <1>4, SentIsFlit
  <2>2. IsTailOf(out, out.pkt) /\ out.n = out.pkt.len
    BY <1>4 DEF IsTailOf, IsTail
  <2>3. Append(a, <<out.pkt, out.n>>) = [j \in 1 .. out.n |-> <<out.pkt, j>>]
    <3> DEFINE g == G[n][LOCAL_PORT][out.vc][0]
    <3>1. Accepts(g, out)
      BY <1>1, <2>1, SentIsDue
    <3>2. PartOf(g, a)
      BY <2>1 DEF PartsOK
    <3>3. out.n \in Nat \ {0}
      BY <2>1
    <3> HIDE DEF a, out, g
    <3>4. /\ Append(a, <<out.pkt, out.n>>) = [j \in 1 .. out.n |-> <<out.pkt, j>>]
          /\ PartOf(After(out), IF IsTail(out) THEN <<>> ELSE Append(a, <<out.pkt, out.n>>))
      BY <3>1, <3>2, <3>3, PartGrows
    <3> QED BY <3>4
  <2>4. inbox'[n] = Append(inbox[n], Service!Whole(out.pkt))
    BY <1>2, <1>4, <2>2, <2>3 DEF Service!Whole
  <2>5. ~ Service!Delivered(out.pkt)
    <3> SUFFICES ASSUME Service!Delivered(out.pkt) PROVE FALSE
      OBVIOUS
    <3>1. W[q] = Arrived
      BY <2>1 DEF TailsOK
    <3>2. AllGo(W, [x \in offered |-> Goes(W[x], x, hold)], hold)
      BY DEF AllGo
    <3>3. \E p \in Ports, v \in VCs : W[q] = InBuffer(n, p, v)
      BY <1>1, <2>1, <2>2, <3>2, SentTail
    <3> QED BY <3>1, <3>3 DEF Arrived, InBuffer
  <2>6. out.pkt.dest = n
    <3>1. RouterOK(r, Flits) /\ FlitSet(Flits)
      BY FlitsAre DEF MeshInv, RoutersOK
    <3>2. PICK p \in Ports, v \in VCs : Sends(r, p, v, LOCAL_PORT, out.vc)
      <4> DEFINE w == out.vc
      <4>1. OnVc(Now(r).out_fwd[LOCAL_PORT], w)
        BY <2>1 DEF Sent
      <4> HIDE DEF w, r
      <4>2. w \in VCs
        BY <2>1 DEF w
      <4>3. \E p \in Ports, v \in VCs : Sends(r, p, v, LOCAL_PORT, w)
        BY <1>1, <3>1, <4>1, <4>2, SentIsPopped
      <4> QED BY <4>3 DEF w, r
    <3> DEFINE buf == r.buf[p][v]
    <3>3. /\ r.vc[p][v].state = "ACTIVE" /\ r.vc[p][v].route = LOCAL_PORT
          /\ buf # <<>> /\ out.pkt = Head(buf).pkt
      BY <3>2 DEF Sends, Sent
    <3>4. buf \in Seq(Flits)
      BY <3>1 DEF RouterOK
    <3>5. Head(buf) = buf[1]
      <4> HIDE DEF buf
      <4> QED BY <3>3, <3>4
    <3>6. FrontIs(buf, Expected(G, n, p, v), out.pkt)
      BY <3>3, <3>5 DEF FrontIs
    <3>7. r.vc[p][v].route = XyPort(n, out.pkt.dest)
      BY <3>3, <3>6 DEF RoutesOK, RouteOK
    <3>8. out.pkt.dest \in Nodes
      BY <2>1, MeshAssumption DEF MeshInv, RunOK
    <3> HIDE DEF out
    <3> QED BY <3>3, <3>7, <3>8, RouteLeadsHome
  <2> QED BY <2>1, <2>2, <2>4, <2>5, <2>6
<1> QED BY <1>3, <1>4

\* What is in the mesh comes out only where it goes to, whole, and once.
LEMMA InboxTails ==
  ASSUME MeshInv, NEW G, PacketsOK(G), PartsOK(G), RoutesOK(G), NEW W, TailsOK(W), InboxOK,
         NEW hold, NEW keep, Clocked(hold, keep), NEW X, AllGo(W, X, hold),
         NEW q \in offered, Service!Delivered(q)'
  PROVE  X[q] = Arrived
<1> DEFINE n   == q.dest
           out == Sent(n, LOCAL_PORT)
           whole == Service!Whole(out.pkt)
           All == {Service!Whole(x) : x \in offered}
<1>1. n \in Nodes /\ q.len \in Nat \ {0} /\ LOCAL_PORT \in Ports
  BY MeshAssumption DEF MeshInv, RunOK, LOCAL_PORT, Ports
<1>2. PICK k \in DOMAIN inbox'[n] : inbox'[n][k] = Service!Whole(q)
  BY DEF Service!Delivered, Service!Whole
<1>3. CASE Service!Delivered(q)
  <2>1. W[q] = Arrived
    BY <1>3 DEF TailsOK
  <2> QED BY <1>1, <2>1, TailMoves
<1>4. CASE ~ Service!Delivered(q)
  <2>1. inbox'[n] # inbox[n]
    BY <1>2, <1>4 DEF Service!Delivered
  <2>2. /\ out.pkt \in offered /\ IsTailOf(out, out.pkt)
        /\ inbox'[n] = Append(inbox[n], whole)
    BY <1>1, <2>1, WholeComesOut
  <2>3. inbox[n] \in Seq(All) /\ whole \in All
    BY <1>1, <2>2 DEF InboxOK
  <2>4. whole = Service!Whole(q)
    <3> DEFINE box == inbox[n]
               w2  == Service!Whole(q)
    <3>1. ~ \E j \in DOMAIN box : box[j] = w2
      BY <1>4 DEF Service!Delivered
    <3>2. box \in Seq(All) /\ whole \in All /\ k \in DOMAIN Append(box, whole) /\ Append(box, whole)[k] = w2
      BY <1>2, <2>2, <2>3
    <3> HIDE DEF box, w2, whole, All
    <3>3. k \in 1 .. Len(box) + 1 /\ Len(box) \in Nat /\ DOMAIN box = 1 .. Len(box)
      BY <3>2
    <3>4. k = Len(box) + 1
      BY <3>1, <3>2, <3>3
    <3>5. Append(box, whole)[Len(box) + 1] = whole
      BY <3>2
    <3> QED BY <3>2, <3>4, <3>5 DEF w2
  <2>5. out.pkt = q
    <3>1. q.len \in Nat \ {0} /\ out.pkt.len \in Nat \ {0}
      BY <2>2, MeshAssumption DEF MeshInv, RunOK
    <3>2. [j \in 1 .. out.pkt.len |-> <<out.pkt, j>>] = [j \in 1 .. q.len |-> <<q, j>>]
      BY <2>4 DEF Service!Whole
    <3>3. [j \in 1 .. out.pkt.len |-> <<out.pkt, j>>][1] = <<out.pkt, 1>>
          /\ [j \in 1 .. q.len |-> <<q, j>>][1] = <<q, 1>>
      BY <3>1
    <3>4. <<out.pkt, 1>> = <<q, 1>>
      BY <3>2, <3>3
    <3> QED BY <3>4
  <2>6. X[q] = Onto(n, LOCAL_PORT, out.vc)
    BY <1>1, <2>2, <2>5, SentTail
  <2> QED BY <2>6 DEF Onto
<1> QED BY <1>3, <1>4

\* The tails go where they are said to, and what came out is whole.
LEMMA TailsStep ==
  ASSUME MeshInv, NEW G, PacketsOK(G), PartsOK(G), RoutesOK(G), NEW W, TailsOK(W), InboxOK,
         NEW hold, NEW keep, Clocked(hold, keep), NEW X, AllGo(W, X, hold)
  PROVE  TailsOK(X)' /\ InboxOK'
<1>1. offered' = offered
  BY DEF Clocked, ClockWith
<1>2. \A n \in Nodes, p \in Ports, v \in VCs : \A k \in 1 .. Len(router'[n].buf[p][v]), q \in offered :
        IsTailOf(router'[n].buf[p][v][k], q) =>
          /\ X[q] = InBuffer(n, p, v)
          /\ \A j \in 1 .. Len(router'[n].buf[p][v]) : IsTailOf(router'[n].buf[p][v][j], q) => j = k
  BY BufferTails
<1>3. \A n \in Nodes, port \in Ports : Linked(n, port) =>
        \A k \in 1 .. LINK_DELAY, q \in offered :
          IsTailOf(link'[n][port].fwd[k], q) => X[q] = OnLink(n, port, k)
  BY LinkTails
<1>4. \A q \in offered : sent'[q] < q.len => X[q] = WithSender
  BY SenderTails
<1>5. \A q \in offered : Service!Delivered(q)' => X[q] = Arrived
  BY InboxTails
<1>6. TailsOK(X)'
  BY <1>1, <1>2, <1>3, <1>4, <1>5 DEF TailsOK
<1>7. ASSUME NEW n \in Nodes PROVE inbox'[n] \in Seq({Service!Whole(q) : q \in offered})
  <2> DEFINE All == {Service!Whole(q) : q \in offered}
             out == Sent(n, LOCAL_PORT)
  <2>1. inbox[n] \in Seq(All)
    BY DEF InboxOK
  <2>2. \/ inbox'[n] = inbox[n]
        \/ out.pkt \in offered /\ inbox'[n] = Append(inbox[n], Service!Whole(out.pkt))
    BY WholeComesOut
  <2>3. out.pkt \in offered => Service!Whole(out.pkt) \in All
    OBVIOUS
  <2> HIDE DEF All, out
  <2>4. inbox'[n] \in Seq(All)
    BY <2>1, <2>2, <2>3
  <2> QED BY <2>4 DEF All
<1>8. InboxOK'
  <2>1. {Service!Whole(q) : q \in offered}' = {Service!Whole(q) : q \in offered}
    BY <1>1 DEF Service!Whole
  <2> QED BY <1>7, <2>1 DEF InboxOK
<1> QED BY <1>6, <1>8

\* Everything that has to be known of the packets on their way.
WayInv ==
  \E G, W : /\ PacketsOK(G) /\ PartsOK(G) /\ RoutesOK(G)
            /\ TailsOK(W) /\ InboxOK

LEMMA WayInit == Init => WayInv
<1> SUFFICES ASSUME Init PROVE WayInv
  OBVIOUS
<1> DEFINE W == [q \in offered |-> WithSender]
<1>1. PICK G : PacketsOK(G) /\ \A n \in Nodes, port \in Ports, v \in VCs : G[n][port][v][0] = {}
  BY PacketsInit
<1>2. PartsOK(G)
  <2>1. \A n \in Nodes, v \in VCs : assembling[n][v] = <<>>
    BY DEF Init
  <2>2. LOCAL_PORT \in Ports /\ \A p, k : {} # {<<p, k>>}
    BY DEF LOCAL_PORT, Ports
  <2> QED BY <1>1, <2>1, <2>2 DEF PartsOK, PartOf
<1>3. \A n \in Nodes, p \in Ports, v \in VCs :
        router[n].buf[p][v] = <<>> /\ router[n].vc[p][v].state = "IDLE"
  BY DEF Init, RouterReset
<1>4. RoutesOK(G)
  BY <1>3 DEF RoutesOK, RouteOK
<1>5. \A n \in Nodes : inbox[n] = <<>>
  BY DEF Init
<1>6. InboxOK
  <2>1. \A S : <<>> \in Seq(S)
    OBVIOUS
  <2> QED BY <1>5, <2>1 DEF InboxOK
<1>7. TailsOK(W)
  <2>1. \A n \in Nodes, p \in Ports, v \in VCs : 1 .. Len(router[n].buf[p][v]) = {}
    BY <1>3
  <2>2. \A n \in Nodes, port \in Ports : Linked(n, port) =>
          \A k \in 1 .. LINK_DELAY : link[n][port].fwd[k] = None
    BY DEF Init
  <2>3. \A q \in offered : q.dest \in Nodes
    BY MeshAssumption DEF Init
  <2>4. \A q \in offered : ~ Service!Delivered(q)
    BY <1>5, <2>3 DEF Service!Delivered
  <2> QED BY <2>1, <2>2, <2>4 DEF TailsOK, IsTailOf
<1> QED BY <1>1, <1>2, <1>4, <1>6, <1>7 DEF WayInv

\* A clock keeps it, and does to the inboxes what PacketService says.
LEMMA WayStep == MeshInv /\ WayInv /\ [Next]_vars => WayInv' /\ [Service!Deliver]_<<offered, inbox>>
<1> SUFFICES ASSUME MeshInv, WayInv, [Next]_vars
             PROVE  WayInv' /\ [Service!Deliver]_<<offered, inbox>>
  OBVIOUS
<1>1. PICK G, W : /\ PacketsOK(G) /\ PartsOK(G) /\ RoutesOK(G)
                  /\ TailsOK(W) /\ InboxOK
  BY DEF WayInv
<1>2. CASE Next
  <2>1. PICK hold, keep : Clock(hold, keep)
    BY <1>2 DEF Next
  <2>2. Clocked(hold, keep)
    BY <2>1, ClockIs
  <2>3. PICK H : IsNextDue(H, G)
    BY NextDueExists
  <2>4. PICK X : AllGo(W, X, hold)
    <3>1. AllGo(W, [q \in offered |-> Goes(W[q], q, hold)], hold)
      BY DEF AllGo
    <3> QED BY <3>1
  <2>5. PacketsOK(H)' /\ PartsOK(H)'
    BY <1>1, <2>2, <2>3, PacketsStep, PartsStep
  <2>6. RoutesOK(H)'
    <3>1. \A n \in Nodes, p \in Ports, v \in VCs : RouteOK(H, n, p, v)'
      BY <1>1, <2>2, <2>3, RouteStep
    <3> QED BY <3>1 DEF RoutesOK
  <2>7. TailsOK(X)' /\ InboxOK'
    BY <1>1, <2>2, <2>4, TailsStep
  <2>8. WayInv'
    BY <2>5, <2>6, <2>7 DEF WayInv
  <2>9. Service!Deliver
    <3>1. offered' = offered
      BY <2>2 DEF Clocked, ClockWith
    <3>2. inbox' = [n \in Nodes |-> inbox'[n]]
      <4>1. \E n : n \in Nodes
        <5>1. <<0, 0>> \in Nodes
          BY MeshAssumption DEF Nodes
        <5> QED BY <5>1
      <4> QED BY <2>2, <4>1, NodeAfter
    <3>3. ASSUME NEW n \in Nodes
          PROVE  \/ inbox'[n] = inbox[n]
                 \/ \E p \in offered : /\ p.dest = n /\ ~ Service!Delivered(p)
                                       /\ inbox'[n] = Append(inbox[n], Service!Whole(p))
      BY <1>1, <2>2, WholeComesOut
    <3> QED BY <3>1, <3>2, <3>3 DEF Service!Deliver
  <2> QED BY <2>8, <2>9
<1>3. CASE UNCHANGED vars
  <2>1. /\ router' = router /\ link' = link /\ sent' = sent /\ offered' = offered
        /\ inbox' = inbox /\ assembling' = assembling
    BY <1>3 DEF vars
  <2>2. PacketsOK(G)'
    BY <1>1, <1>3, PacketsStay
  <2>3. PartsOK(G)'
    BY <1>1, <2>1 DEF PartsOK
  <2>4. RoutesOK(G)'
    <3>1. ASSUME NEW n \in Nodes, NEW p \in Ports, NEW v \in VCs PROVE RouteOK(G, n, p, v)'
      <4>1. RouteOK(G, n, p, v)
        BY <1>1 DEF RoutesOK
      <4>2. Expected(G, n, p, v)' = Expected(G, n, p, v)
        BY <2>1 DEF Expected, Due
      <4> QED BY <2>1, <4>1, <4>2 DEF RouteOK
    <3> QED BY <3>1 DEF RoutesOK
  <2>5. TailsOK(W)' /\ InboxOK'
    <3>1. \A q : Service!Delivered(q)' <=> Service!Delivered(q)
      BY <2>1 DEF Service!Delivered, Service!Whole
    <3>2. InboxOK'
      BY <1>1, <2>1 DEF InboxOK, Service!Whole
    <3> QED BY <1>1, <2>1, <3>1, <3>2 DEF TailsOK
  <2>6. WayInv'
    BY <2>2, <2>3, <2>4, <2>5 DEF WayInv
  <2> QED BY <2>1, <2>6
<1> QED BY <1>2, <1>3

\* What the mesh gives its nodes is what PacketService allows: only packets
\* that were offered, each once, whole and in order, and at its destination.
\* (DeliversPackets says too that all of them arrive, which is a liveness.)
THEOREM MeshDeliversSafely == Spec => Service!SafeSpec
<1>1. Init => Service!Init
  BY DEF Init, Service!Init
<1> QED BY <1>1, WayInit, WayStep, MeshInvariant, PTL DEF Spec, Service!SafeSpec
=============================================================================
