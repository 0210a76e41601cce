--------------------------- MODULE Software_proofs ---------------------------
(***************************************************************************)
(* What software on the cores stands on: the interrupt controller is       *)
(* sound, and gives every source the service promised, for any number of   *)
(* sources, contexts and priorities; and a bare-metal program gets its     *)
(* input, output and exit through its debugger, and its strings from       *)
(* bench.c, as it should, whatever the benchmark does.                     *)
(***************************************************************************)
EXTENDS PlicProps, BareMetalProps, FiniteSetTheorems, WellFoundedInduction, SequenceTheorems, TLAPS

-----------------------------------------------------------------------------
(* The interrupt controller.                                               *)

\* The ID a claim gets is that of an eligible source, or 0: some eligible source
\* beats all others.
LEMMA BestIsEligible ==
  ASSUME PlicTypeOK, NEW c \in Contexts
  PROVE  BestId(c) \in (pending \cap ie[c]) \cup {0}
<1> DEFINE E == Eligible(c)
           Better(id) == {j \in E : ~ Beats(id, j)}
           T == {Better(id) : id \in E}
<1> USE PlicAssumption
<1>1. E \subseteq pending \cap ie[c] /\ E \subseteq Sources
  BY DEF Eligible, PlicTypeOK
<1>2. CASE E = {}
  BY <1>2 DEF BestId
<1>3. CASE E # {}
  <2>1. IsFiniteSet(E)
    <3>1. IsFiniteSet(Sources)
      BY FS_Interval DEF Sources
    <3> QED BY <3>1, <1>1, FS_Subset
  <2>2. T \subseteq SUBSET E /\ T # {}
    BY <1>3
  <2>3. PICK s \in T : \A t \in T : ~ (<<t, s>> \in StrictSubsetOrdering(E))
    <3>1. IsWellFoundedOn(StrictSubsetOrdering(E), SUBSET E)
      BY <2>1, FS_StrictSubsetOrderingWellFounded, FS_FiniteSubsetsOfFinite
    <3> QED BY <3>1, <2>2, WFMin, Zenon
  <2>4. PICK id \in E : s = Better(id)
    BY <2>3
  <2>5. \A i \in E : prio[i] \in Int /\ i \in Int
    BY <1>1 DEF PlicTypeOK, Priorities, Sources
  <2>6. ASSUME NEW j \in E, ~ Beats(id, j) PROVE FALSE
    <3>1. ASSUME NEW i \in E, ~ Beats(j, i) PROVE ~ Beats(id, i)
      BY <2>5, <2>6, <3>1 DEF Beats
    <3>2. Better(j) \subseteq Better(id)
      BY <3>1
    <3>3. j \in Better(id) /\ j \notin Better(j)
      BY <2>5, <2>6 DEF Beats
    <3>4. <<Better(j), s>> \in StrictSubsetOrdering(E)
      <4>1. Better(j) # Better(id)
        BY <3>3, Zenon
      <4> QED BY <3>2, <4>1, <2>4, <2>2 DEF StrictSubsetOrdering
    <3>5. Better(j) \in T
      OBVIOUS
    <3> QED BY <3>4, <3>5, <2>3, Zenon
  <2>7. \E i \in E : \A j \in E : Beats(i, j)
    BY <2>6
  <2>8. BestId(c) = CHOOSE i \in E : \A j \in E : Beats(i, j)
    BY <1>3 DEF BestId
  <2>9. BestId(c) \in E
    BY <2>7, <2>8
  <2> QED BY <2>9, <1>1
<1> QED BY <1>2, <1>3

-----------------------------------------------------------------------------

\* An access taken is a well-formed one, and completes no source that another
\* handler has.
LEMMA TakenIsFair ==
  ASSUME PlicTypeOK, OfferIsFair, NEW req \in Offers
  PROVE  /\ req \in Requests /\ Taken(req) \in Requests
         /\ \A r \in {req, Taken(req)} :
              r.kind = "complete" => \A d \in Contexts \ {r.ctx} : ~HasIt(d, IdOf(r.id))
         /\ hold => Taken(req) = NoReq /\ offer = NoReq
<1>1. NoReq \in Requests
  BY DEF NoReq, Requests
<1>2. req \in Requests
  <2>1. CASE offer # NoReq
    BY <2>1 DEF Offers, PlicTypeOK
  <2>2. CASE offer = NoReq
    <3>1. Setups \subseteq Requests
      BY PlicAssumption
    <3> QED BY <2>2, <3>1 DEF Offers, Requests
  <2> QED BY <2>1, <2>2
<1>3. req.kind = "complete" => \A d \in Contexts \ {req.ctx} : ~HasIt(d, IdOf(req.id))
  <2>1. CASE offer # NoReq
    BY <2>1 DEF Offers, OfferIsFair
  <2>2. CASE offer = NoReq
    <3>1. \A r \in Setups : r.kind # "complete"
      BY PlicAssumption
    <3> QED BY <2>2, <3>1 DEF Offers
  <2> QED BY <2>1, <2>2
<1>4. Taken(req) = NoReq \/ Taken(req) = req
  BY DEF Taken
<1>5. hold => Taken(req) = NoReq /\ offer = NoReq
  BY DEF Taken, OfferIsFair
<1> QED BY <1>1, <1>2, <1>3, <1>4, <1>5 DEF NoReq

\* What a clock does to the gateways: no source it knew of is lost.
LEMMA GatewayStep ==
  ASSUME PlicTypeOK, PendingIsActive, NEW src \in SUBSET Sources,
         NEW claim \in SUBSET Sources, NEW complete \in SUBSET Sources,
         GatewayNext(src, claim, complete)
  PROVE  /\ pending' \subseteq active' /\ active' \subseteq Sources
         /\ src_q' \subseteq Sources
         /\ \A id \in pending : IF id \in claim THEN id \in active' \ pending'
                                                ELSE id \in pending'
         /\ \A id \in active \ (pending \cup complete) : id \in active' \ pending'
BY DEF GatewayNext, Take, Done, Set, PlicTypeOK, PendingIsActive

\* What a clock does to the handlers: one gets a source only as the answer to its
\* claim, and keeps it until it completes it.
LEMMA HandlerStep ==
  ASSUME PlicTypeOK, NEW req \in Requests, PortNext(req), HandlersNext(Taken(req)),
         Taken(req) \in Requests,
         NEW c \in Contexts, NEW id \in Sources
  PROVE  LET r == Taken(req) IN
         HasIt(c, id)' <=> \/ HasIt(c, id) /\ ~(r.kind = "complete" /\ r.ctx = c /\ IdOf(r.id) = id)
                           \/ r.kind = "claim" /\ r.ctx = c /\ claim_id[c] = id
<1> DEFINE r == Taken(req)
<1>1. (id \in handling[c])' <=>
        HasIt(c, id) /\ ~(r.kind = "complete" /\ r.ctx = c /\ IdOf(r.id) = id)
  BY DEF HandlersNext, HasIt, PlicTypeOK
<1>2. (rsp.ctx = c /\ rsp.id = id)' <=> r.kind = "claim" /\ r.ctx = c /\ claim_id[c] = id
  <2>1. CASE r.kind = "claim"
    <3>1. r = req
      BY <2>1 DEF Taken, NoReq
    <3> QED BY <2>1, <3>1 DEF PortNext
  <2>2. CASE r.kind # "claim"
    <3>1. rsp' = [ctx |-> -1, id |-> 0]
      BY <2>2 DEF PortNext
    <3> QED BY <3>1, <2>2 DEF Contexts
  <2> QED BY <2>1, <2>2
<1> QED BY <1>1, <1>2 DEF HasIt

-----------------------------------------------------------------------------

\* After reset the controller is sound.
LEMMA InitSound == PlicInit => PlicInv
<1> SUFFICES ASSUME PlicInit PROVE PlicInv
  OBVIOUS
<1> USE PlicAssumption DEF PlicInit
<1>1. PlicTypeOK
  <2>1. 0 \in Priorities /\ 0 \in Ids
    BY DEF Priorities, Ids
  <2>2. rsp \in [ctx : Contexts \cup {-1}, id : Ids]
    BY <2>1
  <2>3. offer \in Requests
    BY DEF Requests, NoReq
  <2> QED BY <2>1, <2>2, <2>3 DEF PlicTypeOK
<1>2. \A c \in Contexts, id \in Sources : ~HasIt(c, id)
  BY DEF HasIt, Contexts
<1>3. ClaimsArePending /\ PendingIsActive /\ NotifiedHasId /\ OfferIsFair /\ LinesSeen
  BY DEF ClaimsArePending, PendingIsActive, NotifiedHasId, OfferIsFair, LinesSeen, NoReq
<1> QED BY <1>1, <1>2, <1>3 DEF PlicInv, HandledIsServed, OneHandler

\* A claim taken gets a pending source, or none; the claim pulse goes to it alone.
LEMMA ClaimGetsPending ==
  ASSUME PlicInv, NEW req \in Offers, Taken(req).kind = "claim"
  PROVE  /\ Taken(req).ctx \in Contexts /\ ~hold
         /\ claim_id[Taken(req).ctx] \in pending \cup {0}
         /\ Completes(Taken(req)) = {}
<1>1. Taken(req) \in Requests /\ Taken(req).kind = "claim"
  BY TakenIsFair DEF PlicInv
<1>2. Taken(req).ctx \in Contexts
  BY <1>1 DEF Requests
<1>3. ~hold
  BY DEF Taken, NoReq
<1> QED BY <1>1, <1>2, <1>3 DEF PlicInv, ClaimsArePending, Completes

\* Every clock keeps the controller sound.
LEMMA ClockSound ==
  ASSUME PlicInv, NEW src \in SUBSET Sources, NEW req \in Offers, Clock(src, req)
  PROVE  PlicInv'
<1> DEFINE r == Taken(req)
<1>1. PlicTypeOK /\ ClaimsArePending /\ PendingIsActive /\ HandledIsServed /\ OneHandler
      /\ OfferIsFair
  BY DEF PlicInv
<1>2. /\ GatewayNext(src, Claims(r), Completes(r)) /\ TargetNext /\ PortNext(req)
      /\ Write(r) /\ HandlersNext(r) /\ lines' = src
  BY DEF Clock
<1>3. /\ req \in Requests /\ r \in Requests
      /\ \A q \in {req, r} :
           q.kind = "complete" => \A d \in Contexts \ {q.ctx} : ~HasIt(d, IdOf(q.id))
      /\ hold => r = NoReq /\ offer = NoReq
  BY <1>1, TakenIsFair
<1>4. Claims(r) \in SUBSET Sources /\ Completes(r) \in SUBSET Sources
  BY DEF Claims, Completes
<1>5. /\ PendingIsActive' /\ active' \subseteq Sources /\ src_q' \subseteq Sources
      /\ \A id \in pending : IF id \in Claims(r) THEN id \in active' \ pending'
                                                 ELSE id \in pending'
      /\ \A id \in active \ (pending \cup Completes(r)) : id \in active' \ pending'
  BY <1>1, <1>2, <1>4, GatewayStep DEF PendingIsActive
<1>6. \A c \in Contexts : BestId(c) \in (pending \cap ie[c]) \cup {0}
  BY <1>1, BestIsEligible
<1>7. \A c \in Contexts, id \in Sources :
        HasIt(c, id)' <=> \/ HasIt(c, id) /\ ~(r.kind = "complete" /\ r.ctx = c /\ IdOf(r.id) = id)
                          \/ r.kind = "claim" /\ r.ctx = c /\ claim_id[c] = id
  BY <1>1, <1>2, <1>3, HandlerStep
<1> HIDE DEF r
<1>8. PlicTypeOK'
  <2>1. (pending \subseteq Sources /\ active \subseteq Sources /\ src_q \subseteq Sources)'
    BY <1>5 DEF PendingIsActive
  <2>2. (/\ prio \in [Sources -> Priorities] /\ ie \in [Contexts -> SUBSET Sources]
         /\ threshold \in [Contexts -> Priorities])'
    <3>1. CASE r.kind = "priority"
      BY <1>1, <1>2, <1>3, <3>1 DEF PlicTypeOK, Write, Requests
    <3>2. CASE r.kind = "enable"
      BY <1>1, <1>2, <1>3, <3>2 DEF PlicTypeOK, Write, Requests
    <3>3. CASE r.kind = "threshold"
      BY <1>1, <1>2, <1>3, <3>3 DEF PlicTypeOK, Write, Requests
    <3>4. CASE r.kind \notin {"priority", "enable", "threshold"}
      BY <1>1, <1>2, <3>4 DEF PlicTypeOK, Write
    <3> QED BY <3>1, <3>2, <3>3, <3>4
  <2>3. (eip \subseteq Contexts /\ claim_id \in [Contexts -> Ids])'
    <3>1. \A c \in Contexts : BestId(c) \in Ids
      BY <1>1, <1>6, PlicAssumption DEF PlicTypeOK, Sources, Ids
    <3> QED BY <1>2, <3>1 DEF TargetNext
  <2>4. (hold \in BOOLEAN /\ offer \in Requests)'
    <3>1. NoReq \in Requests
      BY DEF NoReq, Requests
    <3> QED BY <1>2, <1>3, <3>1 DEF PortNext, Claimed
  <2>5. (rsp \in [ctx : Contexts \cup {-1}, id : Ids])'
    <3>1. CASE r.kind = "claim"
      <4>1. r = req
        BY <3>1 DEF r, Taken, NoReq
      <4>2. req.ctx \in Contexts
        BY <1>3, <3>1, <4>1 DEF Requests
      <4>3. rsp' = [ctx |-> req.ctx, id |-> claim_id[req.ctx]]
        BY <1>2, <3>1 DEF PortNext, r
      <4> QED BY <1>1, <4>2, <4>3 DEF PlicTypeOK
    <3>2. CASE r.kind # "claim"
      <4>1. rsp' = [ctx |-> -1, id |-> 0]
        BY <1>2, <3>2 DEF PortNext, r
      <4> QED BY <4>1, PlicAssumption DEF Ids
    <3> QED BY <3>1, <3>2
  <2>6. (lines \subseteq Sources /\ handling \in [Contexts -> SUBSET Sources])'
    BY <1>1, <1>2 DEF HandlersNext, PlicTypeOK
  <2> QED BY <2>1, <2>2, <2>3, <2>4, <2>5, <2>6 DEF PlicTypeOK
<1>9. ClaimsArePending'
  <2> SUFFICES ASSUME ~hold', NEW c \in Contexts
               PROVE  claim_id'[c] \in pending' \cup {0}
    BY DEF ClaimsArePending
  <2>1. r.kind # "claim"
    BY <1>2 DEF PortNext, Claimed, r
  <2>2. Claims(r) = {}
    BY <2>1 DEF Claims
  <2>3. claim_id'[c] = BestId(c)
    BY <1>2 DEF TargetNext
  <2> QED BY <1>5, <1>6, <2>2, <2>3
<1>10. NotifiedHasId'
  BY <1>2 DEF NotifiedHasId, TargetNext, Notified
<1>11. HandledIsServed'
  <2> SUFFICES ASSUME NEW c \in Contexts, NEW id \in Sources, HasIt(c, id)'
               PROVE  id \in active' \ pending'
    BY DEF HandledIsServed
  <2>1. CASE r.kind = "claim" /\ r.ctx = c /\ claim_id[c] = id
    <3>1. id \in pending \cup {0}
      BY <2>1, ClaimGetsPending DEF r
    <3>2. id \in pending /\ id \in Claims(r)
      BY <2>1, <3>1 DEF Claims, Sources
    <3> QED BY <1>5, <3>2
  <2>2. CASE HasIt(c, id) /\ ~(r.kind = "complete" /\ r.ctx = c /\ IdOf(r.id) = id)
    <3>1. id \in active \ pending
      BY <1>1, <2>2 DEF HandledIsServed
    <3>2. id \notin Completes(r)
      <4> SUFFICES ASSUME r.kind = "complete", IdOf(r.id) = id PROVE FALSE
        BY DEF Completes
      <4>1. r.ctx \in Contexts /\ r.ctx # c
        BY <1>3, <2>2 DEF Requests
      <4> QED BY <1>3, <2>2, <4>1
    <3> QED BY <1>5, <3>1, <3>2
  <2> QED BY <1>7, <2>1, <2>2
<1>12. OneHandler'
  <2> SUFFICES ASSUME NEW c \in Contexts, NEW d \in Contexts, NEW id \in Sources,
                      HasIt(c, id)', HasIt(d, id)'
               PROVE  c = d
    BY DEF OneHandler
  <2>1. ASSUME NEW e \in Contexts, r.kind = "claim", r.ctx = e, claim_id[e] = id
        PROVE  \A f \in Contexts : ~HasIt(f, id)
    <3>1. id \in pending
      BY <2>1, ClaimGetsPending DEF r, Sources
    <3> QED BY <1>1, <3>1 DEF HandledIsServed
  <2> QED BY <1>1, <1>7, <2>1 DEF OneHandler
<1>13. OfferIsFair'
  <2>1. CASE hold
    <3>1. r = NoReq /\ offer' = req /\ ~hold'
      <4>1. r = NoReq /\ NoReq.kind # "claim"
        BY <1>3, <2>1 DEF NoReq
      <4>2. hold' = (r.kind = "claim") /\ offer' = req
        BY <1>2, <2>1 DEF PortNext, Claimed, r
      <4> QED BY <4>1, <4>2, Zenon
    <3>2. ASSUME req.kind = "complete", NEW d \in Contexts \ {req.ctx},
                 HasIt(d, IdOf(req.id))'
          PROVE  FALSE
      <4>1. rsp' = [ctx |-> -1, id |-> 0]
        BY <1>2, <3>1 DEF PortNext, r, NoReq
      <4>2. IdOf(req.id) \in handling'[d]
        BY <3>2, <4>1 DEF HasIt, Contexts, IdOf
      <4>3. IdOf(req.id) \in Sources
        BY <1>8, <3>2, <4>2 DEF PlicTypeOK
      <4>4. HasIt(d, IdOf(req.id))'
        BY <4>2 DEF HasIt, IdOf
      <4>5. HasIt(d, IdOf(req.id))
        BY <1>7, <3>1, <3>2, <4>3, <4>4 DEF NoReq
      <4> QED BY <1>3, <3>2, <4>5
    <3> QED BY <3>1, <3>2 DEF OfferIsFair
  <2>2. CASE ~hold
    BY <1>2, <2>2 DEF PortNext, OfferIsFair, NoReq
  <2> QED BY <2>1, <2>2
<1>14. LinesSeen'
  BY <1>2 DEF LinesSeen, GatewayNext
<1> QED BY <1>5, <1>8, <1>9, <1>10, <1>11, <1>12, <1>13, <1>14 DEF PlicInv

\* A claim taken always gets a pending source, and at most one handler has a source:
\* the controller is sound in every clock, whatever devices and software do.
THEOREM PlicStaysSound == PlicSpec => []PlicInv
<1>1. PlicInv /\ [PlicNext]_plicVars => PlicInv'
  <2> SUFFICES ASSUME PlicInv, [PlicNext]_plicVars PROVE PlicInv'
    OBVIOUS
  <2>1. CASE PlicNext
    BY <2>1, ClockSound DEF PlicNext
  <2>2. CASE UNCHANGED plicVars
    BY <2>2 DEF plicVars, gatewayVars, registerVars, contextVars, PlicInv, PlicTypeOK,
                ClaimsArePending, PendingIsActive, NotifiedHasId, HandledIsServed,
                OneHandler, OfferIsFair, LinesSeen, HasIt
  <2> QED BY <2>1, <2>2
<1> QED BY <1>1, InitSound, PTL DEF PlicSpec

-----------------------------------------------------------------------------

\* In every clock each source takes a step of the service promised, or none.
LEMMA ClockServes ==
  ASSUME PlicInv, NEW src \in SUBSET Sources, NEW req \in Offers, Clock(src, req)
  PROVE  Service!Next
<1> DEFINE r == Taken(req)
           has(id) == {c \in Contexts : HasIt(c, id)}
<1>1. PlicTypeOK /\ PendingIsActive /\ HandledIsServed /\ OneHandler /\ OfferIsFair
      /\ LinesSeen
  BY DEF PlicInv
<1>2. /\ GatewayNext(src, Claims(r), Completes(r)) /\ PortNext(req) /\ HandlersNext(r)
      /\ lines' = src
  BY DEF Clock
<1>3. /\ req \in Requests /\ r \in Requests
      /\ r.kind = "complete" => \A d \in Contexts \ {r.ctx} : ~HasIt(d, IdOf(r.id))
  BY <1>1, TakenIsFair
<1>4. \A c \in Contexts, id \in Sources :
        HasIt(c, id)' <=> \/ HasIt(c, id) /\ ~(r.kind = "complete" /\ r.ctx = c /\ IdOf(r.id) = id)
                          \/ r.kind = "claim" /\ r.ctx = c /\ claim_id[c] = id
  BY <1>1, <1>2, <1>3, HandlerStep
<1> SUFFICES ASSUME NEW id \in Sources PROVE Service!Step(id)
  BY <1>2 DEF Service!Next
<1>5. /\ Handlers[id] = has(id) /\ Handlers'[id] = {c \in Contexts : HasIt(c, id)'}
      /\ Phases[id] = IF id \in pending THEN "pending"
                                        ELSE IF id \in active THEN "served" ELSE "idle"
      /\ Phases'[id] = IF id \in pending' THEN "pending"
                                          ELSE IF id \in active' THEN "served" ELSE "idle"
  BY DEF Handlers, Phases
<1>6. Service!Asks(id) <=> id \in Set(src)
  BY <1>1, <1>2 DEF Service!Asks, Set, LinesSeen
<1>7. CASE r.kind = "claim" /\ claim_id[r.ctx] = id
  <2>1. r.ctx \in Contexts /\ id \in pending /\ Completes(r) = {} /\ id \in Claims(r)
    BY <1>7, ClaimGetsPending DEF Sources, Claims
  <2>2. id \in active' \ pending'
    BY <1>1, <1>2, <2>1, GatewayStep DEF Claims
  <2>3. has(id) = {}
    BY <1>1, <2>1 DEF HandledIsServed
  <2>4. {c \in Contexts : HasIt(c, id)'} = {r.ctx}
    BY <1>4, <1>7, <2>1, <2>3
  <2>5. Service!Claim(id, r.ctx)
    BY <1>5, <2>1, <2>2, <2>3, <2>4 DEF Service!Claim
  <2> QED BY <2>1, <2>5 DEF Service!Step
<1>8. CASE r.kind = "complete" /\ IdOf(r.id) = id
  <2>1. r.ctx \in Contexts /\ has(id) \subseteq {r.ctx} /\ Claims(r) = {}
    BY <1>3, <1>8 DEF Requests, Claims
  <2>2. {c \in Contexts : HasIt(c, id)'} = {}
    BY <1>4, <1>8, <2>1
  <2>3. CASE id \in pending
    <3>1. id \in pending' /\ has(id) = {}
      BY <1>1, <1>2, <2>1, <2>3 DEF GatewayNext, HandledIsServed
    <3> QED BY <1>5, <2>2, <2>3, <3>1 DEF Service!Step, Service!Rests
  <2>4. CASE id \in active \ pending /\ id \in Completes(r)
    <3>1. IF id \in Set(src) THEN id \in pending' ELSE id \notin pending' \cup active'
      BY <1>2, <2>4 DEF GatewayNext, Take, Done
    <3>2. Phases[id] = "served"
          /\ Phases'[id] = IF Service!Asks(id) THEN "pending" ELSE "idle"
      BY <1>5, <1>6, <2>4, <3>1
    <3>3. Service!Complete(id, r.ctx)
      BY <1>5, <2>1, <2>2, <3>2 DEF Service!Complete
    <3> QED BY <2>1, <3>3 DEF Service!Step
  <2>5. CASE id \in active \ pending /\ id \notin Completes(r)
    <3>1. id \in active' \ pending'
      BY <1>2, <2>5 DEF GatewayNext, Take, Done
    <3>2. Phases[id] = "served" /\ Phases'[id] = "served"
      BY <1>5, <2>5, <3>1
    <3>3. CASE has(id) = {}
      BY <1>5, <2>2, <3>2, <3>3 DEF Service!Step, Service!Rests
    <3>4. CASE has(id) = {r.ctx}
      <4>1. Service!Ignored(id, r.ctx)
        BY <1>5, <2>2, <3>2, <3>4 DEF Service!Ignored
      <4> QED BY <2>1, <4>1 DEF Service!Step
    <3> QED BY <2>1, <3>3, <3>4
  <2>6. CASE id \notin active
    <3>1. has(id) = {} /\ id \notin pending
      BY <1>1, <2>6 DEF HandledIsServed, PendingIsActive
    <3>2. /\ id \in pending' <=> Service!Asks(id)
          /\ id \in active' <=> Service!Asks(id)
      BY <1>2, <1>6, <2>6, <3>1 DEF GatewayNext, Take
    <3>3. CASE Service!Asks(id)
      <4>1. Service!Request(id)
        BY <1>5, <2>2, <2>6, <3>1, <3>2, <3>3 DEF Service!Request
      <4> QED BY <4>1 DEF Service!Step
    <3>4. CASE ~Service!Asks(id)
      BY <1>5, <2>2, <2>6, <3>1, <3>2, <3>4 DEF Service!Step, Service!Rests
    <3> QED BY <3>3, <3>4
  <2> QED BY <1>1, <2>3, <2>4, <2>5, <2>6 DEF PendingIsActive
<1>9. CASE /\ ~(r.kind = "claim" /\ claim_id[r.ctx] = id)
           /\ ~(r.kind = "complete" /\ IdOf(r.id) = id)
  <2>1. id \notin Claims(r) /\ id \notin Completes(r)
    BY <1>9 DEF Claims, Completes
  <2>2. {c \in Contexts : HasIt(c, id)'} = has(id)
    BY <1>4, <1>9
  <2>3. CASE id \in active
    <3>1. id \in active' /\ (id \in pending <=> id \in pending')
      BY <1>1, <1>2, <2>1, <2>3 DEF GatewayNext, Take, Done, PendingIsActive
    <3> QED BY <1>5, <2>2, <2>3, <3>1 DEF Service!Step, Service!Rests
  <2>4. CASE id \notin active
    <3>1. /\ id \notin pending
          /\ id \in pending' <=> Service!Asks(id)
          /\ id \in active' <=> Service!Asks(id)
      BY <1>1, <1>2, <1>6, <2>4 DEF GatewayNext, Take, PendingIsActive
    <3>2. CASE Service!Asks(id)
      <4>1. Service!Request(id)
        BY <1>5, <2>2, <2>4, <3>1, <3>2 DEF Service!Request
      <4> QED BY <4>1 DEF Service!Step
    <3>3. CASE ~Service!Asks(id)
      BY <1>5, <2>2, <2>4, <3>1, <3>3 DEF Service!Step, Service!Rests
    <3> QED BY <3>2, <3>3
  <2> QED BY <2>3, <2>4
<1> QED BY <1>7, <1>8, <1>9

\* Every request of every source, one in the clock of a completion too, goes to one
\* handler, once, and none is dropped: the controller implements the service promised,
\* whatever devices and software do.
THEOREM PlicServes == PlicSpec => ServesRequests
<1>1. PlicInit => Service!Init
  BY DEF PlicInit, Service!Init, Phases, Handlers, HasIt, Contexts
<1>2. PlicInv /\ [PlicNext]_plicVars => [Service!Next]_<<lines, Phases, Handlers>>
  <2> SUFFICES ASSUME PlicInv, [PlicNext]_plicVars
               PROVE  Service!Next \/ UNCHANGED <<lines, Phases, Handlers>>
    OBVIOUS
  <2>1. CASE PlicNext
    BY <2>1, ClockServes DEF PlicNext
  <2>2. CASE UNCHANGED plicVars
    BY <2>2 DEF plicVars, gatewayVars, Phases, Handlers, HasIt
  <2> QED BY <2>1, <2>2
<1> QED BY <1>1, <1>2, PlicStaysSound, PTL DEF PlicSpec, ServesRequests, Service!Spec

-----------------------------------------------------------------------------
(* The exit status of a program.                                           *)

\* What main and the benchmarks may return: an int
Status == -(Word \div 2) .. Word \div 2 - 1

\* The last status that the benchmark returned
Last == IF ran = <<>> THEN 0 ELSE ran[Len(ran)]

\* Runs end well one by one, up to one that fails or to the last.
RunsOK ==
  /\ pc \in Places /\ k \in 0 .. Repeat
  /\ status \in Status /\ ran \in Seq(Status)
  /\ \A i \in 1 .. Len(ran) - 1 : ran[i] = 0
  /\ pc \notin {"exit", "exiting"} => Len(ran) = k /\ Last = 0
  /\ pc \in {"bench", "cm_run", "cm_fini", "cm_check"} => k < Repeat
  /\ pc \in {"exit", "exiting"} => (Last = 0 => Len(ran) = Repeat)
  /\ pc = "exit" => status = Last

\* The host is told the last status, in a call of which the core does not return, and no
\* other call tells the host a status.
ExitOK ==
  /\ halted => call # None /\ a0 = call.op /\ a1 = call.args
  /\ pc # "exiting" => exited = Running /\ call.op # 32
  /\ pc = "exiting" => /\ halted /\ call = SemihostExit(Last)
                       /\ exited \in {Running, Field(Last)}

\* The numbers of the operations
LEMMA Operations ==
  /\ SemihostInstr["OPEN"] = 1 /\ SemihostInstr["CLOSE"] = 2 /\ SemihostInstr["WRITEC"] = 3
  /\ SemihostInstr["WRITE0"] = 4 /\ SemihostInstr["WRITE"] = 5 /\ SemihostInstr["READ"] = 6
  /\ SemihostInstr["READC"] = 7 /\ SemihostInstr["SEEK"] = 10 /\ SemihostInstr["FLEN"] = 12
  /\ SemihostInstr["GET_CMDLINE"] = 21 /\ SemihostInstr["EXIT_EXTENDED"] = 32
  BY DEF SemihostInstr

\* A status is 0 when its field is.
LEMMA StatusField ==
  ASSUME NEW s \in Status
  PROVE  /\ Field(s) = IF s < 0 THEN s + Word ELSE s
         /\ Field(s) \in 0 .. Word - 1 /\ (Field(s) = 0 <=> s = 0)
<1>1. /\ Word \in Nat \ {0} /\ s \in Int /\ s < Word /\ -Word < s
  BY SemihostingAssumption DEF Status
<1>2. s % Word = IF s < 0 THEN s + Word ELSE s
  BY <1>1
<1> QED BY <1>1, <1>2 DEF Field

\* Whatever a benchmark asks for, it is no exit.
LEMMA CallsAreNoExits ==
  ASSUME CallTerminal \/ CallFile \/ CallCmdline
  PROVE  \E request, text : Calls(request, text) /\ request.op \notin {0, 32}
<1> DEFINE Harmless(request) == request.op \notin {0, 32}
<1>1. CASE CallTerminal
  <2>1. /\ \A c : Harmless(PutChar(c)) /\ \A s : Harmless(SemihostWrite0(s)) /\ Harmless(PollIn)
    BY Operations DEF Request, PutChar, PollOut, SemihostWrite0, PollIn
  <2> QED BY <1>1, <2>1 DEF CallTerminal
<1>2. CASE CallFile
  <2>1. /\ \A p, m : Harmless(SemihostOpen(p, m))
        /\ \A fd : Harmless(SemihostClose(fd)) /\ Harmless(SemihostFlen(fd))
        /\ \A fd, x : /\ Harmless(SemihostSeek(fd, x)) /\ Harmless(SemihostRead(fd, x))
                      /\ Harmless(SemihostWrite(fd, x))
    BY Operations DEF Request, SemihostOpen, SemihostClose, SemihostFlen, SemihostSeek,
                      SemihostRead, SemihostWrite
  <2> QED BY <1>2, <2>1 DEF CallFile
<1>3. CASE CallCmdline
  <2>1. \A len : Harmless(SemihostGetCmdline(len))
    BY Operations DEF Request, SemihostGetCmdline
  <2> QED BY <1>3, <2>1 DEF CallCmdline
<1> QED BY <1>1, <1>2, <1>3

\* A run that returned s
LEMMA ReturnKeepsRuns ==
  ASSUME RunsOK, ExitOK, NEW s \in Status, BenchReturns(s), k < Repeat,
         pc \notin {"exit", "exiting"}
  PROVE  RunsOK' /\ ExitOK'
<1>1. /\ ran \in Seq(Status) /\ Len(ran) = k /\ Len(ran) \in Nat /\ ran' = Append(ran, s)
      /\ Repeat \in Nat /\ status \in Status
      /\ \A i \in 1 .. Len(ran) : ran[i] = 0
  <2>1. \A i \in 1 .. Len(ran) : i = Len(ran) \/ i \in 1 .. Len(ran) - 1
    BY LenProperties DEF RunsOK
  <2> QED BY <2>1, LenProperties, BareMetalAssumption DEF RunsOK, BenchReturns, Last
<1>2. /\ ran' \in Seq(Status) /\ Len(ran') = k + 1 /\ ran'[Len(ran')] = s /\ ran' # <<>>
      /\ \A i \in 1 .. Len(ran') - 1 : ran'[i] = 0
  BY <1>1, AppendProperties
<1>3. Last' = s
  BY <1>2 DEF Last
<1>4. CASE s # 0
  BY <1>1, <1>2, <1>3, <1>4 DEF BenchReturns, RunsOK, ExitOK, Places, semihostVars, targetVars, hostVars
<1>5. CASE s = 0
  BY <1>1, <1>2, <1>3, <1>5 DEF BenchReturns, RunsOK, ExitOK, Places, semihostVars, targetVars, hostVars
<1> QED BY <1>4, <1>5

\* A call that is no exit
LEMMA CallKeepsExit ==
  ASSUME RunsOK, ExitOK, NEW request, SemihostExec(request), request.op \notin {0, 32},
         UNCHANGED <<k, status, ran>>, pc # "exiting",
         pc' = pc \/ (pc = "cm_fini" /\ pc' = "cm_check")
  PROVE  RunsOK' /\ ExitOK'
<1>1. Last' = Last
  BY DEF Last
<1>2. pc' \in Places /\ pc' # "exiting"
  BY DEF RunsOK, Places
<1>3. RunsOK'
  BY <1>1, <1>2 DEF RunsOK
<1>4. ExitOK'
  <2>1. /\ halted' => call' # None /\ a0' = call'.op /\ a1' = call'.args
        /\ exited' = Running /\ call'.op # 32
    BY Operations DEF SemihostExec, ExitOK, hostVars, None
  <2> QED BY <1>2, <2>1 DEF ExitOK
<1> QED BY <1>3, <1>4

\* The program goes on without a call.
LEMMA StepKeepsExit ==
  ASSUME ExitOK, pc # "exiting", pc' # "exiting", UNCHANGED <<call, halted, a0, a1, exited>>
  PROVE  ExitOK'
  BY DEF ExitOK

\* The program starts with no run behind it.
LEMMA RunsInit == Init => RunsOK /\ ExitOK
<1> SUFFICES ASSUME Init PROVE RunsOK /\ ExitOK
  OBVIOUS
<1>1. 0 \in Status /\ 0 \in 0 .. Repeat
  BY SemihostingAssumption, BareMetalAssumption DEF Status
<1>2. ran = <<>> /\ Len(ran) = 0 /\ ran \in Seq(Status) /\ pc = "start" /\ Last = 0
  BY DEF Init, Last
<1> QED BY <1>1, <1>2 DEF Init, RunsOK, ExitOK, Places, None

\* A step of the program keeps what is known of its runs and its exit.
LEMMA ProgramKeepsRuns ==
  ASSUME RunsOK, ExitOK, Program
  PROVE  RunsOK' /\ ExitOK'
<1> USE DEF Goto
<1> DEFINE Kept == UNCHANGED <<call, halted, a0, a1, exited>>
<1>1. ASSUME UNCHANGED semihostVars PROVE Kept
  BY <1>1 DEF semihostVars, targetVars, hostVars
<1>2. UNCHANGED ran => Last' = Last
  BY DEF Last
<1> HIDE DEF Kept
<1>3. CASE Start \/ MainRuns \/ MainDone \/ CoreMarkStarts \/ CoreMarkStops
  <2>1. Kept
    BY <1>1, <1>3 DEF Start, MainRuns, MainDone, CoreMarkStarts, CoreMarkStops
  <2>2. ExitOK'
    BY <1>3, <2>1, StepKeepsExit DEF Kept, Start, MainRuns, MainDone, CoreMarkStarts, CoreMarkStops
  <2>3. RunsOK'
    <3>1. 0 \in Status
      BY SemihostingAssumption DEF Status
    <3>2. CASE Start \/ MainRuns \/ CoreMarkStarts \/ CoreMarkStops
      BY <1>2, <3>2, BareMetalAssumption
         DEF RunsOK, Places, Start, MainRuns, CoreMarkStarts, CoreMarkStops, InBench
    <3>3. CASE MainDone
      BY <1>2, <3>1, <3>3 DEF RunsOK, Places, MainDone
    <3> QED BY <1>3, <3>2, <3>3
  <2> QED BY <2>2, <2>3
<1>4. CASE Exit
  <2>1. call' = SemihostExit(status) /\ status = Last /\ Last' = Last
    BY <1>2, <1>4 DEF Exit, SemihostExec, RunsOK
  <2>2. call' # None /\ call'.op = 32
    BY <2>1, Operations DEF SemihostExit, Request, None
  <2>3. halted' /\ a0' = call'.op /\ a1' = call'.args /\ exited' = Running
    BY <1>4 DEF Exit, SemihostExec, ExitOK, hostVars
  <2>4. call' = SemihostExit(Last)'
    BY <2>1 DEF SemihostExit, Request, Field
  <2>5. pc' = "exiting" /\ pc = "exit" /\ UNCHANGED <<k, status, ran>>
    BY <1>4 DEF Exit
  <2>6. ExitOK'
    BY <2>2, <2>3, <2>4, <2>5 DEF ExitOK
  <2>7. RunsOK'
    BY <2>1, <2>5 DEF RunsOK, Places
  <2> QED BY <2>6, <2>7
<1>5. CASE CallTerminal \/ CallFile \/ CallCmdline
  <2>1. PICK request, text : Calls(request, text) /\ request.op \notin {0, 32}
    BY <1>5, CallsAreNoExits
  <2> QED BY <2>1, CallKeepsExit DEF Calls, InBench
<1>6. CASE WriteOn \/ CoreMarkPrints
  <2>1. PICK request : SemihostExec(request) /\ request.op \notin {0, 32}
    BY <1>6, Operations DEF WriteOn, WriteNext, CoreMarkPrints, PollOut, SemihostWrite0, Request
  <2>2. pc # "exiting"
    BY <1>6 DEF ExitOK, WriteOn, WriteNext, SemihostExec, CoreMarkPrints
  <2> QED BY <1>6, <2>1, <2>2, CallKeepsExit DEF WriteOn, programVars, CoreMarkPrints
<1>7. CASE CallWrite \/ CallLibrary
  <2>1. /\ Kept /\ pc = "bench" /\ UNCHANGED <<pc, k, status, ran>>
    BY <1>1, <1>7 DEF Kept, CallWrite, CallLibrary, InBench, hostVars
  <2> QED BY <1>2, <2>1, StepKeepsExit DEF Kept, RunsOK
<1>8. CASE CallReturns
  <2>1. ~halted /\ ~halted' /\ call' = None /\ UNCHANGED <<exited, pc, k, status, ran>>
    BY <1>8 DEF CallReturns, Return, programVars, hostVars
  <2> QED BY <1>2, <2>1 DEF ExitOK, RunsOK, None
<1>9. CASE BenchEnds
  BY <1>9, ReturnKeepsRuns, BareMetalAssumption DEF BenchEnds, InBench, Status, RunsOK
<1>10. CASE CoreMarkChecks
  <2>1. 0 \in Status /\ k < Repeat /\ pc = "cm_check"
    BY <1>10, SemihostingAssumption DEF Status, CoreMarkChecks, RunsOK
  <2>2. CASE CrcsAreKnown(cm.crcs)
    BY <1>10, <2>1, <2>2, ReturnKeepsRuns DEF CoreMarkChecks
  <2>3. CASE ~ CrcsAreKnown(cm.crcs)
    <3>1. /\ pc' = "exiting" /\ ran' = Append(ran, 1) /\ SemihostExec(SemihostExit(1))
          /\ UNCHANGED <<k, status>>
      BY <1>10, <2>3 DEF CoreMarkChecks
    <3>2. 1 \in Status
      BY SemihostingAssumption, FieldAssumption DEF Status, SEMIHOST_STOPPED_APP_EXIT
    <3>3. ran \in Seq(Status) /\ Len(ran) = k /\ \A i \in 1 .. Len(ran) : ran[i] = 0
      <4>1. \A i \in 1 .. Len(ran) : i = Len(ran) \/ i \in 1 .. Len(ran) - 1
        BY LenProperties DEF RunsOK
      <4> QED BY <2>1, <4>1, LenProperties DEF RunsOK, Last
    <3>4. /\ ran' \in Seq(Status) /\ Len(ran') = k + 1 /\ ran'[Len(ran')] = 1 /\ ran' # <<>>
          /\ \A i \in 1 .. Len(ran') - 1 : ran'[i] = 0
      BY <3>1, <3>2, <3>3, AppendProperties, BareMetalAssumption DEF RunsOK
    <3>5. Last' = 1
      BY <3>4 DEF Last
    <3>6. /\ halted' /\ call' = SemihostExit(1) /\ a0' = call'.op /\ a1' = call'.args
          /\ exited' = Running
      BY <2>1, <3>1 DEF SemihostExec, ExitOK, hostVars
    <3>7. SemihostExit(1) # None /\ SemihostExit(Last)' = SemihostExit(1)
      BY <3>5, Operations DEF SemihostExit, Request, None, Field
    <3>8. ExitOK'
      BY <3>1, <3>6, <3>7 DEF ExitOK
    <3>9. RunsOK'
      BY <3>1, <3>4, <3>5 DEF RunsOK, Places
    <3> QED BY <3>8, <3>9
  <2> QED BY <2>2, <2>3
<1> QED BY <1>3, <1>4, <1>5, <1>6, <1>7, <1>8, <1>9, <1>10 DEF Program

\* The host resumes the core from any call but an exit.
LEMMA ServeIs ==
  ASSUME Serve
  PROVE  \/ \E ret : Resume(ret) /\ halted /\ a0 \in {1, 2, 3, 4, 5, 6, 7, 10, 12, 21}
         \/ ServeExit
<1> USE DEF Asked
<1>1. CASE ServeOpen
  <2>1. \E ret : Resume(ret)
    BY <1>1 DEF ServeOpen
  <2> QED BY <1>1, <2>1 DEF ServeOpen
<1>2. CASE ServeClose \/ ServeFlen \/ ServeSeek
  BY <1>2 DEF ServeClose, ServeFlen, ServeSeek
<1>3. CASE ServeRead
  <2>1. \E ret : Resume(ret)
    BY <1>3 DEF ServeRead
  <2> QED BY <1>3, <2>1 DEF ServeRead
<1>4. CASE ServeWrite
  <2>1. \E ret : Resume(ret)
    BY <1>4 DEF ServeWrite
  <2> QED BY <1>4, <2>1 DEF ServeWrite
<1>5. CASE ServeTerminal \/ ServeReadc \/ ServeGetCmdline
  BY <1>5 DEF ServeTerminal, ServeReadc, ServeGetCmdline
<1> QED BY <1>1, <1>2, <1>3, <1>4, <1>5 DEF Serve

\* So does a step of the host.
LEMMA HostKeepsRuns ==
  ASSUME RunsOK, ExitOK, Host
  PROVE  RunsOK' /\ ExitOK'
<1>1. UNCHANGED <<pc, k, status, ran>> /\ Last' = Last
  BY DEF Host, programVars, Last
<1>2. RunsOK'
  BY <1>1 DEF RunsOK
<1>3. SemihostExit(Last)' = SemihostExit(Last) /\ Field(Last)' = Field(Last)
  BY <1>1 DEF SemihostExit, Request, Field
<1>4. SemihostExit(Last).op = 32 /\ SemihostExit(Last).args = <<131110, Field(Last)>>
  BY Operations DEF SemihostExit, Request, SEMIHOST_STOPPED_APP_EXIT
<1>5. CASE \E ret : Resume(ret) /\ halted /\ a0 \in {1, 2, 3, 4, 5, 6, 7, 10, 12, 21}
  <2>1. pc # "exiting"
    BY <1>4, <1>5 DEF ExitOK
  <2>2. ~ halted' /\ call' = call /\ exited' = exited
    BY <1>5 DEF Resume
  <2> QED BY <1>1, <1>2, <2>1, <2>2 DEF ExitOK
<1>6. CASE ServeExit
  <2>1. halted /\ a0 = 32 /\ UNCHANGED targetVars
    BY <1>6 DEF ServeExit, Asked
  <2>2. pc = "exiting" /\ a1 = <<131110, Field(Last)>>
    BY <1>4, <2>1 DEF ExitOK
  <2>3. exited' = Field(Last)
    BY <1>6, <2>2 DEF ServeExit
  <2>4. ExitOK'
    BY <1>1, <1>3, <2>1, <2>2, <2>3 DEF ExitOK, targetVars
  <2> QED BY <1>2, <2>4
<1> QED BY <1>5, <1>6, ServeIs DEF Host

\* Every step of the program and of the host keeps the runs and the exit.
LEMMA RunsInvariant == Spec => [](RunsOK /\ ExitOK)
<1>1. RunsOK /\ ExitOK /\ [Next]_vars => (RunsOK /\ ExitOK)'
  <2> SUFFICES ASSUME RunsOK, ExitOK, [Next]_vars PROVE (RunsOK /\ ExitOK)'
    OBVIOUS
  <2>1. CASE Next
    BY <2>1, ProgramKeepsRuns, HostKeepsRuns DEF Next
  <2>2. CASE UNCHANGED vars
    BY <2>2 DEF vars, semihostVars, targetVars, hostVars, programVars, RunsOK, ExitOK, Last,
                SemihostExit, Request, Field
  <2> QED BY <2>1, <2>2
<1> QED BY RunsInit, <1>1, PTL DEF Spec

\* The host is told the status of the first run that failed, or 0 when all were good,
\* whatever the benchmarks return.
THEOREM ExitIsFirstFailure == Spec => []ExitTellsFirstFailure
<1>1. ASSUME RunsOK, ExitOK, exited # Running
      PROVE  /\ \A i \in 1 .. Len(ran) - 1 : ran[i] = 0
             /\ exited = IF ran = <<>> THEN 0 ELSE Field(ran[Len(ran)])
             /\ exited = 0 => Len(ran) = Repeat
  <2>1. pc = "exiting" /\ exited = Field(Last)
    BY <1>1 DEF ExitOK
  <2>2. Last \in Status /\ 0 \in Status
    BY <1>1, SemihostingAssumption, LenProperties, EmptySeq DEF RunsOK, Last, Status
  <2>3. Field(0) = 0 /\ (exited = 0 => Last = 0)
    BY <2>1, <2>2, StatusField
  <2> QED BY <1>1, <2>1, <2>3 DEF RunsOK, Last
<1>2. RunsOK /\ ExitOK => ExitTellsFirstFailure
  BY <1>1 DEF ExitTellsFirstFailure
<1> QED BY <1>2, RunsInvariant, PTL

-----------------------------------------------------------------------------
(* The loops of the C library.                                             *)

\* A set of numbers up to n has a least one.
LEMMA LeastIs ==
  ASSUME NEW n \in Nat, NEW r \in SUBSET (0 .. n), r # {}
  PROVE  \E i \in r : \A j \in r : i <= j
<1> DEFINE Below(i) == {j \in r : j < i}
           T == {Below(i) : i \in r}
<1>1. IsFiniteSet(r)
  BY FS_BoundedSetOfNaturals
<1>2. T \subseteq SUBSET r /\ T # {}
  OBVIOUS
<1>3. PICK s \in T : \A t \in T : ~ (<<t, s>> \in StrictSubsetOrdering(r))
  <2>1. IsWellFoundedOn(StrictSubsetOrdering(r), SUBSET r)
    BY <1>1, FS_StrictSubsetOrderingWellFounded, FS_FiniteSubsetsOfFinite
  <2> QED BY <2>1, <1>2, WFMin, Zenon
<1>4. PICK i \in r : s = Below(i)
  BY <1>3
<1>5. ASSUME NEW j \in r, j < i PROVE FALSE
  <2>1. Below(j) \in T
    OBVIOUS
  <2>2. j \in Below(i) /\ j \notin Below(j)
    BY <1>5
  <2>3. Below(j) \subseteq Below(i)
    <3> SUFFICES ASSUME NEW l \in r, l < j PROVE l < i
      OBVIOUS
    <3>1. i \in Int /\ j \in Int /\ l \in Int
      OBVIOUS
    <3> QED BY <1>5, <3>1
  <2>4. <<Below(j), s>> \in StrictSubsetOrdering(r)
    <3>1. Below(j) # Below(i)
      BY <2>2, Zenon
    <3> QED BY <1>4, <2>3, <3>1, <1>2 DEF StrictSubsetOrdering
  <2> QED BY <1>3, <2>1, <2>4, Zenon
<1> QED BY <1>5

\* A set with 0 that has the next number with each number below n has all up to n.
LEMMA Counting ==
  ASSUME NEW n \in Nat, NEW P, 0 \in P, \A i \in 1 .. n : i - 1 \in P => i \in P
  PROVE  \A i \in 0 .. n : i \in P
<1> DEFINE r == {i \in 0 .. n : i \notin P}
<1> SUFFICES ASSUME r # {} PROVE FALSE
  OBVIOUS
<1>1. PICK i \in r : \A j \in r : i <= j
  BY LeastIs
<1>2. i \in 1 .. n /\ i - 1 \in 0 .. n /\ i - 1 \notin r
  BY <1>1
<1> QED BY <1>2

\* The least of a set of numbers that has one
LEMMA MinIs ==
  ASSUME NEW S \in SUBSET Nat, NEW i \in S, \A j \in S : i <= j
  PROVE  Min(S) = i
<1>1. \A x \in S : (\A y \in S : x <= y) => x = i
  OBVIOUS
<1>2. Min(S) = CHOOSE x \in S : \A y \in S : x <= y
  BY DEF Min
<1> QED BY <1>1, <1>2

\* memcpy of areas that do not overlap gives dest the characters of src, and nothing else.
LEMMA CopiedIs ==
  ASSUME NEW m \in [Addresses -> Chars], NEW d \in Addresses, NEW s \in Addresses,
         NEW n \in Nat, MayCopy(d, s, n)
  PROVE  Copied(m, d, s, n) =
           [a \in Addresses |-> IF a \in d .. d + n - 1 THEN m[s + a - d] ELSE m[a]]
<1> DEFINE g(i) == [a \in Addresses |-> IF a \in d .. d + i - 1 THEN m[s + a - d] ELSE m[a]]
           Step(f, i) == [f[i - 1] EXCEPT ![d + i - 1] = f[i - 1][s + i - 1]]
           Loop(f) == f = [i \in 0 .. n |-> IF i = 0 THEN m ELSE Step(f, i)]
           G == [i \in 0 .. n |-> g(i)]
           after == CHOOSE f : Loop(f)
<1>1. /\ MemSize \in Nat /\ d \in Nat /\ s \in Nat /\ d + n <= MemSize /\ s + n <= MemSize
      /\ d + n <= s \/ s + n <= d
  BY LibraryAssumption DEF MayCopy, Disjoint, Addresses
<1>2. Copied(m, d, s, n) = after[n]
  BY DEF Copied
<1>3. g(0) = m
  BY <1>1 DEF Addresses
<1>4. ASSUME NEW i \in 1 .. n, NEW f, f[i - 1] = g(i - 1) PROVE Step(f, i) = g(i)
  <2>1. d + i - 1 \in Addresses /\ s + i - 1 \in Addresses
    BY <1>1 DEF Addresses
  <2>2. g(i - 1)[s + i - 1] = m[s + i - 1]
    BY <1>1, <2>1 DEF Addresses
  <2>3. Step(f, i) = [g(i - 1) EXCEPT ![d + i - 1] = m[s + i - 1]]
    BY <1>4, <2>2
  <2>4. ASSUME NEW a \in Addresses
        PROVE  [g(i - 1) EXCEPT ![d + i - 1] = m[s + i - 1]][a] = g(i)[a]
    BY <1>1, <2>1 DEF Addresses
  <2>5. [g(i - 1) EXCEPT ![d + i - 1] = m[s + i - 1]] = [a \in Addresses |-> g(i)[a]]
    BY <2>4
  <2> QED BY <2>3, <2>5
<1> HIDE DEF g, Step
<1>5. Loop(G)
  <2>1. \A i \in 0 .. n : G[i] = IF i = 0 THEN m ELSE Step(G, i)
    BY <1>3, <1>4
  <2> QED BY <2>1
<1>6. Loop(after)
  BY <1>5
<1> HIDE DEF after, G
<1>7. \A i \in 0 .. n : after[i] = IF i = 0 THEN m ELSE Step(after, i)
  BY <1>6
<1>8. \A i \in 0 .. n : i \in {j \in 0 .. n : after[j] = g(j)}
  <2> DEFINE P == {j \in 0 .. n : after[j] = g(j)}
  <2>1. 0 \in P
    BY <1>3, <1>7
  <2>2. \A i \in 1 .. n : i - 1 \in P => i \in P
    BY <1>4, <1>7
  <2> HIDE DEF P
  <2>3. \A i \in 0 .. n : i \in P
    BY <2>1, <2>2, Counting
  <2> QED BY <2>3 DEF P
<1>9. after[n] = g(n)
  BY <1>8
<1> QED BY <1>2, <1>9 DEF g

\* memset gives the area the character, and nothing else.
LEMMA MemsetIs ==
  ASSUME NEW m \in [Addresses -> Chars], NEW d \in Addresses, NEW c \in Chars,
         NEW n \in Nat, d + n <= MemSize
  PROVE  Memset(m, d, c, n) = [a \in Addresses |-> IF a \in d .. d + n - 1 THEN c ELSE m[a]]
<1> DEFINE g(i) == [a \in Addresses |-> IF a \in d .. d + i - 1 THEN c ELSE m[a]]
           Step(f, i) == [f[i - 1] EXCEPT ![d + i - 1] = c % 256]
           Loop(f) == f = [i \in 0 .. n |-> IF i = 0 THEN m ELSE Step(f, i)]
           G == [i \in 0 .. n |-> g(i)]
           after == CHOOSE f : Loop(f)
<1>1. /\ MemSize \in Nat /\ d \in Nat /\ c \in 0 .. 255 /\ c % 256 = c
  BY LibraryAssumption DEF Addresses
<1>2. Memset(m, d, c, n) = after[n]
  BY DEF Memset
<1>3. g(0) = m
  BY <1>1 DEF Addresses
<1>4. ASSUME NEW i \in 1 .. n, NEW f, f[i - 1] = g(i - 1) PROVE Step(f, i) = g(i)
  <2>1. Step(f, i) = [g(i - 1) EXCEPT ![d + i - 1] = c]
    BY <1>1, <1>4
  <2>2. ASSUME NEW a \in Addresses PROVE [g(i - 1) EXCEPT ![d + i - 1] = c][a] = g(i)[a]
    BY <1>1 DEF Addresses
  <2>3. [g(i - 1) EXCEPT ![d + i - 1] = c] = [a \in Addresses |-> g(i)[a]]
    BY <2>2
  <2> QED BY <2>1, <2>3
<1> HIDE DEF g, Step
<1>5. Loop(G)
  <2>1. \A i \in 0 .. n : G[i] = IF i = 0 THEN m ELSE Step(G, i)
    BY <1>3, <1>4
  <2> QED BY <2>1
<1>6. Loop(after)
  BY <1>5
<1> HIDE DEF after, G
<1>7. \A i \in 0 .. n : after[i] = IF i = 0 THEN m ELSE Step(after, i)
  BY <1>6
<1>8. \A i \in 0 .. n : i \in {j \in 0 .. n : after[j] = g(j)}
  <2> DEFINE P == {j \in 0 .. n : after[j] = g(j)}
  <2>1. 0 \in P
    BY <1>3, <1>7
  <2>2. \A i \in 1 .. n : i - 1 \in P => i \in P
    BY <1>4, <1>7
  <2> HIDE DEF P
  <2>3. \A i \in 0 .. n : i \in P
    BY <2>1, <2>2, Counting
  <2> QED BY <2>3 DEF P
<1>9. after[n] = g(n)
  BY <1>8
<1> QED BY <1>2, <1>9 DEF g

\* strlen gives the length of the string.
LEMMA StringIs ==
  ASSUME NEW m \in [Addresses -> Chars], NEW s \in Addresses,
         \E a \in s .. MemSize - 1 : m[a] = 0
  PROVE  LET n == StrlenAt(m, s) IN
         /\ n \in Nat /\ s + n < MemSize /\ m[s + n] = 0
         /\ \A i \in 0 .. n - 1 : m[s + i] # 0
         /\ StringAt(m, s) = [i \in 1 .. n |-> m[s + i - 1]]
<1> DEFINE S == {n \in 0 .. MemSize - 1 - s : m[s + n] = 0}
<1>1. MemSize \in Nat /\ s \in Nat /\ s < MemSize
  BY LibraryAssumption DEF Addresses
<1>2. S \in SUBSET (0 .. MemSize - 1 - s) /\ MemSize - 1 - s \in Nat /\ S \in SUBSET Nat
  BY <1>1
<1>3. S # {}
  <2>1. PICK a \in s .. MemSize - 1 : m[a] = 0
    OBVIOUS
  <2>2. a - s \in 0 .. MemSize - 1 - s /\ s + (a - s) = a
    BY <1>1
  <2> QED BY <2>1, <2>2
<1> HIDE DEF S
<1>4. PICK n \in S : \A j \in S : n <= j
  BY <1>2, <1>3, LeastIs
<1>5. StrlenAt(m, s) = n
  BY <1>2, <1>4, MinIs DEF StrlenAt, S
<1>6. /\ n \in Nat /\ s + n < MemSize /\ m[s + n] = 0
      /\ \A i \in 0 .. n - 1 : m[s + i] # 0
  <2>1. n \in 0 .. MemSize - 1 - s /\ m[s + n] = 0
    BY <1>4 DEF S
  <2>2. ASSUME NEW i \in 0 .. n - 1 PROVE m[s + i] # 0
    <3>1. i \in 0 .. MemSize - 1 - s /\ ~ n <= i
      BY <1>1, <2>1
    <3> QED BY <1>4, <3>1 DEF S
  <2> QED BY <1>1, <2>1, <2>2
<1>7. StringAt(m, s) = [i \in 1 .. n |-> m[s + i - 1]]
  <2> DEFINE End(a) == m[a] = 0 /\ \A b \in s .. a - 1 : m[b] # 0
             end == CHOOSE a \in s .. MemSize - 1 : End(a)
  <2>1. s + n \in s .. MemSize - 1 /\ End(s + n)
    <3>1. ASSUME NEW b \in s .. s + n - 1 PROVE m[b] # 0
      <4>1. b - s \in 0 .. n - 1 /\ s + (b - s) = b
        BY <1>1, <1>6
      <4> QED BY <1>6, <4>1
    <3> QED BY <1>1, <1>6, <3>1
  <2>2. ASSUME NEW a \in s .. MemSize - 1, End(a) PROVE a = s + n
    <3>1. ~ a < s + n
      <4>1. a < s + n => a \in s .. s + n - 1
        BY <1>1, <1>6
      <4> QED BY <2>1, <2>2, <4>1
    <3>2. ~ s + n < a
      <4>1. s + n < a => s + n \in s .. a - 1
        BY <1>1, <1>6
      <4> QED BY <1>6, <2>2, <4>1
    <3> QED BY <1>1, <1>6, <3>1, <3>2
  <2> HIDE DEF End
  <2>3. end = s + n
    BY <2>1, <2>2
  <2> HIDE DEF end
  <2>4. end - s = n
    BY <1>1, <1>6, <2>3
  <2>5. StringAt(m, s) = [i \in 1 .. end - s |-> m[s + i - 1]]
    BY DEF StringAt, End, end
  <2> QED BY <2>4, <2>5
<1> QED BY <1>5, <1>6, <1>7

\* strcpy copies the string with its end.
LEMMA StrcpyIs ==
  ASSUME NEW m \in [Addresses -> Chars], NEW d \in Addresses, NEW s \in Addresses,
         \E a \in s .. MemSize - 1 : m[a] = 0, MayCopy(d, s, StrlenAt(m, s) + 1)
  PROVE  Strcpy(m, d, s) = Memcpy(m, d, s, StrlenAt(m, s) + 1)
<1> DEFINE n == StrlenAt(m, s)
           Ends(i) == Copied(m, d, s, i)[s + i - 1] = 0
           First(i) == Ends(i) /\ \A j \in 1 .. i - 1 : ~ Ends(j)
<1>1. /\ n \in Nat /\ s + n < MemSize /\ m[s + n] = 0
      /\ \A i \in 0 .. n - 1 : m[s + i] # 0
  BY StringIs
<1> HIDE DEF n
<1>2. /\ MemSize \in Nat /\ d \in Nat /\ s \in Nat /\ d + n + 1 <= MemSize
      /\ d + n + 1 <= s \/ s + n + 1 <= d
  BY <1>1, LibraryAssumption DEF MayCopy, Disjoint, Addresses, n
<1>3. ASSUME NEW i \in 1 .. n + 1 PROVE Ends(i) <=> i = n + 1
  <2>1. MayCopy(d, s, i) /\ i \in Nat /\ s + i - 1 \in Addresses /\ s + i - 1 \notin d .. d + i - 1
    BY <1>1, <1>2 DEF MayCopy, Disjoint, Addresses
  <2>2. Copied(m, d, s, i)[s + i - 1] = m[s + i - 1]
    BY <2>1, CopiedIs
  <2>3. i - 1 \in 0 .. n - 1 \/ i = n + 1
    BY <1>1
  <2>4. s + (i - 1) = s + i - 1 /\ s + (n + 1) - 1 = s + n
    BY <1>1, <1>2
  <2> QED BY <1>1, <2>2, <2>3, <2>4
<1> HIDE DEF Ends
<1>4. n + 1 \in 1 .. MemSize /\ First(n + 1)
  BY <1>1, <1>2, <1>3
<1>5. ASSUME NEW i \in 1 .. MemSize, First(i) PROVE i = n + 1
  <2>1. i < n + 1 => i \in 1 .. n + 1
    BY <1>1
  <2>2. n + 1 < i => n + 1 \in 1 .. i - 1
    BY <1>1
  <2> QED BY <1>1, <1>3, <1>4, <1>5, <2>1, <2>2
<1>6. Strcpy(m, d, s) = Copied(m, d, s, CHOOSE i \in 1 .. MemSize : First(i))
  BY DEF Strcpy, Ends
<1> HIDE DEF First
<1>7. (CHOOSE i \in 1 .. MemSize : First(i)) = n + 1
  BY <1>4, <1>5
<1> QED BY <1>6, <1>7 DEF Memcpy, n

\* The order of two strings is that of the characters after what they have in common,
\* when the end of a string counts as 0.
LEMMA SmallerIs ==
  ASSUME NEW u \in Seq(Nat \ {0}), NEW v \in Seq(Nat \ {0}), NEW n \in Nat,
         n <= Len(u), n <= Len(v), \A i \in 1 .. n : u[i] = v[i],
         NEW x, n = Len(u) => x = 0, n # Len(u) => x = u[n + 1],
         NEW y, n = Len(v) => y = 0, n # Len(v) => y = v[n + 1],
         x = y => x = 0
  PROVE  Smaller(u, v) <=> x < y
<1>1. /\ Len(u) \in Nat /\ Len(v) \in Nat
      /\ \A i \in 1 .. Len(u) : u[i] \in Nat \ {0}
      /\ \A i \in 1 .. Len(v) : v[i] \in Nat \ {0}
  BY LenProperties, ElementOfSeq
<1>2. ASSUME NEW j \in Nat, j <= Len(u), j <= Len(v)
      PROVE  SubSeq(u, 1, j) = SubSeq(v, 1, j) <=> \A i \in 1 .. j : u[i] = v[i]
  <2> DEFINE a == SubSeq(u, 1, j)
             b == SubSeq(v, 1, j)
  <2>1. /\ \A i \in 1 .. j : u[i] \in Nat
        /\ \A i \in 1 .. j : v[i] \in Nat
    <3> HIDE DEF a, b
    <3>1. \A i \in 1 .. j : i \in 1 .. Len(u) /\ i \in 1 .. Len(v)
      BY <1>1, <1>2
    <3> QED BY <1>1, <3>1
  <2>2. /\ a \in Seq(Nat) /\ Len(a) = j /\ \A i \in 1 .. j : a[i] = u[i]
        /\ b \in Seq(Nat) /\ Len(b) = j /\ \A i \in 1 .. j : b[i] = v[i]
    <3>1. j - 1 + 1 = j /\ (IF 1 <= j THEN j - 1 + 1 ELSE 0) = j /\ \A i \in 1 .. j : 1 + i - 1 = i
      OBVIOUS
    <3> QED BY <2>1, <3>1, SubSeqProperties
  <2> HIDE DEF a, b
  <2>3. a = b <=> \A i \in 1 .. j : a[i] = b[i]
    BY <2>2, SeqEqual
  <2> QED BY <2>2, <2>3 DEF a, b
<1>3. x \in Nat /\ y \in Nat /\ (n < Len(u) <=> x > 0) /\ (n < Len(v) <=> y > 0)
  BY <1>1
<1>4. ASSUME Smaller(u, v) PROVE x < y
  <2>1. PICK j \in 0 .. Len(u) :
              /\ j <= Len(v) /\ SubSeq(u, 1, j) = SubSeq(v, 1, j)
              /\ j < Len(v)
              /\ j = Len(u) \/ u[j + 1] < v[j + 1]
    BY <1>4 DEF Smaller
  <2>2. j \in Nat /\ \A i \in 1 .. j : u[i] = v[i]
    BY <1>1, <1>2, <2>1
  <2>3. CASE j < n
    <3>1. j + 1 \in 1 .. n /\ u[j + 1] = v[j + 1] /\ j # Len(u) /\ u[j + 1] \in Nat
      BY <1>1, <2>2, <2>3
    <3> QED BY <2>1, <3>1
  <2>4. CASE n < j
    <3>1. n + 1 \in 1 .. j /\ n < Len(u) /\ n < Len(v)
      BY <1>1, <2>1, <2>2, <2>4
    <3>2. x = u[n + 1] /\ y = v[n + 1] /\ u[n + 1] = v[n + 1]
      BY <2>2, <3>1
    <3> QED BY <1>3, <3>1, <3>2
  <2>5. CASE n = j
    BY <1>1, <1>3, <2>1, <2>5
  <2> QED BY <2>2, <2>3, <2>4, <2>5
<1>5. ASSUME x < y PROVE Smaller(u, v)
  <2>1. n < Len(v) /\ n \in 0 .. Len(u)
    BY <1>1, <1>3, <1>5
  <2>2. SubSeq(u, 1, n) = SubSeq(v, 1, n)
    BY <1>2
  <2>3. n = Len(u) \/ u[n + 1] < v[n + 1]
    BY <1>1, <1>5, <2>1
  <2> QED BY <2>1, <2>2, <2>3 DEF Smaller
<1> QED BY <1>4, <1>5

\* strcmp tells the order of two strings.
LEMMA StrcmpIs ==
  ASSUME NEW m \in [Addresses -> Chars], NEW d \in Addresses, NEW s \in Addresses,
         \E a \in d .. MemSize - 1 : m[a] = 0, \E a \in s .. MemSize - 1 : m[a] = 0
  PROVE  LET u == StringAt(m, d)
             v == StringAt(m, s)
             order == Strcmp(m, d, s)
         IN  (order < 0 <=> Smaller(u, v)) /\ (order > 0 <=> Smaller(v, u))
<1> DEFINE p == StrlenAt(m, d)
           q == StrlenAt(m, s)
           u == StringAt(m, d)
           v == StringAt(m, s)
           last == MemSize - 1 - (IF d < s THEN s ELSE d)
           S == {i \in 0 .. last : m[d + i] = 0 \/ m[d + i] # m[s + i]}
<1>1. /\ p \in Nat /\ d + p < MemSize /\ m[d + p] = 0
      /\ \A i \in 0 .. p - 1 : m[d + i] # 0
      /\ u = [i \in 1 .. p |-> m[d + i - 1]]
  BY StringIs
<1>2. /\ q \in Nat /\ s + q < MemSize /\ m[s + q] = 0
      /\ \A i \in 0 .. q - 1 : m[s + i] # 0
      /\ v = [i \in 1 .. q |-> m[s + i - 1]]
  BY StringIs
<1> HIDE DEF p, q, u, v, last, S
<1>3. /\ MemSize \in Nat /\ d \in Nat /\ s \in Nat /\ d < MemSize /\ s < MemSize
      /\ \A a \in Addresses : m[a] \in Nat
  <2>1. MemSize \in Nat /\ d \in Nat /\ s \in Nat /\ d < MemSize /\ s < MemSize
    BY LibraryAssumption DEF Addresses
  <2>2. \A a \in Addresses : m[a] \in Chars
    OBVIOUS
  <2>3. \A c \in Chars : c \in Nat
    BY LibraryAssumption
  <2> QED BY <2>1, <2>2, <2>3, Zenon
<1>4. last \in Nat /\ d + last < MemSize /\ s + last < MemSize /\ (d + last = MemSize - 1 \/ s + last = MemSize - 1)
  BY <1>3 DEF last
<1>5. S \in SUBSET (0 .. last) /\ S \in SUBSET Nat
  BY DEF S
<1>6. \E i \in S : i <= p /\ i <= q
  <2>1. CASE p <= q
    <3>1. p \in 0 .. last
      BY <1>1, <1>2, <1>3, <1>4, <2>1
    <3>2. p \in S
      BY <1>1, <3>1 DEF S
    <3> QED BY <1>1, <2>1, <3>2
  <2>2. CASE q < p
    <3>1. q \in 0 .. last /\ q \in 0 .. p - 1 /\ q <= p /\ q <= q
      BY <1>1, <1>2, <1>3, <1>4, <2>2
    <3>2. m[d + q] # m[s + q]
      BY <1>1, <1>2, <3>1
    <3>3. q \in S
      BY <3>1, <3>2 DEF S
    <3> QED BY <3>1, <3>3
  <2> QED BY <1>1, <1>2, <2>1, <2>2
<1>7. PICK n \in S : \A j \in S : n <= j
  BY <1>4, <1>5, <1>6, LeastIs
<1>8. Strcmp(m, d, s) = m[d + n] - m[s + n]
  <2>1. Min(S) = n
    BY <1>5, <1>7, MinIs
  <2> QED BY <2>1 DEF Strcmp, S, last
<1>9. /\ n \in 0 .. last /\ n <= p /\ n <= q /\ (m[d + n] = 0 \/ m[d + n] # m[s + n])
      /\ d + n \in Addresses /\ s + n \in Addresses
      /\ \A i \in 0 .. n - 1 : m[d + i] = m[s + i]
  <2>1. n \in 0 .. last /\ n <= p /\ n <= q /\ (m[d + n] = 0 \/ m[d + n] # m[s + n])
    BY <1>1, <1>2, <1>5, <1>6, <1>7 DEF S
  <2>2. ASSUME NEW i \in 0 .. n - 1 PROVE m[d + i] = m[s + i]
    <3>1. i \in 0 .. last /\ ~ n <= i
      BY <1>4, <2>1
    <3> QED BY <1>7, <3>1 DEF S
  <2> QED BY <1>3, <1>4, <2>1, <2>2 DEF Addresses
<1>10. u \in Seq(Nat \ {0}) /\ Len(u) = p /\ v \in Seq(Nat \ {0}) /\ Len(v) = q
  <2>1. \A i \in 1 .. p : m[d + i - 1] \in Nat \ {0}
    <3> SUFFICES ASSUME NEW i \in 1 .. p PROVE m[d + i - 1] \in Nat \ {0}
      OBVIOUS
    <3>1. i - 1 \in 0 .. p - 1 /\ d + (i - 1) = d + i - 1 /\ d + i - 1 \in Addresses
      BY <1>1, <1>3 DEF Addresses
    <3> QED BY <1>1, <1>3, <3>1
  <2>2. \A i \in 1 .. q : m[s + i - 1] \in Nat \ {0}
    <3> SUFFICES ASSUME NEW i \in 1 .. q PROVE m[s + i - 1] \in Nat \ {0}
      OBVIOUS
    <3>1. i - 1 \in 0 .. q - 1 /\ s + (i - 1) = s + i - 1 /\ s + i - 1 \in Addresses
      BY <1>2, <1>3 DEF Addresses
    <3> QED BY <1>2, <1>3, <3>1
  <2> QED BY <1>1, <1>2, <2>1, <2>2
<1>11. /\ \A i \in 1 .. n : u[i] = v[i]
       /\ m[d + n] = IF n = Len(u) THEN 0 ELSE u[n + 1]
       /\ m[s + n] = IF n = Len(v) THEN 0 ELSE v[n + 1]
  <2>1. \A i \in 1 .. n : i - 1 \in 0 .. n - 1 /\ i \in 1 .. p /\ i \in 1 .. q
                          /\ d + (i - 1) = d + i - 1 /\ s + (i - 1) = s + i - 1
    BY <1>1, <1>2, <1>3, <1>4, <1>9
  <2>2. \A i \in 1 .. n : u[i] = v[i]
    BY <1>1, <1>2, <1>9, <2>1
  <2>3. m[d + n] = IF n = Len(u) THEN 0 ELSE u[n + 1]
    <3>1. CASE n = p
      BY <1>1, <1>10, <3>1
    <3>2. CASE n # p
      <4>1. n + 1 \in 1 .. p /\ d + (n + 1) - 1 = d + n
        BY <1>1, <1>3, <1>9, <3>2
      <4> QED BY <1>1, <1>10, <3>2, <4>1
    <3> QED BY <3>1, <3>2
  <2>4. m[s + n] = IF n = Len(v) THEN 0 ELSE v[n + 1]
    <3>1. CASE n = q
      BY <1>2, <1>10, <3>1
    <3>2. CASE n # q
      <4>1. n + 1 \in 1 .. q /\ s + (n + 1) - 1 = s + n
        BY <1>2, <1>3, <1>9, <3>2
      <4> QED BY <1>2, <1>10, <3>2, <4>1
    <3> QED BY <3>1, <3>2
  <2> QED BY <2>2, <2>3, <2>4
<1>12. n \in Nat /\ m[d + n] \in Nat /\ m[s + n] \in Nat
  BY <1>3, <1>9
<1>13. m[d + n] = m[s + n] => m[d + n] = 0 /\ m[s + n] = 0
  BY <1>9
<1>14. ASSUME NEW x, x = m[d + n], NEW y, y = m[s + n]
       PROVE  (x < y <=> Smaller(u, v)) /\ (y < x <=> Smaller(v, u))
  <2>1. /\ (n = Len(u) => x = 0) /\ (n # Len(u) => x = u[n + 1])
        /\ (n = Len(v) => y = 0) /\ (n # Len(v) => y = v[n + 1])
        /\ \A i \in 1 .. n : u[i] = v[i]
        /\ \A i \in 1 .. n : v[i] = u[i]
    BY <1>11, <1>14
  <2>2. n <= Len(u) /\ n <= Len(v) /\ (x = y => x = 0) /\ (y = x => y = 0)
    BY <1>9, <1>10, <1>13, <1>14
  <2>3. u \in Seq(Nat \ {0}) /\ v \in Seq(Nat \ {0}) /\ n \in Nat
    BY <1>10, <1>12
  <2>4. Smaller(u, v) <=> x < y
    BY <2>1, <2>2, <2>3, SmallerIs, Zenon
  <2>5. Smaller(v, u) <=> y < x
    BY <2>1, <2>2, <2>3, SmallerIs, Zenon
  <2> QED BY <2>4, <2>5
<1>15. /\ m[d + n] - m[s + n] < 0 <=> m[d + n] < m[s + n]
       /\ m[d + n] - m[s + n] > 0 <=> m[s + n] < m[d + n]
  BY <1>12
<1> QED BY <1>8, <1>14, <1>15 DEF u, v
-----------------------------------------------------------------------------
\* The memory of the strings holds characters.
MemOK == mem \in [Addresses -> Chars]

\* Both areas of a legal copy are in the memory.
LEMMA Areas ==
  ASSUME MemOK, NEW d \in Addresses, NEW s \in Addresses, NEW n \in Nat, MayCopy(d, s, n)
  PROVE  \A a \in d .. d + n - 1 : a \in Addresses /\ s + a - d \in Addresses
                                  /\ s + a - d \in s .. s + n - 1
  BY LibraryAssumption DEF MayCopy, Addresses

\* What memcpy gives is a memory.
LEMMA MemcpyKeeps ==
  ASSUME MemOK, NEW d \in Addresses, NEW s \in Addresses, NEW n \in Nat, MayCopy(d, s, n)
  PROVE  Memcpy(mem, d, s, n) \in [Addresses -> Chars]
<1>1. Memcpy(mem, d, s, n) =
        [a \in Addresses |-> IF a \in d .. d + n - 1 THEN mem[s + a - d] ELSE mem[a]]
  BY CopiedIs DEF Memcpy, MemOK
<1>2. \A a \in Addresses : (IF a \in d .. d + n - 1 THEN mem[s + a - d] ELSE mem[a]) \in Chars
  BY Areas DEF MemOK
<1> QED BY <1>1, <1>2

\* An area behind a string that ends there has room for a copy of it.
LEMMA StringLength ==
  ASSUME MemOK, NEW s \in Addresses, IsString(s)
  PROVE  LET n == StrlenAt(mem, s) IN
         /\ n \in Nat /\ s + n < MemSize /\ mem[s + n] = 0
         /\ \A i \in 0 .. n - 1 : mem[s + i] # 0
         /\ StringAt(mem, s) = [i \in 1 .. n |-> mem[s + i - 1]]
         /\ Len(StringAt(mem, s)) = n
<1> DEFINE n == StrlenAt(mem, s)
<1>1. /\ n \in Nat /\ s + n < MemSize /\ mem[s + n] = 0
      /\ \A i \in 0 .. n - 1 : mem[s + i] # 0
      /\ StringAt(mem, s) = [i \in 1 .. n |-> mem[s + i - 1]]
  BY StringIs DEF MemOK, IsString
<1> HIDE DEF n
<1>2. Len(StringAt(mem, s)) = n
  BY <1>1
<1> QED BY <1>1, <1>2 DEF n

\* strcpy gives dest the string, and changes nothing behind its end.
LEMMA StrcpyGives ==
  ASSUME MemOK, NEW d \in Addresses, NEW s \in Addresses, IsString(s),
         MayCopy(d, s, StrlenAt(mem, s) + 1)
  PROVE  LET m == Strcpy(mem, d, s) IN
         /\ m \in [Addresses -> Chars]
         /\ \E a \in d .. MemSize - 1 : m[a] = 0
         /\ StringAt(m, d) = StringAt(mem, s)
         /\ \A a \in Addresses : m[a] # mem[a] => a \in d .. d + StrlenAt(mem, s)
<1> DEFINE n == StrlenAt(mem, s)
           m == Strcpy(mem, d, s)
<1>1. /\ n \in Nat /\ s + n < MemSize /\ mem[s + n] = 0
      /\ \A i \in 0 .. n - 1 : mem[s + i] # 0
      /\ StringAt(mem, s) = [i \in 1 .. n |-> mem[s + i - 1]]
  BY StringLength
<1>2. m = Memcpy(mem, d, s, n + 1)
  BY StrcpyIs DEF MemOK, IsString
<1>3. MayCopy(d, s, n + 1)
  OBVIOUS
<1> HIDE DEF n, m
<1>4. n + 1 \in Nat /\ d + (n + 1) - 1 = d + n /\ d \in Nat /\ s \in Nat /\ MemSize \in Nat
  BY <1>1, LibraryAssumption DEF Addresses
<1>5. /\ m \in [Addresses -> Chars]
      /\ m = [a \in Addresses |-> IF a \in d .. d + n THEN mem[s + a - d] ELSE mem[a]]
  <2>1. m \in [Addresses -> Chars]
    BY <1>2, <1>3, <1>4, MemcpyKeeps
  <2>2. m = Copied(mem, d, s, n + 1) /\ mem \in [Addresses -> Chars]
    BY <1>2 DEF Memcpy, MemOK
  <2>3. ASSUME NEW l \in Nat, l = n + 1
        PROVE  Copied(mem, d, s, l) =
                 [a \in Addresses |-> IF a \in d .. d + l - 1 THEN mem[s + a - d] ELSE mem[a]]
    <3>1. MayCopy(d, s, l)
      BY <1>3, <2>3
    <3> QED BY <3>1, CopiedIs DEF MemOK
  <2> QED BY <1>4, <2>1, <2>2, <2>3
<1>6. \A i \in 0 .. n : d + i \in Addresses /\ m[d + i] = mem[s + i]
  <2> SUFFICES ASSUME NEW i \in 0 .. n PROVE d + i \in Addresses /\ m[d + i] = mem[s + i]
    OBVIOUS
  <2>1. d + i \in d .. d + n /\ s + (d + i) - d = s + i
    BY <1>1, <1>4
  <2>2. d + i \in Addresses
    BY <1>3, <1>4, <2>1, Areas
  <2> QED BY <1>5, <2>1, <2>2
<1>7. m[d + n] = 0 /\ d + n \in d .. MemSize - 1
  <2>1. n \in 0 .. n /\ d + n \in Addresses
    BY <1>1, <1>6
  <2> QED BY <1>1, <1>4, <1>6, <2>1 DEF Addresses
<1> DEFINE l == StrlenAt(m, d)
<1>8. /\ l \in Nat /\ d + l < MemSize /\ m[d + l] = 0
      /\ \A i \in 0 .. l - 1 : m[d + i] # 0
      /\ StringAt(m, d) = [i \in 1 .. l |-> m[d + i - 1]]
  BY <1>5, <1>7, StringIs
<1> HIDE DEF l
<1>9. l = n
  <2>1. ~ l < n
    <3>1. l < n => l \in 0 .. n /\ l \in 0 .. n - 1
      BY <1>1, <1>8
    <3> QED BY <1>1, <1>6, <1>8, <3>1
  <2>2. ~ n < l
    <3>1. n < l => n \in 0 .. l - 1
      BY <1>1, <1>8
    <3> QED BY <1>7, <1>8, <3>1
  <2> QED BY <1>1, <1>8, <2>1, <2>2
<1>10. \A i \in 1 .. n : m[d + i - 1] = mem[s + i - 1]
  <2> SUFFICES ASSUME NEW i \in 1 .. n PROVE m[d + i - 1] = mem[s + i - 1]
    OBVIOUS
  <2>1. i - 1 \in 0 .. n /\ d + (i - 1) = d + i - 1 /\ s + (i - 1) = s + i - 1
    BY <1>1, <1>4
  <2> QED BY <1>6, <2>1
<1>11. StringAt(m, d) = StringAt(mem, s)
  BY <1>1, <1>8, <1>9, <1>10
<1>12. \A a \in Addresses : m[a] # mem[a] => a \in d .. d + n
  BY <1>5
<1> QED BY <1>5, <1>7, <1>11, <1>12 DEF n, m

\* Every step keeps the memory one of characters.
LEMMA StepKeepsMem ==
  ASSUME MemOK, Next
  PROVE  MemOK'
<1>1. CASE Start
  <2>1. 0 \in Chars
    BY LibraryAssumption
  <2> QED BY <1>1, <2>1 DEF Start, MemOK
<1>2. CASE CallLibrary
  <2>1. PICK d \in Addresses :
         \/ \E s \in Addresses, n \in 1 .. MemSize :
              MayCopy(d, s, n) /\ mem' = Memcpy(mem, d, s, n)
         \/ \E s \in Addresses :
              /\ IsString(s) /\ MayCopy(d, s, StrlenAt(mem, s) + 1)
              /\ mem' = Strcpy(mem, d, s)
         \/ \E c \in Chars, n \in 1 .. MemSize :
              d + n <= MemSize /\ mem' = Memset(mem, d, c, n)
    BY <1>2 DEF CallLibrary
  <2>2. ASSUME NEW s \in Addresses, NEW n \in 1 .. MemSize,
               MayCopy(d, s, n), mem' = Memcpy(mem, d, s, n)
        PROVE  MemOK'
    <3>1. n \in Nat
      OBVIOUS
    <3>2. Memcpy(mem, d, s, n) \in [Addresses -> Chars]
      BY <2>2, <3>1, MemcpyKeeps
    <3> QED BY <2>2, <3>2 DEF MemOK
  <2>3. ASSUME NEW s \in Addresses, IsString(s), MayCopy(d, s, StrlenAt(mem, s) + 1),
               mem' = Strcpy(mem, d, s)
        PROVE  MemOK'
    <3>1. Strcpy(mem, d, s) \in [Addresses -> Chars]
      BY <2>3, StrcpyGives
    <3> QED BY <2>3, <3>1 DEF MemOK
  <2>4. ASSUME NEW c \in Chars, NEW n \in 1 .. MemSize, d + n <= MemSize,
               mem' = Memset(mem, d, c, n)
        PROVE  MemOK'
    <3>1. n \in Nat
      OBVIOUS
    <3>2. mem' = [a \in Addresses |-> IF a \in d .. d + n - 1 THEN c ELSE mem[a]]
      BY <2>4, <3>1, MemsetIs DEF MemOK
    <3> QED BY <3>2 DEF MemOK
  <2> QED BY <2>1, <2>2, <2>3, <2>4
<1>3. CASE Next /\ ~ Start /\ ~ CallLibrary
  <2>1. UNCHANGED mem
    BY <1>3
    DEF Next, Program, Host, MainRuns, MainDone, Exit, CallTerminal, CallFile, CallCmdline, Calls,
        CallWrite, WriteOn, CallReturns, BenchEnds, BenchReturns, CoreMarkStarts, CoreMarkStops,
        CoreMarkPrints, CoreMarkChecks, programVars
  <2> QED BY <2>1 DEF MemOK
<1> QED BY <1>1, <1>2, <1>3

\* The loops do what the C standard says in every memory of characters.
LEMMA LoopsAreC ==
  ASSUME MemOK
  PROVE  LibraryIsC
<1> SUFFICES ASSUME NEW d \in Addresses, NEW s \in Addresses
    PROVE  /\ \A n \in 1 .. MemSize :
                /\ MayCopy(d, s, n) =>
                     Memcpy(mem, d, s, n) =
                       [a \in Addresses |-> IF a \in d .. d + n - 1 THEN mem[s + a - d] ELSE mem[a]]
                /\ d + n <= MemSize => \A c \in Chars :
                     Memset(mem, d, c, n) =
                       [a \in Addresses |-> IF a \in d .. d + n - 1 THEN c ELSE mem[a]]
           /\ IsString(s) =>
                LET str == StringAt(mem, s)
                IN  /\ StrlenAt(mem, s) = Len(str)
                    /\ MayCopy(d, s, Len(str) + 1) =>
                         LET m == Strcpy(mem, d, s)
                         IN  /\ \E a \in d .. MemSize - 1 : m[a] = 0
                             /\ StringAt(m, d) = str
                             /\ \A a \in Addresses : m[a] # mem[a] => a \in d .. d + Len(str)
                    /\ IsString(d) =>
                         LET order == Strcmp(mem, d, s)
                             other == StringAt(mem, d)
                         IN  (order < 0 <=> Smaller(other, str)) /\ (order > 0 <=> Smaller(str, other))
  BY DEF LibraryIsC
<1>1. ASSUME NEW n \in 1 .. MemSize, MayCopy(d, s, n)
      PROVE  Memcpy(mem, d, s, n) =
               [a \in Addresses |-> IF a \in d .. d + n - 1 THEN mem[s + a - d] ELSE mem[a]]
  <2>1. n \in Nat
    OBVIOUS
  <2> QED BY <1>1, <2>1, CopiedIs DEF Memcpy, MemOK
<1>2. ASSUME NEW n \in 1 .. MemSize, d + n <= MemSize, NEW c \in Chars
      PROVE  Memset(mem, d, c, n) = [a \in Addresses |-> IF a \in d .. d + n - 1 THEN c ELSE mem[a]]
  <2>1. n \in Nat
    OBVIOUS
  <2> QED BY <1>2, <2>1, MemsetIs DEF MemOK
<1>3. ASSUME IsString(s) PROVE StrlenAt(mem, s) = Len(StringAt(mem, s))
  BY <1>3, StringLength
<1>4. ASSUME IsString(s), MayCopy(d, s, Len(StringAt(mem, s)) + 1)
      PROVE  LET m == Strcpy(mem, d, s) IN
             /\ \E a \in d .. MemSize - 1 : m[a] = 0
             /\ StringAt(m, d) = StringAt(mem, s)
             /\ \A a \in Addresses : m[a] # mem[a] => a \in d .. d + Len(StringAt(mem, s))
  <2>1. MayCopy(d, s, StrlenAt(mem, s) + 1)
    BY <1>3, <1>4
  <2> QED BY <1>3, <1>4, <2>1, StrcpyGives, Zenon
<1>5. ASSUME IsString(s), IsString(d)
      PROVE  LET order == Strcmp(mem, d, s)
                 other == StringAt(mem, d)
                 str == StringAt(mem, s)
             IN  (order < 0 <=> Smaller(other, str)) /\ (order > 0 <=> Smaller(str, other))
  BY <1>5, StrcmpIs, Zenon DEF MemOK, IsString
<1> QED BY <1>1, <1>2, <1>3, <1>4, <1>5, Zenon

\* Every legal call leaves a memory of characters.
LEMMA MemInvariant == Spec => []MemOK
<1>1. Init => MemOK
  BY DEF Init, MemOK
<1>2. MemOK /\ [Next]_vars => MemOK'
  BY StepKeepsMem DEF vars, programVars, MemOK
<1> QED BY <1>1, <1>2, PTL DEF Spec

\* memcpy, memset, strlen, strcpy and strcmp of bench.c are those of the C standard, in
\* every memory and at every address its arguments may have.
THEOREM LibraryIsStandard == Spec => []LibraryIsC
<1>1. MemOK => LibraryIsC
  BY LoopsAreC
<1> QED BY <1>1, MemInvariant, PTL

-----------------------------------------------------------------------------
(* What the terminal shows.                                                *)

\* Characters that do not end a string
NonZero == Nat \ {0}

\* A sequence is the start of every longer one made from it.
LEMMA StartOfConcat ==
  ASSUME NEW T, NEW s \in Seq(T), NEW t \in Seq(T)
  PROVE  SubSeq(s \o t, 1, Len(s)) = s
<1>1. Len(s) \in Nat
  BY LenProperties
<1>2. CASE Len(s) = 0
  <2>1. s = <<>>
    BY <1>2, EmptySeq
  <2> QED BY <1>2, <2>1, SubSeqEmpty
<1>3. CASE Len(s) # 0
  <2>1. 1 \in 1 .. Len(s) /\ Len(s) \in 1 .. Len(s)
    BY <1>1, <1>3
  <2>2. SubSeq(s \o t, 1, Len(s)) = SubSeq(s, 1, Len(s))
    BY <2>1, SubSeqOfConcat1
  <2> QED BY <2>2, SubSeqFull
<1> QED BY <1>2, <1>3

\* semihost_strlen gives the length of a string.
LEMMA StrLenIs ==
  ASSUME NEW text \in Seq(NonZero)
  PROVE  /\ StrLen(Append(text, 0)) = Len(text)
         /\ SubSeq(Append(text, 0), 1, Len(text)) = text
         /\ Len(Append(text, 0)) = Len(text) + 1
<1> DEFINE n == Len(text)
           s == Append(text, 0)
           S == {len \in 0 .. Len(s) - 1 : s[len + 1] = 0}
<1>1. text \in Seq(Nat) /\ 0 \in Nat /\ n \in Nat
  BY SeqMonotonic, LenProperties DEF NonZero
<1>2. Len(s) = n + 1 /\ s[n + 1] = 0 /\ \A i \in 1 .. n : s[i] = text[i]
  BY <1>1, AppendProperties
<1>3. \A i \in 1 .. n : text[i] # 0
  BY ElementOfSeq DEF NonZero
<1>4. s = text \o <<0>> /\ <<0>> \in Seq(Nat)
  BY <1>1, AppendIsConcat
<1>5. SubSeq(s, 1, n) = text
  BY <1>1, <1>4, StartOfConcat
<1> HIDE DEF n, s
<1>6. n \in S /\ S \in SUBSET Nat
  BY <1>1, <1>2
<1>7. ASSUME NEW j \in S PROVE n <= j
  <2>1. j + 1 \in 1 .. n \/ n <= j
    BY <1>1, <1>2
  <2> QED BY <1>2, <1>3, <2>1
<1> HIDE DEF S
<1>8. Min(S) = n
  BY <1>6, <1>7, MinIs
<1> QED BY <1>2, <1>5, <1>8 DEF StrLen, S, s, n

\* The recursion of put_uint
LEMMA PutUintRecurses ==
  ASSUME NEW n \in Nat
  PROVE  \E digits :
           /\ PutUint(n) = digits[n]
           /\ \A m \in 0 .. n : digits[m] = IF m \div 10 = 0 THEN <<Digit(m)>>
                                             ELSE digits[m \div 10] \o <<Digit(m % 10)>>
<1> DEFINE Fun(f, i) == f = [m \in 0 .. i |-> IF m \div 10 = 0 THEN <<Digit(m)>>
                                               ELSE f[m \div 10] \o <<Digit(m % 10)>>]
           Has(i) == \E f : Fun(f, i)
           digits == CHOOSE f : Fun(f, n)
<1>1. Has(0)
  <2> DEFINE f == [m \in 0 .. 0 |-> <<Digit(m)>>]
  <2>1. \A m \in 0 .. 0 : m \div 10 = 0
    OBVIOUS
  <2>2. Fun(f, 0)
    BY <2>1
  <2> QED BY <2>2
<1>2. ASSUME NEW i \in 1 .. n, Has(i - 1) PROVE Has(i)
  <2>1. PICK f : Fun(f, i - 1)
    BY <1>2
  <2> DEFINE g == [m \in 0 .. i |-> IF m \div 10 = 0 THEN <<Digit(m)>>
                                     ELSE f[m \div 10] \o <<Digit(m % 10)>>]
  <2>2. ASSUME NEW m \in 0 .. i - 1 PROVE g[m] = f[m]
    <3>1. f[m] = IF m \div 10 = 0 THEN <<Digit(m)>> ELSE f[m \div 10] \o <<Digit(m % 10)>>
      BY <2>1
    <3>2. m \in 0 .. i
      OBVIOUS
    <3> QED BY <3>1, <3>2
  <2>3. \A m \in 0 .. i : m \div 10 = 0 \/ m \div 10 \in 0 .. i - 1
    OBVIOUS
  <2>4. Fun(g, i)
    BY <2>2, <2>3
  <2> QED BY <2>4
<1>3. Has(n)
  <2> DEFINE P == {i \in 0 .. n : Has(i)}
  <2> HIDE DEF Has
  <2>1. 0 \in P /\ \A i \in 1 .. n : i - 1 \in P => i \in P
    BY <1>1, <1>2
  <2> HIDE DEF P
  <2>2. \A i \in 0 .. n : i \in P
    BY <2>1, Counting
  <2> QED BY <2>2 DEF P
<1>4. Fun(digits, n)
  BY <1>3
<1>5. PutUint(n) = digits[n]
  BY DEF PutUint
<1> HIDE DEF digits
<1>6. \A m \in 0 .. n : digits[m] = IF m \div 10 = 0 THEN <<Digit(m)>>
                                      ELSE digits[m \div 10] \o <<Digit(m % 10)>>
  BY <1>4
<1> QED BY <1>5, <1>6

\* put_uint gives digits, and no end of a string.
LEMMA PutUintShows ==
  ASSUME NEW n \in Nat
  PROVE  PutUint(n) \in Seq(NonZero)
<1>1. PICK digits :
         /\ PutUint(n) = digits[n]
         /\ \A m \in 0 .. n : digits[m] = IF m \div 10 = 0 THEN <<Digit(m)>>
                                           ELSE digits[m \div 10] \o <<Digit(m % 10)>>
  BY PutUintRecurses
<1> DEFINE bad == {m \in 0 .. n : digits[m] \notin Seq(NonZero)}
<1>2. bad = {}
  <2> SUFFICES ASSUME bad # {} PROVE FALSE
    OBVIOUS
  <2>1. PICK m \in bad : \A j \in bad : m <= j
    BY LeastIs
  <2>2. CASE m \div 10 = 0
    <3>1. Digit(m) \in NonZero
      BY DEF Digit, NonZero
    <3>2. digits[m] = <<Digit(m)>>
      BY <1>1, <2>2
    <3>3. <<Digit(m)>> \in Seq(NonZero)
      BY <3>1
    <3> QED BY <3>2, <3>3
  <2>3. CASE m \div 10 # 0
    <3>1. m \div 10 \in 0 .. n /\ ~ m <= m \div 10 /\ m % 10 \in Nat
      BY <2>3
    <3>2. digits[m \div 10] \in Seq(NonZero)
      BY <2>1, <3>1
    <3>3. Digit(m % 10) \in NonZero
      BY <3>1 DEF Digit, NonZero
    <3>4. <<Digit(m % 10)>> \in Seq(NonZero)
      BY <3>3
    <3> QED BY <1>1, <2>3, <3>2, <3>4, ConcatProperties
  <2> QED BY <2>2, <2>3
<1> QED BY <1>1, <1>2

\* A quotient of numbers is a number.
LEMMA Quotient ==
  ASSUME NEW x \in Nat, NEW y \in Nat \ {0}
  PROVE  x \div y \in Nat /\ x % y \in 0 .. y - 1
  OBVIOUS

\* What print_result shows: its string without the end
Printed(n, ticks) ==
  LET q == U32(n * Mega)
  IN  Text \o PutUint(n) \o Text \o PutUint(ticks) \o Text \o PutUint(q \div ticks)
        \o <<Point>> \o Fraction(q % ticks, ticks) \o Text

\* The line of CoreMark is a string.
LEMMA LineIs ==
  ASSUME NEW n \in Nat, NEW ticks \in Nat \ {0}
  PROVE  Printed(n, ticks) \in Seq(NonZero) /\ PrintResult(n, ticks) = Append(Printed(n, ticks), 0)
<1> DEFINE q == U32(n * Mega)
<1>1. \A x \in Nat : U32(x) \in Nat
  BY PortAssumption, Quotient DEF U32
<1>2. n * Mega \in Nat
  BY PortAssumption
<1>3. q \in Nat
  BY <1>1, <1>2
<1> HIDE DEF q
<1>4. q \div ticks \in Nat /\ q % ticks \in Nat
  BY <1>3, Quotient
<1>5. Text \in Seq(NonZero) /\ <<Point>> \in Seq(NonZero)
  BY DEF Text, Point, NonZero
<1>6. Fraction(q % ticks, ticks) \in Seq(NonZero)
  <2> DEFINE r1 == U32((q % ticks) * 10)
             r2 == U32((r1 % ticks) * 10)
             r3 == U32((r2 % ticks) * 10)
  <2>1. r1 \in Nat
    BY <1>1, <1>4
  <2> HIDE DEF r1
  <2>2. r1 \div ticks \in Nat /\ r1 % ticks \in Nat
    BY <2>1, Quotient
  <2>3. r2 \in Nat
    BY <1>1, <2>2
  <2> HIDE DEF r2
  <2>4. r2 \div ticks \in Nat /\ r2 % ticks \in Nat
    BY <2>3, Quotient
  <2>5. r3 \in Nat
    BY <1>1, <2>4
  <2> HIDE DEF r3
  <2>6. r3 \div ticks \in Nat
    BY <2>5, Quotient
  <2>7. \A d \in Nat : Digit(d) \in NonZero
    BY DEF Digit, NonZero
  <2>8. Fraction(q % ticks, ticks) = <<Digit(r1 \div ticks), Digit(r2 \div ticks), Digit(r3 \div ticks)>>
    BY DEF Fraction, r1, r2, r3
  <2>9. \A a \in NonZero, b \in NonZero, c \in NonZero : <<a, b, c>> \in Seq(NonZero)
    OBVIOUS
  <2>10. /\ Digit(r1 \div ticks) \in NonZero /\ Digit(r2 \div ticks) \in NonZero
         /\ Digit(r3 \div ticks) \in NonZero
    BY <2>2, <2>4, <2>6, <2>7
  <2> QED BY <2>8, <2>9, <2>10
<1> DEFINE text == Text \o PutUint(n) \o Text \o PutUint(ticks) \o Text \o PutUint(q \div ticks)
                     \o <<Point>> \o Fraction(q % ticks, ticks) \o Text
<1>7. \A s \in Seq(NonZero), t \in Seq(NonZero) : s \o t \in Seq(NonZero)
  BY ConcatProperties
<1>8. text \in Seq(NonZero)
  <2>1. /\ PutUint(n) \in Seq(NonZero) /\ PutUint(ticks) \in Seq(NonZero)
        /\ PutUint(q \div ticks) \in Seq(NonZero)
    BY <1>4, PutUintShows
  <2>2. Text \o PutUint(n) \o Text \o PutUint(ticks) \in Seq(NonZero)
    BY <1>5, <1>7, <2>1
  <2>3. Text \o PutUint(n) \o Text \o PutUint(ticks) \o Text \o PutUint(q \div ticks) \in Seq(NonZero)
    BY <1>5, <1>7, <2>1, <2>2
  <2> QED BY <1>5, <1>6, <1>7, <2>3
<1>9. PrintResult(n, ticks) = text \o <<0>>
  BY DEF PrintResult, q
<1> HIDE DEF text
<1>10. text \in Seq(Nat) /\ 0 \in Nat
  BY <1>8, SeqMonotonic DEF NonZero
<1>11. PrintResult(n, ticks) = Append(text, 0)
  BY <1>9, <1>10, AppendIsConcat
<1>12. Printed(n, ticks) = text
  BY DEF Printed, q, text
<1> QED BY <1>8, <1>11, <1>12

\* The remainder is the number below the divisor that differs by a multiple of it.
LEMMA ModIs ==
  ASSUME NEW n \in Nat \ {0}, NEW x \in Int, NEW q \in Int, NEW r \in 0 .. n - 1, x = n * q + r
  PROVE  x % n = r
<1>1. x % n \in 0 .. n - 1 /\ x = n * (x \div n) + (x % n) /\ x \div n \in Int
  OBVIOUS
<1>2. PICK a \in Int, b \in 0 .. n - 1 : x = n * a + b /\ b = x % n
  BY <1>1
<1>3. n * (q - a) = b - r
  BY <1>2
<1>4. b - r < n /\ -n < b - r
  BY <1>2
<1>5. q - a = 0
  <2>1. ASSUME NEW z \in Int, z >= 1 PROVE n * z >= n
    BY <2>1
  <2>2. ASSUME NEW z \in Int, z <= -1 PROVE n * z <= -n
    BY <2>2
  <2> QED BY <1>3, <1>4, <2>1, <2>2
<1>6. q = a
  BY <1>2, <1>5
<1>7. b = r
  <2>1. x = n * q + b /\ x = n * q + r /\ n * q \in Int
    BY <1>2, <1>6
  <2> QED BY <2>1
<1> QED BY <1>2, <1>7

\* get_time gives the cycles between the readings, whether or not the counter wraps.
LEMMA TimeOfRun ==
  ASSUME NEW a \in Nat, NEW d \in 1 .. TickValues - 1
  PROVE  GetTime(Cycles(a), Cycles(a + d)) = d
<1> DEFINE n == TickValues
<1>1. n \in Nat \ {0}
  BY PortAssumption
<1> HIDE DEF n
<1>2. PICK q \in Int, r \in 0 .. n - 1 : a = n * q + r /\ a % n = r
  BY <1>1
<1>3. CASE r + d < n
  <2>1. r + d \in 0 .. n - 1 /\ a + d \in Int /\ a + d = n * q + (r + d)
    BY <1>1, <1>2, <1>3 DEF n
  <2>2. (a + d) % n = r + d
    BY <1>1, <2>1, ModIs
  <2>3. ((a + d) % n) - (a % n) = d /\ d \in 0 .. n - 1
    BY <1>2, <2>2 DEF n
  <2>4. d % n = d
    BY <1>1, <2>3
  <2> QED BY <2>3, <2>4 DEF GetTime, Cycles, U32, n
<1>4. CASE n <= r + d
  <2>1. r + d - n \in 0 .. n - 1 /\ a + d \in Int /\ a + d = n * (q + 1) + (r + d - n) /\ q + 1 \in Int
    BY <1>1, <1>2, <1>4 DEF n
  <2>2. (a + d) % n = r + d - n
    BY <1>1, <2>1, ModIs
  <2>3. ((a + d) % n) - (a % n) = d - n /\ d \in 0 .. n - 1 /\ d - n \in Int /\ d - n = n * (-1) + d
    BY <1>1, <1>2, <2>2 DEF n
  <2>4. (d - n) % n = d
    BY <1>1, <2>3, ModIs
  <2> QED BY <2>3, <2>4 DEF GetTime, Cycles, U32, n
<1> QED BY <1>1, <1>2, <1>3, <1>4 DEF n

\* A request, and what it shows on the terminal
Shows(request, text) ==
  /\ text \in Seq(Nat)
  /\ \/ request.op = 3 /\ (\E c \in Nat : request.args = <<c>> /\ text = <<c>>)
     \/ request.op = 4 /\ text \in Seq(NonZero) /\ request.args = Append(text, 0)
     \/ request.op \notin {3, 4} /\ text = <<>>

\* What the program asked to show is on the terminal, in the call that the host has not
\* served, or still to be written by _write.
TextOK ==
  /\ terminal \in Seq(Nat) /\ writing \in Seq(Nat) /\ said \in Seq(Nat)
  /\ halted => \E text \in Seq(Nat) : Shows(call, text) /\ said = terminal \o text \o writing
  /\ ~ halted => said = terminal \o writing
  /\ pc # "bench" => writing = <<>>

\* The types of what CoreMark keeps
CmTypes ==
  [iterations : Nat, start : Nat, stop : Nat, elapsed : Nat, crcs : [DOMAIN KnownCrcs -> Nat],
   portable_id : {0, 1}]

\* CoreMark prints the time the run took, which is not 0.
CmOK ==
  /\ cm \in CmTypes
  /\ pc = "cm_fini" => GetTime(cm.start, cm.stop) = cm.elapsed /\ cm.elapsed \in RunTimes

\* From the two readings on, the time of the run is right.
LEMMA CmInvariant == Spec => []CmOK
<1>1. KnownCrcs \in [DOMAIN KnownCrcs -> Nat] /\ NoCm \in CmTypes
  BY DEF KnownCrcs, NoCm, CmTypes
<1>2. Init => CmOK
  BY <1>1 DEF Init, CmOK
<1>3. CmOK /\ [Next]_vars => CmOK'
  <2> SUFFICES ASSUME CmOK, [Next]_vars PROVE CmOK'
    OBVIOUS
  <2> USE DEF CmOK, Goto
  <2>1. CASE Start
    BY <1>1, <2>1 DEF Start
  <2>2. CASE CoreMarkStarts
    <3>1. PICK n \in Iterations, t \in StartTimes :
            cm' = [cm EXCEPT !.portable_id = 1, !.iterations = Seeds(n)[4], !.start = t]
      BY <2>2 DEF CoreMarkStarts
    <3>2. Seeds(n)[4] \in Nat /\ t \in Nat
      BY BareMetalAssumption DEF Seeds
    <3> QED BY <2>2, <3>1, <3>2 DEF CoreMarkStarts, CmTypes
  <2>3. CASE CoreMarkStops
    <3>1. PICK d \in RunTimes, wrong \in SUBSET DOMAIN KnownCrcs :
            cm' = [cm EXCEPT !.elapsed = d, !.stop = Cycles(cm.start + d),
                             !.start = Cycles(cm.start),
                             !.crcs = [c \in DOMAIN KnownCrcs |->
                                         IF c \in wrong THEN 0 ELSE KnownCrcs[c]]]
      BY <2>3 DEF CoreMarkStops
    <3>2. d \in 1 .. TickValues - 1 /\ d \in Nat /\ cm.start \in Nat /\ cm.start + d \in Nat
      BY BareMetalAssumption DEF CmTypes
    <3>3. Cycles(cm.start + d) \in Nat /\ Cycles(cm.start) \in Nat
      <4>1. \A x \in Nat : Cycles(x) \in Nat
        BY PortAssumption, Quotient DEF Cycles, U32
      <4> QED BY <3>2, <4>1
    <3>4. [c \in DOMAIN KnownCrcs |-> IF c \in wrong THEN 0 ELSE KnownCrcs[c]]
            \in [DOMAIN KnownCrcs -> Nat]
      BY <1>1
    <3>5. /\ cm' \in CmTypes
          /\ cm'.start = Cycles(cm.start) /\ cm'.stop = Cycles(cm.start + d) /\ cm'.elapsed = d
      BY <3>1, <3>2, <3>3, <3>4 DEF CmTypes
    <3>6. GetTime(cm'.start, cm'.stop) = d
      BY <3>2, <3>5, TimeOfRun
    <3> QED BY <3>5, <3>6 DEF CmOK
  <2>4. CASE CoreMarkPrints
    BY <2>4 DEF CoreMarkPrints, CmTypes
  <2>5. CASE ~ (Start \/ CoreMarkStarts \/ CoreMarkStops \/ CoreMarkPrints)
    <3>1. UNCHANGED cm /\ (pc' = "cm_fini" => pc = "cm_fini")
      BY <2>5
      DEF vars, Next, Program, Host, MainRuns, MainDone, Exit, CallTerminal, CallFile, CallCmdline,
          Calls, CallWrite, WriteOn, CallReturns, CallLibrary, BenchEnds, BenchReturns,
          CoreMarkChecks, programVars
    <3> QED BY <3>1
  <2> QED BY <2>1, <2>2, <2>3, <2>4, <2>5
<1> QED BY <1>2, <1>3, PTL DEF Spec

\* Each call of a benchmark is a request, and shows the text that is added to said.
LEMMA CallsShow ==
  ASSUME CallTerminal \/ CallFile \/ CallCmdline
  PROVE  \E request, text : Calls(request, text) /\ Shows(request, text)
<1> USE Operations
<1>1. CASE CallTerminal
  <2>1. ASSUME NEW c \in Chars \ {0} PROVE Shows(PutChar(c), <<c>>)
    <3>1. c \in Nat /\ <<c>> \in Seq(Nat)
      BY LibraryAssumption
    <3> QED BY <3>1 DEF Shows, Request, PutChar, PollOut
  <2>2. ASSUME NEW d \in Data PROVE Shows(SemihostWrite0(Append(d, 0)), d)
    <3>1. d \in Seq(NonZero) /\ d \in Seq(Nat)
      BY BareMetalAssumption, SeqMonotonic DEF NonZero
    <3> QED BY <3>1 DEF Shows, Request, SemihostWrite0
  <2>3. Shows(PollIn, <<>>)
    BY EmptySeq DEF Shows, Request, PollIn
  <2> QED BY <1>1, <2>1, <2>2, <2>3 DEF CallTerminal
<1>2. CASE CallFile
  <2>1. /\ \A p, m : Shows(SemihostOpen(p, m), <<>>)
        /\ \A fd : Shows(SemihostClose(fd), <<>>) /\ Shows(SemihostFlen(fd), <<>>)
        /\ \A fd, x : /\ Shows(SemihostSeek(fd, x), <<>>) /\ Shows(SemihostRead(fd, x), <<>>)
                      /\ Shows(SemihostWrite(fd, x), <<>>)
    BY EmptySeq DEF Shows, Request, SemihostOpen, SemihostClose, SemihostFlen, SemihostSeek,
                    SemihostRead, SemihostWrite
  <2> QED BY <1>2, <2>1 DEF CallFile
<1>3. CASE CallCmdline
  <2>1. \A len : Shows(SemihostGetCmdline(len), <<>>)
    BY EmptySeq DEF Shows, Request, SemihostGetCmdline
  <2> QED BY <1>3, <2>1 DEF CallCmdline
<1> QED BY <1>1, <1>2, <1>3

\* A request whose text was in said, or comes to it with the request, keeps the order.
LEMMA ExecKeepsText ==
  ASSUME TextOK, ExitOK, NEW request, NEW text, SemihostExec(request), Shows(request, text),
         \/ said = terminal \o text \o writing' /\ said' = said /\ writing' \in Seq(Nat)
         \/ writing = <<>> /\ writing' = <<>> /\ said' = said \o text,
         pc' # "bench" => writing' = <<>>
  PROVE  TextOK'
<1>1. ~ halted /\ halted' /\ call' = request /\ terminal' = terminal
  BY DEF SemihostExec, ExitOK, hostVars
<1>2. text \in Seq(Nat) /\ <<>> \in Seq(Nat) /\ terminal \in Seq(Nat)
  BY EmptySeq DEF Shows, TextOK
<1>3. said' = terminal \o text \o writing' /\ writing' \in Seq(Nat)
  <2>1. CASE said = terminal \o text \o writing' /\ said' = said /\ writing' \in Seq(Nat)
    BY <2>1
  <2>2. CASE writing = <<>> /\ writing' = <<>> /\ said' = said \o text
    <3>1. said = terminal
      BY <1>1, <1>2, <2>2, ConcatEmptySeq DEF TextOK
    <3>2. terminal \o text \in Seq(Nat)
      BY <1>2, ConcatProperties
    <3>3. (terminal \o text) \o <<>> = terminal \o text
      BY <3>2, ConcatEmptySeq
    <3> QED BY <1>2, <2>2, <3>1, <3>3
  <2> QED BY <2>1, <2>2
<1>4. said' \in Seq(Nat)
  BY <1>2, <1>3, ConcatProperties
<1> QED BY <1>1, <1>2, <1>3, <1>4 DEF TextOK, Shows

\* A request that shows nothing
LEMMA SilentKeepsText ==
  ASSUME TextOK, ExitOK, NEW request, SemihostExec(request), request.op \notin {3, 4},
         writing = <<>>, UNCHANGED <<writing, said>>
  PROVE  TextOK'
<1>1. Shows(request, <<>>)
  BY EmptySeq DEF Shows
<1>2. said' = said \o <<>>
  BY ConcatEmptySeq DEF TextOK
<1> QED BY <1>1, <1>2, ExecKeepsText

\* A step of the program keeps the order.
LEMMA ProgramKeepsText ==
  ASSUME TextOK, ExitOK, CmOK, Program
  PROVE  TextOK'
<1> USE DEF Goto
<1> DEFINE Kept == UNCHANGED <<call, halted, terminal>>
<1>1. ASSUME UNCHANGED semihostVars PROVE Kept /\ UNCHANGED writing
  BY <1>1 DEF semihostVars, targetVars, hostVars
<1>2. ASSUME Kept, UNCHANGED <<writing, said>>, pc' # "bench" => writing = <<>> PROVE TextOK'
  BY <1>2 DEF TextOK, Shows
<1> HIDE DEF Kept
<1>3. CASE Start \/ MainRuns \/ MainDone \/ CoreMarkStarts \/ CoreMarkStops
  <2>1. UNCHANGED semihostVars /\ UNCHANGED said
    BY <1>3 DEF Start, MainRuns, MainDone, CoreMarkStarts, CoreMarkStops
  <2>2. writing = <<>>
    BY <1>3 DEF Start, MainRuns, MainDone, CoreMarkStarts, CoreMarkStops, InBench, Ready, TextOK
  <2> QED BY <1>1, <1>2, <2>1, <2>2
<1>4. CASE Exit
  <2>1. SemihostExit(status).op = 32
    BY Operations DEF SemihostExit, Request
  <2>2. pc = "exit" /\ SemihostExec(SemihostExit(status)) /\ UNCHANGED <<writing, said>>
    BY <1>4 DEF Exit
  <2>3. writing = <<>>
    BY <2>2 DEF TextOK
  <2> QED BY <2>1, <2>2, <2>3, SilentKeepsText
<1>5. CASE CallTerminal \/ CallFile \/ CallCmdline
  <2>1. PICK request, text : Calls(request, text) /\ Shows(request, text)
    BY <1>5, CallsShow
  <2> QED BY <2>1, ExecKeepsText DEF Calls, InBench, Ready
<1>6. CASE WriteOn
  <2> DEFINE c == Head(writing)
  <2>1. /\ writing # <<>> /\ SemihostExec(PollOut(c)) /\ writing' = Tail(writing)
        /\ UNCHANGED <<pc, said>>
    BY <1>6 DEF WriteOn, WriteNext, programVars
  <2>2. writing \in Seq(Nat) /\ terminal \in Seq(Nat) /\ c \in Nat /\ Tail(writing) \in Seq(Nat)
    BY <2>1, HeadTailProperties DEF TextOK
  <2>3. writing = <<c>> \o Tail(writing)
    <3>1. Len(writing) \in Nat \ {0} /\ writing[1] = c
      BY <2>1, <2>2, EmptySeq
    <3>2. SubSeq(writing, 1, Len(writing)) = <<writing[1]>> \o SubSeq(writing, 2, Len(writing))
      BY <2>2, <3>1, SubSeqRecursiveFirst
    <3> QED BY <2>1, <2>2, <3>1, <3>2, SubSeqFull, TailIsSubSeq
  <2> HIDE DEF c
  <2>4. ~ halted
    BY <2>1 DEF SemihostExec, ExitOK
  <2>5. <<c>> \in Seq(Nat)
    BY <2>2
  <2>6. said = terminal \o <<c>> \o Tail(writing)
    <3>1. said = terminal \o (<<c>> \o Tail(writing))
      BY <2>3, <2>4 DEF TextOK
    <3>2. terminal \o <<c>> \o Tail(writing) = terminal \o (<<c>> \o Tail(writing))
      BY <2>2, <2>5, ConcatAssociative
    <3> QED BY <3>1, <3>2
  <2>7. Shows(PollOut(c), <<c>>)
    BY <2>2, <2>5, Operations DEF Shows, PollOut, Request
  <2>8. pc' # "bench" => FALSE
    BY <2>1 DEF TextOK
  <2> QED BY <2>1, <2>2, <2>6, <2>7, <2>8, ExecKeepsText
<1>7. CASE CallWrite
  <2>1. PICK d \in Data : writing' = d /\ said' = said \o d
    BY <1>7 DEF CallWrite, StartWrite
  <2>2. /\ ~ halted /\ UNCHANGED <<halted, terminal, pc>> /\ pc = "bench" /\ writing = <<>>
    BY <1>7 DEF CallWrite, InBench, Ready, hostVars
  <2>3. d \in Seq(Nat)
    BY BareMetalAssumption, SeqMonotonic
  <2>4. said = terminal /\ said' = terminal \o d /\ said' \in Seq(Nat)
    BY <2>1, <2>2, <2>3, ConcatEmptySeq, ConcatProperties DEF TextOK
  <2> QED BY <2>1, <2>2, <2>3, <2>4 DEF TextOK
<1>8. CASE CallReturns
  <2>1. ~ halted /\ UNCHANGED <<halted, terminal, writing, said, pc>>
    BY <1>8 DEF CallReturns, Return, programVars, hostVars
  <2> QED BY <2>1 DEF TextOK
<1>9. CASE CallLibrary
  <2>1. UNCHANGED semihostVars /\ UNCHANGED <<pc, said>>
    BY <1>9 DEF CallLibrary
  <2> QED BY <1>1, <1>2, <2>1 DEF TextOK
<1>10. CASE BenchEnds
  <2>1. UNCHANGED semihostVars /\ UNCHANGED said /\ writing = <<>>
    BY <1>10 DEF BenchEnds, BenchReturns, InBench, Ready
  <2> QED BY <1>1, <1>2, <2>1
<1>11. CASE CoreMarkPrints
  <2> DEFINE line == PrintResult(cm.iterations, GetTime(cm.start, cm.stop))
  <2>1. pc = "cm_fini" /\ writing = <<>>
    BY <1>11 DEF CoreMarkPrints, TextOK
  <2>2. cm.iterations \in Nat /\ GetTime(cm.start, cm.stop) \in Nat \ {0}
    BY <2>1, BareMetalAssumption, PortAssumption DEF CmOK, CmTypes
  <2>3. PICK text \in Seq(NonZero) : line = Append(text, 0)
    BY <2>2, LineIs
  <2>4. SubSeq(line, 1, Len(line) - 1) = text
    <3>1. Len(line) = Len(text) + 1 /\ Len(text) \in Nat
      BY <2>3, StrLenIs, LenProperties
    <3> QED BY <2>3, <3>1, StrLenIs
  <2>5. Shows(SemihostWrite0(line), text)
    BY <2>3, Operations, SeqMonotonic DEF Shows, SemihostWrite0, Request, NonZero
  <2>6. /\ SemihostExec(SemihostWrite0(line)) /\ said' = said \o SubSeq(line, 1, Len(line) - 1)
        /\ UNCHANGED writing
    BY <1>11 DEF CoreMarkPrints
  <2> HIDE DEF line
  <2> QED BY <2>1, <2>4, <2>5, <2>6, ExecKeepsText
<1>12. CASE CoreMarkChecks
  <2>1. writing = <<>>
    BY <1>12 DEF CoreMarkChecks, Ready
  <2>2. CASE CrcsAreKnown(cm.crcs)
    BY <1>1, <1>2, <1>12, <2>1, <2>2 DEF CoreMarkChecks, BenchReturns
  <2>3. CASE ~ CrcsAreKnown(cm.crcs)
    <3>1. SemihostExit(1).op = 32
      BY Operations DEF SemihostExit, Request
    <3> QED BY <1>12, <2>1, <2>3, <3>1, SilentKeepsText DEF CoreMarkChecks
  <2> QED BY <2>2, <2>3
<1> QED BY <1>3, <1>4, <1>5, <1>6, <1>7, <1>8, <1>9, <1>10, <1>11, <1>12 DEF Program

\* Only the two operations of the terminal show something.
LEMMA ServesSilently ==
  ASSUME Serve, ~ ServeTerminal, ~ ServeExit
  PROVE  terminal' = terminal /\ a0 \notin {3, 4}
<1> DEFINE Silent(n) == a0 = n /\ terminal' = terminal
<1>1. ServeOpen => Silent(1)
  BY Zenon DEF ServeOpen, Asked
<1>2. ServeClose => Silent(2)
  BY Zenon DEF ServeClose, Asked
<1>3. ServeFlen => Silent(12)
  BY Zenon DEF ServeFlen, Asked
<1>4. ServeSeek => Silent(10)
  BY Zenon DEF ServeSeek, Asked
<1>5. ServeRead => Silent(6)
  BY Zenon DEF ServeRead, Asked
<1>6. ServeWrite => Silent(5)
  BY Zenon DEF ServeWrite, Asked
<1>7. ServeReadc => Silent(7)
  BY Zenon DEF ServeReadc, Asked
<1>8. ServeGetCmdline => Silent(21)
  BY Zenon DEF ServeGetCmdline, Asked
<1> QED BY <1>1, <1>2, <1>3, <1>4, <1>5, <1>6, <1>7, <1>8 DEF Serve

\* The host shows the text of the request, and no other.
LEMMA HostKeepsText ==
  ASSUME TextOK, ExitOK, Host
  PROVE  TextOK'
<1>1. UNCHANGED <<pc, said>> /\ Serve
  BY DEF Host, programVars
<1>2. CASE ServeExit
  <2>1. UNCHANGED <<call, halted, writing, terminal>>
    BY <1>2 DEF ServeExit, targetVars
  <2> QED BY <1>1, <2>1 DEF TextOK, Shows
<1>3. CASE ~ ServeExit
  <2>1. /\ halted /\ ~ halted' /\ UNCHANGED writing /\ a0 = call.op /\ a1 = call.args
    BY <1>1, <1>3, ServeIs DEF ExitOK, Resume
  <2>2. PICK text \in Seq(Nat) : Shows(call, text) /\ said = terminal \o text \o writing
    BY <2>1 DEF TextOK
  <2>3. terminal' = terminal \o text
    <3>1. CASE ServeTerminal /\ a0 = 3
      <4>1. PICK c \in Nat : call.args = <<c>> /\ text = <<c>>
        BY <2>1, <2>2, <3>1 DEF Shows
      <4>2. terminal' = Append(terminal, c)
        BY <2>1, <3>1, <4>1 DEF ServeTerminal, Asked
      <4> QED BY <4>1, <4>2, AppendIsConcat DEF TextOK
    <3>2. CASE ServeTerminal /\ a0 = 4
      <4>1. text \in Seq(NonZero) /\ a1 = Append(text, 0)
        BY <2>1, <2>2, <3>2 DEF Shows
      <4>2. terminal' = terminal \o SubSeq(a1, 1, StrLen(a1))
        <5>1. a0 # 3
          BY <3>2
        <5> QED BY <3>2, <5>1, Zenon DEF ServeTerminal, Asked
      <4> QED BY <4>1, <4>2, StrLenIs
    <3>3. CASE ~ ServeTerminal
      <4>1. terminal' = terminal /\ a0 \notin {3, 4}
        BY <1>1, <1>3, <3>3, ServesSilently
      <4>2. text = <<>>
        BY <2>1, <2>2, <4>1 DEF Shows
      <4> QED BY <4>1, <4>2, ConcatEmptySeq DEF TextOK
    <3> QED BY <3>1, <3>2, <3>3 DEF ServeTerminal, Asked
  <2>4. terminal' \in Seq(Nat)
    BY <2>2, <2>3, ConcatProperties DEF TextOK
  <2> QED BY <1>1, <2>1, <2>2, <2>3, <2>4 DEF TextOK
<1> QED BY <1>2, <1>3

\* Text stays in order from the program to the terminal.
LEMMA TextInvariant == Spec => [](TextOK /\ ExitOK)
<1>1. Init => TextOK
  <2> SUFFICES ASSUME Init PROVE TextOK
    OBVIOUS
  <2>1. <<>> \in Seq(Nat) /\ <<>> \o <<>> = <<>>
    BY EmptySeq, ConcatEmptySeq
  <2> QED BY <2>1 DEF Init, TextOK
<1>2. TextOK /\ ExitOK /\ CmOK /\ [Next]_vars => TextOK'
  <2> SUFFICES ASSUME TextOK, ExitOK, CmOK, [Next]_vars PROVE TextOK'
    OBVIOUS
  <2>1. CASE Next
    BY <2>1, ProgramKeepsText, HostKeepsText DEF Next
  <2>2. CASE UNCHANGED vars
    BY <2>2 DEF vars, semihostVars, targetVars, hostVars, programVars, TextOK, Shows
  <2> QED BY <2>1, <2>2
<1> QED BY <1>1, <1>2, RunsInvariant, CmInvariant, PTL DEF Spec

\* The terminal shows what the program wrote, in order, and all of it after the call.
THEOREM TerminalShowsAll == Spec => []TerminalInOrder
<1>1. ASSUME TextOK, ExitOK
      PROVE  TerminalInOrder
  <2>1. PICK rest \in Seq(Nat) : said = terminal \o rest /\ (Ready => rest = <<>>)
    <3>1. CASE halted
      <4>1. PICK text \in Seq(Nat) : said = terminal \o text \o writing
        BY <1>1, <3>1 DEF TextOK
      <4>2. said = terminal \o (text \o writing) /\ text \o writing \in Seq(Nat)
        <5>1. text \in Seq(Nat) /\ writing \in Seq(Nat) /\ terminal \in Seq(Nat)
          BY <1>1 DEF TextOK
        <5>2. terminal \o text \o writing = terminal \o (text \o writing)
          BY <5>1, ConcatAssociative
        <5>3. text \o writing \in Seq(Nat)
          BY <5>1, ConcatProperties
        <5> QED BY <4>1, <5>2, <5>3
      <4> QED BY <3>1, <4>2 DEF Ready
    <3>2. CASE ~ halted
      BY <1>1, <3>2 DEF TextOK, Ready
    <3> QED BY <3>1, <3>2
  <2>2. terminal \in Seq(Nat)
    BY <1>1 DEF TextOK
  <2>3. Len(terminal) <= Len(said)
    <3>1. Len(terminal) \in Nat /\ Len(rest) \in Nat /\ Len(said) = Len(terminal) + Len(rest)
      BY <2>1, <2>2, LenProperties, ConcatProperties
    <3> QED BY <3>1
  <2>4. terminal = SubSeq(said, 1, Len(terminal))
    BY <2>1, <2>2, StartOfConcat
  <2>5. Ready => terminal = said
    BY <2>1, <2>2, ConcatEmptySeq
  <2> QED BY <2>3, <2>4, <2>5 DEF TerminalInOrder
<1> QED BY <1>1, TextInvariant, PTL

-----------------------------------------------------------------------------
(* What the results tell.                                                  *)

\* What a register holds
Registers == 0 .. Word - 1

\* A number that fits in a long comes back from the register.
LEMMA SignedField ==
  ASSUME NEW x \in -(Word \div 2) .. Word \div 2 - 1
  PROVE  Field(x) \in Registers /\ Signed(Field(x)) = x
<1>1. Field(x) = (IF x < 0 THEN x + Word ELSE x) /\ Field(x) \in Registers
  BY StatusField DEF Status, Registers
<1>2. Word \in Nat \ {0} /\ Word = 2 * (Word \div 2) /\ x \in Int
  BY SemihostingAssumption
<1> QED BY <1>1, <1>2 DEF Signed

\* A number that a register holds is packed as it is.
LEMMA FieldIs ==
  ASSUME NEW x \in Int
  PROVE  Field(x) \in Registers /\ (x \in Registers => Field(x) = x)
  BY SemihostingAssumption DEF Field, Registers

\* What the functions ask for
RequestOK(r) ==
  \/ r.op = 1 /\ \E p \in Paths, m \in Modes : r.args = <<p, SemihostOpenMode[m], Len(p) - 1>>
  \/ r.op \in {2, 12} /\ \E fd \in Registers : r.args = <<fd>>
  \/ r.op = 10 /\ \E fd, n \in Registers : r.args = <<fd, n>>
  \/ r.op = 6 /\ \E fd \in Registers, len \in Lengths : r.args = <<fd, len>>
  \/ r.op = 5 /\ \E fd \in Registers, d \in Data : r.args = <<fd, d, Len(d)>>
  \/ r.op \in {3, 4, 7, 21, 32}

\* A call that runs asks for what the functions of semihosting ask for.
CallOK ==
  /\ halted \in BOOLEAN /\ a0 \in Registers
  /\ call # None => RequestOK(call)
  /\ halted => buffer = <<>>

\* The files of the host, and the open ones
FilesOK ==
  /\ DOMAIN handles \subseteq 1 .. MaxHandles
  /\ \A fd \in DOMAIN handles : handles[fd] \in [name : DOMAIN files, pos : Nat]
  /\ \A name \in DOMAIN files : files[name] \in Seq(Nat) /\ Len(files[name]) <= MaxFile

\* Until the function returns, what it will return tells of the files as they are.
AnswerOK == call # None /\ ~ halted => ResultTells(call, ResultOf(call, Signed(a0)))

\* semihost_open packs the name and its length without the end.
LEMMA PathIs ==
  ASSUME NEW p \in Paths
  PROVE  StrLen(p) = Len(p) - 1 /\ Len(p) \in Nat \ {0} /\ Len(p) - 1 \in Registers
<1> DEFINE S == {len \in 0 .. Len(p) - 1 : p[len + 1] = 0}
<1>1. p \in Seq(Nat) /\ p # <<>> /\ (\A i \in DOMAIN p : p[i] = 0 <=> i = Len(p)) /\ Len(p) < Word
  BY BareMetalAssumption
<1>2. Len(p) \in Nat \ {0} /\ DOMAIN p = 1 .. Len(p)
  BY <1>1, EmptySeq, LenProperties
<1>3. \A i \in 1 .. Len(p) : p[i] = 0 <=> i = Len(p)
  BY <1>1, <1>2
<1> HIDE DEF S
<1>4. S \in SUBSET Nat /\ Len(p) - 1 \in S /\ \A j \in S : Len(p) - 1 <= j
  <2>1. \A j \in 0 .. Len(p) - 1 : j + 1 \in 1 .. Len(p) /\ (j + 1 = Len(p) <=> j = Len(p) - 1)
    BY <1>2
  <2>2. \A j \in 0 .. Len(p) - 1 : p[j + 1] = 0 <=> j = Len(p) - 1
    BY <1>3, <2>1, Zenon
  <2>3. Len(p) - 1 \in 0 .. Len(p) - 1 /\ Len(p) - 1 \in Nat /\ Len(p) - 1 <= Len(p) - 1
    BY <1>2
  <2>4. \A j : j \in S <=> j = Len(p) - 1
    BY <2>2, <2>3, Zenon DEF S
  <2> QED BY <2>3, <2>4
<1>5. StrLen(p) = Len(p) - 1
  BY <1>4, MinIs DEF StrLen, S
<1> QED BY <1>1, <1>2, <1>5, SemihostingAssumption DEF Registers

\* Each call of a benchmark is such a request.
LEMMA CallsAsk ==
  ASSUME CallTerminal \/ CallFile \/ CallCmdline
  PROVE  \E request, text : Calls(request, text) /\ RequestOK(request)
<1> USE Operations
<1>1. CASE CallTerminal
  <2>1. /\ \A c : RequestOK(PutChar(c)) /\ \A s : RequestOK(SemihostWrite0(s)) /\ RequestOK(PollIn)
    BY DEF RequestOK, Request, PutChar, PollOut, SemihostWrite0, PollIn
  <2> QED BY <1>1, <2>1 DEF CallTerminal
<1>2. CASE CallFile
  <2>1. ASSUME NEW p \in Paths, NEW m \in Modes PROVE RequestOK(SemihostOpen(p, m))
    <3>1. SemihostOpenMode[m] \in 0 .. 11 /\ SemihostOpenMode[m] \in Registers
      <4>1. m \in DOMAIN SemihostOpenMode
        BY BareMetalAssumption
      <4>2. SemihostOpenMode[m] \in 0 .. 11
        BY <4>1 DEF SemihostOpenMode
      <4> QED BY <4>2, SemihostingAssumption, FieldAssumption DEF Registers, SEMIHOST_STOPPED_APP_EXIT
    <3>2. Field(SemihostOpenMode[m]) = SemihostOpenMode[m]
      BY <3>1, FieldIs
    <3>3. Field(StrLen(p)) = Len(p) - 1
      BY PathIs, FieldIs DEF Registers
    <3> QED BY <3>2, <3>3 DEF RequestOK, Request, SemihostOpen
  <2>2. ASSUME NEW fd \in Descriptors
        PROVE  /\ RequestOK(SemihostClose(fd)) /\ RequestOK(SemihostFlen(fd))
               /\ \A n \in Offsets : RequestOK(SemihostSeek(fd, n))
               /\ \A len \in Lengths : RequestOK(SemihostRead(fd, len))
               /\ \A d \in Data : RequestOK(SemihostWrite(fd, d))
    <3>1. Field(fd) \in Registers
      BY BareMetalAssumption, FieldIs
    <3>2. \A n \in Offsets : Field(n) \in Registers
      BY BareMetalAssumption, FieldIs
    <3>3. \A len \in Lengths : Field(len) = len
      <4>1. \A len \in Lengths : len \in Registers /\ len \in Int
        BY BareMetalAssumption, SemihostingAssumption DEF Registers
      <4> QED BY <4>1, FieldIs
    <3>4. \A d \in Data : Field(Len(d)) = Len(d)
      <4>1. \A d \in Data : Len(d) \in Registers /\ Len(d) \in Int
        <5> SUFFICES ASSUME NEW d \in Data PROVE Len(d) \in Registers
          BY DEF Registers
        <5>1. Len(d) \in Nat /\ Len(d) < Word \div 2
          BY BareMetalAssumption, LenProperties
        <5> QED BY <5>1, SemihostingAssumption DEF Registers
      <4> QED BY <4>1, FieldIs
    <3>5. RequestOK(SemihostClose(fd)) /\ RequestOK(SemihostFlen(fd))
      BY <3>1 DEF RequestOK, Request, SemihostClose, SemihostFlen
    <3>6. \A n \in Offsets : RequestOK(SemihostSeek(fd, n))
      BY <3>1, <3>2 DEF RequestOK, Request, SemihostSeek
    <3>7. \A len \in Lengths : RequestOK(SemihostRead(fd, len))
      BY <3>1, <3>3 DEF RequestOK, Request, SemihostRead
    <3>8. \A d \in Data : RequestOK(SemihostWrite(fd, d))
      BY <3>1, <3>4 DEF RequestOK, Request, SemihostWrite
    <3> QED BY <3>5, <3>6, <3>7, <3>8
  <2> QED BY <1>2, <2>1, <2>2 DEF CallFile
<1>3. CASE CallCmdline
  <2>1. \A len : RequestOK(SemihostGetCmdline(len))
    BY DEF RequestOK, Request, SemihostGetCmdline
  <2> QED BY <1>3, <2>1 DEF CallCmdline
<1> QED BY <1>1, <1>2, <1>3

\* A call asks for something that the functions ask for.
LEMMA ExecKeepsFiles ==
  ASSUME FilesOK, CallOK, NEW request, SemihostExec(request), RequestOK(request)
  PROVE  FilesOK' /\ CallOK' /\ AnswerOK'
<1>1. /\ UNCHANGED <<files, handles>> /\ halted' = TRUE /\ call' = request /\ a0' = request.op
  BY DEF SemihostExec, hostVars
<1>2. request.op \in 0 .. 32
  BY DEF RequestOK
<1>3. a0' \in Registers
  <2>1. Word \in Nat /\ 131110 < Word
    BY SemihostingAssumption, FieldAssumption DEF SEMIHOST_STOPPED_APP_EXIT
  <2>2. 0 .. 32 \subseteq Registers
    BY <2>1 DEF Registers
  <2> QED BY <1>1, <1>2, <2>2
<1>4. FilesOK'
  BY <1>1 DEF FilesOK
<1>5. buffer' = <<>>
  BY DEF SemihostExec
<1> QED BY <1>1, <1>3, <1>4, <1>5 DEF CallOK, AnswerOK, RequestOK

\* Nothing happens between the program and its host.
LEMMA QuietKeepsFiles ==
  ASSUME FilesOK, CallOK, AnswerOK, UNCHANGED <<call, halted, a0, buffer, files, handles>>
  PROVE  FilesOK' /\ CallOK' /\ AnswerOK'
  BY DEF FilesOK, CallOK, AnswerOK, RequestOK, ResultTells, ReadTells, WriteTells, OpenTells, IsOpen

\* A step of the program leaves the host's files alone, and keeps what its results tell.
LEMMA ProgramKeepsFiles ==
  ASSUME FilesOK, CallOK, AnswerOK, Program
  PROVE  FilesOK' /\ CallOK' /\ AnswerOK'
<1> DEFINE Quiet == UNCHANGED <<call, halted, a0, buffer, files, handles>>
<1>1. UNCHANGED semihostVars => Quiet
  BY DEF semihostVars, targetVars, hostVars
<1> HIDE DEF Quiet
<1>2. \A s : RequestOK(SemihostExit(s))
  BY Operations DEF RequestOK, SemihostExit, Request
<1>3. CASE Exit
  BY <1>2, <1>3, ExecKeepsFiles DEF Exit
<1>4. CASE CallTerminal \/ CallFile \/ CallCmdline
  <2>1. PICK request, text : Calls(request, text) /\ RequestOK(request)
    BY <1>4, CallsAsk
  <2> QED BY <2>1, ExecKeepsFiles DEF Calls
<1>5. CASE WriteOn \/ CoreMarkPrints
  <2>1. PICK request : SemihostExec(request) /\ request.op \in {3, 4}
    BY <1>5, Operations DEF WriteOn, WriteNext, CoreMarkPrints, PollOut, SemihostWrite0, Request
  <2> QED BY <2>1, ExecKeepsFiles DEF RequestOK
<1>6. CASE CallReturns
  <2>1. ~ halted /\ call' = None /\ UNCHANGED <<halted, a0, files, handles>>
    BY <1>6 DEF CallReturns, Return, hostVars
  <2> QED BY <2>1 DEF FilesOK, CallOK, AnswerOK
<1>7. CASE CoreMarkChecks /\ ~ CrcsAreKnown(cm.crcs)
  BY <1>2, <1>7, ExecKeepsFiles DEF CoreMarkChecks
<1>8. CASE CallWrite
  <2>1. Quiet
    BY <1>8 DEF CallWrite, hostVars, Quiet
  <2> QED BY <2>1, QuietKeepsFiles DEF Quiet
<1>9. CASE \/ Start \/ MainRuns \/ MainDone \/ CallLibrary \/ BenchEnds
           \/ CoreMarkStarts \/ CoreMarkStops \/ (CoreMarkChecks /\ CrcsAreKnown(cm.crcs))
  <2>1. UNCHANGED semihostVars
    BY <1>9 DEF Start, MainRuns, MainDone, CallLibrary, BenchEnds, BenchReturns, CoreMarkStarts,
                CoreMarkStops, CoreMarkChecks
  <2>2. Quiet
    BY <1>1, <2>1
  <2> QED BY <2>2, QuietKeepsFiles DEF Quiet
<1> QED BY <1>3, <1>4, <1>5, <1>6, <1>7, <1>8, <1>9 DEF Program

\* The host answers a request.
Answers(ret) ==
  /\ halted /\ ~ halted' /\ call' = call /\ call # None /\ a0 = call.op /\ a1 = call.args
  /\ buffer = <<>> /\ RequestOK(call) /\ a0' = Field(ret)

\* An answer of the host, and what the function makes of it
LEMMA HostAnswers ==
  ASSUME CallOK, ExitOK, halted, NEW ret \in Int, Resume(ret)
  PROVE  Answers(ret) /\ CallOK'
<1>1. /\ halted' = FALSE /\ call' = call /\ a0' = Field(ret) /\ call # None
      /\ a0 = call.op /\ a1 = call.args /\ RequestOK(call) /\ buffer = <<>>
  BY DEF Resume, ExitOK, CallOK
<1>2. Field(ret) \in Registers
  BY FieldIs
<1> QED BY <1>1, <1>2 DEF Answers, CallOK, RequestOK

\* Only the results of read, write and open tell of files.
LEMMA OtherAnswers ==
  ASSUME NEW ret, Answers(ret), a0 \notin {1, 5, 6}
  PROVE  AnswerOK'
<1>1. call'.op \notin {1, 5, 6}
  BY DEF Answers
<1> QED BY <1>1, Operations DEF AnswerOK, ResultTells

\* What semihost_read makes of the bytes that are missing
LEMMA ReadAnswers ==
  ASSUME NEW ret, Answers(ret), a0 = 6, NEW fd, NEW len \in 0 .. Word \div 2 - 1,
         a1 = <<fd, len>>, NEW got \in 0 .. len, ret = len - got,
         got = 0 => /\ buffer' = <<>>
                    /\ IsOpen(fd)' => len = 0 \/ handles'[fd].pos >= Len(files'[handles'[fd].name]),
         got # 0 => LET h == handles'[fd] IN
                    /\ buffer' = SubSeq(files'[h.name], h.pos - got + 1, h.pos)
                    /\ Len(buffer') = got
  PROVE  AnswerOK'
<1>1. /\ call'.op = 6 /\ call'.args = <<fd, len>> /\ a0' = Field(ret)
  BY DEF Answers
<1>2. Word \in Nat \ {0} /\ Word = 2 * (Word \div 2) /\ Word \div 2 \in Nat
  BY SemihostingAssumption
<1>3. ret \in -(Word \div 2) .. Word \div 2 - 1 /\ len \in -(Word \div 2) .. Word \div 2 - 1
  BY <1>2
<1>4. Signed(a0') = ret
  BY <1>1, <1>3, SignedField
<1>5. Signed(len) = len
  BY <1>2 DEF Signed
<1>6. ResultOf(call, Signed(a0))' = IF ret = len THEN -5 ELSE IF ret = 0 THEN len ELSE ret
  BY <1>1, <1>4, <1>5, Operations DEF ResultOf, ReadResult
<1>7. buffer' = <<>> <=> got = 0
  BY EmptySeq
<1>8. got # 0 => Len(buffer') = got
  OBVIOUS
<1> DEFINE result == ResultOf(call, Signed(a0))
<1>9. /\ got = 0 => result' = -5
      /\ got # 0 => result' = IF got = len THEN len ELSE len - got
  BY <1>6
<1> HIDE DEF result
<1>10. ResultTells(call, result)' <=> ReadTells(fd, len, result)'
  BY <1>1, <1>5, Operations DEF ResultTells
<1>11. CASE got = 0
  BY <1>7, <1>9, <1>10, <1>11 DEF ReadTells, AnswerOK, result
<1>12. CASE got # 0
  BY <1>7, <1>8, <1>9, <1>10, <1>12 DEF ReadTells, AnswerOK, result
<1> QED BY <1>11, <1>12

\* A request with the number of read is one of read, and so on.
LEMMA Blocks ==
  ASSUME RequestOK(call)
  PROVE  /\ call.op = 1 => \E p \in Paths, m \in Modes : call.args = <<p, SemihostOpenMode[m], Len(p) - 1>>
         /\ call.op \in {2, 12} => \E fd \in Registers : call.args = <<fd>>
         /\ call.op = 10 => \E fd, n \in Registers : call.args = <<fd, n>>
         /\ call.op = 6 => \E fd \in Registers, len \in Lengths : call.args = <<fd, len>>
         /\ call.op = 5 => \E fd \in Registers, d \in Data : call.args = <<fd, d, Len(d)>>
  BY DEF RequestOK

\* The part of a sequence behind a position
LEMMA PartIs ==
  ASSUME NEW T, NEW s \in Seq(T), NEW p \in Nat, NEW n \in Nat, p + n <= Len(s)
  PROVE  /\ SubSeq(s, p + 1, p + n) \in Seq(T) /\ Len(SubSeq(s, p + 1, p + n)) = n
         /\ \A i \in 1 .. n : SubSeq(s, p + 1, p + n)[i] = s[p + i]
<1> DEFINE first == p + 1
           last == p + n
<1>1. first \in Int /\ last \in Int
  OBVIOUS
<1>2. \A i \in first .. last : s[i] \in T
  <2> SUFFICES ASSUME NEW i \in first .. last PROVE s[i] \in T
    OBVIOUS
  <2>1. i \in 1 .. Len(s)
    BY LenProperties
  <2> QED BY <2>1, ElementOfSeq
<1>3. /\ (IF first <= last THEN last - first + 1 ELSE 0) = n
      /\ last - first + 1 = n
      /\ \A i \in 1 .. n : first + i - 1 = p + i
  OBVIOUS
<1> HIDE DEF first, last
<1>4. /\ SubSeq(s, first, last) \in Seq(T)
      /\ Len(SubSeq(s, first, last)) = IF first <= last THEN last - first + 1 ELSE 0
      /\ \A i \in 1 .. last - first + 1 : SubSeq(s, first, last)[i] = s[first + i - 1]
  BY <1>1, <1>2, SubSeqProperties
<1>5. /\ SubSeq(s, first, last) \in Seq(T) /\ Len(SubSeq(s, first, last)) = n
      /\ \A i \in 1 .. n : SubSeq(s, first, last)[i] = s[p + i]
  BY <1>3, <1>4
<1> QED BY <1>5 DEF first, last

\* The middle of three sequences is the part of the whole behind the first.
LEMMA MiddleIs ==
  ASSUME NEW T, NEW a \in Seq(T), NEW b \in Seq(T), NEW c \in Seq(T)
  PROVE  b = SubSeq(a \o b \o c, Len(a) + 1, Len(a) + Len(b))
<1> DEFINE s == a \o b \o c
           p == Len(a)
           n == Len(b)
           part == SubSeq(s, p + 1, p + n)
<1>1. p \in Nat /\ n \in Nat /\ Len(c) \in Nat
  BY LenProperties
<1>2. /\ a \o b \in Seq(T) /\ Len(a \o b) = p + n
      /\ \A i \in 1 .. p + n : (a \o b)[i] = IF i <= p THEN a[i] ELSE b[i - p]
  BY ConcatProperties
<1>3. /\ s \in Seq(T) /\ Len(s) = p + n + Len(c)
      /\ \A i \in 1 .. p + n + Len(c) : s[i] = IF i <= p + n THEN (a \o b)[i] ELSE c[i - (p + n)]
  BY <1>2, ConcatProperties
<1> HIDE DEF s, p, n
<1>4. \A i \in p + 1 .. p + n : s[i] = b[i - p]
  <2> SUFFICES ASSUME NEW i \in p + 1 .. p + n PROVE s[i] = b[i - p]
    OBVIOUS
  <2>1. i \in 1 .. p + n + Len(c) /\ i \in 1 .. p + n /\ i <= p + n /\ ~ i <= p
    BY <1>1
  <2> QED BY <1>2, <1>3, <2>1
<1>5. /\ part \in Seq(T) /\ Len(part) = n
      /\ \A i \in 1 .. n : part[i] = s[p + i]
  <2>1. s \in Seq(T) /\ p + n <= Len(s)
    BY <1>1, <1>3
  <2> QED BY <1>1, <2>1, PartIs, Zenon
<1>6. \A i \in 1 .. n : part[i] = b[i]
  <2> SUFFICES ASSUME NEW i \in 1 .. n PROVE s[p + i] = b[i]
    BY <1>5
  <2>1. p + i \in p + 1 .. p + n /\ (p + i) - p = i
    BY <1>1
  <2> QED BY <1>4, <2>1
<1> HIDE DEF part
<1>7. b = part
  BY <1>5, <1>6, SeqEqual DEF n
<1> QED BY <1>7 DEF part, s, p, n

\* A read moves the position by what came, and its result tells of it.
LEMMA ReadKeepsFiles ==
  ASSUME FilesOK, CallOK, ExitOK, ServeRead
  PROVE  FilesOK' /\ CallOK' /\ AnswerOK'
<1>1. halted /\ a0 = 6 /\ UNCHANGED files
  BY Zenon DEF ServeRead, Asked
<1>2. call # None /\ a0 = call.op /\ a1 = call.args /\ RequestOK(call) /\ buffer = <<>>
  BY <1>1 DEF ExitOK, CallOK
<1>3. PICK fd \in Registers, len \in Lengths : a1 = <<fd, len>>
  BY <1>1, <1>2, Blocks
<1>4. len \in 0 .. Word \div 2 - 1 /\ len \in Nat
  BY BareMetalAssumption
<1>5. CASE ~ IsOpen(fd)
  <2>1. Resume(len) /\ UNCHANGED <<handles, buffer>>
    BY <1>3, <1>5 DEF ServeRead
  <2>2. Answers(len) /\ CallOK'
    BY <1>1, <1>4, <2>1, HostAnswers
  <2>3. 0 \in 0 .. len /\ len = len - 0 /\ ~ IsOpen(fd)'
    BY <1>4, <1>5, <2>1 DEF IsOpen
  <2>4. AnswerOK'
    BY <1>1, <1>2, <1>3, <1>4, <2>1, <2>2, <2>3, ReadAnswers
  <2>5. FilesOK'
    BY <1>1, <2>1 DEF FilesOK
  <2> QED BY <2>2, <2>4, <2>5
<1>6. CASE IsOpen(fd)
  <2> DEFINE bytes == files[handles[fd].name]
             pos == handles[fd].pos
             left == IF pos < Len(bytes) THEN Len(bytes) - pos ELSE 0
             ready == IF len < left THEN len ELSE left
  <2>1. PICK got \in (IF ready = 0 THEN {0} ELSE 1 .. ready) :
              /\ buffer' = SubSeq(bytes, pos + 1, pos + got)
              /\ handles' = [handles EXCEPT ![fd].pos = pos + got]
              /\ Resume(len - got)
    BY <1>3, <1>6 DEF ServeRead
  <2>2. /\ fd \in DOMAIN handles /\ handles[fd] \in [name : DOMAIN files, pos : Nat]
        /\ bytes \in Seq(Nat) /\ pos \in Nat
    BY <1>6 DEF FilesOK, IsOpen
  <2> HIDE DEF bytes, pos
  <2>3. Len(bytes) \in Nat
    BY <2>2, LenProperties
  <2>4. got \in 0 .. len /\ (got # 0 => pos + got <= Len(bytes))
    BY <1>4, <2>1, <2>2, <2>3
  <2>5. got \in Nat /\ len - got \in Int /\ pos + got \in Nat
    BY <1>4, <2>2, <2>4
  <2>6. Answers(len - got) /\ CallOK'
    BY <1>1, <2>1, <2>5, HostAnswers
  <2>7. /\ DOMAIN handles' = DOMAIN handles
        /\ handles'[fd] = [handles[fd] EXCEPT !.pos = pos + got]
        /\ \A x \in DOMAIN handles : x # fd => handles'[x] = handles[x]
    BY <2>1, <2>2
  <2>8. /\ handles'[fd] \in [name : DOMAIN files, pos : Nat]
        /\ handles'[fd].name = handles[fd].name /\ handles'[fd].pos = pos + got
    BY <2>2, <2>5, <2>7
  <2>9. FilesOK'
    BY <1>1, <2>7, <2>8 DEF FilesOK
  <2>10. got = 0 => /\ buffer' = <<>>
                    /\ len = 0 \/ handles'[fd].pos >= Len(files'[handles'[fd].name])
    <3>1. got = 0 => len = 0 \/ pos >= Len(bytes)
      BY <1>4, <2>1, <2>2, <2>3
    <3>2. files'[handles'[fd].name] = bytes
      BY <1>1, <2>8 DEF bytes
    <3>3. got = 0 => handles'[fd].pos = pos
      BY <2>2, <2>8
    <3>4. got = 0 => buffer' = <<>>
      BY <2>1, <2>2, SubSeqEmpty
    <3> QED BY <3>1, <3>2, <3>3, <3>4
  <2>11. ASSUME got # 0
         PROVE  /\ buffer' = SubSeq(files'[handles'[fd].name], handles'[fd].pos - got + 1, handles'[fd].pos)
                /\ Len(buffer') = got
    <3>1. Len(buffer') = got
      BY <2>1, <2>2, <2>4, <2>5, <2>11, PartIs
    <3>2. handles'[fd].pos - got + 1 = pos + 1 /\ handles'[fd].pos = pos + got
      BY <2>2, <2>5, <2>8
    <3>3. files'[handles'[fd].name] = bytes
      BY <1>1, <2>8 DEF bytes
    <3> QED BY <2>1, <3>1, <3>2, <3>3, Zenon
  <2>12. AnswerOK'
    BY <1>1, <1>3, <1>4, <2>4, <2>6, <2>10, <2>11, ReadAnswers
  <2> QED BY <2>6, <2>9, <2>12
<1> QED BY <1>5, <1>6

\* A write puts the data before the new position, or changes nothing.
LEMMA WriteKeepsFiles ==
  ASSUME FilesOK, CallOK, ExitOK, ServeWrite
  PROVE  FilesOK' /\ CallOK' /\ AnswerOK'
<1>1. halted /\ a0 = 5 /\ UNCHANGED buffer
  BY Zenon DEF ServeWrite, Asked
<1>2. call # None /\ a0 = call.op /\ a1 = call.args /\ RequestOK(call) /\ buffer = <<>>
  BY <1>1 DEF ExitOK, CallOK
<1>3. PICK fd \in Registers, d \in Data : a1 = <<fd, d, Len(d)>>
  BY <1>1, <1>2, Blocks
<1> DEFINE n == Len(d)
<1>4. d \in Seq(Nat) /\ n \in Nat /\ n \in Registers /\ n < Word \div 2
  <2>1. d \in Seq(Nat) /\ n < Word \div 2
    BY BareMetalAssumption, SeqMonotonic
  <2> QED BY <2>1, LenProperties, SemihostingAssumption DEF Registers
<1>5. CASE ~ (IsOpen(fd) /\ handles[fd].pos + n <= MaxFile)
  <2>1. Resume(n) /\ UNCHANGED <<files, handles>>
    BY <1>3, <1>5 DEF ServeWrite
  <2>2. Answers(n) /\ CallOK'
    BY <1>1, <1>4, <2>1, HostAnswers
  <2>3. /\ call'.op = 5 /\ call'.args = <<fd, d, n>> /\ a0' = n
    <3>1. Field(n) = n
      BY <1>4, FieldIs
    <3> QED BY <1>1, <1>2, <1>3, <2>2, <3>1 DEF Answers
  <2>4. Signed(a0') = n
    BY <1>4, <2>3, SemihostingAssumption DEF Signed
  <2>5. ResultOf(call, Signed(a0))' = n
    BY <2>3, <2>4, Operations DEF ResultOf
  <2> HIDE DEF n
  <2> DEFINE result == ResultOf(call, Signed(a0))
  <2>6. AnswerOK'
    <3>1. WriteTells(fd, d, result)'
      BY <1>4, <2>5 DEF WriteTells, n
    <3> HIDE DEF result
    <3>2. ResultTells(call, result)' <=> WriteTells(fd, d, result)'
      BY <2>3, Operations DEF ResultTells
    <3> QED BY <3>1, <3>2 DEF AnswerOK, result
  <2>7. FilesOK'
    BY <2>1 DEF FilesOK
  <2> QED BY <2>2, <2>6, <2>7
<1>6. CASE IsOpen(fd) /\ handles[fd].pos + n <= MaxFile
  <2> DEFINE h == handles[fd]
             old == files[h.name]
             start == [i \in 1 .. h.pos |-> IF i <= Len(old) THEN old[i] ELSE 0]
             rest == SubSeq(old, h.pos + n + 1, Len(old))
             new == start \o d \o rest
  <2>1. /\ files' = [files EXCEPT ![h.name] = new]
        /\ handles' = [handles EXCEPT ![fd].pos = h.pos + n]
        /\ Resume(0)
    BY <1>3, <1>6 DEF ServeWrite
  <2>2. /\ fd \in DOMAIN handles /\ h \in [name : DOMAIN files, pos : Nat]
        /\ old \in Seq(Nat) /\ Len(old) <= MaxFile /\ h.pos \in Nat /\ h.name \in DOMAIN files
    BY <1>6 DEF FilesOK, IsOpen
  <2>3. /\ h.pos + n \in Nat /\ h.pos + n <= MaxFile /\ MaxFile \in Nat
        /\ Len(old) \in Nat /\ \A i \in 1 .. Len(old) : old[i] \in Nat
    BY <1>4, <1>6, <2>2, LenProperties, ElementOfSeq, SemihostingAssumption
  <2> HIDE DEF h, old, n
  <2>4. start \in Seq(Nat) /\ Len(start) = h.pos
    BY <2>2, <2>3
  <2>5. rest \in Seq(Nat) /\ Len(rest) = IF h.pos + n < Len(old) THEN Len(old) - h.pos - n ELSE 0
    <3>1. \A i \in h.pos + n + 1 .. Len(old) : old[i] \in Nat
      BY <2>3
    <3>2. h.pos + n + 1 \in Int /\ Len(old) \in Int
      BY <2>3
    <3>3. /\ rest \in Seq(Nat)
          /\ Len(rest) = IF h.pos + n + 1 <= Len(old) THEN Len(old) - (h.pos + n + 1) + 1 ELSE 0
      BY <3>1, <3>2, SubSeqProperties
    <3> QED BY <1>4, <2>2, <2>3, <3>3
  <2> HIDE DEF start, rest
  <2>6. /\ start \o d \in Seq(Nat) /\ Len(start \o d) = h.pos + n
    BY <1>4, <2>4, ConcatProperties DEF n
  <2>7. /\ new \in Seq(Nat) /\ Len(new) = h.pos + n + Len(rest)
    BY <2>5, <2>6, ConcatProperties
  <2>8. Len(new) <= MaxFile
    BY <1>4, <2>2, <2>3, <2>5, <2>7
  <2>9. d = SubSeq(new, h.pos + 1, h.pos + n)
    <3>1. d = SubSeq(new, Len(start) + 1, Len(start) + Len(d))
      BY <1>4, <2>4, <2>5, MiddleIs
    <3> QED BY <2>4, <3>1 DEF n
  <2> HIDE DEF new
  <2>10. /\ DOMAIN files' = DOMAIN files /\ files'[h.name] = new
         /\ \A x \in DOMAIN files : x # h.name => files'[x] = files[x]
    BY <2>1, <2>2
  <2>11. /\ DOMAIN handles' = DOMAIN handles
         /\ handles'[fd] = [h EXCEPT !.pos = h.pos + n]
         /\ \A x \in DOMAIN handles : x # fd => handles'[x] = handles[x]
    BY <2>1, <2>2 DEF h
  <2>12. /\ handles'[fd] \in [name : DOMAIN files, pos : Nat]
         /\ handles'[fd].name = h.name /\ handles'[fd].pos = h.pos + n
    BY <2>2, <2>3, <2>11
  <2>13. FilesOK'
    <3>1. \A x \in DOMAIN files' : files'[x] \in Seq(Nat) /\ Len(files'[x]) <= MaxFile
      BY <2>7, <2>8, <2>10 DEF FilesOK
    <3>2. \A x \in DOMAIN handles' : handles'[x] \in [name : DOMAIN files', pos : Nat]
      BY <2>10, <2>11, <2>12 DEF FilesOK
    <3> QED BY <2>11, <3>1, <3>2 DEF FilesOK
  <2>14. Answers(0) /\ CallOK'
    BY <1>1, <2>1, HostAnswers
  <2>15. call'.op = 5 /\ call'.args = <<fd, d, n>>
    BY <1>1, <1>2, <1>3, <2>14 DEF Answers, n
  <2>16. d = SubSeq(files'[handles'[fd].name], handles'[fd].pos - Len(d) + 1, handles'[fd].pos)
    <3>1. handles'[fd].pos - n + 1 = h.pos + 1 /\ handles'[fd].pos = h.pos + n
      BY <1>4, <2>2, <2>12 DEF n
    <3>2. files'[handles'[fd].name] = new
      BY <2>10, <2>12
    <3> QED BY <2>9, <3>1, <3>2, Zenon DEF n
  <2>17. ResultOf(call, Signed(a0))' = 0
    <3>1. 0 \in -(Word \div 2) .. Word \div 2 - 1
      BY SemihostingAssumption
    <3>2. Signed(a0') = 0
      BY <2>14, <3>1, SignedField DEF Answers
    <3> QED BY <2>15, <3>2, Operations DEF ResultOf
  <2> DEFINE result == ResultOf(call, Signed(a0))
  <2>18. AnswerOK'
    <3>1. WriteTells(fd, d, result)'
      BY <2>16, <2>17 DEF WriteTells
    <3> HIDE DEF result
    <3>2. ResultTells(call, result)' <=> WriteTells(fd, d, result)'
      BY <2>15, Operations DEF ResultTells
    <3> QED BY <3>1, <3>2 DEF AnswerOK, result
  <2> QED BY <2>13, <2>14, <2>18
<1> QED BY <1>5, <1>6

\* An open gives a handle of the file asked for, empty if it is opened to be written.
LEMMA OpenKeepsFiles ==
  ASSUME FilesOK, CallOK, ExitOK, ServeOpen
  PROVE  FilesOK' /\ CallOK' /\ AnswerOK'
<1>1. halted /\ a0 = 1
  BY Zenon DEF ServeOpen, Asked
<1>2. call # None /\ a0 = call.op /\ a1 = call.args /\ RequestOK(call)
  BY <1>1 DEF ExitOK, CallOK
<1>3. PICK p \in Paths, m \in Modes : a1 = <<p, SemihostOpenMode[m], Len(p) - 1>>
  BY <1>1, <1>2, Blocks
<1> DEFINE mode == SemihostOpenMode[m]
           name == SubSeq(p, 1, Len(p) - 1)
           way == mode \div 4
           free == {fd \in 1 .. MaxHandles : ~ IsOpen(fd)}
           fd == CHOOSE n \in free : \A x \in free : n <= x
           bytes == IF way = 1 \/ name \notin DOMAIN files THEN <<>> ELSE files[name]
           Refused == free = {} \/ way > 2 \/ (way = 0 /\ name \notin DOMAIN files)
           handle == [name |-> name, pos |-> IF way = 2 THEN Len(bytes) ELSE 0]
<1>4. mode \in 0 .. 11
  BY BareMetalAssumption DEF SemihostOpenMode
<1>5. MaxHandles \in Nat /\ MaxHandles < Word \div 2 /\ Word \in Nat \ {0} /\ MaxFile \in Nat
      /\ Word \div 2 \in Nat /\ Word = 2 * (Word \div 2)
  BY SemihostingAssumption
<1>6. CASE Refused
  <2>1. Resume(-1) /\ UNCHANGED <<files, handles>>
    BY <1>3, <1>6 DEF ServeOpen
  <2>2. Answers(-1) /\ CallOK'
    BY <1>1, <2>1, HostAnswers
  <2>3. -1 \in -(Word \div 2) .. Word \div 2 - 1
    BY <1>5
  <2>4. call'.op = 1 /\ Signed(a0') = -1
    BY <1>1, <2>2, <2>3, SignedField DEF Answers
  <2>5. ResultOf(call, Signed(a0))' = -1
    BY <2>4, Operations DEF ResultOf
  <2>6. AnswerOK'
    BY <2>4, <2>5, Operations DEF AnswerOK, ResultTells, OpenTells
  <2>7. FilesOK'
    BY <2>1 DEF FilesOK
  <2> QED BY <2>2, <2>6, <2>7
<1>7. CASE ~ Refused
  <2>1. /\ files' = Put(files, name, bytes) /\ handles' = Put(handles, fd, handle)
        /\ Resume(fd)
    BY <1>3, <1>7 DEF ServeOpen
  <2>2. fd \in free
    <3>1. free \in SUBSET (0 .. MaxHandles) /\ free # {}
      BY <1>5, <1>7
    <3>2. \E n \in free : \A x \in free : n <= x
      BY <1>5, <3>1, LeastIs
    <3> QED BY <3>2
  <2>3. fd \in 1 .. MaxHandles
    BY <2>2
  <2>4. bytes \in Seq(Nat) /\ Len(bytes) <= MaxFile /\ Len(bytes) \in Nat
    <3>1. <<>> \in Seq(Nat) /\ Len(<<>>) = 0
      BY EmptySeq
    <3>2. bytes \in Seq(Nat) /\ Len(bytes) <= MaxFile
      BY <1>5, <3>1 DEF FilesOK
    <3> QED BY <3>2, LenProperties
  <2>5. mode \in 4 .. 7 => bytes = <<>>
    BY <1>4
  <2> HIDE DEF fd, bytes, name, mode, free, Refused
  <2>6. /\ DOMAIN files' = DOMAIN files \cup {name} /\ files'[name] = bytes
        /\ \A x \in DOMAIN files : x # name => files'[x] = files[x]
    BY <2>1 DEF Put
  <2>7. /\ DOMAIN handles' = DOMAIN handles \cup {fd} /\ handles'[fd] = handle
        /\ \A x \in DOMAIN handles : x # fd => handles'[x] = handles[x]
    BY <2>1 DEF Put
  <2>8. FilesOK'
    <3>1. \A x \in DOMAIN files' : files'[x] \in Seq(Nat) /\ Len(files'[x]) <= MaxFile
      BY <2>4, <2>6 DEF FilesOK
    <3>2. handle \in [name : DOMAIN files', pos : Nat]
      BY <2>4, <2>6
    <3>3. \A x \in DOMAIN handles' : handles'[x] \in [name : DOMAIN files', pos : Nat]
      BY <2>6, <2>7, <3>2 DEF FilesOK
    <3>4. DOMAIN handles' \subseteq 1 .. MaxHandles
      BY <2>3, <2>7 DEF FilesOK
    <3> QED BY <3>1, <3>3, <3>4 DEF FilesOK
  <2>9. fd \in Int /\ fd \in -(Word \div 2) .. Word \div 2 - 1
    BY <1>5, <2>3
  <2>10. Answers(fd) /\ CallOK'
    BY <1>1, <2>1, <2>9, HostAnswers
  <2>11. call'.op = 1 /\ call'.args = <<p, mode, Len(p) - 1>> /\ Signed(a0') = fd
    BY <1>1, <1>2, <1>3, <2>9, <2>10, SignedField DEF Answers, mode
  <2>12. ResultOf(call, Signed(a0))' = fd
    BY <2>11, Operations DEF ResultOf
  <2>13. /\ handles'[fd].name = SubSeq(p, 1, Len(p) - 1)
         /\ mode \in 4 .. 7 => files'[SubSeq(p, 1, Len(p) - 1)] = <<>>
    BY <2>5, <2>6, <2>7 DEF name
  <2>14. AnswerOK'
    BY <2>11, <2>12, <2>13, Operations DEF AnswerOK, ResultTells, OpenTells
  <2> QED BY <2>8, <2>10, <2>14
<1> QED BY <1>6, <1>7

\* A step of the host
LEMMA HostKeepsFiles ==
  ASSUME FilesOK, CallOK, AnswerOK, ExitOK, Host
  PROVE  FilesOK' /\ CallOK' /\ AnswerOK'
<1>1. Serve
  BY DEF Host
<1>2. CASE ServeClose
  <2>1. halted /\ a0 = 2
    BY Zenon, <1>2 DEF ServeClose, Asked
  <2>2. /\ (\E ret \in {0, -1} : Resume(ret)) /\ UNCHANGED files
        /\ (handles' = [fd \in DOMAIN handles \ {a1[1]} |-> handles[fd]] \/ UNCHANGED handles)
    BY <1>2 DEF ServeClose
  <2>3. PICK ret \in Int : Resume(ret)
    BY <2>2
  <2>4. Answers(ret) /\ CallOK'
    BY <2>1, <2>3, HostAnswers
  <2>5. AnswerOK'
    BY <2>1, <2>4, OtherAnswers
  <2>6. FilesOK'
    BY <2>2 DEF FilesOK
  <2> QED BY <2>4, <2>5, <2>6
<1>3. CASE ServeFlen
  <2>1. halted /\ a0 = 12 /\ UNCHANGED <<files, handles>>
    BY Zenon, <1>3 DEF ServeFlen, Asked
  <2>2. PICK fd \in Registers : a1 = <<fd>>
    BY <2>1, Blocks DEF ExitOK, CallOK
  <2> DEFINE ret == IF IsOpen(fd) THEN Len(files[handles[fd].name]) ELSE -1
  <2>3. Resume(ret)
    BY <1>3, <2>2 DEF ServeFlen
  <2>4. ret \in Int
    <3>1. CASE IsOpen(fd)
      <4>1. handles[fd] \in [name : DOMAIN files, pos : Nat]
        BY <3>1 DEF FilesOK, IsOpen
      <4>2. files[handles[fd].name] \in Seq(Nat)
        BY <4>1 DEF FilesOK
      <4> QED BY <3>1, <4>2, LenProperties
    <3> QED BY <3>1
  <2> HIDE DEF ret
  <2>5. Answers(ret) /\ CallOK'
    BY <2>1, <2>3, <2>4, HostAnswers
  <2>6. AnswerOK'
    BY <2>1, <2>5, OtherAnswers
  <2> QED BY <2>1, <2>5, <2>6 DEF FilesOK
<1>4. CASE ServeSeek
  <2>1. halted /\ a0 = 10 /\ UNCHANGED files
    BY Zenon, <1>4 DEF ServeSeek, Asked
  <2>2. PICK fd \in Registers, n \in Registers : a1 = <<fd, n>>
    BY <2>1, Blocks DEF ExitOK, CallOK
  <2>3. /\ (\E ret \in {0, -1} : Resume(ret))
        /\ \/ (fd \in DOMAIN handles /\ handles' = [handles EXCEPT ![fd].pos = n]) \/ UNCHANGED handles
    BY <1>4, <2>2 DEF ServeSeek, IsOpen
  <2>4. PICK ret \in Int : Resume(ret)
    BY <2>3
  <2>5. Answers(ret) /\ CallOK'
    BY <2>1, <2>4, HostAnswers
  <2>6. AnswerOK'
    BY <2>1, <2>5, OtherAnswers
  <2>7. n \in Nat
    BY DEF Registers
  <2>8. FilesOK'
    BY <2>1, <2>3, <2>7 DEF FilesOK
  <2> QED BY <2>5, <2>6, <2>8
<1>5. CASE ServeTerminal \/ ServeReadc
  <2>1. halted /\ a0 \in {3, 4, 7} /\ UNCHANGED <<files, handles>>
    BY <1>5, Zenon DEF ServeTerminal, ServeReadc, Asked
  <2>2. \E ret \in {0, 1, 10, 65} : Resume(ret)
    BY <1>5 DEF ServeTerminal, ServeReadc
  <2>3. PICK ret \in Int : Resume(ret)
    BY <2>2
  <2>4. Answers(ret) /\ CallOK'
    BY <2>1, <2>3, HostAnswers
  <2>5. AnswerOK'
    BY <2>1, <2>4, OtherAnswers
  <2> QED BY <2>1, <2>4, <2>5 DEF FilesOK
<1>6. CASE ServeGetCmdline
  <2>1. halted /\ a0 = 21 /\ UNCHANGED <<files, handles>>
    BY <1>6, Zenon DEF ServeGetCmdline, Asked
  <2>2. \E ret \in {0, -1} : Resume(ret)
    BY <1>6 DEF ServeGetCmdline
  <2>3. PICK ret \in Int : Resume(ret)
    BY <2>2
  <2>4. Answers(ret) /\ CallOK'
    BY <2>1, <2>3, HostAnswers
  <2>5. AnswerOK'
    BY <2>1, <2>4, OtherAnswers
  <2> QED BY <2>1, <2>4, <2>5 DEF FilesOK
<1>7. CASE ServeExit
  <2>1. UNCHANGED <<call, halted, a0, buffer, files, handles>>
    BY <1>7 DEF ServeExit, targetVars
  <2> QED BY <2>1, QuietKeepsFiles
<1> QED BY <1>1, <1>2, <1>3, <1>4, <1>5, <1>6, <1>7, ReadKeepsFiles, WriteKeepsFiles,
           OpenKeepsFiles DEF Serve

\* The program's side of a call touches nothing of the host.
LEMMA ProgramLeavesHost == Program => UNCHANGED hostVars
<1>1. Start \/ MainRuns \/ MainDone \/ CallLibrary \/ BenchEnds \/ CoreMarkStarts \/ CoreMarkStops
        => UNCHANGED hostVars
  BY DEF Start, MainRuns, MainDone, CallLibrary, BenchEnds, BenchReturns, CoreMarkStarts,
         CoreMarkStops, semihostVars
<1>2. Exit \/ CallTerminal \/ CallFile \/ CallCmdline \/ CallWrite \/ WriteOn \/ CallReturns
        \/ CoreMarkPrints => UNCHANGED hostVars
  BY DEF Exit, CallTerminal, CallFile, CallCmdline, Calls, CallWrite, WriteOn, WriteNext, CallReturns,
         Return, CoreMarkPrints, SemihostExec
<1>3. CoreMarkChecks => UNCHANGED hostVars
  BY DEF CoreMarkChecks, BenchReturns, SemihostExec, semihostVars
<1> QED BY <1>1, <1>2, <1>3 DEF Program

\* The open files are a function of their handles.
HandlesMap == handles = [fd \in DOMAIN handles |-> handles[fd]]

LEMMA HandlesInvariant == Spec => []HandlesMap
<1>1. Init => HandlesMap
  BY DEF Init, HandlesMap
<1>2. HandlesMap /\ [Next]_vars => HandlesMap'
  <2> SUFFICES ASSUME HandlesMap, [Next]_vars PROVE HandlesMap'
    OBVIOUS
  <2>1. CASE Host
    <3>1. CASE UNCHANGED handles
      BY <3>1 DEF HandlesMap
    <3>2. CASE ServeOpen /\ handles' # handles
      BY <3>2 DEF ServeOpen, Put, HandlesMap
    <3>3. CASE ServeClose /\ handles' # handles
      BY <3>3 DEF ServeClose, HandlesMap
    <3>4. CASE (ServeSeek \/ ServeRead \/ ServeWrite) /\ handles' # handles
      <4>1. PICK fd, h : handles' = [handles EXCEPT ![fd] = h]
        BY <3>4 DEF ServeSeek, ServeRead, ServeWrite
      <4> QED BY <4>1 DEF HandlesMap
    <3>5. CASE ServeFlen \/ ServeTerminal \/ ServeReadc \/ ServeGetCmdline \/ ServeExit
      <4>1. UNCHANGED handles
        BY <3>5 DEF ServeFlen, ServeTerminal, ServeReadc, ServeGetCmdline, ServeExit
      <4> QED BY <4>1 DEF HandlesMap
    <3> QED BY <2>1, <3>1, <3>2, <3>3, <3>4, <3>5 DEF Host, Serve
  <2>2. CASE Program \/ UNCHANGED vars
    <3>1. UNCHANGED handles
      BY <2>2, ProgramLeavesHost DEF vars, semihostVars, hostVars
    <3> QED BY <3>1 DEF HandlesMap
  <2> QED BY <2>1, <2>2 DEF Next
<1> QED BY <1>1, <1>2, PTL DEF Spec

\* A step of the host that changes files or positions does what it was asked for.
LEMMA ErrorsChangeNothing ==
  ASSUME FilesOK, HandlesMap, CallOK, ExitOK, Serve, files' # files \/ handles' # handles
  PROVE  ~ Failed(call, ResultOf(call, Signed(a0')))
<1> USE Operations
<1>1. Word \in Nat \ {0} /\ Word = 2 * (Word \div 2) /\ Word \div 2 \in Nat \ {0}
  BY SemihostingAssumption
<1>2. ASSUME NEW ret \in -(Word \div 2) .. Word \div 2 - 1, Resume(ret) PROVE Signed(a0') = ret
  BY <1>2, SignedField DEF Resume
<1>3. 0 \in -(Word \div 2) .. Word \div 2 - 1
  BY <1>1
<1>4. halted => call # None /\ a0 = call.op /\ a1 = call.args /\ RequestOK(call)
  BY DEF ExitOK, CallOK
<1>5. CASE ServeClose \/ ServeSeek
  <2>1. halted /\ a0 \in {2, 10} /\ UNCHANGED files
    BY <1>5, Zenon DEF ServeClose, ServeSeek, Asked
  <2>2. Resume(0)
    BY <1>5, <2>1 DEF ServeClose, ServeSeek
  <2>3. Signed(a0') = 0
    BY <1>2, <1>3, <2>2
  <2> QED BY <1>4, <2>1, <2>3 DEF Failed, ResultOf
<1>6. CASE ServeWrite
  <2>1. halted /\ a0 = 5
    BY <1>6, Zenon DEF ServeWrite, Asked
  <2>2. Resume(0)
    BY <1>6 DEF ServeWrite
  <2>3. Signed(a0') = 0
    BY <1>2, <1>3, <2>2
  <2> QED BY <1>4, <2>1, <2>3 DEF Failed, ResultOf
<1>7. CASE ServeOpen
  <2>1. halted /\ a0 = 1
    BY <1>7, Zenon DEF ServeOpen, Asked
  <2> DEFINE free == {fd \in 1 .. MaxHandles : ~ IsOpen(fd)}
             fd == CHOOSE n \in free : \A m \in free : n <= m
  <2>2. free # {} /\ Resume(fd)
    BY <1>7 DEF ServeOpen
  <2>3. fd \in 1 .. MaxHandles
    <3>1. free \in SUBSET (0 .. MaxHandles) /\ MaxHandles \in Nat
      BY SemihostingAssumption
    <3>2. \E n \in free : \A m \in free : n <= m
      BY <2>2, <3>1, LeastIs
    <3>3. fd \in free
      BY <3>2
    <3> QED BY <3>3
  <2> HIDE DEF fd, free
  <2>4. fd \in -(Word \div 2) .. Word \div 2 - 1 /\ fd # -1
    BY <1>1, <2>3, SemihostingAssumption
  <2>5. Signed(a0') = fd
    BY <1>2, <2>2, <2>4
  <2> QED BY <1>4, <2>1, <2>4, <2>5 DEF Failed, ResultOf
<1>8. CASE ServeRead
  <2>1. halted /\ a0 = 6 /\ UNCHANGED files
    BY <1>8, Zenon DEF ServeRead, Asked
  <2>2. PICK fd \in Registers, len \in Lengths : a1 = <<fd, len>>
    BY <1>4, <2>1, Blocks
  <2>3. len \in 0 .. Word \div 2 - 1 /\ IsOpen(fd)
    BY <1>8, <2>1, <2>2, BareMetalAssumption DEF ServeRead
  <2> DEFINE bytes == files[handles[fd].name]
             pos == handles[fd].pos
             left == IF pos < Len(bytes) THEN Len(bytes) - pos ELSE 0
             ready == IF len < left THEN len ELSE left
  <2>4. PICK got \in (IF ready = 0 THEN {0} ELSE 1 .. ready) :
          handles' = [handles EXCEPT ![fd].pos = pos + got] /\ Resume(len - got)
    BY <1>8, <2>2, <2>3 DEF ServeRead
  <2>5. /\ fd \in DOMAIN handles /\ handles[fd] \in [name : DOMAIN files, pos : Nat]
        /\ pos \in Nat /\ Len(bytes) \in Nat
    BY <2>3, LenProperties DEF FilesOK, IsOpen
  <2>6. got \in 1 .. len
    <3>1. got \in 0 .. len
      BY <2>3, <2>4, <2>5
    <3>2. ASSUME got = 0 PROVE handles' = handles
      <4>1. [handles[fd] EXCEPT !.pos = pos + got] = handles[fd]
        BY <2>5, <3>2
      <4> QED BY <2>4, <4>1 DEF HandlesMap
    <3> QED BY <2>1, <3>1, <3>2
  <2> HIDE DEF pos, bytes, ready
  <2>7. Signed(a0') = len - got
    <3>1. len - got \in -(Word \div 2) .. Word \div 2 - 1
      BY <1>1, <2>3, <2>6
    <3> QED BY <1>2, <2>4, <3>1
  <2>8. Signed(len) = len
    BY <1>1, <2>3 DEF Signed
  <2>9. ResultOf(call, Signed(a0')) = IF len - got = 0 THEN len ELSE len - got
    BY <1>4, <2>1, <2>2, <2>3, <2>6, <2>7, <2>8 DEF ResultOf, ReadResult
  <2>10. ResultOf(call, Signed(a0')) # -5
    BY <2>3, <2>6, <2>9
  <2> QED BY <1>4, <2>1, <2>10 DEF Failed
<1>9. CASE ServeFlen \/ ServeTerminal \/ ServeReadc \/ ServeGetCmdline \/ ServeExit
  BY <1>9 DEF ServeFlen, ServeTerminal, ServeReadc, ServeGetCmdline, ServeExit
<1> QED BY <1>5, <1>6, <1>7, <1>8, <1>9 DEF Serve

\* Files, requests and answers stay right.
LEMMA FilesInvariant == Spec => [](FilesOK /\ CallOK /\ AnswerOK)
<1>1. Init => FilesOK /\ CallOK /\ AnswerOK
  <2> SUFFICES ASSUME Init PROVE FilesOK /\ CallOK /\ AnswerOK
    OBVIOUS
  <2>1. <<66, 65>> \in Seq(Nat) /\ Len(<<66, 65>>) = 2 /\ DOMAIN handles = {}
    BY DEF Init
  <2>2. FilesOK
    BY <2>1, SemihostingAssumption DEF Init, FilesOK
  <2>3. CallOK /\ AnswerOK
    <3>1. call = None /\ halted = FALSE /\ a0 = 0
      BY DEF Init
    <3>2. 0 \in Registers
      BY SemihostingAssumption DEF Registers
    <3> QED BY <3>1, <3>2 DEF CallOK, AnswerOK
  <2> QED BY <2>2, <2>3
<1>2. FilesOK /\ CallOK /\ AnswerOK /\ ExitOK /\ [Next]_vars => (FilesOK /\ CallOK /\ AnswerOK)'
  <2> SUFFICES ASSUME FilesOK, CallOK, AnswerOK, ExitOK, [Next]_vars
               PROVE  (FilesOK /\ CallOK /\ AnswerOK)'
    OBVIOUS
  <2>1. CASE Next
    BY <2>1, ProgramKeepsFiles, HostKeepsFiles DEF Next
  <2>2. CASE UNCHANGED vars
    BY <2>2, QuietKeepsFiles DEF vars, semihostVars, targetVars, hostVars
  <2> QED BY <2>1, <2>2
<1> QED BY <1>1, <1>2, RunsInvariant, PTL DEF Spec

\* From the result of a file function its caller can tell what happened on the host, for
\* every file, position, length and handle, and one that fails changed nothing there.
THEOREM ResultsAreTrue == Spec => ResultsTellTheHost
<1>1. ASSUME AnswerOK, ExitOK, Next, call # None, call' = None
      PROVE  ResultTells(call, returned')
  <2> USE <1>1
  <2>1. CallReturns
    <3>1. ~ Host
      <4>1. \A ret : Resume(ret) => call' = call
        BY DEF Resume
      <4>2. ServeExit => call' = call
        BY DEF ServeExit, targetVars
      <4>3. call' # call
        OBVIOUS
      <4> QED BY <4>1, <4>2, <4>3, ServeIs, Zenon DEF Host
    <3>2. CASE Start \/ MainRuns \/ MainDone \/ CallLibrary \/ BenchEnds \/ CoreMarkStarts \/ CoreMarkStops
               \/ CallWrite
      BY <3>2 DEF Start, MainRuns, MainDone, CallLibrary, BenchEnds, BenchReturns, CoreMarkStarts,
                  CoreMarkStops, CallWrite, InBench, Ready, semihostVars, targetVars, hostVars
    <3>3. CASE Exit \/ CallTerminal \/ CallFile \/ CallCmdline \/ WriteOn \/ CoreMarkPrints
      BY <3>3 DEF Exit, CallTerminal, CallFile, CallCmdline, Calls, InBench, Ready, WriteOn, WriteNext,
                  CoreMarkPrints, SemihostExec
    <3>4. CASE CoreMarkChecks
      BY <3>4 DEF CoreMarkChecks, Ready
    <3> QED BY <3>1, <3>2, <3>3, <3>4 DEF Next, Program
  <2>2. ~ halted /\ returned' = ResultOf(call, Signed(a0))
    BY <2>1 DEF CallReturns, Return
  <2> QED BY <2>2 DEF AnswerOK
<1>2. ASSUME FilesOK, HandlesMap, CallOK, ExitOK, Next, files' # files \/ handles' # handles
      PROVE  ~ Failed(call, ResultOf(call, Signed(a0')))
  <2>1. Program => UNCHANGED <<files, handles>>
    BY ProgramLeavesHost DEF hostVars
  <2> QED BY <1>2, <2>1, ErrorsChangeNothing DEF Next, Host
<1>3. AnswerOK /\ FilesOK /\ HandlesMap /\ CallOK /\ ExitOK /\ [Next]_vars =>
        [/\ call # None /\ call' = None => ResultTells(call, returned')
         /\ files' # files \/ handles' # handles =>
              ~ Failed(call, ResultOf(call, Signed(a0')))]_vars
  BY <1>1, <1>2
<1> QED BY <1>3, FilesInvariant, HandlesInvariant, RunsInvariant, PTL DEF Spec, ResultsTellTheHost

\* The program, its registers, its memory and the host's files keep their types.
THEOREM ProgramTypes == Spec => []TypeOK
<1> DEFINE CallsOK == program \in Programs /\ calls \in 0 .. MaxCalls
<1>1. Init => CallsOK
  BY BareMetalAssumption DEF Init
<1>2. CallsOK /\ [Next]_vars => CallsOK'
  <2> SUFFICES ASSUME CallsOK, [Next]_vars PROVE CallsOK'
    OBVIOUS
  <2>1. UNCHANGED program
    BY DEF vars, programVars, Next, Program, Host, Start, MainRuns, MainDone, Exit, CallTerminal, CallFile,
           CallCmdline, Calls, CallWrite, WriteOn, CallReturns, CallLibrary, BenchEnds, BenchReturns,
           CoreMarkStarts, CoreMarkStops, CoreMarkPrints, CoreMarkChecks
  <2>2. calls' = calls \/ (calls < MaxCalls /\ calls' = calls + 1)
    BY DEF vars, programVars, Next, Program, Host, Start, MainRuns, MainDone, Exit, CallTerminal, CallFile,
           CallCmdline, Calls, CallWrite, WriteOn, CallReturns, CallLibrary, BenchEnds, BenchReturns,
           CoreMarkStarts, CoreMarkStops, CoreMarkPrints, CoreMarkChecks
  <2> QED BY <2>1, <2>2, BareMetalAssumption
<1>3. RunsOK /\ ExitOK /\ FilesOK /\ CallOK /\ MemOK /\ CallsOK => TypeOK
  <2> SUFFICES ASSUME RunsOK, ExitOK, FilesOK, CallOK, MemOK, CallsOK PROVE TypeOK
    OBVIOUS
  <2>1. Field(Last) \in 0 .. Word - 1
    <3>1. Last \in Status
      BY SemihostingAssumption, LenProperties, EmptySeq DEF RunsOK, Last, Status
    <3> QED BY <3>1, StatusField
  <2>2. exited = Running \/ exited \in 0 .. Word - 1
    BY <2>1 DEF ExitOK
  <2>3. \A fd \in DOMAIN handles : handles[fd].name \in DOMAIN files /\ handles[fd].pos \in Nat
    BY DEF FilesOK
  <2> QED BY <2>2, <2>3 DEF TypeOK, RunsOK, ExitOK, FilesOK, CallOK, MemOK, Registers
<1> QED BY <1>1, <1>2, <1>3, RunsInvariant, FilesInvariant, MemInvariant, PTL DEF Spec

-----------------------------------------------------------------------------
(* The line of CoreMark.                                                   *)

\* The powers of ten
LEMMA TenIs ==
  /\ Ten(0) = 1
  /\ \A d \in Nat : Ten(d) \in Nat \ {0} /\ Ten(d + 1) = 10 * Ten(d)
<1> DEFINE Fun(f, d) == f = [i \in 0 .. d |-> IF i = 0 THEN 1 ELSE 10 * f[i - 1]]
           power(d) == CHOOSE f : Fun(f, d)
<1>1. ASSUME NEW d \in Nat PROVE \E f : Fun(f, d)
  <2> DEFINE Has(i) == \E f : Fun(f, i)
  <2>1. Has(0)
    <3> DEFINE f == [i \in 0 .. 0 |-> 1]
    <3>1. \A i \in 0 .. 0 : i = 0
      OBVIOUS
    <3>2. Fun(f, 0)
      BY <3>1
    <3> QED BY <3>2
  <2>2. ASSUME NEW i \in 1 .. d, Has(i - 1) PROVE Has(i)
    <3>1. PICK f : Fun(f, i - 1)
      BY <2>2
    <3> DEFINE g == [j \in 0 .. i |-> IF j = 0 THEN 1 ELSE 10 * f[j - 1]]
    <3>2. ASSUME NEW j \in 0 .. i - 1 PROVE g[j] = f[j]
      <4>1. f[j] = IF j = 0 THEN 1 ELSE 10 * f[j - 1]
        BY <3>1
      <4>2. j \in 0 .. i
        OBVIOUS
      <4> QED BY <4>1, <4>2
    <3>3. \A j \in 0 .. i : j = 0 \/ j - 1 \in 0 .. i - 1
      OBVIOUS
    <3>4. Fun(g, i)
      BY <3>2, <3>3
    <3> QED BY <3>4
  <2> DEFINE P == {i \in 0 .. d : Has(i)}
  <2> HIDE DEF Has
  <2>3. 0 \in P /\ \A i \in 1 .. d : i - 1 \in P => i \in P
    BY <2>1, <2>2
  <2> HIDE DEF P
  <2>4. \A i \in 0 .. d : i \in P
    BY <2>3, Counting
  <2>5. Has(d)
    BY <2>4 DEF P
  <2> QED BY <2>5 DEF Has
<1>2. ASSUME NEW d \in Nat
      PROVE  \A i \in 0 .. d : power(d)[i] = IF i = 0 THEN 1 ELSE 10 * power(d)[i - 1]
  <2>1. Fun(power(d), d)
    BY <1>1
  <2> HIDE DEF power
  <2> QED BY <2>1
<1>3. \A d : Ten(d) = power(d)[d]
  BY DEF Ten
<1> HIDE DEF power
<1>4. ASSUME NEW d \in Nat PROVE power(d)[d] \in Nat \ {0} /\ power(d + 1)[d] = power(d)[d]
  <2> DEFINE P == {i \in 0 .. d : power(d)[i] \in Nat \ {0} /\ power(d + 1)[i] = power(d)[i]}
  <2>1. \A i \in 0 .. d : /\ power(d)[i] = IF i = 0 THEN 1 ELSE 10 * power(d)[i - 1]
                          /\ power(d + 1)[i] = IF i = 0 THEN 1 ELSE 10 * power(d + 1)[i - 1]
    <3>1. d + 1 \in Nat /\ \A i \in 0 .. d : i \in 0 .. d + 1
      OBVIOUS
    <3> QED BY <1>2, <3>1
  <2>2. 0 \in P
    BY <2>1
  <2>3. \A i \in 1 .. d : i - 1 \in P => i \in P
    BY <2>1
  <2> HIDE DEF P
  <2>4. \A i \in 0 .. d : i \in P
    BY <2>2, <2>3, Counting
  <2> QED BY <2>4 DEF P
<1>5. Ten(0) = 1
  BY <1>2, <1>3
<1>6. ASSUME NEW d \in Nat PROVE Ten(d) \in Nat \ {0} /\ Ten(d + 1) = 10 * Ten(d)
  <2>1. power(d + 1)[d + 1] = 10 * power(d + 1)[d]
    <3>1. d + 1 \in Nat /\ d + 1 \in 0 .. d + 1 /\ d + 1 # 0 /\ d + 1 - 1 = d
      OBVIOUS
    <3> QED BY <1>2, <3>1
  <2> QED BY <1>3, <1>4, <2>1
<1> QED BY <1>5, <1>6

\* More digits, larger powers
LEMMA TenGrows ==
  ASSUME NEW d \in Nat, NEW e \in Nat, d < e
  PROVE  10 * Ten(d) <= Ten(e)
<1> DEFINE P == {i \in 0 .. e - d - 1 : 10 * Ten(d) <= Ten(d + 1 + i)}
<1>1. e - d - 1 \in Nat /\ \A i \in Nat : Ten(d + 1 + i) \in Nat
  BY TenIs
<1>2. 0 \in P
  <2>1. d + 1 + 0 = d + 1
    OBVIOUS
  <2> QED BY <1>1, <2>1, TenIs
<1>3. ASSUME NEW i \in 1 .. e - d - 1, i - 1 \in P PROVE i \in P
  <2>1. Ten(d + 1 + i) = 10 * Ten(d + 1 + (i - 1)) /\ Ten(d + 1 + (i - 1)) \in Nat /\ Ten(d) \in Nat
    <3>1. d + 1 + (i - 1) \in Nat /\ d + 1 + i = (d + 1 + (i - 1)) + 1
      OBVIOUS
    <3> QED BY <3>1, TenIs
  <2> QED BY <1>3, <2>1
<1> HIDE DEF P
<1>4. \A i \in 0 .. e - d - 1 : i \in P
  BY <1>1, <1>2, <1>3, Counting
<1>5. e - d - 1 \in P /\ d + 1 + (e - d - 1) = e
  BY <1>1, <1>4
<1> QED BY <1>5 DEF P

\* A number has one size.
LEMMA SizeIs ==
  ASSUME NEW n \in Nat, NEW d \in 1 .. n + 1, n < Ten(d), d = 1 \/ n >= Ten(d - 1)
  PROVE  Size(n) = d
<1> DEFINE Fits(e) == n < Ten(e) /\ (e = 1 \/ n >= Ten(e - 1))
<1>1. ASSUME NEW e \in 1 .. n + 1, Fits(e) PROVE e = d
  <2>1. /\ Ten(d) \in Nat /\ Ten(e) \in Nat
        /\ Ten(d - 1) \in Nat /\ Ten(e - 1) \in Nat
    <3>1. d \in Nat /\ e \in Nat /\ d - 1 \in Nat /\ e - 1 \in Nat
      OBVIOUS
    <3> QED BY <3>1, TenIs
  <2>2. ~ d < e
    <3> SUFFICES ASSUME d < e PROVE FALSE
      OBVIOUS
    <3>1. e # 1 /\ n >= Ten(e - 1)
      BY <1>1
    <3>2. d = e - 1 \/ d < e - 1
      OBVIOUS
    <3>3. Ten(d) <= Ten(e - 1)
      <4>1. d < e - 1 => 10 * Ten(d) <= Ten(e - 1)
        BY TenGrows
      <4> QED BY <2>1, <3>2, <4>1
    <3> QED BY <2>1, <3>1, <3>3
  <2>3. ~ e < d
    <3> SUFFICES ASSUME e < d PROVE FALSE
      OBVIOUS
    <3>1. d # 1 /\ n >= Ten(d - 1)
      OBVIOUS
    <3>2. e = d - 1 \/ e < d - 1
      OBVIOUS
    <3>3. Ten(e) <= Ten(d - 1)
      <4>1. e < d - 1 => 10 * Ten(e) <= Ten(d - 1)
        BY TenGrows
      <4> QED BY <2>1, <3>2, <4>1
    <3> QED BY <1>1, <2>1, <3>1, <3>3
  <2> QED BY <2>2, <2>3
<1>2. Fits(d)
  OBVIOUS
<1>3. Size(n) = CHOOSE e \in 1 .. n + 1 : Fits(e)
  BY DEF Size
<1> HIDE DEF Fits
<1> QED BY <1>1, <1>2, <1>3

\* The quotient is the number that leaves a remainder below the divisor.
LEMMA DivIs ==
  ASSUME NEW n \in Nat \ {0}, NEW x \in Int, NEW q \in Int, NEW r \in 0 .. n - 1, x = n * q + r
  PROVE  x \div n = q
<1>1. PICK a \in Int : a = x \div n /\ x = n * a + (x % n)
  OBVIOUS
<1>2. x % n = r
  BY ModIs
<1>3. n * (q - a) = 0
  BY <1>1, <1>2
<1>4. q - a = 0
  <2>1. ASSUME NEW z \in Int, z >= 1 PROVE n * z >= n
    BY <2>1
  <2>2. ASSUME NEW z \in Int, z <= -1 PROVE n * z <= -n
    BY <2>2
  <2> QED BY <1>3, <2>1, <2>2
<1> QED BY <1>1, <1>4

\* Two divisions in a row
LEMMA DivTwice ==
  ASSUME NEW n \in Nat, NEW p \in Nat \ {0}
  PROVE  n \div (10 * p) = (n \div 10) \div p
<1>1. PICK m \in Nat, b \in 0 .. 9 : m = n \div 10 /\ n = 10 * m + b
  OBVIOUS
<1>2. PICK k1 \in Int, r \in 0 .. p - 1 : k1 = m \div p /\ m = p * k1 + r
  OBVIOUS
<1>3. n = (10 * p) * k1 + (10 * r + b)
  <2>1. (10 * p) * k1 = 10 * (p * k1) /\ p * k1 \in Int
    OBVIOUS
  <2> QED BY <1>1, <1>2, <2>1
<1>4. 10 * p \in Nat \ {0} /\ 10 * r + b \in 0 .. 10 * p - 1 /\ n \in Int
  OBVIOUS
<1>5. n \div (10 * p) = k1
  BY <1>3, <1>4, DivIs
<1> QED BY <1>1, <1>2, <1>5

\* Every number has a size.
LEMMA SizeExists ==
  ASSUME NEW n \in Nat
  PROVE  \E d \in 1 .. n + 1 : n < Ten(d) /\ (d = 1 \/ n >= Ten(d - 1))
<1> DEFINE r == {d \in 1 .. n + 1 : n < Ten(d)}
           P == {d \in 0 .. n : d < Ten(d + 1)}
<1>1. \A d \in Nat : Ten(d) \in Nat
  BY TenIs
<1>2. n \in P
  <2>1. 0 \in P
    BY TenIs
  <2>2. ASSUME NEW i \in 1 .. n, i - 1 \in P PROVE i \in P
    <3>1. i - 1 + 1 = i /\ i \in Nat
      OBVIOUS
    <3>2. Ten(i + 1) = 10 * Ten(i) /\ Ten(i) \in Nat
      BY <3>1, TenIs
    <3>3. i - 1 < Ten(i)
      BY <2>2, <3>1
    <3> QED BY <3>2, <3>3
  <2> HIDE DEF P
  <2>3. \A i \in 0 .. n : i \in P
    BY <2>1, <2>2, Counting
  <2> QED BY <2>3
<1>3. n + 1 \in r /\ r \in SUBSET (0 .. n + 1) /\ n + 1 \in Nat
  BY <1>2
<1> HIDE DEF r
<1>4. PICK d \in r : \A e \in r : d <= e
  BY <1>3, LeastIs
<1>5. d \in 1 .. n + 1 /\ n < Ten(d)
  BY <1>4 DEF r
<1>6. d # 1 => n >= Ten(d - 1)
  <2> SUFFICES ASSUME d # 1 PROVE n >= Ten(d - 1)
    OBVIOUS
  <2>1. d - 1 \in 1 .. n + 1 /\ ~ d <= d - 1 /\ d - 1 \in Nat
    BY <1>5
  <2>2. ~ n < Ten(d - 1)
    BY <1>4, <2>1 DEF r
  <2> QED BY <1>1, <2>1, <2>2
<1> QED BY <1>5, <1>6

\* The digits of a number, by their places
LEMMA DigitsAre ==
  ASSUME NEW x \in Nat, NEW d \in Nat, d = Size(x)
  PROVE  /\ d \in 1 .. x + 1 /\ x < Ten(d) /\ (d = 1 \/ x >= Ten(d - 1))
         /\ Decimal(x) \in Seq(Nat) /\ Len(Decimal(x)) = d
         /\ \A i \in 1 .. d : Decimal(x)[i] = 48 + ((x \div Ten(d - i)) % 10)
<1>1. d \in 1 .. x + 1 /\ x < Ten(d) /\ (d = 1 \/ x >= Ten(d - 1))
  <2>1. PICK e \in 1 .. x + 1 : x < Ten(e) /\ (e = 1 \/ x >= Ten(e - 1))
    BY SizeExists
  <2>2. Size(x) = e
    BY <2>1, SizeIs
  <2> QED BY <2>1, <2>2
<1>2. \A i \in 1 .. d : 48 + ((x \div Ten(d - i)) % 10) \in Nat
  <2> SUFFICES ASSUME NEW i \in 1 .. d PROVE (x \div Ten(d - i)) % 10 \in Nat
    OBVIOUS
  <2>1. d - i \in Nat
    OBVIOUS
  <2>2. x \div Ten(d - i) \in Nat
    BY <2>1, TenIs, Quotient
  <2> QED BY <2>2
<1>3. Decimal(x) = [i \in 1 .. d |-> 48 + ((x \div Ten(d - i)) % 10)]
  BY DEF Decimal
<1>4. Decimal(x) \in [1 .. d -> Nat]
  BY <1>2, <1>3
<1> QED BY <1>1, <1>3, <1>4

\* The size of a number is a number.
LEMMA SizeType ==
  ASSUME NEW x \in Nat
  PROVE  Size(x) \in Nat
<1>1. PICK e \in 1 .. x + 1 : x < Ten(e) /\ (e = 1 \/ x >= Ten(e - 1))
  BY SizeExists
<1> QED BY <1>1, SizeIs

\* Digits of one place, and how a digit is put behind the others
LEMMA DecimalIs ==
  ASSUME NEW n \in Nat
  PROVE  /\ Decimal(n) \in Seq(Nat)
         /\ n < 10 => Decimal(n) = <<48 + n>>
         /\ n >= 10 => Decimal(n) = Decimal(n \div 10) \o <<48 + (n % 10)>>
<1>1. \A d \in Nat : Ten(d) \in Nat \ {0}
  BY TenIs
<1>2. Ten(0) = 1 /\ Ten(1) = 10
  <2>1. 0 + 1 = 1
    OBVIOUS
  <2> QED BY <2>1, TenIs
<1>3. Decimal(n) \in Seq(Nat)
  BY SizeType, DigitsAre
<1>4. ASSUME n < 10 PROVE Decimal(n) = <<48 + n>>
  <2>1. Size(n) = 1
    <3>1. 1 \in 1 .. n + 1
      OBVIOUS
    <3> QED BY <1>2, <1>4, <3>1, SizeIs
  <2>2. n \div 1 = n /\ n % 10 = n /\ 1 \in Nat /\ 1 - 1 = 0 /\ 1 \in 1 .. 1
    BY <1>4
  <2>3. Len(Decimal(n)) = 1 /\ \A i \in 1 .. 1 : Decimal(n)[i] = 48 + ((n \div Ten(1 - i)) % 10)
    BY <2>1, <2>2, DigitsAre
  <2>4. Decimal(n)[1] = 48 + n
    BY <1>2, <2>2, <2>3
  <2>5. <<48 + n>> \in Seq(Nat) /\ Len(<<48 + n>>) = 1 /\ <<48 + n>>[1] = 48 + n
    OBVIOUS
  <2>6. \A i \in 1 .. 1 : i = 1
    OBVIOUS
  <2> QED BY <1>3, <2>3, <2>4, <2>5, <2>6, SeqEqual
<1>5. ASSUME n >= 10 PROVE Decimal(n) = Decimal(n \div 10) \o <<48 + (n % 10)>>
  <2> DEFINE m == n \div 10
             b == n % 10
             s == Size(m)
  <2>1. m \in Nat /\ b \in 0 .. 9 /\ n = 10 * m + b /\ m + 1 <= n /\ m >= 1
    BY <1>5
  <2> HIDE DEF m, b
  <2>2. s \in 1 .. m + 1 /\ m < Ten(s) /\ (s = 1 \/ m >= Ten(s - 1))
    BY <2>1, SizeType, DigitsAre
  <2> HIDE DEF s
  <2>3. Ten(s) \in Nat /\ Ten(s + 1) = 10 * Ten(s) /\ s \in Nat
    BY <2>2, TenIs
  <2>4. n < Ten(s + 1)
    BY <2>1, <2>2, <2>3
  <2>5. n >= Ten(s)
    <3>1. CASE s = 1
      BY <1>2, <1>5, <3>1
    <3>2. CASE s # 1
      <4>1. s - 1 \in Nat /\ s - 1 + 1 = s
        BY <2>2
      <4>2. Ten(s) = 10 * Ten(s - 1) /\ Ten(s - 1) \in Nat
        BY <4>1, TenIs
      <4> QED BY <2>1, <2>2, <3>2, <4>2
    <3> QED BY <3>1, <3>2
  <2>6. Size(n) = s + 1
    <3>1. ASSUME NEW d \in 1 .. n + 1, d = s + 1 PROVE Size(n) = d
      <4>1. d - 1 = s /\ n < Ten(d) /\ n >= Ten(d - 1)
        BY <2>3, <2>4, <2>5, <3>1
      <4> QED BY <4>1, SizeIs
    <3>2. s + 1 \in 1 .. n + 1
      BY <2>1, <2>2
    <3> QED BY <3>1, <3>2
  <2> DEFINE front == Decimal(m)
             whole == front \o <<48 + b>>
  <2>7. /\ front \in Seq(Nat) /\ Len(front) = s
        /\ \A i \in 1 .. s : front[i] = 48 + ((m \div Ten(s - i)) % 10)
    BY <2>1, <2>3, DigitsAre DEF s
  <2>8. PICK d \in Nat :
              /\ d = s + 1 /\ Decimal(n) \in Seq(Nat) /\ Len(Decimal(n)) = d
              /\ \A i \in 1 .. d : Decimal(n)[i] = 48 + ((n \div Ten(d - i)) % 10)
    <3>1. PICK d \in Nat : d = s + 1 /\ d = Size(n)
      BY <2>3, <2>6
    <3>2. /\ Len(Decimal(n)) = d
          /\ \A i \in 1 .. d : Decimal(n)[i] = 48 + ((n \div Ten(d - i)) % 10)
      BY <3>1, DigitsAre
    <3> QED BY <1>3, <3>1, <3>2
  <2> HIDE DEF front
  <2>9. <<48 + b>> \in Seq(Nat) /\ Len(<<48 + b>>) = 1 /\ <<48 + b>>[1] = 48 + b
    BY <2>1
  <2>10. /\ whole \in Seq(Nat) /\ Len(whole) = d
         /\ \A i \in 1 .. d : whole[i] = IF i <= s THEN front[i] ELSE <<48 + b>>[i - s]
    <3> DEFINE last == <<48 + b>>
    <3> HIDE DEF last
    <3>1. front \in Seq(Nat) /\ last \in Seq(Nat) /\ Len(front) = s /\ Len(last) = 1
      BY <2>7, <2>9 DEF last
    <3>2. /\ front \o last \in Seq(Nat)
          /\ Len(front \o last) = Len(front) + Len(last)
          /\ \A i \in 1 .. Len(front) + Len(last) :
               (front \o last)[i] = IF i <= Len(front) THEN front[i] ELSE last[i - Len(front)]
      BY <3>1, ConcatProperties
    <3>3. Len(front) + Len(last) = d
      BY <2>8, <3>1
    <3> QED BY <3>1, <3>2, <3>3 DEF last
  <2> HIDE DEF whole
  <2>11. ASSUME NEW i \in 1 .. d PROVE Decimal(n)[i] = whole[i]
    <3>1. CASE i <= s
      <4>1. i \in 1 .. s /\ s - i \in Nat /\ d - i = (s - i) + 1
        BY <2>2, <2>8, <3>1
      <4>2. Ten(d - i) = 10 * Ten(s - i) /\ Ten(s - i) \in Nat \ {0}
        BY <4>1, TenIs
      <4>3. n \div Ten(d - i) = m \div Ten(s - i)
        BY <4>2, DivTwice DEF m
      <4> QED BY <2>7, <2>8, <2>10, <3>1, <4>1, <4>3
    <3>2. CASE i = d
      <4>1. d - i = 0 /\ n \div 1 = n /\ i - s = 1 /\ ~ i <= s
        BY <2>3, <2>8, <3>2
      <4>2. Decimal(n)[i] = 48 + (n % 10)
        BY <1>2, <2>8, <4>1
      <4> QED BY <2>9, <2>10, <4>1, <4>2 DEF b
    <3> QED BY <2>2, <2>8, <3>1, <3>2
  <2>12. Decimal(n) = whole
    BY <2>8, <2>10, <2>11, SeqEqual
  <2> QED BY <2>12 DEF whole, front, m, b
<1> QED BY <1>3, <1>4, <1>5

\* put_uint gives the decimal digits of every number.
LEMMA PutUintIs ==
  ASSUME NEW n \in Nat
  PROVE  PutUint(n) = Decimal(n)
<1>1. PICK digits :
         /\ PutUint(n) = digits[n]
         /\ \A m \in 0 .. n : digits[m] = IF m \div 10 = 0 THEN <<Digit(m)>>
                                           ELSE digits[m \div 10] \o <<Digit(m % 10)>>
  BY PutUintRecurses
<1> DEFINE bad == {m \in 0 .. n : digits[m] # Decimal(m)}
<1>2. bad = {}
  <2> SUFFICES ASSUME bad # {} PROVE FALSE
    OBVIOUS
  <2>1. PICK m \in bad : \A j \in bad : m <= j
    BY LeastIs
  <2>2. m \in 0 .. n /\ m \in Nat /\ digits[m] # Decimal(m)
    BY <2>1
  <2>3. CASE m < 10
    <3>1. m \div 10 = 0
      BY <2>2, <2>3
    <3> QED BY <1>1, <2>2, <2>3, <3>1, DecimalIs DEF Digit
  <2>4. CASE m >= 10
    <3>1. m \div 10 # 0 /\ m \div 10 \in 0 .. n /\ ~ m <= m \div 10
      BY <2>2, <2>4
    <3>2. digits[m \div 10] = Decimal(m \div 10)
      BY <2>1, <3>1
    <3> QED BY <1>1, <2>2, <2>4, <3>1, <3>2, DecimalIs DEF Digit
  <2> QED BY <2>2, <2>3, <2>4
<1>3. n \in 0 .. n
  OBVIOUS
<1> QED BY <1>1, <1>2, <1>3

\* The three digits of a number below 1000 are those of 1000 more behind the first.
LEMMA ThreeDigits ==
  ASSUME NEW a \in 0 .. 9, NEW b \in 0 .. 9, NEW c \in 0 .. 9
  PROVE  SubSeq(Decimal(1000 + (100 * a + 10 * b + c)), 2, 4) = <<48 + a, 48 + b, 48 + c>>
<1> DEFINE x == 1000 + (100 * a + 10 * b + c)
           y == 100 + (10 * a + b)
           z == 10 + a
<1>1. /\ x \in Nat /\ x >= 10 /\ x \div 10 = y /\ x % 10 = c
      /\ y \in Nat /\ y >= 10 /\ y \div 10 = z /\ y % 10 = b
      /\ z \in Nat /\ z >= 10 /\ z \div 10 = 1 /\ z % 10 = a
  OBVIOUS
<1> HIDE DEF x, y, z
<1>2. Decimal(1) = <<49>>
  <2>1. 1 \in Nat /\ 1 < 10 /\ 48 + 1 = 49
    OBVIOUS
  <2> QED BY <2>1, DecimalIs
<1>3. /\ Decimal(z) = <<49>> \o <<48 + a>>
      /\ Decimal(y) = Decimal(z) \o <<48 + b>>
      /\ Decimal(x) = Decimal(y) \o <<48 + c>>
  BY <1>1, <1>2, DecimalIs
<1> DEFINE Behind(s, v) == s \o <<v>>
<1>4. ASSUME NEW s \in Seq(Nat), NEW v \in Nat
      PROVE  /\ Behind(s, v) \in Seq(Nat) /\ Len(Behind(s, v)) = Len(s) + 1
             /\ \A i \in 1 .. Len(s) : Behind(s, v)[i] = s[i]
             /\ Behind(s, v)[Len(s) + 1] = v
  <2> DEFINE last == <<v>>
  <2>1. last \in Seq(Nat) /\ Len(last) = 1 /\ last[1] = v
    OBVIOUS
  <2> HIDE DEF last
  <2>2. /\ s \o last \in Seq(Nat) /\ Len(s \o last) = Len(s) + Len(last)
        /\ \A i \in 1 .. Len(s) + Len(last) :
             (s \o last)[i] = IF i <= Len(s) THEN s[i] ELSE last[i - Len(s)]
    BY <2>1, ConcatProperties
  <2>3. /\ Len(s) \in Nat /\ Len(s) + 1 \in 1 .. Len(s) + Len(last)
        /\ ~ Len(s) + 1 <= Len(s) /\ Len(s) + 1 - Len(s) = 1
        /\ \A i \in 1 .. Len(s) : i \in 1 .. Len(s) + Len(last) /\ i <= Len(s)
    BY <2>1, LenProperties
  <2>4. s \o last \in Seq(Nat) /\ Len(s \o last) = Len(s) + 1
    BY <2>1, <2>2
  <2>5. (s \o last)[Len(s) + 1] = v
    BY <2>1, <2>2, <2>3
  <2>6. \A i \in 1 .. Len(s) : (s \o last)[i] = s[i]
    BY <2>2, <2>3
  <2> QED BY <2>4, <2>5, <2>6 DEF last
<1> DEFINE one == <<49>>
           da == 48 + a
           db == 48 + b
           dc == 48 + c
<1>5. da \in Nat /\ db \in Nat /\ dc \in Nat
  OBVIOUS
<1>6. one \in Seq(Nat) /\ Len(one) = 1
  OBVIOUS
<1>7. /\ Decimal(z) = Behind(one, da)
      /\ Decimal(y) = Behind(Decimal(z), db)
      /\ Decimal(x) = Behind(Decimal(y), dc)
  BY <1>3
<1> HIDE DEF Behind, one, da, db, dc
<1>8. /\ Decimal(z) \in Seq(Nat) /\ Len(Decimal(z)) = 2
      /\ Decimal(z)[2] = da
  <2> DEFINE s == Behind(one, da)
             len == Len(one)
  <2>1. s \in Seq(Nat)
    BY <1>4, <1>5, <1>6
  <2>2. Len(s) = len + 1
    BY <1>4, <1>5, <1>6
  <2>3. s[len + 1] = da
    BY <1>4, <1>5, <1>6
  <2>4. \A i \in 1 .. len : s[i] = one[i]
    BY <1>4, <1>5, <1>6
  <2>5. len = 1
    BY <1>6
  <2>6. Decimal(z) = s
    BY <1>7
  <2> HIDE DEF s, len
  <2> QED BY <2>1, <2>2, <2>3, <2>4, <2>5, <2>6, <1>6
<1>9. /\ Decimal(y) \in Seq(Nat) /\ Len(Decimal(y)) = 3
      /\ Decimal(y)[3] = db /\ Decimal(y)[2] = da
  <2> DEFINE s == Behind(Decimal(z), db)
             len == Len(Decimal(z))
  <2>1. s \in Seq(Nat)
    BY <1>4, <1>5, <1>8
  <2>2. Len(s) = len + 1
    BY <1>4, <1>5, <1>8
  <2>3. s[len + 1] = db
    BY <1>4, <1>5, <1>8
  <2>4. \A i \in 1 .. len : s[i] = Decimal(z)[i]
    BY <1>4, <1>5, <1>8
  <2>5. len = 2
    BY <1>8
  <2>6. Decimal(y) = s
    BY <1>7
  <2> HIDE DEF s, len
  <2> QED BY <2>1, <2>2, <2>3, <2>4, <2>5, <2>6, <1>8
<1>10. /\ Decimal(x) \in Seq(Nat) /\ Len(Decimal(x)) = 4
      /\ Decimal(x)[4] = dc /\ Decimal(x)[2] = da /\ Decimal(x)[3] = db
  <2> DEFINE s == Behind(Decimal(y), dc)
             len == Len(Decimal(y))
  <2>1. s \in Seq(Nat)
    BY <1>4, <1>5, <1>9
  <2>2. Len(s) = len + 1
    BY <1>4, <1>5, <1>9
  <2>3. s[len + 1] = dc
    BY <1>4, <1>5, <1>9
  <2>4. \A i \in 1 .. len : s[i] = Decimal(y)[i]
    BY <1>4, <1>5, <1>9
  <2>5. len = 3
    BY <1>9
  <2>6. Decimal(x) = s
    BY <1>7
  <2> HIDE DEF s, len
  <2> QED BY <2>1, <2>2, <2>3, <2>4, <2>5, <2>6, <1>9
<1> DEFINE s == Decimal(x)
           part == SubSeq(s, 2, 4)
           digits == <<48 + a, 48 + b, 48 + c>>
<1>11. digits \in Seq(Nat) /\ Len(digits) = 3
       /\ digits[1] = 48 + a /\ digits[2] = 48 + b /\ digits[3] = 48 + c
  OBVIOUS
<1>12. s \in Seq(Nat) /\ Len(s) = 4 /\ s[2] = 48 + a /\ s[3] = 48 + b /\ s[4] = 48 + c
  BY <1>10 DEF da, db, dc
<1> HIDE DEF s, digits
<1>13. \A i \in 2 .. 4 : s[i] \in Nat
  BY <1>12, ElementOfSeq
<1>14. part \in Seq(Nat) /\ Len(part) = 3 /\ \A i \in 1 .. 3 : part[i] = s[2 + i - 1]
  <2>1. 4 - 2 + 1 = 3 /\ 2 \in Int /\ 4 \in Int /\ 2 <= 4
    OBVIOUS
  <2> QED BY <1>13, <2>1, SubSeqProperties
<1> HIDE DEF part
<1>15. part[1] = s[2] /\ part[2] = s[3] /\ part[3] = s[4]
  <2>1. /\ 1 \in 1 .. 3 /\ 2 \in 1 .. 3 /\ 3 \in 1 .. 3
        /\ 2 + 1 - 1 = 2 /\ 2 + 2 - 1 = 3 /\ 2 + 3 - 1 = 4
    OBVIOUS
  <2> QED BY <1>14, <2>1
<1>16. \A i \in 1 .. 3 : part[i] = digits[i]
  <2>1. \A i \in 1 .. 3 : i = 1 \/ i = 2 \/ i = 3
    OBVIOUS
  <2> QED BY <1>11, <1>12, <1>15, <2>1
<1>17. part = digits
  BY <1>11, <1>14, <1>16, SeqEqual
<1> QED BY <1>17 DEF part, digits, s, x

\* A step of the long division gives a digit.
LEMMA DigitIs ==
  ASSUME NEW e \in Nat \ {0}, NEW r \in 0 .. e - 1
  PROVE  /\ (10 * r) \div e \in 0 .. 9 /\ (10 * r) % e \in 0 .. e - 1
         /\ 10 * r = e * ((10 * r) \div e) + ((10 * r) % e)
<1>1. PICK d \in Int, s \in 0 .. e - 1 :
        d = (10 * r) \div e /\ s = (10 * r) % e /\ 10 * r = e * d + s
  OBVIOUS
<1>2. d >= 0
  <2>1. ASSUME d <= -1 PROVE FALSE
    <3>1. e * d <= -e
      BY <2>1
    <3> QED BY <1>1, <3>1
  <2> QED BY <1>1, <2>1
<1>3. d <= 9
  <2>1. ASSUME d >= 10 PROVE FALSE
    <3>1. e * d >= e * 10
      BY <2>1
    <3> QED BY <1>1, <3>1
  <2> QED BY <1>1, <2>1
<1> QED BY <1>1, <1>2, <1>3

\* a, b and c are the first three digits of q / e after the point, as print_result
\* computes them.
Digits(q, e, a, b, c) ==
  LET f == 100 * a + 10 * b + c
  IN  /\ Fraction(q % e, e) = <<48 + a, 48 + b, 48 + c>>
      /\ (q * 1000) \div e = 1000 * (q \div e) + f
      /\ ((q * 1000) \div e) \div 1000 = q \div e
      /\ ((q * 1000) \div e) % 1000 = f

\* The long division in one register gives the quotient to three digits.
LEMMA DivisionIs ==
  ASSUME NEW q \in Nat, NEW e \in Nat \ {0}, 10 * (e - 1) < TickValues
  PROVE  \E a, b, c \in 0 .. 9 : Digits(q, e, a, b, c)
<1>1. TickValues \in Nat \ {0}
  BY PortAssumption
<1>2. ASSUME NEW r \in 0 .. e - 1 PROVE U32(r * 10) = 10 * r
  <2>1. r * 10 \in 0 .. TickValues - 1 /\ r * 10 = 10 * r
    BY <1>1
  <2> QED BY <1>1, <2>1 DEF U32
<1>3. PICK k1 \in Nat, r \in 0 .. e - 1 : k1 = q \div e /\ r = q % e /\ q = e * k1 + r
  <2>1. q \div e \in Nat /\ q % e \in 0 .. e - 1
    BY Quotient
  <2> QED BY <2>1
<1>4. PICK a \in 0 .. 9, r2 \in 0 .. e - 1 :
        a = (10 * r) \div e /\ r2 = (10 * r) % e /\ 10 * r = e * a + r2
  BY DigitIs
<1>5. PICK b \in 0 .. 9, r3 \in 0 .. e - 1 :
        b = (10 * r2) \div e /\ r3 = (10 * r2) % e /\ 10 * r2 = e * b + r3
  BY DigitIs
<1>6. PICK c \in 0 .. 9, r4 \in 0 .. e - 1 :
        c = (10 * r3) \div e /\ r4 = (10 * r3) % e /\ 10 * r3 = e * c + r4
  BY DigitIs
<1>7. Fraction(q % e, e) = <<48 + a, 48 + b, 48 + c>>
  <2>1. U32(r * 10) = 10 * r /\ U32(r2 * 10) = 10 * r2 /\ U32(r3 * 10) = 10 * r3
    BY <1>2
  <2>2. Fraction(r, e) = <<Digit(a), Digit(b), Digit(c)>>
    BY <1>4, <1>5, <1>6, <2>1 DEF Fraction
  <2> QED BY <1>3, <2>2 DEF Digit
<1> DEFINE f == 100 * a + 10 * b + c
           t == 1000 * k1 + f
<1>8. f \in 0 .. 999 /\ t \in Nat
  OBVIOUS
<1>9. q * 1000 = e * t + r4
  <2>1. /\ e * k1 \in Nat /\ e * a \in Nat /\ e * b \in Nat /\ e * c \in Nat
    OBVIOUS
  <2>2. e * t = 1000 * (e * k1) + (100 * (e * a) + 10 * (e * b) + e * c)
    OBVIOUS
  <2>3. ASSUME NEW v \in Nat, NEW x \in Nat, NEW y \in Nat, NEW z \in Nat,
               q = v + r, 10 * r = x + r2, 10 * r2 = y + r3, 10 * r3 = z + r4
        PROVE  q * 1000 = 1000 * v + (100 * x + 10 * y + z) + r4
    BY <2>3
  <2>4. q * 1000 = 1000 * (e * k1) + (100 * (e * a) + 10 * (e * b) + e * c) + r4
    <3>1. q = e * k1 + r /\ 10 * r = e * a + r2 /\ 10 * r2 = e * b + r3 /\ 10 * r3 = e * c + r4
      BY <1>3, <1>4, <1>5, <1>6
    <3> QED BY <2>1, <2>3, <3>1
  <2> QED BY <2>2, <2>4
<1>10. (q * 1000) \div e = t
  <2>1. q * 1000 \in Int /\ t \in Int
    BY <1>8
  <2> HIDE DEF t
  <2> QED BY <1>9, <2>1, DivIs
<1>11. t \div 1000 = k1 /\ t % 1000 = f
  BY <1>8
<1> HIDE DEF t, f
<1>12. /\ Fraction(q % e, e) = <<48 + a, 48 + b, 48 + c>> /\ (q * 1000) \div e = 1000 * (q \div e) + f
       /\ ((q * 1000) \div e) \div 1000 = q \div e /\ ((q * 1000) \div e) % 1000 = f
  <2>1. t = 1000 * (q \div e) + f
    BY <1>3 DEF t
  <2>2. ((q * 1000) \div e) \div 1000 = q \div e
    BY <1>3, <1>10, <1>11
  <2>3. ((q * 1000) \div e) % 1000 = f
    BY <1>10, <1>11
  <2> QED BY <1>7, <1>10, <2>1, <2>2, <2>3
<1>13. Digits(q, e, a, b, c)
  BY <1>12 DEF f, Digits
<1> QED BY <1>13

\* The line of the result: cycles and the quotient to three digits
ResultLine(n, ticks) ==
  LET millis == (n * Mega * 1000) \div ticks
  IN  Text \o Decimal(n) \o Text \o Decimal(ticks) \o Text \o Decimal(millis \div 1000)
        \o <<46>> \o SubSeq(Decimal(1000 + (millis % 1000)), 2, 4) \o Text

\* print_result shows the true result while its numbers fit in a register.
LEMMA PrintsTrue ==
  ASSUME NEW n \in Nat, NEW ticks \in Nat \ {0},
         n * Mega < TickValues, 10 * (ticks - 1) < TickValues
  PROVE  Printed(n, ticks) = ResultLine(n, ticks)
<1> DEFINE q == n * Mega
           millis == (q * 1000) \div ticks
<1>1. q \in Nat /\ q < TickValues /\ TickValues \in Nat \ {0}
  BY PortAssumption
<1>2. U32(q) = q
  BY <1>1 DEF U32
<1> HIDE DEF q
<1>3. PICK a, b, c \in 0 .. 9 : Digits(q, ticks, a, b, c)
  BY <1>1, DivisionIs
<1>4. SubSeq(Decimal(1000 + (millis % 1000)), 2, 4) = Fraction(q % ticks, ticks)
  <2>1. millis % 1000 = 100 * a + 10 * b + c
    BY <1>3 DEF Digits
  <2> DEFINE digits == <<48 + a, 48 + b, 48 + c>>
             Three(v) == SubSeq(Decimal(1000 + v), 2, 4)
  <2>2. Fraction(q % ticks, ticks) = digits
    BY <1>3 DEF Digits
  <2>3. Three(100 * a + 10 * b + c) = digits
    BY ThreeDigits
  <2> HIDE DEF millis, digits, Three
  <2>4. Three(millis % 1000) = Fraction(q % ticks, ticks)
    BY <2>1, <2>2, <2>3
  <2> QED BY <2>4 DEF Three
<1>5. millis \div 1000 = q \div ticks
  BY <1>3 DEF Digits
<1>6. PutUint(n) = Decimal(n) /\ PutUint(ticks) = Decimal(ticks)
  BY PutUintIs
<1>7. PutUint(q \div ticks) = Decimal(millis \div 1000)
  <2>1. q \div ticks \in Nat
    BY <1>1, Quotient
  <2> HIDE DEF millis
  <2> QED BY <1>5, <2>1, PutUintIs
<1> DEFINE whole == PutUint(q \div ticks)
           three == Fraction(q % ticks, ticks)
<1>8. Printed(n, ticks) = Text \o PutUint(n) \o Text \o PutUint(ticks) \o Text \o whole
                           \o <<46>> \o three \o Text
  BY <1>2, Zenon DEF Printed, q, Point
<1>9. ResultLine(n, ticks) =
        Text \o Decimal(n) \o Text \o Decimal(ticks) \o Text \o whole \o <<46>> \o three \o Text
  <2> DEFINE whole2 == Decimal(millis \div 1000)
             three2 == SubSeq(Decimal(1000 + (millis % 1000)), 2, 4)
  <2>1. ResultLine(n, ticks) =
          Text \o Decimal(n) \o Text \o Decimal(ticks) \o Text \o whole2 \o <<46>> \o three2 \o Text
    BY DEF ResultLine, millis, q
  <2>2. whole2 = whole /\ three2 = three
    BY <1>4, <1>7
  <2> HIDE DEF whole, three, whole2, three2
  <2> QED BY <2>1, <2>2
<1> HIDE DEF whole, three
<1> QED BY <1>6, <1>8, <1>9

\* What came last is the end.
LEMMA EndOfConcat ==
  ASSUME NEW T, NEW s \in Seq(T), NEW t \in Seq(T)
  PROVE  \E n \in 0 .. Len(s \o t) : SubSeq(s \o t, n + 1, Len(s \o t)) = t
<1>1. Len(s) \in Nat /\ Len(t) \in Nat /\ s \o t \in Seq(T) /\ Len(s \o t) = Len(s) + Len(t)
  BY LenProperties, ConcatProperties
<1>2. <<>> \in Seq(T) /\ (s \o t) \o <<>> = s \o t
  BY <1>1, EmptySeq, ConcatEmptySeq
<1>3. t = SubSeq(s \o t, Len(s) + 1, Len(s) + Len(t))
  BY <1>2, MiddleIs
<1>4. Len(s) \in 0 .. Len(s) + Len(t)
  BY <1>1
<1> QED BY <1>1, <1>3, <1>4

\* After CoreMark printed its line, said ends with it.
EndsWithLine ==
  \E n \in 0 .. Len(said) :
    SubSeq(said, n + 1, Len(said)) = Printed(cm.iterations, cm.elapsed)

\* Only CoreMark has a time, and once its line is out, said ends with it.
LineOK ==
  /\ pc \in {"cm_run", "cm_fini", "cm_check"} => program = "coremark"
  /\ program # "coremark" \/ pc = "start" => cm.elapsed = 0
  /\ pc \in {"cm_check", "main", "exit", "exiting"} /\ cm.elapsed # 0 => EndsWithLine

\* The line stays the last of the output until the next run.
LEMMA LineInvariant == Spec => [](LineOK /\ CmOK)
<1>1. Init => LineOK
  BY DEF Init, LineOK, NoCm
<1>2. LineOK /\ CmOK /\ TextOK /\ [Next]_vars => LineOK'
  <2> SUFFICES ASSUME LineOK, CmOK, TextOK, [Next]_vars PROVE LineOK'
    OBVIOUS
  <2> USE DEF Goto
  <2>1. ASSUME UNCHANGED <<cm, said>> PROVE EndsWithLine' <=> EndsWithLine
    BY <2>1 DEF EndsWithLine
  <2>2. CASE Start
    BY <2>2 DEF Start, LineOK, NoCm
  <2>3. CASE MainRuns \/ MainDone \/ Exit
    BY <2>1, <2>3 DEF MainRuns, MainDone, Exit, LineOK
  <2>4. CASE CallTerminal \/ CallFile \/ CallCmdline \/ CallWrite
    <3>1. pc = "bench" /\ UNCHANGED <<pc, program, cm>>
      <4>1. CASE CallWrite
        BY <4>1 DEF CallWrite, InBench
      <4>2. CASE CallTerminal \/ CallFile \/ CallCmdline
        BY <4>2, CallsShow DEF Calls, InBench
      <4> QED BY <2>4, <4>1, <4>2
    <3> QED BY <3>1 DEF LineOK
  <2>5. CASE WriteOn \/ CallReturns \/ Host \/ UNCHANGED vars
    <3>1. UNCHANGED <<pc, program, cm, said>>
      BY <2>5 DEF WriteOn, CallReturns, Host, programVars, vars
    <3> QED BY <2>1, <3>1 DEF LineOK
  <2>6. CASE CallLibrary
    BY <2>6 DEF CallLibrary, InBench, LineOK
  <2>7. CASE BenchEnds
    <3>1. program # "coremark" /\ pc' \in {"exit", "main"} /\ UNCHANGED <<program, cm>>
      BY <2>7 DEF BenchEnds, BenchReturns, InBench
    <3> QED BY <3>1 DEF LineOK
  <2>8. CASE CoreMarkStarts
    <3>1. program = "coremark" /\ pc' = "cm_run" /\ program' = program
      BY <2>8 DEF CoreMarkStarts, InBench
    <3> QED BY <3>1 DEF LineOK
  <2>9. CASE CoreMarkStops
    <3>1. pc = "cm_run" /\ pc' = "cm_fini" /\ program' = program
      BY <2>9 DEF CoreMarkStops
    <3> QED BY <3>1 DEF LineOK
  <2>10. CASE CoreMarkPrints
    <3>1. pc = "cm_fini" /\ pc' = "cm_check" /\ program' = program
      BY <2>10 DEF CoreMarkPrints
    <3> DEFINE n == cm.iterations
               e == cm.elapsed
    <3>2. n \in Nat /\ e \in Nat \ {0} /\ GetTime(cm.start, cm.stop) = e
      BY <3>1, BareMetalAssumption, PortAssumption DEF CmOK, CmTypes
    <3>3. cm'.iterations = n /\ cm'.elapsed = e
      BY <2>10 DEF CoreMarkPrints, CmOK, CmTypes
    <3> HIDE DEF n, e
    <3> DEFINE text == Printed(n, e)
    <3>4. text \in Seq(NonZero) /\ PrintResult(n, e) = Append(text, 0)
      BY <3>2, LineIs
    <3>5. said' = said \o SubSeq(PrintResult(n, e), 1, Len(PrintResult(n, e)) - 1)
      BY <2>10, <3>2 DEF CoreMarkPrints, n
    <3> HIDE DEF text
    <3>6. said' = said \o text
      <4>1. Len(Append(text, 0)) = Len(text) + 1 /\ Len(text) \in Nat
            /\ SubSeq(Append(text, 0), 1, Len(text)) = text
        BY <3>4, StrLenIs, LenProperties
      <4> QED BY <3>4, <3>5, <4>1
    <3>7. text \in Seq(Nat) /\ said \in Seq(Nat)
      BY <3>4, SeqMonotonic DEF NonZero, TextOK
    <3>8. PICK end \in 0 .. Len(said \o text) : SubSeq(said \o text, end + 1, Len(said \o text)) = text
      BY <3>7, EndOfConcat
    <3>9. EndsWithLine'
      <4>1. end \in 0 .. Len(said') /\ SubSeq(said', end + 1, Len(said')) = text
        BY <3>6, <3>8
      <4>2. text = Printed(cm'.iterations, cm'.elapsed)
        BY <3>3 DEF text
      <4> QED BY <4>1, <4>2 DEF EndsWithLine
    <3> QED BY <3>1, <3>9 DEF LineOK
  <2>11. CASE CoreMarkChecks
    <3>1. pc = "cm_check" /\ pc' \in {"exit", "main", "exiting"} /\ UNCHANGED <<program, cm, said>>
      BY <2>11 DEF CoreMarkChecks, BenchReturns
    <3> QED BY <2>1, <3>1 DEF LineOK
  <2> QED BY <2>2, <2>3, <2>4, <2>5, <2>6, <2>7, <2>8, <2>9, <2>10, <2>11 DEF Next, Program
<1> QED BY <1>1, <1>2, TextInvariant, CmInvariant, PTL DEF Spec

\* The line of CoreMark is the true number of cycles and the true quotient, for every
\* number of iterations, start of the counter and run time that the property bounds.
THEOREM LineIsTrue == Spec => []ResultLineIsTrue
<1>1. LineOK /\ CmOK => ResultLineIsTrue
  <2> SUFFICES ASSUME LineOK, CmOK, pc \in {"cm_check", "exiting"}, cm.elapsed > 0,
                      cm.iterations * Mega < TickValues, 10 * (cm.elapsed - 1) < TickValues
               PROVE  \E n \in 0 .. Len(said) :
                        SubSeq(said, n + 1, Len(said)) = ResultLine(cm.iterations, cm.elapsed)
    BY DEF ResultLineIsTrue, ResultLine
  <2>1. cm.iterations \in Nat /\ cm.elapsed \in Nat \ {0}
    BY DEF CmOK, CmTypes
  <2>2. Printed(cm.iterations, cm.elapsed) = ResultLine(cm.iterations, cm.elapsed)
    BY <2>1, PrintsTrue
  <2>3. EndsWithLine
    BY <2>1 DEF LineOK
  <2> QED BY <2>2, <2>3 DEF EndsWithLine
<1> QED BY <1>1, LineInvariant, PTL
=============================================================================
