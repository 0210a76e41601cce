------------------------------ MODULE PlicProps ------------------------------
(***************************************************************************)
(* What the interrupt controller does for the handlers of its sources.     *)
(***************************************************************************)
EXTENDS Plic

\* The types of the registers.
PlicTypeOK ==
  /\ pending \subseteq Sources /\ active \subseteq Sources /\ src_q \subseteq Sources
  /\ prio \in [Sources -> Priorities]
  /\ ie \in [Contexts -> SUBSET Sources]
  /\ threshold \in [Contexts -> Priorities]
  /\ eip \subseteq Contexts /\ claim_id \in [Contexts -> Ids]
  /\ hold \in BOOLEAN
  /\ rsp \in [ctx : Contexts \cup {-1}, id : Ids]
  /\ offer \in Requests
  /\ lines \subseteq Sources
  /\ handling \in [Contexts -> SUBSET Sources]

\* When a claim can be taken, the registered claim ID of every context is still
\* that of a pending source: the clock of hold keeps a claim off an ID that an
\* earlier claim, of this context or another, took (plic.sv, plic_claim.sv).
ClaimsArePending == ~hold => \A c \in Contexts : claim_id[c] \in pending \cup {0}

\* A pending source is active (asserted in plic_gateway.sv), and a notification
\* has a source to claim (asserted in plic_target.sv).
PendingIsActive == pending \subseteq active
NotifiedHasId == \A c \in eip : claim_id[c] # 0

\* A source that a handler has is in service: active, and not pending again.
HandledIsServed ==
  \A c \in Contexts, k \in Sources : HasIt(c, k) => k \in active \ pending

\* No two handlers have one source.
OneHandler ==
  \A c, d \in Contexts, k \in Sources : HasIt(c, k) /\ HasIt(d, k) => c = d

\* The access that waits at the port completes no source another handler has, and
\* waits only while the port holds.
OfferIsFair ==
  /\ offer.kind = "complete" =>
       \A d \in Contexts \ {offer.ctx} : ~HasIt(d, IdOf(offer.id))
  /\ offer # NoReq => ~hold

\* The gateway of an edge source knows its line of the last clock.
LinesSeen == src_q = lines \cap EDGE_TRIGGERED

\* The interrupt controller is sound in every clock: claims get only pending
\* sources, and one handler at a time has a source that is in service.
PlicInv ==
  /\ PlicTypeOK /\ ClaimsArePending /\ PendingIsActive /\ NotifiedHasId
  /\ HandledIsServed /\ OneHandler /\ OfferIsFair /\ LinesSeen

-----------------------------------------------------------------------------

Phases ==
  [k \in Sources |->
     IF k \in pending THEN "pending" ELSE IF k \in active THEN "served" ELSE "idle"]

Handlers == [k \in Sources |-> {c \in Contexts : HasIt(c, k)}]

Service ==
  INSTANCE InterruptService
    WITH Edges <- EDGE_TRIGGERED, phase <- Phases, handlers <- Handlers

\* Every source gets the service promised: a level at 1, or a rising edge, while it is
\* idle or in the very clock of its completion is a request; each goes to one handler,
\* once, none is dropped, and the source makes no other until a completion of a context
\* it is enabled for (plic_gateway.sv, plic_claim.sv, plic.sv).
ServesRequests == Service!Spec
=============================================================================
