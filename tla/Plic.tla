-------------------------------- MODULE Plic --------------------------------
(***************************************************************************)
(* The platform-level interrupt controller: gateways, targets, claim and   *)
(* complete, registers behind one register port.  One step is one clock    *)
(* edge.  A vector of bits by source ID is the set of the IDs at 1.        *)
(***************************************************************************)
EXTENDS Integers

CONSTANTS
  N_SOURCES, N_CONTEXTS,
  IdValues,           \* 2^IDW, the IDs that fit in the bits of an ID
  IdWords,            \* the words software writes to complete
  MaxPriority,        \* 2^PRIO_WIDTH - 1
  EDGE_TRIGGERED,     \* the sources whose rising edge is a request
  Setups              \* the writes of priorities, enables and thresholds software makes

Sources == 1 .. N_SOURCES
Ids == 0 .. N_SOURCES
Contexts == 0 .. N_CONTEXTS - 1
Priorities == 0 .. MaxPriority

\* wdata[IDW-1:0]: the ID a written word stands for
IdOf(word) == word % IdValues

\* An access of the register port, by what it selects.  "other": one no register
\* changes with (any other read, a reserved address, strobes that leave the
\* register or a byte of the ID out).
Requests ==
       [kind : {"none", "other"}]
  \cup [kind : {"claim"}, ctx : Contexts]
  \cup [kind : {"complete"}, ctx : Contexts, id : IdWords]
  \cup [kind : {"priority"}, id : Sources, value : Priorities]
  \cup [kind : {"enable"}, ctx : Contexts, ids : SUBSET Sources]
  \cup [kind : {"threshold"}, ctx : Contexts, value : Priorities]

NoReq == [kind |-> "none"]

ASSUME PlicAssumption ==
  /\ N_SOURCES \in Nat \ {0} /\ N_CONTEXTS \in Nat \ {0} /\ MaxPriority \in Nat
  /\ IdValues \in Nat /\ N_SOURCES < IdValues /\ IdWords \subseteq Nat
  /\ EDGE_TRIGGERED \subseteq Sources
  /\ Setups \subseteq {r \in Requests : r.kind \in {"priority", "enable", "threshold"}}

VARIABLES
  pending, active, src_q,       \* gateways
  prio, ie, threshold,          \* registers of the software
  eip, claim_id,                \* targets: what contexts are notified of and claim
  hold,                         \* the clock after a claim
  rsp,                          \* answer to a claim: [ctx, id], ctx -1 if none
  offer,                        \* the access waiting at the port
  lines,                        \* src at the last edge: the devices' side, no register
  handling                      \* the handlers: IDs a context got and did not complete

gatewayVars == <<pending, active, src_q>>
registerVars == <<prio, ie, threshold>>
contextVars == <<eip, claim_id>>
plicVars == <<gatewayVars, registerVars, contextVars, hold, rsp, offer, lines, handling>>

-----------------------------------------------------------------------------
(* Targets.                                                                *)

Eligible(c) == {k \in pending \cap ie[c] : prio[k] # 0}

Beats(k, j) == prio[j] < prio[k] \/ (prio[j] = prio[k] /\ k <= j)

BestId(c) ==
  IF Eligible(c) = {} THEN 0
                      ELSE CHOOSE k \in Eligible(c) : \A j \in Eligible(c) : Beats(k, j)

Notified(c) == BestId(c) # 0 /\ prio[BestId(c)] > threshold[c]

TargetNext ==
  /\ claim_id' = [c \in Contexts |-> BestId(c)]
  /\ eip' = {c \in Contexts : Notified(c)}

-----------------------------------------------------------------------------
(* Register port: an access taken while no claim was taken a clock before. *)

Taken(req) == IF hold THEN NoReq ELSE req

\* Mutant of Claimed: the port takes the next claim at once.
ClaimedNoHold(req) == FALSE

Claimed(req) == Taken(req).kind = "claim"

PortNext(req) ==
  /\ hold' = Claimed(req)
  /\ offer' = IF hold THEN req ELSE NoReq
  /\ rsp' = IF Taken(req).kind = "claim" THEN [ctx |-> req.ctx, id |-> claim_id[req.ctx]]
                                         ELSE [ctx |-> -1, id |-> 0]

Write(r) ==
  /\ prio' = IF r.kind = "priority" THEN [prio EXCEPT ![r.id] = r.value] ELSE prio
  /\ ie' = IF r.kind = "enable" THEN [ie EXCEPT ![r.ctx] = r.ids] ELSE ie
  /\ threshold' = IF r.kind = "threshold" THEN [threshold EXCEPT ![r.ctx] = r.value]
                                          ELSE threshold

-----------------------------------------------------------------------------
(* Claim, complete and the gateways.                                       *)

Claims(r) == {k \in Sources : r.kind = "claim" /\ claim_id[r.ctx] = k}

Completes(r) == {k \in Sources : r.kind = "complete" /\ IdOf(r.id) = k /\ k \in ie[r.ctx]}

Set(src) == {k \in src : k \in EDGE_TRIGGERED => k \notin src_q}

Done(complete) == (active \cap complete) \ pending

\* Mutant of Take: a request in the clock of the completion is missed.
TakeIdle(src, complete) == Set(src) \ active

Take(src, complete) == Set(src) \ (active \ Done(complete))

GatewayNext(src, claim, complete) ==
  /\ pending' = (pending \ claim) \cup Take(src, complete)
  /\ active' = Take(src, complete) \cup (active \ Done(complete))
  /\ src_q' = src \cap EDGE_TRIGGERED

-----------------------------------------------------------------------------
(* Handlers and other software at the register port: external.  An offer   *)
(* not taken stays.  A handler may claim, and complete any source that no  *)
(* other handler has, by any word that stands for its ID.                  *)

HasIt(c, k) == k \in handling[c] \/ (rsp.ctx = c /\ rsp.id = k)

Offers ==
  IF offer # NoReq THEN {offer}
  ELSE [kind : {"none", "other"}] \cup [kind : {"claim"}, ctx : Contexts] \cup Setups
       \cup {r \in [kind : {"complete"}, ctx : Contexts, id : IdWords] :
               \A d \in Contexts \ {r.ctx} : ~HasIt(d, IdOf(r.id))}

HandlersNext(r) ==
  handling' = [c \in Contexts |->
    (handling[c] \cup {k \in Sources : rsp.ctx = c /\ rsp.id = k})
      \ {k \in Sources : r.kind = "complete" /\ r.ctx = c /\ IdOf(r.id) = k}]

-----------------------------------------------------------------------------

Clock(src, req) ==
  LET r == Taken(req) IN
  /\ GatewayNext(src, Claims(r), Completes(r))
  /\ TargetNext
  /\ PortNext(req)
  /\ Write(r)
  /\ HandlersNext(r)
  /\ lines' = src

PlicInit ==
  /\ pending = {} /\ active = {} /\ src_q = {}
  /\ prio = [k \in Sources |-> 0]
  /\ ie = [c \in Contexts |-> {}]
  /\ threshold = [c \in Contexts |-> 0]
  /\ eip = {} /\ claim_id = [c \in Contexts |-> 0]
  /\ hold = FALSE /\ rsp = [ctx |-> -1, id |-> 0] /\ offer = NoReq
  /\ lines = {}
  /\ handling = [c \in Contexts |-> {}]

PlicNext == \E src \in SUBSET Sources, req \in Offers : Clock(src, req)

PlicSpec == PlicInit /\ [][PlicNext]_plicVars
=============================================================================
