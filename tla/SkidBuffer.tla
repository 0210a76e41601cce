----------------------------- MODULE SkidBuffer -----------------------------
(***************************************************************************)
(* SkidBuffer: a valid/ready register stage whose outputs are all flops.   *)
(* When the output register stalls, an item that arrives goes into the     *)
(* skid register.                                                          *)
(***************************************************************************)
EXTENDS Naturals, Sequences

CONSTANTS Items, None

VARIABLES
  out_valid, out_data,    \* the output register
  skid_valid, skid_data,  \* the skid register
  put, got                \* what crossed the two channels in the last clock

skidVars == <<out_valid, out_data, skid_valid, skid_data, put, got>>

InReady          == ~skid_valid
Stall(out_ready) == out_valid /\ ~out_ready
AnyItem(in)      == skid_valid \/ in # None

\* Mutant of SkidStep: the skid register loads in_data while it is full.
SkidStepOverwrites(in, out_ready) ==
  /\ out_valid' = (Stall(out_ready) \/ AnyItem(in))
  /\ skid_valid' = (Stall(out_ready) /\ AnyItem(in))
  /\ out_data' = IF Stall(out_ready) THEN out_data
                 ELSE IF skid_valid THEN skid_data ELSE in
  /\ skid_data' = in

SkidStep(in, out_ready) ==
  /\ out_valid' = (Stall(out_ready) \/ AnyItem(in))
  /\ skid_valid' = (Stall(out_ready) /\ AnyItem(in))
  /\ out_data' = IF Stall(out_ready) THEN out_data
                 ELSE IF skid_valid THEN skid_data ELSE in
  /\ skid_data' = IF skid_valid THEN skid_data ELSE in

Channels(in, out_ready) ==
  /\ put' = IF InReady THEN in ELSE None
  /\ got' = IF out_valid /\ out_ready THEN out_data ELSE None

SkidInit ==
  /\ out_valid = FALSE /\ skid_valid = FALSE
  /\ out_data \in Items \cup {None} /\ skid_data \in Items \cup {None}
  /\ put = None /\ got = None

SkidNext ==
  \E in \in Items \cup {None}, out_ready \in BOOLEAN :
    SkidStep(in, out_ready) /\ Channels(in, out_ready)

SkidSpec == SkidInit /\ [][SkidNext]_skidVars

-----------------------------------------------------------------------------
\* An item skids only behind one that waits in the output register.
SkidTypeOK ==
  /\ {out_valid, skid_valid} \subseteq BOOLEAN
  /\ {out_data, skid_data, put, got} \subseteq Items \cup {None}
  /\ out_valid => out_data \in Items
  /\ skid_valid => out_valid /\ skid_data \in Items

\* The items inside: the output register's is the older one.
SkidQueue ==
  (IF out_valid THEN <<out_data>> ELSE <<>>)
    \o (IF skid_valid THEN <<skid_data>> ELSE <<>>)

Queue == INSTANCE BoundedQueue WITH queue <- SkidQueue, Capacity <- 2
=============================================================================
