---------------------------- MODULE SkewedCache ----------------------------
(***************************************************************************)
(* SkewedCache: two ways around CacheControl, each with an index of its    *)
(* own (f0 = set, f1 = set xor the low bits of the tag), in front of a     *)
(* LatencyMemory.  A line's two candidates are in different "sets", so the *)
(* replacement state is a recent bit per line.                             *)
(*                                                                         *)
(* Bits of an address are Booleans; the variables of the RAMs are          *)
(* functions of the way.                                                   *)
(***************************************************************************)
EXTENDS CacheControl

CONSTANTS SetsWidth, TagWidth    \* SETS_WIDTH, TAG_WIDTH: bits of an index, of a tag

Sets == [0 .. SetsWidth - 1 -> BOOLEAN]
Tags == [0 .. TagWidth - 1 -> BOOLEAN]
Ways == {0, 1}

ASSUME SkewedAssumption ==
  /\ SetsWidth \in Nat \ {0}
  /\ TagWidth \in Nat /\ TagWidth >= SetsWidth     \* a_tag_covers_index
  /\ Lines = [tag: Tags, set: Sets]

VARIABLES
  valid_mem, tag_mem, data_mem,  \* the RAMs of each way
  valid, tag, ram_line,          \* what they read for the lookup
  fwd, fwd_line,                 \* a way's ram_line is older than a store: use fwd_line
  recent,                        \* per way and index: used more recently than its pair
  fill_way                       \* the way the line of the served miss goes into

ramVars == <<valid_mem, tag_mem, data_mem, valid, tag, ram_line, fwd, fwd_line>>
vars == <<memoryVars, controlVars, ramVars, recent, fill_way>>

-----------------------------------------------------------------------------
IndexOf(w, l) ==
  IF w = 0 THEN l.set
  ELSE [b \in 0 .. SetsWidth - 1 |-> l.set[b] # l.tag[b]]

LookIndex(w) == IndexOf(w, looked.line)

RdIndex(i, w) ==
  IndexOf(w, IF replay \/ i.req = None THEN looked.line ELSE i.req.line)

\* Mutant of SameIndex: no request taken at a refill's edge is replayed.
SameIndexNever(r, w) == FALSE
SameIndex(r, w) == IF r = None THEN FALSE ELSE IndexOf(w, r.line) = LookIndex(w)

Hits(w) == look /\ valid[w] /\ tag[w] = looked.line.tag
Hit     == Hits(0) \/ Hits(1)
HitWay  == IF Hits(1) THEN 1 ELSE 0
Line(w) == IF fwd[w] THEN fwd_line ELSE ram_line[w]
HitLine == Line(HitWay)

\* The victim: an invalid candidate (way 1 first), else the one not recently
\* used, else way 0.
VictimWay ==
  IF ~valid[1] THEN 1
  ELSE IF valid[0] /\ recent[0][LookIndex(0)] /\ ~recent[1][LookIndex(1)] THEN 1
  ELSE 0

FillWr(i, w) == Refill(i) /\ fill_way = w

\* Mutant of ValidRam: an atomic that hits drops the line of way 0 only.
ValidRamDropsWay0(i) ==
  /\ valid_mem' =
       [w \in Ways |->
          IF i.invalidate THEN [s \in Sets |-> FALSE]
          ELSE IF FillWr(i, w) \/ (Drop(i, Hit) /\ w = 0)
               THEN [valid_mem[w] EXCEPT ![LookIndex(w)] = Refill(i)]
          ELSE valid_mem[w]]
  /\ valid' = IF RamRd(i, Hit) THEN [w \in Ways |-> valid_mem[w][RdIndex(i, w)]] ELSE valid

ValidRam(i) ==
  /\ valid_mem' =
       [w \in Ways |->
          IF i.invalidate THEN [s \in Sets |-> FALSE]
          ELSE IF FillWr(i, w) \/ (Drop(i, Hit) /\ Hits(w))
               THEN [valid_mem[w] EXCEPT ![LookIndex(w)] = Refill(i)]
          ELSE valid_mem[w]]
  /\ valid' = IF RamRd(i, Hit) THEN [w \in Ways |-> valid_mem[w][RdIndex(i, w)]] ELSE valid

TagRam(i) ==
  /\ tag_mem' =
       [w \in Ways |-> IF FillWr(i, w)
                       THEN [tag_mem[w] EXCEPT ![LookIndex(w)] = looked.line.tag]
                       ELSE tag_mem[w]]
  /\ tag' = IF RamRd(i, Hit) THEN [w \in Ways |-> tag_mem[w][RdIndex(i, w)]] ELSE tag

DataRam(i) ==
  LET wr_line == IF Refill(i) THEN Head(pending) ELSE Merged(HitLine) IN
  /\ data_mem' =
       [w \in Ways |-> IF FillWr(i, w) \/ (StoreWrite(i, Hit) /\ Hits(w))
                       THEN [data_mem[w] EXCEPT ![LookIndex(w)] = wr_line]
                       ELSE data_mem[w]]
  /\ ram_line' = IF RamRd(i, Hit) THEN [w \in Ways |-> data_mem[w][RdIndex(i, w)]]
                 ELSE ram_line

\* Mutant of Forward: the way the store hit is not looked at.
ForwardBothWays(i) ==
  /\ fwd' = IF RamRd(i, Hit)
            THEN [w \in Ways |-> StoreWrite(i, Hit) /\ SameIndex(i.req, w)]
            ELSE fwd
  /\ fwd_line' = IF StoreWrite(i, Hit) THEN Merged(HitLine) ELSE fwd_line

\* A request taken at the edge of a store's write read the old line of a way
\* when the store hit there at the request's index in this way.
Forward(i) ==
  /\ fwd' = IF RamRd(i, Hit)
            THEN [w \in Ways |-> StoreWrite(i, Hit) /\ Hits(w) /\ SameIndex(i.req, w)]
            ELSE fwd
  /\ fwd_line' = IF StoreWrite(i, Hit) THEN Merged(HitLine) ELSE fwd_line

\* A load hit, a store hit when memory takes it and a fill touch their line:
\* it becomes recent, the other candidate does not.
Touch(i) == LoadHit(Hit) \/ StoreWrite(i, Hit) \/ Refill(i)

Replacement(i) ==
  LET touch_way == IF Refill(i) THEN fill_way ELSE HitWay IN
  /\ recent' = IF Touch(i)
               THEN [w \in Ways |-> [recent[w] EXCEPT ![LookIndex(w)] = (touch_way = w)]]
               ELSE recent
  /\ fill_way' = IF MissTaken(i, Hit) THEN VictimWay ELSE fill_way

Clock(i) ==
  /\ LegalInputs(i)
  /\ ControlStep(i, Hit, HitLine, SameIndex(i.req, fill_way))
  /\ ValidRam(i)
  /\ TagRam(i)
  /\ DataRam(i)
  /\ Forward(i)
  /\ Replacement(i)

Next == \E i \in Inputs : Clock(i)

\* Reset clears the valid bits and fwd; the rest is unknown until written.
Init ==
  /\ ControlInit
  /\ valid_mem = [w \in Ways |-> [s \in Sets |-> FALSE]]
  /\ fwd = [w \in Ways |-> FALSE]
  /\ tag_mem \in [Ways -> [Sets -> Tags]]
  /\ data_mem \in [Ways -> [Sets -> Data]]
  /\ valid \in [Ways -> BOOLEAN] /\ tag \in [Ways -> Tags] /\ ram_line \in [Ways -> Data]
  /\ fwd_line \in Data
  /\ recent \in [Ways -> [Sets -> BOOLEAN]]
  /\ fill_way \in Ways

Spec == Init /\ [][Next]_vars

-----------------------------------------------------------------------------
\* Every register and RAM holds a value of its type.
TypeOK ==
  /\ ControlTypeOK
  /\ valid_mem \in [Ways -> [Sets -> BOOLEAN]]
  /\ tag_mem \in [Ways -> [Sets -> Tags]]
  /\ data_mem \in [Ways -> [Sets -> Data]]
  /\ {valid, fwd} \subseteq [Ways -> BOOLEAN]
  /\ tag \in [Ways -> Tags]
  /\ ram_line \in [Ways -> Data] /\ fwd_line \in Data
  /\ recent \in [Ways -> [Sets -> BOOLEAN]]
  /\ fill_way \in Ways

\* The line a way holds at index s: its set is the index, with the low bits of
\* the tag taken out again in way 1.
HeldLine(w, s) ==
  LET t == tag_mem[w][s] IN
  [tag |-> t, set |-> IF w = 0 THEN s ELSE [b \in 0 .. SetsWidth - 1 |-> s[b] # t[b]]]

\* Every valid line of either way is the line memory has, and never a device's.
Coherent ==
  \A w \in Ways, s \in Sets : valid_mem[w][s] =>
    HeldLine(w, s) \notin Devices /\ data_mem[w][s] = mem[HeldLine(w, s)]

\* A line is in at most one way (so a_hits_onehot0 holds and a store updates
\* every copy): a fill happens only for a line that is in neither way, also
\* after replays, drops and invalidates.
SingleCopy ==
  /\ \A s0, s1 \in Sets :
       (valid_mem[0][s0] /\ valid_mem[1][s1]) => HeldLine(0, s0) # HeldLine(1, s1)
  /\ ~(Hits(0) /\ Hits(1))
=============================================================================
