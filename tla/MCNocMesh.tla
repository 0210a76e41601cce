----------------------------- MODULE MCNocMesh -----------------------------
(***************************************************************************)
(* The mesh for TLC: 2 x 2 routers, two VCs of two flits.  In "Ring" every *)
(* node sends a packet of three flits on each VC to the opposite corner,   *)
(* so that all VCs of a circle of links are held at once; in "HotSpot" the *)
(* nodes send to one node, one of them over its own router and elsewhere.  *)
(***************************************************************************)
EXTENDS NocMeshProps

P(src, dest, vc, len, id) == [src |-> src, dest |-> dest, vc |-> vc, len |-> len, id |-> id]

Ring == {P(<<x, y>>, <<1 - x, 1 - y>>, v, 3, 1) : x \in {0, 1}, y \in {0, 1}, v \in VCs}

HotSpot ==
  {P(<<0, 0>>, <<1, 1>>, 0, 3, 2), P(<<0, 1>>, <<1, 1>>, 1, 2, 2),
   P(<<1, 0>>, <<1, 1>>, 0, 2, 2), P(<<1, 0>>, <<1, 1>>, 0, 1, 3),
   P(<<1, 1>>, <<1, 1>>, 0, 3, 2), P(<<1, 1>>, <<0, 1>>, 1, 4, 2)}

MCPackets == Ring \cup HotSpot
MCPlans == {Ring, HotSpot}
=============================================================================
