------------------------------- MODULE MCPlic -------------------------------
(***************************************************************************)
(* The interrupt controller for TLC: a level source 1, an edge source 2    *)
(* and two contexts; software gives source 2 a higher, an equal or no      *)
(* priority, masks context 0 by its threshold and takes enables away.      *)
(***************************************************************************)
EXTENDS PlicProps

MCSetups ==
       {[kind |-> "priority", id |-> 1, value |-> 1]}
  \cup [kind : {"priority"}, id : {2}, value : 0 .. 2]
  \cup [kind : {"enable"}, ctx : {0}, ids : {{1, 2}, {1}}]
  \cup [kind : {"enable"}, ctx : {1}, ids : {{1, 2}, {}}]
  \cup [kind : {"threshold"}, ctx : {0}, value : {0, 1}]
=============================================================================
