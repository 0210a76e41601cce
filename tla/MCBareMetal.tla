---------------------------- MODULE MCBareMetal ----------------------------
(* Small programs for model checking: two names of which one is the start of
   the other, files of at most three bytes, one handle. *)
EXTENDS BareMetalProps

MCPaths == {<<1, 0>>, <<1, 2, 0>>}
MCModes == {"R", "W_PLUS", "AB"}
MCData == {<<66>>, <<65, 66>>}
MCStatuses == {0, 3, -1}
MCDescriptors == {1, -1}
MCOffsets == {0, 1, -1}
MCRunTimes == {1, 3, 70, 16384, 26214}
MCStartTimes == {0, 262140}
=============================================================================
