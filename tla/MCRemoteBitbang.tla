-------------------------- MODULE MCRemoteBitbang --------------------------
(* Small registers for model checking: 2-bit instructions (IDCODE 10, BYPASS
   11, the bit that leaves first is written first) and a 2-bit IDCODE. *)
EXTENDS RemoteBitbangProps

MCInsnCapture == <<1, 0>>
MCInsnIdcode == <<0, 1>>
MCInsnBypass == <<1, 1>>
MCInsnOther == {<<0, 0>>, <<1, 0>>}
MCIdcodeValue == <<1, 0>>
=============================================================================
