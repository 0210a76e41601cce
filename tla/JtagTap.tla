------------------------------ MODULE JtagTap ------------------------------
(***************************************************************************)
(* The JTAG test access port of jtag_core_dbg: the controller (JtagTapFsm, *)
(* its 16 states and the extra reset after five clocks of TMS = 1), the    *)
(* instruction register (JtagTapInsnReg) and the IDCODE and BYPASS data    *)
(* registers with the TDO multiplexer (JtagTapDRegs).  The port reacts to  *)
(* the edges of TCK only, so it is a pure function of its registers and    *)
(* its pins: TapAfter gives the registers after the pins change.           *)
(*                                                                         *)
(* Shift registers are sequences, first the bit that leaves on TDO.  The   *)
(* widths are those of the constants: the code's 8 and 32 bits are         *)
(* parameters here.  The data registers behind the other instructions are  *)
(* not in the port: their TDO wires are undriven (0) in JtagTap.           *)
(***************************************************************************)
EXTENDS Naturals, Sequences

CONSTANTS
    InsnCapture,     \* what Capture-IR loads
    InsnIdcode,      \* the instruction that selects IDCODE, latched by a reset
    InsnBypass,      \* all ones: selects BYPASS
    InsnOther,       \* EXTEST and SAMPLE: instructions with an undriven register
    IdcodeValue      \* IDCODE_VALUE

Bit == {0, 1}

ASSUME TapAssumption ==
    /\ {InsnCapture, InsnIdcode, InsnBypass, IdcodeValue} \subseteq Seq(Bit) \ {<<>>}
    /\ Len(InsnIdcode) = Len(InsnCapture) /\ Len(InsnBypass) = Len(InsnCapture)
    /\ InsnIdcode # InsnBypass /\ {InsnIdcode, InsnBypass} \cap InsnOther = {}

TapStates ==
    {"TEST_LOGIC_RESET", "RUN_TEST_IDLE",
     "SELECT_DR_SCAN", "CAPTURE_DR", "SHIFT_DR", "EXIT1_DR", "PAUSE_DR", "EXIT2_DR", "UPDATE_DR",
     "SELECT_IR_SCAN", "CAPTURE_IR", "SHIFT_IR", "EXIT1_IR", "PAUSE_IR", "EXIT2_IR", "UPDATE_IR"}

TapRegisters ==
    [fsm : TapStates, tms_q : [1 .. 4 -> Bit],
     jtag_ir : Seq(Bit), latched_jtag_ir : Seq(Bit),
     idcode_reg : Seq(Bit), bypass_reg : Bit, tdo : Bit]

\* next_state, as the pair <<TMS = 0, TMS = 1>>
NextStates ==
    [TEST_LOGIC_RESET |-> <<"RUN_TEST_IDLE", "TEST_LOGIC_RESET">>,
     RUN_TEST_IDLE    |-> <<"RUN_TEST_IDLE", "SELECT_DR_SCAN">>,
     SELECT_DR_SCAN   |-> <<"CAPTURE_DR",    "SELECT_IR_SCAN">>,
     CAPTURE_DR       |-> <<"SHIFT_DR",      "EXIT1_DR">>,
     SHIFT_DR         |-> <<"SHIFT_DR",      "EXIT1_DR">>,
     EXIT1_DR         |-> <<"PAUSE_DR",      "UPDATE_DR">>,
     PAUSE_DR         |-> <<"PAUSE_DR",      "EXIT2_DR">>,
     EXIT2_DR         |-> <<"SHIFT_DR",      "UPDATE_DR">>,
     UPDATE_DR        |-> <<"RUN_TEST_IDLE", "SELECT_DR_SCAN">>,
     SELECT_IR_SCAN   |-> <<"CAPTURE_IR",    "TEST_LOGIC_RESET">>,
     CAPTURE_IR       |-> <<"SHIFT_IR",      "EXIT1_IR">>,
     SHIFT_IR         |-> <<"SHIFT_IR",      "EXIT1_IR">>,
     EXIT1_IR         |-> <<"PAUSE_IR",      "UPDATE_IR">>,
     PAUSE_IR         |-> <<"PAUSE_IR",      "EXIT2_IR">>,
     EXIT2_IR         |-> <<"SHIFT_IR",      "UPDATE_IR">>,
     UPDATE_IR        |-> <<"RUN_TEST_IDLE", "SELECT_DR_SCAN">>]

\* tms_reset: TMS was 1 on the last four rising edges and is 1 on this one
TmsReset(t, tms) == tms = 1 /\ \A k \in 1 .. 4 : t.tms_q[k] = 1

\* Mutant of FsmAfter: EXIT2 waits in PAUSE while TMS = 1, as EXIT1 does while it is 0.
FsmAfterPaused(t, tms, trst) ==
    CASE trst \/ TmsReset(t, tms)                 -> "TEST_LOGIC_RESET"
      [] t.fsm = "EXIT2_IR" /\ tms = 1            -> "PAUSE_IR"
      [] OTHER                                    -> NextStates[t.fsm][tms + 1]

FsmAfter(t, tms, trst) ==
    IF trst \/ TmsReset(t, tms) THEN "TEST_LOGIC_RESET" ELSE NextStates[t.fsm][tms + 1]

\* Mutant of Shifted: the concatenation is not cut to the register's width.
ShiftedWide(reg, tdi) == Append(reg, tdi)

\* One shift of a register: its first bit leaves, TDI comes in at the far end
Shifted(reg, tdi) == Append(Tail(reg), tdi)

InsnRegAfter(t, tdi, trst) ==
    CASE trst \/ t.fsm = "TEST_LOGIC_RESET" -> [k \in DOMAIN InsnCapture |-> 0]
      [] ~trst /\ t.fsm = "CAPTURE_IR"      -> InsnCapture
      [] ~trst /\ t.fsm = "SHIFT_IR"        -> Shifted(t.jtag_ir, tdi)
      [] OTHER                              -> t.jtag_ir

Selects(t, insn, state) == t.latched_jtag_ir = insn /\ t.fsm = state

IdcodeAfter(t, tdi, trst) ==
    IF \/ trst \/ t.fsm = "TEST_LOGIC_RESET"
       \/ Selects(t, InsnIdcode, "CAPTURE_DR")
      THEN IdcodeValue
    ELSE IF Selects(t, InsnIdcode, "SHIFT_DR") THEN Shifted(t.idcode_reg, tdi)
    ELSE t.idcode_reg

BypassAfter(t, tdi, trst) ==
    IF \/ trst \/ t.fsm = "TEST_LOGIC_RESET"
       \/ Selects(t, InsnBypass, "CAPTURE_DR")
      THEN 0
    ELSE IF Selects(t, InsnBypass, "SHIFT_DR") THEN tdi
    ELSE t.bypass_reg

\* Mutant of TdoMux: the instruction leaves from its other end.
TdoMuxLast(t) ==
    CASE t.fsm = "SHIFT_IR"                                        -> t.jtag_ir[Len(t.jtag_ir)]
      [] t.fsm # "SHIFT_IR" /\ t.latched_jtag_ir = InsnIdcode      -> Head(t.idcode_reg)
      [] t.fsm # "SHIFT_IR" /\ t.latched_jtag_ir \in InsnOther     -> 0
      [] OTHER                                                     -> t.bypass_reg

\* tdo_mux: the bit TDO takes on the next falling edge
TdoMux(t) ==
    CASE t.fsm = "SHIFT_IR"                                        -> Head(t.jtag_ir)
      [] t.fsm # "SHIFT_IR" /\ t.latched_jtag_ir = InsnIdcode      -> Head(t.idcode_reg)
      [] t.fsm # "SHIFT_IR" /\ t.latched_jtag_ir \in InsnOther     -> 0
      [] OTHER                                                     -> t.bypass_reg

RisingEdge(t, tms, tdi, trst) ==
    [t EXCEPT !.fsm        = FsmAfter(t, tms, trst),
              !.tms_q      = <<tms>> \o SubSeq(t.tms_q, 1, 3),
              !.jtag_ir    = InsnRegAfter(t, tdi, trst),
              !.idcode_reg = IdcodeAfter(t, tdi, trst),
              !.bypass_reg = BypassAfter(t, tdi, trst)]

LatchedInsnAfter(t, trst) ==
    IF trst \/ t.fsm = "TEST_LOGIC_RESET" THEN InsnIdcode
    ELSE IF t.fsm = "UPDATE_IR" THEN t.jtag_ir
    ELSE t.latched_jtag_ir

FallingEdge(t, trst) ==
    [t EXCEPT !.tdo = TdoMux(t), !.latched_jtag_ir = LatchedInsnAfter(t, trst)]

\* The port after its pins go from the values of was to those of now
TapAfter(t, was, now, trst) ==
    IF was.tck = 0 /\ now.tck = 1 THEN RisingEdge(t, now.tms, now.tdi, trst)
    ELSE IF was.tck = 1 /\ now.tck = 0 THEN FallingEdge(t, trst)
    ELSE t

\* The registers of a 2-state simulation at time 0, with the controller in state s
PowerUpTap(s) ==
    [fsm |-> s, tms_q |-> <<0, 0, 0, 0>>,
     jtag_ir |-> [k \in DOMAIN InsnCapture |-> 0],
     latched_jtag_ir |-> [k \in DOMAIN InsnCapture |-> 0],
     idcode_reg |-> [k \in DOMAIN IdcodeValue |-> 0], bypass_reg |-> 0, tdo |-> 0]
=============================================================================
