------------------------- MODULE RemoteBitbangProps -------------------------
(***************************************************************************)
(* What must hold of the remote JTAG probe: it is the probe that JtagProbe *)
(* promises until a client is lost, it never stops the simulator of a      *)
(* client that behaves, the port can always be brought to reset, and a     *)
(* waiting client gets its answers.                                        *)
(***************************************************************************)
EXTENDS RemoteBitbang

\* The types of all variables of the server, the simulation and the client.
TypeOK ==
    /\ main_time \in Bit /\ clk \in Bit
    /\ tick_counter \in 0 .. TckPeriod - 1 /\ reset_left \in 0 .. ResetClocks
    /\ wires \in Pins /\ pins \in Pins
    /\ tap \in TapRegisters /\ Len(tap.idcode_reg) = Len(IdcodeValue)
    /\ Len(tap.jtag_ir) = Len(InsnCapture) /\ Len(tap.latched_jtag_ir) = Len(InsnCapture)
    /\ pc \in Places /\ tdo \in Bit /\ reply_char \in Bit
    /\ quit_request \in BOOLEAN /\ connected \in BOOLEAN /\ vanished \in BOOLEAN
    /\ client \in {"off", "on", "quit", "gone"}
    /\ to_server \in Seq(Commands) /\ Len(to_server) <= Window
    /\ to_client \in Seq(Bit) /\ Len(to_client) <= ReplyRoom
    /\ sent \in 0 .. MaxBytes /\ sessions \in 0 .. MaxSessions /\ stray \in 0 .. MaxStray
    /\ last_pin \in DOMAIN SetPins

\* The server aborts the simulator only after a client went away: an answer always
\* finds room, for every question is answered once and only questions are.
AbortsOnlyWhenLost == pc = "aborted" => vanished

\* After four rising edges of TCK with TMS = 1 the controller is in Test-Logic-Reset
\* or one edge from it, whatever state the simulation started from: OpenOCD's way to
\* find the port.  The duplicate reset (tms_reset) is never what brings it there.
FourOnesReachReset ==
    (\A k \in 1 .. 4 : tap.tms_q[k] = 1) => tap.fsm \in {"SELECT_IR_SCAN", "TEST_LOGIC_RESET"}

\* A client that waits for an answer gets it, unless its session ends first: the
\* thread never waits for the client while the client waits for the thread.
AnswerComes ==
    (client = "on" /\ Owed > 0) ~> (Owed = 0 \/ client # "on" \/ pc = "aborted")

\* A tick that finds no command leaves the JTAG pins alone, as the comment in
\* execute_oocd_command says: "We do NOT wait here, but we also do NOT change `tck`,
\* so JTAG is inactive".
InactiveWithoutCommand == [][to_server = <<>> /\ pc = "read" => wires' = wires]_vars

-----------------------------------------------------------------------------
(* The refinement *)

\* The standard's name of each controller state
Standard ==
    [TEST_LOGIC_RESET |-> <<"Test", "Reset">>, RUN_TEST_IDLE |-> <<"Test", "Idle">>,
     SELECT_DR_SCAN |-> <<"DR", "Select">>, CAPTURE_DR |-> <<"DR", "Capture">>,
     SHIFT_DR |-> <<"DR", "Shift">>, EXIT1_DR |-> <<"DR", "Exit1">>,
     PAUSE_DR |-> <<"DR", "Pause">>, EXIT2_DR |-> <<"DR", "Exit2">>,
     UPDATE_DR |-> <<"DR", "Update">>, SELECT_IR_SCAN |-> <<"IR", "Select">>,
     CAPTURE_IR |-> <<"IR", "Capture">>, SHIFT_IR |-> <<"IR", "Shift">>,
     EXIT1_IR |-> <<"IR", "Exit1">>, PAUSE_IR |-> <<"IR", "Pause">>,
     EXIT2_IR |-> <<"IR", "Exit2">>, UPDATE_IR |-> <<"IR", "Update">>]

\* The register in the scan path
ScanRegister(t) ==
    LET state == Standard[t.fsm]
    IN  IF state[2] \notin {"Shift", "Exit1", "Pause", "Exit2", "Update"} THEN <<>>
        ELSE IF state[1] = "IR" THEN t.jtag_ir
        ELSE IF t.latched_jtag_ir = InsnIdcode THEN t.idcode_reg
        ELSE IF t.latched_jtag_ir = InsnBypass THEN <<t.bypass_reg>>
        ELSE <<>>

\* The standard's port that the code's registers stand for
Device(t) ==
    [state |-> Standard[t.fsm], insn |-> t.latched_jtag_ir, scan |-> ScanRegister(t)]

Probe == INSTANCE JtagProbe WITH
    Bytes <- Commands, PinsOf <- SetPins,
    queue <- to_server,
    answers <- IF pc = "reply" THEN Append(to_client, reply_char) ELSE to_client,
    level <- wires,
    device <- Device(tap),
    open <- connected /\ ~(pc = "reply" /\ quit_request),
    quit <- quit_request,
    lost <- vanished

\* The server, the simulation and the code's port together are the probe of JtagProbe,
\* until a client is lost: each command once and in order, each question answered with
\* the bit that the port shows after the commands before it, on a port that is the
\* standard's; and a session that starts after a quit executes one command only.
ServesProbe == Probe!Spec
=============================================================================
