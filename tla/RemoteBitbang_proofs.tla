------------------------ MODULE RemoteBitbang_proofs ------------------------
(***************************************************************************)
(* The remote JTAG probe, for every instruction set, IDCODE, clock ratio   *)
(* and length of the queues, and from every power-up state: its variables  *)
(* keep their types, only a lost client aborts the simulator, four clocks  *)
(* of TMS = 1 find the port, and until a client is lost the server is the  *)
(* probe that JtagProbe promises.                                          *)
(***************************************************************************)
EXTENDS RemoteBitbangProps, FiniteSetTheorems, FunctionTheorems, SequenceTheorems, TLAPS

-----------------------------------------------------------------------------
(* The registers of the test access port *)

\* The registers have their types and their widths.
TapOK(t) ==
    /\ t \in TapRegisters
    /\ Len(t.idcode_reg) = Len(IdcodeValue)
    /\ Len(t.jtag_ir) = Len(InsnCapture) /\ Len(t.latched_jtag_ir) = Len(InsnCapture)

\* Where the controller may be when TMS was 1 on the last j rising edges
AfterOnes ==
    <<{"TEST_LOGIC_RESET", "SELECT_DR_SCAN", "EXIT1_DR", "UPDATE_DR", "EXIT2_DR",
       "SELECT_IR_SCAN", "EXIT1_IR", "EXIT2_IR", "UPDATE_IR"},
      {"TEST_LOGIC_RESET", "SELECT_IR_SCAN", "UPDATE_DR", "SELECT_DR_SCAN", "UPDATE_IR"},
      {"TEST_LOGIC_RESET", "SELECT_IR_SCAN", "SELECT_DR_SCAN"},
      {"TEST_LOGIC_RESET", "SELECT_IR_SCAN"}>>

OnesLead(t) ==
    \A j \in 1 .. 4 : (\A k \in 1 .. j : t.tms_q[k] = 1) => t.fsm \in AfterOnes[j]

\* Every pin command gives the three pins a value.
LEMMA SetPinsType ==
  /\ DOMAIN SetPins = {"0", "1", "2", "3", "4", "5", "6", "7"}
  /\ \A c \in DOMAIN SetPins : SetPins[c] \in Pins
<1> DEFINE Digits == {"0", "1", "2", "3", "4", "5", "6", "7"}
<1>1. DOMAIN SetPins = Digits
  BY DEF SetPins
<1>2. ASSUME NEW c \in Digits PROVE SetPins[c] \in Pins
  BY DEF SetPins, Pins, Bit
<1> QED BY <1>1, <1>2

\* A shift keeps the width of a register.
LEMMA ShiftedType ==
  ASSUME NEW reg \in Seq(Bit), Len(reg) > 0, NEW tdi \in Bit
  PROVE  Shifted(reg, tdi) \in Seq(Bit) /\ Len(Shifted(reg, tdi)) = Len(reg)
<1>1. reg # <<>>
  OBVIOUS
<1>2. Tail(reg) \in Seq(Bit) /\ Len(Tail(reg)) = Len(reg) - 1
  BY <1>1, HeadTailProperties
<1>3. Append(Tail(reg), tdi) \in Seq(Bit) /\ Len(Append(Tail(reg), tdi)) = Len(Tail(reg)) + 1
  BY <1>2, AppendProperties
<1> QED BY <1>2, <1>3, LenProperties DEF Shifted

\* The widths of the registers.
LEMMA Widths ==
  /\ InsnCapture \in Seq(Bit) /\ InsnIdcode \in Seq(Bit) /\ InsnBypass \in Seq(Bit)
  /\ IdcodeValue \in Seq(Bit)
  /\ Len(InsnCapture) \in Nat /\ Len(InsnCapture) > 0
  /\ Len(IdcodeValue) \in Nat /\ Len(IdcodeValue) > 0
  /\ Len(InsnIdcode) = Len(InsnCapture)
<1>1. /\ InsnCapture \in Seq(Bit) /\ InsnIdcode \in Seq(Bit) /\ InsnBypass \in Seq(Bit)
      /\ IdcodeValue \in Seq(Bit) /\ InsnCapture # <<>> /\ IdcodeValue # <<>>
      /\ Len(InsnIdcode) = Len(InsnCapture)
  BY TapAssumption
<1> QED BY <1>1, LenProperties, EmptySeq

\* A register of zeros.
LEMMA ZerosType ==
  ASSUME NEW s \in Seq(Bit)
  PROVE  [k \in DOMAIN s |-> 0] \in Seq(Bit) /\ Len([k \in DOMAIN s |-> 0]) = Len(s)
<1>1. Len(s) \in Nat /\ DOMAIN s = 1 .. Len(s)
  BY LenProperties
<1>2. [k \in 1 .. Len(s) |-> 0] \in Seq(Bit)
  BY <1>1, IsASeq DEF Bit
<1> QED BY <1>1, <1>2, LenProperties

\* The controller goes from state to state.
LEMMA FsmType ==
  ASSUME NEW s \in TapStates, NEW tms \in Bit
  PROVE  NextStates[s][tms + 1] \in TapStates
  BY DEF TapStates, Bit, NextStates

\* A rising edge keeps the types.
LEMMA RisingType ==
  ASSUME NEW t, TapOK(t), NEW tms \in Bit, NEW tdi \in Bit, NEW trst \in BOOLEAN
  PROVE  TapOK(RisingEdge(t, tms, tdi, trst))
<1>1. /\ t.fsm \in TapStates /\ t.tms_q \in [1 .. 4 -> Bit] /\ t.bypass_reg \in Bit /\ t.tdo \in Bit
      /\ t.jtag_ir \in Seq(Bit) /\ Len(t.jtag_ir) = Len(InsnCapture)
      /\ t.latched_jtag_ir \in Seq(Bit) /\ Len(t.latched_jtag_ir) = Len(InsnCapture)
      /\ t.idcode_reg \in Seq(Bit) /\ Len(t.idcode_reg) = Len(IdcodeValue)
  BY DEF TapOK, TapRegisters
<1>2. FsmAfter(t, tms, trst) \in TapStates
  BY <1>1, FsmType DEF FsmAfter, TapStates
<1>3. <<tms>> \o SubSeq(t.tms_q, 1, 3) \in [1 .. 4 -> Bit]
  <2>1. t.tms_q \in Seq(Bit) /\ Len(t.tms_q) = 4
    <3>1. [k \in 1 .. 4 |-> t.tms_q[k]] \in Seq(Bit)
      BY <1>1
    <3>2. t.tms_q = [k \in 1 .. 4 |-> t.tms_q[k]]
      BY <1>1
    <3>3. DOMAIN t.tms_q = 1 .. 4
      BY <1>1
    <3> QED BY <3>1, <3>2, <3>3, LenProperties
  <2>2. SubSeq(t.tms_q, 1, 3) \in Seq(Bit) /\ Len(SubSeq(t.tms_q, 1, 3)) = 3
    BY <2>1, SubSeqProperties
  <2>3. <<tms>> \in Seq(Bit) /\ Len(<<tms>>) = 1
    OBVIOUS
  <2> DEFINE q == <<tms>> \o SubSeq(t.tms_q, 1, 3)
  <2>4. q \in Seq(Bit) /\ Len(q) = 4
    BY <2>2, <2>3, ConcatProperties
  <2> HIDE DEF q
  <2>5. q \in [1 .. 4 -> Bit]
    BY <2>4
  <2> QED BY <2>5 DEF q
<1>4. InsnRegAfter(t, tdi, trst) \in Seq(Bit) /\ Len(InsnRegAfter(t, tdi, trst)) = Len(InsnCapture)
  <2>1. Shifted(t.jtag_ir, tdi) \in Seq(Bit) /\ Len(Shifted(t.jtag_ir, tdi)) = Len(InsnCapture)
    BY <1>1, Widths, ShiftedType
  <2>2. /\ [k \in DOMAIN InsnCapture |-> 0] \in Seq(Bit)
        /\ Len([k \in DOMAIN InsnCapture |-> 0]) = Len(InsnCapture)
    BY Widths, ZerosType
  <2> QED BY <1>1, <2>1, <2>2, Widths DEF InsnRegAfter
<1>5. IdcodeAfter(t, tdi, trst) \in Seq(Bit) /\ Len(IdcodeAfter(t, tdi, trst)) = Len(IdcodeValue)
  <2>1. Shifted(t.idcode_reg, tdi) \in Seq(Bit) /\ Len(Shifted(t.idcode_reg, tdi)) = Len(IdcodeValue)
    BY <1>1, Widths, ShiftedType
  <2> QED BY <1>1, <2>1, Widths DEF IdcodeAfter
<1>6. BypassAfter(t, tdi, trst) \in Bit
  BY <1>1 DEF BypassAfter, Bit
<1> HIDE DEF TapRegisters
<1>7. t \in TapRegisters
  BY DEF TapOK
<1> QED BY <1>1, <1>2, <1>3, <1>4, <1>5, <1>6, <1>7 DEF RisingEdge, TapOK, TapRegisters

\* A falling edge keeps the types.
LEMMA FallingType ==
  ASSUME NEW t, TapOK(t), NEW trst \in BOOLEAN
  PROVE  TapOK(FallingEdge(t, trst))
<1>1. /\ t.fsm \in TapStates /\ t.tms_q \in [1 .. 4 -> Bit] /\ t.bypass_reg \in Bit /\ t.tdo \in Bit
      /\ t.jtag_ir \in Seq(Bit) /\ Len(t.jtag_ir) = Len(InsnCapture)
      /\ t.latched_jtag_ir \in Seq(Bit) /\ Len(t.latched_jtag_ir) = Len(InsnCapture)
      /\ t.idcode_reg \in Seq(Bit) /\ Len(t.idcode_reg) = Len(IdcodeValue)
      /\ t \in TapRegisters
  BY DEF TapOK, TapRegisters
<1>2. Head(t.jtag_ir) \in Bit /\ Head(t.idcode_reg) \in Bit
  <2>1. t.jtag_ir # <<>> /\ t.idcode_reg # <<>>
    BY <1>1, Widths, EmptySeq
  <2> QED BY <1>1, <2>1, HeadTailProperties
<1>3. TdoMux(t) \in Bit
  BY <1>1, <1>2, TapAssumption DEF TdoMux, Bit
<1>4. LatchedInsnAfter(t, trst) \in Seq(Bit) /\ Len(LatchedInsnAfter(t, trst)) = Len(InsnCapture)
  BY <1>1, Widths DEF LatchedInsnAfter
<1> QED BY <1>1, <1>3, <1>4 DEF FallingEdge, TapOK, TapRegisters

\* The port's registers keep their types whatever its pins do.
LEMMA TapType ==
  ASSUME NEW t, TapOK(t), NEW was \in Pins, NEW now \in Pins, NEW trst \in BOOLEAN
  PROVE  TapOK(TapAfter(t, was, now, trst))
<1>1. now.tms \in Bit /\ now.tdi \in Bit
  BY DEF Pins
<1> QED BY <1>1, RisingType, FallingType DEF TapAfter

\* Without an edge of TCK nothing happens.
LEMMA TapIdles ==
  ASSUME NEW t, NEW now, NEW trst \in BOOLEAN
  PROVE  TapAfter(t, now, now, trst) = t
<1>1. ~(now.tck = 0 /\ now.tck = 1)
  OBVIOUS
<1> QED BY <1>1 DEF TapAfter

\* What TMS leads to: the induction behind FourOnesReachReset.
LEMMA RisingLeads ==
  ASSUME NEW t, TapOK(t), OnesLead(t), NEW tms \in Bit, NEW tdi, NEW trst \in BOOLEAN
  PROVE  OnesLead(RisingEdge(t, tms, tdi, trst))
<1> DEFINE q == <<tms>> \o SubSeq(t.tms_q, 1, 3)
           f == FsmAfter(t, tms, trst)
<1>1. t \in TapRegisters /\ t.fsm \in TapStates /\ t.tms_q \in [1 .. 4 -> Bit]
  BY DEF TapOK, TapRegisters
<1>2. RisingEdge(t, tms, tdi, trst).fsm = f /\ RisingEdge(t, tms, tdi, trst).tms_q = q
  BY <1>1 DEF RisingEdge, TapRegisters
<1>3. q[1] = tms /\ q[2] = t.tms_q[1] /\ q[3] = t.tms_q[2] /\ q[4] = t.tms_q[3]
  BY <1>1
<1>4. SUFFICES ASSUME NEW j \in 1 .. 4, \A k \in 1 .. j : q[k] = 1
               PROVE  f \in AfterOnes[j]
  BY <1>2 DEF OnesLead
<1>5. tms = 1
  BY <1>3, <1>4
<1>6. f = "TEST_LOGIC_RESET" \/ f = NextStates[t.fsm][2]
  BY <1>5 DEF FsmAfter
<1>7. CASE j = 1
  BY <1>1, <1>6, <1>7 DEF NextStates, TapStates, AfterOnes
<1>8. ASSUME j # 1 PROVE t.fsm \in AfterOnes[j - 1]
  <2>1. j - 1 \in 1 .. 4 /\ \A k \in 1 .. (j - 1) : t.tms_q[k] = 1
    <3>1. ASSUME NEW k \in 1 .. (j - 1) PROVE t.tms_q[k] = 1
      <4>1. k + 1 \in 1 .. j /\ k \in 1 .. 3
        OBVIOUS
      <4>2. q[k + 1] = t.tms_q[k]
        BY <1>3, <4>1
      <4> QED BY <1>4, <4>1, <4>2
    <3> QED BY <1>8, <3>1
  <2> QED BY <2>1 DEF OnesLead
<1>9. CASE j = 2
  BY <1>6, <1>8, <1>9 DEF NextStates, AfterOnes
<1>10. CASE j = 3
  BY <1>6, <1>8, <1>10 DEF NextStates, AfterOnes
<1>11. CASE j = 4
  BY <1>6, <1>8, <1>11 DEF NextStates, AfterOnes
<1> QED BY <1>7, <1>9, <1>10, <1>11

\* An edge of TCK, either one, or a reset keeps where ones have led the port.
LEMMA TapLeads ==
  ASSUME NEW t, TapOK(t), OnesLead(t), NEW was \in Pins, NEW now \in Pins, NEW trst \in BOOLEAN
  PROVE  OnesLead(TapAfter(t, was, now, trst))
<1>1. now.tms \in Bit /\ t \in TapRegisters
  BY DEF Pins, TapOK
<1>2. OnesLead(FallingEdge(t, trst))
  <2>1. FallingEdge(t, trst).fsm = t.fsm /\ FallingEdge(t, trst).tms_q = t.tms_q
    BY <1>1 DEF FallingEdge, TapRegisters
  <2> QED BY <2>1 DEF OnesLead
<1> QED BY <1>1, <1>2, RisingLeads DEF TapAfter

-----------------------------------------------------------------------------
(* The questions among the commands *)

Asked(s) == Cardinality({k \in DOMAIN s : s[k] = "R"})

\* The places of the questions, and their number.
LEMMA AskedType ==
  ASSUME NEW S, NEW s \in Seq(S)
  PROVE  /\ IsFiniteSet({k \in DOMAIN s : s[k] = "R"})
         /\ Asked(s) \in Nat
<1> DEFINE at == {k \in DOMAIN s : s[k] = "R"}
<1>1. at \subseteq 1 .. Len(s) /\ Len(s) \in Nat
  BY LenProperties
<1>0. IsFiniteSet(1 .. Len(s))
  BY <1>1, FS_Interval
<1>2. IsFiniteSet(at)
  BY <1>1, <1>0, FS_Subset
<1>3. Cardinality(at) \in Nat
  BY <1>2, FS_CardinalityType
<1> QED BY <1>2, <1>3 DEF Asked

\* Without commands there is no question.
LEMMA NothingAsked == Asked(<<>>) = 0
<1>1. {k \in DOMAIN <<>> : <<>>[k] = "R"} = {}
  OBVIOUS
<1> QED BY <1>1, FS_EmptySet DEF Asked

\* A command sent may be a question.
LEMMA AskedAppend ==
  ASSUME NEW S, NEW s \in Seq(S), NEW c \in S
  PROVE  Asked(Append(s, c)) = Asked(s) + (IF c = "R" THEN 1 ELSE 0)
<1> DEFINE n == Len(s) + 1
           at == {k \in DOMAIN s : s[k] = "R"}
           later == {k \in DOMAIN Append(s, c) : Append(s, c)[k] = "R"}
<1>1. /\ n \in Nat /\ DOMAIN s = 1 .. (n - 1) /\ DOMAIN Append(s, c) = 1 .. n
      /\ Append(s, c)[n] = c /\ \A k \in 1 .. (n - 1) : Append(s, c)[k] = s[k]
  BY LenProperties, AppendProperties
<1>2. IsFiniteSet(at) /\ n \notin at /\ Cardinality(at) \in Nat
  BY <1>1, AskedType DEF Asked
<1>3. CASE c = "R"
  <2>1. later = at \cup {n}
    BY <1>1, <1>3
  <2> HIDE DEF at, later, n
  <2>2. Cardinality(at \cup {n}) = Cardinality(at) + 1
    BY <1>2, FS_AddElement
  <2> QED BY <2>1, <2>2, <1>3 DEF Asked, at, later
<1>4. CASE c # "R"
  <2>1. later = at
    BY <1>1, <1>4
  <2>2. Asked(Append(s, c)) = Asked(s) /\ Asked(s) \in Nat
    BY <2>1, <1>2 DEF Asked
  <2> QED BY <2>2, <1>4
<1> QED BY <1>3, <1>4

\* The command taken may be a question.
LEMMA AskedTail ==
  ASSUME NEW S, NEW s \in Seq(S), s # <<>>
  PROVE  Asked(s) = Asked(Tail(s)) + (IF Head(s) = "R" THEN 1 ELSE 0)
<1> DEFINE n == Len(s)
           at == {k \in DOMAIN s : s[k] = "R"}
           later == {k \in DOMAIN Tail(s) : Tail(s)[k] = "R"}
           rest == at \ {1}
<1>1. /\ n \in Nat \ {0} /\ DOMAIN s = 1 .. n /\ Tail(s) \in Seq(S) /\ Len(Tail(s)) = n - 1
      /\ DOMAIN Tail(s) = 1 .. (n - 1) /\ Head(s) = s[1]
      /\ \A k \in 1 .. (n - 1) : Tail(s)[k] = s[k + 1]
  BY LenProperties, HeadTailProperties
<1>2. IsFiniteSet(at) /\ Cardinality(at) \in Nat /\ IsFiniteSet(later) /\ Cardinality(later) \in Nat
  BY <1>1, AskedType DEF Asked
<1>3. Cardinality(later) = Cardinality(rest)
  <2> DEFINE up == [k \in later |-> k + 1]
  <2>1. up \in Bijection(later, rest)
    <3>1. \A k \in later : up[k] \in rest
      BY <1>1
    <3>2. \A j, k \in later : up[j] = up[k] => j = k
      BY <1>1
    <3>3. \A i \in rest : \E k \in later : up[k] = i
      <4> TAKE i \in rest
      <4>1. i - 1 \in 1 .. (n - 1) /\ (i - 1) + 1 = i /\ s[i] = "R"
        BY <1>1
      <4>2. i - 1 \in later
        BY <1>1, <4>1
      <4> QED BY <4>1, <4>2
    <3>4. up \in [later -> rest]
      BY <3>1
    <3> HIDE DEF up, later, rest
    <3> QED BY <3>2, <3>3, <3>4, Fun_IsBij
  <2> HIDE DEF up, later, rest
  <2>2. ExistsBijection(later, rest)
    BY <2>1 DEF ExistsBijection
  <2> QED BY <2>2, <1>2, FS_Bijection
<1>4. Cardinality(rest) = IF 1 \in at THEN Cardinality(at) - 1 ELSE Cardinality(at)
  BY <1>2, FS_RemoveElement
<1>5. 1 \in at <=> Head(s) = "R"
  BY <1>1
<1>6. Asked(s) = Cardinality(at) /\ Asked(Tail(s)) = Cardinality(later)
  BY DEF Asked
<1> HIDE DEF at, later, rest
<1> QED BY <1>2, <1>3, <1>4, <1>5, <1>6

-----------------------------------------------------------------------------
(* Types, and where the controller may be *)

ClockOK ==
    /\ main_time \in Bit /\ clk \in Bit
    /\ tick_counter \in 0 .. TckPeriod - 1 /\ reset_left \in 0 .. ResetClocks

PortOK == wires \in Pins /\ TapOK(tap) /\ OnesLead(tap)

ServerTypeOK ==
    /\ pins \in Pins /\ pc \in Places /\ tdo \in Bit /\ reply_char \in Bit
    /\ quit_request \in BOOLEAN /\ connected \in BOOLEAN

ClientOK ==
    /\ vanished \in BOOLEAN /\ client \in {"off", "on", "quit", "gone"}
    /\ sent \in 0 .. MaxBytes /\ sessions \in 0 .. MaxSessions /\ last_pin \in DOMAIN SetPins

ChannelsOK ==
    /\ to_server \in Seq(Commands) /\ Len(to_server) <= Window
    /\ to_client \in Seq(Bit) /\ Len(to_client) <= ReplyRoom

TypeInv ==
    /\ ClockOK /\ PortOK /\ ServerTypeOK /\ ClientOK /\ ChannelsOK
    /\ stray \in 0 .. MaxStray

\* The parts are TypeOK and the place of the controller.
LEMMA TypeParts == TypeInv <=> TypeOK /\ OnesLead(tap)
  BY DEF TypeInv, ClockOK, PortOK, ServerTypeOK, ClientOK, ChannelsOK, TypeOK, TapOK

\* The end of a tick.
LEMMA ReturnType ==
  ASSUME TypeInv, NEW now \in Pins, NEW first \in BOOLEAN, ReturnWith(now, first)
  PROVE  ClockOK' /\ PortOK'
<1>1. PICK trst \in BOOLEAN : tap' = TapAfter(tap, wires, now, trst)
  BY DEF ReturnWith
<1>2. TapOK(tap) /\ OnesLead(tap) /\ wires \in Pins
  BY DEF TypeInv, PortOK
<1>3. TapOK(tap') /\ OnesLead(tap')
  BY <1>1, <1>2, TapType, TapLeads
<1>4. PortOK'
  <2>1. wires' \in Pins
    BY DEF ReturnWith
  <2>2. TapOK(tap)' /\ OnesLead(tap)'
    BY <1>3 DEF TapOK, OnesLead
  <2> QED BY <2>1, <2>2 DEF PortOK
<1> QED BY <1>4 DEF ReturnWith, TypeInv, ClockOK

\* The end of a command.
LEMMA FinishType ==
  ASSUME TypeInv, NEW quit \in BOOLEAN, NEW rest \in Seq(Commands), Len(rest) <= Window,
         NEW answers \in Seq(Bit), Len(answers) <= ReplyRoom, NEW now \in Pins,
         FinishCommand(quit, rest, answers, now)
  PROVE  ClockOK' /\ PortOK' /\ ClientOK' /\ ChannelsOK' /\ pc' = "sim" /\ connected' \in BOOLEAN
<1>1. ClockOK' /\ PortOK'
  BY ReturnType DEF FinishCommand
<1>2. CASE quit
  <2>1. /\ connected' = FALSE /\ client' = "off" /\ last_pin' = "7"
        /\ to_server' = <<>> /\ to_client' = <<>>
        /\ UNCHANGED <<sent, sessions, vanished>>
    BY <1>2 DEF FinishCommand, Closed
  <2>2. ChannelsOK'
    BY <2>1, BitbangAssumption DEF ChannelsOK
  <2>3. ClientOK'
    BY <2>1, SetPinsType DEF TypeInv, ClientOK
  <2> QED BY <1>1, <2>1, <2>2, <2>3 DEF FinishCommand
<1>3. CASE ~quit
  <2>1. to_server' = rest /\ to_client' = answers /\ UNCHANGED <<connected, clientVars>>
    BY <1>3 DEF FinishCommand
  <2>2. ChannelsOK'
    BY <2>1 DEF ChannelsOK
  <2>3. ClientOK' /\ connected' \in BOOLEAN
    BY <2>1 DEF TypeInv, ClientOK, clientVars, ServerTypeOK
  <2> QED BY <1>1, <2>2, <2>3 DEF FinishCommand
<1> QED BY <1>2, <1>3

\* A command.
LEMMA ExecuteType ==
  ASSUME TypeInv, NEW c \in Commands, NEW rest \in Seq(Commands), Len(rest) <= Window,
         Execute(c, rest)
  PROVE  ClockOK' /\ PortOK' /\ ServerTypeOK' /\ ClientOK' /\ ChannelsOK'
<1> DEFINE now == IF c \in DOMAIN SetPins THEN SetPins[c] ELSE pins
<1>1. now \in Pins
  BY SetPinsType DEF TypeInv, ServerTypeOK
<1>2. /\ pins' = now /\ quit_request' = (quit_request \/ c = "Q") /\ tdo' = tdo
      /\ quit_request' \in BOOLEAN
  BY DEF Execute, TypeInv, ServerTypeOK
<1>3. CASE c = "R"
  <2>1. /\ pc' = "reply" /\ reply_char' = tdo /\ to_server' = rest
        /\ UNCHANGED <<simVars, connected, clientVars, to_client>>
    BY <1>3 DEF Execute
  <2>2. ClockOK' /\ wires' = wires /\ tap' = tap
    BY <2>1 DEF TypeInv, ClockOK, simVars
  <2>3. PortOK'
    BY <2>2 DEF TypeInv, PortOK, TapOK, OnesLead
  <2>4. ServerTypeOK'
    BY <2>1, <1>1, <1>2 DEF TypeInv, ServerTypeOK, Places
  <2>5. ClientOK' /\ ChannelsOK'
    BY <2>1 DEF TypeInv, ClientOK, ChannelsOK, clientVars
  <2> QED BY <2>2, <2>3, <2>4, <2>5
<1>4. CASE c # "R"
  <2>1. FinishCommand(quit_request', rest, to_client, now) /\ reply_char' = reply_char
    BY <1>4 DEF Execute
  <2>2. to_client \in Seq(Bit) /\ Len(to_client) <= ReplyRoom
    BY DEF TypeInv, ChannelsOK
  <2> HIDE DEF now
  <2>3. ClockOK' /\ PortOK' /\ ClientOK' /\ ChannelsOK' /\ pc' = "sim" /\ connected' \in BOOLEAN
    BY <1>1, <1>2, <2>1, <2>2, FinishType
  <2>4. ServerTypeOK'
    BY <1>1, <1>2, <2>1, <2>3 DEF TypeInv, ServerTypeOK, Places
  <2> QED BY <2>3, <2>4
<1> QED BY <1>3, <1>4

\* A clock of the simulation.
LEMMA SimType ==
  ASSUME TypeInv, SimChangeClk
  PROVE  ClockOK' /\ ServerTypeOK'
<1>1. /\ main_time' \in Bit /\ clk' \in Bit
  BY DEF SimChangeClk, TypeInv, ClockOK, Bit
<1>2. tick_counter' \in 0 .. TckPeriod - 1 /\ reset_left' \in 0 .. ResetClocks
  <2>1. /\ tick_counter \in 0 .. TckPeriod - 1 /\ reset_left \in 0 .. ResetClocks
        /\ TckPeriod \in Nat \ {0} /\ ResetClocks \in Nat \ {0}
    BY BitbangAssumption DEF TypeInv, ClockOK
  <2>2. (tick_counter + 1) % TckPeriod \in 0 .. TckPeriod - 1
    BY <2>1
  <2>3. \/ UNCHANGED <<tick_counter, reset_left>>
        \/ reset_left > 0 /\ reset_left' = reset_left - 1 /\ tick_counter' = 0
        \/ tick_counter' = (tick_counter + 1) % TckPeriod /\ reset_left' = reset_left
    BY DEF SimChangeClk, PosedgeClk
  <2> QED BY <2>1, <2>2, <2>3
<1>3. pc' \in Places /\ tdo' \in Bit
  BY DEF SimChangeClk, PosedgeClk, Tick, TypeInv, ServerTypeOK, Places, PortOK, TapOK, TapRegisters
<1> QED BY <1>1, <1>2, <1>3 DEF SimChangeClk, TypeInv, ClockOK, ServerTypeOK

\* What a step leaves alone keeps its type.
LEMMA UnchangedType ==
  ASSUME TypeInv
  PROVE  /\ UNCHANGED <<main_time, clk, tick_counter, reset_left>> => ClockOK'
         /\ UNCHANGED <<wires, tap>> => PortOK'
         /\ UNCHANGED serverVars => ServerTypeOK'
         /\ UNCHANGED clientVars => ClientOK'
         /\ UNCHANGED channels => ChannelsOK'
         /\ UNCHANGED stray => (stray \in 0 .. MaxStray)'
<1>1. UNCHANGED <<wires, tap>> => PortOK'
  BY DEF TypeInv, PortOK, TapOK, OnesLead
<1>2. /\ UNCHANGED <<main_time, clk, tick_counter, reset_left>> => ClockOK'
      /\ UNCHANGED stray => (stray \in 0 .. MaxStray)'
  BY DEF TypeInv, ClockOK
<1>3. /\ UNCHANGED serverVars => ServerTypeOK'
      /\ UNCHANGED clientVars => ClientOK'
      /\ UNCHANGED channels => ChannelsOK'
  BY DEF TypeInv, ServerTypeOK, ClientOK, ChannelsOK, serverVars, clientVars, channels
<1> QED BY <1>1, <1>2, <1>3

\* Every step keeps the types.
LEMMA TypeStep ==
  ASSUME TypeInv, [Next]_vars
  PROVE  TypeInv'
<1>1. CASE SimChangeClk
  BY <1>1, SimType, UnchangedType DEF SimChangeClk, TypeInv, channels, clientVars
<1>2. CASE AcceptOocd
  <2>1. ClockOK' /\ PortOK'
    <3>1. pins \in Pins /\ (sessions = 1) \in BOOLEAN /\ ReturnWith(pins, sessions = 1)
      BY <1>2 DEF AcceptOocd, TypeInv, ServerTypeOK
    <3> QED BY <3>1, ReturnType
  <2>2. ServerTypeOK'
    BY <1>2 DEF AcceptOocd, TypeInv, ServerTypeOK, Places
  <2>3. ClientOK' /\ ChannelsOK' /\ (stray \in 0 .. MaxStray)'
    BY <1>2, UnchangedType DEF AcceptOocd
  <2> QED BY <2>1, <2>2, <2>3 DEF TypeInv
<1>3. CASE ReadCommand
  <2>1. /\ to_server \in Seq(Commands) /\ to_server # <<>> /\ Len(to_server) <= Window
        /\ Execute(Head(to_server), Tail(to_server)) /\ UNCHANGED stray
    BY <1>3 DEF ReadCommand, TypeInv, ChannelsOK
  <2>2. /\ Head(to_server) \in Commands /\ Tail(to_server) \in Seq(Commands)
        /\ Len(Tail(to_server)) <= Window
    BY <2>1, HeadTailProperties, BitbangAssumption, LenProperties
  <2> QED BY <2>1, <2>2, ExecuteType, UnchangedType DEF TypeInv
<1>4. CASE ReadEndOfFile
  <2>1. PICK c \in Commands : Execute(c, <<>>)
    BY <1>4 DEF ReadEndOfFile
  <2>2. <<>> \in Seq(Commands) /\ Len(<<>>) <= Window
    BY BitbangAssumption
  <2>3. (stray \in 0 .. MaxStray)'
    BY <1>4, BitbangAssumption DEF ReadEndOfFile, TypeInv
  <2> QED BY <2>1, <2>2, <2>3, ExecuteType DEF TypeInv
<1>5. CASE WriteReply
  <2>1. /\ FinishCommand(quit_request, to_server, Append(to_client, reply_char), pins)
        /\ Len(to_client) < ReplyRoom
        /\ UNCHANGED <<pins, tdo, reply_char, quit_request, stray>>
    BY <1>5 DEF WriteReply
  <2>2. /\ pins \in Pins /\ quit_request \in BOOLEAN /\ reply_char \in Bit
        /\ to_server \in Seq(Commands) /\ Len(to_server) <= Window /\ to_client \in Seq(Bit)
    BY DEF TypeInv, ServerTypeOK, ChannelsOK
  <2>3. Append(to_client, reply_char) \in Seq(Bit) /\ Len(Append(to_client, reply_char)) <= ReplyRoom
    BY <2>1, <2>2, AppendProperties, LenProperties, BitbangAssumption
  <2>4. ClockOK' /\ PortOK' /\ ClientOK' /\ ChannelsOK' /\ pc' = "sim" /\ connected' \in BOOLEAN
    BY <2>1, <2>2, <2>3, FinishType
  <2>5. ServerTypeOK'
    BY <2>1, <2>4 DEF TypeInv, ServerTypeOK, Places
  <2> QED BY <2>1, <2>4, <2>5, UnchangedType DEF TypeInv
<1>6. CASE SocketError
  <2>1. ServerTypeOK'
    BY <1>6 DEF SocketError, TypeInv, ServerTypeOK, Places
  <2> QED BY <1>6, <2>1, UnchangedType DEF SocketError, TypeInv, simVars
<1>7. CASE Connect
  <2>1. ClientOK'
    BY <1>7, BitbangAssumption DEF Connect, TypeInv, ClientOK
  <2> QED BY <1>7, <2>1, UnchangedType DEF Connect, TypeInv, simVars
<1>8. ASSUME NEW c \in Commands, Send(c) PROVE TypeInv'
  <2>1. ClientOK'
    BY <1>8, BitbangAssumption DEF Send, TypeInv, ClientOK
  <2>2. ChannelsOK'
    <3>1. /\ to_server \in Seq(Commands) /\ Len(to_server) < Window
          /\ to_server' = Append(to_server, c) /\ to_client' = to_client
      BY <1>8 DEF Send, TypeInv, ChannelsOK
    <3>2. to_server' \in Seq(Commands) /\ Len(to_server') <= Window
      BY <3>1, AppendProperties, LenProperties, BitbangAssumption
    <3> QED BY <3>1, <3>2 DEF TypeInv, ChannelsOK
  <2> QED BY <1>8, <2>1, <2>2, UnchangedType DEF Send, TypeInv, simVars
<1>9. CASE TakeReply
  <2>1. ChannelsOK'
    <3>1. /\ to_client \in Seq(Bit) /\ to_client # <<>> /\ Len(to_client) <= ReplyRoom
          /\ to_client' = Tail(to_client) /\ to_server' = to_server
      BY <1>9 DEF TakeReply, TypeInv, ChannelsOK
    <3>2. to_client' \in Seq(Bit) /\ Len(to_client') <= ReplyRoom
      BY <3>1, HeadTailProperties, LenProperties, BitbangAssumption
    <3> QED BY <3>1, <3>2 DEF TypeInv, ChannelsOK
  <2> QED BY <1>9, <2>1, UnchangedType DEF TakeReply, TypeInv, simVars
<1>10. CASE Vanish
  <2>1. ClientOK'
    BY <1>10 DEF Vanish, TypeInv, ClientOK
  <2> QED BY <1>10, <2>1, UnchangedType DEF Vanish, TypeInv, simVars
<1>11. CASE UNCHANGED vars
  BY <1>11, UnchangedType DEF vars, simVars, TypeInv
<1> QED BY <1>1, <1>2, <1>3, <1>4, <1>5, <1>6, <1>7, <1>8, <1>9, <1>10, <1>11
        DEF Next, Server, Client

\* The simulation starts with its types, in any state the port may power up in.
LEMMA TypeInit ==
  ASSUME Init
  PROVE  TypeInv
<1>1. PICK s \in PowerUp : tap = PowerUpTap(s)
  BY DEF Init
<1>2. TapOK(tap)
  <2>1. /\ [k \in DOMAIN InsnCapture |-> 0] \in Seq(Bit)
        /\ Len([k \in DOMAIN InsnCapture |-> 0]) = Len(InsnCapture)
        /\ [k \in DOMAIN IdcodeValue |-> 0] \in Seq(Bit)
        /\ Len([k \in DOMAIN IdcodeValue |-> 0]) = Len(IdcodeValue)
    BY Widths, ZerosType
  <2>2. s \in TapStates /\ <<0, 0, 0, 0>> \in [1 .. 4 -> Bit] /\ 0 \in Bit
    BY BitbangAssumption DEF Bit
  <2> QED BY <1>1, <2>1, <2>2 DEF TapOK, TapRegisters, PowerUpTap
<1>3. OnesLead(tap)
  <2>1. tap.tms_q[1] = 0
    BY <1>1 DEF PowerUpTap
  <2>2. \A j \in 1 .. 4 : 1 \in 1 .. j
    OBVIOUS
  <2> QED BY <2>1, <2>2 DEF OnesLead
<1>4. ClockOK /\ ServerTypeOK /\ wires \in Pins
  <2>1. ClockOK
    BY BitbangAssumption DEF Init, ClockOK, Bit
  <2>2. pins \in Pins /\ wires \in Pins
    BY DEF Init, Pins, Bit
  <2>3. pc \in Places /\ tdo \in Bit /\ reply_char \in Bit
    BY DEF Init, Places, Bit
  <2>4. quit_request \in BOOLEAN /\ connected \in BOOLEAN
    BY DEF Init
  <2> QED BY <2>1, <2>2, <2>3, <2>4 DEF ServerTypeOK
<1>5. ClientOK /\ stray \in 0 .. MaxStray
  <2>1. vanished \in BOOLEAN
    BY DEF Init
  <2>2. sent \in 0 .. MaxBytes /\ sessions \in 0 .. MaxSessions /\ stray \in 0 .. MaxStray
    BY BitbangAssumption DEF Init
  <2>3. client \in {"off", "on", "quit", "gone"} /\ last_pin \in DOMAIN SetPins
    BY SetPinsType DEF Init
  <2> QED BY <2>1, <2>2, <2>3 DEF ClientOK
<1>6. ChannelsOK
  BY BitbangAssumption DEF Init, ChannelsOK
<1> QED BY <1>2, <1>3, <1>4, <1>5, <1>6 DEF TypeInv, PortOK

\* The variables of the simulation, the server, the client and the test access port
\* keep their types, whatever the client sends, and whenever it goes away.
THEOREM TypeCorrect == Spec => []TypeOK
<1>1. TypeInv => TypeOK
  BY TypeParts
<1> QED BY <1>1, TypeInit, TypeStep, PTL DEF Spec

\* Four rising edges of TCK with TMS = 1 bring the controller to Test-Logic-Reset or
\* to the state before it, from every state it may power up in.
THEOREM FourOnesFindThePort == Spec => []FourOnesReachReset
<1>1. TypeInv => FourOnesReachReset
  <2>1. OnesLead(tap) => FourOnesReachReset
    BY DEF OnesLead, AfterOnes, FourOnesReachReset
  <2> QED BY <2>1, TypeParts
<1> QED BY <1>1, TypeInit, TypeStep, PTL DEF Spec

-----------------------------------------------------------------------------
(* An answer always finds room *)

\* A client that keeps its bound is never owed more than the socket has room for.
RoomOK ==
    /\ client = "gone" => vanished
    /\ pc = "aborted" => vanished
    /\ vanished \/ Owed <= ReplyRoom

\* What is owed: questions under way, the one being answered, and answers under way.
LEMMA OwedParts ==
  ASSUME TypeInv
  PROVE  /\ Owed = Asked(to_server) + Len(to_client) + (IF pc = "reply" THEN 1 ELSE 0)
         /\ Asked(to_server) \in Nat /\ Len(to_client) \in Nat /\ Owed \in Nat
<1>1. Asked(to_server) \in Nat /\ Len(to_client) \in Nat
  BY AskedType, LenProperties DEF TypeInv, ChannelsOK
<1>2. Owed = Asked(to_server) + Len(to_client) + (IF pc = "reply" THEN 1 ELSE 0)
  BY DEF Owed, Asked
<1> QED BY <1>1, <1>2

\* The same of the next state.
LEMMA OwedPartsNext ==
  ASSUME TypeInv'
  PROVE  /\ Owed' = Asked(to_server') + Len(to_client') + (IF pc' = "reply" THEN 1 ELSE 0)
         /\ Asked(to_server') \in Nat /\ Len(to_client') \in Nat /\ Owed' \in Nat
<1>1. Asked(to_server') \in Nat /\ Len(to_client') \in Nat
  BY AskedType, LenProperties DEF TypeInv, ChannelsOK
<1>2. Owed' = Asked(to_server') + Len(to_client') + (IF pc' = "reply" THEN 1 ELSE 0)
  BY DEF Owed, Asked
<1> QED BY <1>1, <1>2

\* The end of a command adds nothing to what is owed.
LEMMA FinishRoom ==
  ASSUME NEW quit, NEW rest, NEW answers, NEW now, FinishCommand(quit, rest, answers, now)
  PROVE  /\ pc' = "sim" /\ vanished' = vanished
         /\ client' = client \/ client' = "off"
         /\ \/ to_server' = <<>> /\ to_client' = <<>>
            \/ to_server' = rest /\ to_client' = answers
<1>1. CASE quit
  BY <1>1 DEF FinishCommand, Closed
<1>2. CASE ~quit
  BY <1>2 DEF FinishCommand, clientVars
<1> QED BY <1>1, <1>2

\* Every step keeps the account of what is owed.
LEMMA RoomStep ==
  ASSUME TypeInv, TypeInv', RoomOK, [Next]_vars
  PROVE  RoomOK'
<1> DEFINE n == Asked(to_server)
           m == Len(to_client)
           n1 == Asked(to_server')
           m1 == Len(to_client')
           o == Owed
           o1 == Owed'
<1>0. /\ o = n + m + (IF pc = "reply" THEN 1 ELSE 0)
      /\ o1 = n1 + m1 + (IF pc' = "reply" THEN 1 ELSE 0)
      /\ n \in Nat /\ m \in Nat /\ n1 \in Nat /\ m1 \in Nat /\ o \in Nat /\ o1 \in Nat
      /\ ReplyRoom \in Nat
  BY OwedParts, OwedPartsNext, BitbangAssumption
<1>12. /\ to_server \in Seq(Commands) /\ to_client \in Seq(Bit)
       /\ vanished \in BOOLEAN /\ reply_char \in Bit
  BY DEF TypeInv, ChannelsOK, ClientOK, ServerTypeOK
<1>13. RoomOK' <=> /\ client' = "gone" => vanished'
                   /\ pc' = "aborted" => vanished'
                   /\ vanished' \/ o1 <= ReplyRoom
  BY DEF RoomOK
<1>14. Asked(<<>>) = 0 /\ Len(<<>>) = 0
  BY NothingAsked
<1>15. UNCHANGED channels => n1 = n /\ m1 = m
  BY DEF channels
<1>1. CASE SimChangeClk
  <2>1. /\ pc = "sim" /\ pc' \in {"sim", "read", "accept"} /\ n1 = n /\ m1 = m
        /\ client' = client /\ vanished' = vanished
    BY <1>1, <1>15 DEF SimChangeClk, PosedgeClk, Tick, clientVars
  <2> HIDE DEF n, m, n1, m1, o, o1
  <2> QED BY <1>0, <1>13, <2>1 DEF RoomOK, o
<1>2. CASE AcceptOocd
  <2>1. /\ pc = "accept" /\ pc' = "sim" /\ n1 = n /\ m1 = m
        /\ client' = client /\ vanished' = vanished
    BY <1>2, <1>15 DEF AcceptOocd, clientVars
  <2> HIDE DEF n, m, n1, m1, o, o1
  <2> QED BY <1>0, <1>13, <2>1 DEF RoomOK, o
<1>3. CASE ReadCommand
  <2> DEFINE c == Head(to_server)
             rest == Tail(to_server)
  <2>1. pc = "read" /\ to_server # <<>> /\ Execute(c, rest)
    BY <1>3 DEF ReadCommand
  <2>2. n = Asked(rest) + (IF c = "R" THEN 1 ELSE 0) /\ Asked(rest) \in Nat
    BY <1>12, <2>1, AskedTail, AskedType, HeadTailProperties
  <2>3. CASE c = "R"
    <3>1. /\ pc' = "reply" /\ n1 = Asked(rest) /\ m1 = m
          /\ client' = client /\ vanished' = vanished
      BY <2>1, <2>3 DEF Execute, clientVars
    <3> HIDE DEF n, m, n1, m1, o, o1, c, rest
    <3> QED BY <1>0, <1>13, <2>1, <2>2, <2>3, <3>1 DEF RoomOK, o
  <2>4. CASE c # "R"
    <3>1. PICK now : FinishCommand(quit_request', rest, to_client, now)
      BY <2>1, <2>4 DEF Execute
    <3>2. /\ pc' = "sim" /\ vanished' = vanished /\ client' \in {client, "off"}
          /\ (n1 = 0 /\ m1 = 0) \/ (n1 = Asked(rest) /\ m1 = m)
      BY <3>1, <1>14, FinishRoom
    <3> HIDE DEF n, m, n1, m1, o, o1, c, rest
    <3> QED BY <1>0, <1>13, <2>1, <2>2, <2>4, <3>2 DEF RoomOK, o
  <2> QED BY <2>3, <2>4
<1>4. CASE ReadEndOfFile
  <2>1. PICK c \in Commands : Execute(c, <<>>)
    BY <1>4 DEF ReadEndOfFile
  <2>2. vanished
    BY <1>4 DEF ReadEndOfFile, RoomOK
  <2>3. vanished' = vanished
    <3>1. CASE c = "R"
      BY <2>1, <3>1 DEF Execute, clientVars
    <3>2. CASE c # "R"
      BY <2>1, <3>2, FinishRoom DEF Execute
    <3> QED BY <3>1, <3>2
  <2> QED BY <1>13, <2>2, <2>3
<1>5. CASE WriteReply
  <2> DEFINE answers == Append(to_client, reply_char)
  <2>1. pc = "reply" /\ FinishCommand(quit_request, to_server, answers, pins)
    BY <1>5 DEF WriteReply
  <2>2. Len(answers) = m + 1
    BY <1>12, AppendProperties
  <2>3. /\ pc' = "sim" /\ vanished' = vanished /\ client' \in {client, "off"}
        /\ (n1 = 0 /\ m1 = 0) \/ (n1 = n /\ m1 = m + 1)
    BY <2>1, <2>2, <1>14, FinishRoom
  <2> HIDE DEF n, m, n1, m1, o, o1
  <2> QED BY <1>0, <1>13, <2>1, <2>3 DEF RoomOK, o
<1>6. CASE SocketError
  <2>1. /\ pc' = "aborted" /\ client' = client /\ vanished' = vanished
        /\ client = "gone" \/ (pc = "reply" /\ m >= ReplyRoom)
    BY <1>6 DEF SocketError, AcceptFails, clientVars
  <2> HIDE DEF n, m, n1, m1, o, o1
  <2>2. vanished
    BY <1>0, <2>1 DEF RoomOK, o
  <2> QED BY <1>13, <2>1, <2>2
<1>7. CASE Connect
  <2>1. client' = "on" /\ pc' = pc /\ vanished' = vanished /\ n1 = n /\ m1 = m
    BY <1>7, <1>15 DEF Connect, serverVars
  <2> HIDE DEF n, m, n1, m1, o, o1
  <2> QED BY <1>0, <1>13, <2>1 DEF RoomOK, o
<1>8. ASSUME NEW c \in Commands, Send(c) PROVE RoomOK'
  <2>1. /\ pc' = pc /\ vanished' = vanished /\ m1 = m /\ client' # "gone"
        /\ to_server' = Append(to_server, c)
        /\ c = "R" => Owed < ReplyRoom
    BY <1>8 DEF Send, serverVars, MaySend
  <2>2. n1 = n + (IF c = "R" THEN 1 ELSE 0)
    BY <1>12, <2>1, AskedAppend
  <2>3. c = "R" => o < ReplyRoom
    BY <2>1
  <2> HIDE DEF n, m, n1, m1, o, o1
  <2> QED BY <1>0, <1>13, <2>1, <2>2, <2>3 DEF RoomOK, o
<1>9. CASE TakeReply
  <2>1. /\ pc' = pc /\ vanished' = vanished /\ client' = client /\ n1 = n
        /\ to_client # <<>> /\ to_client' = Tail(to_client)
    BY <1>9 DEF TakeReply, serverVars, clientVars
  <2>2. m1 = m - 1
    BY <1>12, <2>1, HeadTailProperties
  <2> HIDE DEF n, m, n1, m1, o, o1
  <2> QED BY <1>0, <1>13, <2>1, <2>2 DEF RoomOK, o
<1>10. CASE Vanish
  BY <1>10, <1>13 DEF Vanish
<1>11. CASE UNCHANGED vars
  <2>1. pc' = pc /\ vanished' = vanished /\ client' = client /\ n1 = n /\ m1 = m
    BY <1>11, <1>15 DEF vars, serverVars, clientVars
  <2> HIDE DEF n, m, n1, m1, o, o1
  <2> QED BY <1>0, <1>13, <2>1 DEF RoomOK, o
<1> QED BY <1>1, <1>2, <1>3, <1>4, <1>5, <1>6, <1>7, <1>8, <1>9, <1>10, <1>11
        DEF Next, Server, Client

\* Nothing is owed at the start.
LEMMA RoomInit ==
  ASSUME Init
  PROVE  RoomOK
<1>1. Owed = 0 /\ client = "off" /\ pc = "sim"
  BY NothingAsked DEF Init, Owed, Asked
<1> QED BY <1>1, BitbangAssumption DEF RoomOK

\* The server aborts the simulator only after a client went away without a quit.
THEOREM OnlyLostClientsAbort == Spec => []AbortsOnlyWhenLost
<1>1. RoomOK => AbortsOnlyWhenLost
  BY DEF RoomOK, AbortsOnlyWhenLost
<1> QED BY <1>1, RoomInit, TypeInit, TypeStep, RoomStep, PTL DEF Spec

-----------------------------------------------------------------------------
(* The code's port is the standard's *)

ScanIR == {"SHIFT_IR", "EXIT1_IR", "PAUSE_IR", "EXIT2_IR", "UPDATE_IR"}
ScanDR == {"SHIFT_DR", "EXIT1_DR", "PAUSE_DR", "EXIT2_DR", "UPDATE_DR"}

\* What is in the data scan path
DataScan(t) ==
    IF t.latched_jtag_ir = InsnIdcode THEN t.idcode_reg
    ELSE IF t.latched_jtag_ir = InsnBypass THEN <<t.bypass_reg>>
    ELSE <<>>

\* The scan register, state by state.
LEMMA ScanCases ==
  ASSUME NEW t, t.fsm \in TapStates
  PROVE  /\ t.fsm \in ScanIR => ScanRegister(t) = t.jtag_ir
         /\ t.fsm \in ScanDR => ScanRegister(t) = DataScan(t)
         /\ t.fsm \notin ScanIR \cup ScanDR => ScanRegister(t) = <<>>
<1>1. InsnIdcode # InsnBypass
  BY TapAssumption
<1>2. CASE t.fsm \in ScanIR
  <2>1. Standard[t.fsm][1] = "IR" /\ Standard[t.fsm][2] \in {"Shift", "Exit1", "Pause", "Exit2", "Update"}
    BY <1>2 DEF ScanIR, Standard
  <2> QED BY <1>2, <2>1 DEF ScanRegister, ScanIR, ScanDR
<1>3. CASE t.fsm \in ScanDR
  <2>1. Standard[t.fsm][1] = "DR" /\ Standard[t.fsm][2] \in {"Shift", "Exit1", "Pause", "Exit2", "Update"}
    BY <1>3 DEF ScanDR, Standard
  <2> QED BY <1>1, <1>3, <2>1 DEF ScanRegister, ScanIR, ScanDR, DataScan
<1>4. CASE t.fsm \notin ScanIR \cup ScanDR
  <2>1. Standard[t.fsm][2] \notin {"Shift", "Exit1", "Pause", "Exit2", "Update"}
    BY <1>4 DEF ScanIR, ScanDR, Standard, TapStates
  <2> QED BY <1>4, <2>1 DEF ScanRegister
<1> QED BY <1>2, <1>3, <1>4

\* The code's table of sixteen states is the standard's diagram.
LEMMA StateMoves ==
  ASSUME NEW s \in TapStates, NEW tms \in Bit
  PROVE  Standard[NextStates[s][tms + 1]] = Probe!StateAfter(Standard[s], tms)
<1>1. tms = 0 \/ tms = 1
  BY DEF Bit
<1>2. /\ Probe!StateAfter(<<"Test", "Reset">>, tms)
           = (IF tms = 1 THEN <<"Test", "Reset">> ELSE <<"Test", "Idle">>)
      /\ \A c, p : p \in {"Idle", "Update"} =>
           Probe!StateAfter(<<c, p>>, tms) = (IF tms = 1 THEN <<"DR", "Select">> ELSE <<"Test", "Idle">>)
  BY DEF Probe!StateAfter
<1>3. /\ Probe!StateAfter(<<"DR", "Select">>, tms)
           = (IF tms = 1 THEN <<"IR", "Select">> ELSE <<"DR", "Capture">>)
      /\ Probe!StateAfter(<<"IR", "Select">>, tms)
           = (IF tms = 1 THEN <<"Test", "Reset">> ELSE <<"IR", "Capture">>)
  BY DEF Probe!StateAfter
<1>4. \A c, p : p \in {"Capture", "Shift", "Exit1", "Pause", "Exit2"} =>
        Probe!StateAfter(<<c, p>>, tms) = <<c, Probe!Phases[p][tms + 1]>>
  BY DEF Probe!StateAfter
<1>5. CASE s \in {"TEST_LOGIC_RESET", "RUN_TEST_IDLE", "UPDATE_DR", "UPDATE_IR"}
  <2>1. CASE s = "TEST_LOGIC_RESET"
    BY <1>1, <1>2, <2>1 DEF NextStates, Standard
  <2>2. CASE s = "RUN_TEST_IDLE"
    BY <1>1, <1>2, <2>2 DEF NextStates, Standard
  <2>3. CASE s = "UPDATE_DR"
    BY <1>1, <1>2, <2>3 DEF NextStates, Standard
  <2>4. CASE s = "UPDATE_IR"
    BY <1>1, <1>2, <2>4 DEF NextStates, Standard
  <2> QED BY <1>5, <2>1, <2>2, <2>3, <2>4
<1>6. CASE s \in {"SELECT_DR_SCAN", "SELECT_IR_SCAN"}
  <2>1. CASE s = "SELECT_DR_SCAN"
    BY <1>1, <1>3, <2>1 DEF NextStates, Standard
  <2>2. CASE s = "SELECT_IR_SCAN"
    BY <1>1, <1>3, <2>2 DEF NextStates, Standard
  <2> QED BY <1>6, <2>1, <2>2
<1>7. CASE s \in {"CAPTURE_DR", "SHIFT_DR", "EXIT1_DR", "PAUSE_DR", "EXIT2_DR"}
  <2>1. CASE s = "CAPTURE_DR"
    <3>1. Probe!StateAfter(<<"DR", "Capture">>, tms) = <<"DR", Probe!Phases["Capture"][tms + 1]>>
      BY <1>4
    <3> QED BY <1>1, <2>1, <3>1 DEF NextStates, Standard, Probe!Phases
  <2>2. CASE s = "SHIFT_DR"
    <3>1. Probe!StateAfter(<<"DR", "Shift">>, tms) = <<"DR", Probe!Phases["Shift"][tms + 1]>>
      BY <1>4
    <3> QED BY <1>1, <2>2, <3>1 DEF NextStates, Standard, Probe!Phases
  <2>3. CASE s = "EXIT1_DR"
    <3>1. Probe!StateAfter(<<"DR", "Exit1">>, tms) = <<"DR", Probe!Phases["Exit1"][tms + 1]>>
      BY <1>4
    <3> QED BY <1>1, <2>3, <3>1 DEF NextStates, Standard, Probe!Phases
  <2>4. CASE s = "PAUSE_DR"
    <3>1. Probe!StateAfter(<<"DR", "Pause">>, tms) = <<"DR", Probe!Phases["Pause"][tms + 1]>>
      BY <1>4
    <3> QED BY <1>1, <2>4, <3>1 DEF NextStates, Standard, Probe!Phases
  <2>5. CASE s = "EXIT2_DR"
    <3>1. Probe!StateAfter(<<"DR", "Exit2">>, tms) = <<"DR", Probe!Phases["Exit2"][tms + 1]>>
      BY <1>4
    <3> QED BY <1>1, <2>5, <3>1 DEF NextStates, Standard, Probe!Phases
  <2> QED BY <1>7, <2>1, <2>2, <2>3, <2>4, <2>5
<1>8. CASE s \in {"CAPTURE_IR", "SHIFT_IR", "EXIT1_IR", "PAUSE_IR", "EXIT2_IR"}
  <2>1. CASE s = "CAPTURE_IR"
    <3>1. Probe!StateAfter(<<"IR", "Capture">>, tms) = <<"IR", Probe!Phases["Capture"][tms + 1]>>
      BY <1>4
    <3> QED BY <1>1, <2>1, <3>1 DEF NextStates, Standard, Probe!Phases
  <2>2. CASE s = "SHIFT_IR"
    <3>1. Probe!StateAfter(<<"IR", "Shift">>, tms) = <<"IR", Probe!Phases["Shift"][tms + 1]>>
      BY <1>4
    <3> QED BY <1>1, <2>2, <3>1 DEF NextStates, Standard, Probe!Phases
  <2>3. CASE s = "EXIT1_IR"
    <3>1. Probe!StateAfter(<<"IR", "Exit1">>, tms) = <<"IR", Probe!Phases["Exit1"][tms + 1]>>
      BY <1>4
    <3> QED BY <1>1, <2>3, <3>1 DEF NextStates, Standard, Probe!Phases
  <2>4. CASE s = "PAUSE_IR"
    <3>1. Probe!StateAfter(<<"IR", "Pause">>, tms) = <<"IR", Probe!Phases["Pause"][tms + 1]>>
      BY <1>4
    <3> QED BY <1>1, <2>4, <3>1 DEF NextStates, Standard, Probe!Phases
  <2>5. CASE s = "EXIT2_IR"
    <3>1. Probe!StateAfter(<<"IR", "Exit2">>, tms) = <<"IR", Probe!Phases["Exit2"][tms + 1]>>
      BY <1>4
    <3> QED BY <1>1, <2>5, <3>1 DEF NextStates, Standard, Probe!Phases
  <2> QED BY <1>8, <2>1, <2>2, <2>3, <2>4, <2>5
<1> QED BY <1>5, <1>6, <1>7, <1>8 DEF TapStates

\* The duplicate reset never takes the controller where TMS would not.
LEMMA FsmMoves ==
  ASSUME NEW t, TapOK(t), OnesLead(t), NEW tms \in Bit
  PROVE  FsmAfter(t, tms, FALSE) = NextStates[t.fsm][tms + 1]
<1>1. CASE TmsReset(t, tms)
  <2>1. tms = 1 /\ t.fsm \in AfterOnes[4]
    BY <1>1 DEF TmsReset, OnesLead
  <2>2. NextStates[t.fsm][2] = "TEST_LOGIC_RESET"
    BY <2>1 DEF AfterOnes, NextStates
  <2> QED BY <1>1, <2>1, <2>2 DEF FsmAfter
<1>2. CASE ~TmsReset(t, tms)
  BY <1>2 DEF FsmAfter
<1> QED BY <1>1, <1>2

\* Which states lead into the scan paths.
LEMMA IntoScan ==
  ASSUME NEW s \in TapStates, NEW tms \in Bit
  PROVE  /\ Probe!StateAfter(Standard[s], tms)[2] \in Probe!Scanning
              <=> NextStates[s][tms + 1] \in ScanIR \cup ScanDR
         /\ NextStates[s][tms + 1] \in ScanIR =>
              s \in {"CAPTURE_IR", "SHIFT_IR", "EXIT1_IR", "PAUSE_IR", "EXIT2_IR"}
         /\ NextStates[s][tms + 1] \in ScanDR =>
              s \in {"CAPTURE_DR", "SHIFT_DR", "EXIT1_DR", "PAUSE_DR", "EXIT2_DR"}
<1>1. tms = 0 \/ tms = 1
  BY DEF Bit
<1>2. \A n \in TapStates : Standard[n][2] \in Probe!Scanning <=> n \in ScanIR \cup ScanDR
  BY DEF TapStates, Standard, Probe!Scanning, ScanIR, ScanDR
<1>3. /\ NextStates[s][tms + 1] \in ScanIR =>
           s \in {"CAPTURE_IR", "SHIFT_IR", "EXIT1_IR", "PAUSE_IR", "EXIT2_IR"}
      /\ NextStates[s][tms + 1] \in ScanDR =>
           s \in {"CAPTURE_DR", "SHIFT_DR", "EXIT1_DR", "PAUSE_DR", "EXIT2_DR"}
  BY <1>1 DEF TapStates, NextStates, ScanIR, ScanDR
<1> QED BY <1>2, <1>3, StateMoves, FsmType

\* The scan register after a rising edge.
LEMMA ScanMoves ==
  ASSUME NEW t, TapOK(t), NEW tms \in Bit, NEW tdi \in Bit, NEW r,
         r.fsm = NextStates[t.fsm][tms + 1], r.latched_jtag_ir = t.latched_jtag_ir,
         r.jtag_ir = InsnRegAfter(t, tdi, FALSE), r.idcode_reg = IdcodeAfter(t, tdi, FALSE),
         r.bypass_reg = BypassAfter(t, tdi, FALSE)
  PROVE  ScanRegister(r) = Probe!ScanAfter(Device(t), tms, tdi)
<1> DEFINE d == Device(t)
           scan == CASE d.state[2] = "Capture"                  -> Probe!Captured(d)
                     [] d.state[2] = "Shift" /\ d.scan # <<>>   -> Append(Tail(d.scan), tdi)
                     [] OTHER                                   -> d.scan
<1>1. /\ t.fsm \in TapStates /\ r.fsm \in TapStates
      /\ t.jtag_ir \in Seq(Bit) /\ t.jtag_ir # <<>> /\ t.idcode_reg \in Seq(Bit) /\ t.idcode_reg # <<>>
      /\ t.bypass_reg \in Bit /\ InsnIdcode # InsnBypass
  BY FsmType, Widths, EmptySeq, TapAssumption DEF TapOK, TapRegisters
<1>2. d.state = Standard[t.fsm] /\ d.insn = t.latched_jtag_ir /\ d.scan = ScanRegister(t)
  BY DEF Device
<1>3. Probe!ScanAfter(d, tms, tdi) = IF r.fsm \in ScanIR \cup ScanDR THEN scan ELSE <<>>
  BY <1>1, <1>2, IntoScan DEF Probe!ScanAfter
<1>4. CASE r.fsm \notin ScanIR \cup ScanDR
  BY <1>1, <1>3, <1>4, ScanCases
<1>5. CASE r.fsm \in ScanIR
  <2>1. ScanRegister(r) = r.jtag_ir /\ t.fsm \in {"CAPTURE_IR", "SHIFT_IR", "EXIT1_IR", "PAUSE_IR", "EXIT2_IR"}
    BY <1>1, <1>5, ScanCases, IntoScan
  <2>2. CASE t.fsm = "CAPTURE_IR"
    <3>1. d.state = <<"IR", "Capture">>
      BY <1>2, <2>2 DEF Standard
    <3>2. scan = InsnCapture
      BY <3>1 DEF Probe!Captured
    <3> QED BY <1>3, <1>5, <2>1, <2>2, <3>2 DEF InsnRegAfter
  <2>3. CASE t.fsm = "SHIFT_IR"
    <3>1. d.state = <<"IR", "Shift">> /\ d.scan = t.jtag_ir
      BY <1>1, <1>2, <2>3, ScanCases DEF Standard, ScanIR
    <3>2. scan = Append(Tail(t.jtag_ir), tdi)
      BY <1>1, <3>1
    <3> QED BY <1>3, <1>5, <2>1, <2>3, <3>2 DEF InsnRegAfter, Shifted
  <2>4. CASE t.fsm \in {"EXIT1_IR", "PAUSE_IR", "EXIT2_IR"}
    <3>1. d.state[2] \in {"Exit1", "Pause", "Exit2"} /\ d.scan = t.jtag_ir
      BY <1>1, <1>2, <2>4, ScanCases DEF Standard, ScanIR
    <3>2. scan = t.jtag_ir
      BY <3>1
    <3> QED BY <1>3, <1>5, <2>1, <2>4, <3>2 DEF InsnRegAfter
  <2> QED BY <2>1, <2>2, <2>3, <2>4
<1>6. CASE r.fsm \in ScanDR
  <2>1. ScanRegister(r) = DataScan(r) /\ t.fsm \in {"CAPTURE_DR", "SHIFT_DR", "EXIT1_DR", "PAUSE_DR", "EXIT2_DR"}
    BY <1>1, <1>6, ScanCases, IntoScan
  <2>2. CASE t.fsm = "CAPTURE_DR"
    <3>1. d.state = <<"DR", "Capture">>
      BY <1>2, <2>2 DEF Standard
    <3>2. scan = Probe!Captured(d)
      BY <3>1
    <3>3. Probe!Captured(d) = DataScan(r)
      BY <1>1, <1>2, <2>2, <3>1 DEF Probe!Captured, DataScan, IdcodeAfter, BypassAfter, Selects
    <3> QED BY <1>3, <1>6, <2>1, <3>2, <3>3
  <2>3. CASE t.fsm = "SHIFT_DR"
    <3>1. d.state = <<"DR", "Shift">> /\ d.scan = DataScan(t)
      BY <1>1, <1>2, <2>3, ScanCases DEF Standard, ScanDR
    <3>2. scan = IF DataScan(t) # <<>> THEN Append(Tail(DataScan(t)), tdi) ELSE <<>>
      BY <3>1
    <3>3. CASE t.latched_jtag_ir = InsnIdcode
      <4>1. DataScan(r) = Shifted(t.idcode_reg, tdi) /\ DataScan(t) = t.idcode_reg
        BY <1>1, <2>3, <3>3 DEF DataScan, IdcodeAfter, Selects
      <4> QED BY <1>1, <1>3, <1>6, <2>1, <3>2, <4>1 DEF Shifted
    <3>4. CASE t.latched_jtag_ir = InsnBypass
      <4>1. DataScan(r) = <<tdi>> /\ DataScan(t) = <<t.bypass_reg>>
        BY <1>1, <2>3, <3>4 DEF DataScan, BypassAfter, Selects
      <4>2. <<t.bypass_reg>> # <<>> /\ Append(Tail(<<t.bypass_reg>>), tdi) = <<tdi>>
        OBVIOUS
      <4> QED BY <1>3, <1>6, <2>1, <3>2, <4>1, <4>2
    <3>5. CASE t.latched_jtag_ir # InsnIdcode /\ t.latched_jtag_ir # InsnBypass
      <4>1. DataScan(r) = <<>> /\ DataScan(t) = <<>>
        BY <3>5 DEF DataScan
      <4> QED BY <1>3, <1>6, <2>1, <3>2, <4>1
    <3> QED BY <3>3, <3>4, <3>5
  <2>4. CASE t.fsm \in {"EXIT1_DR", "PAUSE_DR", "EXIT2_DR"}
    <3>1. d.state[2] \in {"Exit1", "Pause", "Exit2"} /\ d.scan = DataScan(t)
      BY <1>1, <1>2, <2>4, ScanCases DEF Standard, ScanDR
    <3>2. scan = DataScan(t)
      BY <3>1
    <3>3. DataScan(r) = DataScan(t)
      BY <2>4 DEF DataScan, IdcodeAfter, BypassAfter, Selects
    <3> QED BY <1>3, <1>6, <2>1, <3>2, <3>3
  <2> QED BY <2>1, <2>2, <2>3, <2>4
<1> QED BY <1>4, <1>5, <1>6

\* The fields after a falling edge.
LEMMA FallingFields ==
  ASSUME NEW t, TapOK(t), NEW trst
  PROVE  /\ FallingEdge(t, trst).fsm = t.fsm
         /\ FallingEdge(t, trst).latched_jtag_ir = LatchedInsnAfter(t, trst)
         /\ FallingEdge(t, trst).jtag_ir = t.jtag_ir
         /\ FallingEdge(t, trst).idcode_reg = t.idcode_reg
         /\ FallingEdge(t, trst).bypass_reg = t.bypass_reg
         /\ FallingEdge(t, trst).tdo = TdoMux(t)
  BY DEF TapOK, TapRegisters, FallingEdge

\* After a rising edge the code's port is where the standard's is.
LEMMA RisenIs ==
  ASSUME NEW t, TapOK(t), OnesLead(t), NEW tms \in Bit, NEW tdi \in Bit
  PROVE  Device(RisingEdge(t, tms, tdi, FALSE)) = Probe!Risen(Device(t), tms, tdi)
<1> DEFINE r == RisingEdge(t, tms, tdi, FALSE)
<1>1. /\ r.fsm = NextStates[t.fsm][tms + 1] /\ r.latched_jtag_ir = t.latched_jtag_ir
      /\ r.jtag_ir = InsnRegAfter(t, tdi, FALSE) /\ r.idcode_reg = IdcodeAfter(t, tdi, FALSE)
      /\ r.bypass_reg = BypassAfter(t, tdi, FALSE)
  <2>1. r.fsm = FsmAfter(t, tms, FALSE)
    BY DEF TapOK, TapRegisters, RisingEdge
  <2>2. /\ r.latched_jtag_ir = t.latched_jtag_ir
        /\ r.jtag_ir = InsnRegAfter(t, tdi, FALSE) /\ r.idcode_reg = IdcodeAfter(t, tdi, FALSE)
        /\ r.bypass_reg = BypassAfter(t, tdi, FALSE)
    BY DEF TapOK, TapRegisters, RisingEdge
  <2> HIDE DEF r
  <2> QED BY <2>1, <2>2, FsmMoves
<1> HIDE DEF r
<1>2. ScanRegister(r) = Probe!ScanAfter(Device(t), tms, tdi)
  BY <1>1, ScanMoves
<1>3. Standard[r.fsm] = Probe!StateAfter(Standard[t.fsm], tms)
  BY <1>1, StateMoves DEF TapOK, TapRegisters
<1>4. Device(r) = [state |-> Probe!StateAfter(Standard[t.fsm], tms), insn |-> t.latched_jtag_ir,
                   scan |-> Probe!ScanAfter(Device(t), tms, tdi)]
  BY <1>1, <1>2, <1>3 DEF Device
<1>5. Device(t).state = Standard[t.fsm] /\ Device(t).insn = t.latched_jtag_ir
  BY DEF Device
<1>6. Device(r) = Probe!Risen(Device(t), tms, tdi)
  BY <1>4, <1>5 DEF Probe!Risen
<1> QED BY <1>6 DEF r

\* The scan register does not change with a falling edge.
LEMMA ScanStays ==
  ASSUME NEW t, TapOK(t)
  PROVE  ScanRegister(FallingEdge(t, FALSE)) = ScanRegister(t)
<1> DEFINE r == FallingEdge(t, FALSE)
<1>1. /\ r.fsm = t.fsm /\ r.latched_jtag_ir = LatchedInsnAfter(t, FALSE)
      /\ r.jtag_ir = t.jtag_ir /\ r.idcode_reg = t.idcode_reg /\ r.bypass_reg = t.bypass_reg
      /\ t.fsm \in TapStates
  BY FallingFields DEF TapOK, TapRegisters
<1> HIDE DEF r
<1>2. CASE t.fsm \in ScanDR
  <2>1. r.latched_jtag_ir = t.latched_jtag_ir
    BY <1>1, <1>2 DEF LatchedInsnAfter, ScanDR
  <2>2. DataScan(r) = DataScan(t)
    BY <1>1, <2>1 DEF DataScan
  <2>3. ScanRegister(r) = ScanRegister(t)
    BY <1>1, <1>2, <2>2, ScanCases
  <2> QED BY <2>3 DEF r
<1>3. CASE t.fsm \notin ScanDR
  <2>1. ScanRegister(r) = ScanRegister(t)
    BY <1>1, <1>3, ScanCases
  <2> QED BY <2>1 DEF r
<1> QED BY <1>2, <1>3

\* After a falling edge the code's port is where the standard's is.
LEMMA FallenIs ==
  ASSUME NEW t, TapOK(t)
  PROVE  Device(FallingEdge(t, FALSE)) = Probe!Fallen(Device(t))
<1> DEFINE r == FallingEdge(t, FALSE)
           d == Device(t)
<1>1. /\ r.fsm = t.fsm /\ r.latched_jtag_ir = LatchedInsnAfter(t, FALSE)
      /\ ScanRegister(r) = ScanRegister(t) /\ t.fsm \in TapStates
  BY FallingFields, ScanStays DEF TapOK, TapRegisters
<1>2. /\ d = [state |-> Standard[t.fsm], insn |-> t.latched_jtag_ir, scan |-> ScanRegister(t)]
      /\ d.state = Standard[t.fsm] /\ d.insn = t.latched_jtag_ir /\ d.scan = ScanRegister(t)
  BY DEF Device
<1> DEFINE insn == CASE d.state = <<"Test", "Reset">>   -> InsnIdcode
                     [] d.state = <<"IR", "Update">>    -> d.scan
                     [] OTHER                           -> d.insn
<1>3. insn = LatchedInsnAfter(t, FALSE)
  <2>1. CASE t.fsm = "TEST_LOGIC_RESET"
    <3>1. d.state = <<"Test", "Reset">>
      BY <1>2, <2>1 DEF Standard
    <3>2. insn = InsnIdcode
      BY <3>1
    <3> QED BY <2>1, <3>2 DEF LatchedInsnAfter
  <2>2. CASE t.fsm = "UPDATE_IR"
    <3>1. d.state = <<"IR", "Update">> /\ d.scan = t.jtag_ir
      BY <1>1, <1>2, <2>2, ScanCases DEF Standard, ScanIR
    <3>2. insn = t.jtag_ir
      BY <3>1
    <3> QED BY <2>2, <3>2 DEF LatchedInsnAfter
  <2>3. CASE t.fsm \notin {"TEST_LOGIC_RESET", "UPDATE_IR"}
    <3>1. /\ Standard[t.fsm][2] # "Reset"
          /\ Standard[t.fsm][2] = "Update" => Standard[t.fsm][1] = "DR"
      BY <1>1, <2>3 DEF Standard, TapStates
    <3>2. d.state # <<"Test", "Reset">> /\ d.state # <<"IR", "Update">>
      BY <1>2, <3>1
    <3>3. insn = t.latched_jtag_ir
      BY <1>2, <3>2
    <3> QED BY <2>3, <3>3 DEF LatchedInsnAfter
  <2> QED BY <2>1, <2>2, <2>3
<1>4. Probe!Fallen(d) = [d EXCEPT !.insn = insn]
  BY DEF Probe!Fallen
<1>5. Device(r) = [state |-> Standard[t.fsm], insn |-> LatchedInsnAfter(t, FALSE),
                   scan |-> ScanRegister(t)]
  BY <1>1 DEF Device
<1> HIDE DEF insn, d, r
<1>6. Device(r) = Probe!Fallen(d)
  BY <1>2, <1>3, <1>4, <1>5
<1> QED BY <1>6 DEF r, d

\* The code's port moves as the standard's does.
LEMMA TapMoves ==
  ASSUME NEW t, TapOK(t), OnesLead(t), NEW was \in Pins, NEW now \in Pins
  PROVE  Device(TapAfter(t, was, now, FALSE)) = Probe!Moved(Device(t), was, now)
<1>1. now.tms \in Bit /\ now.tdi \in Bit
  BY DEF Pins
<1> QED BY <1>1, RisenIs, FallenIs DEF TapAfter, Probe!Moved

\* A rising edge that still sees the reset.
LEMMA ResetIs ==
  ASSUME NEW t, TapOK(t), NEW tms, NEW tdi
  PROVE  Device(RisingEdge(t, tms, tdi, TRUE))
           = [state |-> <<"Test", "Reset">>, insn |-> t.latched_jtag_ir, scan |-> <<>>]
<1> DEFINE r == RisingEdge(t, tms, tdi, TRUE)
<1>1. r.fsm = "TEST_LOGIC_RESET" /\ r.latched_jtag_ir = t.latched_jtag_ir
  BY DEF TapOK, TapRegisters, RisingEdge, FsmAfter
<1> HIDE DEF r
<1>2. ScanRegister(r) = <<>>
  BY <1>1, ScanCases DEF TapStates, ScanIR, ScanDR
<1>3. Device(r) = [state |-> <<"Test", "Reset">>, insn |-> t.latched_jtag_ir, scan |-> <<>>]
  BY <1>1, <1>2 DEF Device, Standard
<1> QED BY <1>3 DEF r

\* In a Shift state TDO shows the bit that the scan register gives next.
Shows(t) ==
    Device(t).state[2] = "Shift" /\ Device(t).scan # <<>> => t.tdo = Head(Device(t).scan)

\* It does so from one falling edge to the next rising one.
LEMMA TapShows ==
  ASSUME NEW t, TapOK(t), NEW was \in Pins, NEW now \in Pins, was.tck = 0 => Shows(t),
         now.tck = 0
  PROVE  Shows(TapAfter(t, was, now, FALSE))
<1>1. CASE was.tck = 0
  BY <1>1 DEF TapAfter
<1>2. CASE was.tck = 1
  <2> DEFINE r == FallingEdge(t, FALSE)
  <2>1. TapAfter(t, was, now, FALSE) = r
    BY <1>2 DEF TapAfter
  <2>2. r.fsm = t.fsm /\ r.tdo = TdoMux(t) /\ ScanRegister(r) = ScanRegister(t) /\ t.fsm \in TapStates
    BY FallingFields, ScanStays DEF TapOK, TapRegisters
  <2> HIDE DEF r
  <2>3. ASSUME Standard[t.fsm][2] = "Shift", ScanRegister(t) # <<>>
        PROVE  TdoMux(t) = Head(ScanRegister(t))
    <3>1. t.fsm = "SHIFT_IR" \/ t.fsm = "SHIFT_DR"
      BY <2>2, <2>3 DEF Standard, TapStates
    <3>2. CASE t.fsm = "SHIFT_IR"
      BY <2>2, <3>2, ScanCases DEF TdoMux, ScanIR
    <3>3. CASE t.fsm = "SHIFT_DR"
      <4>1. ScanRegister(t) = DataScan(t)
        BY <2>2, <3>3, ScanCases DEF ScanDR
      <4>2. CASE t.latched_jtag_ir = InsnIdcode
        BY <3>3, <4>1, <4>2, TapAssumption DEF TdoMux, DataScan
      <4>3. CASE t.latched_jtag_ir = InsnBypass
        <5>1. TdoMux(t) = t.bypass_reg
          BY <3>3, <4>3, TapAssumption DEF TdoMux
        <5>2. DataScan(t) = <<t.bypass_reg>>
          BY <4>3, TapAssumption DEF DataScan
        <5> QED BY <4>1, <5>1, <5>2
      <4>4. CASE t.latched_jtag_ir # InsnIdcode /\ t.latched_jtag_ir # InsnBypass
        BY <2>3, <4>1, <4>4 DEF DataScan
      <4> QED BY <4>2, <4>3, <4>4
    <3> QED BY <3>1, <3>2, <3>3
  <2>4. Device(r).state = Standard[t.fsm] /\ Device(r).scan = ScanRegister(t)
    BY <2>2 DEF Device
  <2> QED BY <2>1, <2>2, <2>3, <2>4 DEF Shows
<1> QED BY <1>1, <1>2 DEF Pins, Bit

-----------------------------------------------------------------------------
(* The server is the probe *)

\* A command is served in a session only; wires follow the pins; TDO shows the scan bit.
ServedOK ==
    /\ pc = "read" => connected /\ tdo = tap.tdo
    /\ pc = "reply" => connected
    /\ pc = "accept" => ~connected
    /\ connected => wires = pins
    /\ wires = pins \/ (wires = [tck |-> 0, tms |-> 0, tdi |-> 0] /\ pins = [tck |-> 1, tms |-> 1, tdi |-> 1])
    /\ wires.tck = 0 => Shows(tap)

\* At power-up nobody is served and TDO shows the bit of a cleared register.
LEMMA ServedInit ==
  ASSUME Init
  PROVE  ServedOK
<1>1. PICK s \in PowerUp : tap = PowerUpTap(s)
  BY DEF Init
<1>2. Shows(tap)
  <2>1. TapOK(tap)
    BY TypeInit DEF TypeInv, PortOK
  <2>2. /\ tap.tdo = 0 /\ tap.bypass_reg = 0
        /\ tap.jtag_ir = [k \in DOMAIN InsnCapture |-> 0]
        /\ tap.idcode_reg = [k \in DOMAIN IdcodeValue |-> 0]
    BY <1>1 DEF PowerUpTap
  <2>3. 1 \in DOMAIN InsnCapture /\ 1 \in DOMAIN IdcodeValue
    BY Widths, LenProperties
  <2>4. tap.jtag_ir[1] = 0 /\ tap.idcode_reg[1] = 0
    BY <2>2, <2>3
  <2>5. Head(tap.jtag_ir) = 0 /\ Head(tap.idcode_reg) = 0
    BY <2>1, <2>4 DEF TapOK, TapRegisters
  <2>6. ScanRegister(tap) \in {tap.jtag_ir, tap.idcode_reg, <<tap.bypass_reg>>, <<>>}
    BY DEF ScanRegister
  <2>7. ScanRegister(tap) # <<>> => Head(ScanRegister(tap)) = 0
    BY <2>2, <2>5, <2>6
  <2> QED BY <2>2, <2>7 DEF Shows, Device
<1>3. pc = "sim" /\ connected = FALSE
  BY DEF Init
<1>4. wires = [tck |-> 0, tms |-> 0, tdi |-> 0] /\ pins = [tck |-> 1, tms |-> 1, tdi |-> 1]
  BY DEF Init
<1> QED BY <1>2, <1>3, <1>4 DEF ServedOK

\* The end of a command puts the pins on the wires.
LEMMA FinishServed ==
  ASSUME TypeInv, ServedOK, NEW quit, NEW rest, NEW answers, NEW now \in Pins,
         FinishCommand(quit, rest, answers, now), pins' = now
  PROVE  ServedOK'
<1>1. /\ wires' = now /\ tap' = TapAfter(tap, wires, now, FALSE) /\ pc' = "sim"
  BY DEF FinishCommand, ReturnWith
<1>2. TapOK(tap) /\ wires \in Pins /\ (wires.tck = 0 => Shows(tap))
  BY DEF TypeInv, PortOK, ServedOK
<1>3. now.tck = 0 => Shows(tap')
  BY <1>1, <1>2, TapShows
<1>4. Shows(tap)' <=> Shows(tap')
  BY DEF Shows, Device, ScanRegister
<1> QED BY <1>1, <1>3, <1>4 DEF ServedOK

\* A command that is executed leaves the port as its pins ask.
LEMMA ExecuteServed ==
  ASSUME TypeInv, ServedOK, pc = "read", NEW c, NEW rest, Execute(c, rest)
  PROVE  ServedOK'
<1> DEFINE now == IF c \in DOMAIN SetPins THEN SetPins[c] ELSE pins
<1>1. now \in Pins /\ pins' = now
  BY SetPinsType DEF TypeInv, ServerTypeOK, Execute
<1>2. CASE c = "R"
  <2>1. /\ pc' = "reply" /\ wires' = wires /\ tap' = tap /\ connected' = connected /\ pins' = pins
    BY <1>2, SetPinsType DEF Execute, simVars
  <2>2. Shows(tap)' <=> Shows(tap)
    BY <2>1 DEF Shows, Device, ScanRegister
  <2> QED BY <2>1, <2>2 DEF ServedOK
<1>3. CASE c # "R"
  <2>1. FinishCommand(quit_request', rest, to_client, now)
    BY <1>3 DEF Execute
  <2> HIDE DEF now
  <2> QED BY <1>1, <2>1, FinishServed
<1> QED BY <1>2, <1>3

\* Every step keeps TDO, wires and session in agreement.
LEMMA ServedStep ==
  ASSUME TypeInv, ServedOK, [Next]_vars
  PROVE  ServedOK'
<1>1. ASSUME UNCHANGED <<wires, tap>> PROVE Shows(tap)' <=> Shows(tap)
  BY <1>1 DEF Shows, Device, ScanRegister
<1>2. CASE SimChangeClk
  <2>1. UNCHANGED <<wires, tap, pins, connected>>
    BY <1>2 DEF SimChangeClk
  <2>2. /\ pc' \in {"sim", "read", "accept"}
        /\ pc' = "read" => connected /\ tdo' = tap.tdo
        /\ pc' = "accept" => ~connected
    BY <1>2 DEF SimChangeClk, PosedgeClk, Tick
  <2> QED BY <1>1, <2>1, <2>2 DEF ServedOK
<1>3. CASE AcceptOocd
  <2>1. PICK trst \in BOOLEAN : tap' = TapAfter(tap, wires, pins, trst)
    BY <1>3 DEF AcceptOocd, ReturnWith
  <2>2. pc' = "sim" /\ wires' = pins /\ pins' = pins
    BY <1>3 DEF AcceptOocd, ReturnWith
  <2>3. pins.tck = 0 => wires = pins /\ Shows(tap)
    BY DEF ServedOK
  <2>4. pins.tck = 0 => tap' = tap
    BY <2>1, <2>3 DEF TapAfter
  <2>5. pins.tck = 0 => Shows(tap)'
    BY <1>1, <2>2, <2>3, <2>4
  <2> QED BY <2>2, <2>5 DEF ServedOK
<1>4. CASE ReadCommand
  BY <1>4, ExecuteServed DEF ReadCommand
<1>5. CASE ReadEndOfFile
  <2>1. PICK c \in Commands : Execute(c, <<>>)
    BY <1>5 DEF ReadEndOfFile
  <2>2. pc = "read"
    BY <1>5 DEF ReadEndOfFile
  <2> QED BY <2>1, <2>2, ExecuteServed
<1>6. CASE WriteReply
  <2>1. /\ FinishCommand(quit_request, to_server, Append(to_client, reply_char), pins)
        /\ pins' = pins /\ pins \in Pins
    BY <1>6 DEF WriteReply, TypeInv, ServerTypeOK
  <2> QED BY <2>1, FinishServed
<1>7. CASE SocketError
  BY <1>1, <1>7 DEF SocketError, simVars, ServedOK
<1>8. ASSUME UNCHANGED <<simVars, serverVars>> PROVE ServedOK'
  BY <1>1, <1>8 DEF simVars, serverVars, ServedOK
<1>9. CASE Client \/ UNCHANGED vars
  BY <1>8, <1>9 DEF Client, Connect, Send, TakeReply, Vanish, vars
<1> QED BY <1>2, <1>3, <1>4, <1>5, <1>6, <1>7, <1>9 DEF Next, Server

-----------------------------------------------------------------------------
(* Every step of the server is a step of the probe, or none *)

\* What the client has not taken, with the answer being written
Answers == IF pc = "reply" THEN Append(to_client, reply_char) ELSE to_client
Open == connected /\ ~(pc = "reply" /\ quit_request)

LEMMA Stutter ==
  ASSUME UNCHANGED <<to_server, Answers, wires, tap, Open, quit_request, vanished>>
  PROVE  UNCHANGED Probe!probeVars
  BY DEF Probe!probeVars, Answers, Open, Device, ScanRegister

\* The next command.
LEMMA ExecuteRefines ==
  ASSUME TypeInv, ServedOK, pc = "read", to_server # <<>>,
         Execute(Head(to_server), Tail(to_server))
  PROVE  Probe!Execute
<1> DEFINE c == Head(to_server)
           now == IF c \in DOMAIN SetPins THEN SetPins[c] ELSE wires
<1>1. /\ connected /\ wires = pins /\ tdo = tap.tdo
      /\ wires.tck = 0 => Shows(tap)
  BY DEF ServedOK
<1>2. wires \in Pins /\ now \in Pins /\ TapOK(tap) /\ OnesLead(tap) /\ tap.tdo \in Bit
  BY SetPinsType DEF TypeInv, PortOK, TapOK, TapRegisters
<1>3. quit_request' = (quit_request \/ c = "Q") /\ quit_request' \in BOOLEAN
  BY DEF Execute, TypeInv, ServerTypeOK
<1>4. CASE c = "R"
  <2>1. /\ pc' = "reply" /\ reply_char' = tap.tdo /\ to_server' = Tail(to_server)
        /\ UNCHANGED <<wires, tap, connected, to_client, vanished>>
    BY <1>1, <1>4 DEF Execute, simVars, clientVars
  <2>2. c \notin DOMAIN SetPins /\ now = wires
    BY <1>4, SetPinsType
  <2>3. Device(tap)' = Device(tap)
    BY <2>1 DEF Device, ScanRegister
  <2>4. Probe!Moved(Device(tap), wires, wires) = Device(tap)
    BY DEF Probe!Moved
  <2>5. tap.tdo \in Probe!Readable
    BY <1>1, <1>2 DEF Probe!Readable, Shows, Bit
  <2>6. (IF pc = "reply" THEN Append(to_client, reply_char) ELSE to_client)'
           = Append(IF pc = "reply" THEN Append(to_client, reply_char) ELSE to_client, tap.tdo)
    BY <2>1
  <2>7. /\ connected /\ ~(pc = "reply" /\ quit_request)
        /\ (connected /\ ~(pc = "reply" /\ quit_request))' = ~quit_request'
    BY <1>1, <1>3, <2>1
  <2> QED BY <1>3, <1>4, <2>1, <2>2, <2>3, <2>4, <2>5, <2>6, <2>7 DEF Probe!Execute
<1>5. CASE c # "R"
  <2>1. FinishCommand(quit_request', Tail(to_server), to_client, now)
    BY <1>1, <1>5 DEF Execute
  <2>2. /\ wires' = now /\ tap' = TapAfter(tap, wires, now, FALSE) /\ pc' = "sim"
        /\ vanished' = vanished
    BY <2>1, FinishRoom DEF FinishCommand, ReturnWith
  <2>3. Device(tap)' = Probe!Moved(Device(tap), wires, now)
    <3>1. Device(tap)' = Device(tap')
      BY DEF Device, ScanRegister
    <3> HIDE DEF now
    <3> QED BY <1>2, <2>2, <3>1, TapMoves
  <2>4. /\ connected' = ~quit_request'
        /\ to_server' = IF quit_request' THEN <<>> ELSE Tail(to_server)
        /\ to_client' = IF quit_request' THEN <<>> ELSE to_client
    BY <1>1, <1>3, <2>1 DEF FinishCommand, Closed
  <2>5. /\ (IF pc = "reply" THEN Append(to_client, reply_char) ELSE to_client)' = to_client'
        /\ (IF pc = "reply" THEN Append(to_client, reply_char) ELSE to_client) = to_client
    BY <2>2
  <2>6. /\ connected /\ ~(pc = "reply" /\ quit_request)
        /\ (connected /\ ~(pc = "reply" /\ quit_request))' = ~quit_request'
    BY <1>1, <1>3, <2>2, <2>4
  <2> QED BY <1>3, <1>5, <2>2, <2>3, <2>4, <2>5, <2>6 DEF Probe!Execute
<1> QED BY <1>4, <1>5

\* The server takes a client: the first time the pins rise, perhaps still in reset.
LEMMA AcceptRefines ==
  ASSUME TypeInv, ServedOK, AcceptOocd
  PROVE  Probe!Attach
<1>1. /\ ~connected /\ pc = "accept" /\ pc' = "sim" /\ connected' = TRUE /\ wires' = pins
      /\ UNCHANGED <<to_server, to_client, quit_request, vanished>>
  BY DEF AcceptOocd, ServedOK, channels, clientVars, ReturnWith
<1>2. PICK trst \in BOOLEAN : tap' = TapAfter(tap, wires, pins, trst)
  BY DEF AcceptOocd, ReturnWith
<1>3. TapOK(tap) /\ OnesLead(tap) /\ wires \in Pins /\ pins \in Pins
  BY DEF TypeInv, PortOK, ServerTypeOK
<1>4. Device(tap)' = Device(tap')
  BY DEF Device, ScanRegister
<1>5. wires' \in {wires, [tck |-> 1, tms |-> 1, tdi |-> 1]}
  BY <1>1 DEF ServedOK
<1>6. \/ Device(tap)' = Probe!Moved(Device(tap), wires, wires')
      \/ wires' # wires /\ Device(tap)' = [state |-> <<"Test", "Reset">>, insn |-> Device(tap).insn, scan |-> <<>>]
  <2>1. CASE trst = FALSE
    BY <1>1, <1>2, <1>3, <1>4, <2>1, TapMoves
  <2>2. CASE trst = TRUE /\ wires = pins
    <3>1. tap' = tap /\ wires' = wires
      <4>1. TapAfter(tap, wires, wires, trst) = tap
        BY TapIdles
      <4> QED BY <1>1, <1>2, <2>2, <4>1
    <3>2. Device(tap)' = Device(tap)
      BY <3>1 DEF Device, ScanRegister
    <3> QED BY <3>1, <3>2 DEF Probe!Moved
  <2>3. CASE trst = TRUE /\ wires # pins
    <3>1. wires.tck = 0 /\ pins.tck = 1
      BY <2>3 DEF ServedOK
    <3>2. tap' = RisingEdge(tap, pins.tms, pins.tdi, TRUE)
      BY <1>2, <2>3, <3>1 DEF TapAfter
    <3>3. Device(tap') = [state |-> <<"Test", "Reset">>, insn |-> tap.latched_jtag_ir, scan |-> <<>>]
      BY <1>3, <3>2, ResetIs
    <3>4. Device(tap).insn = tap.latched_jtag_ir
      BY DEF Device
    <3> QED BY <1>1, <1>4, <2>3, <3>3, <3>4
  <2> QED BY <2>1, <2>2, <2>3
<1>7. UNCHANGED (IF pc = "reply" THEN Append(to_client, reply_char) ELSE to_client)
  BY <1>1
<1>8. /\ ~(connected /\ ~(pc = "reply" /\ quit_request))
      /\ (connected /\ ~(pc = "reply" /\ quit_request))' = TRUE
  BY <1>1
<1> QED BY <1>1, <1>5, <1>6, <1>7, <1>8 DEF Probe!Attach

\* An answer is written: nothing happens to the probe, or a session that quit ends.
LEMMA WriteRefines ==
  ASSUME TypeInv, ServedOK, WriteReply
  PROVE  Probe!End \/ UNCHANGED Probe!probeVars
<1>1. /\ pc = "reply" /\ connected /\ wires = pins
      /\ FinishCommand(quit_request, to_server, Append(to_client, reply_char), pins)
      /\ UNCHANGED quit_request
  BY DEF WriteReply, ServedOK
<1>2. pc' = "sim" /\ vanished' = vanished /\ wires' = wires /\ tap' = tap
  <2>1. pc' = "sim" /\ vanished' = vanished
    BY <1>1, FinishRoom
  <2>2. wires' = wires /\ tap' = TapAfter(tap, wires, wires, FALSE)
    BY <1>1 DEF FinishCommand, ReturnWith
  <2>3. TapAfter(tap, wires, wires, FALSE) = tap
    BY TapIdles
  <2> QED BY <2>1, <2>2, <2>3
<1>3. CASE quit_request
  <2>1. connected' = FALSE /\ to_server' = <<>> /\ to_client' = <<>>
    BY <1>1, <1>3 DEF FinishCommand, Closed
  <2>2. Device(tap)' = Device(tap)
    BY <1>2 DEF Device, ScanRegister
  <2>3. /\ (IF pc = "reply" THEN Append(to_client, reply_char) ELSE to_client)' = <<>>
        /\ ~(connected /\ ~(pc = "reply" /\ quit_request))
        /\ (connected /\ ~(pc = "reply" /\ quit_request))'
              = (connected /\ ~(pc = "reply" /\ quit_request))
    BY <1>1, <1>2, <1>3, <2>1
  <2> QED BY <1>1, <1>2, <1>3, <2>1, <2>2, <2>3 DEF Probe!End
<1>4. CASE ~quit_request
  <2>1. connected' = connected /\ to_server' = to_server /\ to_client' = Append(to_client, reply_char)
    BY <1>1, <1>4 DEF FinishCommand
  <2>2. UNCHANGED Answers /\ UNCHANGED Open
    BY <1>1, <1>2, <1>4, <2>1 DEF Answers, Open
  <2> QED BY <1>1, <1>2, <2>1, <2>2, Stutter
<1> QED BY <1>3, <1>4

\* The client takes an answer: the probe's step Take.
LEMMA TakeRefines ==
  ASSUME TypeInv, TakeReply
  PROVE  Probe!Take
<1>1. /\ to_client # <<>> /\ to_client' = Tail(to_client) /\ to_client \in Seq(Bit) /\ reply_char \in Bit
      /\ UNCHANGED <<pc, reply_char, connected, quit_request, wires, tap, to_server, vanished>>
  BY DEF TakeReply, TypeInv, ChannelsOK, ServerTypeOK, simVars, serverVars, clientVars
<1>2. /\ Append(to_client, reply_char) # <<>>
      /\ Tail(Append(to_client, reply_char)) = Append(Tail(to_client), reply_char)
  BY <1>1
<1>3. /\ (IF pc = "reply" THEN Append(to_client, reply_char) ELSE to_client) # <<>>
      /\ (IF pc = "reply" THEN Append(to_client, reply_char) ELSE to_client)'
            = Tail(IF pc = "reply" THEN Append(to_client, reply_char) ELSE to_client)
  BY <1>1, <1>2
<1>4. Device(tap)' = Device(tap)
  BY <1>1 DEF Device, ScanRegister
<1>5. UNCHANGED (connected /\ ~(pc = "reply" /\ quit_request))
  BY <1>1
<1> QED BY <1>1, <1>3, <1>4, <1>5 DEF Probe!Take

\* The client sends a command: the probe's step Issue.
LEMMA SendRefines ==
  ASSUME NEW c \in Commands, Send(c)
  PROVE  Probe!Issue
<1>1. /\ to_server' = Append(to_server, c)
      /\ UNCHANGED <<to_client, pc, reply_char, connected, quit_request, wires, tap, vanished>>
  BY DEF Send, simVars, serverVars
<1>2. Device(tap)' = Device(tap)
  BY <1>1 DEF Device, ScanRegister
<1>3. /\ UNCHANGED (IF pc = "reply" THEN Append(to_client, reply_char) ELSE to_client)
      /\ UNCHANGED (connected /\ ~(pc = "reply" /\ quit_request))
  BY <1>1
<1> QED BY <1>1, <1>2, <1>3 DEF Probe!Issue

\* Until a client is lost each step of the system is a step of the probe or none;
\* the step that loses one, and every later one, is allowed.
LEMMA StepRefines ==
  ASSUME TypeInv, RoomOK, ServedOK, TypeInv', RoomOK', [Next]_vars
  PROVE  [Probe!Next]_(Probe!probeVars)
<1>1. SUFFICES ASSUME vanished' # TRUE
               PROVE  Probe!Next \/ UNCHANGED Probe!probeVars
  BY DEF Probe!Next, Probe!Lose
<1>2. client' # "gone" /\ vanished \in BOOLEAN /\ vanished' \in BOOLEAN
  BY <1>1 DEF RoomOK, TypeInv, ClientOK
<1>3. CASE SimChangeClk
  <2>1. UNCHANGED <<to_server, Answers, wires, tap, Open, quit_request, vanished>>
    BY <1>3 DEF SimChangeClk, PosedgeClk, Tick, Answers, Open, clientVars, channels
  <2> QED BY <2>1, Stutter
<1>4. CASE AcceptOocd
  BY <1>4, AcceptRefines DEF Probe!Next
<1>5. CASE ReadCommand
  BY <1>5, ExecuteRefines DEF ReadCommand, Probe!Next
<1>6. CASE ReadEndOfFile
  <2>1. vanished
    BY <1>6 DEF ReadEndOfFile, RoomOK
  <2>2. PICK c \in Commands : Execute(c, <<>>)
    BY <1>6 DEF ReadEndOfFile
  <2>3. vanished' = vanished
    BY <2>2, FinishRoom DEF Execute, clientVars
  <2> QED BY <1>1, <1>2, <2>1, <2>3
<1>7. CASE WriteReply
  BY <1>7, WriteRefines DEF Probe!Next
<1>8. CASE SocketError
  <2>1. pc' = "aborted"
    BY <1>8 DEF SocketError
  <2> QED BY <1>1, <1>2, <2>1 DEF RoomOK
<1>9. CASE Connect
  <2>1. UNCHANGED <<to_server, Answers, wires, tap, Open, quit_request, vanished>>
    BY <1>9 DEF Connect, Answers, Open, simVars, serverVars, channels
  <2> QED BY <2>1, Stutter
<1>10. ASSUME NEW c \in Commands, Send(c) PROVE Probe!Next
  BY <1>10, SendRefines DEF Probe!Next
<1>11. CASE TakeReply
  BY <1>11, TakeRefines DEF Probe!Next
<1>12. CASE Vanish
  BY <1>1, <1>12 DEF Vanish
<1>13. CASE UNCHANGED vars
  <2>1. UNCHANGED <<to_server, Answers, wires, tap, Open, quit_request, vanished>>
    BY <1>13 DEF vars, Answers, Open, simVars, serverVars, clientVars, channels
  <2> QED BY <2>1, Stutter
<1> QED BY <1>3, <1>4, <1>5, <1>6, <1>7, <1>8, <1>9, <1>10, <1>11, <1>12, <1>13
        DEF Next, Server, Client

\* The simulator starts as a probe without a session, its port in some state.
LEMMA InitRefines ==
  ASSUME Init
  PROVE  Probe!Init
<1>1. Device(tap).state \in Probe!States
  <2>1. tap.fsm \in TapStates
    BY TypeInit DEF TypeInv, PortOK, TapOK, TapRegisters
  <2>2. \A s \in TapStates : Standard[s] \in Probe!States
    <3>1. SUFFICES ASSUME NEW s \in TapStates PROVE Standard[s] \in Probe!States
      OBVIOUS
    <3>2. CASE s \in {"TEST_LOGIC_RESET", "RUN_TEST_IDLE"}
      BY <3>2 DEF Standard, Probe!States
    <3>3. CASE s \in ScanDR \cup {"SELECT_DR_SCAN", "CAPTURE_DR"}
      BY <3>3 DEF Standard, Probe!States, Probe!Scanning, ScanDR
    <3>4. CASE s \in ScanIR \cup {"SELECT_IR_SCAN", "CAPTURE_IR"}
      BY <3>4 DEF Standard, Probe!States, Probe!Scanning, ScanIR
    <3> QED BY <3>2, <3>3, <3>4 DEF TapStates, ScanDR, ScanIR
  <2> QED BY <2>1, <2>2 DEF Device
<1>2. /\ to_server = <<>> /\ to_client = <<>> /\ pc = "sim"
      /\ wires = [tck |-> 0, tms |-> 0, tdi |-> 0]
      /\ connected = FALSE /\ quit_request = FALSE /\ vanished = FALSE
  BY DEF Init
<1>3. /\ (IF pc = "reply" THEN Append(to_client, reply_char) ELSE to_client) = <<>>
      /\ (connected /\ ~(pc = "reply" /\ quit_request)) = FALSE
  BY <1>2
<1> QED BY <1>1, <1>2, <1>3 DEF Probe!Init

\* The server, the simulation and the code's port together are the probe of JtagProbe
\* until a client is lost: commands are executed once and in order on a standard port,
\* and each question is answered with the bit that this port shows.
THEOREM TheServerIsAProbe == Spec => ServesProbe
<1> DEFINE Inv == TypeInv /\ RoomOK /\ ServedOK
<1>1. Init => Inv
  BY TypeInit, ServedInit, RoomInit
<1>2. Inv /\ [Next]_vars => Inv'
  BY TypeStep, ServedStep, RoomStep
<1>3. Inv /\ Inv' /\ [Next]_vars => [Probe!Next]_(Probe!probeVars)
  BY StepRefines
<1>4. Init => Probe!Init
  BY InitRefines
<1> HIDE DEF Inv
<1> QED BY <1>1, <1>2, <1>3, <1>4, PTL DEF Spec, ServesProbe, Probe!Spec
=============================================================================
