----------------------------- MODULE JtagProbe -----------------------------
(***************************************************************************)
(* What a debugger may expect of a remote JTAG probe: the commands of a    *)
(* session are executed in order, each once, on an IEEE 1149.1 test access *)
(* port, and every read is answered with the bit that the port shows then. *)
(*                                                                         *)
(* There is no server, no clock and no socket here, and the port is the    *)
(* standard's: its states are built from one scan path of phases used by   *)
(* both columns, with one scan register, not from the code's table of      *)
(* sixteen states and its separate registers.  TDO is only promised in a   *)
(* Shift phase while TCK is low; any bit may be read at other times.       *)
(* Once a client is lost without a quit, nothing is promised any more.     *)
(***************************************************************************)
EXTENDS Naturals, Sequences

CONSTANTS InsnCapture, InsnIdcode, InsnBypass, IdcodeValue,
          Bytes,        \* what a client may send
          PinsOf        \* the pins that a byte sets, for the bytes that set pins

VARIABLES
    queue,      \* commands issued and not executed
    answers,    \* answers not yet taken by the client
    level,      \* the pins TCK, TMS, TDI
    device,     \* the port: state, instruction, scan register
    open,       \* the session may execute a command
    quit,       \* some client has quit
    lost        \* some client went away without a quit

probeVars == <<queue, answers, level, device, open, quit, lost>>

-----------------------------------------------------------------------------
(* The IEEE 1149.1 port *)

Scanning == {"Shift", "Exit1", "Pause", "Exit2", "Update"}

States == {<<"Test", "Reset">>, <<"Test", "Idle">>}
            \cup ({"DR", "IR"} \X ({"Select", "Capture"} \cup Scanning))

\* Along one scan path, as the pair <<TMS = 0, TMS = 1>>
Phases ==
    [Capture |-> <<"Shift", "Exit1">>, Shift |-> <<"Shift", "Exit1">>,
     Exit1   |-> <<"Pause", "Update">>, Pause |-> <<"Pause", "Exit2">>,
     Exit2   |-> <<"Shift", "Update">>]

StateAfter(state, tms) ==
    CASE state[2] = "Reset"                -> IF tms = 1 THEN state ELSE <<"Test", "Idle">>
      [] state[2] \in {"Idle", "Update"}   -> IF tms = 1 THEN <<"DR", "Select">>
                                                         ELSE <<"Test", "Idle">>
      [] state = <<"DR", "Select">>        -> IF tms = 1 THEN <<"IR", "Select">>
                                                         ELSE <<"DR", "Capture">>
      [] state = <<"IR", "Select">>        -> IF tms = 1 THEN <<"Test", "Reset">>
                                                         ELSE <<"IR", "Capture">>
      [] OTHER                             -> <<state[1], Phases[state[2]][tms + 1]>>

\* What a capture loads into the scan register
Captured(d) ==
    CASE d.state[1] = "IR"                            -> InsnCapture
      [] d.state[1] = "DR" /\ d.insn = InsnIdcode     -> IdcodeValue
      [] d.state[1] = "DR" /\ d.insn = InsnBypass     -> <<0>>
      [] OTHER                                        -> <<>>

ScanAfter(d, tms, tdi) ==
    LET scan == CASE d.state[2] = "Capture"                  -> Captured(d)
                  [] d.state[2] = "Shift" /\ d.scan # <<>>   -> Append(Tail(d.scan), tdi)
                  [] OTHER                                   -> d.scan
    IN  IF StateAfter(d.state, tms)[2] \in Scanning THEN scan ELSE <<>>

Risen(d, tms, tdi) ==
    [state |-> StateAfter(d.state, tms), insn |-> d.insn, scan |-> ScanAfter(d, tms, tdi)]

Fallen(d) ==
    [d EXCEPT !.insn = CASE d.state = <<"Test", "Reset">>   -> InsnIdcode
                         [] d.state = <<"IR", "Update">>    -> d.scan
                         [] OTHER                           -> d.insn]

Moved(d, was, now) ==
    IF was.tck = 0 /\ now.tck = 1 THEN Risen(d, now.tms, now.tdi)
    ELSE IF was.tck = 1 /\ now.tck = 0 THEN Fallen(d)
    ELSE d

\* The bits a read may be answered with
Readable ==
    IF level.tck = 0 /\ device.state[2] = "Shift" /\ device.scan # <<>>
    THEN {Head(device.scan)}
    ELSE {0, 1}

-----------------------------------------------------------------------------
Init ==
    /\ queue = <<>> /\ answers = <<>>
    /\ level = [tck |-> 0, tms |-> 0, tdi |-> 0]
    /\ device.state \in States
    /\ open = FALSE /\ quit = FALSE /\ lost = FALSE

\* The client issues a command, before or after the probe takes the session.
Issue ==
    /\ \E c \in Bytes : queue' = Append(queue, c)
    /\ UNCHANGED <<answers, level, device, open, quit, lost>>

\* The probe takes a session.  It leaves the pins at rest, all 1: the first time
\* this is a rising edge of TCK, and a port still in reset stays in it.
Attach ==
    /\ ~open
    /\ open' = TRUE
    /\ \E now \in {level, [tck |-> 1, tms |-> 1, tdi |-> 1]} :
         /\ level' = now
         /\ \/ device' = Moved(device, level, now)
            \/ now # level /\ device' = [state |-> <<"Test", "Reset">>, insn |-> device.insn,
                                         scan |-> <<>>]
    /\ UNCHANGED <<queue, answers, quit, lost>>

\* The next command; after a quit a session executes only one.
Execute ==
    /\ open /\ queue # <<>>
    /\ LET c == Head(queue)
           now == IF c \in DOMAIN PinsOf THEN PinsOf[c] ELSE level
       IN  /\ level' = now
           /\ device' = Moved(device, level, now)
           /\ quit' = (quit \/ c = "Q")
           /\ open' = ~quit'
           /\ IF c = "R" THEN \E b \in Readable : answers' = Append(answers, b)
                         ELSE answers' = IF quit' THEN <<>> ELSE answers
           /\ queue' = IF quit' /\ c # "R" THEN <<>> ELSE Tail(queue)
    /\ UNCHANGED lost

Take ==
    /\ answers # <<>>
    /\ answers' = Tail(answers)
    /\ UNCHANGED <<queue, level, device, open, quit, lost>>

\* After a quit the session ends with what was not taken.
End ==
    /\ quit /\ ~open
    /\ queue' = <<>> /\ answers' = <<>>
    /\ UNCHANGED <<level, device, open, quit, lost>>

Lose == lost' = TRUE

Next == Issue \/ Attach \/ Execute \/ Take \/ End \/ Lose

Spec == Init /\ [][Next]_probeVars
=============================================================================
