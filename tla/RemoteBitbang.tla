--------------------------- MODULE RemoteBitbang ---------------------------
(***************************************************************************)
(* Remote JTAG over OpenOCD's bitbang protocol: a simulated CPU whose JTAG *)
(* pins are driven by the commands of a TCP client.                        *)
(*                                                                         *)
(*   client == TCP ==> OocdRemoteBitbang --pins--> SimDpiJtag --> JtagTap  *)
(*                                                                         *)
(* One thread runs the simulation.  Each change of the clock evaluates the *)
(* design (sim_change_clk); on a rising edge, once in TckPeriod clocks,    *)
(* SimDpiJtag calls dpi_jtag_tick, which waits for a client or for one     *)
(* command with the whole simulation stopped, then sets the pins.  The     *)
(* client runs beside it: it sends without waiting, reads answers when it  *)
(* likes, and may go away at any moment.                                   *)
(*                                                                         *)
(* External, modelled by what the code relies on: the TCP stream (ordered, *)
(* lossless, bounded by the socket buffers) and the client, which drives a *)
(* JTAG clock as OpenOCD does: TCK low with TMS and TDI, then TCK high.    *)
(***************************************************************************)
EXTENDS JtagTap, FiniteSets

CONSTANTS
    TckPeriod,      \* TCK_PERIOD: clocks from one tick to the next
    ResetClocks,    \* clocks with rst = 1 before the simulation runs
    PowerUp,        \* controller states a simulation may start from
    Window,         \* bytes the client may have under way (bounds the model)
    ReplyRoom,      \* answers the socket holds before a write fails
    MaxBytes,       \* bytes all clients send (bounds the model)
    MaxStray,       \* commands taken from an unwritten variable (bounds the model)
    MaxSessions     \* sessions (bounds the model)

ASSUME BitbangAssumption ==
    /\ TckPeriod \in Nat \ {0} /\ ResetClocks \in Nat \ {0}
    /\ PowerUp \subseteq TapStates
    /\ Window \in Nat \ {0} /\ ReplyRoom \in Nat \ {0}
    /\ MaxBytes \in Nat /\ MaxStray \in Nat /\ MaxSessions \in Nat

VARIABLES
    \* the simulation
    main_time,      \* parity of the simulation time: the next value of clk
    clk, tick_counter, reset_left,
    wires,          \* tck, tms, tdi of SimDpiJtag
    tap,            \* the registers of the test access port
    \* the server
    pc,             \* where the thread is
    pins,           \* tck_, tms_, tdi_ (trstn_ is always 1)
    tdo,            \* tdo_, sampled at the tick
    reply_char, quit_request, connected,
    \* the client and its connection
    client, to_server, to_client, sent, sessions,
    last_pin,       \* the last pin command the client sent
    vanished,       \* some client went away without a quit
    stray           \* commands taken from an unwritten variable

simVars == <<main_time, clk, tick_counter, reset_left, wires, tap>>
serverVars == <<pc, pins, tdo, reply_char, quit_request, connected>>
clientVars == <<client, sent, sessions, last_pin, vanished>>
channels == <<to_server, to_client>>
vars == <<simVars, serverVars, clientVars, channels, stray>>

Pins == [tck : Bit, tms : Bit, tdi : Bit]

\* set_pins, by command: bit 2 of the digit is TCK, bit 1 TMS, bit 0 TDI
SetPins ==
    LET pin(k, m, d) == [tck |-> k, tms |-> m, tdi |-> d]
    IN  [c \in {"0", "1", "2", "3", "4", "5", "6", "7"} |->
           CASE c = "0" -> pin(0, 0, 0) [] c = "1" -> pin(0, 0, 1)
             [] c = "2" -> pin(0, 1, 0) [] c = "3" -> pin(0, 1, 1)
             [] c = "4" -> pin(1, 0, 0) [] c = "5" -> pin(1, 0, 1)
             [] c = "6" -> pin(1, 1, 0) [] c = "7" -> pin(1, 1, 1)]

\* "r" stands for the commands that do nothing: B, b, r (reset() is empty) and
\* every byte that is not a command
Commands == DOMAIN SetPins \cup {"R", "Q", "r"}

Places == {"sim", "accept", "read", "reply", "aborted"}

-----------------------------------------------------------------------------
(* The simulation: verilator_tick.cpp, SimDpiJtag *)

\* The tick: sample TDO, then go and wait for a client or for a command.
Tick ==
    IF connected
    THEN pc' = "read" /\ tdo' = tap.tdo
    ELSE pc' = "accept" /\ UNCHANGED tdo

\* always @(posedge clk) of SimDpiJtag
PosedgeClk ==
    IF reset_left > 0
    THEN /\ reset_left' = reset_left - 1
         /\ tick_counter' = 0
         /\ UNCHANGED <<pc, tdo>>
    ELSE /\ tick_counter' = (tick_counter + 1) % TckPeriod
         /\ IF tick_counter % TckPeriod = 0 THEN Tick ELSE UNCHANGED <<pc, tdo>>
         /\ UNCHANGED reset_left

SimChangeClk ==
    /\ pc = "sim"
    /\ clk' = main_time
    /\ main_time' = 1 - main_time
    /\ IF clk = 0 /\ main_time = 1
       THEN PosedgeClk
       ELSE UNCHANGED <<tick_counter, reset_left, pc, tdo>>
    /\ UNCHANGED <<wires, tap, pins, reply_char, quit_request, connected>>
    /\ UNCHANGED <<clientVars, channels, stray>>

\* The end of a tick: the call returns, the wires take the pins and the port sees
\* the edge; in the first call TRSTN goes from its power-up 0 to 1 with the edge,
\* so the port may still see the reset.
ReturnWith(now, first) ==
    /\ wires' = now
    /\ \E trst \in (IF first THEN BOOLEAN ELSE {FALSE}) : tap' = TapAfter(tap, wires, now, trst)
    /\ UNCHANGED <<main_time, clk, tick_counter, reset_left>>

-----------------------------------------------------------------------------
(* The server: OocdRemoteBitbang *)

\* accept fails with an error of the connection: its client is gone again.  The errors
\* of the machine under the simulator (no file descriptor left) are not modelled.
AcceptFails == pc = "accept" /\ client = "gone"

\* accept_oocd: the wait is over when the socket has a client.
AcceptOocd ==
    /\ pc = "accept"
    /\ client \in {"on", "quit", "gone"}
    /\ connected' = TRUE
    /\ pc' = "sim"
    /\ ReturnWith(pins, sessions = 1)
    /\ UNCHANGED <<pins, tdo, reply_char, quit_request, clientVars, channels, stray>>

\* The client's end when the server closes the connection
Closed ==
    /\ connected' = FALSE
    /\ client' = "off"
    /\ last_pin' = "7"
    /\ to_server' = <<>> /\ to_client' = <<>>
    /\ UNCHANGED <<sent, sessions, vanished>>

\* The end of execute_oocd_command: a quit, once requested, closes every session.
FinishCommand(quit, rest, answers, now) ==
    /\ pc' = "sim"
    /\ ReturnWith(now, FALSE)
    /\ IF quit THEN Closed
       ELSE /\ to_server' = rest /\ to_client' = answers
            /\ UNCHANGED <<connected, clientVars>>

\* Mutant of Execute: do_reply is not cleared for the commands that set no pin.
ExecuteAlwaysReplies(c, rest) ==
    LET now == IF c \in DOMAIN SetPins THEN SetPins[c] ELSE pins
    IN  /\ pins' = now
        /\ quit_request' = (quit_request \/ c = "Q")
        /\ IF c \notin DOMAIN SetPins
           THEN /\ pc' = "reply"
                /\ reply_char' = tdo
                /\ to_server' = rest
                /\ UNCHANGED <<simVars, connected, clientVars, to_client>>
           ELSE /\ FinishCommand(quit_request', rest, to_client, now)
                /\ UNCHANGED reply_char
        /\ UNCHANGED tdo

\* The switch of execute_oocd_command, for command c with rest still to be read
Execute(c, rest) ==
    LET now == IF c \in DOMAIN SetPins THEN SetPins[c] ELSE pins
    IN  /\ pins' = now
        /\ quit_request' = (quit_request \/ c = "Q")
        /\ IF c = "R"
           THEN /\ pc' = "reply"
                /\ reply_char' = tdo
                /\ to_server' = rest
                /\ UNCHANGED <<simVars, connected, clientVars, to_client>>
           ELSE /\ FinishCommand(quit_request', rest, to_client, now)
                /\ UNCHANGED reply_char
        /\ UNCHANGED tdo

\* Mutant of ReadCommand: the server reads a whole JTAG clock, two bytes, at a time.
ReadCommandPairs ==
    /\ pc = "read"
    /\ Len(to_server) >= 2
    /\ Execute(Head(to_server), Tail(to_server))
    /\ UNCHANGED stray

\* read gives a byte.
ReadCommand ==
    /\ pc = "read"
    /\ to_server # <<>>
    /\ Execute(Head(to_server), Tail(to_server))
    /\ UNCHANGED stray

\* read gives 0 bytes: the client closed the connection.  The command is read from
\* a variable that was never written: it may have any value.
ReadEndOfFile ==
    /\ pc = "read"
    /\ client = "gone" /\ to_server = <<>>
    /\ stray < MaxStray
    /\ stray' = stray + 1
    /\ \E c \in Commands : Execute(c, <<>>)

\* accept, read or write fails, for the client closed the connection or, a write, for
\* the socket has no room: the simulator aborts.
SocketError ==
    /\ \/ AcceptFails
       \/ pc = "read" /\ client = "gone" /\ to_server = <<>>
       \/ pc = "reply" /\ (client = "gone" \/ Len(to_client) >= ReplyRoom)
    /\ pc' = "aborted"
    /\ UNCHANGED <<simVars, pins, tdo, reply_char, quit_request, connected, clientVars, channels, stray>>

\* The answer is written, and the command ends.
WriteReply ==
    /\ pc = "reply"
    /\ Len(to_client) < ReplyRoom
    /\ FinishCommand(quit_request, to_server, Append(to_client, reply_char), pins)
    /\ UNCHANGED <<pins, tdo, reply_char, quit_request, stray>>

-----------------------------------------------------------------------------
(* The client: OpenOCD *)

Connect ==
    /\ client = "off" /\ ~connected /\ sessions < MaxSessions
    /\ client' = "on"
    /\ sessions' = sessions + 1
    /\ UNCHANGED <<simVars, serverVars, channels, sent, last_pin, vanished, stray>>

\* The answers the client still waits for
Owed == Cardinality({k \in DOMAIN to_server : to_server[k] = "R"}) + Len(to_client)
            + (IF pc = "reply" THEN 1 ELSE 0)

\* A JTAG clock is two commands: TCK low, then high with the same TMS and TDI; TDI
\* is 0 but in a Shift state.  The client keeps its questions within the room of the
\* socket.
MaySend(c) ==
    /\ c \in DOMAIN SetPins =>
         IF SetPins[last_pin].tck = 0 THEN SetPins[c] = [SetPins[last_pin] EXCEPT !.tck = 1]
         ELSE /\ SetPins[c].tck = 0
              /\ SetPins[c].tdi = 1 => tap.fsm \in {"SHIFT_DR", "SHIFT_IR"}
    /\ c = "R" => Owed < ReplyRoom

Send(c) ==
    /\ client = "on" /\ sent < MaxBytes /\ Len(to_server) < Window
    /\ MaySend(c)
    /\ to_server' = Append(to_server, c)
    /\ sent' = sent + 1
    /\ last_pin' = IF c \in DOMAIN SetPins THEN c ELSE last_pin
    /\ client' = IF c = "Q" THEN "quit" ELSE client
    /\ UNCHANGED <<simVars, serverVars, to_client, sessions, vanished, stray>>

TakeReply ==
    /\ client \in {"on", "quit"} /\ to_client # <<>>
    /\ to_client' = Tail(to_client)
    /\ UNCHANGED <<simVars, serverVars, clientVars, to_server, stray>>

\* The client dies, or closes its socket without a quit.
Vanish ==
    /\ client = "on"
    /\ client' = "gone"
    /\ vanished' = TRUE
    /\ UNCHANGED <<simVars, serverVars, channels, sent, sessions, last_pin, stray>>

-----------------------------------------------------------------------------
Init ==
    /\ main_time = 0 /\ clk = 0 /\ tick_counter = 0 /\ reset_left = ResetClocks
    /\ wires = [tck |-> 0, tms |-> 0, tdi |-> 0]
    /\ tap \in {PowerUpTap(s) : s \in PowerUp}
    /\ pc = "sim" /\ tdo = 0 /\ reply_char = 0
    /\ pins = [tck |-> 1, tms |-> 1, tdi |-> 1]
    /\ quit_request = FALSE /\ connected = FALSE
    /\ client = "off" /\ sent = 0 /\ sessions = 0 /\ last_pin = "7"
    /\ vanished = FALSE /\ stray = 0
    /\ to_server = <<>> /\ to_client = <<>>

Server == AcceptOocd \/ ReadCommand \/ ReadEndOfFile \/ WriteReply \/ SocketError

Client == Connect \/ (\E c \in Commands : Send(c)) \/ TakeReply \/ Vanish

Next == SimChangeClk \/ Server \/ Client

Spec == Init /\ [][Next]_vars

(***************************************************************************)
(* The thread runs: the simulation's main loop ticks for ever and the      *)
(* waiting loops of the server poll the socket.  The client owes nothing:  *)
(* it may be silent for ever, but it takes the answers that arrive.        *)
(***************************************************************************)
Fairness == WF_vars(SimChangeClk) /\ WF_vars(Server) /\ WF_vars(TakeReply)

FairSpec == Spec /\ Fairness
=============================================================================
