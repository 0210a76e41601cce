---------------------------- MODULE Semihosting ----------------------------
(***************************************************************************)
(* Semihosting: how a bare-metal program asks the debugger of its core to  *)
(* do I/O on the host (sw/riscv/semihosting).  A function packs its        *)
(* arguments in a block, EBREAK halts the core with the number of the      *)
(* operation in a0 and the address of the block in a1; the debugger, when  *)
(* it comes to it, reads the block, does the operation, puts the result in *)
(* a0 and resumes the core.                                                *)
(*                                                                         *)
(* A request is a record: the operation and the block.  Numbers are words  *)
(* of Word values (field_t); a string is a sequence that ends with 0.      *)
(* External: the debugger and its files, after the ARM semihosting         *)
(* specification the header names; TbMig3Debugger serves the terminal      *)
(* operations and the exits the same way.                                  *)
(***************************************************************************)
EXTENDS Integers, Sequences, FiniteSetsExt

CONSTANTS
    Word,           \* how many values a register holds (2^32)
    MaxHandles,     \* files the host opens at once
    MaxFile         \* length of the host's files (bounds the model)

ASSUME SemihostingAssumption ==
    /\ Word \in Nat \ {0} /\ Word % 2 = 0
    /\ MaxHandles \in Nat /\ MaxHandles < Word \div 2
    /\ MaxFile \in Nat /\ MaxFile >= 2

VARIABLES
    call,           \* the request of the function that runs, or None
    halted,         \* the core is halted at the EBREAK
    a0, a1,         \* its registers then: operation or result, and the block
    returned,       \* what the last function returned
    buffer,         \* the bytes the host put in the caller's buffer
    writing,        \* characters _write still has to write
    files,          \* the host's files: bytes by name
    handles,        \* open files: name and position by handle
    terminal,       \* what the debug terminal shows
    exited          \* exit status of the program, or Running

targetVars == <<call, halted, a0, a1, returned, buffer, writing>>
hostVars == <<files, handles, terminal, exited>>
semihostVars == <<targetVars, hostVars>>

None == [op |-> 0, args |-> <<>>]
Running == -1

\* Mutant of Field: a negative number stays negative.
FieldSigned(x) == x
\* (field_t)x
Field(x) == x % Word
\* The long that a register holds
Signed(w) == IF w >= Word \div 2 THEN w - Word ELSE w

SemihostInstr ==
    [OPEN |-> 1, ISTTY |-> 9, WRITE |-> 5, READ |-> 6, CLOSE |-> 2, FLEN |-> 12, SEEK |-> 10,
     TMPNAM |-> 13, REMOVE |-> 14, RENAME |-> 15, WRITEC |-> 3, WRITE0 |-> 4, READC |-> 7,
     CLOCK |-> 16, ELAPSED |-> 48, TICKFREQ |-> 49, TIME |-> 17, ERRNO |-> 19,
     GET_CMDLINE |-> 21, HEAPINFO |-> 22, ISERROR |-> 8, SYSTEM |-> 18, EXIT |-> 24,
     EXIT_EXTENDED |-> 32]

SemihostOpenMode ==
    [R |-> 0, RB |-> 1, R_PLUS |-> 2, RB_PLUS |-> 3, W |-> 4, WB |-> 5, W_PLUS |-> 6,
     WB_PLUS |-> 7, A |-> 8, AB |-> 9, A_PLUS |-> 10, AB_PLUS |-> 11]

SEMIHOST_STOPPED_APP_EXIT == 131110

ASSUME FieldAssumption == SEMIHOST_STOPPED_APP_EXIT < Word      \* a field holds it

-----------------------------------------------------------------------------
(* The functions: what each asks for *)

\* semihost_strlen: characters before the first 0
StrLen(s) == Min({len \in 0 .. Len(s) - 1 : s[len + 1] = 0})

Request(instr, args) == [op |-> SemihostInstr[instr], args |-> args]

PollIn              == Request("READC", <<0>>)
PollOut(c)          == Request("WRITEC", <<c>>)
PutChar(c)          == PollOut(c)
SemihostOpen(path, mode) ==
    Request("OPEN", <<path, Field(SemihostOpenMode[mode]), Field(StrLen(path))>>)
SemihostClose(fd)       == Request("CLOSE", <<Field(fd)>>)
SemihostFlen(fd)        == Request("FLEN", <<Field(fd)>>)
SemihostSeek(fd, n)     == Request("SEEK", <<Field(fd), Field(n)>>)
SemihostRead(fd, len)   == Request("READ", <<Field(fd), Field(len)>>)
SemihostWrite(fd, data) == Request("WRITE", <<Field(fd), data, Field(Len(data))>>)
SemihostWrite0(s)       == Request("WRITE0", s)
SemihostGetCmdline(len) == Request("GET_CMDLINE", <<Field(len)>>)

SemihostExit(status) ==
    Request("EXIT_EXTENDED", <<SEMIHOST_STOPPED_APP_EXIT, Field(status)>>)

\* Mutant of ReadResult: the end of the file is not an error.
ReadResultNoEof(ret, len) == IF ret = 0 THEN len ELSE ret

\* What semihost_read makes of the host's result, the bytes it did not read
ReadResult(ret, len) ==
    IF ret = len THEN -5
    ELSE IF ret = 0 THEN len
    ELSE ret

\* (char) of a register
Char(w) == w % 256

ResultOf(request, ret) ==
    CASE request.op = SemihostInstr["READ"]   -> ReadResult(ret, Signed(request.args[2]))
      [] request.op = SemihostInstr["READC"]  -> Char(ret)
      [] request.op = SemihostInstr["WRITE0"] -> 0
      [] OTHER                                -> ret

-----------------------------------------------------------------------------
(* The program's side: semihost_exec *)

\* EBREAK: the core halts with the operation and its block.
SemihostExec(request) ==
    /\ call = None
    /\ call' = request
    /\ halted' = TRUE
    /\ a0' = request.op /\ a1' = request.args
    /\ buffer' = <<>>
    /\ UNCHANGED <<returned, hostVars>>

\* The function returns to its caller once the core is resumed.
Return ==
    /\ call # None /\ ~halted
    /\ returned' = ResultOf(call, Signed(a0))
    /\ call' = None
    /\ a1' = <<>>
    /\ UNCHANGED <<halted, a0, buffer, writing, hostVars>>

\* Mutant of WriteNext: the last character first.
WriteNextBack ==
    /\ writing # <<>>
    /\ SemihostExec(PollOut(writing[Len(writing)]))
    /\ writing' = SubSeq(writing, 1, Len(writing) - 1)

\* _write: the characters go to the terminal one by one, whatever the descriptor.
StartWrite(data) == writing' = data
WriteNext ==
    /\ writing # <<>>
    /\ SemihostExec(PollOut(Head(writing)))
    /\ writing' = Tail(writing)

-----------------------------------------------------------------------------
(* The host's side: the debugger.  Operations have the numbers and blocks of the *)
(* ARM specification. *)

Asked(op) == halted /\ exited = Running /\ a0 = op

Resume(ret) ==
    /\ halted' = FALSE
    /\ a0' = Field(ret)
    /\ UNCHANGED <<call, a1, returned, writing, exited>>

IsOpen(fd) == fd \in DOMAIN handles

Put(f, key, value) == [x \in DOMAIN f \cup {key} |-> IF x = key THEN value ELSE f[x]]

\* fopen by the number of the mode: r, w or a, four numbers each
ServeOpen ==
    /\ Asked(1)
    /\ LET name == SubSeq(a1[1], 1, a1[3])
           way == a1[2] \div 4
           free == {fd \in 1 .. MaxHandles : ~IsOpen(fd)}
       IN  IF free = {} \/ way > 2 \/ (way = 0 /\ name \notin DOMAIN files)
           THEN Resume(-1) /\ UNCHANGED <<files, handles>>
           ELSE LET fd == CHOOSE n \in free : \A m \in free : n <= m
                    bytes == IF way = 1 \/ name \notin DOMAIN files THEN <<>> ELSE files[name]
                IN  /\ files' = Put(files, name, bytes)
                    /\ handles' = Put(handles, fd, [name |-> name,
                                                    pos |-> IF way = 2 THEN Len(bytes) ELSE 0])
                    /\ Resume(fd)
    /\ UNCHANGED <<buffer, terminal>>

ServeClose ==
    /\ Asked(2)
    /\ IF IsOpen(a1[1])
       THEN handles' = [fd \in DOMAIN handles \ {a1[1]} |-> handles[fd]] /\ Resume(0)
       ELSE UNCHANGED handles /\ Resume(-1)
    /\ UNCHANGED <<files, buffer, terminal>>

ServeFlen ==
    /\ Asked(12)
    /\ Resume(IF IsOpen(a1[1]) THEN Len(files[handles[a1[1]].name]) ELSE -1)
    /\ UNCHANGED <<files, handles, buffer, terminal>>

ServeSeek ==
    /\ Asked(10)
    /\ IF IsOpen(a1[1]) /\ a1[2] <= Len(files[handles[a1[1]].name])
       THEN handles' = [handles EXCEPT ![a1[1]].pos = a1[2]] /\ Resume(0)
       ELSE UNCHANGED handles /\ Resume(-1)
    /\ UNCHANGED <<files, buffer, terminal>>

\* Any number of bytes up to what is asked and what the file has, one at least while
\* there is one; the result is the bytes that are missing.
ServeRead ==
    /\ Asked(6)
    /\ IF ~IsOpen(a1[1])
       THEN Resume(a1[2]) /\ UNCHANGED <<handles, buffer>>
       ELSE LET bytes == files[handles[a1[1]].name]
                pos == handles[a1[1]].pos
                left == IF pos < Len(bytes) THEN Len(bytes) - pos ELSE 0
                ready == IF a1[2] < left THEN a1[2] ELSE left
            IN  \E got \in (IF ready = 0 THEN {0} ELSE 1 .. ready) :
                  /\ buffer' = SubSeq(bytes, pos + 1, pos + got)
                  /\ handles' = [handles EXCEPT ![a1[1]].pos = pos + got]
                  /\ Resume(a1[2] - got)
    /\ UNCHANGED <<files, terminal>>

\* All of the data or, with no room or a bad handle, none of it.  Bytes between the end
\* of the file and the position are 0.
ServeWrite ==
    /\ Asked(5)
    /\ IF IsOpen(a1[1]) /\ handles[a1[1]].pos + a1[3] <= MaxFile
       THEN LET h == handles[a1[1]]
                old == files[h.name]
                start == [i \in 1 .. h.pos |-> IF i <= Len(old) THEN old[i] ELSE 0]
                rest == SubSeq(old, h.pos + a1[3] + 1, Len(old))
            IN  /\ files' = [files EXCEPT ![h.name] = start \o a1[2] \o rest]
                /\ handles' = [handles EXCEPT ![a1[1]].pos = h.pos + a1[3]]
                /\ Resume(0)
       ELSE UNCHANGED <<files, handles>> /\ Resume(a1[3])
    /\ UNCHANGED <<buffer, terminal>>

ServeTerminal ==
    /\ \/ Asked(3) /\ terminal' = Append(terminal, a1[1])
       \/ Asked(4) /\ terminal' = terminal \o SubSeq(a1, 1, StrLen(a1))
    /\ \E rubbish \in {0, 1} : Resume(rubbish)
    /\ UNCHANGED <<files, handles, buffer>>

ServeReadc ==
    /\ Asked(7)
    /\ \E c \in {10, 65} : Resume(c)
    /\ UNCHANGED <<files, handles, buffer, terminal>>

\* The command line is one character here.
ServeGetCmdline ==
    /\ Asked(21)
    /\ IF a1[1] >= 2 THEN Resume(0) /\ buffer' = <<65, 0>> ELSE Resume(-1) /\ UNCHANGED buffer
    /\ UNCHANGED <<files, handles, terminal>>

\* The core is not resumed.
ServeExit ==
    /\ Asked(32)
    /\ exited' = IF a1[1] = 131110 THEN a1[2] ELSE 1
    /\ UNCHANGED <<targetVars, files, handles, terminal>>

Serve ==
    \/ ServeOpen \/ ServeClose \/ ServeFlen \/ ServeSeek \/ ServeRead \/ ServeWrite
    \/ ServeTerminal \/ ServeReadc \/ ServeGetCmdline \/ ServeExit
=============================================================================
