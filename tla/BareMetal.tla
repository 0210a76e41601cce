----------------------------- MODULE BareMetal -----------------------------
(***************************************************************************)
(* A program on a simulated core with its debugger: crt0.S, main of        *)
(* bench.c, a benchmark, and semihosting.  main runs the benchmark Repeat  *)
(* times, or until a run fails, and crt0.S exits with what main returns.   *)
(*                                                                         *)
(* The benchmark is one of three, chosen at the start:                     *)
(*   "calls"     any calls of the semihosting functions,                   *)
(*   "strings"   any legal calls of the library functions of bench.c,      *)
(*   "coremark"  CoreMark with its port: the main of CoreMark is external, *)
(*               its calls of the port are those of the port's interface.  *)
(***************************************************************************)
EXTENDS Semihosting, CoreMarkPort, BenchLibrary

CONSTANTS
    Programs,       \* the benchmarks of this run of the model
    Repeat,         \* BENCH_REPEAT
    Statuses,       \* what a benchmark may return
    MaxCalls,       \* calls the runs make in all (bounds the model)
    Iterations,     \* ITERATIONS of the builds of CoreMark
    StartTimes,     \* cycles since reset when CoreMark starts its time (bounds the model)
    RunTimes,       \* cycles CoreMark takes (bounds the model)
    Paths, Modes, Data, Lengths, Offsets, Descriptors     \* arguments of the calls

ASSUME BareMetalAssumption ==
    /\ Programs \subseteq {"calls", "strings", "coremark"}
    /\ Repeat \in Nat /\ MaxCalls \in Nat
    /\ Statuses \subseteq -(Word \div 2) .. Word \div 2 - 1       \* an int
    /\ Paths \subseteq Seq(Nat) /\ Data \subseteq Seq(Nat \ {0})
    /\ \A p \in Paths : p # <<>> /\ \A i \in DOMAIN p : p[i] = 0 <=> i = Len(p)     \* a string
    /\ \A p \in Paths : Len(p) < Word
    /\ \A d \in Data : Len(d) < Word \div 2                      \* a long
    /\ Modes \subseteq DOMAIN SemihostOpenMode
    /\ Lengths \subseteq 0 .. Word \div 2 - 1 /\ Offsets \subseteq Int /\ Descriptors \subseteq Int
    /\ Iterations \subseteq Nat \ {0} /\ StartTimes \subseteq Nat /\ RunTimes \subseteq 1 .. TickValues - 1

VARIABLES
    pc,             \* where the program is
    program,        \* the benchmark
    k,              \* runs of it that main has started and seen end well
    status,         \* the argument of semihost_exit
    calls,          \* calls made so far
    mem,            \* memory of the strings
    cm,             \* CoreMark: iterations, time readings, CRCs, portable_id
    said,           \* what the program asked to show on the terminal
    ran             \* the statuses of the runs that ended

programVars == <<pc, program, k, status, calls, mem, cm, said, ran>>
vars == <<semihostVars, programVars>>

Ready == call = None /\ writing = <<>> /\ ~halted

Goto(from, to) == pc = from /\ pc' = to

NoCm == [iterations |-> 0, start |-> 0, stop |-> 0, elapsed |-> 0, crcs |-> KnownCrcs,
         portable_id |-> 0]

-----------------------------------------------------------------------------
(* crt0.S and main *)

\* _start: .bss is cleared, main is called.
Start ==
    /\ Goto("start", "main")
    /\ mem' = [a \in DOMAIN mem |-> 0]
    /\ cm' = NoCm
    /\ UNCHANGED <<semihostVars, program, k, status, calls, said, ran>>

MainRuns ==
    /\ k < Repeat
    /\ Goto("main", "bench")
    /\ UNCHANGED <<semihostVars, program, k, status, calls, mem, cm, said, ran>>

MainDone ==
    /\ k = Repeat
    /\ Goto("main", "exit")
    /\ status' = 0
    /\ UNCHANGED <<semihostVars, program, k, calls, mem, cm, said, ran>>

\* Mutant of BenchReturns: main runs on and returns the status of the last run.
BenchReturnsLast(s) ==
    /\ ran' = Append(ran, s)
    /\ status' = s
    /\ k' = k + 1
    /\ pc' = IF k' = Repeat THEN "exit" ELSE "main"
    /\ UNCHANGED <<semihostVars, program, calls, mem, cm, said>>

\* A run of the benchmark returned s.
BenchReturns(s) ==
    /\ ran' = Append(ran, s)
    /\ IF s # 0
       THEN pc' = "exit" /\ status' = s /\ UNCHANGED k
       ELSE pc' = "main" /\ k' = k + 1 /\ UNCHANGED status
    /\ UNCHANGED <<semihostVars, program, calls, mem, cm, said>>

Exit ==
    /\ Goto("exit", "exiting")
    /\ SemihostExec(SemihostExit(status))
    /\ UNCHANGED <<writing, program, k, status, calls, mem, cm, said, ran>>

-----------------------------------------------------------------------------
(* A benchmark of semihosting calls *)

InBench(name) == pc = "bench" /\ program = name /\ Ready

Calls(request, text) ==
    /\ InBench("calls") /\ calls < MaxCalls
    /\ SemihostExec(request)
    /\ calls' = calls + 1
    /\ said' = said \o text
    /\ UNCHANGED <<writing, pc, program, k, status, mem, cm, ran>>

CallTerminal ==
    \/ \E c \in Chars \ {0} : Calls(PutChar(c), <<c>>)
    \/ \E d \in Data : Calls(SemihostWrite0(Append(d, 0)), d)
    \/ Calls(PollIn, <<>>)

CallFile ==
    \/ \E p \in Paths, m \in Modes : Calls(SemihostOpen(p, m), <<>>)
    \/ \E fd \in Descriptors :
         \/ Calls(SemihostClose(fd), <<>>)
         \/ Calls(SemihostFlen(fd), <<>>)
         \/ \E n \in Offsets : Calls(SemihostSeek(fd, n), <<>>)
         \/ \E len \in Lengths : Calls(SemihostRead(fd, len), <<>>)
         \/ \E d \in Data : Calls(SemihostWrite(fd, d), <<>>)

CallCmdline == \E len \in Lengths : Calls(SemihostGetCmdline(len), <<>>)

\* printf of a C library: _write of count characters
CallWrite ==
    /\ InBench("calls") /\ calls < MaxCalls
    /\ \E d \in Data : StartWrite(d) /\ said' = said \o d
    /\ calls' = calls + 1
    /\ UNCHANGED <<call, halted, a0, a1, returned, buffer, hostVars>>
    /\ UNCHANGED <<pc, program, k, status, mem, cm, ran>>

WriteOn == WriteNext /\ UNCHANGED programVars

CallReturns == Return /\ UNCHANGED programVars

-----------------------------------------------------------------------------
(* A benchmark of library calls, with arguments the C standard allows *)

Disjoint(d, s, n) == d + n <= s \/ s + n <= d

IsString(s) == \E a \in s .. MemSize - 1 : mem[a] = 0

MayCopy(d, s, n) == d + n <= MemSize /\ s + n <= MemSize /\ Disjoint(d, s, n)

\* strlen and strcmp only read.
CallLibrary ==
    /\ InBench("strings") /\ calls < MaxCalls
    /\ calls' = calls + 1
    /\ \E d \in Addresses :
         \/ \E s \in Addresses, n \in 1 .. MemSize :
              MayCopy(d, s, n) /\ mem' = Memcpy(mem, d, s, n)
         \/ \E s \in Addresses :
              /\ IsString(s) /\ MayCopy(d, s, StrlenAt(mem, s) + 1)
              /\ mem' = Strcpy(mem, d, s)
         \/ \E c \in Chars, n \in 1 .. MemSize :
              d + n <= MemSize /\ mem' = Memset(mem, d, c, n)
    /\ UNCHANGED <<semihostVars, pc, program, k, status, cm, said, ran>>

\* A benchmark of either kind returns.
BenchEnds ==
    /\ InBench("calls") \/ InBench("strings")
    /\ \E s \in Statuses : BenchReturns(s)

-----------------------------------------------------------------------------
(* CoreMark *)

\* portable_init, the seeds, start_time
CoreMarkStarts ==
    /\ InBench("coremark") /\ Goto("bench", "cm_run")
    /\ \E n \in Iterations, t \in StartTimes :
         cm' = [cm EXCEPT !.portable_id = 1, !.iterations = Seeds(n)[4], !.start = t]
    /\ UNCHANGED <<semihostVars, program, k, status, calls, mem, said, ran>>

\* The iterations, on a CPU that may be wrong; stop_time
CoreMarkStops ==
    /\ Goto("cm_run", "cm_fini")
    /\ \E d \in RunTimes, wrong \in SUBSET DOMAIN KnownCrcs :
         cm' = [cm EXCEPT !.elapsed = d, !.stop = Cycles(cm.start + d),
                          !.start = Cycles(cm.start),
                          !.crcs = [c \in DOMAIN KnownCrcs |->
                                      IF c \in wrong THEN 0 ELSE KnownCrcs[c]]]
    /\ UNCHANGED <<semihostVars, program, k, status, calls, mem, said, ran>>

\* portable_fini: the line is printed ...
CoreMarkPrints ==
    /\ Goto("cm_fini", "cm_check")
    /\ LET line == PrintResult(cm.iterations, GetTime(cm.start, cm.stop))
       IN  SemihostExec(SemihostWrite0(line)) /\ said' = said \o SubSeq(line, 1, Len(line) - 1)
    /\ cm' = [cm EXCEPT !.portable_id = 0]
    /\ UNCHANGED <<writing, program, k, status, calls, mem, ran>>

\* Mutant of CoreMarkChecks: a wrong CRC ends in a loop, without an exit.
CoreMarkChecksHangs ==
    /\ pc = "cm_check" /\ Ready
    /\ CrcsAreKnown(cm.crcs)
    /\ BenchReturns(0)

\* ... and the CRCs decide: the program exits here, or CoreMark's main returns 0.
CoreMarkChecks ==
    /\ pc = "cm_check" /\ Ready
    /\ IF CrcsAreKnown(cm.crcs) THEN BenchReturns(0)
       ELSE /\ pc' = "exiting"
            /\ ran' = Append(ran, 1)
            /\ SemihostExec(SemihostExit(1))
            /\ UNCHANGED <<writing, program, k, status, calls, mem, cm, said>>

-----------------------------------------------------------------------------
Init ==
    /\ call = None /\ halted = FALSE /\ a0 = 0 /\ a1 = <<>> /\ returned = 0
    /\ buffer = <<>> /\ writing = <<>>
    /\ files = [name \in {<<1>>} |-> <<66, 65>>] /\ handles = <<>> /\ terminal = <<>>
    /\ exited = Running
    /\ pc = "start" /\ program \in Programs /\ k = 0 /\ status = 0 /\ calls = 0
    /\ mem \in {[a \in Addresses |-> c] : c \in Chars}
    /\ cm = NoCm /\ said = <<>> /\ ran = <<>>

Program ==
    \/ Start \/ MainRuns \/ MainDone \/ Exit
    \/ CallTerminal \/ CallFile \/ CallCmdline \/ CallWrite \/ WriteOn \/ CallReturns
    \/ CallLibrary \/ BenchEnds
    \/ CoreMarkStarts \/ CoreMarkStops \/ CoreMarkPrints \/ CoreMarkChecks

Host == Serve /\ UNCHANGED programVars

Next == Program \/ Host

Spec == Init /\ [][Next]_vars

\* The core runs while it is not halted, and the debugger, which polls the halt of the
\* core in the testbench's main loop, serves it.
Fairness == WF_vars(Program) /\ WF_vars(Host)

FairSpec == Spec /\ Fairness
=============================================================================
