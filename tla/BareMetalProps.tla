--------------------------- MODULE BareMetalProps ---------------------------
(***************************************************************************)
(* What must hold of a program that runs under a debugger: its exit status *)
(* is the one of its first run that failed, its output is shown in order,  *)
(* a caller can tell from results what happened on the host, CoreMark's    *)
(* line is right although computed in 32 bits, and the program ends.       *)
(***************************************************************************)
EXTENDS BareMetal

Places ==
    {"start", "main", "bench", "exit", "exiting", "cm_run", "cm_fini", "cm_check"}

\* The types of the registers, the host's files and the program; a file is read and
\* written inside its bytes, and the core is halted only in a call.
TypeOK ==
    /\ pc \in Places /\ program \in Programs
    /\ k \in 0 .. Repeat /\ calls \in 0 .. MaxCalls
    /\ halted \in BOOLEAN /\ a0 \in 0 .. Word - 1
    /\ halted => call # None /\ a0 = call.op /\ a1 = call.args
    /\ DOMAIN handles \subseteq 1 .. MaxHandles
    /\ \A fd \in DOMAIN handles :
         handles[fd].name \in DOMAIN files /\ handles[fd].pos \in Nat
    /\ \A name \in DOMAIN files : Len(files[name]) <= MaxFile
    /\ mem \in [Addresses -> Chars]
    /\ exited = Running \/ exited \in 0 .. Word - 1

\* The statuses of the runs before the first that failed are 0, and the host is told
\* the status of that one, or 0 when all Repeat runs were good: not a later one, and
\* not 0 for a CoreMark whose CRCs are wrong.
ExitTellsFirstFailure ==
    exited # Running =>
        /\ \A i \in 1 .. Len(ran) - 1 : ran[i] = 0
        /\ exited = IF ran = <<>> THEN 0 ELSE Field(ran[Len(ran)])
        /\ exited = 0 => Len(ran) = Repeat

\* The terminal shows what the program wrote, character for character and in order,
\* whether it came through write0, poll_out or _write, and all of it once the call is over.
TerminalInOrder ==
    /\ Len(terminal) <= Len(said)
    /\ terminal = SubSeq(said, 1, Len(terminal))
    /\ Ready => terminal = said

\* 10 to the power d
Ten(d) ==
    LET power[i \in 0 .. d] == IF i = 0 THEN 1 ELSE 10 * power[i - 1]
    IN  power[d]

\* The decimal digits of n, most significant first
Size(n) == CHOOSE d \in 1 .. n + 1 : n < Ten(d) /\ (d = 1 \/ n >= Ten(d - 1))

Decimal(n) == [i \in 1 .. Size(n) |-> 48 + ((n \div Ten(Size(n) - i)) % 10)]

\* The line of CoreMark is the true number of cycles and the true quotient to three
\* digits, although the counter may wrap during the run and the division is done in one
\* register: while n * 10^6 and ten times a remainder fit.
ResultLineIsTrue ==
    (pc \in {"cm_check", "exiting"} /\ cm.elapsed > 0
        /\ cm.iterations * Mega < TickValues /\ 10 * (cm.elapsed - 1) < TickValues) =>
      LET millis == (cm.iterations * Mega * 1000) \div cm.elapsed
          line == Text \o Decimal(cm.iterations) \o Text \o Decimal(cm.elapsed)
                    \o Text \o Decimal(millis \div 1000)
                    \o <<46>> \o SubSeq(Decimal(1000 + (millis % 1000)), 2, 4) \o Text
      IN  \E n \in 0 .. Len(said) : SubSeq(said, n + 1, Len(said)) = line

\* What the result of a read tells: -5 that nothing came, as fd is not open, nothing was
\* asked for or the file is at its end; len that all came; any other that so many bytes
\* are missing.  What came is the part of the file before the position.
ReadTells(fd, len, result) ==
    LET h == handles[fd]
        got == Len(buffer)
    IN  IF buffer = <<>>
        THEN /\ result = -5
             /\ IsOpen(fd) => len = 0 \/ h.pos >= Len(files[h.name])
        ELSE /\ result = IF got = len THEN len ELSE len - got
             /\ buffer = SubSeq(files[h.name], h.pos - got + 1, h.pos)

\* What the result of a write tells: 0 that the data is in the file before the position,
\* any other, the number of bytes asked for, that it is not.
WriteTells(fd, data, result) ==
    LET h == handles[fd]
    IN  IF result = 0
        THEN Len(data) > 0 => data = SubSeq(files[h.name], h.pos - Len(data) + 1, h.pos)
        ELSE result = Len(data)

\* What the result of an open tells: -1 nothing, any other that it is a handle of the file
\* of that name, which is empty if it was opened to be written.
OpenTells(path, mode, result) ==
    LET name == SubSeq(path, 1, Len(path) - 1)
    IN  result # -1 => /\ handles[result].name = name
                       /\ mode \in 4 .. 7 => files[name] = <<>>

ResultTells(request, result) ==
    CASE request.op = SemihostInstr["READ"] ->
           ReadTells(request.args[1], Signed(request.args[2]), result)
      [] request.op = SemihostInstr["WRITE"] ->
           WriteTells(request.args[1], request.args[2], result)
      [] request.op = SemihostInstr["OPEN"] ->
           OpenTells(request.args[1], request.args[2], result)
      [] OTHER -> TRUE

\* The results that are errors
Failed(request, result) ==
    CASE request.op = SemihostInstr["READ"]  -> result = -5
      [] request.op = SemihostInstr["WRITE"] -> result # 0
      [] OTHER                               -> result = -1

\* When read, write or open returns, the caller can tell from its result what happened on
\* the host: how many bytes came, whether its data is in the file, which file is open; and
\* a call that fails left the files and the positions as they were.  These are the code's
\* results, not those its comments promise: a part read returns the bytes that are
\* missing, where riscv_semihosting.c:221 says the bytes read (ReadReturnsBytesRead); a
\* read of no bytes returns -5; a failed write returns a count, where line 257 says a
\* negative error.
ResultsTellTheHost ==
    [][/\ call # None /\ call' = None => ResultTells(call, returned')
       /\ files' # files \/ handles' # handles =>
            ~Failed(call, ResultOf(call, Signed(a0')))]_vars

\* "@retval read number of bytes read on success.  @retval -errno negative error code on
\* failure." (riscv_semihosting.c:221-222)
ReadReturnsBytesRead ==
    [][call # None /\ call' = None /\ call.op = SemihostInstr["READ"] =>
         returned' = Len(buffer) \/ (buffer = <<>> /\ returned' < 0)]_vars

\* The string at s
StringAt(m, s) ==
    LET end == CHOOSE a \in s .. MemSize - 1 : m[a] = 0 /\ \A b \in s .. a - 1 : m[b] # 0
    IN  [i \in 1 .. end - s |-> m[s + i - 1]]

Smaller(u, v) ==
    \E n \in 0 .. Len(u) :
      /\ n <= Len(v) /\ SubSeq(u, 1, n) = SubSeq(v, 1, n)
      /\ n < Len(v)
      /\ n = Len(u) \/ u[n + 1] < v[n + 1]

\* The loops of bench.c do what the C standard says of the functions, in every memory
\* the programs make: the bytes copied or set and no other, the string with its end, the
\* length, the order of the strings.
LibraryIsC ==
    InBench("strings") => \A d, s \in Addresses :
      /\ \A n \in 1 .. MemSize :
           /\ MayCopy(d, s, n) =>
                Memcpy(mem, d, s, n) =
                  [a \in Addresses |-> IF a \in d .. d + n - 1 THEN mem[s + a - d] ELSE mem[a]]
           /\ d + n <= MemSize => \A c \in Chars :
                Memset(mem, d, c, n) =
                  [a \in Addresses |-> IF a \in d .. d + n - 1 THEN c ELSE mem[a]]
      /\ IsString(s) =>
           LET str == StringAt(mem, s)
           IN  /\ StrlenAt(mem, s) = Len(str)
               /\ MayCopy(d, s, Len(str) + 1) =>
                    LET m == Strcpy(mem, d, s)
                    IN  /\ \E a \in d .. MemSize - 1 : m[a] = 0
                        /\ StringAt(m, d) = str
                        /\ \A a \in Addresses : m[a] # mem[a] => a \in d .. d + Len(str)
               /\ IsString(d) =>
                    LET order == Strcmp(mem, d, s)
                        other == StringAt(mem, d)
                    IN  (order < 0 <=> Smaller(other, str)) /\ (order > 0 <=> Smaller(str, other))

\* A program whose benchmarks end ends with an exit status on the host: the core and the
\* debugger never wait for each other.
ProgramEnds == (pc = "start") ~> (exited # Running)
=============================================================================
