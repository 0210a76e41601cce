---------------------------- MODULE BenchLibrary ----------------------------
(***************************************************************************)
(* The C library functions that sw/riscv/bench/bench.c gives the           *)
(* benchmarks, loop for loop, on a memory: a function from the addresses   *)
(* 0 .. MemSize - 1 to characters (unsigned char; 0 ends a string).        *)
(***************************************************************************)
EXTENDS Integers, FiniteSetsExt

CONSTANTS MemSize, Chars

ASSUME LibraryAssumption == MemSize \in Nat \ {0} /\ 0 \in Chars /\ Chars \subseteq 0 .. 255

Addresses == 0 .. MemSize - 1

\* m after the first n characters were copied, one by one
Copied(m, dest, src, n) ==
    LET after[i \in 0 .. n] ==
            IF i = 0 THEN m
            ELSE [after[i - 1] EXCEPT ![dest + i - 1] = after[i - 1][src + i - 1]]
    IN  after[n]

Memcpy(m, dest, src, n) == Copied(m, dest, src, n)

Memset(m, dest, c, n) ==
    LET after[i \in 0 .. n] ==
            IF i = 0 THEN m ELSE [after[i - 1] EXCEPT ![dest + i - 1] = c % 256]
    IN  after[n]

\* The loop ends at the first 0.
StrlenAt(m, s) == Min({n \in 0 .. MemSize - 1 - s : m[s + n] = 0})

\* Mutant of Strcpy: the loop ends before it copies the 0.
StrcpyOpen(m, dest, src) == Copied(m, dest, src, StrlenAt(m, src))

\* The loop ends after the 0 is copied.
Strcpy(m, dest, src) ==
    LET Done(n) == Copied(m, dest, src, n)[src + n - 1] = 0
    IN  Copied(m, dest, src, CHOOSE n \in 1 .. MemSize : Done(n) /\ \A j \in 1 .. n - 1 : ~Done(j))

\* The loop ends at the end of a or at the first difference.
Strcmp(m, a, b) ==
    LET last == MemSize - 1 - (IF a < b THEN b ELSE a)
        n == Min({i \in 0 .. last : m[a + i] = 0 \/ m[a + i] # m[b + i]})
    IN  m[a + n] - m[b + n]
=============================================================================
