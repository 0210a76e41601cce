---------------------------- MODULE CoreMarkPort ----------------------------
(***************************************************************************)
(* What CoreMark's port (sw/riscv/coremark) computes: the time of the run  *)
(* from two readings of the 32-bit cycle counter, and the line with the    *)
(* result, by long division in one register.  Words of the line are blanks *)
(* here, digits and the point are what they are.                           *)
(***************************************************************************)
EXTENDS Integers, Sequences

CONSTANTS
    TickValues,     \* how many values ee_u32 has (2^32)
    Mega            \* 10^6: iterations a second at 1 MHz

ASSUME PortAssumption == TickValues \in Nat \ {0} /\ Mega \in Nat \ {0}

U32(x) == x % TickValues

\* The seeds of the performance run; seed 4 is the number of iterations.
Seeds(iterations) == <<0, 0, 102, iterations, 0>>

\* rdcycle, at the start and at the stop
Cycles(time) == U32(time)

\* Mutant of GetTime: the readings the wrong way round.
GetTimeBack(start, stop) == U32(start - stop)

\* get_time
GetTime(start, stop) == U32(stop - start)

Digit(d) == 48 + d
Point == 46
Text == <<32>>

\* put_uint: the digits come out last first and are put the other way round.
PutUint(n) ==
    LET digits[m \in 0 .. n] ==
            IF m \div 10 = 0 THEN <<Digit(m)>> ELSE digits[m \div 10] \o <<Digit(m % 10)>>
    IN  digits[n]

\* The three digits after the point, with the remainder r of the division so far
Fraction(r, ticks) ==
    LET r1 == U32(r * 10)
        r2 == U32((r1 % ticks) * 10)
        r3 == U32((r2 % ticks) * 10)
    IN  <<Digit(r1 \div ticks), Digit(r2 \div ticks), Digit(r3 \div ticks)>>

\* print_result: what is written with semihost_write0
PrintResult(n, ticks) ==
    LET q == U32(n * Mega)
    IN  Text \o PutUint(n) \o Text \o PutUint(ticks) \o Text \o PutUint(q \div ticks)
          \o <<Point>> \o Fraction(q % ticks, ticks) \o Text \o <<0>>

\* portable_fini: the CRCs of the run against the known ones
KnownCrcs == [list |-> 59156, matrix |-> 8151, state |-> 36410]
CrcsAreKnown(crcs) == crcs = KnownCrcs
=============================================================================
