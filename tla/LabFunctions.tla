---------------------------- MODULE LabFunctions ----------------------------
(***************************************************************************)
(* The calculations of lab 3: the time, the primes and the texts they are  *)
(* shown as (mipslabfunc.c and labwork.S, the same in its three programs). *)
(*                                                                         *)
(* A time is 32 bits of decimal digits, here a pair of halves: minutes and *)
(* seconds in the low one, days and hours in the high one.  A character is *)
(* its ASCII code.                                                         *)
(***************************************************************************)
EXTENDS Integers, Sequences, SequencesExt

Half == 65536
Weight == <<1, 16, 256, 4096>>
Digit(h, n) == (h \div Weight[n + 1]) % 16
WithDigit(h, n, d) == h + (d - Digit(h, n)) * Weight[n + 1]
Time(high, low) == [high |-> high, low |-> low]

\* A half-adjustment: when the digit from n on has reached the limit, add on.
Adjust(h, n, limit, add) == IF Digit(h, n) >= limit THEN h + add ELSE h

-----------------------------------------------------------------------------
tickNoCarry(t) ==   \* mutant: the tens of the minutes carry at ten, not at six
    LET low == Adjust(Adjust(Adjust(Adjust(t.low + 1, 0, 10, 6), 1, 6, 160), 2, 10, 1536), 3, 10, 24576)
    IN Time((t.high + (low \div Half)) % Half, low % Half)

\* One second later, a digit at a time; the hours together, the days to zero.
tick(t) ==
    LET seconds == Adjust(Adjust(t.low + 1, 0, 10, 6), 1, 6, 160)
        minutes == Adjust(Adjust(seconds, 2, 10, 1536), 3, 6, 40960)
        hours == Adjust(t.high + (minutes \div Half), 0, 10, 6)
        days == IF hours % 256 >= 36 THEN hours + 220 ELSE hours
        tens == Adjust(days, 2, 10, 1536)
    IN IF Digit(tens, 3) >= 10 THEN Time(0, 0) ELSE Time(tens % Half, minutes % Half)

\* The factors tried for p.
Factors(p) == 3 .. (p \div 2) + 1
Odd(n) == IF n % 2 = 0 THEN n + 1 ELSE n

\* The first of p, p + 2, ... that none of its factors divides.
search[p \in Nat] == IF \A f \in Factors(p) : p % f # 0 THEN p ELSE search[p + 2]

nextprime(n) == IF n < 3 THEN IF n <= 0 THEN 1 ELSE n + 1 ELSE search[Odd(n + 1)]

-----------------------------------------------------------------------------
(* Texts.                                                                  *)
hexasc(d) == IF d < 10 THEN 48 + d ELSE 55 + d

time2string(low) ==
    << hexasc(Digit(low, 3)), hexasc(Digit(low, 2)), 58, hexasc(Digit(low, 1)), hexasc(Digit(low, 0)) >>

\* Digits are produced from the last, until nothing is left.
DecimalDigits[n \in Nat] ==
    (IF n < 10 THEN <<>> ELSE DecimalDigits[n \div 10]) \o << 48 + (n % 10) >>

itoaconv(num) == IF num < 0 THEN <<45>> \o DecimalDigits[-num] ELSE DecimalDigits[num]

-----------------------------------------------------------------------------
(* What they should give, by their definition.                             *)

\* The days that are counted, in seconds, and a time for them.
Days == 100
AllSeconds == 60 * (60 * (24 * Days))
Pair(n) == (n \div 10) * 16 + (n % 10)
TimeOf(s) ==
    LET minutes == s \div 60
        hours == minutes \div 60
    IN Time(Pair(hours \div 24) * 256 + Pair(hours % 24), Pair(minutes % 60) * 256 + Pair(s % 60))

IsPrime(n) == n > 1 /\ \A f \in 2 .. n - 1 : n % f # 0

DigitValue(c) == IF c < 58 THEN c - 48 ELSE c - 55
ValueOf(s, radix) ==
    LET value[k \in 0 .. Len(s)] == IF k = 0 THEN 0 ELSE value[k - 1] * radix + DigitValue(s[k])
    IN value[Len(s)]
=============================================================================
