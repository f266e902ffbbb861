---------------------------- MODULE MCExceptions ----------------------------
(* The calls of printf and the vectors that TLC explores: each directive   *)
(* with many values, and every format of up to three pieces with distinct  *)
(* arguments.                                                              *)
EXTENDS Exceptions, TLC

Strings == (3 :> <<"s", "t", "r">>)

Letters == [n \in 0 .. 15 |-> ToString(n)]

Written == Directives \cup {"%", "at", "code", "t", "2", "9"}

Plain(d) == [chars |-> <<"%", d>>, words |-> Width(d)]
NumberedX == [chars |-> <<"%", "2", "x">>, words |-> 1]
NumberedF == [chars |-> <<"%", "9", "f">>, words |-> 2]
Letter == [chars |-> <<"t">>, words |-> 0]
Percent == [chars |-> <<"%">>, words |-> 0]

Numbers == 0 .. 20 \cup {63, 64, 99, 100, 511, 512, 999, 1000, 2047, 2048, 2049, 4095}

\* Fractions of all 64ths, and whole numbers around the largest i32 and u32.
Lows == 0 .. 63 \cup {64, 101, 250, 4000, 4032, 4095}
Highs == {0, 1, 31, 32, 63, 64, 2048, 2050, 2080, 2081}

Conversions ==
    {[format |-> <<Plain(d)>>, words |-> <<n>>] :
        d \in {"c", "s", "b", "n", "u", "x", "B", "X"}, n \in Numbers}
    \cup {[format |-> <<Plain("a")>>, words |-> <<n, m>>] : n \in {0, 1, 99, 4095}, m \in {0, 1, 24}}
    \cup {[format |-> <<Plain(d)>>, words |-> <<n, m>>] :
        d \in Doubles, n \in Lows, m \in Highs}

Units == {Plain(d) : d \in {"n", "u", "f", "a", "s"}}
            \cup {NumberedX, NumberedF, Letter}

Distinct(f) == [k \in 1 .. Words(f, Len(f) + 1) |-> 10 * k - 7]

Formats == UNION {[1 .. n -> Units] : n \in 1 .. 3}
Alignments == {[format |-> f, words |-> Distinct(f)] : f \in Formats}
                \cup {[format |-> f \o <<Percent>>, words |-> Distinct(f)] : f \in [1 .. 1 -> Units]}

KernelCalls == Conversions \cup Alignments
=============================================================================
