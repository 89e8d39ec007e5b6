----------------------------- MODULE MCPackets -----------------------------
EXTENDS Packets

MinExpDef == -2

\* The ends of the range of integers and what surrounds zero.
IntegersDef == {-512, -1, 0, 1, 300}

\* All of NaN, infinity and zero with both signs; the smallest and the largest double, the
\* ends of the normal ones, and a number between them.
Finite(negative, mantissa, exponent) ==
    [class |-> "finite", negative |-> negative, mantissa |-> mantissa, exponent |-> exponent]
DoublesDef ==
    [class : {"nan", "inf", "zero"}, negative : BOOLEAN] \cup
    {Finite(FALSE, 0, MinExp - MantissaBits), Finite(TRUE, 2, MinExp - 1),
     Finite(TRUE, 0, MinExp), Finite(FALSE, 3, 0), Finite(FALSE, Leading - 1, MaxExp)}

StringsDef == {<<>>, <<7>>, <<1, 31>>}
BlobsDef == {<<>>, <<0>>, <<31, 0, 2>>}

FormatsDef ==
    {<<"l">>, <<">", "l", "<", "l">>, <<">", "d">>, <<">", "s", "b">>, <<"d", "?">>}
=============================================================================
