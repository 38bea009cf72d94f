----------------------------- MODULE FixedPoint -----------------------------
(***************************************************************************)
(* The fields of a RESULT that travel as hundredths in 16 bits (vel,       *)
(* pos_noise, vel_noise): fm_data_result_from_raw divides them by 100.0f,  *)
(* fm_data_result_to_raw multiplies by 100.0f and casts.                   *)
(*                                                                         *)
(* A positive float is [m, e], standing for m / 2^e with 24 bits in m; the *)
(* operations round to the nearest such number, ties to even m (IEEE 754   *)
(* single precision, which the compilers of the supported platforms use).  *)
(***************************************************************************)
EXTENDS Integers

\* An int16_t (vel) or a uint16_t (the noises).
Lowest(signed)  == IF signed THEN -32768 ELSE 0
Highest(signed) == IF signed THEN 32767 ELSE 65535

\* The value in range nearest to n.
Clamped(signed, n) == IF n > Highest(signed) THEN Highest(signed)
                      ELSE IF n < Lowest(signed) THEN Lowest(signed) ELSE n

Abs(n) == IF n < 0 THEN -n ELSE n

\* The powers of two.
TwoTo[n \in 0 .. 30] == IF n = 0 THEN 1 ELSE 2 * TwoTo[n - 1]

\* a / b to the nearest integer, ties to even.
RoundDiv(a, b) ==
    LET q == a \div b  r == a % b
    IN  IF 2 * r > b \/ (2 * r = b /\ q % 2 = 1) THEN q + 1 ELSE q

\* The float nearest to k / 100, for k in 1 .. 2^23: the exponent is the one
\* that leaves 24 bits.
DivideBy100(k) ==
    LET e == CHOOSE x \in 0 .. 30 : /\ k * TwoTo[x] >= 100 * TwoTo[23]
                                    /\ (k * TwoTo[x]) \div 100 < TwoTo[24]
    IN  [m |-> RoundDiv(k * TwoTo[e], 100), e |-> e]

\* Mutant: twice the multiplication's rounding is cut off.
MultiplyCut(f) ==
    LET shift == IF f.m * 100 < TwoTo[30] THEN 6 ELSE 7
    IN  [m |-> (f.m * 100) \div TwoTo[shift] - 1, e |-> f.e - shift]

\* The float nearest to 100 * f.
MultiplyBy100(f) ==
    LET shift == IF f.m * 100 < TwoTo[30] THEN 6 ELSE 7
    IN  [m |-> RoundDiv(f.m * 100, TwoTo[shift]), e |-> f.e - shift]

\* The cast of a positive float to an integer drops its fraction.
Truncate(f) == f.m \div TwoTo[f.e]

\* Mutant: the limits of the other type.
ClampCastSwapped(signed, negative, f) ==
    LET n == IF negative THEN -Truncate(f) ELSE Truncate(f)
    IN  Clamped(~signed, n)

\* fm_clamp_cast_i16 and fm_clamp_cast_u16
ClampCast(signed, negative, f) ==
    LET n == IF negative THEN -Truncate(f) ELSE Truncate(f)
    IN  Clamped(signed, n)

\* What to_raw makes of the float nearest to k / 100, which is what from_raw
\* makes of k.
Reencoded(signed, k) ==
    IF k = 0 THEN 0
    ELSE ClampCast(signed, k < 0, MultiplyBy100(DivideBy100(Abs(k))))
============================================================================
