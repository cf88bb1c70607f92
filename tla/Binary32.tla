------------------------------- MODULE Binary32 -------------------------------
(***************************************************************************)
(* The exact number format of reference/binary32.py.  An encoding is a     *)
(* natural number, its fields are taken out by position, and an exact      *)
(* value is a fraction: a record of an integer numerator and a positive    *)
(* denominator.  Python's Fraction keeps its lowest terms; the operators   *)
(* below depend on the value of a fraction and never on the terms.         *)
(*                                                                         *)
(* The format is parameterised by its two field widths (8 and 23 in the    *)
(* code) so that small formats can be enumerated.                          *)
(***************************************************************************)
EXTENDS Integers

CONSTANTS ExpBits,     \* width of the exponent field, 8 in the code
          FracBits     \* width of the fraction field, EXP_SHIFT = 23 in the code

ASSUME FormatAssumption == /\ ExpBits \in Nat \ {0, 1}
                           /\ FracBits \in Nat \ {0}

EXP_BIAS     == 2^(ExpBits - 1) - 1
ExpMax       == 2^ExpBits - 1                     \* 0xFF
Hidden       == 2^FracBits                        \* the implicit leading one
SignWeight   == 2^(ExpBits + FracBits)
MIN_NORMAL_E == 1 - EXP_BIAS
MAX_NORMAL_E == EXP_BIAS
SUBNORMAL_E  == MIN_NORMAL_E - FracBits           \* exponent of the quantum

Word         == 0 .. 2 * SignWeight - 1
POS_INFINITY == ExpMax * Hidden

-------------------------------------------------------------------------------
\* Fields and classes.

decode(bits) == [sign     |-> (bits \div SignWeight) % 2,
                 exponent |-> (bits \div Hidden) % 2^ExpBits,
                 fraction |-> bits % Hidden]

encode(sign, exponent, fraction) ==
  sign * SignWeight + exponent * Hidden + fraction

is_zero(v)      == v.exponent = 0 /\ v.fraction = 0
is_subnormal(v) == v.exponent = 0 /\ v.fraction # 0
is_infinity(v)  == v.exponent = ExpMax /\ v.fraction = 0
is_nan(v)       == v.exponent = ExpMax /\ v.fraction # 0

classify(bits) ==
  LET v == decode(bits)
      Signed(plus, minus) == IF v.sign = 1 THEN minus ELSE plus
  IN  IF is_zero(v) THEN Signed("ZERO", "NEG_ZERO")
      ELSE IF is_subnormal(v) THEN Signed("SUBNORMAL", "NEG_SUBNORMAL")
      ELSE IF is_infinity(v) THEN Signed("POS_INFINITY", "NEG_INFINITY")
      ELSE IF is_nan(v) THEN "NAN"
      ELSE Signed("NORMAL", "NEG_NORMAL")

-------------------------------------------------------------------------------
\* Exact fractions.

Fraction(n, d) == [num |-> n, den |-> d]

Less(x, y)   == x.num * y.den < y.num * x.den
SameValue(x, y) == x.num * y.den = y.num * x.den
Magnitude(x) == Fraction(IF x.num < 0 THEN -x.num ELSE x.num, x.den)

\* x * 2^k for an integer k of either sign
Scale(x, k) == IF k >= 0 THEN Fraction(x.num * 2^k, x.den)
                         ELSE Fraction(x.num, x.den * 2^(-k))

\* The value of a finite encoding (NaN and infinity raise ValueError: callers
\* rule them out first).
exact_fraction(bits) ==
  LET v == decode(bits)
      significand == IF v.exponent = 0 THEN v.fraction ELSE Hidden + v.fraction
      exponent == IF v.exponent = 0 THEN SUBNORMAL_E
                                    ELSE v.exponent - EXP_BIAS - FracBits
  IN  Scale(Fraction(IF v.sign = 1 THEN -significand ELSE significand, 1),
            exponent)

-------------------------------------------------------------------------------
\* Rounding.

\* int.bit_length of a positive integer
BitLength(n) == CHOOSE k \in 1 .. n : 2^(k - 1) <= n /\ n < 2^k

\* The estimate from the bit lengths is right or one too large.
floor_log2(x) ==
  LET estimate == BitLength(x.num) - BitLength(x.den)
  IN  IF Less(x, Scale(Fraction(1, 1), estimate)) THEN estimate - 1 ELSE estimate

\* Ties away from zero (a mutant of round_to_nearest_even).
round_half_up(x) == (2 * x.num + x.den) \div (2 * x.den)

round_to_nearest_even(x) ==
  LET lower     == x.num \div x.den
      remainder == x.num - lower * x.den          \* over x.den
  IN  IF 2 * remainder < x.den THEN lower
      ELSE IF 2 * remainder > x.den THEN lower + 1
      ELSE IF lower % 2 = 0 THEN lower ELSE lower + 1

\* The normal branch: a carry out of the rounding moves to the next binade, and
\* past the last binade the result is infinity.
NormalResult(sign, magnitude, e) ==
  LET rounded == round_to_nearest_even(Scale(magnitude, FracBits - e))
      carry   == rounded = 2 * Hidden
      significand == IF carry THEN Hidden ELSE rounded
      exponent    == IF carry THEN e + 1 ELSE e
  IN  IF exponent > MAX_NORMAL_E
      THEN encode(sign, 0, 0) + POS_INFINITY
      ELSE encode(sign, exponent + EXP_BIAS, significand % Hidden)

\* Below the smallest normal number every result is a multiple of the quantum; a
\* fraction that rounds up to 2^23 is the smallest normal number.
SubnormalResult(sign, magnitude) ==
  LET fraction == round_to_nearest_even(Scale(magnitude, -SUBNORMAL_E))
  IN  IF fraction >= Hidden THEN encode(sign, 1, 0)
                            ELSE encode(sign, 0, fraction)

binary32_from_fraction(x) ==
  LET sign      == IF x.num < 0 THEN 1 ELSE 0
      magnitude == Magnitude(x)
      e         == floor_log2(magnitude)
  IN  IF x.num = 0 THEN 0
      ELSE IF e >= MIN_NORMAL_E THEN NormalResult(sign, magnitude, e)
      ELSE SubnormalResult(sign, magnitude)

\* Without the test for infinity (a mutant of is_exact_binary32).
is_exact_unbounded(x) ==
  \/ x.num = 0
  \/ SameValue(exact_fraction(binary32_from_fraction(x)), x)

\* Zero is exact; an overflow, or a nonzero value that rounds to zero, is not.
is_exact_binary32(x) ==
  LET bits == binary32_from_fraction(x)
  IN  \/ x.num = 0
      \/ /\ ~ is_infinity(decode(bits))
         /\ ~ is_zero(decode(bits))
         /\ SameValue(exact_fraction(bits), x)
===============================================================================
