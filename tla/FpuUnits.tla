------------------------------- MODULE FpuUnits -------------------------------
(***************************************************************************)
(* The combinational units of rtl/fpu_add.sv, fpu_sub.sv, fpu_mul.sv and   *)
(* fpu_div.sv.  A register is a natural number below 2^width; a slice is a *)
(* division and a remainder.  The units take an encoding apart with the    *)
(* same positions as the reference (Binary32!decode) and share nothing     *)
(* else with it: they shift, keep guard, round and sticky bits, and round  *)
(* by them.                                                                *)
(***************************************************************************)
EXTENDS Binary32

SigBits  == FracBits + 1                            \* 24: hidden bit and fraction
QuietNaN == POS_INFINITY + Hidden \div 2            \* 32'h7FC00000
Extra    == FracBits + 9                            \* EXTRA = 32
QWIDTH   == SigBits + Extra

Bit(x, i) == (x \div 2^i) % 2
LowBitsSet(x, n) == x % 2^n # 0                     \* |x[n-1:0]
Xor(p, q) == (p + q) % 2
Infinity(sign) == encode(sign, ExpMax, 0)

\* Round to nearest even by the guard bit: increment = G && (R || S || LSB).
RoundUp(lsb, guard, round, sticky) ==
  IF guard = 1 /\ (round = 1 \/ sticky \/ lsb = 1) THEN 1 ELSE 0

-------------------------------------------------------------------------------
(***************************************************************************)
(* fp_add.  Significands carry three extra bits: guard, round and sticky.  *)
(***************************************************************************)
ExtBits == SigBits + 3

EffectiveExp(v) == IF v.exponent = 0 THEN 1 ELSE v.exponent
Significand(v)  == IF v.exponent = 0 THEN v.fraction ELSE Hidden + v.fraction

\* The bits shifted out are lost (a mutant of shift_right_sticky).
shift_right(x, amount) == IF amount >= ExtBits THEN 0 ELSE x \div 2^amount

\* Every bit shifted out is ORed into bit 0.
shift_right_sticky(x, amount) ==
  LET shifted == IF amount >= ExtBits THEN 0 ELSE x \div 2^amount
      lost    == IF amount >= ExtBits THEN x # 0 ELSE LowBitsSet(x, amount)
  IN  IF lost /\ shifted % 2 = 0 THEN shifted + 1 ELSE shifted

\* Shift left until the hidden bit is set or the exponent is 1.
NormalizeShift(x, e) ==
  CHOOSE k \in 0 .. ExtBits - 1 :
    /\ k = ExtBits - 1 \/ Bit(x * 2^k, ExtBits - 1) = 1 \/ e - k <= 1
    /\ \A j \in 0 .. k - 1 : Bit(x * 2^j, ExtBits - 1) = 0 /\ e - j > 1

RoundSum(sign, e, work) ==
  LET sig     == work \div 8
      rounded == sig + RoundUp(sig % 2, Bit(work, 2), Bit(work, 1), work % 2 = 1)
      carry   == rounded = 2^SigBits
      exp     == (IF carry THEN e + 1 ELSE e) % 2^ExpBits
      result  == IF carry THEN rounded \div 2 ELSE rounded
  IN  IF exp >= ExpMax THEN Infinity(sign)
      ELSE IF exp = 1 /\ result < Hidden THEN encode(sign, 0, result)
      ELSE encode(sign, exp, result % Hidden)

AddFinite(va, vb) ==
  LET aLarge == \/ EffectiveExp(va) > EffectiveExp(vb)
                \/ /\ EffectiveExp(va) = EffectiveExp(vb)
                   /\ Significand(va) >= Significand(vb)
      large  == IF aLarge THEN va ELSE vb
      small  == IF aLarge THEN vb ELSE va
      e      == EffectiveExp(large)
      mantLarge == 8 * Significand(large)
      mantSmall == shift_right_sticky(8 * Significand(small),
                                      e - EffectiveExp(small))
      sum  == mantLarge + mantSmall
      diff == (mantLarge - mantSmall) % 2^ExtBits
      k    == NormalizeShift(diff, e)
  IN  IF va.sign = vb.sign
      THEN IF Bit(sum, ExtBits) = 1
           THEN RoundSum(large.sign, e + 1,
                         IF sum % 2 = 1 /\ (sum \div 2) % 2 = 0
                         THEN sum \div 2 + 1 ELSE sum \div 2)
           ELSE RoundSum(large.sign, e, sum)
      ELSE IF diff = 0 THEN 0                       \* exact cancellation
      ELSE RoundSum(large.sign, e - k, diff * 2^k)

fp_add(a, b) ==
  LET va == decode(a)
      vb == decode(b)
  IN  IF is_nan(va) \/ is_nan(vb) THEN QuietNaN
      ELSE IF is_infinity(va) /\ is_infinity(vb)
      THEN IF va.sign # vb.sign THEN QuietNaN ELSE a
      ELSE IF is_infinity(va) THEN a
      ELSE IF is_infinity(vb) THEN b
      ELSE IF is_zero(va) /\ is_zero(vb) THEN encode(va.sign * vb.sign, 0, 0)
      ELSE IF is_zero(va) THEN b
      ELSE IF is_zero(vb) THEN a
      ELSE AddFinite(va, vb)

fp_sub(a, b) == fp_add(a, (b + SignWeight) % (2 * SignWeight))

-------------------------------------------------------------------------------
(***************************************************************************)
(* fp_mul and fp_div normalise subnormal operands first: the exponent is   *)
(* unbiased and the hidden bit of the significand is always set.           *)
(***************************************************************************)
LeadingZeros(v) == CHOOSE k \in 0 .. FracBits :
                     /\ Bit(v.fraction * 2^k, FracBits) = 1
                     /\ \A j \in 0 .. k - 1 : Bit(v.fraction * 2^j, FracBits) = 0

NormSig(v) == IF v.exponent = 0 THEN v.fraction * 2^LeadingZeros(v)
                                ELSE Hidden + v.fraction
NormExp(v) == IF v.exponent = 0 THEN MIN_NORMAL_E - LeadingZeros(v)
                                ELSE v.exponent - EXP_BIAS

\* Pack a rounded significand of the normal path.
PackNormal(sign, e, rounded) ==
  LET carry == rounded = 2^SigBits
      exp   == IF carry THEN e + 1 ELSE e
  IN  IF exp > MAX_NORMAL_E THEN Infinity(sign)
      ELSE encode(sign, (exp + EXP_BIAS) % 2^ExpBits,
                  IF carry THEN 0 ELSE rounded % Hidden)

\* Pack a rounded significand of the subnormal path.
PackSubnormal(sign, rounded) ==
  IF rounded >= Hidden THEN encode(sign, 1, 0) ELSE encode(sign, 0, rounded)

\* The low bits of x below position n are a guard bit, a round bit and the rest.
RoundAt(x, n, alsoSticky) ==
  LET sig == x \div 2^n
  IN  sig + RoundUp(sig % 2,
                    IF n >= 1 THEN Bit(x, n - 1) ELSE 0,
                    IF n >= 2 THEN Bit(x, n - 2) ELSE 0,
                    (n >= 3 /\ LowBitsSet(x, n - 2)) \/ alsoSticky)

MulFinite(sign, va, vb) ==
  LET product == NormSig(va) * NormSig(vb)
      top     == Bit(product, 2 * SigBits - 1) = 1
      norm    == IF top THEN product ELSE 2 * product
      e       == NormExp(va) + NormExp(vb) + (IF top THEN 1 ELSE 0)
      shift   == -e - (EXP_BIAS - 1 - SigBits)      \* subnormal_shift = -exp - 102
  IN  IF e >= MIN_NORMAL_E THEN PackNormal(sign, e, RoundAt(norm, SigBits, FALSE))
      ELSE IF shift < 2 * SigBits
      THEN PackSubnormal(sign, RoundAt(norm, shift, FALSE))
      ELSE IF shift = 2 * SigBits
      THEN PackSubnormal(sign, IF /\ Bit(norm, 2 * SigBits - 1) = 1
                                  /\ LowBitsSet(norm, 2 * SigBits - 1)
                               THEN 1 ELSE 0)
      ELSE PackSubnormal(sign, 0)

fp_mul(a, b) ==
  LET va == decode(a)
      vb == decode(b)
      sign == Xor(va.sign, vb.sign)
  IN  IF is_nan(va) \/ is_nan(vb) THEN QuietNaN
      ELSE IF \/ is_infinity(va) /\ is_zero(vb)
              \/ is_infinity(vb) /\ is_zero(va) THEN QuietNaN
      ELSE IF is_infinity(va) \/ is_infinity(vb) THEN Infinity(sign)
      ELSE IF is_zero(va) \/ is_zero(vb) THEN 0
      ELSE MulFinite(sign, va, vb)

\* The quotient is brought to Extra fraction bits by one more step of the long
\* division when the first bit is zero.
DivFinite(sign, va, vb) ==
  LET divisor == NormSig(vb)
      q0 == (NormSig(va) * 2^Extra) \div divisor
      r0 == (NormSig(va) * 2^Extra) % divisor
      first == Bit(q0, Extra) = 1
      more  == 2 * r0 >= divisor
      quotient  == IF first THEN q0
                   ELSE ((2 * q0) % 2^QWIDTH) + (IF more THEN 1 ELSE 0)
      remainder == IF first THEN r0
                   ELSE IF more THEN 2 * r0 - divisor ELSE 2 * r0
      e     == NormExp(va) - NormExp(vb) - (IF first THEN 0 ELSE 1)
      shift == Extra + SUBNORMAL_E - e              \* 32 - 149 - exp_unbiased
      sig   == (quotient \div 2^shift) % 2^SigBits
  IN  IF e >= MIN_NORMAL_E
      THEN PackNormal(sign, e, RoundAt(quotient, Extra - FracBits, remainder # 0))
      ELSE IF shift >= QWIDTH THEN PackSubnormal(sign, 0)
      ELSE PackSubnormal(sign, sig + RoundAt(quotient, shift, remainder # 0)
                                   - quotient \div 2^shift)

fp_div(a, b) ==
  LET va == decode(a)
      vb == decode(b)
      sign == Xor(va.sign, vb.sign)
  IN  IF is_nan(va) \/ is_nan(vb) THEN QuietNaN
      ELSE IF \/ is_infinity(va) /\ is_infinity(vb)
              \/ is_zero(va) /\ is_zero(vb) THEN QuietNaN
      ELSE IF is_zero(vb) THEN Infinity(sign)
      ELSE IF is_infinity(va) THEN Infinity(sign)
      ELSE IF is_infinity(vb) THEN encode(sign, 0, 0)
      ELSE IF is_zero(va) THEN 0
      ELSE DivFinite(sign, va, vb)
===============================================================================
