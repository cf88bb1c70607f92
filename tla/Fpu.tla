---------------------------------- MODULE Fpu ----------------------------------
(***************************************************************************)
(* rtl/fpu.sv: the four units behind one result register, against the      *)
(* Python reference of the same operation.  The environment drives one     *)
(* operation out of reset; an edge clocks its result in.                   *)
(***************************************************************************)
EXTENDS FpuUnits, FpuReference

CONSTANTS Operands,    \* the encodings driven, a subset of Word
          Opcodes      \* the values of the three-bit op driven

ASSUME OperandsAssumption == /\ 0 \in Operands /\ Operands \subseteq Word
                             /\ ADD \in Opcodes /\ Opcodes \subseteq 0 .. 7

VARIABLES a, b, op,          \* inputs
          result, ready      \* output registers

vars == <<a, b, op, result, ready>>

\* The multiplexer in front of the result register.
Selected(x, y, o) ==
  CASE o = ADD -> fp_add(x, y)
    [] o = SUB -> fp_sub(x, y)
    [] o = MUL -> fp_mul(x, y)
    [] o = DIV -> fp_div(x, y)
    [] OTHER   -> 0

Init == /\ a = 0 /\ b = 0 /\ op = ADD
        /\ result = 0 /\ ready = FALSE

\* The environment puts an operation on the wires.
Drive == /\ ~ ready /\ a = 0 /\ b = 0 /\ op = ADD
         /\ a' \in Operands /\ b' \in Operands /\ op' \in Opcodes
         /\ UNCHANGED <<result, ready>>

\* The asynchronous reset clears both registers.
Reset == /\ result' = 0
         /\ ready' = FALSE
         /\ UNCHANGED <<a, b, op>>

Clock == /\ result' = Selected(a, b, op)
         /\ ready' = TRUE
         /\ UNCHANGED <<a, b, op>>

Next == Drive \/ Reset \/ Clock
Spec == Init /\ [][Next]_vars

-------------------------------------------------------------------------------
Supported == reference_model(a, b, op).status = SUPPORTED

\* The exact sum of two zeros that are both negative once SUB has negated b: the
\* reference has no fraction -0 and answers +0, the adder answers -0.
NegativeZeroSum == /\ a = SignWeight
                   /\ \/ op = ADD /\ b = SignWeight
                      \/ op = SUB /\ b = 0

\* Shifted significands with guard, round and sticky bits (fpu_add.sv, fpu_mul.sv,
\* fpu_div.sv) and exact fractions rounded once (binary32.py) give the same word
\* for every supported operation: through ties, carries out of the rounding,
\* subnormal operands and results, and overflow; the signed zero sum is the one
\* exception.
MatchesReference ==
  ready /\ Supported /\ ~ NegativeZeroSum =>
    result = reference_model(a, b, op).result

-------------------------------------------------------------------------------
\* Magnitudes in the order of their encodings.  Infinity stands where the next
\* binade would begin, which makes overflow a case of rounding.
MagnitudeValue(m) ==
  IF m = POS_INFINITY THEN Fraction(2^(MAX_NORMAL_E + 1), 1) ELSE exact_fraction(m)

\* m is at least as near to the magnitude x as n is; equally near only if even.
NearerThan(x, m, n) ==
  LET Error(y) == Magnitude(Fraction(x.num * y.den - y.num * x.den, y.den))
      em == Error(MagnitudeValue(m))
      en == Error(MagnitudeValue(n))
  IN  Less(em, en) \/ (SameValue(em, en) /\ m % 2 = 0)

FiniteOperation == /\ Supported
                   /\ op = DIV => b \notin Zeroes

Exact == ExactResult(exact_fraction(a), exact_fraction(b), op)

\* The reference result is the nearest encoding to the exact result, the even one
\* of two equally near, with the sign of the exact result: what binary32.py says
\* of itself, restated by comparison with both neighbours, without a rounding.
ReferenceIsNearestEven ==
  FiniteOperation =>
    LET bits == reference_model(a, b, op).result
        m    == bits % SignWeight
    IN  /\ \A n \in {m - 1, m + 1} \cap (0 .. POS_INFINITY) :
             NearerThan(Magnitude(Exact), m, n)
        /\ bits \div SignWeight = (IF Exact.num < 0 THEN 1 ELSE 0)

\* is_exact_binary32 holds exactly of the fractions some finite encoding has.
ExactnessIsRepresentability ==
  FiniteOperation =>
    (is_exact_binary32(Exact) <=>
       \E m \in 0 .. POS_INFINITY - 1 :
         SameValue(Magnitude(Exact), exact_fraction(m)))

\* The adder's own comment (fpu_add.sv:242) and docs/
\* fpu_ieee754_verification_matrix.md:177 say -0 + -0 is -0; the reference, which
\* is to predict the adder, answers +0.
ReferenceKeepsNegativeZero ==
  a = SignWeight /\ b = SignWeight /\ op = ADD =>
    reference_model(a, b, op).result = SignWeight
===============================================================================
