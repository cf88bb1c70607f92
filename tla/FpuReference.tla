----------------------------- MODULE FpuReference -----------------------------
(***************************************************************************)
(* reference/fpu_reference_model.py: the architectural reference of the    *)
(* FPU.  An outcome is a record with a status; only a SUPPORTED outcome    *)
(* has a result.  The reason texts are left out.                           *)
(***************************************************************************)
EXTENDS Binary32

ADD == 0
SUB == 1
MUL == 2
DIV == 3
Operations == {ADD, SUB, MUL, DIV}

SUPPORTED   == "SUPPORTED"
UNSUPPORTED == "UNSUPPORTED"

_unsupported == [status |-> UNSUPPORTED, result |-> 0, class |-> UNSUPPORTED]

_supported(bits) ==
  [status |-> SUPPORTED, result |-> bits, class |-> classify(bits)]

_is_nan(bits)      == is_nan(decode(bits))
_is_infinity(bits) == is_infinity(decode(bits))
Zeroes             == {0, SignWeight}              \* 0x00000000, 0x80000000

\* The exact result of op on two finite values, the second nonzero for DIV.
ExactResult(x, y, op) ==
  LET Over(n, d) == IF d < 0 THEN Fraction(-n, -d) ELSE Fraction(n, d)
  IN  CASE op = ADD -> Fraction(x.num * y.den + y.num * x.den, x.den * y.den)
        [] op = SUB -> Fraction(x.num * y.den - y.num * x.den, x.den * y.den)
        [] op = MUL -> Fraction(x.num * y.num, x.den * y.den)
        [] op = DIV -> Over(x.num * y.den, x.den * y.num)

\* The order of the tests is the order of the code.
reference_model(a, b, op) ==
  IF op \notin Operations THEN _unsupported
  ELSE IF _is_nan(a) \/ _is_nan(b) THEN _unsupported
  ELSE IF _is_infinity(a) \/ _is_infinity(b) THEN _unsupported
  ELSE IF op = DIV /\ b \in Zeroes
  THEN IF a \in Zeroes
       THEN _unsupported
       ELSE LET sign == (a \div SignWeight + b \div SignWeight) % 2
            IN  _supported(encode(sign, ExpMax, 0))
  ELSE _supported(binary32_from_fraction(
                    ExactResult(exact_fraction(a), exact_fraction(b), op)))
===============================================================================
