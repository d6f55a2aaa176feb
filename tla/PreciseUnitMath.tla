--------------------------- MODULE PreciseUnitMath ---------------------------
(***************************************************************************)
(* The fixed-point arithmetic of lib/PreciseUnitMath.sol.  A precise number *)
(* is an integer counted in units of 1/PreciseUnit; the contract fixes      *)
(* PreciseUnit to 10^18, the specification leaves it a parameter so that    *)
(* TLC can take a small one and the proofs hold for every one.              *)
(***************************************************************************)
EXTENDS Integers

CONSTANT PreciseUnit

ASSUME PreciseUnitAssumption == PreciseUnit \in Nat \ {0}

-----------------------------------------------------------------------------
(* Solidity's signed division rounds toward zero, TLA+'s \div toward minus  *)
(* infinity.  Every divisor of the contracts' conversions is positive.      *)
truncDiv(a, b) == IF a >= 0 THEN a \div b ELSE -((-a) \div b)

preciseMul(a, b)    == (a * b) \div PreciseUnit              \* uint256 x uint256
preciseMulInt(a, b) == truncDiv(a * b, PreciseUnit)          \* int256 x int256
preciseDiv(a, b)    == (a * PreciseUnit) \div b
preciseDivInt(a, b) == truncDiv(a * PreciseUnit, b)

preciseMulCeil(a, b) ==
    IF a = 0 \/ b = 0 THEN 0 ELSE (a * b - 1) \div PreciseUnit + 1

preciseDivCeil(a, b) ==
    IF a > 0 THEN (a * PreciseUnit - 1) \div b + 1 ELSE 0

\* The truncated quotient, one lower when the exact one is negative and not
\* an integer.
divDown(a, b) ==
    LET result == truncDiv(a, b)
    IN  IF a < 0 /\ a % b # 0 THEN result - 1 ELSE result

conservativePreciseMul(a, b) == divDown(a * b, PreciseUnit)
conservativePreciseDiv(a, b) == divDown(a * PreciseUnit, b)

approximatelyEquals(a, b, range) == a <= b + range /\ a >= b - range
=============================================================================
