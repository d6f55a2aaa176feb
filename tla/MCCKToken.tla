----------------------------- MODULE MCCKToken -----------------------------
(***************************************************************************)
(* The instance of CKToken for TLC: two modules, small units, a precise     *)
(* unit of 2 so that rounding bites, multipliers below and above it and the *)
(* refused 0.                                                               *)
(***************************************************************************)
EXTENDS CKTokenLedger

CONSTANTS m1, m2, c1

OneComponent == {<<c1>>}

SmallDefaultUnits  == 0 .. 1
SmallExternalUnits == {-1, 2}
SmallMultipliers   == {0, 1, 3}
=============================================================================
