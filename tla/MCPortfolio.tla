----------------------------- MODULE MCPortfolio -----------------------------
(***************************************************************************)
(* Instances of Portfolio: units that the precise unit does not divide, so  *)
(* that deposits, payouts, units and fees all round.                        *)
(***************************************************************************)
EXTENDS Portfolio

CONSTANTS c1, c2

TwoUnits == {[c \in Component |-> IF c = c1 THEN 3 ELSE 0]}
OneUnit  == {[c \in Component |-> 3], [c \in Component |-> 5]}
=============================================================================
