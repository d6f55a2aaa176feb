--------------------------- MODULE MCNAVPortfolio ---------------------------
(***************************************************************************)
(* Instance of NAVPortfolio: a reserve asset that prices are quoted in, and *)
(* another component, whose price does not divide the precise unit.         *)
(***************************************************************************)
EXTENDS NAVPortfolio

CONSTANTS c1, c2

NAVUnits     == {[c \in Component |-> IF c = c1 THEN 7 ELSE 9]}
NAVPrices    == [c \in Component |-> IF c = c1 THEN 10 ELSE 16]
NAVBaseUnits == [c \in Component |-> IF c = c1 THEN 5 ELSE 10]

\* Free of charge, and at a fee and a premium.
Settings(fee, premium) ==
    [reserveAssets |-> <<c1>>, minCKTokenSupply |-> 3,
     managerFees |-> [side \in Side |-> fee], maxManagerFee |-> 4,
     premiumPercentage |-> premium, maxPremiumPercentage |-> 4]

MCNAVSettings == {Settings(0, 0), Settings(4, 4)}
=============================================================================
