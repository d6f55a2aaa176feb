---------------------------- MODULE BasicIssuance ----------------------------
(***************************************************************************)
(* protocol/modules/BasicIssuanceModule.sol: anyone mints CKTokens for the  *)
(* components behind them and burns CKTokens for their share.  Holders are  *)
(* merged: a redemption is by a holder of at least that quantity.  The      *)
(* manager's pre-issue hook may only refuse, so it is left out.             *)
(***************************************************************************)
EXTENDS Fund

\* Mutant: rounds the deposit down.
getRequiredComponentUnitsForIssue_RoundedDown(quantity) ==
    [c \in Component |-> preciseMul(getDefaultPositionRealUnit(virtualUnit, c), quantity)]

getRequiredComponentUnitsForIssue(quantity) ==
    [c \in Component |-> preciseMulCeil(getDefaultPositionRealUnit(virtualUnit, c), quantity)]

Issue(quantity) ==
    /\ quantity > 0
    /\ balance' = [c \in Component |->
                     balance[c] + getRequiredComponentUnitsForIssue(quantity)[c]]
    /\ totalSupply' = totalSupply + quantity
    /\ UNCHANGED <<virtualUnit, positionMultiplier>>

RedeemedUnits(quantity) ==
    [c \in Component |-> preciseMul(quantity, getDefaultPositionRealUnit(virtualUnit, c))]

\* ERC20's burn: some holder has the quantity.
IsBurnable(quantity) == quantity <= totalSupply

Redeem(quantity) ==
    /\ quantity > 0 /\ IsBurnable(quantity)
    /\ \A c \in Component : RedeemedUnits(quantity)[c] <= balance[c]
    /\ totalSupply' = totalSupply - quantity
    /\ balance' = [c \in Component |-> balance[c] - RedeemedUnits(quantity)[c]]
    /\ UNCHANGED <<virtualUnit, positionMultiplier>>
=============================================================================
