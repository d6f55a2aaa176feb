-------------------------------- MODULE Fund --------------------------------
(***************************************************************************)
(* A CKToken as the issuance, trade and fee modules see it: an ERC20 with a *)
(* total supply that owns ERC20 balances of its components and promises     *)
(* every whole token a real unit of each of them.                           *)
(*                                                                          *)
(* A component with unit zero is one the token does not list (CKToken's     *)
(* ComponentListExact), so the lists of CKToken are left out here.  Only    *)
(* default positions are kept: BasicIssuanceModule refuses a token that has *)
(* an external one.  The operators take the units as an argument because a  *)
(* module may edit several positions in one transaction.                    *)
(***************************************************************************)
EXTENDS PreciseUnitMath

CONSTANT Component

VARIABLES
    totalSupply,         \* CKTokens, in units of 1/PreciseUnit
    balance,             \* IERC20(component).balanceOf(ckToken)
    virtualUnit,         \* default positions
    positionMultiplier

fundVars == <<totalSupply, balance, virtualUnit, positionMultiplier>>

-----------------------------------------------------------------------------
(* CKToken's units *)

getDefaultPositionRealUnit(units, c) == conservativePreciseMul(units[c], positionMultiplier)

\* A positive real unit must survive storing and reading back.
IsStorable(real) ==
    real > 0 => LET virtual == conservativePreciseDiv(real, positionMultiplier)
                IN  virtual # 0 /\ conservativePreciseMul(virtual, positionMultiplier) # 0

editDefaultPosition(units, c, real) ==
    [units EXCEPT ![c] = conservativePreciseDiv(real, positionMultiplier)]

\* CKToken's check of a new multiplier, on default positions; with none it reverts.
IsValidMultiplier(multiplier) ==
    /\ \E c \in Component : virtualUnit[c] > 0
    /\ \A c \in Component :
         virtualUnit[c] > 0 => conservativePreciseMul(virtualUnit[c], multiplier) > 0

-----------------------------------------------------------------------------
(* Position.sol *)

hasSufficientDefaultUnits(c, unit) == getDefaultPositionRealUnit(virtualUnit, c) >= unit

getDefaultTotalNotional(supply, unit)     == preciseMul(supply, unit)
getDefaultPositionUnit(supply, notional) == preciseDiv(notional, supply)

\* What the token owes its holders, out of what it holds.
getDefaultTrackedBalance(units, c) ==
    preciseMul(totalSupply, getDefaultPositionRealUnit(units, c))

\* The two subtractions and the division do not revert.
IsCalculable(units, c, pre, post) ==
    /\ totalSupply > 0
    /\ getDefaultTrackedBalance(units, c) <= pre
    /\ pre - getDefaultTrackedBalance(units, c) <= post

\* Amounts above the tracked balance before the action stay airdropped.
calculateDefaultEditPositionUnit(units, c, pre, post) ==
    getDefaultPositionUnit(totalSupply, post - (pre - getDefaultTrackedBalance(units, c)))

-----------------------------------------------------------------------------
(* Position.calculateAndEditDefaultPosition, on balances held before and post *)

\* Mutant: all that is held counts, amounts sent to the token before included.
NewUnit_Absolute(units, c, post) == getDefaultPositionUnit(totalSupply, post[c])

NewUnit(units, c, post) ==
    IF post[c] = 0 THEN 0
    ELSE calculateDefaultEditPositionUnit(units, c, balance[c], post[c])

IsUpdatable(units, c, post) ==
    /\ post[c] = 0 \/ IsCalculable(units, c, balance[c], post[c])
    /\ IsStorable(NewUnit(units, c, post))

Updated(units, c, post) == editDefaultPosition(units, c, NewUnit(units, c, post))

-----------------------------------------------------------------------------
(* Created with a unit in some components and no supply; tokens can be sent *)
(* to any address at any time.                                              *)

FundInit(realUnits) ==
    /\ totalSupply = 0
    /\ balance = [c \in Component |-> 0]
    /\ virtualUnit = realUnits
    /\ positionMultiplier = PreciseUnit

Receive(c, quantity) ==
    /\ balance' = [balance EXCEPT ![c] = @ + quantity]
    /\ UNCHANGED <<totalSupply, virtualUnit, positionMultiplier>>

-----------------------------------------------------------------------------
FundTypeOK ==
    /\ totalSupply \in Nat
    /\ balance \in [Component -> Nat]
    /\ virtualUnit \in [Component -> Nat]
    /\ positionMultiplier \in Nat \ {0}

\* The token holds what redeeming its whole supply pays out, in every component:
\* the last holder can redeem, and the subtraction of the tracked balance in
\* calculateDefaultEditPositionUnit and in the airdrop module never reverts.
Collateralized ==
    \A c \in Component : getDefaultTrackedBalance(virtualUnit, c) <= balance[c]

\* By how much the token holds less of a component than its supply is worth of it
\* before any rounding, in units of 1/PreciseUnit^2 of the component's smallest.
shortfall(c) ==
    LET owed == virtualUnit[c] * positionMultiplier * totalSupply
        held == balance[c] * PreciseUnit * PreciseUnit
    IN  IF owed > held THEN owed - held ELSE 0
=============================================================================
