-------------------------------- MODULE Trade --------------------------------
(***************************************************************************)
(* protocol/modules/TradeModule.sol and WrapModule.sol: the manager turns   *)
(* one component into another, at an exchange or in a wrapping protocol,    *)
(* and the module sets the units of both from the balances before and       *)
(* after.  What the other side takes, up to the approval, and what it gives *)
(* is its choice.                                                           *)
(***************************************************************************)
EXTENDS Fund

CONSTANT TradeProtocolFee

ASSUME TradeProtocolFeeAssumption == TradeProtocolFee \in 0 .. PreciseUnit

\* The balances after the other side took some of one and gave some of the other.
Swapped(send, taken, receive, given) ==
    [[balance EXCEPT ![send] = @ - taken] EXCEPT ![receive] = @ + given]

-----------------------------------------------------------------------------
UpdatePositions(first, second, post) ==
    LET units == Updated(virtualUnit, first, post)
    IN  /\ IsUpdatable(virtualUnit, first, post)
        /\ IsUpdatable(units, second, post)
        /\ virtualUnit' = Updated(units, second, post)
        /\ balance' = post
        /\ UNCHANGED <<totalSupply, positionMultiplier>>

-----------------------------------------------------------------------------
(* TradeModule.trade *)

Trade(send, sendUnits, receive, minUnits, taken, given) ==
    LET swapped   == Swapped(send, taken, receive, given)
        exchanged == swapped[receive] - balance[receive]
        fee       == preciseMul(exchanged, TradeProtocolFee)
        post      == [swapped EXCEPT ![receive] = @ - fee]
    IN  /\ getDefaultTotalNotional(totalSupply, sendUnits) > 0
        /\ hasSufficientDefaultUnits(send, sendUnits)
        /\ taken <= getDefaultTotalNotional(totalSupply, sendUnits)
        /\ taken <= balance[send]
        /\ exchanged >= 0
        /\ exchanged >= getDefaultTotalNotional(totalSupply, minUnits)
        /\ post[send] <= balance[send] /\ post[receive] >= balance[receive]
        /\ UpdatePositions(send, receive, post)

-----------------------------------------------------------------------------
(* WrapModule *)

\* _validateInputs, and the subtractions that report what moved.
Converts(from, units, to, taken, given) ==
    LET post == Swapped(from, taken, to, given)
    IN  /\ units > 0
        /\ getDefaultPositionRealUnit(virtualUnit, from) > 0
        /\ hasSufficientDefaultUnits(from, units)
        /\ taken <= getDefaultTotalNotional(totalSupply, units)
        /\ taken <= balance[from]
        /\ post[from] <= balance[from] /\ post[to] >= balance[to]

\* _updatePosition calculates on an empty balance too.
WrapUpdates(first, second, post) ==
    /\ IsCalculable(virtualUnit, first, balance[first], post[first])
    /\ IsCalculable(Updated(virtualUnit, first, post), second, balance[second], post[second])
    /\ UpdatePositions(first, second, post)

Wrap(underlying, units, wrapped, taken, given) ==
    /\ Converts(underlying, units, wrapped, taken, given)
    /\ WrapUpdates(underlying, wrapped, Swapped(underlying, taken, wrapped, given))

Unwrap(underlying, units, wrapped, taken, given) ==
    /\ Converts(wrapped, units, underlying, taken, given)
    /\ WrapUpdates(underlying, wrapped, Swapped(wrapped, taken, underlying, given))
=============================================================================
