---------------------------- MODULE TestFormulas ----------------------------
(***************************************************************************)
(* The values the tests expect: utils/common/mathUtils.ts, feeModuleUtils.ts,*)
(* navIssuanceModuleUtils.ts and uniswapUtils.ts.  What they read from the   *)
(* contracts first is an argument here.  A BigNumber is signed, so that a    *)
(* subtraction does not revert where the contracts' does.                    *)
(***************************************************************************)
EXTENDS Integers

CONSTANTS PreciseUnit, OneYear

magnitude(a) == IF a < 0 THEN -a ELSE a

\* BigNumber's division truncates.
div(a, b) ==
    LET quotient == magnitude(a) \div magnitude(b)
    IN  IF (a < 0) = (b < 0) THEN quotient ELSE -quotient

-----------------------------------------------------------------------------
(* mathUtils.ts                                                              *)

preciseMul(a, b) == div(a * b, PreciseUnit)
preciseDiv(a, b) == div(a * PreciseUnit, b)

preciseMulCeil(a, b) ==
    IF a = 0 \/ b = 0 THEN 0 ELSE div(a * b - 1, PreciseUnit) + 1

preciseDivCeil(a, b) ==
    IF a = 0 \/ b = 0 THEN 0 ELSE div(a * PreciseUnit - 1, b) + 1

\* Away from zero.
preciseMulCeilInt(a, b) ==
    IF (a > 0) = (b > 0) THEN preciseMulCeil(a, b)
    ELSE IF a = 0 \/ b = 0 THEN 0 ELSE div(a * b + 1, PreciseUnit) - 1

preciseDivCeilInt(a, b) ==
    IF (a > 0) = (b > 0) THEN preciseDivCeil(a, b)
    ELSE IF a = 0 \/ b = 0 THEN 0 ELSE div(a * PreciseUnit + 1, b) - 1

\* Down, for any signs.
divDown(a, b) ==
    IF a # 0 /\ (a < 0) # (b < 0) /\ magnitude(a) % magnitude(b) # 0
    THEN div(a, b) - 1
    ELSE div(a, b)

-----------------------------------------------------------------------------
(* feeModuleUtils.ts                                                         *)

getStreamingFee(previousAccrueTimestamp, recentAccrueTimestamp, streamingFee) ==
    div((recentAccrueTimestamp - previousAccrueTimestamp) * streamingFee, OneYear)

getStreamingFeeInflationAmount(inflationPercent, totalSupply) ==
    div(inflationPercent * totalSupply, PreciseUnit - inflationPercent)

getPostFeePositionUnits(preFeeUnits, inflationPercent) ==
    [c \in DOMAIN preFeeUnits |->
        LET remaining == PreciseUnit - inflationPercent
        IN  IF preFeeUnits[c] >= 0 THEN preciseMul(preFeeUnits[c], remaining)
            ELSE preciseMulCeilInt(preFeeUnits[c], remaining)]

-----------------------------------------------------------------------------
(* navIssuanceModuleUtils.ts                                                 *)

getExpectedIssuePositionMultiplier(multiplier, previousSupply, currentSupply) ==
    preciseMul(multiplier,
               PreciseUnit - preciseDivCeil(currentSupply - previousSupply, currentSupply))

getExpectedRedeemPositionMultiplier(multiplier, previousSupply, currentSupply) ==
    preciseMul(multiplier,
               PreciseUnit + preciseDiv(previousSupply - currentSupply, currentSupply))

getExpectedPostFeeQuantity(quantity, managerFee, protocolDirectFee) ==
    quantity - preciseMul(quantity, managerFee) - preciseMul(quantity, protocolDirectFee)

getExpectedCKTokenIssueQuantity(supply, valuation, base, quantity, managerFee, directFee, premium) ==
    LET subFees           == getExpectedPostFeeQuantity(quantity, managerFee, directFee)
        subFeesAndPremium == preciseDiv(subFees - preciseMul(subFees, premium), base)
    IN  preciseDiv(preciseMul(subFeesAndPremium, supply),
                   preciseMul(supply, valuation)
                       + preciseDiv(subFees, base) - subFeesAndPremium)

\* Meant to round as a unit does that the contracts store and read back.
adjusted(unit, multiplier) == preciseDiv(preciseMul(unit, multiplier), multiplier)

getExpectedIssuePositionUnit(units, quantity, previous, current, multiplier, managerFee, directFee) ==
    adjusted(preciseDiv(preciseMul(previous, units)
                            + getExpectedPostFeeQuantity(quantity, managerFee, directFee),
                        current),
             multiplier)

\* What a redemption is worth, without the premium.
postPremium(quantity, valuation, premium) ==
    preciseMul(valuation, quantity) - preciseMulCeil(preciseMul(valuation, quantity), premium)

getExpectedReserveRedeemQuantity(quantity, valuation, base, managerFee, directFee, premium) ==
    preciseMul(getExpectedPostFeeQuantity(postPremium(quantity, valuation, premium),
                                          managerFee, directFee),
               base)

getExpectedRedeemPositionUnit(units, quantity, valuation, base, previous, current, multiplier, premium) ==
    adjusted(preciseDiv(preciseMul(previous, units)
                            - preciseMul(postPremium(quantity, valuation, premium), base),
                        current),
             multiplier)

-----------------------------------------------------------------------------
(* uniswapUtils.ts                                                           *)

surplusToSell(more, less) == div(more - less, 2)

\* The quantity to sell, and whether of the first asset; a quantity that is
\* given replaces the one computed.  The price is of the first in the second.
calculateRebalanceQuantity(sellTokenQuantity, balanceOne, balanceTwo, price) ==
    LET valueTwo == preciseDiv(balanceTwo, price)
        sellsOne == balanceOne > valueTwo
        quantity == IF sellsOne THEN surplusToSell(balanceOne, valueTwo)
                    ELSE preciseMul(surplusToSell(valueTwo, balanceOne), price)
    IN  [quantity |-> IF sellTokenQuantity > 0 THEN sellTokenQuantity ELSE quantity,
         sellsOne |-> sellsOne]

\* A CKToken's part of a reserve, by its staked pool tokens.
calculateTokensInReserve(reserve, totalSupply, lpTokenBalance) ==
    preciseMul(preciseDiv(reserve, totalSupply), lpTokenBalance)

calculateEngageQuantity(reserve, held, reservePercentage) ==
    preciseMul(reserve, reservePercentage)
        - preciseMul(held, PreciseUnit - reservePercentage)
=============================================================================
