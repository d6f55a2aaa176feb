---------------------------- MODULE NAVPortfolio ----------------------------
(***************************************************************************)
(* Portfolio with the NAVIssuanceModule as well, and what the contracts do  *)
(* next to what the tests compute.                                          *)
(***************************************************************************)
EXTENDS Portfolio, NAVIssuance

CONSTANTS
    Reserves,           \* components that may be reserve assets
    NAVQuantities,      \* of a reserve asset to issue with
    NAVSettings,        \* what the manager may initialize with
    Percentages         \* premiums and manager fees to edit

ASSUME NAVPortfolioAssumption ==
    /\ Reserves \subseteq Component
    /\ NAVQuantities \subseteq Nat /\ Percentages \subseteq Nat
    /\ NAVSettings \subseteq [reserveAssets : Seq(Reserves), minCKTokenSupply : Nat,
                              managerFees : [Side -> Nat], maxManagerFee : Nat,
                              premiumPercentage : Nat, maxPremiumPercentage : Nat]

allVars == <<portfolioVars, navVars>>

\* NAVIssuanceModule
NAVNext ==
    /\ \/ \E reserve \in Reserves :
            \/ \E quantity \in NAVQuantities : NAVIssue(reserve, quantity)
            \/ \E quantity \in Quantities : NAVRedeem(reserve, quantity)
            \/ AddReserveAsset(reserve) \/ RemoveReserveAsset(reserve)
       \/ \E settings \in NAVSettings : InitializeNAV(settings)
       \/ \E percentage \in Percentages :
            EditPremium(percentage) \/ \E side \in Side : EditManagerFee(side, percentage)
       \/ RemoveNAVModule
    /\ UNCHANGED <<airdropVars, feeVars>>

\* Tokens sent to the CKToken change nothing for the modules here.
OtherNext == (IssuanceNext \/ StreamingFeeNext \/ TickNext) /\ UNCHANGED navVars

\* A bound: the manager adds one of the two modules at a time, and time passes
\* for the streaming fee only.
OneModule == navInitialized' => ~feeInitialized' /\ UNCHANGED now

NAVSpec ==
    /\ Init /\ NAVInit
    /\ [][ (OtherNext \/ NAVNext) /\ Bounded /\ OneModule ]_allVars

\* All modules on one CKToken, in any order, of which NAVSpec is the part that
\* fits TLC.
AllNext ==
    \/ (PlainNext \/ FeeNext) /\ Bounded /\ UNCHANGED navVars
    \/ NAVNext /\ Bounded

AllSpec == Init /\ NAVInit /\ [][AllNext]_allVars

-----------------------------------------------------------------------------
(* Properties                                                               *)

\* A unit is never raised by more than the balance rose: what a NAV issue adds
\* to the reserve's position is what came in, without the fees
\* (_getIssuePositionUnit, _getRedeemPositionUnit).
UnitRisesWithBalance ==
    [][ \A c \in Component : virtualUnit'[c] # virtualUnit[c] =>
          getDefaultTrackedBalance(virtualUnit, c)' - getDefaultTrackedBalance(virtualUnit, c)
              <= balance'[c] - balance[c] ]_allVars

\* What a valuation in a reserve asset may be off by: by a unit of every other
\* component and what its part is rounded by in the master quote asset, and by
\* the rounding of the reserve's own part and of the whole in another asset.
valuationError(reserve) ==
    LET others   == Component \ {reserve}
        worth    == SumFunction([c \in others |-> (PreciseUnit * Price[c]) \div BaseUnit[c]])
        requoted == IF reserve = MasterQuoteAsset THEN 0 ELSE PreciseUnit + Price[reserve]
    IN  (worth + Cardinality(others) * PreciseUnit + requoted) \div Price[reserve] + 1

\* The base units of tokens with at most 18 decimals.
DivideThePreciseUnit == \A c \in Component : PreciseUnit % BaseUnit[c] = 0

\* Who issues at net asset value and redeems at once gets no more than it paid,
\* but for what the minted CKTokens' valuation is off by
\* (_getCKTokenMintQuantity, _getRedeemReserveQuantity).
RoundTripGainsNothing ==
    [][ DivideThePreciseUnit =>
        \A reserve \in Reserves, quantity \in NAVQuantities, minted \in 1 .. MaxSupply :
          totalSupply' = totalSupply + minted /\ NAVIssue(reserve, quantity) =>
            LET rounding == preciseMul(preciseMul(minted, valuationError(reserve)),
                                       BaseUnit[reserve])
            IN  getRedeemReserveQuantity(reserve, minted)' <= quantity + rounding ]_allVars

\* The multiplier of an issue or a redemption is what the tests compute in two
\* rounded steps, or more by less than their rounding
\* (getExpectedIssuePositionMultiplier, getExpectedRedeemPositionMultiplier).
MultiplierAsTested ==
    [][ LET excess(expected) == positionMultiplier' - expected
            rounding         == 0 .. positionMultiplier \div PreciseUnit + 1
        IN  \A reserve \in Reserves :
              /\ \A quantity \in NAVQuantities :
                   NAVIssue(reserve, quantity) =>
                     excess(Expected!getExpectedIssuePositionMultiplier(
                              positionMultiplier, totalSupply, totalSupply')) \in rounding
              /\ \A quantity \in Quantities :
                   NAVRedeem(reserve, quantity) =>
                     excess(Expected!getExpectedRedeemPositionMultiplier(
                              positionMultiplier, totalSupply, totalSupply')) \in rounding
      ]_allVars

\* The quantity that reaches the CKToken, or its redeemer, is within one unit of
\* what the tests compute without the split of the manager's fee
\* (getExpectedPostFeeQuantity).
FlowAsTested ==
    \A side \in Side, quantity \in 0 .. MaxBalance :
        netFlow(side, quantity)
            - Expected!getExpectedPostFeeQuantity(quantity, managerFees[side], DirectFee)
          \in -1 .. 1

\* The tests take off the fees before the base unit is multiplied in, the
\* contract after it: the same, but for a base unit that is not the precise one.
redemptionError(reserve) ==
    IF BaseUnit[reserve] = PreciseUnit THEN 1 ELSE 3 * (BaseUnit[reserve] \div PreciseUnit + 1)

\* Where the fees leave something, a redeemer is paid what the tests compute,
\* within that rounding, and an issuer is minted what they compute from the same
\* net flow (getExpectedReserveRedeemQuantity, getExpectedCKTokenIssueQuantity).
QuantitiesAsTested ==
    /\ navInitialized /\ totalSupply >= minCKTokenSupply
    /\ \A side \in Side : managerFees[side] + DirectFee <= PreciseUnit
    => \A reserve \in Reserves :
            LET valuation == calculateCKTokenValuation(reserve) IN
            /\ \A quantity \in Quantities :
                 netFlow("redeem", getRedeemReserveQuantity(reserve, quantity))
                     - Expected!getExpectedReserveRedeemQuantity(
                         quantity, valuation, BaseUnit[reserve],
                         managerFees["redeem"], DirectFee, premiumPercentage)
                   \in -redemptionError(reserve) .. redemptionError(reserve)
            /\ \A quantity \in NAVQuantities :
                 LET net == Expected!getExpectedPostFeeQuantity(
                              quantity, managerFees["issue"], DirectFee)
                 IN  mintDenominator(reserve, net) > 0 =>
                       Expected!getExpectedCKTokenIssueQuantity(
                           totalSupply, valuation, BaseUnit[reserve], quantity,
                           managerFees["issue"], DirectFee, premiumPercentage)
                       = getCKTokenMintQuantity(reserve, net)

\* What a caller pays and gets is what the tests of the module compute.
QuotesAsTested == FlowAsTested /\ QuantitiesAsTested

realUnits == [c \in Component |-> getDefaultPositionRealUnit(virtualUnit, c)]

\* An accrual mints what the tests compute, and leaves every unit within the
\* rounding of the multiplier of what they compute from the units
\* (getStreamingFeeInflationAmount, getPostFeePositionUnits).
AccrualAsTested ==
    [][ AccrueFee /\ streamingFeePercentage > 0 =>
          LET fee == Expected!getStreamingFee(lastStreamingFeeTimestamp, now, streamingFeePercentage)
          IN  /\ totalSupply' - totalSupply =
                   Expected!getStreamingFeeInflationAmount(fee, totalSupply)
              /\ \A c \in Component :
                   realUnits'[c] - Expected!getPostFeePositionUnits(realUnits, fee)[c]
                     \in -(virtualUnit[c] \div PreciseUnit + 1) .. 1 ]_allVars

\* Whatever changes supply and multiplier together, an issue, a redemption or an
\* accrual, changes them as the tests compute.
ScalingAsTested == MultiplierAsTested /\ AccrualAsTested
=============================================================================
