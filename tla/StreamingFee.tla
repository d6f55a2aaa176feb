---------------------------- MODULE StreamingFee ----------------------------
(***************************************************************************)
(* protocol/modules/StreamingFeeModule.sol: a yearly fee is paid in newly   *)
(* minted CKTokens, and the position multiplier falls so that the units     *)
(* fall with the growth of the supply.  The split of a minted fee between   *)
(* manager and protocol does not change the supply and is left out.         *)
(***************************************************************************)
EXTENDS Fund

CONSTANT OneYear   \* ONE_YEAR_IN_SECONDS

ASSUME OneYearAssumption == OneYear \in Nat \ {0}

VARIABLES
    feeInitialized,      \* the module is initialized on the token
    maxStreamingFeePercentage,
    streamingFeePercentage,
    lastStreamingFeeTimestamp,
    now                  \* block.timestamp

feeStateVars == <<feeInitialized, maxStreamingFeePercentage, streamingFeePercentage,
                  lastStreamingFeeTimestamp>>
feeVars == <<feeInitialized, maxStreamingFeePercentage, streamingFeePercentage,
             lastStreamingFeeTimestamp, now>>

StreamingFeeInit ==
    /\ feeInitialized = FALSE
    /\ maxStreamingFeePercentage = 0
    /\ streamingFeePercentage = 0
    /\ lastStreamingFeeTimestamp = 0
    /\ now = 0

Tick == now' = now + 1 /\ UNCHANGED <<feeStateVars, fundVars>>

-----------------------------------------------------------------------------
(* accrueFee *)

calculateStreamingFee ==
    ((now - lastStreamingFeeTimestamp) * streamingFeePercentage) \div OneYear

\* Mutant: the fee is a percentage of the supply before it.
calculateStreamingFeeInflation_OfOldSupply(fee) == preciseMulCeil(totalSupply, fee)

\* So that the recipients own the fee percentage of the supply with the fee.
calculateStreamingFeeInflation(fee) == (fee * totalSupply) \div (PreciseUnit - fee)

\* Mutant: the multiplier falls by a fee on the old supply.
newMultiplier_OfOldSupply(fee) ==
    (positionMultiplier * PreciseUnit) \div (PreciseUnit + fee)

newMultiplier(fee) == preciseMulInt(positionMultiplier, PreciseUnit - fee)

\* The two mints and the new multiplier; a fee of 100% or more reverts.
Accrued ==
    LET fee == calculateStreamingFee
    IN  IF streamingFeePercentage = 0
        THEN UNCHANGED fundVars
        ELSE /\ fee < PreciseUnit
             /\ IsValidMultiplier(newMultiplier(fee))
             /\ totalSupply' = totalSupply + calculateStreamingFeeInflation(fee)
             /\ positionMultiplier' = newMultiplier(fee)
             /\ UNCHANGED <<balance, virtualUnit>>

AccrueFee ==
    /\ feeInitialized
    /\ Accrued
    /\ lastStreamingFeeTimestamp' = now
    /\ UNCHANGED <<feeInitialized, maxStreamingFeePercentage, streamingFeePercentage, now>>

-----------------------------------------------------------------------------
(* The manager's calls *)

InitializeStreamingFee(maxFee, fee) ==
    /\ ~feeInitialized
    /\ maxFee < PreciseUnit /\ fee <= maxFee
    /\ maxStreamingFeePercentage' = maxFee
    /\ streamingFeePercentage' = fee
    /\ lastStreamingFeeTimestamp' = now
    /\ feeInitialized' = TRUE
    /\ UNCHANGED <<now, fundVars>>

\* Mutant: the new rate also charges the time that passed before.
BeforeNewFee_NoAccrual ==
    UNCHANGED <<lastStreamingFeeTimestamp, fundVars>>

\* The fee that is due accrues at the old rate.
BeforeNewFee == Accrued /\ lastStreamingFeeTimestamp' = now

UpdateStreamingFee(newFee) ==
    /\ feeInitialized
    /\ newFee < maxStreamingFeePercentage
    /\ BeforeNewFee
    /\ streamingFeePercentage' = newFee
    /\ UNCHANGED <<feeInitialized, maxStreamingFeePercentage, now>>

\* The fee that is due is dropped.
RemoveStreamingFee ==
    /\ feeInitialized
    /\ feeInitialized' = FALSE
    /\ maxStreamingFeePercentage' = 0
    /\ streamingFeePercentage' = 0
    /\ lastStreamingFeeTimestamp' = 0
    /\ UNCHANGED <<now, fundVars>>

-----------------------------------------------------------------------------
(* Properties *)

AllVars == <<fundVars, feeVars>>

\* A new rate never charges time that passed under the old one: updateStreamingFee
\* accrues first, and a module added again starts from its initialization.
RateChangeAccrues ==
    [][ streamingFeePercentage' # streamingFeePercentage /\ feeInitialized'
        => lastStreamingFeeTimestamp' = now ]_AllVars

\* The fee recipients end up with the fee percentage of the new supply, to the
\* unit: never more, and one unit more would be more.
FeeShareExact ==
    [][ \A fee \in 0 .. PreciseUnit - 1 :
          feeInitialized /\ fee = calculateStreamingFee /\ AccrueFee =>
            LET minted == totalSupply' - totalSupply
            IN  /\ minted * PreciseUnit <= fee * totalSupply'
                /\ (minted + 1) * PreciseUnit > fee * (totalSupply' + 1) ]_AllVars

\* An accrual does not raise what the token owes all holders together: the
\* multiplier falls at least as much as the supply grows (the formulas of
\* _calculateStreamingFeeInflation and _editPositionMultiplier).
AccrualOwesNoMore ==
    [][ positionMultiplier' # positionMultiplier =>
          totalSupply' * positionMultiplier' <= totalSupply * positionMultiplier ]_AllVars

\* An accrual gives its recipients their share, and all holders together no more
\* than they were owed before.
AccrualExact == FeeShareExact /\ AccrualOwesNoMore

\* Anyone may accrue at any time; accruing often mints no more than accruing once.
AccruingOftenCostsNoMore ==
    \A first \in 0 .. PreciseUnit - 1, second \in 0 .. PreciseUnit - 1 :
        first + second < PreciseUnit =>
            LET between == totalSupply + calculateStreamingFeeInflation(first)
            IN  between + (second * between) \div (PreciseUnit - second)
                <= totalSupply + calculateStreamingFeeInflation(first + second)
=============================================================================
