----------------------------- MODULE NAVIssuance -----------------------------
(***************************************************************************)
(* protocol/modules/NAVIssuanceModule.sol: anyone mints CKTokens for one    *)
(* reserve asset at the net asset value that the CKValuer computes, and     *)
(* burns them for it.  The hooks and the callers' minimal quantities may    *)
(* only refuse, and are left out; who receives the fees does not matter,    *)
(* and wrapping ether comes to an issue in WETH.                            *)
(***************************************************************************)
EXTENDS Fund, AddressArrayUtils, FiniteSets, Functions

CONSTANTS
    Price,              \* PriceOracle: of a component, in the master quote asset
    MasterQuoteAsset,
    BaseUnit,           \* 10 ^ decimals of a component
    RevenueShare,       \* Controller: of the manager's fees, for the protocol
    DirectFee           \* Controller: of the quantity, for the protocol

\* The valuation goes through an array of components.
ASSUME NAVAssumption ==
    /\ IsFiniteSet(Component) /\ MasterQuoteAsset \in Component
    /\ Price \in [Component -> Nat \ {0}] /\ Price[MasterQuoteAsset] = PreciseUnit
    /\ BaseUnit \in [Component -> Nat \ {0}]
    /\ RevenueShare \in 0 .. PreciseUnit /\ DirectFee \in 0 .. PreciseUnit

Side == {"issue", "redeem"}     \* MANAGER_ISSUE_FEE_INDEX, MANAGER_REDEEM_FEE_INDEX

VARIABLES
    navInitialized,
    reserveAssets, isReserveAsset,          \* an array and a mapping
    managerFees, maxManagerFee,
    premiumPercentage, maxPremiumPercentage,
    minCKTokenSupply

navVars == <<navInitialized, reserveAssets, isReserveAsset, managerFees, maxManagerFee,
             premiumPercentage, maxPremiumPercentage, minCKTokenSupply>>

NAVInit ==
    /\ navInitialized = FALSE
    /\ reserveAssets = <<>> /\ isReserveAsset = {}
    /\ managerFees = [side \in Side |-> 0] /\ maxManagerFee = 0
    /\ premiumPercentage = 0 /\ maxPremiumPercentage = 0
    /\ minCKTokenSupply = 0

-----------------------------------------------------------------------------
(* What an issue or a redemption comes to                                   *)

\* CKValuer: the value of a CKToken in the reserve asset.
calculateCKTokenValuation(reserve) ==
    LET normalizedUnits(c) ==
            preciseDivInt(getDefaultPositionRealUnit(virtualUnit, c), BaseUnit[c])
        valuation ==
            SumFunction([c \in Component |-> preciseMulInt(normalizedUnits(c), Price[c])])
    IN  IF reserve = MasterQuoteAsset THEN valuation
        ELSE preciseDivInt(valuation, Price[reserve])

protocolRevenueShare(side) == preciseMul(RevenueShare, managerFees[side])

protocolFees(side, quantity) ==
    preciseMul(protocolRevenueShare(side) + DirectFee, quantity)

managerFee(side, quantity) ==
    preciseMul(managerFees[side] - protocolRevenueShare(side), quantity)

\* Negative when the subtraction reverts.
netFlow(side, quantity) ==
    quantity - protocolFees(side, quantity) - managerFee(side, quantity)

subPremium(net) == net - preciseMul(net, premiumPercentage)

\* Mutant: the supply is worth its reserve asset only.
mintDenominator_ReserveOnly(reserve, net) ==
    preciseMul(totalSupply, getDefaultPositionRealUnit(virtualUnit, reserve))
        + preciseDiv(net, BaseUnit[reserve])
        - preciseDiv(subPremium(net), BaseUnit[reserve])

\* What the supply is worth, and the premium.
mintDenominator(reserve, net) ==
    preciseMul(totalSupply, calculateCKTokenValuation(reserve))
        + preciseDiv(net, BaseUnit[reserve])
        - preciseDiv(subPremium(net), BaseUnit[reserve])

getCKTokenMintQuantity(reserve, net) ==
    preciseDiv(preciseMul(preciseDiv(subPremium(net), BaseUnit[reserve]), totalSupply),
               mintDenominator(reserve, net))

\* Mutant: the premium is charged on issues only.
getRedeemReserveQuantity_NoPremium(reserve, quantity) ==
    preciseMul(preciseMul(quantity, calculateCKTokenValuation(reserve)), BaseUnit[reserve])

getRedeemReserveQuantity(reserve, quantity) ==
    LET prePremium ==
            preciseMul(preciseMul(quantity, calculateCKTokenValuation(reserve)), BaseUnit[reserve])
    IN  prePremium - preciseMulCeil(prePremium, premiumPercentage)

\* Mutant: the multiplier changes by the change over the supply before.
multiplierAt_OfOldSupply(newSupply) ==
    positionMultiplier - (positionMultiplier * (newSupply - totalSupply)) \div totalSupply

multiplierAt(newSupply) == (positionMultiplier * totalSupply) \div newSupply

\* The unit of a reserve that changes by a quantity.
reserveUnit(reserve, change, newSupply) ==
    preciseDiv(preciseMul(getDefaultPositionRealUnit(virtualUnit, reserve), totalSupply) + change,
               newSupply)

\* The multiplier first: the unit is stored at the new one.
EditPositions(reserve, multiplier, unit) ==
    LET virtual == conservativePreciseDiv(unit, multiplier)
    IN  /\ IsValidMultiplier(multiplier)
        /\ unit > 0 => virtual # 0 /\ conservativePreciseMul(virtual, multiplier) # 0
        /\ positionMultiplier' = multiplier
        /\ virtualUnit' = [virtualUnit EXCEPT ![reserve] = virtual]

\* Mutant: the fees count as collateral.
collateralAdded_Gross(quantity) == quantity

collateralAdded(quantity) == netFlow("issue", quantity)

NAVIssue(reserve, quantity) ==
    LET minted    == getCKTokenMintQuantity(reserve, netFlow("issue", quantity))
        newSupply == totalSupply + minted
    IN  /\ navInitialized /\ quantity > 0 /\ reserve \in isReserveAsset
        /\ totalSupply >= minCKTokenSupply
        /\ netFlow("issue", quantity) >= 0
        /\ mintDenominator(reserve, netFlow("issue", quantity)) > 0
        /\ balance' = [balance EXCEPT ![reserve] = @ + netFlow("issue", quantity)]
        /\ EditPositions(reserve, multiplierAt(newSupply),
                         reserveUnit(reserve, collateralAdded(quantity), newSupply))
        /\ totalSupply' = newSupply
        /\ UNCHANGED navVars

\* What leaves the CKToken, fees included, is what the quantity is worth.
NAVRedeem(reserve, quantity) ==
    LET outflow   == getRedeemReserveQuantity(reserve, quantity)
        newSupply == totalSupply - quantity
        tracked   == preciseMul(getDefaultPositionRealUnit(virtualUnit, reserve), totalSupply)
    IN  /\ navInitialized /\ quantity > 0 /\ reserve \in isReserveAsset
        /\ newSupply >= minCKTokenSupply
        /\ netFlow("redeem", outflow) >= 0
        /\ outflow <= tracked /\ outflow <= balance[reserve]
        /\ balance' = [balance EXCEPT ![reserve] = @ - outflow]
        /\ EditPositions(reserve, multiplierAt(newSupply),
                         reserveUnit(reserve, -outflow, newSupply))
        /\ totalSupply' = newSupply
        /\ UNCHANGED navVars

-----------------------------------------------------------------------------
(* The manager's calls                                                      *)

InitializeNAV(settings) ==
    /\ ~navInitialized
    /\ settings.reserveAssets # <<>> /\ ~hasDuplicate(settings.reserveAssets)
    /\ \A i \in DOMAIN settings.reserveAssets : settings.reserveAssets[i] \notin isReserveAsset
    /\ settings.maxManagerFee < PreciseUnit /\ settings.maxPremiumPercentage < PreciseUnit
    /\ \A side \in Side : settings.managerFees[side] <= settings.maxManagerFee
    /\ settings.premiumPercentage <= settings.maxPremiumPercentage
    /\ settings.minCKTokenSupply > 0
    /\ navInitialized' = TRUE
    /\ reserveAssets' = settings.reserveAssets
    /\ isReserveAsset' = isReserveAsset \union
                           {c \in Component : contains(settings.reserveAssets, c)}
    /\ managerFees' = settings.managerFees /\ maxManagerFee' = settings.maxManagerFee
    /\ premiumPercentage' = settings.premiumPercentage
    /\ maxPremiumPercentage' = settings.maxPremiumPercentage
    /\ minCKTokenSupply' = settings.minCKTokenSupply
    /\ UNCHANGED fundVars

AddReserveAsset(c) ==
    /\ navInitialized /\ c \notin isReserveAsset
    /\ reserveAssets' = Append(reserveAssets, c)
    /\ isReserveAsset' = isReserveAsset \union {c}
    /\ UNCHANGED <<fundVars, navInitialized, managerFees, maxManagerFee,
                   premiumPercentage, maxPremiumPercentage, minCKTokenSupply>>

RemoveReserveAsset(c) ==
    /\ navInitialized /\ c \in isReserveAsset
    /\ reserveAssets' = remove(reserveAssets, c)
    /\ isReserveAsset' = isReserveAsset \ {c}
    /\ UNCHANGED <<fundVars, navInitialized, managerFees, maxManagerFee,
                   premiumPercentage, maxPremiumPercentage, minCKTokenSupply>>

EditPremium(premium) ==
    /\ navInitialized /\ premium <= maxPremiumPercentage
    /\ premiumPercentage' = premium
    /\ UNCHANGED <<fundVars, navInitialized, reserveAssets, isReserveAsset, managerFees,
                   maxManagerFee, maxPremiumPercentage, minCKTokenSupply>>

EditManagerFee(side, percentage) ==
    /\ navInitialized /\ percentage <= maxManagerFee
    /\ managerFees' = [managerFees EXCEPT ![side] = percentage]
    /\ UNCHANGED <<fundVars, navInitialized, reserveAssets, isReserveAsset, maxManagerFee,
                   premiumPercentage, maxPremiumPercentage, minCKTokenSupply>>

\* Deletes the mapping's entries by going through the array.
RemoveNAVModule ==
    /\ navInitialized
    /\ navInitialized' = FALSE
    /\ isReserveAsset' = {c \in isReserveAsset : ~contains(reserveAssets, c)}
    /\ reserveAssets' = <<>>
    /\ managerFees' = [side \in Side |-> 0] /\ maxManagerFee' = 0
    /\ premiumPercentage' = 0 /\ maxPremiumPercentage' = 0
    /\ minCKTokenSupply' = 0
    /\ UNCHANGED fundVars
=============================================================================
