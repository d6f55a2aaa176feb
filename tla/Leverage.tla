------------------------------ MODULE Leverage ------------------------------
(***************************************************************************)
(* protocol/modules/CompoundLeverageModule.sol and AaveLeverageModule.sol   *)
(* on one CKToken.  Collateral is a receipt token (cToken, aToken) that the *)
(* CKToken holds as a default position; debt is an external position of the *)
(* module in the borrowed asset, negative.  Both are copies of what the     *)
(* lender keeps, and interest and liquidation change that at any time.      *)
(*                                                                          *)
(* Compound reports the debt as of the last accrual of its market, or, for  *)
(* gas, as of now; Aave always as of now (then stored = debt).              *)
(***************************************************************************)
EXTENDS Fund, AddressArrayUtils

CONSTANTS
    Asset,      \* underlyings
    Lender,     \* leverage modules of the token, by their lending protocol
    Compound,   \* those that are the CompoundLeverageModule
    receipt     \* the cToken or aToken of an asset

ASSUME LeverageAssumption ==
    /\ Asset \subseteq Component /\ Compound \subseteq Lender
    /\ receipt \in [Lender \X Asset -> Component \ Asset]
    /\ \A x, y \in Lender \X Asset : receipt[x] = receipt[y] => x = y

VARIABLES
    moduleStates,        \* the CKToken's, of the leverage modules and the issuance module
    isModule,            \* Controller.isModule, of the leverage modules
    collateralAssets, borrowAssets,     \* enabledAssets
    collateralEnabled, borrowEnabled,   \* the mappings with these names
    externalUnit,        \* virtual units of the debt positions
    debt, stored         \* borrowBalanceCurrent, borrowBalanceStored

moduleVars == <<moduleStates, isModule>>
assetVars  == <<collateralAssets, borrowAssets, collateralEnabled, borrowEnabled>>
debtVars   == <<externalUnit, debt, stored>>

IsInitialized(l) == moduleStates[l] = "INITIALIZED"

\* Mutant: whether the Controller disabled the module is not asked.
MayCall_Disabled(l) == IsInitialized(l)

\* CKToken.onlyModule, for the calls of l that change the token.
MayCall(l) == IsInitialized(l) /\ isModule[l]

getExternalPositionRealUnit(units, l, a) ==
    conservativePreciseMul(units[<<l, a>>], positionMultiplier)

-----------------------------------------------------------------------------
(* sync *)

getCollateralPosition(l, a, held) == preciseDiv(held[receipt[<<l, a>>]], totalSupply)

\* Mutant: rounds the debt unit down.
getBorrowPosition_RoundedDown(l, a, owed) == -preciseDiv(owed[<<l, a>>], totalSupply)

getBorrowPosition(l, a, owed) == -preciseDivCeil(owed[<<l, a>>], totalSupply)

\* A unit is written only if it reads differently.
Written(virtual, real) ==
    IF conservativePreciseMul(virtual, positionMultiplier) = real THEN virtual
    ELSE conservativePreciseDiv(real, positionMultiplier)

SyncedCollateral(L) == {x \in Lender \X Asset : x[1] \in L /\ contains(collateralAssets[x[1]], x[2])}
SyncedDebt(L)       == {x \in Lender \X Asset : x[1] \in L /\ contains(borrowAssets[x[1]], x[2])}

\* The lenders' records once sync has read them.
Read(L, accrue) ==
    IF totalSupply > 0 /\ accrue
    THEN [x \in Lender \X Asset |-> IF x \in SyncedDebt(L) THEN debt[x] ELSE stored[x]]
    ELSE stored

\* With no supply nothing is synced: the units are what a next issue starts from.
SyncUnits(L, owed) ==
    IF totalSupply = 0 THEN UNCHANGED <<virtualUnit, externalUnit>>
    ELSE
      /\ virtualUnit' =
           [c \in Component |->
              IF \E x \in SyncedCollateral(L) : receipt[x] = c
              THEN Written(virtualUnit[c], preciseDiv(balance[c], totalSupply))
              ELSE virtualUnit[c]]
      /\ externalUnit' =
           [x \in Lender \X Asset |->
              IF x \in SyncedDebt(L)
              THEN Written(externalUnit[x], getBorrowPosition(x[1], x[2], owed))
              ELSE externalUnit[x]]
      /\ \A x \in SyncedCollateral(L) :
           LET c    == receipt[x]
               unit == getCollateralPosition(x[1], x[2], balance)
           IN  /\ getDefaultPositionRealUnit(virtualUnit, c) # unit => IsStorable(unit)
               /\ virtualUnit'[c] # virtualUnit[c] => isModule[x[1]]
      /\ \A x \in SyncedDebt(L) : externalUnit'[x] # externalUnit[x] => isModule[x[1]]

SyncRecords(L, accrue) ==
    SyncUnits(L, Read(L, accrue)) /\ stored' = Read(L, accrue)

\* Anyone; with accrue FALSE only at Compound.
Sync(l, accrue) ==
    /\ IsInitialized(l)
    /\ SyncRecords({l}, accrue)
    /\ UNCHANGED <<totalSupply, balance, positionMultiplier, debt, assetVars, moduleVars>>

-----------------------------------------------------------------------------
(* lever, delever, deleverToZeroBorrowBalance: the collateral's underlying  *)
(* only passes through.  What the lender and the exchange give for it is    *)
(* theirs to choose, and so is what an exchange leaves of its approval.     *)

\* A market that is used writes the interest due in it.
TouchesMarkets(l, assets) ==
    stored' = [x \in Lender \X Asset |->
                 IF x[1] = l /\ x[2] \in assets THEN debt'[x] ELSE stored[x]]

IsLeverable(l, collateral, borrowed, notional) ==
    /\ MayCall(l)
    /\ collateral \in collateralEnabled[l] /\ borrowed \in borrowEnabled[l]
    /\ collateral # borrowed
    /\ notional > 0

\* _updateLeverPositions on units, after the trade.
UpdateLeverPositions(units, l, collateral, borrowed) ==
    LET unit == getCollateralPosition(l, collateral, balance')
    IN  /\ IsStorable(unit)
        /\ virtualUnit' = editDefaultPosition(units, receipt[<<l, collateral>>], unit)
        /\ externalUnit' =
             [externalUnit EXCEPT ![<<l, borrowed>>] =
                conservativePreciseDiv(getBorrowPosition(l, borrowed, stored'), positionMultiplier)]
        /\ UNCHANGED <<totalSupply, positionMultiplier, assetVars, moduleVars>>

Lever(l, borrowed, collateral, units, minted, left) ==
    LET notional == preciseMul(units, totalSupply)
    IN  /\ IsLeverable(l, collateral, borrowed, notional)
        /\ left <= notional
        /\ debt' = [debt EXCEPT ![<<l, borrowed>>] = @ + notional]
        /\ TouchesMarkets(l, {borrowed, collateral})
        /\ balance' = [balance EXCEPT ![receipt[<<l, collateral>>]] = @ + minted,
                                      ![borrowed] = @ + left]
        /\ UpdateLeverPositions(virtualUnit, l, collateral, borrowed)

\* The trade brings given of the borrowed asset, of which paid goes to the lender.
\* Aave refuses to be paid nothing.
Repays(l, collateral, borrowed, burned, left, given, paid) ==
    /\ paid <= debt[<<l, borrowed>>] /\ (l \notin Compound => paid > 0)
    /\ burned <= balance[receipt[<<l, collateral>>]]
    /\ debt' = [debt EXCEPT ![<<l, borrowed>>] = @ - paid]
    /\ TouchesMarkets(l, {borrowed, collateral})
    /\ balance' = [balance EXCEPT ![receipt[<<l, collateral>>]] = @ - burned,
                                  ![collateral] = @ + left,
                                  ![borrowed] = @ + given - paid]

\* What remains of the trade becomes a default position.
KeepsRest(borrowed) ==
    IsUpdatable(virtualUnit, borrowed, balance')

\* Compound refuses more than the debt; Aave takes what is owed.
Delever(l, collateral, borrowed, units, burned, left, given) ==
    LET notional == preciseMul(units, totalSupply)
        paid     == IF l \in Compound \/ given <= debt[<<l, borrowed>>] THEN given
                    ELSE debt[<<l, borrowed>>]
        keeps    == l \notin Compound /\ given # paid
    IN  /\ IsLeverable(l, collateral, borrowed, notional)
        /\ left <= notional
        /\ Repays(l, collateral, borrowed, burned, left, given, paid)
        /\ keeps => KeepsRest(borrowed)
        /\ UpdateLeverPositions(
             IF keeps THEN Updated(virtualUnit, borrowed, balance') ELSE virtualUnit,
             l, collateral, borrowed)

DeleverToZeroBorrowBalance(l, collateral, borrowed, units, burned, left, given) ==
    LET notional == preciseMul(units, totalSupply)
        keeps    == l \in Compound \/ given # debt[<<l, borrowed>>]
    IN  /\ IsLeverable(l, collateral, borrowed, notional)
        /\ left <= notional
        /\ given >= debt[<<l, borrowed>>]
        /\ Repays(l, collateral, borrowed, burned, left, given, debt[<<l, borrowed>>])
        /\ keeps => KeepsRest(borrowed)
        /\ UpdateLeverPositions(
             IF keeps THEN Updated(virtualUnit, borrowed, balance') ELSE virtualUnit,
             l, collateral, borrowed)

-----------------------------------------------------------------------------
(* Assets, enabled one call at a time.  Compound's markets are entered and  *)
(* left with them; a market is not left while something is borrowed there.  *)

Leaves(l, a) == l \in Compound => isModule[l] /\ debt[<<l, a>>] = 0

AddCollateralAsset(l, a) ==
    /\ IsInitialized(l) /\ a \notin collateralEnabled[l]
    /\ l \in Compound /\ a \notin borrowEnabled[l] => isModule[l]
    /\ collateralEnabled' = [collateralEnabled EXCEPT ![l] = @ \union {a}]
    /\ collateralAssets' = [collateralAssets EXCEPT ![l] = Append(@, a)]
    /\ UNCHANGED <<fundVars, debtVars, borrowAssets, borrowEnabled, moduleVars>>

AddBorrowAsset(l, a) ==
    /\ IsInitialized(l) /\ a \notin borrowEnabled[l]
    /\ l \in Compound /\ a \notin collateralEnabled[l] => isModule[l]
    /\ borrowEnabled' = [borrowEnabled EXCEPT ![l] = @ \union {a}]
    /\ borrowAssets' = [borrowAssets EXCEPT ![l] = Append(@, a)]
    /\ UNCHANGED <<fundVars, debtVars, collateralAssets, collateralEnabled, moduleVars>>

\* Only the CompoundLeverageModule syncs before it removes.
SyncBeforeRemoval(l) ==
    IF l \in Compound THEN SyncRecords({l}, TRUE)
    ELSE UNCHANGED <<virtualUnit, externalUnit, stored>>

\* Mutant: the array keeps the asset.
Unlisted_Kept(list, a) == list

Unlisted(list, a) == removeStorage(list, a)

RemoveCollateralAsset(l, a) ==
    /\ IsInitialized(l) /\ a \in collateralEnabled[l]
    /\ SyncBeforeRemoval(l)
    /\ a \notin borrowEnabled[l] => Leaves(l, a)
    /\ collateralEnabled' = [collateralEnabled EXCEPT ![l] = @ \ {a}]
    /\ collateralAssets' = [collateralAssets EXCEPT ![l] = Unlisted(@, a)]
    /\ UNCHANGED <<totalSupply, balance, positionMultiplier, debt, borrowAssets,
                    borrowEnabled, moduleVars>>

IsRemovableBorrow(l, a) ==
    IF l \in Compound THEN a \notin collateralEnabled[l] => Leaves(l, a)
    ELSE debt[<<l, a>>] = 0

RemoveBorrowAsset(l, a) ==
    /\ IsInitialized(l) /\ a \in borrowEnabled[l]
    /\ SyncBeforeRemoval(l)
    /\ IsRemovableBorrow(l, a)
    /\ borrowEnabled' = [borrowEnabled EXCEPT ![l] = @ \ {a}]
    /\ borrowAssets' = [borrowAssets EXCEPT ![l] = Unlisted(@, a)]
    /\ UNCHANGED <<totalSupply, balance, positionMultiplier, debt, collateralAssets,
                    collateralEnabled, moduleVars>>

-----------------------------------------------------------------------------
(* initialize and removeModule, the leverage module's side *)

EnableAssets(l, collateral, borrowed) ==
    /\ ~hasDuplicate(collateral) /\ ~hasDuplicate(borrowed)
    /\ l \in Compound /\ collateral \o borrowed # <<>> => isModule[l]
    /\ collateralAssets' = [collateralAssets EXCEPT ![l] = collateral]
    /\ borrowAssets' = [borrowAssets EXCEPT ![l] = borrowed]
    /\ collateralEnabled' =
         [collateralEnabled EXCEPT ![l] = {a \in Asset : contains(collateral, a)}]
    /\ borrowEnabled' = [borrowEnabled EXCEPT ![l] = {a \in Asset : contains(borrowed, a)}]

\* Compound leaves every market, Aave asks that nothing is owed.
DisableAssets(l) ==
    /\ SyncRecords({l}, TRUE)
    /\ IF l \in Compound THEN \A a \in collateralEnabled[l] \union borrowEnabled[l] : Leaves(l, a)
       ELSE \A a \in borrowEnabled[l] : debt[<<l, a>>] = 0
    /\ collateralAssets' = [collateralAssets EXCEPT ![l] = <<>>]
    /\ borrowAssets' = [borrowAssets EXCEPT ![l] = <<>>]
    /\ collateralEnabled' = [collateralEnabled EXCEPT ![l] = {}]
    /\ borrowEnabled' = [borrowEnabled EXCEPT ![l] = {}]

-----------------------------------------------------------------------------
(* The lenders *)

InterestAccrues(l, a, amount) ==
    /\ debt[<<l, a>>] > 0
    /\ debt' = [debt EXCEPT ![<<l, a>>] = @ + amount]
    /\ stored' = IF l \in Compound THEN stored ELSE [stored EXCEPT ![<<l, a>>] = debt'[<<l, a>>]]
    /\ UNCHANGED <<fundVars, externalUnit, assetVars, moduleVars>>

\* Anyone's call to a Compound market writes the interest of all its borrowers.
MarketAccrues(l, a) ==
    /\ l \in Compound
    /\ stored' = [stored EXCEPT ![<<l, a>>] = debt[<<l, a>>]]
    /\ UNCHANGED <<fundVars, externalUnit, debt, assetVars, moduleVars>>

\* A liquidator repays debt and takes collateral.
Liquidate(l, a, repaid, collateral, seized) ==
    /\ repaid <= debt[<<l, a>>] /\ collateral \in collateralEnabled[l]
    /\ seized <= balance[receipt[<<l, collateral>>]]
    /\ debt' = [debt EXCEPT ![<<l, a>>] = @ - repaid]
    /\ TouchesMarkets(l, {a, collateral})
    /\ balance' = [balance EXCEPT ![receipt[<<l, collateral>>]] = @ - seized]
    /\ UNCHANGED <<totalSupply, virtualUnit, positionMultiplier, externalUnit, assetVars,
                    moduleVars>>
=============================================================================
