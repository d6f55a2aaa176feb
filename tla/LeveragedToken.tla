--------------------------- MODULE LeveragedToken ---------------------------
(***************************************************************************)
(* One CKToken with a debt issuance module and leverage modules: their      *)
(* transactions, the life of the modules on the token, the Controller that  *)
(* may disable a module, and what lenders and liquidators do, in any order. *)
(***************************************************************************)
EXTENDS DebtIssuance

CONSTANTS
    RealUnits,          \* units a token may be created with
    Multipliers,        \* position multipliers a streaming fee may have left
    Quantities, Fees,
    LeverUnits,         \* units to lever and delever
    Minted, Burned,     \* receipt tokens the lender gives and takes
    Left,               \* what an exchange leaves of its approval
    Given,              \* what it brings
    Surplus,            \* the same, beyond the debt to repay in full
    CollateralLists, BorrowLists,   \* assets enabled by initialize
    Collaterals, Borrowed,          \* assets added later
    Interest, Seizures, \* what lenders add, what liquidators repay and take
    Airdropped,         \* components sent in, aToken interest included
    ModulesChange,      \* does the manager add and remove modules and assets?
    ControllerActs,     \* does the Controller disable modules?
    MaxSupply, MaxBalance, MaxDebt   \* bounds of the instance

ASSUME LeveragedTokenAssumption ==
    /\ RealUnits \subseteq [Component -> Nat] /\ Multipliers \subseteq 1 .. PreciseUnit
    /\ Quantities \subseteq Nat /\ Fees \subseteq 0 .. PreciseUnit /\ LeverUnits \subseteq Nat
    /\ Minted \subseteq Nat /\ Burned \subseteq Nat /\ Left \subseteq Nat
    /\ Given \subseteq Nat /\ Surplus \subseteq Nat
    /\ Collaterals \subseteq Asset /\ Borrowed \subseteq Asset
    /\ CollateralLists \subseteq Seq(Asset) /\ BorrowLists \subseteq Seq(Asset)
    /\ Airdropped \subseteq Component /\ Interest \subseteq Nat /\ Seizures \subseteq Nat

leveragedVars == <<fundVars, moduleVars, assetVars, debtVars, settingVars, hookVars>>

Zero == [x \in Lender \X Asset |-> 0]

\* Created, with all its modules pending.
Init ==
    /\ totalSupply = 0
    /\ balance = [c \in Component |-> 0]
    /\ virtualUnit \in RealUnits
    /\ positionMultiplier \in Multipliers
    /\ externalUnit = Zero /\ debt = Zero /\ stored = Zero
    /\ moduleStates = [m \in Lender \union {IssuanceModule} |-> "PENDING"]
    /\ isModule = [l \in Lender |-> TRUE]
    /\ collateralAssets = [l \in Lender |-> <<>>] /\ borrowAssets = [l \in Lender |-> <<>>]
    /\ collateralEnabled = [l \in Lender |-> {}] /\ borrowEnabled = [l \in Lender |-> {}]
    /\ maxManagerFee = 0 /\ managerIssueFee = 0 /\ managerRedeemFee = 0
    /\ moduleIssuanceHooks = <<>> /\ isModuleHook = {}

-----------------------------------------------------------------------------
(* Modules on the token *)

AddModule(m) ==
    /\ moduleStates[m] = "NONE" /\ (m \in Lender => isModule[m])
    /\ SetState(m, "PENDING")
    /\ UNCHANGED <<isModule, fundVars, assetVars, debtVars, settingVars, hookVars>>

InitializeLender(l, collateral, borrowed) ==
    /\ moduleStates[l] = "PENDING" /\ moduleStates[IssuanceModule] = "INITIALIZED"
    /\ SetState(l, "INITIALIZED")
    /\ EnableAssets(l, collateral, borrowed)
    /\ TryRegister(l)
    /\ UNCHANGED <<isModule, fundVars, debtVars, settingVars>>

RegisterToModule(l) ==
    /\ IsRegistrable(l)
    /\ AddHook(l)
    /\ UNCHANGED <<fundVars, moduleVars, assetVars, debtVars, settingVars>>

RemoveLender(l) ==
    /\ IsInitialized(l)
    /\ DisableAssets(l)
    /\ TryUnregister(l)
    /\ SetState(l, "NONE")
    /\ UNCHANGED <<isModule, totalSupply, balance, positionMultiplier, debt, settingVars>>

ControllerSets(l, enabled) ==
    /\ isModule[l] # enabled
    /\ isModule' = [isModule EXCEPT ![l] = enabled]
    /\ UNCHANGED <<moduleStates, fundVars, assetVars, debtVars, settingVars, hookVars>>

-----------------------------------------------------------------------------
IssuanceNext == \E quantity \in Quantities : Issue(quantity) \/ Redeem(quantity)

LeverageNext ==
    /\ \E l \in Lender :
         \/ \E accrue \in BOOLEAN : (l \notin Compound => accrue) /\ Sync(l, accrue)
         \/ \E borrowed, collateral \in Asset, units \in LeverUnits, left \in Left :
              \/ \E minted \in Minted : Lever(l, borrowed, collateral, units, minted, left)
              \/ \E burned \in Burned, given \in Given :
                   Delever(l, collateral, borrowed, units, burned, left, given)
              \/ \E burned \in Burned, surplus \in Surplus :
                   DeleverToZeroBorrowBalance(l, collateral, borrowed, units, burned, left,
                                              debt[<<l, borrowed>>] + surplus)
    /\ UNCHANGED <<settingVars, hookVars>>

LenderNext ==
    /\ \E l \in Lender, a \in Asset :
         \/ \E amount \in Interest : InterestAccrues(l, a, amount)
         \/ MarketAccrues(l, a)
         \/ \E repaid, seized \in Seizures, collateral \in Asset :
              Liquidate(l, a, repaid, collateral, seized)
    /\ UNCHANGED <<settingVars, hookVars>>

ReceiveNext ==
    /\ \E c \in Airdropped : Receive(c, 1)
    /\ UNCHANGED <<moduleVars, assetVars, debtVars, settingVars, hookVars>>

AssetNext ==
    /\ \E l \in Lender :
         \/ \E a \in Collaterals : AddCollateralAsset(l, a) \/ RemoveCollateralAsset(l, a)
         \/ \E a \in Borrowed : AddBorrowAsset(l, a) \/ RemoveBorrowAsset(l, a)
    /\ UNCHANGED <<settingVars, hookVars>>

SettingNext ==
    \/ \E maxFee, issueFee, redeemFee \in Fees : InitializeIssuance(maxFee, issueFee, redeemFee)
    \/ \E fee \in Fees : UpdateIssueFee(fee) \/ UpdateRedeemFee(fee)

InitializeNext ==
    \E l \in Lender, collateral \in CollateralLists, borrowed \in BorrowLists :
      InitializeLender(l, collateral, borrowed)

ModuleNext ==
    \/ \E m \in Lender \union {IssuanceModule} : AddModule(m)
    \/ \E l \in Lender : RegisterToModule(l) \/ RemoveLender(l)
    \/ RemoveIssuance

Bounded ==
    /\ totalSupply' <= MaxSupply
    /\ \A c \in Component : balance'[c] <= MaxBalance
    /\ \A x \in Lender \X Asset : debt'[x] <= MaxDebt

Next ==
    \/ IssuanceNext \/ LeverageNext \/ LenderNext \/ ReceiveNext
    \/ SettingNext \/ InitializeNext
    \/ ModulesChange /\ (AssetNext \/ ModuleNext)
    \/ ControllerActs /\ \E l \in Lender, enabled \in BOOLEAN : ControllerSets(l, enabled)

Spec == Init /\ [][Next /\ Bounded]_leveragedVars

-----------------------------------------------------------------------------
LeveragedTypeOK ==
    /\ totalSupply \in Nat /\ balance \in [Component -> Nat]
    /\ virtualUnit \in [Component -> Nat] /\ positionMultiplier \in Nat \ {0}
    /\ externalUnit \in [Lender \X Asset -> Int]
    /\ debt \in [Lender \X Asset -> Nat] /\ stored \in [Lender \X Asset -> Nat]
    /\ moduleStates \in [Lender \union {IssuanceModule} -> {"NONE", "PENDING", "INITIALIZED"}]
    /\ isModule \in [Lender -> BOOLEAN]
    /\ collateralAssets \in [Lender -> Seq(Asset)] /\ borrowAssets \in [Lender -> Seq(Asset)]
    /\ moduleIssuanceHooks \in Seq(Lender) /\ isModuleHook \subseteq Lender

\* What sync reads and what the guards read agree: each enabled asset is synced, once,
\* and none that was disabled (collateralAssetEnabled and borrowAssetEnabled against
\* enabledAssets).
EnabledAssetsExact ==
    \A l \in Lender :
      /\ ~hasDuplicate(collateralAssets[l]) /\ ~hasDuplicate(borrowAssets[l])
      /\ \A a \in Asset : /\ contains(collateralAssets[l], a) <=> a \in collateralEnabled[l]
                          /\ contains(borrowAssets[l], a) <=> a \in borrowEnabled[l]

\* A module on the token and the list of those called part only while the Controller has the
\* module disabled, when it can neither register nor take itself off: then a module on the
\* token keeps stale units, or one that was removed makes issues and redemptions revert.
HooksPartWhileDisabled ==
    [][ \A l \in Lender :
          /\ l \in Hooked <=> IsInitialized(l)
          /\ ~(l \in Hooked <=> IsInitialized(l))'
          => ~isModule[l] ]_leveragedVars

\* Issue or redemption, with holders left.
Issues == totalSupply' # totalSupply /\ totalSupply' > 0

\* After an issue or a redemption the debt units of all CKTokens cover what is owed, but
\* for interest that the lender had not written before: an issuer receives no debt that
\* the other holders have to pay, and a redeemer leaves none behind.  (A debt without
\* holders is whoever's issues next.)
DebtCovered ==
    [][ Issues /\ (totalSupply = 0 => debt = Zero) =>
          \A x \in SyncedDebt(Hooked) :
            -getExternalPositionRealUnit(externalUnit, x[1], x[2])' * totalSupply'
              >= (debt'[x] - (debt[x] - stored[x])) * PreciseUnit ]_leveragedVars

\* After an issue or a redemption the token holds what its default units promise,
\* liquidations before it included: in every component but the receipts of an asset that is
\* not enabled, which no one syncs.
CollateralCovered ==
    [][ Issues => \A c \in Component :
          (\A x \in Lender \X Asset : receipt[x] = c => x \in SyncedCollateral(Hooked)) =>
          getDefaultPositionRealUnit(virtualUnit, c)' * totalSupply' <= balance'[c] * PreciseUnit
      ]_leveragedVars

\* componentIssueHook takes out the loan of an issue once, for the debt and not for
\* equity in the same component (AaveLeverageModule.sol:683 names the danger).
LoanTakenOutOnce ==
    [][ totalSupply' > totalSupply => \A x \in Lender \X Asset :
          (debt'[x] - debt[x]) * PreciseUnit
            <= -getExternalPositionRealUnit(externalUnit, x[1], x[2])'
                 * (totalSupply' - totalSupply) ]_leveragedVars

\* What an issue borrows is what the issuer receives: of a component in which the token
\* has only debt, its own balance neither grows nor pays for the issuer.
LoanPassedOn ==
    [][ totalSupply' > totalSupply => \A a \in Asset :
          virtualUnit'[a] = 0 => balance'[a] = balance[a] ]_leveragedVars

\* No debt is off the token's books: whatever was borrowed for it stands in a debt unit, so
\* that a redeemer repays a part of it, also once its asset was removed from the module
\* (CompoundLeverageModule.removeBorrowAssets lets go of a debt in an asset that stays
\* collateral), the module from the token, or the whole supply was redeemed.
DebtOnBooks ==
    \A x \in Lender \X Asset : debt[x] > 0 => externalUnit[x] < 0

\* A leverage module that the Controller disabled takes part in nothing: its debt units
\* stay, and no issue or redemption borrows or repays through it.
DisabledTakesNoPart ==
    [][ \A x \in Lender \X Asset : ~isModule[x[1]] =>
          /\ externalUnit'[x] = externalUnit[x]
          /\ totalSupply' # totalSupply => debt'[x] = debt[x] ]_leveragedVars
=============================================================================
