------------------------ MODULE LeveragedTokenProofs ------------------------
(***************************************************************************)
(* A leveraged token keeps its lists exact and its debt on its books,       *)
(* leaves a disabled module alone, takes out a loan once, passes it on, and *)
(* after every issue and redemption covers its debt and holds what it       *)
(* promises.                                                                *)
(***************************************************************************)
EXTENDS LeveragedToken, LibraryProofs, TLAPS

-----------------------------------------------------------------------------
(* Which variables a transaction touches *)

Framed == UNCHANGED <<assetVars, moduleVars, totalSupply, positionMultiplier>>

LEMMA LeverageFrame ==
    ASSUME LeverageNext
    PROVE  Framed /\ UNCHANGED <<settingVars, hookVars>>
<1>1. ASSUME NEW l, NEW accrue, Sync(l, accrue)
      PROVE  Framed
  BY <1>1 DEF Sync, Framed
<1>2. ASSUME NEW given, NEW l, NEW collateral, NEW borrowed,
             UpdateLeverPositions(given, l, collateral, borrowed)
      PROVE  Framed
  BY <1>2 DEF UpdateLeverPositions, Framed
<1>3. ASSUME NEW l, NEW borrowed, NEW collateral, NEW units, NEW minted, NEW left,
             Lever(l, borrowed, collateral, units, minted, left)
      PROVE  Framed
  <2>1. UpdateLeverPositions(virtualUnit, l, collateral, borrowed)
    BY <1>3 DEF Lever
  <2> QED  BY <1>2, <2>1
<1>4. ASSUME NEW l, NEW borrowed, NEW collateral, NEW units, NEW burned, NEW left, NEW given,
             \/ Delever(l, collateral, borrowed, units, burned, left, given)
             \/ DeleverToZeroBorrowBalance(l, collateral, borrowed, units, burned, left, given)
      PROVE  Framed
  <2>1. \E new : UpdateLeverPositions(new, l, collateral, borrowed)
    BY <1>4, Zenon DEF Delever, DeleverToZeroBorrowBalance
  <2> QED  BY <1>2, <2>1
<1>5. Framed
  BY <1>1, <1>3, <1>4, ZenonT(60) DEF LeverageNext
<1> QED  BY <1>5 DEF LeverageNext

LEMMA LenderFrame ==
    ASSUME LenderNext
    PROVE  UNCHANGED <<assetVars, moduleVars, settingVars, hookVars, totalSupply,
                       positionMultiplier, virtualUnit, externalUnit>>
  BY ZenonT(60) DEF LenderNext, InterestAccrues, MarketAccrues, Liquidate, fundVars

LEMMA IssuanceFrame ==
    ASSUME IssuanceNext
    PROVE  UNCHANGED <<assetVars, moduleVars, settingVars, hookVars, positionMultiplier>>
  BY DEF IssuanceNext, Issue, Redeem

LEMMA AssetFrame ==
    ASSUME AssetNext
    PROVE  UNCHANGED <<moduleVars, settingVars, hookVars, totalSupply, positionMultiplier, debt>>
  BY DEF AssetNext, AddCollateralAsset, RemoveCollateralAsset, AddBorrowAsset,
         RemoveBorrowAsset, fundVars, debtVars

LEMMA ReceiveFrame ==
    ASSUME ReceiveNext
    PROVE  UNCHANGED <<assetVars, moduleVars, debtVars, settingVars, hookVars, totalSupply,
                       positionMultiplier, virtualUnit>>
  BY DEF ReceiveNext, Receive

LEMMA SettingFrame ==
    ASSUME SettingNext
    PROVE  UNCHANGED <<isModule, assetVars, debtVars, fundVars, isModuleHook>>
  BY DEF SettingNext, InitializeIssuance, UpdateIssueFee, UpdateRedeemFee, moduleVars, hookVars

-----------------------------------------------------------------------------
(* Lists and mappings *)

Agree(S, L, E) ==
    /\ L \in Seq(S) /\ E \subseteq S
    /\ ~hasDuplicate(L)
    /\ \A x : contains(L, x) <=> x \in E

\* Enabled assets; a module that is not on the token has none to borrow.
AssetInv ==
    /\ DOMAIN collateralAssets = Lender /\ DOMAIN collateralEnabled = Lender
    /\ DOMAIN borrowAssets = Lender /\ DOMAIN borrowEnabled = Lender
    /\ \A l \in Lender : /\ Agree(Asset, collateralAssets[l], collateralEnabled[l])
                         /\ Agree(Asset, borrowAssets[l], borrowEnabled[l])
                         /\ moduleStates[l] # "INITIALIZED" => borrowEnabled[l] = {}

StateInv ==
    /\ moduleStates \in [Lender \union {IssuanceModule} -> {"NONE", "PENDING", "INITIALIZED"}]
    /\ isModule \in [Lender -> BOOLEAN]

LEMMA AgreeOnAppend ==
    ASSUME NEW S, NEW L, NEW E, Agree(S, L, E), NEW a \in S, a \notin E
    PROVE  Agree(S, Append(L, a), E \union {a})
  BY AppendNew DEF Agree

LEMMA AgreeOnRemoval ==
    ASSUME NEW S, NEW L, NEW E, Agree(S, L, E), NEW a \in E
    PROVE  Agree(S, removeStorage(L, a), E \ {a})
  BY RemoveStorage DEF Agree

LEMMA AgreeOnCreation ==
    ASSUME NEW S, NEW L \in Seq(S), ~hasDuplicate(L)
    PROVE  Agree(S, L, {a \in S : contains(L, a)})
  BY DomainIsRange DEF Agree, contains

LEMMA AgreeOnNothing ==
    ASSUME NEW S
    PROVE  Agree(S, <<>>, {})
  BY DEF Agree, hasDuplicate, contains

\* The module states: only of the modules on the token, and with those values.
LEMMA StateStep ==
    ASSUME StateInv, [Next]_leveragedVars
    PROVE  StateInv'
<1>1. ASSUME UNCHANGED moduleVars
      PROVE  StateInv'
  BY <1>1 DEF StateInv, moduleVars
<1>2. ASSUME NEW m \in Lender \union {IssuanceModule},
             NEW state \in {"NONE", "PENDING", "INITIALIZED"},
             SetState(m, state), UNCHANGED isModule
      PROVE  StateInv'
  BY <1>2 DEF StateInv, SetState
<1>3. CASE IssuanceNext \/ LeverageNext \/ LenderNext \/ ReceiveNext \/ AssetNext
  BY <1>1, <1>3, IssuanceFrame, LeverageFrame, LenderFrame, ReceiveFrame, AssetFrame DEF Framed
<1>4. CASE SettingNext
  BY <1>1, <1>2, <1>4 DEF SettingNext, InitializeIssuance, UpdateIssueFee, UpdateRedeemFee
<1>5. CASE InitializeNext
  BY <1>2, <1>5 DEF InitializeNext, InitializeLender
<1>6. CASE ModuleNext
  BY <1>1, <1>2, <1>6 DEF ModuleNext, AddModule, RegisterToModule, RemoveLender, RemoveIssuance
<1>7. ASSUME NEW l \in Lender, NEW on \in BOOLEAN, ControllerSets(l, on)
      PROVE  StateInv'
  BY <1>7 DEF ControllerSets, StateInv
<1>8. CASE UNCHANGED leveragedVars
  BY <1>1, <1>8 DEF leveragedVars
<1> QED  BY <1>3, <1>4, <1>5, <1>6, <1>7, <1>8 DEF Next

LEMMA AssetEditStep ==
    ASSUME AssetInv, AssetNext
    PROVE  AssetInv'
<1>1. UNCHANGED moduleStates
  BY AssetFrame DEF moduleVars
<1>2. ASSUME NEW l \in Lender, NEW L, NEW E, Agree(Asset, L, E),
             collateralAssets' = [collateralAssets EXCEPT ![l] = L],
             collateralEnabled' = [collateralEnabled EXCEPT ![l] = E],
             UNCHANGED <<borrowAssets, borrowEnabled>>
      PROVE  AssetInv'
  BY <1>1, <1>2 DEF AssetInv
<1>3. ASSUME NEW l \in Lender, NEW L, NEW E, Agree(Asset, L, E), IsInitialized(l),
             borrowAssets' = [borrowAssets EXCEPT ![l] = L],
             borrowEnabled' = [borrowEnabled EXCEPT ![l] = E],
             UNCHANGED <<collateralAssets, collateralEnabled>>
      PROVE  AssetInv'
  BY <1>1, <1>3 DEF AssetInv, IsInitialized
<1>4. ASSUME NEW l \in Lender
      PROVE  /\ Agree(Asset, collateralAssets[l], collateralEnabled[l])
             /\ Agree(Asset, borrowAssets[l], borrowEnabled[l])
  BY DEF AssetInv
<1>5. ASSUME NEW l \in Lender, NEW a \in Collaterals, AddCollateralAsset(l, a)
      PROVE  AssetInv'
  <2>1. a \in Asset /\ a \notin collateralEnabled[l]
    BY <1>5, LeveragedTokenAssumption DEF AddCollateralAsset
  <2>2. Agree(Asset, Append(collateralAssets[l], a), collateralEnabled[l] \union {a})
    BY <1>4, <2>1, AgreeOnAppend
  <2> QED  BY <1>2, <1>5, <2>2 DEF AddCollateralAsset
<1>6. ASSUME NEW l \in Lender, NEW a \in Borrowed, AddBorrowAsset(l, a)
      PROVE  AssetInv'
  <2>1. a \in Asset /\ a \notin borrowEnabled[l]
    BY <1>6, LeveragedTokenAssumption DEF AddBorrowAsset
  <2>2. Agree(Asset, Append(borrowAssets[l], a), borrowEnabled[l] \union {a})
    BY <1>4, <2>1, AgreeOnAppend
  <2> QED  BY <1>3, <1>6, <2>2 DEF AddBorrowAsset
<1>7. ASSUME NEW l \in Lender, NEW a \in Collaterals, RemoveCollateralAsset(l, a)
      PROVE  AssetInv'
  <2>1. Agree(Asset, Unlisted(collateralAssets[l], a), collateralEnabled[l] \ {a})
    BY <1>4, <1>7, AgreeOnRemoval DEF RemoveCollateralAsset, Unlisted
  <2> QED  BY <1>2, <1>7, <2>1 DEF RemoveCollateralAsset
<1>8. ASSUME NEW l \in Lender, NEW a \in Borrowed, RemoveBorrowAsset(l, a)
      PROVE  AssetInv'
  <2>1. Agree(Asset, Unlisted(borrowAssets[l], a), borrowEnabled[l] \ {a})
    BY <1>4, <1>8, AgreeOnRemoval DEF RemoveBorrowAsset, Unlisted
  <2> QED  BY <1>3, <1>8, <2>1 DEF RemoveBorrowAsset
<1> QED  BY <1>5, <1>6, <1>7, <1>8 DEF AssetNext

LEMMA AssetStep ==
    ASSUME StateInv, AssetInv, [Next]_leveragedVars
    PROVE  AssetInv'
<1>1. ASSUME UNCHANGED assetVars,
             \A l \in Lender : moduleStates'[l] # "INITIALIZED" => moduleStates[l] # "INITIALIZED"
      PROVE  AssetInv'
  BY <1>1 DEF AssetInv, assetVars
<1>2. CASE IssuanceNext \/ LeverageNext \/ LenderNext \/ ReceiveNext
  BY <1>1, <1>2, IssuanceFrame, LeverageFrame, LenderFrame, ReceiveFrame DEF moduleVars, Framed
<1>3. IssuanceModule \notin Lender
  BY DebtIssuanceAssumption
<1>4. CASE SettingNext
  <2>1. \A l \in Lender : moduleStates'[l] = moduleStates[l]
    BY <1>3, <1>4
    DEF SettingNext, InitializeIssuance, UpdateIssueFee, UpdateRedeemFee, SetState, StateInv,
        moduleVars
  <2> QED  BY <1>1, <1>4, <2>1, SettingFrame
<1>5. CASE InitializeNext
  <2>1. PICK l \in Lender, collateral \in CollateralLists, borrowed \in BorrowLists :
               InitializeLender(l, collateral, borrowed)
    BY <1>5 DEF InitializeNext
  <2>2. collateral \in Seq(Asset) /\ borrowed \in Seq(Asset)
    BY LeveragedTokenAssumption
  <2>3. /\ Agree(Asset, collateral, {a \in Asset : contains(collateral, a)})
        /\ Agree(Asset, borrowed, {a \in Asset : contains(borrowed, a)})
    BY <2>1, <2>2, AgreeOnCreation DEF InitializeLender, EnableAssets
  <2>4. moduleStates' = [moduleStates EXCEPT ![l] = "INITIALIZED"]
    BY <2>1 DEF InitializeLender, SetState
  <2>5. /\ collateralAssets' = [collateralAssets EXCEPT ![l] = collateral]
        /\ borrowAssets' = [borrowAssets EXCEPT ![l] = borrowed]
        /\ collateralEnabled' =
             [collateralEnabled EXCEPT ![l] = {a \in Asset : contains(collateral, a)}]
        /\ borrowEnabled' = [borrowEnabled EXCEPT ![l] = {a \in Asset : contains(borrowed, a)}]
    BY <2>1 DEF InitializeLender, EnableAssets
  <2> QED  BY <2>3, <2>4, <2>5 DEF AssetInv, StateInv
<1>6. ASSUME NEW m \in Lender \union {IssuanceModule}, AddModule(m)
      PROVE  AssetInv'
  BY <1>1, <1>6 DEF AddModule, SetState, StateInv
<1>7. ASSUME NEW l \in Lender, RegisterToModule(l)
      PROVE  AssetInv'
  BY <1>1, <1>7 DEF RegisterToModule, moduleVars
<1>8. ASSUME NEW l \in Lender, RemoveLender(l)
      PROVE  AssetInv'
  <2>1. /\ collateralAssets' = [collateralAssets EXCEPT ![l] = <<>>]
        /\ borrowAssets' = [borrowAssets EXCEPT ![l] = <<>>]
        /\ collateralEnabled' = [collateralEnabled EXCEPT ![l] = {}]
        /\ borrowEnabled' = [borrowEnabled EXCEPT ![l] = {}]
        /\ moduleStates' = [moduleStates EXCEPT ![l] = "NONE"]
    BY <1>8 DEF RemoveLender, DisableAssets, SetState
  <2> QED  BY <2>1, AgreeOnNothing DEF AssetInv, StateInv
<1>9. CASE RemoveIssuance
  BY <1>1, <1>3, <1>9 DEF RemoveIssuance, SetState, StateInv
<1>10. ASSUME NEW l \in Lender, NEW on \in BOOLEAN, ControllerSets(l, on)
       PROVE  AssetInv'
  BY <1>1, <1>10 DEF ControllerSets
<1>11. CASE UNCHANGED leveragedVars
  BY <1>1, <1>11 DEF leveragedVars, moduleVars
<1> QED
  BY <1>2, <1>4, <1>5, <1>6, <1>7, <1>8, <1>9, <1>10, <1>11, AssetEditStep DEF Next, ModuleNext

\* Sync and the guards of the leverage modules look at the same assets, whatever is
\* enabled, disabled, removed or added again.
THEOREM AssetsAgree == Spec => []EnabledAssetsExact
<1>1. Init => StateInv /\ AssetInv
  BY AgreeOnNothing DEF Init, StateInv, AssetInv
<1>2. StateInv /\ AssetInv /\ [Next /\ Bounded]_leveragedVars => (StateInv /\ AssetInv)'
  BY StateStep, AssetStep
<1>3. AssetInv => EnabledAssetsExact
  BY DEF AssetInv, Agree, EnabledAssetsExact
<1> QED  BY <1>1, <1>2, <1>3, PTL DEF Spec
-----------------------------------------------------------------------------
(* Hooks *)

\* The list of hooks and the mapping agree, and there are some only next to the issuance
\* module: its removal asks for an empty list.
HookInv ==
    /\ Agree(Lender, moduleIssuanceHooks, isModuleHook)
    /\ isModuleHook # {} => moduleStates[IssuanceModule] = "INITIALIZED"

HooksPart(l) == (l \in isModuleHook <=> IsInitialized(l)) /\ ~(l \in isModuleHook <=> IsInitialized(l))'

LEMMA HookStep ==
    ASSUME StateInv, HookInv, [Next]_leveragedVars
    PROVE  HookInv' /\ \A l \in Lender : HooksPart(l) => ~isModule[l]
<1> DEFINE Goal == HookInv' /\ \A l \in Lender : HooksPart(l) => ~isModule[l]
<1>1. ASSUME UNCHANGED <<moduleVars, hookVars>>
      PROVE  Goal
  BY <1>1 DEF HookInv, HooksPart, IsInitialized, moduleVars, hookVars
<1>2. CASE IssuanceNext \/ LeverageNext \/ LenderNext \/ ReceiveNext \/ AssetNext
  BY <1>1, <1>2, IssuanceFrame, LeverageFrame, LenderFrame, ReceiveFrame, AssetFrame DEF Framed
<1>3. IssuanceModule \notin Lender
  BY DebtIssuanceAssumption
<1>4. moduleIssuanceHooks = <<>> => isModuleHook = {}
  BY DEF HookInv, Agree, contains
<1>5. ASSUME NEW maxFee, NEW issueFee, NEW redeemFee,
             InitializeIssuance(maxFee, issueFee, redeemFee)
      PROVE  Goal
  <2>1. /\ moduleStates' = [moduleStates EXCEPT ![IssuanceModule] = "INITIALIZED"]
        /\ moduleStates[IssuanceModule] = "PENDING"
        /\ moduleIssuanceHooks' = <<>> /\ UNCHANGED <<isModuleHook, isModule>>
    BY <1>5 DEF InitializeIssuance, SetState
  <2>2. isModuleHook = {}
    BY <2>1 DEF HookInv
  <2> QED  BY <1>3, <2>1, <2>2, AgreeOnNothing DEF HookInv, HooksPart, StateInv, IsInitialized
<1>6. CASE SettingNext
  BY <1>1, <1>5, <1>6 DEF SettingNext, UpdateIssueFee, UpdateRedeemFee
<1>7. ASSUME NEW l \in Lender, NEW collateral, NEW borrowed,
             InitializeLender(l, collateral, borrowed)
      PROVE  Goal
  <2>1. /\ moduleStates' = [moduleStates EXCEPT ![l] = "INITIALIZED"]
        /\ moduleStates[l] = "PENDING" /\ moduleStates[IssuanceModule] = "INITIALIZED"
        /\ TryRegister(l)
    BY <1>7 DEF InitializeLender, SetState
  <2>2. CASE isModule[l] /\ l \notin isModuleHook
    <3>1. /\ moduleIssuanceHooks' = Append(moduleIssuanceHooks, l)
          /\ isModuleHook' = isModuleHook \union {l}
      BY <2>1, <2>2 DEF TryRegister, AddHook
    <3>2. Agree(Lender, moduleIssuanceHooks', isModuleHook')
      BY <2>2, <3>1, AgreeOnAppend DEF HookInv
    <3> QED  BY <1>3, <2>1, <3>1, <3>2 DEF HookInv, HooksPart, StateInv, IsInitialized
  <2>3. CASE ~(isModule[l] /\ l \notin isModuleHook)
    <3>1. UNCHANGED hookVars
      BY <2>1, <2>3 DEF TryRegister
    <3> QED
      BY <1>3, <2>1, <2>3, <3>1 DEF HookInv, HooksPart, StateInv, IsInitialized, hookVars
  <2> QED  BY <2>2, <2>3
<1>8. ASSUME NEW m \in Lender \union {IssuanceModule}, AddModule(m)
      PROVE  Goal
  <2>1. /\ moduleStates' = [moduleStates EXCEPT ![m] = "PENDING"] /\ moduleStates[m] = "NONE"
        /\ UNCHANGED hookVars
    BY <1>8 DEF AddModule, SetState
  <2> QED  BY <2>1 DEF HookInv, HooksPart, StateInv, IsInitialized, hookVars
<1>9. ASSUME NEW l \in Lender, RegisterToModule(l)
      PROVE  Goal
  <2>1. /\ IsInitialized(l) /\ moduleStates[IssuanceModule] = "INITIALIZED" /\ l \notin isModuleHook
        /\ moduleIssuanceHooks' = Append(moduleIssuanceHooks, l)
        /\ isModuleHook' = isModuleHook \union {l} /\ UNCHANGED moduleStates
    BY <1>9 DEF RegisterToModule, IsRegistrable, MayCall, AddHook, moduleVars
  <2>2. Agree(Lender, moduleIssuanceHooks', isModuleHook')
    BY <2>1, AgreeOnAppend DEF HookInv
  <2> QED  BY <2>1, <2>2 DEF HookInv, HooksPart, IsInitialized
<1>10. ASSUME NEW l \in Lender, RemoveLender(l)
       PROVE  Goal
  <2>1. /\ moduleStates' = [moduleStates EXCEPT ![l] = "NONE"]
        /\ IsInitialized(l) /\ TryUnregister(l)
    BY <1>10 DEF RemoveLender, SetState
  <2>2. CASE isModule[l] /\ moduleStates[IssuanceModule] = "INITIALIZED" /\ l \in isModuleHook
    <3>1. /\ moduleIssuanceHooks' = removeStorage(moduleIssuanceHooks, l)
          /\ isModuleHook' = isModuleHook \ {l}
      BY <2>1, <2>2 DEF TryUnregister
    <3>2. Agree(Lender, moduleIssuanceHooks', isModuleHook')
      BY <2>2, <3>1, AgreeOnRemoval DEF HookInv
    <3> QED  BY <1>3, <2>1, <2>2, <3>1, <3>2 DEF HookInv, HooksPart, StateInv, IsInitialized
  <2>3. CASE ~(isModule[l] /\ moduleStates[IssuanceModule] = "INITIALIZED" /\ l \in isModuleHook)
    <3>1. UNCHANGED hookVars
      BY <2>1, <2>3 DEF TryUnregister
    <3> QED
      BY <1>3, <2>1, <2>3, <3>1 DEF HookInv, HooksPart, StateInv, IsInitialized, hookVars
  <2> QED  BY <2>2, <2>3
<1>11. CASE RemoveIssuance
  <2>1. /\ moduleStates' = [moduleStates EXCEPT ![IssuanceModule] = "NONE"]
        /\ moduleIssuanceHooks = <<>> /\ UNCHANGED hookVars
    BY <1>11 DEF RemoveIssuance, SetState
  <2> QED  BY <1>3, <1>4, <2>1 DEF HookInv, HooksPart, StateInv, IsInitialized, hookVars
<1>12. ASSUME NEW l, NEW on, ControllerSets(l, on)
       PROVE  Goal
  BY <1>12 DEF ControllerSets, HookInv, HooksPart, IsInitialized, hookVars
<1>13. CASE UNCHANGED leveragedVars
  BY <1>1, <1>13 DEF leveragedVars
<1> QED
  BY <1>2, <1>6, <1>7, <1>8, <1>9, <1>10, <1>11, <1>12, <1>13
  DEF Next, ModuleNext, InitializeNext

\* Whatever the Controller disables and enables, a module on the token and the list of
\* those called before an issue or a redemption part only in a step of a module that is
\* disabled: it cannot register in its initialize, or be taken off in its removeModule,
\* where the revert is caught.
THEOREM HooksPartOnlyWhileDisabled == Spec => HooksPartWhileDisabled
<1>1. Init => StateInv /\ HookInv
  BY AgreeOnNothing DEF Init, StateInv, HookInv
<1>2. StateInv /\ HookInv /\ [Next /\ Bounded]_leveragedVars => (StateInv /\ HookInv)'
  BY StateStep, HookStep
<1>3. HookInv => Hooked = isModuleHook
  BY DEF HookInv, Agree, Hooked
<1>4. HookInv' => Hooked' = isModuleHook'
  BY DEF HookInv, Agree, Hooked
<1>5. StateInv /\ HookInv /\ [Next /\ Bounded]_leveragedVars
        => [\A l \in Lender :
              /\ l \in Hooked <=> IsInitialized(l)
              /\ ~(l \in Hooked <=> IsInitialized(l))'
              => ~isModule[l]]_leveragedVars
  BY <1>3, <1>4, HookStep DEF HooksPart
<1> QED  BY <1>1, <1>2, <1>5, PTL DEF Spec, HooksPartWhileDisabled

-----------------------------------------------------------------------------
(* Debt that is no longer listed *)

\* Compound's markets are left, and the debt looked at, only with their second role.
StaysCollateral(l, a) == l \in Compound /\ a \in collateralEnabled[l]

LEMMA RemovalStep ==
    ASSUME StateInv, AssetInv, [Next]_leveragedVars,
           NEW l \in Lender, NEW a \in borrowEnabled[l], a \notin borrowEnabled'[l]
    PROVE  debt[<<l, a>>] = 0 \/ (StaysCollateral(l, a) /\ StaysCollateral(l, a)')
<1> DEFINE Stays == l \in Compound /\ a \in collateralEnabled[l] /\ a \in collateralEnabled'[l]
<1> SUFFICES debt[<<l, a>>] = 0 \/ Stays
  BY DEF StaysCollateral
<1>1. borrowEnabled' # borrowEnabled /\ DOMAIN borrowEnabled = Lender
  BY DEF AssetInv
<1>2. IsInitialized(l)
  BY DEF AssetInv, IsInitialized
<1>3. CASE IssuanceNext \/ LeverageNext \/ LenderNext \/ ReceiveNext \/ SettingNext
  BY <1>1, <1>3, IssuanceFrame, LeverageFrame, LenderFrame, ReceiveFrame, SettingFrame
  DEF assetVars, Framed
<1>4. ASSUME NEW m \in Lender, NEW b, RemoveBorrowAsset(m, b)
      PROVE  debt[<<l, a>>] = 0 \/ Stays
  <2>1. /\ borrowEnabled' = [borrowEnabled EXCEPT ![m] = @ \ {b}]
        /\ UNCHANGED collateralEnabled /\ IsRemovableBorrow(m, b)
    BY <1>4 DEF RemoveBorrowAsset
  <2>2. m = l /\ b = a
    BY <1>1, <2>1
  <2>3. debt[<<l, a>>] = 0 \/ (l \in Compound /\ a \in collateralEnabled[l])
    BY <2>1, <2>2 DEF IsRemovableBorrow, Leaves
  <2> QED  BY <2>1, <2>3
<1>5. ASSUME NEW m \in Lender, NEW b,
             AddBorrowAsset(m, b) \/ AddCollateralAsset(m, b) \/ RemoveCollateralAsset(m, b)
      PROVE  FALSE
  BY <1>1, <1>5 DEF AddBorrowAsset, AddCollateralAsset, RemoveCollateralAsset
<1>6. CASE AssetNext
  BY <1>4, <1>5, <1>6 DEF AssetNext
<1>7. ASSUME NEW m \in Lender, NEW collateral, NEW borrowed,
             InitializeLender(m, collateral, borrowed)
      PROVE  FALSE
  <2>1. m # l
    BY <1>2, <1>7 DEF InitializeLender, IsInitialized
  <2>2. borrowEnabled'[l] = borrowEnabled[l]
    BY <1>1, <1>7, <2>1 DEF InitializeLender, EnableAssets
  <2> QED  BY <2>2
<1>8. ASSUME NEW m \in Lender, RemoveLender(m)
      PROVE  debt[<<l, a>>] = 0
  <2>1. /\ borrowEnabled' = [borrowEnabled EXCEPT ![m] = {}]
        /\ \A b \in borrowEnabled[m] : debt[<<m, b>>] = 0
    BY <1>8 DEF RemoveLender, DisableAssets, Leaves
  <2>2. m = l
    BY <1>1, <2>1
  <2> QED  BY <2>1, <2>2
<1>9. ASSUME NEW m, AddModule(m) \/ RegisterToModule(m) \/ RemoveIssuance
      PROVE  FALSE
  BY <1>1, <1>9 DEF AddModule, RegisterToModule, RemoveIssuance, assetVars
<1>10. ASSUME NEW m, NEW on, ControllerSets(m, on)
       PROVE  FALSE
  BY <1>1, <1>10 DEF ControllerSets, assetVars
<1>11. CASE UNCHANGED leveragedVars
  BY <1>1, <1>11 DEF leveragedVars, assetVars
<1> QED
  BY <1>3, <1>6, <1>7, <1>8, <1>9, <1>10, <1>11 DEF Next, ModuleNext, InitializeNext

\* A module lets no borrow asset go in which something is owed, by removing the asset or
\* the module, but at Compound one that stays collateral there: its market is not left,
\* and nothing else asks for the debt.
THEOREM DebtDroppedOnlyAsCollateral ==
    Spec => [][ \A l \in Lender : \A a \in borrowEnabled[l] \ borrowEnabled'[l] :
                  debt[<<l, a>>] > 0 => StaysCollateral(l, a) /\ StaysCollateral(l, a)'
              ]_leveragedVars
<1>1. Init => StateInv /\ AssetInv
  BY AgreeOnNothing DEF Init, StateInv, AssetInv
<1>2. StateInv /\ AssetInv /\ [Next /\ Bounded]_leveragedVars => (StateInv /\ AssetInv)'
  BY StateStep, AssetStep
<1>3. StateInv /\ AssetInv /\ [Next /\ Bounded]_leveragedVars =>
        [ \A l \in Lender : \A a \in borrowEnabled[l] \ borrowEnabled'[l] :
            debt[<<l, a>>] > 0 => StaysCollateral(l, a) /\ StaysCollateral(l, a)' ]_leveragedVars
  BY RemovalStep
<1> QED  BY <1>1, <1>2, <1>3, PTL DEF Spec

-----------------------------------------------------------------------------
(* Amounts *)

Position == Lender \X Asset

\* Balances and the units of default positions are not needed here.
Amounts ==
    /\ totalSupply \in Nat /\ positionMultiplier \in Nat \ {0}
    /\ managerIssueFee \in 0 .. PreciseUnit /\ managerRedeemFee \in 0 .. PreciseUnit
    /\ debt \in [Position -> Nat] /\ stored \in [Position -> Nat]
    /\ externalUnit \in [Position -> Int]
    /\ \A x \in Position : externalUnit[x] <= 0

\* Numbers that are not negative.
LEMMA Products ==
    ASSUME NEW a \in Nat, NEW b \in Nat
    PROVE  /\ preciseMul(a, b) \in Nat /\ preciseMul(a, b) * PreciseUnit <= a * b
           /\ preciseMulCeil(a, b) \in Nat
<1>1. a * b \in Nat /\ PreciseUnit \in Nat \ {0}
  BY PreciseUnitAssumption
<1>2. preciseMul(a, b) \in Nat /\ preciseMul(a, b) * PreciseUnit <= a * b
  BY <1>1, FloorBounds, FloorSign DEF preciseMul
<1>3. CASE a = 0 \/ b = 0
  BY <1>2, <1>3 DEF preciseMulCeil
<1>4. CASE a # 0 /\ b # 0
  <2>1. a * b - 1 \in Nat
    BY <1>4
  <2>2. (a * b - 1) \div PreciseUnit \in Nat
    BY <1>1, <2>1, FloorBounds, FloorSign
  <2> QED  BY <1>2, <1>4, <2>2 DEF preciseMulCeil
<1> QED  BY <1>3, <1>4

LEMMA BorrowUnit ==
    ASSUME totalSupply \in Nat \ {0}, NEW owed \in [Position -> Nat],
           NEW l \in Lender, NEW a \in Asset
    PROVE  getBorrowPosition(l, a, owed) \in Int /\ getBorrowPosition(l, a, owed) <= 0
<1> DEFINE d == owed[<<l, a>>]
<1>1. d \in Nat
  BY DEF Position
<1>2. CASE d = 0
  BY <1>2 DEF getBorrowPosition, preciseDivCeil
<1>3. CASE d > 0
  <2>1. d * PreciseUnit - 1 \in Nat
    BY <1>1, <1>3, PreciseUnitAssumption
  <2>2. (d * PreciseUnit - 1) \div totalSupply \in Nat
    BY <2>1, FloorBounds, FloorSign
  <2> QED  BY <1>3, <2>2 DEF getBorrowPosition, preciseDivCeil
<1> QED  BY <1>1, <1>2, <1>3

\* A debt unit stays one when it is stored and when it is read.
LEMMA DebtUnitStored ==
    ASSUME NEW unit \in Int, unit <= 0, positionMultiplier \in Nat \ {0}
    PROVE  /\ conservativePreciseDiv(unit, positionMultiplier) \in Int
           /\ conservativePreciseDiv(unit, positionMultiplier) <= 0
           /\ conservativePreciseMul(unit, positionMultiplier) \in Int
           /\ conservativePreciseMul(unit, positionMultiplier) <= 0
<1>1. ASSUME NEW n \in Nat \ {0}, NEW d \in Nat \ {0}
      PROVE  (unit * n) \div d \in Int /\ (unit * n) \div d <= 0
  <2>1. unit * n \in Int /\ unit * n <= 0
    OBVIOUS
  <2> QED  BY <2>1, FloorBounds, FloorSign
<1>2. /\ (unit * PreciseUnit) \div positionMultiplier \in Int
      /\ (unit * PreciseUnit) \div positionMultiplier <= 0
      /\ (unit * positionMultiplier) \div PreciseUnit \in Int
      /\ (unit * positionMultiplier) \div PreciseUnit <= 0
  BY <1>1, PreciseUnitAssumption
<1>3. /\ conservativePreciseDiv(unit, positionMultiplier) = (unit * PreciseUnit) \div positionMultiplier
      /\ conservativePreciseMul(unit, positionMultiplier) = (unit * positionMultiplier) \div PreciseUnit
  BY ConservativeMul, ConservativeDiv
<1> QED  BY <1>2, <1>3, Zenon

LEMMA SyncedUnits ==
    ASSUME Amounts, NEW L, NEW owed \in [Position -> Nat], SyncUnits(L, owed)
    PROVE  /\ externalUnit' \in [Position -> Int]
           /\ \A x \in Position : externalUnit'[x] <= 0
           /\ \A x \in Position : ~isModule[x[1]] => externalUnit'[x] = externalUnit[x]
<1>1. CASE totalSupply = 0
  BY <1>1 DEF SyncUnits, Amounts
<1>2. CASE totalSupply # 0
  <2>1. externalUnit' = [x \in Position |->
                           IF x \in SyncedDebt(L)
                           THEN Written(externalUnit[x], getBorrowPosition(x[1], x[2], owed))
                           ELSE externalUnit[x]]
    BY <1>2 DEF SyncUnits, Position
  <2>2. \A x \in SyncedDebt(L) : externalUnit'[x] # externalUnit[x] => isModule[x[1]]
    BY <1>2, Zenon DEF SyncUnits
  <2>3. ASSUME NEW x \in Position
        PROVE  Written(externalUnit[x], getBorrowPosition(x[1], x[2], owed)) \in Int
               /\ Written(externalUnit[x], getBorrowPosition(x[1], x[2], owed)) <= 0
    <3>1. x[1] \in Lender /\ x[2] \in Asset
      BY DEF Position
    <3>2. /\ getBorrowPosition(x[1], x[2], owed) \in Int
          /\ getBorrowPosition(x[1], x[2], owed) <= 0
      BY <1>2, <3>1, BorrowUnit DEF Amounts
    <3>3. externalUnit[x] \in Int /\ externalUnit[x] <= 0 /\ positionMultiplier \in Nat \ {0}
      BY DEF Amounts
    <3> DEFINE unit == getBorrowPosition(x[1], x[2], owed)
    <3>4. unit \in Int /\ unit <= 0
      BY <3>2
    <3> HIDE DEF unit
    <3>5. /\ conservativePreciseDiv(unit, positionMultiplier) \in Int
          /\ conservativePreciseDiv(unit, positionMultiplier) <= 0
      BY <3>3, <3>4, DebtUnitStored
    <3>6. Written(externalUnit[x], unit) \in Int /\ Written(externalUnit[x], unit) <= 0
      BY <3>3, <3>5 DEF Written
    <3> QED  BY <3>6 DEF unit
  <2>4. \A x \in Position : ~isModule[x[1]] => externalUnit'[x] = externalUnit[x]
    BY <2>1, <2>2
  <2> QED  BY <2>1, <2>3, <2>4 DEF Amounts
<1> QED  BY <1>1, <1>2

LEMMA ReadRecords ==
    ASSUME Amounts, NEW L, NEW accrue
    PROVE  Read(L, accrue) \in [Position -> Nat]
  BY DEF Amounts, Read, Position

\* What is asked of a lender for a debt unit.
LEMMA DebtUnit ==
    ASSUME positionMultiplier \in Nat, positionMultiplier # 0,
           externalUnit' \in [Position -> Int],
           NEW l \in Lender, NEW a \in Asset, externalUnit'[<<l, a>>] <= 0
    PROVE  debtUnit(l, a) \in Nat
<1>1. externalUnit'[<<l, a>>] \in Int
  BY DEF Position
<1>2. /\ conservativePreciseMul(externalUnit'[<<l, a>>], positionMultiplier) \in Int
      /\ conservativePreciseMul(externalUnit'[<<l, a>>], positionMultiplier) <= 0
  BY <1>1, DebtUnitStored
<1> QED  BY <1>2 DEF debtUnit, getExternalPositionRealUnit

LEMMA TimesCalled ==
    ASSUME NEW l, NEW a, NEW equity, NEW owed
    PROVE  /\ Times(l, a, equity, owed) \in {0, 1, 2}
           /\ l \notin Compound => Times(l, a, equity, owed) \in {0, 1}
  BY DEF Times, CallsForEquity

\* Fees are between nothing and the quantity.
LEMMA FeeBounds ==
    ASSUME NEW rate \in 0 .. PreciseUnit, NEW quantity \in Nat
    PROVE  /\ managerAndProtocolFee(rate, quantity) \in Nat
           /\ managerAndProtocolFee(rate, quantity) <= quantity
<1>1. PreciseUnit \in Nat \ {0} /\ rate \in Nat /\ rate * quantity <= PreciseUnit * quantity
  BY PreciseUnitAssumption
<1> DEFINE fee == preciseMul(rate, quantity)
<1>2. fee \in Nat /\ fee * PreciseUnit <= rate * quantity
  BY <1>1, Products
<1> HIDE DEF fee
<1>3. fee * PreciseUnit <= PreciseUnit * quantity
  BY <1>1, <1>2
<1>4. fee <= quantity
  <2>1. CASE fee >= quantity + 1
    <3>1. (quantity + 1) * PreciseUnit <= fee * PreciseUnit
      BY <1>1, <1>2, <2>1
    <3> QED  BY <1>1, <1>2, <1>3, <3>1
  <2> QED  BY <1>2, <2>1
<1> QED  BY <1>2, <1>4 DEF managerAndProtocolFee, fee

\* Fees are minted in full, unless the protocol takes all of them.
LEMMA MintedFees ==
    ASSUME NEW total \in Nat
    PROVE  /\ feesMinted(total) \in Nat /\ feesMinted(total) <= total
           /\ ProtocolFeeSplit < PreciseUnit => feesMinted(total) = total
<1>1. PreciseUnit \in Nat \ {0} /\ ProtocolFeeSplit \in Nat
  BY PreciseUnitAssumption, DebtIssuanceAssumption
<1> DEFINE fee == preciseMul(total, ProtocolFeeSplit)
<1>2. fee \in Nat /\ fee * PreciseUnit <= total * ProtocolFeeSplit
  BY <1>1, Products
<1> HIDE DEF fee
<1>3. feesMinted(total) = IF total - fee > 0 THEN total ELSE 0
  BY DEF feesMinted, protocolFee, fee
<1>4. ASSUME ProtocolFeeSplit < PreciseUnit, total > 0
      PROVE  fee < total
  <2>1. total * ProtocolFeeSplit < total * PreciseUnit
    BY <1>1, <1>4
  <2> QED  BY <1>1, <1>2, <2>1
<1> QED  BY <1>2, <1>3, <1>4

\* What an issue borrows at one position, for withFees CKTokens, times over.
Borrows(x, withFees, times) ==
    /\ externalUnit'[x] <= 0
    /\ debt'[x] = debt[x] + times * loan(x[1], x[2], withFees)
    /\ debtUnit(x[1], x[2]) \in Nat
    /\ loan(x[1], x[2], withFees) \in Nat
    /\ loan(x[1], x[2], withFees) * PreciseUnit <= debtUnit(x[1], x[2]) * withFees
    /\ x[1] \notin Compound => times \in {0, 1}
    /\ ~isModule[x[1]] => times = 0 /\ externalUnit'[x] = externalUnit[x]

Mints(quantity, withFees, minted) ==
    /\ totalSupply' = totalSupply + quantity + minted
    /\ ProtocolFeeSplit < PreciseUnit => quantity + minted = withFees

Lends(quantity, withFees) ==
    /\ \E minted \in Nat : Mints(quantity, withFees, minted)
    /\ externalUnit' \in [Position -> Int]
    /\ stored' \in [Position -> Nat] /\ debt' \in [Position -> Nat]
    /\ \A x \in Position : \E times \in {0, 1, 2} : Borrows(x, withFees, times)

LEMMA IssueLoans ==
    ASSUME Amounts, NEW quantity \in Nat, Issue(quantity)
    PROVE  \E withFees \in Nat : Lends(quantity, withFees)
<1> DEFINE total    == managerAndProtocolFee(managerIssueFee, quantity)
           withFees == quantity + total
           equity   == [c \in Component |-> equityIn(c, withFees)]
           borrowed == [a \in Asset |-> debtOut(a, withFees)]
           lent     == [x \in Lender \X Asset |-> loan(x[1], x[2], withFees)]
           times    == [x \in Lender \X Asset |-> Times(x[1], x[2], equity[x[2]], borrowed[x[2]])]
           read     == Read(Hooked, FALSE)
<1>1. /\ SyncUnits(Hooked, read)
      /\ LendersAnswer(times, lent)
      /\ debt' = [x \in Lender \X Asset |-> debt[x] + times[x] * lent[x]]
      /\ stored' = [x \in Lender \X Asset |-> IF times[x] > 0 THEN debt'[x] ELSE read[x]]
      /\ totalSupply' = totalSupply + quantity + feesMinted(total)
  BY Zenon DEF Issue
<1>2. total \in Nat /\ withFees \in Nat /\ withFees >= quantity
  BY FeeBounds DEF Amounts
<1>3. read \in [Position -> Nat]
  BY ReadRecords
<1>4. ASSUME NEW x \in Position
      PROVE  /\ lent[x] = loan(x[1], x[2], withFees)
             /\ times[x] \in {0, 1, 2}
             /\ x[1] \notin Compound => times[x] \in {0, 1}
             /\ times[x] > 0 => isModule[x[1]]
  <2>1. times[x] = Times(x[1], x[2], equity[x[2]], borrowed[x[2]])
    BY DEF Position
  <2>2. /\ times[x] \in {0, 1, 2}
        /\ x[1] \notin Compound => times[x] \in {0, 1}
    <3> HIDE DEF times, equity, borrowed
    <3> DEFINE t == Times(x[1], x[2], equity[x[2]], borrowed[x[2]])
    <3>1. t \in {0, 1, 2} /\ (x[1] \notin Compound => t \in {0, 1})
      BY TimesCalled, Zenon
    <3>2. times[x] = t
      BY <2>1
    <3> HIDE DEF t
    <3> QED  BY <3>1, <3>2
  <2>3. times[x] > 0 => isModule[x[1]]
    <3> HIDE DEF times, lent
    <3>1. times[x] > 0 => MayCall(x[1])
      BY <1>1 DEF LendersAnswer, Position
    <3> QED  BY <3>1 DEF MayCall
  <2>4. lent[x] = loan(x[1], x[2], withFees)
    BY DEF Position
  <2> QED  BY <2>2, <2>3, <2>4, Zenon
<1> HIDE DEF withFees, equity, borrowed, lent, times, read
<1>5. /\ externalUnit' \in [Position -> Int]
      /\ \A x \in Position : externalUnit'[x] <= 0
      /\ \A x \in Position : ~isModule[x[1]] => externalUnit'[x] = externalUnit[x]
  BY <1>1, <1>3, SyncedUnits
<1>6. ASSUME NEW x \in Position
      PROVE  /\ debtUnit(x[1], x[2]) \in Nat
             /\ loan(x[1], x[2], withFees) \in Nat
             /\ loan(x[1], x[2], withFees) * PreciseUnit <= debtUnit(x[1], x[2]) * withFees
  <2>1. x[1] \in Lender /\ x[2] \in Asset /\ x = <<x[1], x[2]>>
    BY DEF Position
  <2>2. debtUnit(x[1], x[2]) \in Nat
    BY <1>5, <2>1, DebtUnit DEF Amounts
  <2> QED  BY <1>2, <2>2, Products DEF loan
<1>7. ASSUME NEW x \in Position
      PROVE  debt'[x] = debt[x] + times[x] * loan(x[1], x[2], withFees) /\ debt'[x] \in Nat
  <2>1. debt'[x] = debt[x] + times[x] * lent[x]
    BY <1>1 DEF Position
  <2>2. debt[x] \in Nat
    BY DEF Amounts
  <2>3. times[x] * loan(x[1], x[2], withFees) \in Nat
    BY <1>4, <1>6
  <2> QED  BY <1>4, <2>1, <2>2, <2>3
<1>8. debt' \in [Position -> Nat]
  BY <1>1, <1>7 DEF Position
<1>9. stored' \in [Position -> Nat]
  BY <1>1, <1>3, <1>8 DEF Position
<1>10. /\ feesMinted(total) \in Nat
       /\ ProtocolFeeSplit < PreciseUnit => quantity + feesMinted(total) = withFees
  BY <1>2, MintedFees DEF withFees
<1>11. ASSUME NEW x \in Position
       PROVE  ~isModule[x[1]] => times[x] = 0
  BY <1>4
<1>12. \E minted \in Nat : Mints(quantity, withFees, minted)
  BY <1>1, <1>10 DEF Mints
<1>13. \A x \in Position : \E t \in {0, 1, 2} : Borrows(x, withFees, t)
  BY <1>4, <1>5, <1>6, <1>7, <1>11, ZenonT(60) DEF Borrows
<1>14. Lends(quantity, withFees)
  BY <1>5, <1>8, <1>9, <1>12, <1>13, Zenon DEF Lends
<1> QED  BY <1>2, <1>14, Zenon

\* What a redemption repays.
LEMMA RedeemPayments ==
    ASSUME Amounts, NEW quantity \in Nat, Redeem(quantity)
    PROVE  /\ totalSupply' \in Nat /\ totalSupply' <= totalSupply
           /\ externalUnit' \in [Position -> Int]
           /\ stored' \in [Position -> Nat] /\ debt' \in [Position -> Nat]
           /\ \A x \in Position :
                /\ externalUnit'[x] <= 0
                /\ ~isModule[x[1]] => debt'[x] = debt[x] /\ externalUnit'[x] = externalUnit[x]
<1> DEFINE total   == managerAndProtocolFee(managerRedeemFee, quantity)
           netFees == quantity - total
           equity  == [c \in Component |-> equityOut(c, netFees)]
           owed    == [a \in Asset |-> debtIn(a, netFees)]
           times   == [x \in Lender \X Asset |-> Times(x[1], x[2], equity[x[2]], owed[x[2]])]
           offered == [x \in Lender \X Asset |-> times[x] * payment(x[1], x[2], netFees)]
           repaid  == [x \in Lender \X Asset |->
                         IF x[1] \in Compound \/ offered[x] <= debt[x] THEN offered[x]
                         ELSE debt[x]]
           read    == Read(Hooked, TRUE)
<1>1. /\ IsBurnable(quantity)
      /\ SyncUnits(Hooked, read)
      /\ LendersAnswer(times, repaid)
      /\ \A x \in Lender \X Asset : repaid[x] <= debt[x]
      /\ debt' = [x \in Lender \X Asset |-> debt[x] - repaid[x]]
      /\ stored' = [x \in Lender \X Asset |-> IF times[x] > 0 THEN debt'[x] ELSE read[x]]
      /\ totalSupply' = totalSupply - quantity + feesMinted(total)
  BY Zenon DEF Redeem
<1>2. total \in Nat /\ total <= quantity /\ netFees \in Nat
  BY FeeBounds DEF Amounts
<1>3. read \in [Position -> Nat]
  BY ReadRecords
<1>4. ASSUME NEW x \in Position
      PROVE  times[x] \in {0, 1, 2} /\ (times[x] > 0 => isModule[x[1]])
  <2>1. times[x] = Times(x[1], x[2], equity[x[2]], owed[x[2]])
    BY DEF Position
  <2> HIDE DEF times, equity, owed, repaid
  <2>2. times[x] \in {0, 1, 2}
    <3> DEFINE t == Times(x[1], x[2], equity[x[2]], owed[x[2]])
    <3>1. t \in {0, 1, 2}
      BY TimesCalled, Zenon
    <3>2. times[x] = t
      BY <2>1
    <3> HIDE DEF t
    <3> QED  BY <3>1, <3>2
  <2>3. times[x] > 0 => MayCall(x[1])
    BY <1>1 DEF LendersAnswer, Position
  <2> QED  BY <2>2, <2>3 DEF MayCall
<1>5. ASSUME NEW x \in Position
      PROVE  /\ offered[x] = times[x] * payment(x[1], x[2], netFees)
             /\ repaid[x] = IF x[1] \in Compound \/ offered[x] <= debt[x] THEN offered[x]
                           ELSE debt[x]
  <2> HIDE DEF times
  <2>1. offered[x] = times[x] * payment(x[1], x[2], netFees)
    BY DEF Position
  <2> HIDE DEF offered
  <2> QED  BY <2>1 DEF Position
<1> HIDE DEF netFees, equity, owed, times, offered, repaid, read
<1>6. /\ externalUnit' \in [Position -> Int]
      /\ \A x \in Position : externalUnit'[x] <= 0
      /\ \A x \in Position : ~isModule[x[1]] => externalUnit'[x] = externalUnit[x]
  BY <1>1, <1>3, SyncedUnits
<1>7. ASSUME NEW x \in Position
      PROVE  repaid[x] \in Nat /\ (times[x] = 0 => repaid[x] = 0)
  <2>1. x[1] \in Lender /\ x[2] \in Asset /\ x = <<x[1], x[2]>>
    BY DEF Position
  <2>2. payment(x[1], x[2], netFees) \in Nat
    <3>1. debtUnit(x[1], x[2]) \in Nat
      BY <1>6, <2>1, DebtUnit DEF Amounts
    <3> QED  BY <1>2, <3>1, Products DEF payment
  <2>3. debt[x] \in Nat
    BY DEF Amounts
  <2>4. offered[x] \in Nat /\ (times[x] = 0 => offered[x] = 0)
    BY <1>4, <1>5, <2>2
  <2> QED  BY <1>5, <2>3, <2>4
<1>8. ASSUME NEW x \in Position
      PROVE  debt'[x] = debt[x] - repaid[x] /\ debt'[x] \in Nat
  BY <1>1, <1>7 DEF Position, Amounts
<1>9. debt' \in [Position -> Nat]
  BY <1>1, <1>8 DEF Position
<1>10. stored' \in [Position -> Nat]
  BY <1>1, <1>3, <1>9 DEF Position
<1>11. ASSUME NEW x \in Position, ~isModule[x[1]]
       PROVE  debt'[x] = debt[x]
  <2>1. times[x] = 0
    BY <1>4, <1>11
  <2> QED  BY <1>7, <1>8, <2>1 DEF Amounts
<1>12. feesMinted(total) \in Nat /\ feesMinted(total) <= quantity
  BY <1>2, MintedFees
<1>13. totalSupply' \in Nat /\ totalSupply' <= totalSupply
  BY <1>1, <1>12 DEF IsBurnable, Amounts
<1> QED  BY <1>6, <1>9, <1>10, <1>11, <1>13

-----------------------------------------------------------------------------
(* Positions changed by a leverage module *)

LEMMA SupplyIsPositive ==
    ASSUME Amounts, NEW units \in Nat, preciseMul(units, totalSupply) > 0
    PROVE  totalSupply \in Nat \ {0}
<1>1. totalSupply = 0 => preciseMul(units, totalSupply) = 0
  BY FloorSign, PreciseUnitAssumption DEF preciseMul
<1> QED  BY <1>1 DEF Amounts

\* From the lender's records after the transaction.
LEMMA LeverUnit ==
    ASSUME Amounts, totalSupply # 0, stored' \in [Position -> Nat],
           NEW units, NEW l \in Lender, NEW collateral \in Asset, NEW borrowed \in Asset,
           UpdateLeverPositions(units, l, collateral, borrowed)
    PROVE  /\ externalUnit' \in [Position -> Int]
           /\ \A x \in Position : externalUnit'[x] <= 0
           /\ \A x \in Position : x[1] # l => externalUnit'[x] = externalUnit[x]
<1> DEFINE unit == getBorrowPosition(l, borrowed, stored')
           new  == conservativePreciseDiv(unit, positionMultiplier)
<1>1. unit \in Int /\ unit <= 0
  BY BorrowUnit DEF Amounts
<1>2. externalUnit' = [externalUnit EXCEPT ![<<l, borrowed>>] = new]
  BY Zenon DEF UpdateLeverPositions
<1> HIDE DEF unit
<1>3. new \in Int /\ new <= 0
  BY <1>1, DebtUnitStored DEF Amounts
<1> HIDE DEF new
<1> QED  BY <1>2, <1>3 DEF Amounts, Position

\* What a market that is used leaves in the records.
LEMMA TouchedRecords ==
    ASSUME Amounts, debt' \in [Position -> Nat], NEW l, NEW assets, TouchesMarkets(l, assets)
    PROVE  stored' \in [Position -> Nat]
  BY DEF TouchesMarkets, Amounts, Position
\* The records and debt units of one step, and what it leaves to a disabled module.
Recorded ==
    /\ debt' \in [Position -> Nat] /\ stored' \in [Position -> Nat]
    /\ externalUnit' \in [Position -> Int]
    /\ \A x \in Position : externalUnit'[x] <= 0
    /\ \A x \in Position : ~isModule[x[1]] => externalUnit'[x] = externalUnit[x]

LEMMA SyncRecorded ==
    ASSUME Amounts, NEW L, NEW accrue, SyncRecords(L, accrue), debt' = debt
    PROVE  Recorded
<1>1. Read(L, accrue) \in [Position -> Nat]
  BY ReadRecords
<1> QED  BY <1>1, SyncedUnits DEF SyncRecords, Recorded, Amounts

LEMMA LeverRecorded ==
    ASSUME Amounts, NEW l \in Lender, NEW collateral \in Asset, NEW borrowed \in Asset,
           NEW units \in LeverUnits, NEW given, NEW touched,
           IsLeverable(l, collateral, borrowed, preciseMul(units, totalSupply)),
           debt' \in [Position -> Nat], TouchesMarkets(l, touched),
           UpdateLeverPositions(given, l, collateral, borrowed)
    PROVE  Recorded
<1>1. totalSupply # 0
  BY SupplyIsPositive, LeveragedTokenAssumption DEF IsLeverable
<1>2. stored' \in [Position -> Nat]
  BY TouchedRecords
<1>3. isModule[l]
  BY DEF IsLeverable, MayCall
<1>4. /\ externalUnit' \in [Position -> Int]
      /\ \A x \in Position : externalUnit'[x] <= 0
      /\ \A x \in Position : x[1] # l => externalUnit'[x] = externalUnit[x]
  BY <1>1, <1>2, LeverUnit
<1> QED  BY <1>2, <1>3, <1>4 DEF Recorded

LEMMA LeverageRecorded ==
    ASSUME Amounts, LeverageNext
    PROVE  Recorded
<1>1. ASSUME NEW l \in Lender, NEW accrue, Sync(l, accrue)
      PROVE  Recorded
  BY <1>1, SyncRecorded DEF Sync
<1>2. ASSUME NEW l \in Lender, NEW borrowed \in Asset, NEW collateral \in Asset,
             NEW units \in LeverUnits, NEW minted, NEW left,
             Lever(l, borrowed, collateral, units, minted, left)
      PROVE  Recorded
  <2> DEFINE notional == preciseMul(units, totalSupply)
  <2>1. /\ IsLeverable(l, collateral, borrowed, notional)
        /\ debt' = [debt EXCEPT ![<<l, borrowed>>] = @ + notional]
        /\ TouchesMarkets(l, {borrowed, collateral})
        /\ UpdateLeverPositions(virtualUnit, l, collateral, borrowed)
    BY <1>2, Zenon DEF Lever
  <2>2. notional \in Nat
    BY Products, LeveragedTokenAssumption DEF Amounts
  <2>3. debt' \in [Position -> Nat]
    <3> HIDE DEF notional
    <3> QED  BY <2>1, <2>2 DEF Amounts, Position
  <2> QED  BY <2>1, <2>3, LeverRecorded
<1>3. ASSUME NEW l \in Lender, NEW borrowed \in Asset, NEW collateral \in Asset,
             NEW units \in LeverUnits, NEW burned, NEW left, NEW given, NEW paid \in Nat, NEW new,
             IsLeverable(l, collateral, borrowed, preciseMul(units, totalSupply)),
             Repays(l, collateral, borrowed, burned, left, given, paid),
             UpdateLeverPositions(new, l, collateral, borrowed)
      PROVE  Recorded
  <2>1. /\ debt' = [debt EXCEPT ![<<l, borrowed>>] = @ - paid] /\ paid <= debt[<<l, borrowed>>]
        /\ TouchesMarkets(l, {borrowed, collateral})
    BY <1>3 DEF Repays
  <2>2. debt' \in [Position -> Nat]
    BY <2>1 DEF Amounts, Position
  <2> QED  BY <1>3, <2>1, <2>2, LeverRecorded
<1>4. ASSUME NEW l \in Lender, NEW borrowed \in Asset, NEW collateral \in Asset,
             NEW units \in LeverUnits, NEW burned, NEW left, NEW given \in Given,
             Delever(l, collateral, borrowed, units, burned, left, given)
      PROVE  Recorded
  <2> DEFINE paid == IF l \in Compound \/ given <= debt[<<l, borrowed>>] THEN given
                     ELSE debt[<<l, borrowed>>]
  <2>1. /\ IsLeverable(l, collateral, borrowed, preciseMul(units, totalSupply))
        /\ Repays(l, collateral, borrowed, burned, left, given, paid)
        /\ \E new : UpdateLeverPositions(new, l, collateral, borrowed)
    BY <1>4, Zenon DEF Delever
  <2>2. paid \in Nat
    BY LeveragedTokenAssumption DEF Amounts, Position
  <2> HIDE DEF paid
  <2> QED  BY <1>3, <2>1, <2>2
<1>5. ASSUME NEW l \in Lender, NEW borrowed \in Asset, NEW collateral \in Asset,
             NEW units \in LeverUnits, NEW burned, NEW left, NEW given,
             DeleverToZeroBorrowBalance(l, collateral, borrowed, units, burned, left, given)
      PROVE  Recorded
  <2>1. /\ IsLeverable(l, collateral, borrowed, preciseMul(units, totalSupply))
        /\ Repays(l, collateral, borrowed, burned, left, given, debt[<<l, borrowed>>])
        /\ \E new : UpdateLeverPositions(new, l, collateral, borrowed)
    BY <1>5, Zenon DEF DeleverToZeroBorrowBalance
  <2>2. debt[<<l, borrowed>>] \in Nat
    BY DEF Amounts, Position
  <2> QED  BY <1>3, <2>1, <2>2
<1> QED  BY <1>1, <1>2, <1>4, <1>5, ZenonT(60) DEF LeverageNext

LEMMA AssetRecorded ==
    ASSUME Amounts, AssetNext
    PROVE  Recorded
<1>1. debt' = debt
  BY AssetFrame
<1>2. ASSUME UNCHANGED debtVars
      PROVE  Recorded
  BY <1>2 DEF debtVars, Amounts, Recorded
<1>3. ASSUME NEW l, SyncBeforeRemoval(l)
      PROVE  Recorded
  BY <1>1, <1>2, <1>3, SyncRecorded DEF SyncBeforeRemoval, debtVars
<1> QED
  BY <1>2, <1>3
  DEF AssetNext, AddCollateralAsset, AddBorrowAsset, RemoveCollateralAsset, RemoveBorrowAsset

LEMMA LenderRecorded ==
    ASSUME Amounts, LenderNext
    PROVE  Recorded
<1>1. UNCHANGED externalUnit
  BY LenderFrame
<1>2. ASSUME NEW l \in Lender, NEW a \in Asset, NEW amount \in Interest, InterestAccrues(l, a, amount)
      PROVE  debt' \in [Position -> Nat] /\ stored' \in [Position -> Nat]
  <2>1. /\ debt' = [debt EXCEPT ![<<l, a>>] = @ + amount] /\ amount \in Nat
        /\ stored' = IF l \in Compound THEN stored
                     ELSE [stored EXCEPT ![<<l, a>>] = debt'[<<l, a>>]]
    BY <1>2, LeveragedTokenAssumption DEF InterestAccrues
  <2>2. debt' \in [Position -> Nat]
    BY <2>1 DEF Amounts, Position
  <2> QED  BY <2>1, <2>2 DEF Amounts, Position
<1>3. ASSUME NEW l \in Lender, NEW a \in Asset, MarketAccrues(l, a)
      PROVE  debt' \in [Position -> Nat] /\ stored' \in [Position -> Nat]
  BY <1>3 DEF MarketAccrues, Amounts, Position, fundVars
<1>4. ASSUME NEW l \in Lender, NEW a \in Asset, NEW repaid \in Seizures, NEW seized,
             NEW collateral, Liquidate(l, a, repaid, collateral, seized)
      PROVE  debt' \in [Position -> Nat] /\ stored' \in [Position -> Nat]
  <2>1. /\ debt' = [debt EXCEPT ![<<l, a>>] = @ - repaid] /\ repaid <= debt[<<l, a>>]
        /\ repaid \in Nat /\ TouchesMarkets(l, {a, collateral})
    BY <1>4, LeveragedTokenAssumption DEF Liquidate
  <2>2. debt' \in [Position -> Nat]
    BY <2>1 DEF Amounts, Position
  <2> QED  BY <2>1, <2>2, TouchedRecords
<1>5. debt' \in [Position -> Nat] /\ stored' \in [Position -> Nat]
  BY <1>2, <1>3, <1>4 DEF LenderNext
<1> QED  BY <1>1, <1>5 DEF Recorded, Amounts
LEMMA IssuanceRecorded ==
    ASSUME Amounts, IssuanceNext
    PROVE  Recorded /\ totalSupply' \in Nat
<1>1. ASSUME NEW quantity \in Nat, Issue(quantity)
      PROVE  Recorded /\ totalSupply' \in Nat
  <2>1. PICK withFees \in Nat : Lends(quantity, withFees)
    BY <1>1, IssueLoans
  <2>2. totalSupply' \in Nat
    BY <2>1 DEF Lends, Mints, Amounts
  <2>3. Recorded
    BY <2>1 DEF Lends, Borrows, Recorded
  <2> QED  BY <2>2, <2>3
<1>2. ASSUME NEW quantity \in Nat, Redeem(quantity)
      PROVE  Recorded /\ totalSupply' \in Nat
  BY <1>2, RedeemPayments DEF Recorded
<1> QED  BY <1>1, <1>2, LeveragedTokenAssumption DEF IssuanceNext

\* Every step writes amounts, and no debt unit of a disabled module.
LEMMA StepRecorded ==
    ASSUME Amounts, [Next]_leveragedVars
    PROVE  Recorded
<1>1. ASSUME UNCHANGED debtVars
      PROVE  Recorded
  BY <1>1 DEF debtVars, Amounts, Recorded
<1>2. CASE ReceiveNext \/ SettingNext
  BY <1>1, <1>2, ReceiveFrame, SettingFrame
<1>3. ASSUME NEW l \in Lender, RemoveLender(l)
      PROVE  Recorded
  BY <1>3, SyncRecorded DEF RemoveLender, DisableAssets
<1>4. CASE InitializeNext
  BY <1>1, <1>4 DEF InitializeNext, InitializeLender
<1>5. CASE ModuleNext
  BY <1>1, <1>3, <1>5 DEF ModuleNext, AddModule, RegisterToModule, RemoveIssuance
<1>6. ASSUME NEW l, NEW on, ControllerSets(l, on)
      PROVE  Recorded
  BY <1>1, <1>6 DEF ControllerSets
<1>7. CASE UNCHANGED leveragedVars
  BY <1>1, <1>7 DEF leveragedVars
<1> QED
  BY <1>2, <1>4, <1>5, <1>6, <1>7, IssuanceRecorded, LeverageRecorded, LenderRecorded,
     AssetRecorded
  DEF Next

\* Only issues and redemptions change the supply, nothing here the multiplier.
LEMMA SupplyFrame ==
    ASSUME [Next]_leveragedVars, ~IssuanceNext
    PROVE  UNCHANGED <<totalSupply, positionMultiplier>>
<1>1. CASE LeverageNext \/ LenderNext \/ ReceiveNext \/ SettingNext \/ AssetNext
  BY <1>1, LeverageFrame, LenderFrame, ReceiveFrame, SettingFrame, AssetFrame
  DEF Framed, fundVars
<1>2. CASE InitializeNext
  BY <1>2 DEF InitializeNext, InitializeLender, fundVars
<1>3. CASE ModuleNext
  BY <1>3 DEF ModuleNext, AddModule, RegisterToModule, RemoveLender, RemoveIssuance, fundVars
<1>4. ASSUME NEW l, NEW on, ControllerSets(l, on)
      PROVE  UNCHANGED <<totalSupply, positionMultiplier>>
  BY <1>4 DEF ControllerSets, fundVars
<1>5. CASE UNCHANGED leveragedVars
  BY <1>5 DEF leveragedVars, fundVars
<1> QED  BY <1>1, <1>2, <1>3, <1>4, <1>5 DEF Next

LEMMA AmountsStep ==
    ASSUME Amounts, [Next]_leveragedVars
    PROVE  Amounts'
<1>1. Recorded
  BY StepRecorded
<1>2. totalSupply' \in Nat /\ positionMultiplier' = positionMultiplier
  BY SupplyFrame, IssuanceFrame, IssuanceRecorded DEF Amounts
<1>3. managerIssueFee' \in 0 .. PreciseUnit /\ managerRedeemFee' \in 0 .. PreciseUnit
  <2>1. ASSUME UNCHANGED settingVars
        PROVE  managerIssueFee' \in 0 .. PreciseUnit /\ managerRedeemFee' \in 0 .. PreciseUnit
    BY <2>1 DEF settingVars, Amounts
  <2>2. CASE IssuanceNext \/ LeverageNext \/ LenderNext \/ ReceiveNext \/ AssetNext
    BY <2>1, <2>2, IssuanceFrame, LeverageFrame, LenderFrame, ReceiveFrame, AssetFrame
  <2>3. Fees \subseteq 0 .. PreciseUnit /\ 0 \in 0 .. PreciseUnit
    BY LeveragedTokenAssumption, PreciseUnitAssumption
  <2>4. CASE SettingNext
    BY <2>3, <2>4 DEF SettingNext, InitializeIssuance, UpdateIssueFee, UpdateRedeemFee, Amounts
  <2>5. CASE InitializeNext
    BY <2>1, <2>5 DEF InitializeNext, InitializeLender
  <2>6. CASE ModuleNext
    BY <2>1, <2>3, <2>6 DEF ModuleNext, AddModule, RegisterToModule, RemoveLender, RemoveIssuance
  <2>7. ASSUME NEW l, NEW on, ControllerSets(l, on)
        PROVE  UNCHANGED settingVars
    BY <2>7 DEF ControllerSets
  <2>8. CASE UNCHANGED leveragedVars
    BY <2>1, <2>8 DEF leveragedVars
  <2> QED  BY <2>1, <2>2, <2>4, <2>5, <2>6, <2>7, <2>8 DEF Next
<1> QED  BY <1>1, <1>2, <1>3 DEF Recorded, Amounts

LEMMA AmountsInit ==
    ASSUME Init
    PROVE  Amounts
<1>1. Multipliers \subseteq Nat \ {0} /\ 0 \in 0 .. PreciseUnit
  BY LeveragedTokenAssumption, PreciseUnitAssumption
<1> QED  BY <1>1 DEF Init, Amounts, Zero, Position

-----------------------------------------------------------------------------
(* A disabled module *)

LEMMA DisabledStep ==
    ASSUME Amounts, [Next]_leveragedVars,
           NEW x \in Position, ~isModule[x[1]]
    PROVE  /\ externalUnit'[x] = externalUnit[x]
           /\ totalSupply' # totalSupply => debt'[x] = debt[x]
<1>1. externalUnit'[x] = externalUnit[x]
  BY StepRecorded DEF Recorded
<1>2. ASSUME NEW quantity \in Nat, Issue(quantity)
      PROVE  debt'[x] = debt[x]
  <2>1. \E withFees \in Nat : /\ debt'[x] = debt[x] + 0 * loan(x[1], x[2], withFees)
                             /\ loan(x[1], x[2], withFees) \in Nat
    <3>1. PICK withFees \in Nat : Lends(quantity, withFees)
      BY <1>2, IssueLoans
    <3> QED  BY <3>1 DEF Lends, Borrows
  <2> QED  BY <2>1 DEF Amounts
<1>3. ASSUME NEW quantity \in Nat, Redeem(quantity)
      PROVE  debt'[x] = debt[x]
  BY <1>3, RedeemPayments
<1>4. totalSupply' # totalSupply => debt'[x] = debt[x]
  BY <1>2, <1>3, SupplyFrame, LeveragedTokenAssumption DEF IssuanceNext
<1> QED  BY <1>1, <1>4

\* A leverage module that the Controller disabled neither borrows, nor repays, nor changes
\* its positions: CKToken.onlyModule stops each way in.
THEOREM DisabledModulesTakeNoPart == Spec => DisabledTakesNoPart
<1>1. Init => Amounts
  BY AmountsInit
<1>2. Amounts /\ [Next /\ Bounded]_leveragedVars => Amounts'
  BY AmountsStep
<1>3. Amounts /\ [Next /\ Bounded]_leveragedVars =>
        [\A x \in Lender \X Asset : ~isModule[x[1]] =>
           /\ externalUnit'[x] = externalUnit[x]
           /\ totalSupply' # totalSupply => debt'[x] = debt[x]]_leveragedVars
  BY DisabledStep DEF Position
<1> QED  BY <1>1, <1>2, <1>3, PTL DEF Spec, DisabledTakesNoPart

-----------------------------------------------------------------------------
(* Units against amounts *)

\* What is rounded up covers the product, what is rounded down is within it.
LEMMA MulBounds ==
    ASSUME NEW a \in Nat, NEW b \in Nat
    PROVE  /\ preciseMul(a, b) \in Nat /\ preciseMul(a, b) * PreciseUnit <= a * b
           /\ preciseMulCeil(a, b) \in Nat /\ preciseMulCeil(a, b) * PreciseUnit >= a * b
           /\ preciseMulCeil(a, b) = 0 => a * b = 0
           /\ a = 0 => preciseMul(a, b) = 0 /\ preciseMulCeil(a, b) = 0
<1>1. a * b \in Nat /\ PreciseUnit \in Nat \ {0}
  BY PreciseUnitAssumption
<1>2. CASE a = 0 \/ b = 0
  <2>1. a * b = 0
    BY <1>2
  <2>2. preciseMulCeil(a, b) = 0
    BY <1>2 DEF preciseMulCeil
  <2>3. preciseMul(a, b) = 0
    BY <1>1, <2>1, FloorSign, FloorBounds DEF preciseMul
  <2> QED  BY <1>1, <2>1, <2>2, <2>3
<1>3. CASE ~(a = 0 \/ b = 0)
  <2> DEFINE n == a * b
             q == (n - 1) \div PreciseUnit
  <2>1. n \in Nat \ {0} /\ n - 1 \in Nat
    BY <1>3
  <2>2. preciseMulCeil(a, b) = q + 1
    BY <1>3 DEF preciseMulCeil
  <2> HIDE DEF n
  <2>3. q \in Nat /\ n - 1 < PreciseUnit * q + PreciseUnit
    BY <1>1, <2>1, FloorBounds, FloorSign
  <2> HIDE DEF q
  <2>4. (q + 1) * PreciseUnit >= n
    BY <1>1, <2>1, <2>3
  <2>5. q + 1 \in Nat /\ q + 1 # 0
    BY <2>3
  <2>6. preciseMul(a, b) \in Nat /\ preciseMul(a, b) * PreciseUnit <= a * b
    BY Products
  <2>7. preciseMulCeil(a, b) \in Nat /\ preciseMulCeil(a, b) * PreciseUnit >= a * b
        /\ preciseMulCeil(a, b) # 0
    BY <2>2, <2>4, <2>5 DEF n
  <2> QED  BY <1>3, <2>6, <2>7
<1> QED  BY <1>2, <1>3

\* A unit that is stored reads back as no more, also below zero.
LEMMA ReadBack ==
    ASSUME NEW m \in Nat \ {0}, NEW real \in Int
    PROVE  /\ conservativePreciseDiv(real, m) \in Int
           /\ conservativePreciseMul(conservativePreciseDiv(real, m), m) \in Int
           /\ conservativePreciseMul(conservativePreciseDiv(real, m), m) <= real
<1> DEFINE v == conservativePreciseDiv(real, m)
<1>1. v = (real * PreciseUnit) \div m /\ v \in Int
  BY ConservativeDiv
<1>2. real * PreciseUnit \in Int /\ PreciseUnit \in Nat \ {0}
  BY PreciseUnitAssumption
<1>3. v \in Int /\ m * v <= real * PreciseUnit
  BY <1>1, <1>2, FloorBounds
<1> HIDE DEF v
<1> DEFINE w == (v * m) \div PreciseUnit
<1>4. v * m \in Int /\ v * m <= real * PreciseUnit
  BY <1>3
<1>5. w \in Int /\ PreciseUnit * w <= v * m
  BY <1>2, <1>4, FloorBounds
<1>6. conservativePreciseMul(v, m) = w
  BY <1>3, ConservativeMul
<1> HIDE DEF w
<1>7. PreciseUnit * w <= PreciseUnit * real
  BY <1>2, <1>4, <1>5
<1>8. w <= real
  BY <1>2, <1>5, <1>7
<1> QED  BY <1>3, <1>5, <1>6, <1>8 DEF v

\* What sync writes reads as the new unit or less.
LEMMA WrittenReads ==
    ASSUME positionMultiplier \in Nat \ {0}, NEW virtual \in Int, NEW real \in Int
    PROVE  /\ Written(virtual, real) \in Int
           /\ conservativePreciseMul(Written(virtual, real), positionMultiplier) \in Int
           /\ conservativePreciseMul(Written(virtual, real), positionMultiplier) <= real
<1>1. CASE conservativePreciseMul(virtual, positionMultiplier) = real
  BY <1>1 DEF Written
<1>2. CASE conservativePreciseMul(virtual, positionMultiplier) # real
  BY <1>2, ReadBack DEF Written
<1> QED  BY <1>1, <1>2

\* The debt unit, rounded up, covers what is owed.
LEMMA BorrowUnitCovers ==
    ASSUME totalSupply \in Nat \ {0}, NEW owed \in [Position -> Nat], NEW x \in Position
    PROVE  /\ getBorrowPosition(x[1], x[2], owed) \in Int
           /\ -getBorrowPosition(x[1], x[2], owed) * totalSupply >= owed[x] * PreciseUnit
<1> DEFINE d == owed[x]
<1>1. x = <<x[1], x[2]>> /\ x[1] \in Lender /\ x[2] \in Asset /\ d \in Nat
  BY DEF Position
<1>2. getBorrowPosition(x[1], x[2], owed) = -preciseDivCeil(d, totalSupply)
  BY <1>1 DEF getBorrowPosition
<1> HIDE DEF d
<1>3. PreciseUnit \in Nat \ {0}
  BY PreciseUnitAssumption
<1>4. CASE d = 0
  <2>1. preciseDivCeil(d, totalSupply) = 0
    BY <1>4 DEF preciseDivCeil
  <2> QED  BY <1>2, <1>3, <1>4, <2>1 DEF d
<1>5. CASE d > 0
  <2> DEFINE n == d * PreciseUnit
             q == (n - 1) \div totalSupply
  <2>1. n \in Nat \ {0} /\ n - 1 \in Int
    BY <1>1, <1>3, <1>5
  <2>2. preciseDivCeil(d, totalSupply) = q + 1
    BY <1>5 DEF preciseDivCeil
  <2>3. n = owed[x] * PreciseUnit
    BY DEF d
  <2> HIDE DEF n
  <2>4. q \in Int /\ n - 1 < totalSupply * q + totalSupply
    BY <2>1, FloorBounds
  <2> HIDE DEF q
  <2> DEFINE unit == getBorrowPosition(x[1], x[2], owed)
  <2>5. unit = -(q + 1)
    BY <1>2, <2>2
  <2> HIDE DEF unit
  <2>6. unit \in Int /\ -unit * totalSupply = (q + 1) * totalSupply
    BY <2>4, <2>5
  <2>7. (q + 1) * totalSupply >= n
    BY <2>1, <2>4
  <2> QED  BY <2>3, <2>6, <2>7 DEF unit
<1> QED  BY <1>1, <1>4, <1>5

\* After sync the debt units of the whole supply cover what sync read.
LEMMA SyncedDebtCovers ==
    ASSUME Amounts, totalSupply # 0, NEW L, NEW owed \in [Position -> Nat], SyncUnits(L, owed),
           NEW x \in SyncedDebt(L)
    PROVE  debtUnit(x[1], x[2]) * totalSupply >= owed[x] * PreciseUnit
<1>1. x \in Position /\ x = <<x[1], x[2]>>
  BY DEF SyncedDebt, Position
<1> DEFINE unit == getBorrowPosition(x[1], x[2], owed)
<1>2. externalUnit'[x] = Written(externalUnit[x], unit)
  BY <1>1 DEF SyncUnits, Position
<1>3. unit \in Int /\ -unit * totalSupply >= owed[x] * PreciseUnit
  BY <1>1, BorrowUnitCovers DEF Amounts
<1>4. positionMultiplier \in Nat \ {0} /\ externalUnit[x] \in Int /\ totalSupply \in Nat
  BY <1>1 DEF Amounts
<1> HIDE DEF unit
<1> DEFINE real == conservativePreciseMul(Written(externalUnit[x], unit), positionMultiplier)
<1>5. real \in Int /\ real <= unit
  BY <1>3, <1>4, WrittenReads
<1>6. debtUnit(x[1], x[2]) = -real
  <2>1. externalUnit'[<<x[1], x[2]>>] = Written(externalUnit[x], unit)
    BY <1>1, <1>2, Zenon
  <2> QED  BY <2>1 DEF debtUnit, getExternalPositionRealUnit
<1> HIDE DEF real
<1>7. -real * totalSupply >= -unit * totalSupply
  BY <1>3, <1>4, <1>5
<1>8. owed[x] * PreciseUnit \in Int
  BY <1>1, PreciseUnitAssumption
<1> QED
  <2> DEFINE a == -real * totalSupply
             b == -unit * totalSupply
             c == owed[x] * PreciseUnit
  <2>1. a \in Int /\ b \in Int /\ c \in Int /\ a >= b /\ b >= c
    BY <1>3, <1>4, <1>5, <1>7, <1>8
  <2>2. debtUnit(x[1], x[2]) * totalSupply = a
    BY <1>4, <1>5, <1>6
  <2> HIDE DEF a, b, c
  <2>3. a >= c
    BY <2>1
  <2> QED  BY <2>2, <2>3 DEF c

-----------------------------------------------------------------------------
(* What an issue and a redemption move, position by position *)

borrowTimes(x, withFees) ==
    Times(x[1], x[2], equityIn(x[2], withFees), debtOut(x[2], withFees))

Came(a, withFees) ==
    SumFunction([l \in Lender |-> borrowTimes(<<l, a>>, withFees) * loan(l, a, withFees)])

repayTimes(x, netFees) ==
    Times(x[1], x[2], equityOut(x[2], netFees), debtIn(x[2], netFees))

offeredFor(x, netFees) == repayTimes(x, netFees) * payment(x[1], x[2], netFees)

repaidFor(x, netFees) ==
    IF x[1] \in Compound \/ offeredFor(x, netFees) <= debt[x] THEN offeredFor(x, netFees)
    ELSE debt[x]

Spent(a, netFees) == SumFunction([l \in Lender |-> repaidFor(<<l, a>>, netFees)])

Issued(quantity, withFees, minted) ==
    /\ quantity + minted <= withFees
    /\ ProtocolFeeSplit < PreciseUnit => quantity + minted = withFees
    /\ totalSupply' = totalSupply + quantity + minted
    /\ SyncUnits(Hooked, Read(Hooked, FALSE))
    /\ \A x \in Position :
         /\ debt'[x] = debt[x] + borrowTimes(x, withFees) * loan(x[1], x[2], withFees)
         /\ stored'[x] = IF borrowTimes(x, withFees) > 0 THEN debt'[x] ELSE Read(Hooked, FALSE)[x]
    /\ balance' = [c \in Component |->
                     balance[c] + equityIn(c, withFees)
                       + (IF c \in Asset THEN Came(c, withFees) - debtOut(c, withFees) ELSE 0)]
    /\ \A c \in Component : balance'[c] >= 0

Redeemed(quantity, netFees, minted) ==
    /\ quantity > 0 /\ quantity <= totalSupply /\ netFees <= quantity
    /\ quantity - minted >= netFees
    /\ ProtocolFeeSplit < PreciseUnit => quantity - minted = netFees
    /\ totalSupply' = totalSupply - quantity + minted
    /\ SyncUnits(Hooked, Read(Hooked, TRUE))
    /\ \A x \in Position :
         /\ repaidFor(x, netFees) <= debt[x]
         /\ debt'[x] = debt[x] - repaidFor(x, netFees)
         /\ stored'[x] = IF repayTimes(x, netFees) > 0 THEN debt'[x] ELSE Read(Hooked, TRUE)[x]
    /\ balance' = [c \in Component |->
                     balance[c] - equityOut(c, netFees)
                       + (IF c \in Asset THEN debtIn(c, netFees) - Spent(c, netFees) ELSE 0)]
    /\ \A c \in Component : balance'[c] >= 0
    /\ \A c \in Component : IsValidOut(equityOut(c, netFees), c, totalSupply - netFees)

LEMMA IssueEffects ==
    ASSUME Amounts, NEW quantity \in Nat, Issue(quantity)
    PROVE  \E withFees, minted \in Nat : Issued(quantity, withFees, minted)
<1> DEFINE total    == managerAndProtocolFee(managerIssueFee, quantity)
           withFees == quantity + total
           equity   == [c \in Component |-> equityIn(c, withFees)]
           borrowed == [a \in Asset |-> debtOut(a, withFees)]
           lent     == [x \in Lender \X Asset |-> loan(x[1], x[2], withFees)]
           times    == [x \in Lender \X Asset |-> Times(x[1], x[2], equity[x[2]], borrowed[x[2]])]
           came(a)  == SumFunction([l \in Lender |-> times[<<l, a>>] * lent[<<l, a>>]])
           read     == Read(Hooked, FALSE)
<1>1. /\ SyncUnits(Hooked, read)
      /\ debt' = [x \in Lender \X Asset |-> debt[x] + times[x] * lent[x]]
      /\ stored' = [x \in Lender \X Asset |-> IF times[x] > 0 THEN debt'[x] ELSE read[x]]
      /\ balance' = [c \in Component |->
                       balance[c] + equity[c]
                         + (IF c \in Asset THEN came(c) - borrowed[c] ELSE 0)]
      /\ \A c \in Component : balance'[c] >= 0
      /\ totalSupply' = totalSupply + quantity + feesMinted(total)
  BY Zenon DEF Issue
<1>2. total \in Nat /\ withFees \in Nat
  BY FeeBounds DEF Amounts
<1>3. /\ feesMinted(total) \in Nat /\ feesMinted(total) <= total
      /\ ProtocolFeeSplit < PreciseUnit => feesMinted(total) = total
  BY <1>2, MintedFees
<1>4. Asset \subseteq Component
  BY LeverageAssumption
<1>5. ASSUME NEW x \in Position
      PROVE  /\ x[1] \in Lender /\ x[2] \in Asset /\ x \in Lender \X Asset
             /\ times[x] = borrowTimes(x, withFees)
             /\ lent[x] = loan(x[1], x[2], withFees)
  <2>1. x[1] \in Lender /\ x[2] \in Asset /\ x \in Lender \X Asset
    BY DEF Position
  <2> HIDE DEF withFees
  <2>2. equity[x[2]] = equityIn(x[2], withFees)
    BY <1>4, <2>1
  <2>3. borrowed[x[2]] = debtOut(x[2], withFees)
    BY <2>1
  <2>4. times[x] = Times(x[1], x[2], equity[x[2]], borrowed[x[2]])
    BY <2>1
  <2>5. lent[x] = loan(x[1], x[2], withFees)
    BY <2>1
  <2> HIDE DEF equity, borrowed, times, lent
  <2> QED  BY <2>1, <2>2, <2>3, <2>4, <2>5, Zenon DEF borrowTimes
<1>6. ASSUME NEW a \in Asset
      PROVE  came(a) = Came(a, withFees) /\ borrowed[a] = debtOut(a, withFees)
  <2>1. ASSUME NEW l \in Lender
        PROVE  times[<<l, a>>] * lent[<<l, a>>]
                 = borrowTimes(<<l, a>>, withFees) * loan(l, a, withFees)
    <3> DEFINE x == <<l, a>>
    <3>1. x \in Position /\ x[1] = l /\ x[2] = a
      BY DEF Position
    <3> HIDE DEF x
    <3>2. times[x] = borrowTimes(x, withFees) /\ lent[x] = loan(l, a, withFees)
      BY <1>5, <3>1, Zenon
    <3> HIDE DEF times, lent, withFees
    <3> QED  BY <3>2 DEF x
  <2>2. [l \in Lender |-> times[<<l, a>>] * lent[<<l, a>>]]
          = [l \in Lender |-> borrowTimes(<<l, a>>, withFees) * loan(l, a, withFees)]
    <3> HIDE DEF times, lent, withFees
    <3> QED  BY <2>1
  <2> QED
    <3>1. borrowed[a] = debtOut(a, withFees)
      BY Zenon
    <3> QED  BY <2>2, <3>1, Zenon DEF Came
<1> HIDE DEF withFees, borrowed, lent, times, read, came
<1>7. ASSUME NEW x \in Position
      PROVE  /\ debt'[x] = debt[x] + borrowTimes(x, withFees) * loan(x[1], x[2], withFees)
             /\ stored'[x] = IF borrowTimes(x, withFees) > 0 THEN debt'[x]
                             ELSE Read(Hooked, FALSE)[x]
  <2>1. /\ debt'[x] = debt[x] + times[x] * lent[x]
        /\ stored'[x] = IF times[x] > 0 THEN debt'[x] ELSE read[x]
    BY <1>1, <1>5, Zenon
  <2> QED  BY <1>5, <2>1, Zenon DEF read
<1>8. balance' = [c \in Component |->
                    balance[c] + equityIn(c, withFees)
                      + (IF c \in Asset THEN Came(c, withFees) - debtOut(c, withFees) ELSE 0)]
  BY <1>1, <1>6
<1>9. /\ quantity + feesMinted(total) <= withFees
      /\ ProtocolFeeSplit < PreciseUnit => quantity + feesMinted(total) = withFees
  BY <1>2, <1>3 DEF withFees
<1>10. Issued(quantity, withFees, feesMinted(total))
  BY <1>1, <1>7, <1>8, <1>9, Zenon DEF Issued, read
<1> QED  BY <1>2, <1>3, <1>10, Zenon

LEMMA RedeemEffects ==
    ASSUME Amounts, NEW quantity \in Nat, Redeem(quantity)
    PROVE  \E netFees, minted \in Nat : Redeemed(quantity, netFees, minted)
<1> DEFINE total    == managerAndProtocolFee(managerRedeemFee, quantity)
           netFees  == quantity - total
           equity   == [c \in Component |-> equityOut(c, netFees)]
           owed     == [a \in Asset |-> debtIn(a, netFees)]
           times    == [x \in Lender \X Asset |-> Times(x[1], x[2], equity[x[2]], owed[x[2]])]
           offered  == [x \in Lender \X Asset |-> times[x] * payment(x[1], x[2], netFees)]
           repaid   == [x \in Lender \X Asset |->
                          IF x[1] \in Compound \/ offered[x] <= debt[x] THEN offered[x]
                          ELSE debt[x]]
           spent(a) == SumFunction([l \in Lender |-> repaid[<<l, a>>]])
           read     == Read(Hooked, TRUE)
<1>1. /\ IsBurnable(quantity)
      /\ SyncUnits(Hooked, read)
      /\ \A x \in Lender \X Asset : repaid[x] <= debt[x]
      /\ debt' = [x \in Lender \X Asset |-> debt[x] - repaid[x]]
      /\ stored' = [x \in Lender \X Asset |-> IF times[x] > 0 THEN debt'[x] ELSE read[x]]
      /\ balance' = [c \in Component |->
                       balance[c] - equity[c]
                         + (IF c \in Asset THEN owed[c] - spent(c) ELSE 0)]
      /\ \A c \in Component : balance'[c] >= 0
      /\ \A c \in Component : IsValidOut(equity[c], c, totalSupply - netFees)
      /\ totalSupply' = totalSupply - quantity + feesMinted(total)
  BY Zenon DEF Redeem
<1>2. total \in Nat /\ total <= quantity /\ netFees \in Nat /\ netFees <= quantity
  BY FeeBounds DEF Amounts
<1>3. /\ feesMinted(total) \in Nat /\ feesMinted(total) <= total
      /\ ProtocolFeeSplit < PreciseUnit => feesMinted(total) = total
  BY <1>2, MintedFees
<1>4. Asset \subseteq Component
  BY LeverageAssumption
<1>5. ASSUME NEW x \in Position
      PROVE  /\ x[1] \in Lender /\ x[2] \in Asset /\ x \in Lender \X Asset
             /\ times[x] = repayTimes(x, netFees)
             /\ repaid[x] = repaidFor(x, netFees)
  <2>1. x[1] \in Lender /\ x[2] \in Asset /\ x \in Lender \X Asset
    BY DEF Position
  <2> HIDE DEF netFees
  <2>2. equity[x[2]] = equityOut(x[2], netFees)
    BY <1>4, <2>1
  <2>3. owed[x[2]] = debtIn(x[2], netFees)
    BY <2>1
  <2>4. times[x] = Times(x[1], x[2], equity[x[2]], owed[x[2]])
    BY <2>1
  <2> HIDE DEF equity, owed, times
  <2>5. times[x] = repayTimes(x, netFees)
    BY <2>2, <2>3, <2>4, Zenon DEF repayTimes
  <2>6. offered[x] = times[x] * payment(x[1], x[2], netFees)
    BY <2>1
  <2> HIDE DEF offered
  <2>7. offered[x] = offeredFor(x, netFees)
    BY <2>5, <2>6, Zenon DEF offeredFor
  <2>8. repaid[x] = IF x[1] \in Compound \/ offered[x] <= debt[x] THEN offered[x] ELSE debt[x]
    BY <2>1
  <2> HIDE DEF repaid
  <2> QED  BY <2>1, <2>5, <2>7, <2>8, Zenon DEF repaidFor
<1>6. ASSUME NEW a \in Asset
      PROVE  spent(a) = Spent(a, netFees) /\ owed[a] = debtIn(a, netFees)
  <2>1. ASSUME NEW l \in Lender
        PROVE  repaid[<<l, a>>] = repaidFor(<<l, a>>, netFees)
    <3>1. <<l, a>> \in Position
      BY DEF Position
    <3> HIDE DEF repaid, netFees
    <3> QED  BY <1>5, <3>1, Zenon
  <2>2. [l \in Lender |-> repaid[<<l, a>>]] = [l \in Lender |-> repaidFor(<<l, a>>, netFees)]
    <3> HIDE DEF repaid, netFees
    <3> QED  BY <2>1
  <2>3. owed[a] = debtIn(a, netFees)
    BY Zenon
  <2> QED  BY <2>2, <2>3, Zenon DEF Spent
<1>7. \A c \in Component : IsValidOut(equityOut(c, netFees), c, totalSupply - netFees)
  <2>1. \A c \in Component : equity[c] = equityOut(c, netFees)
    BY Zenon
  <2> HIDE DEF equity, netFees
  <2> QED  BY <1>1, <2>1, Zenon
<1>8. balance' = [c \in Component |->
                    balance[c] - equityOut(c, netFees)
                      + (IF c \in Asset THEN debtIn(c, netFees) - Spent(c, netFees) ELSE 0)]
  <2>1. \A c \in Component : equity[c] = equityOut(c, netFees)
    BY Zenon
  <2> HIDE DEF equity, netFees, owed, spent
  <2> QED  BY <1>1, <1>6, <2>1
<1>9. /\ quantity - feesMinted(total) >= netFees
      /\ ProtocolFeeSplit < PreciseUnit => quantity - feesMinted(total) = netFees
  BY <1>2, <1>3 DEF netFees
<1> HIDE DEF netFees, equity, owed, times, offered, repaid, read, spent
<1>10. ASSUME NEW x \in Position
       PROVE  /\ repaidFor(x, netFees) <= debt[x]
              /\ debt'[x] = debt[x] - repaidFor(x, netFees)
              /\ stored'[x] = IF repayTimes(x, netFees) > 0 THEN debt'[x]
                              ELSE Read(Hooked, TRUE)[x]
  <2>1. /\ repaid[x] <= debt[x]
        /\ debt'[x] = debt[x] - repaid[x]
        /\ stored'[x] = IF times[x] > 0 THEN debt'[x] ELSE read[x]
    BY <1>1, <1>5, Zenon
  <2> QED  BY <1>5, <2>1, Zenon DEF read
<1>11. Redeemed(quantity, netFees, feesMinted(total))
  BY <1>1, <1>2, <1>7, <1>8, <1>9, <1>10, Zenon DEF Redeemed, IsBurnable, read
<1> QED  BY <1>2, <1>3, <1>11, Zenon

-----------------------------------------------------------------------------
(* The debt of an issue and of a redemption against the units *)

Receipts == {receipt[x] : x \in Position}

LEMMA DebtUnitTypes ==
    ASSUME Amounts, NEW L, NEW owed \in [Position -> Nat], SyncUnits(L, owed),
           NEW l \in Lender, NEW a \in Asset
    PROVE  debtUnit(l, a) \in Nat
<1>1. /\ externalUnit' \in [Position -> Int]
      /\ \A x \in Position : externalUnit'[x] <= 0
  BY SyncedUnits
<1>2. <<l, a>> \in Position
  BY DEF Position
<1> QED  BY <1>1, <1>2, DebtUnit DEF Amounts

\* The debt unit of a component is not below that of any lender.
LEMMA DebtUnitsSum ==
    ASSUME NEW a \in Asset, \A l \in Lender : debtUnit(l, a) \in Nat
    PROVE  /\ debtUnits(a) \in Nat
           /\ \A l \in Lender : debtUnit(l, a) <= debtUnits(a)
<1> DEFINE f == [l \in Lender |-> debtUnit(l, a)]
<1>1. debtUnits(a) = SumFunctionOnSet(f, Lender)
  BY DEF debtUnits, SumFunction
<1>2. IsFiniteSet(Lender)
  BY DebtIssuanceAssumption
<1>3. \A l \in Lender : f[l] \in Nat
  OBVIOUS
<1>4. \A l \in Lender : f[l] = debtUnit(l, a)
  OBVIOUS
<1> HIDE DEF f
<1>5. \A l \in Lender : f[l] \in Int
  BY <1>3
<1>6. \A T \in SUBSET Lender : SumFunctionOnSet(f, T) \in Int /\ SumFunctionOnSet(f, T) >= 0
  <2>1. \A T \in SUBSET Lender :
          /\ SumFunctionOnSet(f, T) \in Int
          /\ (\A x \in T : f[x] >= 0) => SumFunctionOnSet(f, T) >= 0
    BY <1>2, <1>5, SumType
  <2> QED  BY <1>3, <2>1
<1>7. ASSUME NEW l \in Lender
      PROVE  f[l] <= SumFunctionOnSet(f, Lender)
  <2>1. SumFunctionOnSet(f, Lender) = f[l] + SumFunctionOnSet(f, Lender \ {l})
    BY <1>2, <1>5, SumTakesOne
  <2>2. SumFunctionOnSet(f, Lender \ {l}) \in Int /\ SumFunctionOnSet(f, Lender \ {l}) >= 0
    BY <1>6
  <2> QED  BY <1>3, <2>1, <2>2
<1> QED  BY <1>1, <1>4, <1>6, <1>7

\* The lenders' records are never ahead of the debt.
RecordsBehind == \A x \in Position : stored[x] <= debt[x]

\* No loan is taken out twice: no module acts on the call for equity, or all do and no
\* asset that can be borrowed is held as equity.
LoansOnce ==
    \/ Compound = {}
    \/ /\ Compound = Lender /\ Surplus \subseteq {0}
       /\ \A units \in RealUnits, a \in Asset : units[a] = 0

EquityFree == Compound # {} => \A a \in Asset : virtualUnit[a] = 0

\* Sync edits the units of receipt tokens only.
LEMMA SyncedAssets ==
    ASSUME NEW L, NEW owed, SyncUnits(L, owed), NEW c \in Component, c \notin Receipts
    PROVE  virtualUnit'[c] = virtualUnit[c]
<1>1. CASE totalSupply = 0
  BY <1>1 DEF SyncUnits
<1>2. CASE totalSupply # 0
  <2>1. virtualUnit' = [d \in Component |->
                          IF \E x \in SyncedCollateral(L) : receipt[x] = d
                          THEN Written(virtualUnit[d], preciseDiv(balance[d], totalSupply))
                          ELSE virtualUnit[d]]
    BY <1>2, Zenon DEF SyncUnits
  <2>2. ~\E x \in SyncedCollateral(L) : receipt[x] = c
    BY DEF SyncedCollateral, Receipts, Position
  <2> QED  BY <2>1, <2>2
<1> QED  BY <1>1, <1>2

LEMMA AssetsAreNoReceipts ==
    ASSUME NEW a \in Asset
    PROVE  a \in Component /\ a \notin Receipts
  BY LeverageAssumption DEF Receipts, Position

LEMMA CalledOnce ==
    ASSUME Amounts, LoansOnce, EquityFree, NEW L, NEW owed, SyncUnits(L, owed),
           NEW x \in Position, NEW quantity \in Nat
    PROVE  borrowTimes(x, quantity) \in {0, 1} /\ repayTimes(x, quantity) \in {0, 1}
<1>1. x[1] \in Lender /\ x[2] \in Asset
  BY DEF Position
<1>2. CASE Compound = {}
  <2>1. x[1] \notin Compound
    BY <1>2
  <2> QED  BY <2>1, TimesCalled, Zenon DEF borrowTimes, repayTimes
<1>3. CASE Compound # {}
  <2>1. virtualUnit'[x[2]] = 0
    <3>1. virtualUnit'[x[2]] = virtualUnit[x[2]]
      BY <1>1, AssetsAreNoReceipts, SyncedAssets
    <3> QED  BY <1>1, <1>3, <3>1 DEF EquityFree
  <2>2. equityUnit(x[2]) = 0
    <3>1. positionMultiplier \in Int /\ 0 * positionMultiplier = 0
      BY DEF Amounts
    <3>2. conservativePreciseMul(0, positionMultiplier) = 0
      BY <3>1, ConservativeMul, FloorSign, PreciseUnitAssumption
    <3> QED  BY <2>1, <3>2 DEF equityUnit, getDefaultPositionRealUnit
  <2>3. equityIn(x[2], quantity) = 0 /\ equityOut(x[2], quantity) = 0
    BY <2>2, MulBounds DEF equityIn, equityOut
  <2> DEFINE in == debtOut(x[2], quantity)
             out == debtIn(x[2], quantity)
  <2>4. borrowTimes(x, quantity) = Times(x[1], x[2], 0, in)
        /\ repayTimes(x, quantity) = Times(x[1], x[2], 0, out)
    BY <2>3, Zenon DEF borrowTimes, repayTimes
  <2> HIDE DEF in, out
  <2>5. Times(x[1], x[2], 0, in) \in {0, 1} /\ Times(x[1], x[2], 0, out) \in {0, 1}
    BY DEF Times
  <2> QED  BY <2>4, <2>5, Zenon
<1> QED  BY <1>2, <1>3


LEMMA IssueCovered ==
    ASSUME ProtocolFeeSplit < PreciseUnit, LoansOnce,
           Amounts, RecordsBehind, EquityFree, totalSupply = 0 => debt = Zero,
           NEW quantity \in Nat, Issue(quantity), NEW x \in SyncedDebt(Hooked)
    PROVE  debtUnit(x[1], x[2]) * totalSupply' >= (debt'[x] - (debt[x] - stored[x])) * PreciseUnit
<1> DEFINE read == Read(Hooked, FALSE)
           unit == debtUnit(x[1], x[2])
<1>1. PICK withFees \in Nat, minted \in Nat : Issued(quantity, withFees, minted)
  BY IssueEffects
<1>2. x \in Position /\ x[1] \in Lender /\ x[2] \in Asset
  BY DEF SyncedDebt, Position
<1>3. read \in [Position -> Nat] /\ read = stored
  BY ReadRecords DEF Read
<1>4. /\ SyncUnits(Hooked, read)
      /\ totalSupply' = totalSupply + withFees
      /\ debt'[x] = debt[x] + borrowTimes(x, withFees) * loan(x[1], x[2], withFees)
  <2>1. /\ SyncUnits(Hooked, read)
        /\ totalSupply' = totalSupply + quantity + minted
        /\ quantity + minted = withFees
        /\ debt'[x] = debt[x] + borrowTimes(x, withFees) * loan(x[1], x[2], withFees)
    BY <1>1, <1>2, Zenon DEF Issued
  <2>2. totalSupply \in Nat
    BY DEF Amounts
  <2> HIDE DEF read
  <2> QED  BY <2>1, <2>2
<1>5. unit \in Nat
  BY <1>2, <1>3, <1>4, DebtUnitTypes
<1>6. /\ loan(x[1], x[2], withFees) \in Nat
      /\ loan(x[1], x[2], withFees) * PreciseUnit <= unit * withFees
  BY <1>5, MulBounds DEF loan
<1>7. borrowTimes(x, withFees) \in {0, 1}
  BY <1>2, <1>4, CalledOnce
<1>8. totalSupply \in Nat /\ debt[x] \in Nat /\ stored[x] \in Nat /\ PreciseUnit \in Nat \ {0}
  BY <1>2, PreciseUnitAssumption DEF Amounts
<1>9. unit * totalSupply >= stored[x] * PreciseUnit
  <2>1. CASE totalSupply # 0
    BY <1>3, <1>4, <2>1, SyncedDebtCovers
  <2>2. CASE totalSupply = 0
    <3>1. debt[x] = 0
      BY <1>2, <2>2 DEF Zero, Position
    <3>2. stored[x] = 0
      BY <1>2, <1>8, <3>1 DEF RecordsBehind
    <3> QED  BY <1>5, <1>8, <2>2, <3>2
  <2> QED  BY <2>1, <2>2
<1> DEFINE lent == loan(x[1], x[2], withFees)
           times == borrowTimes(x, withFees)
<1>10. /\ lent \in Nat /\ lent * PreciseUnit <= unit * withFees
       /\ times \in {0, 1} /\ debt'[x] = debt[x] + times * lent
       /\ unit \in Nat
  BY <1>4, <1>5, <1>6, <1>7
<1> HIDE DEF unit, lent, times
<1>11. unit * totalSupply' = unit * totalSupply + unit * withFees
  BY <1>4, <1>8, <1>10
<1>12. times * lent <= lent /\ times * lent \in Nat
  BY <1>10
<1>13. (debt'[x] - (debt[x] - stored[x])) = stored[x] + times * lent
  BY <1>8, <1>10, <1>12
<1>14. (stored[x] + times * lent) * PreciseUnit <= stored[x] * PreciseUnit + lent * PreciseUnit
  BY <1>8, <1>10, <1>12
<1>15. unit * totalSupply' >= (debt'[x] - (debt[x] - stored[x])) * PreciseUnit
  <2> DEFINE p == unit * totalSupply
             q == unit * withFees
             r == stored[x] * PreciseUnit
             s == lent * PreciseUnit
             t == (stored[x] + times * lent) * PreciseUnit
  <2>1. /\ p \in Int /\ q \in Int /\ r \in Int /\ s \in Int /\ t \in Int
        /\ p >= r /\ s <= q /\ t <= r + s
    BY <1>8, <1>9, <1>10, <1>12, <1>14
  <2>2. unit * totalSupply' = p + q /\ (debt'[x] - (debt[x] - stored[x])) * PreciseUnit = t
    BY <1>11, <1>13
  <2> HIDE DEF p, q, r, s, t
  <2> QED  BY <2>1, <2>2
<1> QED  BY <1>15 DEF unit

LEMMA RedeemCovered ==
    ASSUME ProtocolFeeSplit < PreciseUnit, Amounts, RecordsBehind,
           NEW quantity \in Nat, Redeem(quantity), NEW x \in SyncedDebt(Hooked)
    PROVE  debtUnit(x[1], x[2]) * totalSupply' >= (debt'[x] - (debt[x] - stored[x])) * PreciseUnit
<1> DEFINE read == Read(Hooked, TRUE)
           unit == debtUnit(x[1], x[2])
<1>1. PICK netFees \in Nat, minted \in Nat : Redeemed(quantity, netFees, minted)
  BY RedeemEffects
<1>2. x \in Position /\ x[1] \in Lender /\ x[2] \in Asset
  BY DEF SyncedDebt, Position
<1>3. read \in [Position -> Nat]
  BY ReadRecords
<1>4. /\ SyncUnits(Hooked, read)
      /\ totalSupply' = totalSupply - netFees
      /\ totalSupply > 0 /\ netFees <= totalSupply
      /\ totalSupply' \in Nat
      /\ debt'[x] = debt[x] - repaidFor(x, netFees)
  <2>1. /\ SyncUnits(Hooked, read)
        /\ totalSupply' = totalSupply - quantity + minted
        /\ quantity - minted = netFees
        /\ quantity > 0 /\ quantity <= totalSupply /\ netFees <= quantity
        /\ debt'[x] = debt[x] - repaidFor(x, netFees)
    BY <1>1, <1>2, Zenon DEF Redeemed
  <2>2. totalSupply \in Nat
    BY DEF Amounts
  <2> HIDE DEF read
  <2> QED  BY <2>1, <2>2
<1>5. \A l \in Lender, a \in Asset : debtUnit(l, a) \in Nat
  BY <1>3, <1>4, DebtUnitTypes
<1>6. unit \in Nat
  BY <1>2, <1>5
<1>7. /\ payment(x[1], x[2], netFees) \in Nat
      /\ payment(x[1], x[2], netFees) * PreciseUnit >= unit * netFees
  BY <1>6, MulBounds DEF payment
<1>8. totalSupply \in Nat /\ debt[x] \in Nat /\ stored[x] \in Nat /\ PreciseUnit \in Nat \ {0}
      /\ stored[x] <= debt[x]
  BY <1>2, PreciseUnitAssumption DEF Amounts, RecordsBehind
<1>9. read[x] = debt[x]
  BY <1>2, <1>4 DEF Read, Position
<1>10. unit * totalSupply >= debt[x] * PreciseUnit
  <2>1. unit * totalSupply >= read[x] * PreciseUnit
    <3>1. totalSupply # 0
      BY <1>4, <1>8
    <3>2. /\ SyncUnits(Hooked, read) /\ read \in [Position -> Nat]
          /\ x \in SyncedDebt(Hooked)
      BY <1>3, <1>4
    <3> HIDE DEF read
    <3> QED  BY <3>1, <3>2, SyncedDebtCovers
  <2> HIDE DEF unit, read
  <2> QED  BY <1>9, <2>1
\* A position with a unit is repaid, unless there is nothing to redeem.
<1>11. repayTimes(x, netFees) = 0 => unit * netFees = 0
  <2>1. CASE unit = 0
    BY <2>1
  <2>2. CASE unit > 0
    <3>1. debtUnits(x[2]) \in Nat /\ unit <= debtUnits(x[2])
      BY <1>2, <1>5, DebtUnitsSum
    <3>2. debtIn(x[2], netFees) = 0 => debtUnits(x[2]) * netFees = 0
      BY <3>1, MulBounds DEF debtIn
    <3>3. debtIn(x[2], netFees) \in Nat
      BY <3>1, MulBounds DEF debtIn
    <3>4. repayTimes(x, netFees) = 0 => debtIn(x[2], netFees) = 0
      <4>1. ASSUME NEW equity, NEW owed \in Nat, owed > 0
            PROVE  Times(x[1], x[2], equity, owed) # 0
        BY <2>2, <4>1 DEF Times, IsCalled
      <4> QED  BY <3>3, <4>1 DEF repayTimes
    <3>5. debtUnits(x[2]) * netFees = 0 => netFees = 0
      <4> DEFINE all == debtUnits(x[2])
      <4>1. all \in Nat \ {0}
        BY <2>2, <3>1, <1>6
      <4> HIDE DEF all
      <4>2. all * netFees = 0 => netFees = 0
        BY <4>1
      <4> QED  BY <4>2 DEF all
    <3> HIDE DEF unit
    <3>6. netFees = 0 => unit * netFees = 0
      BY <1>6
    <3> QED  BY <3>2, <3>4, <3>5, <3>6
  <2> QED  BY <1>6, <2>1, <2>2
<1>12. \/ repaidFor(x, netFees) \in Nat /\ repaidFor(x, netFees) * PreciseUnit >= unit * netFees
       \/ repaidFor(x, netFees) = debt[x]
  <2> DEFINE times == repayTimes(x, netFees)
             paid  == payment(x[1], x[2], netFees)
             due   == unit * netFees
  <2>1. times \in {0, 1, 2}
    BY TimesCalled, Zenon DEF repayTimes
  <2>2. offeredFor(x, netFees) = times * paid
    BY DEF offeredFor
  <2>3. paid \in Nat /\ due \in Nat /\ paid * PreciseUnit >= due /\ (times = 0 => due = 0)
    BY <1>6, <1>7, <1>11
  <2> HIDE DEF times, paid, due
  <2>4. times * paid \in Nat /\ (times * paid) * PreciseUnit >= due
    <3>1. CASE times = 0
      BY <1>8, <2>3, <3>1
    <3>2. CASE times = 1
      BY <2>3, <3>2
    <3>3. CASE times = 2
      <4>1. (2 * paid) * PreciseUnit >= paid * PreciseUnit
        BY <1>8, <2>3
      <4>2. (2 * paid) * PreciseUnit \in Int /\ paid * PreciseUnit \in Int /\ 2 * paid \in Nat
        BY <1>8, <2>3
      <4> QED  BY <2>3, <3>3, <4>1, <4>2
    <3> QED  BY <2>1, <3>1, <3>2, <3>3
  <2>5. offeredFor(x, netFees) \in Nat /\ offeredFor(x, netFees) * PreciseUnit >= due
    BY <2>2, <2>4
  <2> QED  BY <2>5 DEF repaidFor, due
<1> DEFINE repaid == repaidFor(x, netFees)
<1>13. /\ repaid \in Nat
       /\ repaid * PreciseUnit >= unit * netFees \/ repaid = debt[x]
       /\ debt'[x] = debt[x] - repaid /\ unit \in Nat
  BY <1>4, <1>6, <1>8, <1>12
<1> HIDE DEF unit, repaid, read
<1>14. unit * totalSupply' = unit * totalSupply - unit * netFees
       /\ unit * totalSupply' >= 0
  <2>1. totalSupply' \in Nat /\ totalSupply' = totalSupply - netFees
    BY <1>4
  <2>2. unit * totalSupply' \in Nat
    BY <1>13, <2>1
  <2> QED  BY <1>8, <1>13, <2>1, <2>2
<1>15. debt'[x] - (debt[x] - stored[x]) = stored[x] - repaid
  BY <1>8, <1>13
<1>16. unit * totalSupply' >= (stored[x] - repaid) * PreciseUnit
  <2> DEFINE p == unit * totalSupply
             q == unit * netFees
             r == debt[x] * PreciseUnit
             s == repaid * PreciseUnit
             t == (stored[x] - repaid) * PreciseUnit
  <2>1. /\ p \in Int /\ q \in Int /\ r \in Int /\ s \in Int /\ t \in Int
        /\ p >= r /\ t <= r - s /\ (s >= q \/ t <= 0)
    <3>1. t <= r - s
      BY <1>8, <1>13
    <3>2. repaid = debt[x] => t <= 0
      BY <1>8, <1>13
    <3> QED  BY <1>8, <1>10, <1>13, <3>1, <3>2
  <2>2. unit * totalSupply' = p - q /\ unit * totalSupply' >= 0
    BY <1>14
  <2> HIDE DEF p, q, r, s
  <2>3. unit * totalSupply' >= t
    <3> HIDE DEF t
    <3> QED  BY <2>1, <2>2
  <2> QED  BY <2>3
<1> QED  BY <1>15, <1>16 DEF unit

-----------------------------------------------------------------------------
(* Balances and default units *)

Holdings ==
    /\ balance \in [Component -> Nat]
    /\ virtualUnit \in [Component -> Nat]

LEMMA DivTypes ==
    ASSUME NEW a \in Nat, NEW b \in Nat \ {0}
    PROVE  preciseDiv(a, b) \in Nat /\ preciseDiv(a, b) * b <= a * PreciseUnit
<1> DEFINE n == a * PreciseUnit
           q == n \div b
<1>1. n \in Nat
  BY PreciseUnitAssumption
<1>2. preciseDiv(a, b) = q
  BY DEF preciseDiv
<1> HIDE DEF n
<1>3. q \in Nat /\ b * q <= n
  BY <1>1, FloorBounds, FloorSign
<1> HIDE DEF q
<1>4. q * b <= n
  BY <1>3
<1> QED  BY <1>2, <1>3, <1>4 DEF n

LEMMA SyncHoldings ==
    ASSUME Amounts, Holdings, NEW L, NEW owed, SyncUnits(L, owed)
    PROVE  virtualUnit' \in [Component -> Nat]
<1>1. CASE totalSupply = 0
  BY <1>1 DEF SyncUnits, Holdings
<1>2. CASE totalSupply # 0
  <2>1. virtualUnit' = [c \in Component |->
                          IF \E x \in SyncedCollateral(L) : receipt[x] = c
                          THEN Written(virtualUnit[c], preciseDiv(balance[c], totalSupply))
                          ELSE virtualUnit[c]]
    BY <1>2, Zenon DEF SyncUnits
  <2>2. ASSUME NEW c \in Component
        PROVE  Written(virtualUnit[c], preciseDiv(balance[c], totalSupply)) \in Nat
    <3> DEFINE unit == preciseDiv(balance[c], totalSupply)
    <3>1. balance[c] \in Nat /\ totalSupply \in Nat \ {0} /\ virtualUnit[c] \in Nat
      BY <1>2 DEF Amounts, Holdings
    <3>2. unit \in Nat
      BY <3>1, DivTypes
    <3> HIDE DEF unit
    <3>3. conservativePreciseDiv(unit, positionMultiplier) \in Nat
      BY <3>2, StoredAndReadBack DEF Amounts
    <3>4. Written(virtualUnit[c], unit) \in Nat
      BY <3>1, <3>3 DEF Written
    <3> QED  BY <3>4 DEF unit
  <2> QED  BY <2>1, <2>2 DEF Holdings
<1> QED  BY <1>1, <1>2

LEMMA ReceiptIsNoAsset ==
    ASSUME NEW l \in Lender, NEW a \in Asset
    PROVE  /\ receipt[<<l, a>>] \in Component /\ receipt[<<l, a>>] \notin Asset
           /\ receipt[<<l, a>>] \in Receipts
<1>1. <<l, a>> \in Lender \X Asset
  OBVIOUS
<1> QED  BY <1>1, LeverageAssumption DEF Receipts, Position

\* The collateral's unit is written into the units given.
LEMMA LeverHoldings ==
    ASSUME Amounts, totalSupply # 0, balance' \in [Component -> Nat],
           NEW units \in [Component -> Nat],
           NEW l \in Lender, NEW collateral \in Asset, NEW borrowed \in Asset,
           UpdateLeverPositions(units, l, collateral, borrowed)
    PROVE  /\ virtualUnit' \in [Component -> Nat]
           /\ \A c \in Component \ Receipts : virtualUnit'[c] = units[c]
<1> DEFINE r    == receipt[<<l, collateral>>]
           unit == getCollateralPosition(l, collateral, balance')
           new  == conservativePreciseDiv(unit, positionMultiplier)
<1>1. r \in Component /\ r \in Receipts
  BY ReceiptIsNoAsset
<1>2. unit \in Nat
  <2>1. balance'[r] \in Nat /\ totalSupply \in Nat \ {0}
    BY <1>1 DEF Amounts
  <2> QED  BY <2>1, DivTypes DEF getCollateralPosition
<1>3. virtualUnit' = [units EXCEPT ![r] = new]
  BY Zenon DEF UpdateLeverPositions, editDefaultPosition
<1> HIDE DEF unit
<1>4. new \in Nat
  BY <1>2, StoredAndReadBack DEF Amounts
<1> HIDE DEF new, r
<1> QED  BY <1>1, <1>3, <1>4

\* The unit of what a trade leaves counts no more than what is held.
LEMMA RestUnit ==
    ASSUME Amounts, Holdings, balance' \in [Component -> Nat], NEW c \in Component,
           IsUpdatable(virtualUnit, c, balance')
    PROVE  /\ NewUnit(virtualUnit, c, balance') \in Nat
           /\ NewUnit(virtualUnit, c, balance') * totalSupply <= balance'[c] * PreciseUnit
           /\ balance'[c] = balance[c] /\ virtualUnit[c] = 0 =>
                NewUnit(virtualUnit, c, balance') = 0
<1> DEFINE post    == balance'[c]
           pre     == balance[c]
           tracked == getDefaultTrackedBalance(virtualUnit, c)
           new     == NewUnit(virtualUnit, c, balance')
<1>1. post \in Nat /\ pre \in Nat /\ totalSupply \in Nat /\ positionMultiplier \in Nat \ {0}
      /\ virtualUnit[c] \in Nat /\ PreciseUnit \in Nat \ {0}
  BY PreciseUnitAssumption DEF Amounts, Holdings
<1>2. tracked \in Nat /\ (virtualUnit[c] = 0 => tracked = 0)
  <2> DEFINE virtual == virtualUnit[c]
             real == conservativePreciseMul(virtual, positionMultiplier)
  <2>1. virtual \in Nat /\ virtual * positionMultiplier \in Nat
        /\ (virtual = 0 => virtual * positionMultiplier = 0)
    BY <1>1
  <2>2. real \in Nat /\ (virtual = 0 => real = 0)
    <3> HIDE DEF virtual
    <3>1. real = (virtual * positionMultiplier) \div PreciseUnit
      BY <1>1, <2>1, ConservativeMul
    <3> HIDE DEF real
    <3> DEFINE n == virtual * positionMultiplier
    <3>2. n \in Nat /\ (virtual = 0 => n = 0) /\ real = n \div PreciseUnit
      BY <2>1, <3>1
    <3> HIDE DEF n
    <3> QED  BY <1>1, <3>2, FloorBounds, FloorSign
  <2>3. tracked = preciseMul(totalSupply, real)
    BY DEF getDefaultTrackedBalance, getDefaultPositionRealUnit
  <2> HIDE DEF real, tracked
  <2>4. preciseMul(totalSupply, real) \in Nat
    BY <1>1, <2>2, MulBounds
  <2>5. real = 0 => preciseMul(totalSupply, real) = 0
    BY <1>1, FloorSign DEF preciseMul
  <2> QED  BY <2>2, <2>3, <2>4, <2>5
<1>3. CASE post = 0
  <2>1. new = 0
    BY <1>3 DEF NewUnit
  <2> QED  BY <1>1, <1>3, <2>1
<1>4. CASE post # 0
  <2>1. totalSupply > 0 /\ tracked <= pre /\ pre - tracked <= post
    BY <1>4 DEF IsUpdatable, IsCalculable
  <2> DEFINE rest == post - (pre - tracked)
  <2>2. new = preciseDiv(rest, totalSupply)
    BY <1>4 DEF NewUnit, calculateDefaultEditPositionUnit, getDefaultPositionUnit
  <2> HIDE DEF post, pre, tracked, new
  <2>3. rest \in Nat /\ rest <= post
    BY <1>1, <1>2, <2>1
  <2>4. post = pre /\ tracked = 0 => rest = 0
    BY <1>1
  <2> HIDE DEF rest
  <2>5. new \in Nat /\ new * totalSupply <= rest * PreciseUnit
    BY <1>1, <2>1, <2>2, <2>3, DivTypes
  <2>6. rest * PreciseUnit <= post * PreciseUnit
    BY <1>1, <2>3
  <2>7. rest = 0 => new = 0
    <3>1. rest = 0 => rest * PreciseUnit = 0
      BY <1>1
    <3>2. 0 \div totalSupply = 0
      BY <1>1, <2>1, FloorSign
    <3> QED  BY <2>2, <3>1, <3>2 DEF preciseDiv
  <2>8. new * totalSupply <= post * PreciseUnit
    <3>1. new * totalSupply \in Int /\ rest * PreciseUnit \in Int /\ post * PreciseUnit \in Int
      BY <1>1, <2>3, <2>5
    <3> QED  BY <2>5, <2>6, <3>1
  <2>9. post = pre /\ virtualUnit[c] = 0 => new = 0
    BY <1>2, <2>4, <2>7
  <2> QED  BY <2>5, <2>8, <2>9 DEF post, pre, new
<1> QED  BY <1>3, <1>4

\* Of a component that is no receipt token a leverage module takes nothing, and its unit
\* changes only when a trade leaves something of it.
Kept(c) ==
    /\ balance'[c] >= balance[c]
    /\ \/ virtualUnit'[c] = virtualUnit[c]
       \/ /\ IsUpdatable(virtualUnit, c, balance')
          /\ virtualUnit'[c] =
               conservativePreciseDiv(NewUnit(virtualUnit, c, balance'), positionMultiplier)
          /\ Compound = Lender /\ Surplus \subseteq {0} => balance'[c] = balance[c]

HeldStep == Holdings' /\ \A c \in Component \ Receipts : Kept(c)

LEMMA SyncHeld ==
    ASSUME Amounts, Holdings, NEW L, NEW owed, SyncUnits(L, owed), balance' = balance
    PROVE  HeldStep
<1>1. Holdings'
  BY SyncHoldings DEF Holdings
<1>2. \A c \in Component \ Receipts : virtualUnit'[c] = virtualUnit[c]
  BY SyncedAssets
<1> QED  BY <1>1, <1>2 DEF Holdings, HeldStep, Kept

LEMMA SameHeld ==
    ASSUME Holdings, UNCHANGED <<balance, virtualUnit>>
    PROVE  HeldStep
  BY DEF Holdings, HeldStep, Kept

LEMMA LeverHeld ==
    ASSUME Amounts, Holdings,
           NEW l \in Lender, NEW borrowed \in Asset, NEW collateral \in Asset,
           NEW units \in LeverUnits, NEW minted \in Minted, NEW left \in Left,
           Lever(l, borrowed, collateral, units, minted, left)
    PROVE  HeldStep
<1> DEFINE r == receipt[<<l, collateral>>]
           notional == preciseMul(units, totalSupply)
<1>1. /\ IsLeverable(l, collateral, borrowed, notional)
      /\ balance' = [balance EXCEPT ![r] = @ + minted, ![borrowed] = @ + left]
      /\ UpdateLeverPositions(virtualUnit, l, collateral, borrowed)
  BY Zenon DEF Lever
<1>2. minted \in Nat /\ left \in Nat /\ units \in Nat
  BY LeveragedTokenAssumption
<1>3. r \in Component /\ r \notin Asset /\ r \in Receipts /\ borrowed \in Component
  BY ReceiptIsNoAsset, LeverageAssumption
<1>4. totalSupply # 0
  BY <1>1, <1>2, SupplyIsPositive DEF IsLeverable
<1> HIDE DEF r
<1>5. balance' \in [Component -> Nat] /\ \A c \in Component : balance'[c] >= balance[c]
  BY <1>1, <1>2, <1>3 DEF Holdings
<1>6. /\ virtualUnit' \in [Component -> Nat]
      /\ \A c \in Component \ Receipts : virtualUnit'[c] = virtualUnit[c]
  BY <1>1, <1>4, <1>5, LeverHoldings DEF Holdings
<1> QED  BY <1>5, <1>6 DEF HeldStep, Holdings, Kept

LEMMA RepayHeld ==
    ASSUME Amounts, Holdings, totalSupply # 0,
           NEW l \in Lender, NEW borrowed \in Asset, NEW collateral \in Asset,
           collateral # borrowed, NEW burned \in Nat, NEW left \in Nat, NEW given \in Nat,
           NEW paid \in Nat, paid <= given, NEW keeps \in BOOLEAN,
           keeps => (Compound = Lender /\ Surplus \subseteq {0} => given = paid),
           Repays(l, collateral, borrowed, burned, left, given, paid),
           keeps => KeepsRest(borrowed),
           UpdateLeverPositions(
             IF keeps THEN Updated(virtualUnit, borrowed, balance') ELSE virtualUnit,
             l, collateral, borrowed)
    PROVE  HeldStep
<1> DEFINE r == receipt[<<l, collateral>>]
           new == IF keeps THEN Updated(virtualUnit, borrowed, balance') ELSE virtualUnit
           unit == conservativePreciseDiv(NewUnit(virtualUnit, borrowed, balance'),
                                          positionMultiplier)
<1>1. /\ burned <= balance[r]
      /\ balance' = [balance EXCEPT ![r] = @ - burned, ![collateral] = @ + left,
                                    ![borrowed] = @ + given - paid]
  BY Zenon DEF Repays
<1>2. r \in Component /\ r \notin Asset /\ r \in Receipts
      /\ borrowed \in Component /\ collateral \in Component
      /\ borrowed \notin Receipts
  BY ReceiptIsNoAsset, LeverageAssumption, AssetsAreNoReceipts
<1> HIDE DEF r
<1>3. /\ balance' \in [Component -> Nat]
      /\ \A c \in Component \ Receipts : balance'[c] >= balance[c]
      /\ given = paid => balance'[borrowed] = balance[borrowed]
  <2>1. balance[r] \in Nat /\ balance[borrowed] \in Nat /\ balance[collateral] \in Nat
    BY <1>2 DEF Holdings
  <2>2. /\ balance'[r] = balance[r] - burned
        /\ balance'[collateral] = balance[collateral] + left
        /\ balance'[borrowed] = balance[borrowed] + given - paid
        /\ \A c \in Component : c # r /\ c # collateral /\ c # borrowed =>
             balance'[c] = balance[c]
        /\ DOMAIN balance' = Component /\ balance' = [c \in Component |-> balance'[c]]
    BY <1>1, <1>2 DEF Holdings
  <2>3. balance'[r] \in Nat /\ balance'[collateral] \in Nat /\ balance'[borrowed] \in Nat
        /\ balance'[collateral] >= balance[collateral]
        /\ balance'[borrowed] >= balance[borrowed]
        /\ (given = paid => balance'[borrowed] = balance[borrowed])
    BY <1>1, <2>1, <2>2
  <2>4. ASSUME NEW c \in Component
        PROVE  balance'[c] \in Nat /\ (c \notin Receipts => balance'[c] >= balance[c])
    <3>1. balance[c] \in Nat
      BY DEF Holdings
    <3> QED  BY <1>2, <2>2, <2>3, <3>1
  <2> QED  BY <2>2, <2>3, <2>4
<1>4. keeps => IsUpdatable(virtualUnit, borrowed, balance')
  BY DEF KeepsRest
<1>5. /\ new \in [Component -> Nat]
      /\ \A c \in Component \ {borrowed} : new[c] = virtualUnit[c]
      /\ new[borrowed] = IF keeps THEN unit ELSE virtualUnit[borrowed]
  <2>1. CASE ~keeps
    BY <2>1 DEF Holdings
  <2>2. CASE keeps
    <3>1. NewUnit(virtualUnit, borrowed, balance') \in Nat
      BY <1>2, <1>3, <1>4, <2>2, RestUnit
    <3>2. unit \in Nat
      BY <3>1, StoredAndReadBack DEF Amounts
    <3>3. new = [virtualUnit EXCEPT ![borrowed] = unit]
      BY <2>2 DEF Updated, editDefaultPosition
    <3> HIDE DEF new, unit
    <3> QED  BY <1>2, <2>2, <3>2, <3>3 DEF Holdings
  <2> QED  BY <2>1, <2>2
<1>6. UpdateLeverPositions(new, l, collateral, borrowed)
  BY Zenon
<1> HIDE DEF new
<1>7. /\ virtualUnit' \in [Component -> Nat]
      /\ \A c \in Component \ Receipts : virtualUnit'[c] = new[c]
  BY <1>3, <1>5, <1>6, LeverHoldings
<1>8. ASSUME NEW c \in Component \ Receipts
      PROVE  Kept(c)
  <2>1. balance'[c] >= balance[c]
    BY <1>3
  <2>2. CASE c # borrowed \/ ~keeps
    <3>1. virtualUnit'[c] = virtualUnit[c]
      BY <1>2, <1>5, <1>7, <2>2
    <3> QED  BY <2>1, <3>1 DEF Kept
  <2>3. CASE c = borrowed /\ keeps
    <3>1. virtualUnit'[c] = unit
      BY <1>2, <1>5, <1>7, <2>3
    <3>2. Compound = Lender /\ Surplus \subseteq {0} => balance'[c] = balance[c]
      BY <1>3, <2>3
    <3>3. IsUpdatable(virtualUnit, c, balance')
      BY <1>4, <2>3
    <3> QED  BY <2>1, <2>3, <3>1, <3>2, <3>3 DEF Kept
  <2> QED  BY <2>2, <2>3
<1> QED  BY <1>3, <1>7, <1>8 DEF HeldStep, Holdings

LEMMA LeverageHeld ==
    ASSUME Amounts, Holdings, LeverageNext
    PROVE  HeldStep
<1>1. ASSUME NEW l \in Lender, NEW accrue, Sync(l, accrue)
      PROVE  HeldStep
  BY <1>1, SyncHeld DEF Sync, SyncRecords
<1>2. ASSUME NEW l \in Lender, NEW borrowed \in Asset, NEW collateral \in Asset,
             NEW units \in LeverUnits, NEW burned \in Burned, NEW left \in Left,
             NEW given \in Given,
             Delever(l, collateral, borrowed, units, burned, left, given)
      PROVE  HeldStep
  <2> DEFINE owed  == debt[<<l, borrowed>>]
             paid  == IF l \in Compound \/ given <= owed THEN given ELSE owed
             keeps == l \notin Compound /\ given # paid
  <2>1. /\ IsLeverable(l, collateral, borrowed, preciseMul(units, totalSupply))
        /\ Repays(l, collateral, borrowed, burned, left, given, paid)
        /\ keeps => KeepsRest(borrowed)
        /\ UpdateLeverPositions(
             IF keeps THEN Updated(virtualUnit, borrowed, balance') ELSE virtualUnit,
             l, collateral, borrowed)
    BY <1>2, Zenon DEF Delever
  <2>2. owed \in Nat
    BY DEF Amounts, Position
  <2>3. burned \in Nat /\ left \in Nat /\ given \in Nat /\ units \in Nat
    BY LeveragedTokenAssumption
  <2> HIDE DEF owed
  <2>4. paid \in Nat /\ paid <= given /\ keeps \in BOOLEAN
    BY <2>2, <2>3
  <2>5. ~(keeps /\ Compound = Lender)
    OBVIOUS
  <2>6. totalSupply # 0 /\ collateral # borrowed
    BY <2>1, <2>3, SupplyIsPositive DEF IsLeverable
  <2> HIDE DEF paid, keeps
  <2> QED  BY <2>1, <2>3, <2>4, <2>5, <2>6, RepayHeld
<1>3. ASSUME NEW l \in Lender, NEW borrowed \in Asset, NEW collateral \in Asset,
             NEW units \in LeverUnits, NEW burned \in Burned, NEW left \in Left,
             NEW surplus \in Surplus,
             DeleverToZeroBorrowBalance(l, collateral, borrowed, units, burned, left,
                                        debt[<<l, borrowed>>] + surplus)
      PROVE  HeldStep
  <2> DEFINE owed  == debt[<<l, borrowed>>]
             given == owed + surplus
             keeps == l \in Compound \/ given # owed
  <2>1. /\ IsLeverable(l, collateral, borrowed, preciseMul(units, totalSupply))
        /\ Repays(l, collateral, borrowed, burned, left, given, owed)
        /\ keeps => KeepsRest(borrowed)
        /\ UpdateLeverPositions(
             IF keeps THEN Updated(virtualUnit, borrowed, balance') ELSE virtualUnit,
             l, collateral, borrowed)
    BY <1>3, Zenon DEF DeleverToZeroBorrowBalance
  <2>2. owed \in Nat
    BY DEF Amounts, Position
  <2>3. burned \in Nat /\ left \in Nat /\ surplus \in Nat /\ units \in Nat
    BY LeveragedTokenAssumption
  <2> HIDE DEF owed
  <2>4. given \in Nat /\ owed <= given /\ keeps \in BOOLEAN
        /\ (surplus = 0 => given = owed)
    BY <2>2, <2>3
  <2>5. Surplus \subseteq {0} => surplus = 0
    OBVIOUS
  <2>6. totalSupply # 0 /\ collateral # borrowed
    BY <2>1, <2>3, SupplyIsPositive DEF IsLeverable
  <2> HIDE DEF given, keeps
  <2> QED  BY <2>1, <2>2, <2>3, <2>4, <2>5, <2>6, RepayHeld
<1> QED  BY <1>1, <1>2, <1>3, LeverHeld, ZenonT(60) DEF LeverageNext

LEMMA LenderHeld ==
    ASSUME Amounts, Holdings, LenderNext
    PROVE  HeldStep
<1>1. virtualUnit' = virtualUnit
  BY LenderFrame
<1>2. ASSUME NEW l \in Lender, NEW a \in Asset, NEW repaid, NEW seized \in Seizures,
             NEW collateral \in Asset, Liquidate(l, a, repaid, collateral, seized)
      PROVE  HeldStep
  <2> DEFINE r == receipt[<<l, collateral>>]
  <2>1. seized <= balance[r] /\ balance' = [balance EXCEPT ![r] = @ - seized]
    BY <1>2, Zenon DEF Liquidate
  <2>2. r \in Component /\ r \in Receipts
    BY ReceiptIsNoAsset
  <2>3. seized \in Nat
    BY LeveragedTokenAssumption
  <2> HIDE DEF r
  <2>4. balance' \in [Component -> Nat] /\ \A c \in Component \ Receipts : balance'[c] = balance[c]
    BY <2>1, <2>2, <2>3 DEF Holdings
  <2> QED  BY <1>1, <2>4 DEF Holdings, HeldStep, Kept
<1>3. ASSUME NEW l, NEW a, NEW amount, InterestAccrues(l, a, amount) \/ MarketAccrues(l, a)
      PROVE  HeldStep
  BY <1>3, SameHeld DEF InterestAccrues, MarketAccrues, fundVars
<1> QED  BY <1>2, <1>3, ZenonT(60) DEF LenderNext

LEMMA AssetHeld ==
    ASSUME Amounts, Holdings, AssetNext
    PROVE  HeldStep
<1>1. ASSUME NEW l, SyncBeforeRemoval(l), balance' = balance
      PROVE  HeldStep
  BY <1>1, SyncHeld, SameHeld DEF SyncBeforeRemoval, SyncRecords
<1>2. ASSUME NEW l, NEW a, RemoveCollateralAsset(l, a) \/ RemoveBorrowAsset(l, a)
      PROVE  HeldStep
  BY <1>1, <1>2 DEF RemoveCollateralAsset, RemoveBorrowAsset
<1>3. ASSUME NEW l, NEW a, AddCollateralAsset(l, a) \/ AddBorrowAsset(l, a)
      PROVE  HeldStep
  BY <1>3, SameHeld DEF AddCollateralAsset, AddBorrowAsset, fundVars
<1> QED  BY <1>2, <1>3 DEF AssetNext

\* Every step but an issue and a redemption.
LEMMA OtherHeld ==
    ASSUME Amounts, Holdings, [Next]_leveragedVars, ~IssuanceNext
    PROVE  HeldStep
<1>1. CASE ReceiveNext
  <2>1. PICK c \in Airdropped : Receive(c, 1)
    BY <1>1 DEF ReceiveNext
  <2>2. c \in Component /\ balance' = [balance EXCEPT ![c] = @ + 1] /\ virtualUnit' = virtualUnit
    BY <2>1, LeveragedTokenAssumption DEF Receive
  <2>3. balance' \in [Component -> Nat] /\ \A d \in Component : balance'[d] >= balance[d]
    BY <2>2 DEF Holdings
  <2> QED  BY <2>2, <2>3 DEF Holdings, HeldStep, Kept
<1>2. CASE SettingNext
  BY <1>2, SettingFrame, SameHeld DEF fundVars
<1>3. CASE InitializeNext
  BY <1>3, SameHeld DEF InitializeNext, InitializeLender, fundVars
<1>4. ASSUME NEW l \in Lender, RemoveLender(l)
      PROVE  HeldStep
  BY <1>4, SyncHeld DEF RemoveLender, DisableAssets, SyncRecords
<1>5. CASE ModuleNext
  BY <1>4, <1>5, SameHeld DEF ModuleNext, AddModule, RegisterToModule, RemoveIssuance, fundVars
<1>6. ASSUME NEW l, NEW on, ControllerSets(l, on)
      PROVE  HeldStep
  BY <1>6, SameHeld DEF ControllerSets, fundVars
<1>7. CASE UNCHANGED leveragedVars
  BY <1>7, SameHeld DEF leveragedVars, fundVars
<1> QED
  BY <1>1, <1>2, <1>3, <1>5, <1>6, <1>7, LeverageHeld, LenderHeld, AssetHeld DEF Next

-----------------------------------------------------------------------------
(* Balances through an issue and a redemption *)

\* The real unit, of any default unit.
LEMMA EquityUnitTypes ==
    ASSUME positionMultiplier \in Nat \ {0}, NEW c \in Component, virtualUnit'[c] \in Nat
    PROVE  equityUnit(c) \in Nat /\ (virtualUnit'[c] = 0 => equityUnit(c) = 0)
<1> DEFINE virtual == virtualUnit'[c]
           real == conservativePreciseMul(virtual, positionMultiplier)
           n == virtual * positionMultiplier
<1>1. virtual \in Nat
  OBVIOUS
<1>2. equityUnit(c) = real
  BY DEF equityUnit, getDefaultPositionRealUnit
<1> HIDE DEF virtual
<1>3. real = n \div PreciseUnit
  BY <1>1, ConservativeMul
<1> HIDE DEF real
<1>4. n \in Nat /\ (virtual = 0 => n = 0)
  BY <1>1
<1> HIDE DEF n
<1>5. real \in Nat /\ (n = 0 => real = 0)
  BY <1>3, <1>4, PreciseUnitAssumption, FloorBounds, FloorSign
<1> QED  BY <1>2, <1>4, <1>5 DEF virtual

\* What modules bring and spend of an asset, all of them and the only one.
LEMMA LenderSums ==
    ASSUME NEW f, DOMAIN f = Lender, \A l \in Lender : f[l] \in Int
    PROVE  /\ SumFunction(f) \in Int
           /\ (\A l \in Lender : f[l] >= 0) => SumFunction(f) >= 0
           /\ Lender = {} => SumFunction(f) = 0
           /\ \A l \in Lender : Lender = {l} => SumFunction(f) = f[l]
<1>1. SumFunction(f) = SumFunctionOnSet(f, Lender)
  BY DEF SumFunction
<1>2. IsFiniteSet(Lender)
  BY DebtIssuanceAssumption
<1>3. /\ SumFunctionOnSet(f, Lender) \in Int
      /\ (\A l \in Lender : f[l] >= 0) => SumFunctionOnSet(f, Lender) >= 0
  BY <1>2, SumType
<1>4. SumFunctionOnSet(f, {}) = 0
  BY SumEmpty
<1>5. ASSUME NEW l \in Lender, Lender = {l}
      PROVE  SumFunctionOnSet(f, Lender) = f[l]
  <2>1. SumFunctionOnSet(f, Lender) = f[l] + SumFunctionOnSet(f, Lender \ {l})
    BY <1>2, SumTakesOne
  <2>2. Lender \ {l} = {}
    BY <1>5
  <2> QED  BY <1>4, <2>1, <2>2
<1> QED  BY <1>1, <1>3, <1>4, <1>5

OneLender == \A k, l \in Lender : k = l

\* What comes of a component, rounded for each module, and what goes to the issuer.
LEMMA IssueSums ==
    ASSUME NEW a \in Asset, NEW withFees \in Nat, \A l \in Lender : debtUnit(l, a) \in Nat
    PROVE  /\ Came(a, withFees) \in Int /\ debtOut(a, withFees) \in Nat
           /\ OneLender => Came(a, withFees) >= debtOut(a, withFees)
           /\ OneLender /\ equityIn(a, withFees) = 0 => Came(a, withFees) = debtOut(a, withFees)
<1> DEFINE f == [l \in Lender |-> borrowTimes(<<l, a>>, withFees) * loan(l, a, withFees)]
           g == [l \in Lender |-> debtUnit(l, a)]
           borrowed == debtOut(a, withFees)
<1>1. debtUnits(a) \in Nat
  BY DebtUnitsSum
<1>2. borrowed \in Nat /\ (debtUnits(a) = 0 => borrowed = 0)
  BY <1>1, MulBounds DEF debtOut
<1>3. ASSUME NEW l \in Lender
      PROVE  /\ loan(l, a, withFees) \in Nat
             /\ borrowTimes(<<l, a>>, withFees) \in {0, 1, 2}
             /\ debtUnit(l, a) = 0 => loan(l, a, withFees) = 0
             /\ debtUnit(l, a) > 0 /\ borrowed > 0 => borrowTimes(<<l, a>>, withFees) > 0
             /\ borrowed = 0 /\ equityIn(a, withFees) = 0 => borrowTimes(<<l, a>>, withFees) = 0
             /\ equityIn(a, withFees) = 0 => borrowTimes(<<l, a>>, withFees) \in {0, 1}
  <2> DEFINE equity == equityIn(a, withFees)
             times  == borrowTimes(<<l, a>>, withFees)
  <2>1. loan(l, a, withFees) \in Nat /\ (debtUnit(l, a) = 0 => loan(l, a, withFees) = 0)
    BY MulBounds DEF loan
  <2>2. times = Times(l, a, equity, borrowed)
    BY DEF borrowTimes
  <2> HIDE DEF equity, times, borrowed
  <2>3. times \in {0, 1, 2}
    BY <2>2, TimesCalled, Zenon
  <2>4. /\ debtUnit(l, a) > 0 /\ borrowed > 0 => times > 0
        /\ borrowed = 0 /\ equity = 0 => times = 0
        /\ equity = 0 => times \in {0, 1}
    BY <2>2 DEF Times, IsCalled
  <2> QED  BY <2>1, <2>3, <2>4 DEF equity, times, borrowed
<1>4. ASSUME NEW l \in Lender
      PROVE  f[l] \in Int /\ f[l] >= 0 /\ f[l] = borrowTimes(<<l, a>>, withFees) * loan(l, a, withFees)
  <2> DEFINE times == borrowTimes(<<l, a>>, withFees)
             lent  == loan(l, a, withFees)
  <2>1. f[l] = times * lent
    BY Zenon
  <2>2. times \in {0, 1, 2} /\ lent \in Nat
    BY <1>3
  <2> HIDE DEF f, times, lent
  <2>3. times * lent \in Nat
    BY <2>2
  <2>4. f[l] \in Int /\ f[l] >= 0
    BY <2>1, <2>3
  <2> QED  BY <2>1, <2>4, Zenon DEF times, lent
<1>5. Came(a, withFees) = SumFunction(f) /\ DOMAIN f = Lender
  BY Zenon DEF Came
<1>6. debtUnits(a) = SumFunction(g) /\ DOMAIN g = Lender
  BY Zenon DEF debtUnits
<1>7. \A l \in Lender : g[l] \in Int /\ g[l] = debtUnit(l, a)
  OBVIOUS
<1> HIDE DEF f, g
<1>8. /\ SumFunction(f) \in Int /\ SumFunction(f) >= 0
      /\ Lender = {} => SumFunction(f) = 0
      /\ \A l \in Lender : Lender = {l} => SumFunction(f) = f[l]
  BY <1>4, <1>5, LenderSums
<1>9. /\ Lender = {} => SumFunction(g) = 0
      /\ \A l \in Lender : Lender = {l} => SumFunction(g) = g[l]
  BY <1>6, <1>7, LenderSums
<1>10. CASE Lender = {}
  BY <1>2, <1>5, <1>6, <1>8, <1>9, <1>10
<1>11. ASSUME OneLender, NEW l \in Lender
       PROVE  /\ Came(a, withFees) >= borrowed
              /\ equityIn(a, withFees) = 0 => Came(a, withFees) = borrowed
  <2>1. Lender = {l}
    BY <1>11 DEF OneLender
  <2>2. Came(a, withFees) = borrowTimes(<<l, a>>, withFees) * loan(l, a, withFees)
    BY <1>4, <1>5, <1>8, <2>1
  <2>3. debtUnits(a) = debtUnit(l, a)
    BY <1>6, <1>7, <1>9, <2>1
  <2>4. borrowed = loan(l, a, withFees)
    BY <2>3 DEF debtOut, loan
  <2> DEFINE times  == borrowTimes(<<l, a>>, withFees)
             equity == equityIn(a, withFees)
             came   == Came(a, withFees)
             unit   == debtUnit(l, a)
  <2>5. /\ times \in {0, 1, 2} /\ came = times * borrowed /\ unit \in Nat /\ borrowed \in Nat
        /\ unit = 0 => borrowed = 0
        /\ unit > 0 /\ borrowed > 0 => times > 0
        /\ equity = 0 => times \in {0, 1}
    BY <1>2, <1>3, <2>2, <2>4
  <2> HIDE DEF times, equity, came, unit, borrowed
  <2>6. CASE borrowed = 0
    <3>1. came = 0
      BY <2>5, <2>6
    <3> QED  BY <2>6, <3>1 DEF came, equity
  <2>7. CASE borrowed > 0
    <3>1. times > 0
      BY <2>5, <2>7
    <3>2. came >= borrowed /\ (equity = 0 => came = borrowed)
      <4>1. CASE times = 1
        BY <2>5, <4>1
      <4>2. CASE times = 2
        <5>1. came = 2 * borrowed /\ equity # 0
          BY <2>5, <4>2
        <5> QED  BY <2>5, <5>1
      <4> QED  BY <2>5, <3>1, <4>1, <4>2
    <3> QED  BY <3>2 DEF came, equity
  <2> QED  BY <2>5, <2>6, <2>7
<1> QED  BY <1>2, <1>5, <1>8, <1>10, <1>11

\* What modules repay, and what the redeemer brings for it.
LEMMA RedeemSums ==
    ASSUME Amounts, NEW a \in Asset, NEW netFees \in Nat,
           \A l \in Lender : debtUnit(l, a) \in Nat
    PROVE  /\ Spent(a, netFees) \in Int /\ debtIn(a, netFees) \in Nat
           /\ OneLender /\ (\A l \in Lender : repayTimes(<<l, a>>, netFees) \in {0, 1}) =>
                Spent(a, netFees) <= debtIn(a, netFees)
<1> DEFINE f == [l \in Lender |-> repaidFor(<<l, a>>, netFees)]
           g == [l \in Lender |-> debtUnit(l, a)]
           owed == debtIn(a, netFees)
<1>1. owed \in Nat
  BY DebtUnitsSum, MulBounds DEF debtIn
<1>2. ASSUME NEW l \in Lender
      PROVE  /\ payment(l, a, netFees) \in Nat
             /\ repaidFor(<<l, a>>, netFees) \in Nat
             /\ repayTimes(<<l, a>>, netFees) \in {0, 1} =>
                  repaidFor(<<l, a>>, netFees) <= payment(l, a, netFees)
  <2> DEFINE x      == <<l, a>>
             times  == repayTimes(x, netFees)
             paid   == payment(l, a, netFees)
             offer  == offeredFor(x, netFees)
             repaid == repaidFor(x, netFees)
  <2>1. paid \in Nat
    BY MulBounds DEF payment
  <2>2. times \in {0, 1, 2}
    BY TimesCalled, Zenon DEF repayTimes
  <2>3. offer = times * paid
    BY DEF offeredFor
  <2>4. debt[x] \in Nat
    BY DEF Amounts, Position
  <2>5. repaid = offer \/ (repaid = debt[x] /\ ~(offer <= debt[x]))
    BY DEF repaidFor
  <2> HIDE DEF x, times, paid, offer, repaid
  <2>6. offer \in Nat /\ (times \in {0, 1} => offer <= paid)
    BY <2>1, <2>2, <2>3
  <2>7. repaid \in Nat /\ (times \in {0, 1} => repaid <= paid)
    BY <2>1, <2>4, <2>5, <2>6
  <2> QED  BY <2>1, <2>7 DEF x, times, paid, repaid
<1>3. \A l \in Lender : f[l] \in Int /\ f[l] = repaidFor(<<l, a>>, netFees)
  <2>1. \A l \in Lender : f[l] = repaidFor(<<l, a>>, netFees)
    BY Zenon
  <2> HIDE DEF f
  <2> QED  BY <1>2, <2>1
<1>4. Spent(a, netFees) = SumFunction(f) /\ DOMAIN f = Lender
  BY Zenon DEF Spent
<1>5. debtUnits(a) = SumFunction(g) /\ DOMAIN g = Lender
  BY Zenon DEF debtUnits
<1>6. \A l \in Lender : g[l] \in Int /\ g[l] = debtUnit(l, a)
  OBVIOUS
<1> HIDE DEF f, g
<1>7. /\ SumFunction(f) \in Int
      /\ Lender = {} => SumFunction(f) = 0
      /\ \A l \in Lender : Lender = {l} => SumFunction(f) = f[l]
  BY <1>3, <1>4, LenderSums
<1>8. \A l \in Lender : Lender = {l} => SumFunction(g) = g[l]
  BY <1>5, <1>6, LenderSums
<1>9. CASE Lender = {}
  BY <1>1, <1>4, <1>7, <1>9
<1>10. ASSUME OneLender, NEW l \in Lender, repayTimes(<<l, a>>, netFees) \in {0, 1}
       PROVE  Spent(a, netFees) <= owed
  <2>1. Lender = {l}
    BY <1>10 DEF OneLender
  <2>2. Spent(a, netFees) = repaidFor(<<l, a>>, netFees)
    BY <1>3, <1>4, <1>7, <2>1
  <2>3. debtUnits(a) = debtUnit(l, a)
    BY <1>5, <1>6, <1>8, <2>1
  <2>4. owed = payment(l, a, netFees)
    BY <2>3 DEF debtIn, payment
  <2> HIDE DEF owed
  <2> QED  BY <1>2, <1>10, <2>2, <2>4
<1> QED  BY <1>1, <1>4, <1>7, <1>9, <1>10

\* A balance covers a unit of so many CKTokens.
Covers(held, unit, supply) == unit * supply <= held * PreciseUnit

LEMMA CoversMore ==
    ASSUME NEW held \in Nat, NEW unit \in Nat, NEW supply \in Nat, Covers(held, unit, supply),
           NEW after \in Nat, NEW later \in Nat, NEW quantity \in Nat,
           later <= supply + quantity, after >= held + preciseMulCeil(unit, quantity)
    PROVE  Covers(after, unit, later)
<1> DEFINE in == preciseMulCeil(unit, quantity)
<1>1. in \in Nat /\ in * PreciseUnit >= unit * quantity /\ after >= held + in
  BY MulBounds
<1>2. PreciseUnit \in Nat
  BY PreciseUnitAssumption
<1> HIDE DEF in
<1>3. unit * later <= unit * supply + unit * quantity
  OBVIOUS
<1>4. after * PreciseUnit >= held * PreciseUnit + in * PreciseUnit
  BY <1>1, <1>2
<1> DEFINE p == unit * later
           q == unit * supply
           r == unit * quantity
           s == held * PreciseUnit
           t == in * PreciseUnit
           u == after * PreciseUnit
<1>5. /\ p \in Int /\ q \in Int /\ r \in Int /\ s \in Int /\ t \in Int /\ u \in Int
      /\ p <= q + r /\ u >= s + t /\ t >= r /\ q <= s
  BY <1>1, <1>2, <1>3, <1>4 DEF Covers
<1> HIDE DEF p, q, r, s, t, u
<1>6. p <= u
  BY <1>5
<1> QED  BY <1>6 DEF Covers, p, u

LEMMA CoversLess ==
    ASSUME NEW held \in Nat, NEW unit \in Nat, NEW supply \in Nat, Covers(held, unit, supply),
           NEW after \in Nat, NEW later \in Nat, NEW quantity \in Nat,
           later <= supply - quantity, after >= held - preciseMul(unit, quantity)
    PROVE  Covers(after, unit, later)
<1> DEFINE out == preciseMul(unit, quantity)
<1>1. out \in Nat /\ out * PreciseUnit <= unit * quantity /\ after >= held - out
  BY MulBounds
<1>2. PreciseUnit \in Nat
  BY PreciseUnitAssumption
<1> HIDE DEF out
<1>3. unit * later <= unit * supply - unit * quantity
  <2>1. supply - quantity \in Int /\ unit * later <= unit * (supply - quantity)
    OBVIOUS
  <2> QED  BY <2>1
<1>4. after * PreciseUnit >= held * PreciseUnit - out * PreciseUnit
  <2>1. after * PreciseUnit >= (held - out) * PreciseUnit
    BY <1>1, <1>2
  <2> QED  BY <1>1, <1>2, <2>1
<1> DEFINE p == unit * later
           q == unit * supply
           r == unit * quantity
           s == held * PreciseUnit
           t == out * PreciseUnit
           u == after * PreciseUnit
<1>5. /\ p \in Int /\ q \in Int /\ r \in Int /\ s \in Int /\ t \in Int /\ u \in Int
      /\ p <= q - r /\ u >= s - t /\ t <= r /\ q <= s
  BY <1>1, <1>2, <1>3, <1>4 DEF Covers
<1> HIDE DEF p, q, r, s, t, u
<1>6. p <= u
  BY <1>5
<1> QED  BY <1>6 DEF Covers, p, u

\* What the validation of DebtIssuanceModuleV2 ensures.
LEMMA CoversValidated ==
    ASSUME NEW unit \in Nat, NEW supply \in Nat, NEW after \in Nat, NEW later \in Nat,
           later <= supply, after >= preciseMulCeil(supply, unit)
    PROVE  Covers(after, unit, later)
<1> DEFINE need == preciseMulCeil(supply, unit)
<1>1. need \in Nat /\ need * PreciseUnit >= supply * unit /\ after >= need
  BY MulBounds
<1>2. PreciseUnit \in Nat
  BY PreciseUnitAssumption
<1> HIDE DEF need
<1>3. unit * later <= supply * unit
  OBVIOUS
<1>4. need * PreciseUnit <= after * PreciseUnit
  BY <1>1, <1>2
<1> DEFINE p == unit * later
           q == supply * unit
           r == need * PreciseUnit
           s == after * PreciseUnit
<1>5. /\ p \in Int /\ q \in Int /\ r \in Int /\ s \in Int
      /\ p <= q /\ r >= q /\ r <= s
  BY <1>1, <1>2, <1>3, <1>4
<1> HIDE DEF p, q, r, s
<1>6. p <= s
  BY <1>5
<1> QED  BY <1>6 DEF Covers, p, s

\* Before the issue, at the units that sync wrote.
LEMMA IssueKeepsCover ==
    ASSUME Amounts, Holdings, NEW quantity \in Nat, Issue(quantity)
    PROVE  /\ Holdings'
           /\ \A c \in Component :
                (c \in Asset => OneLender) /\ Covers(balance[c], equityUnit(c), totalSupply) =>
                  Covers(balance'[c], equityUnit(c), totalSupply')
<1>1. PICK withFees \in Nat, minted \in Nat : Issued(quantity, withFees, minted)
  BY IssueEffects
<1> DEFINE read == Read(Hooked, FALSE)
<1>2. /\ SyncUnits(Hooked, read)
      /\ totalSupply' = totalSupply + quantity + minted
      /\ quantity + minted <= withFees
      /\ balance' = [c \in Component |->
                       balance[c] + equityIn(c, withFees)
                         + (IF c \in Asset THEN Came(c, withFees) - debtOut(c, withFees) ELSE 0)]
      /\ \A c \in Component : balance'[c] >= 0
  BY <1>1, Zenon DEF Issued
<1>3. read \in [Position -> Nat]
  BY ReadRecords
<1> HIDE DEF read
<1>4. \A l \in Lender, a \in Asset : debtUnit(l, a) \in Nat
  BY <1>2, <1>3, DebtUnitTypes
<1>5. virtualUnit' \in [Component -> Nat]
  BY <1>2, SyncHoldings
<1>6. ASSUME NEW c \in Component
      PROVE  /\ equityUnit(c) \in Nat /\ balance[c] \in Nat /\ totalSupply \in Nat
             /\ equityIn(c, withFees) = preciseMulCeil(equityUnit(c), withFees)
             /\ equityIn(c, withFees) \in Nat
  BY <1>5, EquityUnitTypes, MulBounds DEF Amounts, Holdings, equityIn
<1>7. ASSUME NEW c \in Component
      PROVE  /\ balance'[c] \in Nat
             /\ (c \in Asset => OneLender) => balance'[c] >= balance[c] + equityIn(c, withFees)
  <2>1. balance'[c] = balance[c] + equityIn(c, withFees)
                        + (IF c \in Asset THEN Came(c, withFees) - debtOut(c, withFees) ELSE 0)
    BY <1>2
  <2>2. c \in Asset => /\ Came(c, withFees) \in Int /\ debtOut(c, withFees) \in Nat
                       /\ OneLender => Came(c, withFees) >= debtOut(c, withFees)
    BY <1>4, IssueSums
  <2>3. balance'[c] >= 0
    BY <1>2
  <2> QED  BY <1>6, <2>1, <2>2, <2>3
<1>8. Holdings'
  BY <1>2, <1>5, <1>7 DEF Holdings
<1>9. ASSUME NEW c \in Component, c \in Asset => OneLender,
             Covers(balance[c], equityUnit(c), totalSupply)
      PROVE  Covers(balance'[c], equityUnit(c), totalSupply')
  <2>1. balance'[c] \in Nat /\ balance'[c] >= balance[c] + preciseMulCeil(equityUnit(c), withFees)
    BY <1>6, <1>7, <1>9
  <2>2. totalSupply' \in Nat /\ totalSupply' <= totalSupply + withFees
    BY <1>2, <1>6
  <2> QED  BY <1>6, <1>9, <2>1, <2>2, CoversMore
<1> QED  BY <1>8, <1>9

LEMMA RedeemKeepsCover ==
    ASSUME Amounts, Holdings, NEW quantity \in Nat, Redeem(quantity)
    PROVE  /\ Holdings'
           /\ \A c \in Component :
                /\ c \in Asset => OneLender /\ (Validates \/ (LoansOnce /\ EquityFree))
                /\ Covers(balance[c], equityUnit(c), totalSupply)
                => Covers(balance'[c], equityUnit(c), totalSupply')
<1>1. PICK netFees \in Nat, minted \in Nat : Redeemed(quantity, netFees, minted)
  BY RedeemEffects
<1> DEFINE read == Read(Hooked, TRUE)
<1>2. /\ SyncUnits(Hooked, read)
      /\ totalSupply' = totalSupply - quantity + minted
      /\ quantity - minted >= netFees /\ quantity <= totalSupply /\ netFees <= quantity
      /\ balance' = [c \in Component |->
                       balance[c] - equityOut(c, netFees)
                         + (IF c \in Asset THEN debtIn(c, netFees) - Spent(c, netFees) ELSE 0)]
      /\ \A c \in Component : balance'[c] >= 0
      /\ \A c \in Component : IsValidOut(equityOut(c, netFees), c, totalSupply - netFees)
  BY <1>1, Zenon DEF Redeemed
<1>3. read \in [Position -> Nat]
  BY ReadRecords
<1> HIDE DEF read
<1>4. \A l \in Lender, a \in Asset : debtUnit(l, a) \in Nat
  BY <1>2, <1>3, DebtUnitTypes
<1>5. virtualUnit' \in [Component -> Nat]
  BY <1>2, SyncHoldings
<1>6. ASSUME NEW c \in Component
      PROVE  /\ equityUnit(c) \in Nat /\ balance[c] \in Nat /\ totalSupply \in Nat
             /\ equityOut(c, netFees) = preciseMul(equityUnit(c), netFees)
             /\ equityOut(c, netFees) \in Nat
  BY <1>5, EquityUnitTypes, MulBounds DEF Amounts, Holdings, equityOut
<1>7. ASSUME NEW c \in Component
      PROVE  /\ balance'[c] \in Nat
             /\ c \in Asset => Spent(c, netFees) \in Int /\ debtIn(c, netFees) \in Nat
             /\ balance'[c] = balance[c] - equityOut(c, netFees)
                                + (IF c \in Asset THEN debtIn(c, netFees) - Spent(c, netFees) ELSE 0)
  <2>1. balance'[c] = balance[c] - equityOut(c, netFees)
                        + (IF c \in Asset THEN debtIn(c, netFees) - Spent(c, netFees) ELSE 0)
    BY <1>2
  <2>2. c \in Asset => Spent(c, netFees) \in Int /\ debtIn(c, netFees) \in Nat
    BY <1>4, RedeemSums
  <2>3. balance'[c] >= 0
    BY <1>2
  <2> QED  BY <1>6, <2>1, <2>2, <2>3
<1>8. Holdings'
  BY <1>2, <1>5, <1>7 DEF Holdings
<1>9. totalSupply' \in Nat /\ totalSupply' <= totalSupply - netFees /\ totalSupply - netFees \in Nat
  BY <1>2 DEF Amounts
<1>10. ASSUME NEW c \in Component, Covers(balance[c], equityUnit(c), totalSupply),
              c \in Asset => Spent(c, netFees) <= debtIn(c, netFees)
       PROVE  Covers(balance'[c], equityUnit(c), totalSupply')
  <2>1. balance'[c] \in Nat /\ balance'[c] >= balance[c] - preciseMul(equityUnit(c), netFees)
    BY <1>6, <1>7, <1>10
  <2> QED  BY <1>6, <1>9, <1>10, <2>1, CoversLess
<1>11. ASSUME NEW a \in Asset, OneLender, Validates \/ (LoansOnce /\ EquityFree),
              Covers(balance[a], equityUnit(a), totalSupply)
       PROVE  Covers(balance'[a], equityUnit(a), totalSupply')
  <2>1. a \in Component
    BY LeverageAssumption
  <2>2. CASE \A l \in Lender : repayTimes(<<l, a>>, netFees) \in {0, 1}
    <3>1. Spent(a, netFees) <= debtIn(a, netFees)
      BY <1>4, <1>11, <2>2, RedeemSums
    <3> QED  BY <1>10, <1>11, <2>1, <3>1
  <2>3. CASE ~\A l \in Lender : repayTimes(<<l, a>>, netFees) \in {0, 1}
    <3>1. Validates
      <4>1. ASSUME LoansOnce, EquityFree, NEW l \in Lender
            PROVE  repayTimes(<<l, a>>, netFees) \in {0, 1}
        <5>1. <<l, a>> \in Position
          BY DEF Position
        <5> QED  BY <1>2, <4>1, <5>1, CalledOnce
      <4> QED  BY <1>11, <2>3, <4>1
    <3>2. equityOut(a, netFees) > 0
      <4>1. PICK l \in Lender : repayTimes(<<l, a>>, netFees) \notin {0, 1}
        BY <2>3
      <4>2. repayTimes(<<l, a>>, netFees) = Times(l, a, equityOut(a, netFees), debtIn(a, netFees))
        BY DEF repayTimes
      <4> DEFINE out == equityOut(a, netFees)
                 owed == debtIn(a, netFees)
      <4> HIDE DEF out, owed
      <4>3. ~(out > 0) => Times(l, a, out, owed) \in {0, 1}
        BY DEF Times
      <4> QED  BY <4>1, <4>2, <4>3 DEF out, owed
    <3>3. balance'[a] >= preciseMulCeil(totalSupply - netFees, equityUnit(a))
      BY <1>2, <2>1, <3>1, <3>2 DEF IsValidOut
    <3>4. balance'[a] \in Nat /\ equityUnit(a) \in Nat
      BY <1>6, <1>7, <2>1
    <3> QED  BY <1>9, <3>3, <3>4, CoversValidated
  <2> QED  BY <2>2, <2>3
<1> QED  BY <1>8, <1>10, <1>11

-----------------------------------------------------------------------------
(* The records stay behind the debt *)

LEMMA SyncBehind ==
    ASSUME Amounts, RecordsBehind, NEW L, NEW accrue, stored' = Read(L, accrue), debt' = debt
    PROVE  RecordsBehind'
<1>1. ASSUME NEW x \in Position
      PROVE  Read(L, accrue)[x] <= debt[x]
  <2>1. debt[x] \in Nat /\ stored[x] <= debt[x] /\ x \in Lender \X Asset
    BY DEF Amounts, RecordsBehind, Position
  <2> QED  BY <2>1 DEF Read
<1> QED  BY <1>1 DEF RecordsBehind

LEMMA TouchedBehind ==
    ASSUME Amounts, RecordsBehind, debt' \in [Position -> Nat],
           NEW l, NEW a, NEW b, TouchesMarkets(l, {a, b}),
           \A x \in Position : x # <<l, a>> => debt'[x] = debt[x]
    PROVE  RecordsBehind'
<1>1. ASSUME NEW x \in Position
      PROVE  stored'[x] <= debt'[x]
  <2>1. stored'[x] = IF x[1] = l /\ x[2] \in {a, b} THEN debt'[x] ELSE stored[x]
    BY DEF TouchesMarkets, Position
  <2>2. debt'[x] \in Nat /\ stored[x] <= debt[x]
    BY DEF RecordsBehind
  <2>3. x = <<x[1], x[2]>>
    BY DEF Position
  <2> QED  BY <2>1, <2>2, <2>3
<1> QED  BY <1>1 DEF RecordsBehind

LEMMA LeverageBehind ==
    ASSUME Amounts, RecordsBehind, LeverageNext
    PROVE  RecordsBehind'
<1>1. debt' \in [Position -> Nat]
  BY LeverageRecorded DEF Recorded
<1>2. ASSUME NEW l \in Lender, NEW accrue, Sync(l, accrue)
      PROVE  RecordsBehind'
  BY <1>2, SyncBehind DEF Sync, SyncRecords
<1>3. ASSUME NEW l \in Lender, NEW borrowed \in Asset, NEW collateral, NEW units, NEW minted,
             NEW left, Lever(l, borrowed, collateral, units, minted, left)
      PROVE  RecordsBehind'
  <2> DEFINE owed == debt[<<l, borrowed>>] + preciseMul(units, totalSupply)
  <2>1. /\ debt' = [debt EXCEPT ![<<l, borrowed>>] = owed]
        /\ TouchesMarkets(l, {borrowed, collateral})
    BY <1>3, Zenon DEF Lever
  <2> HIDE DEF owed
  <2>2. \A x \in Position : x # <<l, borrowed>> => debt'[x] = debt[x]
    BY <2>1 DEF Amounts
  <2> QED  BY <1>1, <2>1, <2>2, TouchedBehind
<1>4. ASSUME NEW l \in Lender, NEW borrowed \in Asset, NEW collateral, NEW burned, NEW left,
             NEW given, NEW paid, Repays(l, collateral, borrowed, burned, left, given, paid)
      PROVE  RecordsBehind'
  <2> DEFINE owed == debt[<<l, borrowed>>] - paid
  <2>1. /\ debt' = [debt EXCEPT ![<<l, borrowed>>] = owed]
        /\ TouchesMarkets(l, {borrowed, collateral})
    BY <1>4, Zenon DEF Repays
  <2> HIDE DEF owed
  <2>2. \A x \in Position : x # <<l, borrowed>> => debt'[x] = debt[x]
    BY <2>1 DEF Amounts
  <2> QED  BY <1>1, <2>1, <2>2, TouchedBehind
<1>5. ASSUME NEW l \in Lender, NEW borrowed \in Asset, NEW collateral, NEW units, NEW burned,
             NEW left, NEW given,
             \/ Delever(l, collateral, borrowed, units, burned, left, given)
             \/ DeleverToZeroBorrowBalance(l, collateral, borrowed, units, burned, left, given)
      PROVE  RecordsBehind'
  <2>1. \E paid : Repays(l, collateral, borrowed, burned, left, given, paid)
    BY <1>5, Zenon DEF Delever, DeleverToZeroBorrowBalance
  <2> QED  BY <1>4, <2>1, Zenon
<1> QED  BY <1>2, <1>3, <1>5, ZenonT(60) DEF LeverageNext

LEMMA LenderBehind ==
    ASSUME Amounts, RecordsBehind, LenderNext
    PROVE  RecordsBehind'
<1>1. debt' \in [Position -> Nat]
  BY LenderRecorded DEF Recorded
<1>2. ASSUME NEW l \in Lender, NEW a \in Asset, NEW amount \in Interest,
             InterestAccrues(l, a, amount)
      PROVE  RecordsBehind'
  <2>1. /\ debt' = [debt EXCEPT ![<<l, a>>] = @ + amount] /\ amount \in Nat
        /\ stored' = IF l \in Compound THEN stored
                     ELSE [stored EXCEPT ![<<l, a>>] = debt'[<<l, a>>]]
    BY <1>2, LeveragedTokenAssumption DEF InterestAccrues
  <2>2. ASSUME NEW x \in Position
        PROVE  stored'[x] <= debt'[x]
    <3>1. debt[x] \in Nat /\ stored[x] \in Nat /\ stored[x] <= debt[x] /\ debt'[x] \in Nat
      BY <1>1 DEF Amounts, RecordsBehind
    <3>2. debt'[x] = IF x = <<l, a>> THEN debt[x] + amount ELSE debt[x]
      BY <2>1 DEF Amounts
    <3>3. stored'[x] = stored[x] \/ (x = <<l, a>> /\ stored'[x] = debt'[x])
      BY <2>1 DEF Amounts
    <3> QED  BY <2>1, <3>1, <3>2, <3>3
  <2> QED  BY <2>2 DEF RecordsBehind
<1>3. ASSUME NEW l \in Lender, NEW a \in Asset, MarketAccrues(l, a)
      PROVE  RecordsBehind'
  <2>1. stored' = [stored EXCEPT ![<<l, a>>] = debt[<<l, a>>]] /\ debt' = debt
    BY <1>3 DEF MarketAccrues
  <2> QED  BY <2>1 DEF Amounts, RecordsBehind
<1>4. ASSUME NEW l \in Lender, NEW a \in Asset, NEW repaid, NEW seized, NEW collateral,
             Liquidate(l, a, repaid, collateral, seized)
      PROVE  RecordsBehind'
  <2> DEFINE owed == debt[<<l, a>>] - repaid
  <2>1. debt' = [debt EXCEPT ![<<l, a>>] = owed] /\ TouchesMarkets(l, {a, collateral})
    BY <1>4, Zenon DEF Liquidate
  <2> HIDE DEF owed
  <2>2. \A x \in Position : x # <<l, a>> => debt'[x] = debt[x]
    BY <2>1 DEF Amounts
  <2> QED  BY <1>1, <2>1, <2>2, TouchedBehind
<1> QED  BY <1>2, <1>3, <1>4, ZenonT(60) DEF LenderNext

LEMMA IssuanceBehind ==
    ASSUME Amounts, RecordsBehind, IssuanceNext
    PROVE  RecordsBehind'
<1>1. debt' \in [Position -> Nat]
  BY IssuanceRecorded DEF Recorded
<1>2. ASSUME NEW quantity \in Nat, Issue(quantity)
      PROVE  RecordsBehind'
  <2>1. PICK withFees \in Nat, minted \in Nat : Issued(quantity, withFees, minted)
    BY <1>2, IssueEffects
  <2>2. ASSUME NEW x \in Position
        PROVE  stored'[x] <= debt'[x]
    <3> DEFINE times == borrowTimes(x, withFees)
               lent  == loan(x[1], x[2], withFees)
    <3>1. /\ debt'[x] = debt[x] + times * lent
          /\ stored'[x] = IF times > 0 THEN debt'[x] ELSE stored[x]
      BY <2>1, Zenon DEF Issued, Read
    <3>2. times \in {0, 1, 2}
      BY TimesCalled, Zenon DEF borrowTimes
    <3>3. debt[x] \in Nat /\ stored[x] \in Nat /\ stored[x] <= debt[x] /\ debt'[x] \in Nat
      BY <1>1 DEF Amounts, RecordsBehind
    <3>4. lent \in Int
      <4>1. SyncUnits(Hooked, Read(Hooked, FALSE))
        BY <2>1, Zenon DEF Issued
      <4>2. debtUnit(x[1], x[2]) \in Nat
        BY <4>1, ReadRecords, DebtUnitTypes DEF Position
      <4> QED  BY <4>2, MulBounds DEF loan
    <3> HIDE DEF times, lent
    <3>5. times = 0 => debt'[x] = debt[x]
      BY <3>1, <3>3, <3>4
    <3> QED  BY <3>1, <3>2, <3>3, <3>5
  <2> QED  BY <2>2 DEF RecordsBehind
<1>3. ASSUME NEW quantity \in Nat, Redeem(quantity)
      PROVE  RecordsBehind'
  <2>1. PICK netFees \in Nat, minted \in Nat : Redeemed(quantity, netFees, minted)
    BY <1>3, RedeemEffects
  <2>2. ASSUME NEW x \in Position
        PROVE  stored'[x] <= debt'[x]
    <3> DEFINE times  == repayTimes(x, netFees)
               repaid == repaidFor(x, netFees)
    <3>1. /\ debt'[x] = debt[x] - repaid
          /\ stored'[x] = IF times > 0 THEN debt'[x] ELSE Read(Hooked, TRUE)[x]
      BY <2>1, Zenon DEF Redeemed
    <3>2. times \in {0, 1, 2}
      BY TimesCalled, Zenon DEF repayTimes
    <3>3. debt[x] \in Nat /\ stored[x] \in Nat /\ stored[x] <= debt[x] /\ debt'[x] \in Nat
      BY <1>1 DEF Amounts, RecordsBehind
    <3>4. times = 0 => repaid = 0
      <4>1. payment(x[1], x[2], netFees) \in Int
        <5>1. SyncUnits(Hooked, Read(Hooked, TRUE))
          BY <2>1, Zenon DEF Redeemed
        <5>2. debtUnit(x[1], x[2]) \in Nat
          BY <5>1, ReadRecords, DebtUnitTypes DEF Position
        <5> QED  BY <5>2, MulBounds DEF payment
      <4> DEFINE paid == payment(x[1], x[2], netFees)
      <4> HIDE DEF times, paid
      <4>2. times = 0 => times * paid = 0
        BY <4>1 DEF paid
      <4>3. times = 0 => offeredFor(x, netFees) = 0
        BY <4>2 DEF offeredFor, times, paid
      <4> QED  BY <3>3, <4>3 DEF repaidFor
    <3>5. Read(Hooked, TRUE)[x] <= debt[x]
      <4>1. x \in Lender \X Asset
        BY DEF Position
      <4> QED  BY <3>3, <4>1 DEF Read
    <3> HIDE DEF times, repaid
    <3>6. times = 0 => debt'[x] = debt[x]
      BY <3>1, <3>3, <3>4
    <3> DEFINE read == Read(Hooked, TRUE)[x]
    <3>7. read \in Nat /\ read <= debt[x] /\ (~(times > 0) => stored'[x] = read)
          /\ (times > 0 => stored'[x] = debt'[x])
      BY <3>1, <3>5, ReadRecords
    <3> HIDE DEF read
    <3>8. CASE times > 0
      BY <3>3, <3>7, <3>8
    <3>9. CASE times = 0
      BY <3>3, <3>6, <3>7, <3>9
    <3> QED  BY <3>2, <3>8, <3>9
  <2> QED  BY <2>2 DEF RecordsBehind
<1> QED  BY <1>2, <1>3, LeveragedTokenAssumption DEF IssuanceNext

LEMMA BehindStep ==
    ASSUME Amounts, RecordsBehind, [Next]_leveragedVars
    PROVE  RecordsBehind'
<1>1. ASSUME UNCHANGED debtVars
      PROVE  RecordsBehind'
  BY <1>1 DEF debtVars, RecordsBehind
<1>2. CASE ReceiveNext \/ SettingNext
  BY <1>1, <1>2, ReceiveFrame, SettingFrame
<1>3. ASSUME NEW l, SyncBeforeRemoval(l), debt' = debt
      PROVE  RecordsBehind'
  BY <1>1, <1>3, SyncBehind DEF SyncBeforeRemoval, SyncRecords, debtVars
<1>4. CASE AssetNext
  <2>1. debt' = debt
    BY <1>4, AssetFrame
  <2> QED
    BY <1>1, <1>3, <1>4, <2>1
    DEF AssetNext, AddCollateralAsset, AddBorrowAsset, RemoveCollateralAsset, RemoveBorrowAsset
<1>5. ASSUME NEW l \in Lender, RemoveLender(l)
      PROVE  RecordsBehind'
  BY <1>5, SyncBehind DEF RemoveLender, DisableAssets, SyncRecords
<1>6. CASE InitializeNext
  BY <1>1, <1>6 DEF InitializeNext, InitializeLender
<1>7. CASE ModuleNext
  BY <1>1, <1>5, <1>7 DEF ModuleNext, AddModule, RegisterToModule, RemoveIssuance
<1>8. ASSUME NEW l, NEW on, ControllerSets(l, on)
      PROVE  RecordsBehind'
  BY <1>1, <1>8 DEF ControllerSets
<1>9. CASE UNCHANGED leveragedVars
  BY <1>1, <1>9 DEF leveragedVars
<1> QED
  BY <1>2, <1>4, <1>6, <1>7, <1>8, <1>9, IssuanceBehind, LeverageBehind, LenderBehind DEF Next

-----------------------------------------------------------------------------
(* Debt stands on the token's books *)

\* What is owed is in the lender's records, which sync reads, and in a debt unit.
Booked(x) == debt[x] > 0 => stored[x] > 0 /\ externalUnit[x] < 0

BooksInv == \A x \in Position : Booked(x)

\* A debt unit that is not zero is not rounded away when it is stored.
LEMMA NegativeStored ==
    ASSUME NEW unit \in Int, unit < 0, positionMultiplier \in Nat \ {0}
    PROVE  conservativePreciseDiv(unit, positionMultiplier) < 0
<1>1. unit * PreciseUnit \in Int /\ unit * PreciseUnit < 0
  BY PreciseUnitAssumption
<1> QED  BY <1>1, FloorSign, ConservativeDiv

\* Rounded up, a debt has a unit.
LEMMA BorrowUnitOwed ==
    ASSUME totalSupply \in Nat \ {0}, NEW owed \in [Position -> Nat],
           NEW l \in Lender, NEW a \in Asset, owed[<<l, a>>] > 0
    PROVE  getBorrowPosition(l, a, owed) \in Int /\ getBorrowPosition(l, a, owed) < 0
<1> DEFINE d == owed[<<l, a>>]
<1>1. d \in Nat /\ d > 0
  BY DEF Position
<1>2. d * PreciseUnit - 1 \in Nat
  BY <1>1, PreciseUnitAssumption
<1>3. (d * PreciseUnit - 1) \div totalSupply \in Nat
  BY <1>2, FloorBounds, FloorSign
<1> QED  BY <1>1, <1>3 DEF getBorrowPosition, preciseDivCeil

\* What sync leaves of the debt units of what is owed.
LEMMA SyncedBooks ==
    ASSUME Amounts, NEW L, NEW owed \in [Position -> Nat], SyncUnits(L, owed),
           NEW x \in Position, owed[x] > 0, externalUnit[x] < 0
    PROVE  externalUnit'[x] < 0
<1>1. x[1] \in Lender /\ x[2] \in Asset /\ x = <<x[1], x[2]>>
  BY DEF Position
<1>2. CASE totalSupply = 0
  BY <1>2 DEF SyncUnits
<1>3. CASE totalSupply # 0
  <2> DEFINE unit == getBorrowPosition(x[1], x[2], owed)
  <2>1. unit \in Int /\ unit < 0
    BY <1>1, <1>3, BorrowUnitOwed DEF Amounts
  <2>2. externalUnit'[x] = IF x \in SyncedDebt(L) THEN Written(externalUnit[x], unit)
                           ELSE externalUnit[x]
    BY <1>3 DEF SyncUnits, Position
  <2> HIDE DEF unit
  <2>3. conservativePreciseDiv(unit, positionMultiplier) < 0
    BY <2>1, NegativeStored DEF Amounts
  <2> QED  BY <2>2, <2>3 DEF Written
<1> QED  BY <1>2, <1>3 DEF Amounts

LEMMA ReadOwed ==
    ASSUME Amounts, BooksInv, NEW L, NEW accrue, NEW x \in Position, debt[x] > 0
    PROVE  Read(L, accrue)[x] > 0
  BY DEF Read, BooksInv, Booked, Position

LEMMA SyncBooks ==
    ASSUME Amounts, BooksInv, NEW L, NEW accrue, SyncRecords(L, accrue), debt' = debt
    PROVE  BooksInv'
<1>1. Read(L, accrue) \in [Position -> Nat]
  BY ReadRecords
<1>2. ASSUME NEW x \in Position, debt[x] > 0
      PROVE  stored'[x] > 0 /\ externalUnit'[x] < 0
  <2>1. Read(L, accrue)[x] > 0 /\ externalUnit[x] < 0
    BY <1>2, ReadOwed DEF BooksInv, Booked
  <2> QED  BY <1>1, <2>1, SyncedBooks DEF SyncRecords
<1> QED  BY <1>2 DEF BooksInv, Booked

\* A lever or delever writes the unit of the debt it changed from the new record.
LEMMA LeverBooks ==
    ASSUME Amounts, BooksInv, NEW l \in Lender, NEW collateral \in Asset,
           NEW borrowed \in Asset, NEW units \in LeverUnits, NEW given,
           IsLeverable(l, collateral, borrowed, preciseMul(units, totalSupply)),
           debt' \in [Position -> Nat], TouchesMarkets(l, {borrowed, collateral}),
           \A x \in Position : x # <<l, borrowed>> => debt'[x] = debt[x],
           UpdateLeverPositions(given, l, collateral, borrowed)
    PROVE  BooksInv'
<1>1. totalSupply \in Nat \ {0}
  BY SupplyIsPositive, LeveragedTokenAssumption DEF IsLeverable
<1>2. stored' \in [Position -> Nat]
  BY TouchedRecords
<1> DEFINE unit == getBorrowPosition(l, borrowed, stored')
           new  == conservativePreciseDiv(unit, positionMultiplier)
<1>3. externalUnit' = [externalUnit EXCEPT ![<<l, borrowed>>] = new]
  BY Zenon DEF UpdateLeverPositions
<1>4. stored'[<<l, borrowed>>] > 0 => unit \in Int /\ unit < 0
  BY <1>1, <1>2, BorrowUnitOwed
<1> HIDE DEF unit
<1>5. stored'[<<l, borrowed>>] > 0 => new < 0
  BY <1>4, NegativeStored DEF Amounts
<1> HIDE DEF new
<1>6. ASSUME NEW x \in Position, debt'[x] > 0
      PROVE  stored'[x] > 0 /\ externalUnit'[x] < 0
  <2>1. stored'[x] = IF x[1] = l /\ x[2] \in {borrowed, collateral} THEN debt'[x] ELSE stored[x]
    BY DEF TouchesMarkets, Position
  <2>2. CASE x = <<l, borrowed>>
    BY <1>3, <1>5, <1>6, <2>1, <2>2 DEF Amounts
  <2>3. CASE x # <<l, borrowed>>
    <3>1. debt[x] > 0
      BY <1>6, <2>3
    <3>2. stored[x] > 0 /\ externalUnit[x] < 0
      BY <3>1 DEF BooksInv, Booked
    <3>3. externalUnit'[x] = externalUnit[x]
      BY <1>3, <2>3 DEF Amounts
    <3> QED  BY <1>6, <2>1, <3>2, <3>3
  <2> QED  BY <2>2, <2>3
<1> QED  BY <1>6 DEF BooksInv, Booked

LEMMA LeverageBooks ==
    ASSUME Amounts, BooksInv, LeverageNext
    PROVE  BooksInv'
<1>1. debt' \in [Position -> Nat]
  BY LeverageRecorded DEF Recorded
<1>2. ASSUME NEW l \in Lender, NEW accrue, Sync(l, accrue)
      PROVE  BooksInv'
  BY <1>2, SyncBooks DEF Sync
<1>3. ASSUME NEW l \in Lender, NEW borrowed \in Asset, NEW collateral \in Asset,
             NEW units \in LeverUnits, NEW minted, NEW left,
             Lever(l, borrowed, collateral, units, minted, left)
      PROVE  BooksInv'
  <2> DEFINE owed == debt[<<l, borrowed>>] + preciseMul(units, totalSupply)
  <2>1. /\ IsLeverable(l, collateral, borrowed, preciseMul(units, totalSupply))
        /\ debt' = [debt EXCEPT ![<<l, borrowed>>] = owed]
        /\ TouchesMarkets(l, {borrowed, collateral})
        /\ UpdateLeverPositions(virtualUnit, l, collateral, borrowed)
    BY <1>3, Zenon DEF Lever
  <2> HIDE DEF owed
  <2>2. \A x \in Position : x # <<l, borrowed>> => debt'[x] = debt[x]
    BY <2>1 DEF Amounts
  <2> QED  BY <1>1, <2>1, <2>2, LeverBooks
<1>4. ASSUME NEW l \in Lender, NEW borrowed \in Asset, NEW collateral \in Asset,
             NEW units \in LeverUnits, NEW burned, NEW left, NEW given, NEW paid, NEW new,
             IsLeverable(l, collateral, borrowed, preciseMul(units, totalSupply)),
             Repays(l, collateral, borrowed, burned, left, given, paid),
             UpdateLeverPositions(new, l, collateral, borrowed)
      PROVE  BooksInv'
  <2> DEFINE owed == debt[<<l, borrowed>>] - paid
  <2>1. /\ debt' = [debt EXCEPT ![<<l, borrowed>>] = owed]
        /\ TouchesMarkets(l, {borrowed, collateral})
    BY <1>4, Zenon DEF Repays
  <2> HIDE DEF owed
  <2>2. \A x \in Position : x # <<l, borrowed>> => debt'[x] = debt[x]
    BY <2>1 DEF Amounts
  <2> QED  BY <1>1, <1>4, <2>1, <2>2, LeverBooks
<1>5. ASSUME NEW l \in Lender, NEW borrowed \in Asset, NEW collateral \in Asset,
             NEW units \in LeverUnits, NEW burned, NEW left, NEW given,
             \/ Delever(l, collateral, borrowed, units, burned, left, given)
             \/ DeleverToZeroBorrowBalance(l, collateral, borrowed, units, burned, left, given)
      PROVE  BooksInv'
  <2>1. /\ IsLeverable(l, collateral, borrowed, preciseMul(units, totalSupply))
        /\ \E paid : Repays(l, collateral, borrowed, burned, left, given, paid)
        /\ \E new : UpdateLeverPositions(new, l, collateral, borrowed)
    BY <1>5, Zenon DEF Delever, DeleverToZeroBorrowBalance
  <2> QED  BY <1>4, <2>1, Zenon
<1> QED  BY <1>2, <1>3, <1>5, ZenonT(60) DEF LeverageNext

LEMMA LenderBooks ==
    ASSUME Amounts, BooksInv, LenderNext
    PROVE  BooksInv'
<1>1. debt' \in [Position -> Nat] /\ externalUnit' = externalUnit
  BY LenderRecorded, LenderFrame DEF Recorded
<1>2. ASSUME NEW l \in Lender, NEW a \in Asset, NEW amount \in Interest,
             InterestAccrues(l, a, amount)
      PROVE  BooksInv'
  <2>1. /\ debt[<<l, a>>] > 0 /\ debt' = [debt EXCEPT ![<<l, a>>] = @ + amount]
        /\ stored' = IF l \in Compound THEN stored
                     ELSE [stored EXCEPT ![<<l, a>>] = debt'[<<l, a>>]]
        /\ amount \in Nat
    BY <1>2, LeveragedTokenAssumption DEF InterestAccrues
  <2>2. ASSUME NEW x \in Position, debt'[x] > 0
        PROVE  stored'[x] > 0 /\ externalUnit'[x] < 0
    <3>1. debt[x] > 0
      BY <2>1, <2>2 DEF Amounts, Position
    <3>2. stored[x] > 0 /\ externalUnit[x] < 0
      BY <3>1 DEF BooksInv, Booked
    <3>3. stored'[x] = stored[x] \/ stored'[x] = debt'[x]
      BY <2>1 DEF Amounts
    <3> QED  BY <1>1, <2>2, <3>2, <3>3
  <2> QED  BY <2>2 DEF BooksInv, Booked
<1>3. ASSUME NEW l \in Lender, NEW a \in Asset, MarketAccrues(l, a)
      PROVE  BooksInv'
  <2>1. stored' = [stored EXCEPT ![<<l, a>>] = debt[<<l, a>>]] /\ debt' = debt
    BY <1>3 DEF MarketAccrues
  <2> QED  BY <1>1, <2>1 DEF Amounts, BooksInv, Booked
<1>4. ASSUME NEW l \in Lender, NEW a \in Asset, NEW repaid \in Seizures, NEW seized,
             NEW collateral, Liquidate(l, a, repaid, collateral, seized)
      PROVE  BooksInv'
  <2>1. /\ debt' = [debt EXCEPT ![<<l, a>>] = @ - repaid] /\ repaid \in Nat
        /\ TouchesMarkets(l, {a, collateral})
    BY <1>4, LeveragedTokenAssumption DEF Liquidate
  <2>2. ASSUME NEW x \in Position, debt'[x] > 0
        PROVE  stored'[x] > 0 /\ externalUnit'[x] < 0
    <3>1. debt[x] > 0
      BY <2>1, <2>2 DEF Amounts, Position
    <3>2. stored[x] > 0 /\ externalUnit[x] < 0
      BY <3>1 DEF BooksInv, Booked
    <3>3. stored'[x] = stored[x] \/ stored'[x] = debt'[x]
      BY <2>1 DEF TouchesMarkets, Position
    <3> QED  BY <1>1, <2>2, <3>2, <3>3
  <2> QED  BY <2>2 DEF BooksInv, Booked
<1> QED  BY <1>2, <1>3, <1>4, ZenonT(60) DEF LenderNext

\* A lender is called for a component in which the token has a debt unit.
LEMMA CalledHasUnit ==
    ASSUME Amounts, externalUnit' \in [Position -> Int], NEW x \in Position,
           externalUnit'[x] <= 0, NEW equity, NEW owed, Times(x[1], x[2], equity, owed) > 0
    PROVE  externalUnit'[x] < 0
<1>1. IsCalled(x[1], x[2])
  BY DEF Times
<1>2. x = <<x[1], x[2]>>
  BY DEF Position
<1>3. CASE externalUnit'[x] = 0
  <2>1. conservativePreciseMul(0, positionMultiplier) = 0
    <3>1. 0 * positionMultiplier = 0 /\ 0 \div PreciseUnit = 0
      BY FloorSign, PreciseUnitAssumption DEF Amounts
    <3> QED  BY <3>1, ConservativeMul DEF Amounts
  <2>2. debtUnit(x[1], x[2]) = 0
    BY <1>2, <1>3, <2>1 DEF debtUnit, getExternalPositionRealUnit
  <2> QED  BY <1>1, <2>2 DEF IsCalled
<1> QED  BY <1>3

LEMMA IssuanceBooks ==
    ASSUME Amounts, BooksInv, IssuanceNext
    PROVE  BooksInv'
<1>1. /\ debt' \in [Position -> Nat] /\ externalUnit' \in [Position -> Int]
      /\ \A x \in Position : externalUnit'[x] <= 0
  BY IssuanceRecorded DEF Recorded
\* A position whose lender was not called keeps its debt, and sync read its record.
<1>2. ASSUME NEW accrue, SyncUnits(Hooked, Read(Hooked, accrue)),
             NEW x \in Position, debt'[x] > 0, NEW times \in {0, 1, 2},
             times > 0 => externalUnit'[x] < 0,
             times = 0 => debt'[x] = debt[x],
             stored'[x] = IF times > 0 THEN debt'[x] ELSE Read(Hooked, accrue)[x]
      PROVE  Booked(x)'
  <2>1. CASE times > 0
    BY <1>2, <2>1 DEF Booked
  <2>2. CASE times = 0
    <3>1. debt[x] > 0
      BY <1>2, <2>2
    <3>2. Read(Hooked, accrue)[x] > 0 /\ externalUnit[x] < 0
      BY <3>1, ReadOwed DEF BooksInv, Booked
    <3>3. externalUnit'[x] < 0
      BY <1>2, <3>2, ReadRecords, SyncedBooks
    <3>4. stored'[x] = Read(Hooked, accrue)[x]
      BY <1>2, <2>2
    <3> QED  BY <3>2, <3>3, <3>4, Zenon DEF Booked
  <2> QED  BY <1>2, <2>1, <2>2
<1>3. ASSUME NEW quantity \in Nat, Issue(quantity), NEW x \in Position, debt'[x] > 0
      PROVE  Booked(x)'
  <2>1. PICK withFees \in Nat, minted \in Nat : Issued(quantity, withFees, minted)
    BY <1>3, IssueEffects
  <2> DEFINE times == borrowTimes(x, withFees)
             lent  == loan(x[1], x[2], withFees)
  <2>2. /\ SyncUnits(Hooked, Read(Hooked, FALSE))
        /\ debt'[x] = debt[x] + times * lent
        /\ stored'[x] = IF times > 0 THEN debt'[x] ELSE Read(Hooked, FALSE)[x]
    BY <2>1, Zenon DEF Issued
  <2>3. times \in {0, 1, 2}
    BY TimesCalled, Zenon DEF borrowTimes
  <2>4. times > 0 => externalUnit'[x] < 0
    BY <1>1, CalledHasUnit DEF borrowTimes
  <2>5. lent \in Int
    <3>1. debtUnit(x[1], x[2]) \in Nat
      BY <2>2, ReadRecords, DebtUnitTypes DEF Position
    <3> QED  BY <3>1, MulBounds DEF loan
  <2> HIDE DEF times, lent
  <2>6. times = 0 => debt'[x] = debt[x]
    <3>1. debt[x] \in Nat
      BY DEF Amounts
    <3>2. 0 * lent = 0
      BY <2>5
    <3> QED  BY <2>2, <3>1, <3>2
  <2> QED  BY <1>2, <1>3, <2>2, <2>3, <2>4, <2>6
<1>4. ASSUME NEW quantity \in Nat, Redeem(quantity), NEW x \in Position, debt'[x] > 0
      PROVE  Booked(x)'
  <2>1. PICK netFees \in Nat, minted \in Nat : Redeemed(quantity, netFees, minted)
    BY <1>4, RedeemEffects
  <2> DEFINE times  == repayTimes(x, netFees)
             paid   == payment(x[1], x[2], netFees)
             repaid == repaidFor(x, netFees)
  <2>2. /\ SyncUnits(Hooked, Read(Hooked, TRUE))
        /\ debt'[x] = debt[x] - repaid
        /\ stored'[x] = IF times > 0 THEN debt'[x] ELSE Read(Hooked, TRUE)[x]
    BY <2>1, Zenon DEF Redeemed
  <2>3. times \in {0, 1, 2}
    BY TimesCalled, Zenon DEF repayTimes
  <2>4. times > 0 => externalUnit'[x] < 0
    BY <1>1, CalledHasUnit DEF repayTimes
  <2>5. paid \in Int
    <3>1. debtUnit(x[1], x[2]) \in Nat
      BY <2>2, ReadRecords, DebtUnitTypes DEF Position
    <3> QED  BY <3>1, MulBounds DEF payment
  <2>6. times = 0 => repaid = 0
    <3>1. debt[x] \in Nat
      BY DEF Amounts
    <3> HIDE DEF times, paid
    <3>2. times = 0 => times * paid = 0
      BY <2>5
    <3>3. times = 0 => offeredFor(x, netFees) = 0
      BY <3>2 DEF offeredFor, times, paid
    <3> QED  BY <3>1, <3>3 DEF repaidFor
  <2> HIDE DEF times, paid, repaid
  <2>7. times = 0 => debt'[x] = debt[x]
    BY <2>2, <2>6 DEF Amounts
  <2> QED  BY <1>2, <1>4, <2>2, <2>3, <2>4, <2>7
<1>5. ASSUME NEW x \in Position, ~(debt'[x] > 0)
      PROVE  Booked(x)'
  BY <1>5 DEF Booked
<1> QED  BY <1>3, <1>4, <1>5, LeveragedTokenAssumption DEF IssuanceNext, BooksInv

LEMMA BooksStep ==
    ASSUME Amounts, BooksInv, [Next]_leveragedVars
    PROVE  BooksInv'
<1>1. ASSUME UNCHANGED debtVars
      PROVE  BooksInv'
  BY <1>1 DEF debtVars, BooksInv, Booked
<1>2. CASE ReceiveNext \/ SettingNext
  BY <1>1, <1>2, ReceiveFrame, SettingFrame
<1>3. ASSUME NEW l, SyncBeforeRemoval(l), debt' = debt
      PROVE  BooksInv'
  BY <1>1, <1>3, SyncBooks DEF SyncBeforeRemoval, debtVars
<1>4. CASE AssetNext
  <2>1. debt' = debt
    BY <1>4, AssetFrame
  <2> QED
    BY <1>1, <1>3, <1>4, <2>1
    DEF AssetNext, AddCollateralAsset, AddBorrowAsset, RemoveCollateralAsset, RemoveBorrowAsset
<1>5. ASSUME NEW l \in Lender, RemoveLender(l)
      PROVE  BooksInv'
  BY <1>5, SyncBooks DEF RemoveLender, DisableAssets
<1>6. CASE InitializeNext
  BY <1>1, <1>6 DEF InitializeNext, InitializeLender
<1>7. CASE ModuleNext
  BY <1>1, <1>5, <1>7 DEF ModuleNext, AddModule, RegisterToModule, RemoveIssuance
<1>8. ASSUME NEW l, NEW on, ControllerSets(l, on)
      PROVE  BooksInv'
  BY <1>1, <1>8 DEF ControllerSets
<1>9. CASE UNCHANGED leveragedVars
  BY <1>1, <1>9 DEF leveragedVars
<1> QED
  BY <1>2, <1>4, <1>6, <1>7, <1>8, <1>9, IssuanceBooks, LeverageBooks, LenderBooks DEF Next

\* Whatever is borrowed for the token stands in a debt unit of it: through rounding,
\* interest, liquidations, a supply redeemed to zero, and the removal of assets and
\* modules with their lists.
THEOREM DebtStaysOnBooks == Spec => []DebtOnBooks
<1>1. Init => Amounts /\ BooksInv
  BY AmountsInit DEF Init, BooksInv, Booked, Zero, Position
<1>2. Amounts /\ BooksInv /\ [Next /\ Bounded]_leveragedVars => (Amounts /\ BooksInv)'
  BY AmountsStep, BooksStep
<1>3. BooksInv => DebtOnBooks
  BY DEF BooksInv, Booked, DebtOnBooks, Position
<1> QED  BY <1>1, <1>2, <1>3, PTL DEF Spec

-----------------------------------------------------------------------------
(* The invariant *)

HeldInv == Amounts /\ Holdings /\ RecordsBehind /\ (LoansOnce => EquityFree)

\* The token holds what its default unit of c promises.
BackedAt(c) == Covers(balance[c], getDefaultPositionRealUnit(virtualUnit, c), totalSupply)

Backed(S) == \A c \in S \ Receipts : BackedAt(c)

LEMMA HeldInit ==
    ASSUME Init
    PROVE  HeldInv /\ \A S \in SUBSET Component : Backed(S)
<1>1. virtualUnit \in [Component -> Nat] /\ positionMultiplier \in Nat \ {0}
  BY AmountsInit, LeveragedTokenAssumption DEF Init, Amounts
<1>2. Holdings
  BY <1>1 DEF Init, Holdings
<1>3. RecordsBehind
  BY DEF Init, RecordsBehind, Zero, Position
<1>4. LoansOnce => EquityFree
  BY DEF Init, LoansOnce, EquityFree
<1>5. ASSUME NEW c \in Component
      PROVE  BackedAt(c)
  <2> DEFINE unit == getDefaultPositionRealUnit(virtualUnit, c)
  <2>1. unit \in Int
    BY <1>1, ConservativeMul DEF getDefaultPositionRealUnit
  <2>2. totalSupply = 0 /\ balance[c] = 0
    BY DEF Init
  <2> HIDE DEF unit
  <2>3. unit * 0 <= 0 * PreciseUnit
    BY <2>1, PreciseUnitAssumption
  <2>4. Covers(balance[c], unit, totalSupply)
    BY <2>2, <2>3 DEF Covers
  <2> QED  BY <2>4 DEF BackedAt, unit
<1> QED  BY <1>2, <1>3, <1>4, <1>5, AmountsInit DEF HeldInv, Backed

\* After sync, what was backed still is, and so are the receipts that sync read.
LEMMA SyncedCover ==
    ASSUME Amounts, Holdings, NEW L, NEW owed, SyncUnits(L, owed), NEW c \in Component,
           \/ c \notin Receipts /\ BackedAt(c)
           \/ \E x \in SyncedCollateral(L) : receipt[x] = c
    PROVE  Covers(balance[c], equityUnit(c), totalSupply)
<1>1. balance[c] \in Nat /\ virtualUnit[c] \in Nat /\ totalSupply \in Nat
      /\ positionMultiplier \in Nat \ {0} /\ PreciseUnit \in Nat \ {0}
  BY PreciseUnitAssumption DEF Amounts, Holdings
<1>2. virtualUnit'[c] \in Nat /\ equityUnit(c) \in Nat
  BY <1>1, SyncHoldings, EquityUnitTypes
<1>3. CASE c \notin Receipts /\ BackedAt(c)
  <2>1. virtualUnit'[c] = virtualUnit[c]
    BY <1>3, SyncedAssets
  <2>2. equityUnit(c) = getDefaultPositionRealUnit(virtualUnit, c)
    BY <2>1 DEF equityUnit, getDefaultPositionRealUnit
  <2> QED  BY <1>3, <2>2 DEF BackedAt
<1>4. CASE totalSupply = 0
  <2> DEFINE unit == equityUnit(c)
             held == balance[c] * PreciseUnit
  <2>1. unit \in Nat /\ held \in Nat
    BY <1>1, <1>2
  <2> HIDE DEF unit, held
  <2>2. unit * 0 <= held
    BY <2>1
  <2> QED  BY <1>4, <2>2 DEF Covers, unit, held
<1>5. CASE totalSupply # 0 /\ \E x \in SyncedCollateral(L) : receipt[x] = c
  <2> DEFINE real == preciseDiv(balance[c], totalSupply)
             unit == equityUnit(c)
  <2>1. virtualUnit'[c] = Written(virtualUnit[c], real)
    BY <1>5 DEF SyncUnits
  <2>2. real \in Nat /\ real * totalSupply <= balance[c] * PreciseUnit
    BY <1>1, <1>5, DivTypes
  <2> HIDE DEF real
  <2>3. unit <= real /\ unit \in Nat
    <3>1. unit = conservativePreciseMul(Written(virtualUnit[c], real), positionMultiplier)
      BY <2>1, Zenon DEF equityUnit, getDefaultPositionRealUnit
    <3>2. virtualUnit[c] \in Int /\ real \in Int /\ unit \in Nat
      BY <1>1, <1>2, <2>2
    <3> HIDE DEF unit
    <3> QED  BY <1>1, <3>1, <3>2, WrittenReads
  <2> HIDE DEF unit
  <2>4. unit * totalSupply <= real * totalSupply
    BY <1>1, <2>2, <2>3
  <2>5. unit * totalSupply <= balance[c] * PreciseUnit
    <3> DEFINE p == unit * totalSupply
               q == real * totalSupply
               r == balance[c] * PreciseUnit
    <3>1. p \in Int /\ q \in Int /\ r \in Int /\ p <= q /\ q <= r
      BY <1>1, <2>2, <2>3, <2>4
    <3> HIDE DEF p, q, r
    <3>2. p <= r
      BY <3>1
    <3> QED  BY <3>2 DEF p, r
  <2> QED  BY <2>5 DEF Covers, unit
<1> QED  BY <1>3, <1>4, <1>5

\* Outside of issues and redemptions.
LEMMA KeptBacked ==
    ASSUME Amounts, Holdings, Holdings', NEW c \in Component, BackedAt(c), Kept(c),
           UNCHANGED <<totalSupply, positionMultiplier>>
    PROVE  BackedAt(c)'
<1> DEFINE unit == equityUnit(c)
           post == balance'[c]
<1>1. /\ balance[c] \in Nat /\ post \in Nat /\ post >= balance[c]
      /\ totalSupply \in Nat /\ PreciseUnit \in Nat \ {0}
      /\ positionMultiplier \in Nat \ {0} /\ virtualUnit'[c] \in Nat
  BY PreciseUnitAssumption DEF Amounts, Holdings, Kept
<1>2. unit \in Nat
  BY <1>1, EquityUnitTypes
<1>3. BackedAt(c)' <=> unit * totalSupply <= post * PreciseUnit
  BY DEF BackedAt, Covers, equityUnit, getDefaultPositionRealUnit
<1>4. CASE virtualUnit'[c] = virtualUnit[c]
  <2>1. unit = getDefaultPositionRealUnit(virtualUnit, c)
    BY <1>4 DEF equityUnit, getDefaultPositionRealUnit
  <2>2. unit * totalSupply <= balance[c] * PreciseUnit
    BY <2>1 DEF BackedAt, Covers
  <2> HIDE DEF unit, post
  <2>3. balance[c] * PreciseUnit <= post * PreciseUnit
    BY <1>1
  <2> DEFINE p == unit * totalSupply
             q == balance[c] * PreciseUnit
             r == post * PreciseUnit
  <2>4. p \in Int /\ q \in Int /\ r \in Int /\ p <= q /\ q <= r
    BY <1>1, <1>2, <2>2, <2>3
  <2> HIDE DEF p, q, r
  <2>5. p <= r
    BY <2>4
  <2> QED  BY <1>3, <2>5 DEF p, r
<1>5. CASE virtualUnit'[c] # virtualUnit[c]
  <2> DEFINE new == NewUnit(virtualUnit, c, balance')
  <2>1. /\ IsUpdatable(virtualUnit, c, balance')
        /\ virtualUnit'[c] = conservativePreciseDiv(new, positionMultiplier)
    BY <1>5 DEF Kept
  <2>2. new \in Nat /\ new * totalSupply <= post * PreciseUnit
    BY <2>1, RestUnit DEF Holdings
  <2> HIDE DEF new
  <2>3. unit <= new
    BY <1>1, <2>1, <2>2, StoredAndReadBack DEF equityUnit, getDefaultPositionRealUnit
  <2> HIDE DEF unit, post
  <2>4. unit * totalSupply <= new * totalSupply
    BY <1>1, <1>2, <2>2, <2>3
  <2> DEFINE p == unit * totalSupply
             q == new * totalSupply
             r == post * PreciseUnit
  <2>5. p \in Int /\ q \in Int /\ r \in Int /\ p <= q /\ q <= r
    BY <1>1, <1>2, <2>2, <2>4
  <2> HIDE DEF p, q, r
  <2>6. p <= r
    BY <2>5
  <2> QED  BY <1>3, <2>6 DEF p, r
<1> QED  BY <1>4, <1>5

LEMMA EquityFreeStep ==
    ASSUME HeldInv, LoansOnce, [Next]_leveragedVars
    PROVE  EquityFree'
<1>1. ASSUME NEW a \in Asset, Compound # {}, ~IssuanceNext
      PROVE  virtualUnit'[a] = 0
  <2>1. a \in Component /\ a \notin Receipts
    BY AssetsAreNoReceipts
  <2>2. HeldStep
    BY <1>1, OtherHeld DEF HeldInv
  <2>3. Kept(a) /\ balance' \in [Component -> Nat]
    BY <2>1, <2>2 DEF HeldStep, Holdings
  <2>4. virtualUnit[a] = 0 /\ Compound = Lender /\ Surplus \subseteq {0}
    BY <1>1 DEF HeldInv, EquityFree, LoansOnce
  <2>5. CASE virtualUnit'[a] # virtualUnit[a]
    <3> DEFINE new == NewUnit(virtualUnit, a, balance')
    <3>1. /\ IsUpdatable(virtualUnit, a, balance')
          /\ virtualUnit'[a] = conservativePreciseDiv(new, positionMultiplier)
          /\ balance'[a] = balance[a]
      BY <2>3, <2>4, <2>5 DEF Kept
    <3>2. new = 0
      BY <2>1, <2>3, <2>4, <3>1, RestUnit DEF HeldInv
    <3> HIDE DEF new
    <3>3. positionMultiplier \in Nat \ {0} /\ PreciseUnit \in Nat \ {0}
      BY PreciseUnitAssumption DEF HeldInv, Amounts
    <3>4. conservativePreciseDiv(0, positionMultiplier) = (0 * PreciseUnit) \div positionMultiplier
      BY <3>3, ConservativeDiv
    <3>5. 0 * PreciseUnit = 0 /\ 0 \div positionMultiplier = 0
      BY <3>3, FloorSign
    <3> QED  BY <3>1, <3>2, <3>4, <3>5
  <2> QED  BY <2>4, <2>5
<1>2. ASSUME NEW a \in Asset, Compound # {}, IssuanceNext
      PROVE  virtualUnit'[a] = 0
  <2>1. \E owed : SyncUnits(Hooked, owed)
    BY <1>2, Zenon DEF IssuanceNext, Issue, Redeem
  <2>2. virtualUnit'[a] = virtualUnit[a]
    BY <2>1, AssetsAreNoReceipts, SyncedAssets
  <2> QED  BY <1>2, <2>2 DEF HeldInv, EquityFree
<1> QED  BY <1>1, <1>2 DEF EquityFree

LEMMA HeldInvStep ==
    ASSUME HeldInv, [Next]_leveragedVars
    PROVE  HeldInv'
<1>1. Holdings'
  <2>1. CASE ~IssuanceNext
    BY <2>1, OtherHeld DEF HeldInv, HeldStep
  <2>2. CASE IssuanceNext
    BY <2>2, IssueKeepsCover, RedeemKeepsCover, LeveragedTokenAssumption DEF IssuanceNext, HeldInv
  <2> QED  BY <2>1, <2>2
<1>2. LoansOnce => EquityFree'
  BY EquityFreeStep
<1> QED  BY <1>1, <1>2, AmountsStep, BehindStep DEF HeldInv, LoansOnce

\* The components whose backing a step keeps.
Keepable(S) ==
    /\ S \subseteq Component
    /\ S \intersect Asset # {} => OneLender /\ (Validates \/ LoansOnce)

\* An issue or a redemption leaves every component covered that sync left covered.
LEMMA IssuanceCovered ==
    ASSUME HeldInv, IssuanceNext, NEW S, Keepable(S), Backed(S), NEW c \in S,
           c \notin Receipts \/ \E x \in SyncedCollateral(Hooked) : receipt[x] = c
    PROVE  Covers(balance'[c], equityUnit(c), totalSupply')
<1>1. Amounts /\ Holdings /\ c \in Component
  BY DEF HeldInv, Keepable
<1>2. Covers(balance[c], equityUnit(c), totalSupply)
  <2>1. \E owed : SyncUnits(Hooked, owed)
    BY Zenon DEF IssuanceNext, Issue, Redeem
  <2>2. c \notin Receipts => BackedAt(c)
    BY DEF Backed
  <2> QED  BY <1>1, <2>1, <2>2, SyncedCover
<1>3. c \in Asset => OneLender /\ (Validates \/ (LoansOnce /\ EquityFree))
  BY DEF Keepable, HeldInv
<1>4. PICK quantity \in Nat : Issue(quantity) \/ Redeem(quantity)
  BY LeveragedTokenAssumption DEF IssuanceNext
<1> QED  BY <1>1, <1>2, <1>3, <1>4, IssueKeepsCover, RedeemKeepsCover

LEMMA BackedStep ==
    ASSUME HeldInv, [Next]_leveragedVars, NEW S, Keepable(S), Backed(S)
    PROVE  Backed(S)'
<1>1. CASE ~IssuanceNext
  <2>1. Amounts /\ Holdings /\ HeldStep
    BY <1>1, OtherHeld DEF HeldInv
  <2>2. UNCHANGED <<totalSupply, positionMultiplier>>
    BY <1>1, SupplyFrame
  <2>3. ASSUME NEW c \in S \ Receipts
        PROVE  BackedAt(c)'
    <3>1. c \in Component /\ Kept(c) /\ BackedAt(c) /\ Holdings'
      BY <2>1 DEF HeldStep, Keepable, Backed
    <3> QED  BY <2>1, <2>2, <3>1, KeptBacked
  <2> QED  BY <2>3 DEF Backed
<1>2. CASE IssuanceNext
  <2>1. ASSUME NEW c \in S \ Receipts
        PROVE  BackedAt(c)'
    <3>1. Covers(balance'[c], equityUnit(c), totalSupply')
      BY <1>2, IssuanceCovered
    <3>2. positionMultiplier' = positionMultiplier
      BY <1>2, IssuanceFrame
    <3> QED  BY <3>1, <3>2 DEF BackedAt, Covers, equityUnit, getDefaultPositionRealUnit
  <2> QED  BY <2>1 DEF Backed
<1> QED  BY <1>1, <1>2

-----------------------------------------------------------------------------
(* What holds after each issue and each redemption *)

LEMMA HeldAlways == Spec => []HeldInv
<1>1. Init => HeldInv
  BY HeldInit
<1>2. HeldInv /\ [Next /\ Bounded]_leveragedVars => HeldInv'
  BY HeldInvStep
<1> QED  BY <1>1, <1>2, PTL DEF Spec

LEMMA DebtStep ==
    ASSUME ProtocolFeeSplit < PreciseUnit, LoansOnce, HeldInv, [Next]_leveragedVars,
           Issues, totalSupply = 0 => debt = Zero, NEW x \in SyncedDebt(Hooked)
    PROVE  -getExternalPositionRealUnit(externalUnit, x[1], x[2])' * totalSupply'
             >= (debt'[x] - (debt[x] - stored[x])) * PreciseUnit
<1>1. IssuanceNext
  BY SupplyFrame DEF Issues
<1>2. PICK quantity \in Nat : Issue(quantity) \/ Redeem(quantity)
  BY <1>1, LeveragedTokenAssumption DEF IssuanceNext
<1>3. debtUnit(x[1], x[2]) * totalSupply' >= (debt'[x] - (debt[x] - stored[x])) * PreciseUnit
  BY <1>2, IssueCovered, RedeemCovered DEF HeldInv
<1>4. debtUnit(x[1], x[2]) = -getExternalPositionRealUnit(externalUnit, x[1], x[2])'
  BY <1>1, IssuanceFrame DEF debtUnit, getExternalPositionRealUnit
<1> DEFINE real == getExternalPositionRealUnit(externalUnit, x[1], x[2])'
<1>5. real \in Int /\ totalSupply' \in Int
  <2>1. x \in Position /\ x = <<x[1], x[2]>>
    BY DEF SyncedDebt, Position
  <2>2. externalUnit'[<<x[1], x[2]>>] \in Int
    BY <2>1, StepRecorded DEF HeldInv, Recorded
  <2>3. positionMultiplier' \in Int /\ totalSupply' \in Int
    BY AmountsStep DEF HeldInv, Amounts
  <2> QED  BY <2>2, <2>3, ConservativeMul DEF getExternalPositionRealUnit
<1> HIDE DEF real
<1>6. debtUnit(x[1], x[2]) * totalSupply' = -real * totalSupply'
  BY <1>4, <1>5 DEF real
<1> QED  BY <1>3, <1>6 DEF real

\* After every issue and redemption each CKToken's debt unit covers its part of the debt
\* that the module knew, however many modules borrow, whatever fees are minted and
\* whatever lenders and liquidators did before.  It needs that a loan is taken out once
\* (componentIssueHook of the Compound module does not look at _isEquity) and that fees
\* are minted in full.
THEOREM DebtIsCovered ==
    ASSUME ProtocolFeeSplit < PreciseUnit, LoansOnce
    PROVE  Spec => DebtCovered
<1>1. HeldInv /\ [Next /\ Bounded]_leveragedVars =>
        [Issues /\ (totalSupply = 0 => debt = Zero) =>
           \A x \in SyncedDebt(Hooked) :
             -getExternalPositionRealUnit(externalUnit, x[1], x[2])' * totalSupply'
               >= (debt'[x] - (debt[x] - stored[x])) * PreciseUnit]_leveragedVars
  BY DebtStep
<1> QED  BY <1>1, HeldAlways, PTL DEF Spec, DebtCovered

\* The components of S hold what is promised, but for receipts that sync does not read.
CoveredIn(S) ==
    Issues => \A c \in S :
      (\A x \in Lender \X Asset : receipt[x] = c => x \in SyncedCollateral(Hooked)) =>
      getDefaultPositionRealUnit(virtualUnit, c)' * totalSupply' <= balance'[c] * PreciseUnit

LEMMA CoveredStep ==
    ASSUME HeldInv, [Next]_leveragedVars, NEW S, Keepable(S), Backed(S)
    PROVE  CoveredIn(S)
<1>1. SUFFICES ASSUME Issues, NEW c \in S,
                      \A x \in Lender \X Asset : receipt[x] = c => x \in SyncedCollateral(Hooked)
               PROVE  getDefaultPositionRealUnit(virtualUnit, c)' * totalSupply'
                        <= balance'[c] * PreciseUnit
  BY Zenon DEF CoveredIn
<1>2. IssuanceNext
  BY <1>1, SupplyFrame DEF Issues
<1>3. c \notin Receipts \/ \E x \in SyncedCollateral(Hooked) : receipt[x] = c
  BY <1>1 DEF Receipts, Position
<1>4. Covers(balance'[c], equityUnit(c), totalSupply')
  BY <1>2, <1>3, IssuanceCovered
<1>5. equityUnit(c) = getDefaultPositionRealUnit(virtualUnit, c)'
  BY <1>2, IssuanceFrame DEF equityUnit, getDefaultPositionRealUnit
<1> QED  BY <1>4, <1>5 DEF Covers

\* After every issue and redemption the receipt tokens that sync reads, and all components
\* that no module borrows, are held in full, for any modules, amounts and liquidations.
THEOREM ReceiptsAreCovered == Spec => [][CoveredIn(Component \ Asset)]_leveragedVars
<1>1. Keepable(Component \ Asset)
  BY DEF Keepable
<1>2. Init => HeldInv /\ Backed(Component \ Asset)
  BY HeldInit
<1>3. HeldInv /\ Backed(Component \ Asset) /\ [Next /\ Bounded]_leveragedVars => HeldInv' /\ Backed(Component \ Asset)'
  BY <1>1, HeldInvStep, BackedStep
<1>4. HeldInv /\ Backed(Component \ Asset) /\ [Next /\ Bounded]_leveragedVars =>
        [CoveredIn(Component \ Asset)]_leveragedVars
  BY <1>1, CoveredStep
<1> QED  BY <1>2, <1>3, <1>4, PTL DEF Spec

\* With one leverage module that is so of every component: what the module brings of an
\* asset is what the issuer is sent, and what it repays the redeemer brought.  (Two modules
\* round apart.)  A redemption that pays twice, because of equity in the borrowed asset,
\* is only stopped by the validation of DebtIssuanceModuleV2.
THEOREM CollateralIsCovered ==
    ASSUME OneLender, Validates \/ LoansOnce
    PROVE  Spec => CollateralCovered
<1>1. Keepable(Component)
  BY DEF Keepable
<1>2. Init => HeldInv /\ Backed(Component)
  BY HeldInit
<1>3. HeldInv /\ Backed(Component) /\ [Next /\ Bounded]_leveragedVars => HeldInv' /\ Backed(Component)'
  BY <1>1, HeldInvStep, BackedStep
<1>4. HeldInv /\ Backed(Component) /\ [Next /\ Bounded]_leveragedVars =>
        [Issues => \A c \in Component :
           (\A x \in Lender \X Asset : receipt[x] = c => x \in SyncedCollateral(Hooked)) =>
           getDefaultPositionRealUnit(virtualUnit, c)' * totalSupply' <= balance'[c] * PreciseUnit
        ]_leveragedVars
  BY <1>1, CoveredStep, Zenon DEF CoveredIn
<1> QED  BY <1>2, <1>3, <1>4, PTL DEF Spec, CollateralCovered

\* The borrowed asset of an issue passes through.
LEMMA PassedOnStep ==
    ASSUME OneLender, HeldInv, [Next]_leveragedVars, totalSupply' > totalSupply,
           NEW a \in Asset, virtualUnit'[a] = 0
    PROVE  balance'[a] = balance[a]
<1>1. Amounts /\ Holdings /\ a \in Component
  BY AssetsAreNoReceipts DEF HeldInv
<1>2. IssuanceNext
  BY <1>1, SupplyFrame DEF Amounts
<1>3. ASSUME NEW quantity \in Nat, Redeem(quantity)
      PROVE  FALSE
  BY <1>1, <1>3, RedeemPayments DEF Amounts
<1>4. PICK quantity \in Nat : Issue(quantity)
  BY <1>2, <1>3, LeveragedTokenAssumption DEF IssuanceNext
<1>5. PICK withFees \in Nat, minted \in Nat : Issued(quantity, withFees, minted)
  BY <1>1, <1>4, IssueEffects
<1>6. SyncUnits(Hooked, Read(Hooked, FALSE))
  BY <1>5, Zenon DEF Issued
<1>7. balance'[a] = balance[a] + equityIn(a, withFees) + (Came(a, withFees) - debtOut(a, withFees))
  BY <1>1, <1>5 DEF Issued
<1>8. \A l \in Lender : debtUnit(l, a) \in Nat
  BY <1>1, <1>6, ReadRecords, DebtUnitTypes
<1>9. equityIn(a, withFees) = 0
  <2>1. equityUnit(a) = 0
    BY <1>1, EquityUnitTypes DEF Amounts
  <2> QED  BY <2>1, MulBounds DEF equityIn
<1>10. Came(a, withFees) = debtOut(a, withFees) /\ debtOut(a, withFees) \in Nat
  BY <1>8, <1>9, IssueSums
<1>11. balance[a] \in Nat
  BY <1>1 DEF Holdings
<1> QED  BY <1>7, <1>9, <1>10, <1>11

\* What an issue borrows the issuer receives, to the last unit, when one module borrows.
THEOREM LoanIsPassedOn ==
    ASSUME OneLender
    PROVE  Spec => LoanPassedOn
<1>1. HeldInv /\ [Next /\ Bounded]_leveragedVars =>
        [totalSupply' > totalSupply => \A a \in Asset :
           virtualUnit'[a] = 0 => balance'[a] = balance[a]]_leveragedVars
  BY PassedOnStep
<1> QED  BY <1>1, HeldAlways, PTL DEF Spec, LoanPassedOn

-----------------------------------------------------------------------------
(* The loan of an issue *)

LEMMA LoanStep ==
    ASSUME LoansOnce, ProtocolFeeSplit < PreciseUnit,
           HeldInv, [Next]_leveragedVars, totalSupply' > totalSupply,
           NEW x \in Position
    PROVE  (debt'[x] - debt[x]) * PreciseUnit
             <= -getExternalPositionRealUnit(externalUnit, x[1], x[2])' * (totalSupply' - totalSupply)
<1>0. Amounts
  BY DEF HeldInv
<1>1. IssuanceNext
  BY <1>0, SupplyFrame DEF Amounts
<1>2. ASSUME NEW quantity \in Nat, Redeem(quantity)
      PROVE  FALSE
  BY <1>0, <1>2, RedeemPayments DEF Amounts
<1>3. PICK quantity \in Nat : Issue(quantity)
  BY <1>1, <1>2, LeveragedTokenAssumption DEF IssuanceNext
<1>4. PICK withFees \in Nat, times \in {0, 1} :
        /\ totalSupply' - totalSupply = withFees
        /\ debt'[x] = debt[x] + times * loan(x[1], x[2], withFees)
        /\ debtUnit(x[1], x[2]) \in Nat
        /\ loan(x[1], x[2], withFees) \in Nat
        /\ loan(x[1], x[2], withFees) * PreciseUnit <= debtUnit(x[1], x[2]) * withFees
  <2>1. PICK withFees \in Nat, minted \in Nat : Issued(quantity, withFees, minted)
    BY <1>0, <1>3, IssueEffects
  <2> DEFINE read  == Read(Hooked, FALSE)
             times == borrowTimes(x, withFees)
             lent  == loan(x[1], x[2], withFees)
  <2>2. /\ SyncUnits(Hooked, read)
        /\ totalSupply' = totalSupply + quantity + minted /\ quantity + minted = withFees
        /\ debt'[x] = debt[x] + times * lent
    BY <2>1, Zenon DEF Issued
  <2>3. read \in [Position -> Nat]
    BY <1>0, ReadRecords
  <2> HIDE DEF read
  <2>4. times \in {0, 1}
    <3>1. EquityFree
      BY DEF HeldInv
    <3> QED  BY <1>0, <2>2, <3>1, CalledOnce
  <2>5. debtUnit(x[1], x[2]) \in Nat
    BY <1>0, <2>2, <2>3, DebtUnitTypes DEF Position
  <2>6. lent \in Nat /\ lent * PreciseUnit <= debtUnit(x[1], x[2]) * withFees
    BY <2>5, MulBounds DEF loan
  <2>7. totalSupply' - totalSupply = withFees
    BY <1>0, <2>2 DEF Amounts
  <2> HIDE DEF times
  <2> QED  BY <2>2, <2>4, <2>5, <2>6, <2>7
<1>5. debtUnit(x[1], x[2]) = -getExternalPositionRealUnit(externalUnit, x[1], x[2])'
  BY <1>1, IssuanceFrame DEF debtUnit, getExternalPositionRealUnit
<1> DEFINE lent == loan(x[1], x[2], withFees)
           unit == debtUnit(x[1], x[2])
<1>6. /\ debt'[x] = debt[x] + times * lent /\ lent \in Nat /\ unit \in Nat
      /\ lent * PreciseUnit <= unit * withFees /\ debt[x] \in Nat
      /\ PreciseUnit \in Nat
  BY <1>0, <1>4, PreciseUnitAssumption DEF Amounts
<1> HIDE DEF lent, unit
<1>7. (debt'[x] - debt[x]) * PreciseUnit <= unit * withFees
  <2>1. CASE times = 0
    <3>1. debt'[x] - debt[x] = 0 /\ unit * withFees >= 0
      BY <1>6, <2>1
    <3> QED  BY <1>6, <3>1
  <2>2. CASE times = 1
    <3>1. debt'[x] - debt[x] = lent
      BY <1>6, <2>2
    <3> QED  BY <1>6, <3>1
  <2> QED  BY <2>1, <2>2
<1>8. getExternalPositionRealUnit(externalUnit, x[1], x[2])' \in Int
  <2>1. x = <<x[1], x[2]>> /\ externalUnit'[x] \in Int
    BY <1>0, StepRecorded DEF Recorded, Position
  <2>2. positionMultiplier' \in Int
    BY <1>0, <1>1, IssuanceFrame DEF Amounts
  <2> QED  BY <2>1, <2>2, ConservativeMul DEF getExternalPositionRealUnit
<1> DEFINE real == getExternalPositionRealUnit(externalUnit, x[1], x[2])'
           grown == totalSupply' - totalSupply
<1>9. real \in Int /\ unit = -real /\ grown = withFees
  BY <1>4, <1>5, <1>8 DEF unit
<1> HIDE DEF real, grown
<1>10. (debt'[x] - debt[x]) * PreciseUnit <= -real * grown
  BY <1>7, <1>9
<1> QED  BY <1>10 DEF real, grown

\* An issue borrows, in each position, no more than the debt units of the CKTokens that it
\* makes: with the Aave module, whose componentIssueHook does nothing for equity, and with
\* the Compound module as long as no asset that can be borrowed is held as equity.  (A
\* protocol that took the whole fee would not get it minted, which is why it must take
\* less.)
THEOREM LoanIsTakenOutOnce ==
    ASSUME LoansOnce, ProtocolFeeSplit < PreciseUnit
    PROVE  Spec => LoanTakenOutOnce
<1>1. HeldInv /\ [Next /\ Bounded]_leveragedVars =>
        [totalSupply' > totalSupply => \A x \in Lender \X Asset :
           (debt'[x] - debt[x]) * PreciseUnit
             <= -getExternalPositionRealUnit(externalUnit, x[1], x[2])'
                  * (totalSupply' - totalSupply)]_leveragedVars
  BY LoanStep DEF Position
<1> QED  BY <1>1, HeldAlways, PTL DEF Spec, LoanTakenOutOnce
=============================================================================
