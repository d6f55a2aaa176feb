---------------------------- MODULE DebtIssuance ----------------------------
(***************************************************************************)
(* protocol/modules/DebtIssuanceModule.sol and DebtIssuanceModuleV2.sol:    *)
(* CKTokens with debt.  An issuer brings the equity and receives the new    *)
(* debt, a redeemer brings the debt and receives the equity.  The leverage  *)
(* modules are called three times: before, as registered hooks, to sync;    *)
(* then, as owners of an external position, to borrow and repay.  They are  *)
(* called for the equity of a component as well as for its debt; Aave's     *)
(* module ignores the former.                                               *)
(*                                                                          *)
(* Equity is default positions only: no module here keeps a positive        *)
(* external one.                                                            *)
(***************************************************************************)
EXTENDS Leverage, FiniteSets, Functions

CONSTANTS
    IssuanceModule,
    Validates,          \* DebtIssuanceModuleV2
    ProtocolFeeSplit

ASSUME DebtIssuanceAssumption ==
    /\ IsFiniteSet(Lender) /\ IssuanceModule \notin Lender /\ Validates \in BOOLEAN
    /\ ProtocolFeeSplit \in 0 .. PreciseUnit

VARIABLES
    maxManagerFee, managerIssueFee, managerRedeemFee,
    moduleIssuanceHooks, isModuleHook

settingVars == <<maxManagerFee, managerIssueFee, managerRedeemFee>>
hookVars    == <<moduleIssuanceHooks, isModuleHook>>

-----------------------------------------------------------------------------
(* calculateTotalFees: fees are CKTokens *)

managerAndProtocolFee(rate, quantity) == preciseMul(rate, quantity)
protocolFee(total)                    == preciseMul(total, ProtocolFeeSplit)

\* _resolveFees: no manager fee, no protocol fee.
feesMinted(total) == IF total - protocolFee(total) > 0 THEN total ELSE 0

-----------------------------------------------------------------------------
(* Units after the sync, and what they come to for a quantity *)

Hooked == {l \in Lender : contains(moduleIssuanceHooks, l)}

debtUnit(l, a)  == -getExternalPositionRealUnit(externalUnit', l, a)
debtUnits(a)    == SumFunction([l \in Lender |-> debtUnit(l, a)])
equityUnit(c)   == getDefaultPositionRealUnit(virtualUnit', c)

\* Those called for a component: CKToken lists a module where it has a position.
IsCalled(l, a) == debtUnit(l, a) > 0

\* Mutant: Aave's check is missing, or Compound's present.
CallsForEquity_All(l) == TRUE

\* Modules that act on the call for equity as they do on the one for debt.
CallsForEquity(l) == l \in Compound

\* How often a module borrows or repays, when equity and debt of the component move.
Times(l, a, equity, owed) ==
    IF ~IsCalled(l, a) THEN 0
    ELSE (IF owed > 0 THEN 1 ELSE 0) + (IF equity > 0 /\ CallsForEquity(l) THEN 1 ELSE 0)

HooksAnswer == \A l \in Hooked : IsInitialized(l)

\* Aave refuses amounts of zero, and repayment without a debt.
LendersAnswer(times, amount) ==
    \A x \in Lender \X Asset :
      times[x] > 0 => MayCall(x[1]) /\ (x[1] \notin Compound => amount[x] > 0)

-----------------------------------------------------------------------------
IsValidIn(amount, c) ==
    Validates /\ amount > 0 => balance[c] >= preciseMulCeil(totalSupply, equityUnit(c))

IsValidOut(amount, c, supply) ==
    Validates /\ amount > 0 => balance'[c] >= preciseMulCeil(supply, equityUnit(c))

-----------------------------------------------------------------------------
(* _calculateRequiredComponentIssuanceUnits: each rounded for the holders *)

\* Mutant: equity to bring rounded down.
equityIn_RoundedDown(c, quantity) == preciseMul(equityUnit(c), quantity)

equityIn(c, quantity)  == preciseMulCeil(equityUnit(c), quantity)
equityOut(c, quantity) == preciseMul(equityUnit(c), quantity)

\* Mutant: debt handed out rounded up.
debtOut_RoundedUp(a, quantity) == preciseMulCeil(debtUnits(a), quantity)

debtOut(a, quantity) == preciseMul(debtUnits(a), quantity)
debtIn(a, quantity)  == preciseMulCeil(debtUnits(a), quantity)

\* The notionalDebt of the hooks of a lender.
loan(l, a, quantity) == preciseMul(debtUnit(l, a), quantity)

\* Mutant: repayment rounded down.
payment_RoundedDown(l, a, quantity) == preciseMul(debtUnit(l, a), quantity)

payment(l, a, quantity) == preciseMulCeil(debtUnit(l, a), quantity)

-----------------------------------------------------------------------------
\* moduleIssueHook syncs with the stored debt, to save gas.
Issue(quantity) ==
    LET total     == managerAndProtocolFee(managerIssueFee, quantity)
        withFees  == quantity + total
        equity    == [c \in Component |-> equityIn(c, withFees)]
        borrowed  == [a \in Asset |-> debtOut(a, withFees)]
        lent      == [x \in Lender \X Asset |-> loan(x[1], x[2], withFees)]
        times     == [x \in Lender \X Asset |-> Times(x[1], x[2], equity[x[2]], borrowed[x[2]])]
        came(a)   == SumFunction([l \in Lender |-> times[<<l, a>>] * lent[<<l, a>>]])
    IN  /\ moduleStates[IssuanceModule] = "INITIALIZED"
        /\ quantity > 0
        /\ HooksAnswer
        /\ SyncUnits(Hooked, Read(Hooked, FALSE))
        /\ LendersAnswer(times, lent)
        /\ debt' = [x \in Lender \X Asset |-> debt[x] + times[x] * lent[x]]
        /\ stored' = [x \in Lender \X Asset |->
                        IF times[x] > 0 THEN debt'[x] ELSE Read(Hooked, FALSE)[x]]
        /\ balance' = [c \in Component |->
                         balance[c] + equity[c]
                           + (IF c \in Asset THEN came(c) - borrowed[c] ELSE 0)]
        /\ \A c \in Component : balance'[c] >= 0
        /\ \A c \in Component : IsValidIn(equity[c], c)
        /\ \A a \in Asset : IsValidOut(borrowed[a], a, totalSupply + withFees)
        /\ totalSupply' = totalSupply + quantity + feesMinted(total)
        /\ UNCHANGED <<positionMultiplier, assetVars, moduleVars, settingVars, hookVars>>

IsBurnable(quantity) == quantity > 0 /\ quantity <= totalSupply

\* Compound refuses more than the debt, Aave takes what is owed.
Redeem(quantity) ==
    LET total    == managerAndProtocolFee(managerRedeemFee, quantity)
        netFees  == quantity - total
        equity   == [c \in Component |-> equityOut(c, netFees)]
        owed     == [a \in Asset |-> debtIn(a, netFees)]
        times    == [x \in Lender \X Asset |-> Times(x[1], x[2], equity[x[2]], owed[x[2]])]
        offered  == [x \in Lender \X Asset |-> times[x] * payment(x[1], x[2], netFees)]
        repaid   == [x \in Lender \X Asset |->
                       IF x[1] \in Compound \/ offered[x] <= debt[x] THEN offered[x]
                       ELSE debt[x]]
        spent(a) == SumFunction([l \in Lender |-> repaid[<<l, a>>]])
    IN  /\ moduleStates[IssuanceModule] = "INITIALIZED"
        /\ IsBurnable(quantity)
        /\ HooksAnswer
        /\ SyncUnits(Hooked, Read(Hooked, TRUE))
        /\ LendersAnswer(times, repaid)
        /\ \A x \in Lender \X Asset : repaid[x] <= debt[x]
        /\ debt' = [x \in Lender \X Asset |-> debt[x] - repaid[x]]
        /\ stored' = [x \in Lender \X Asset |->
                        IF times[x] > 0 THEN debt'[x] ELSE Read(Hooked, TRUE)[x]]
        /\ balance' = [c \in Component |->
                         balance[c] - equity[c]
                           + (IF c \in Asset THEN owed[c] - spent(c) ELSE 0)]
        /\ \A c \in Component : balance'[c] >= 0
        /\ \A a \in Asset : IsValidIn(owed[a], a)
        /\ \A c \in Component : IsValidOut(equity[c], c, totalSupply - netFees)
        /\ totalSupply' = totalSupply - quantity + feesMinted(total)
        /\ UNCHANGED <<positionMultiplier, assetVars, moduleVars, settingVars, hookVars>>

-----------------------------------------------------------------------------
(* Hooks: leverage modules register themselves *)

IsRegistrable(l) ==
    MayCall(l) /\ moduleStates[IssuanceModule] = "INITIALIZED" /\ l \notin isModuleHook

AddHook(l) ==
    /\ moduleIssuanceHooks' = Append(moduleIssuanceHooks, l)
    /\ isModuleHook' = isModuleHook \union {l}

\* The registration of a module whose initialize is running; a revert is caught.
TryRegister(l) ==
    IF isModule[l] /\ l \notin isModuleHook THEN AddHook(l) ELSE UNCHANGED hookVars

\* Mutant: a removed module stays registered.
TryUnregister_Never(l) == UNCHANGED hookVars

TryUnregister(l) ==
    IF isModule[l] /\ moduleStates[IssuanceModule] = "INITIALIZED" /\ l \in isModuleHook
    THEN /\ moduleIssuanceHooks' = removeStorage(moduleIssuanceHooks, l)
         /\ isModuleHook' = isModuleHook \ {l}
    ELSE UNCHANGED hookVars

-----------------------------------------------------------------------------
(* Settings *)

SetState(m, state) == moduleStates' = [moduleStates EXCEPT ![m] = state]

InitializeIssuance(maxFee, issueFee, redeemFee) ==
    /\ moduleStates[IssuanceModule] = "PENDING"
    /\ issueFee <= maxFee /\ redeemFee <= maxFee
    /\ SetState(IssuanceModule, "INITIALIZED")
    /\ maxManagerFee' = maxFee /\ managerIssueFee' = issueFee /\ managerRedeemFee' = redeemFee
    /\ moduleIssuanceHooks' = <<>>
    /\ UNCHANGED <<isModuleHook, isModule, fundVars, assetVars, debtVars>>

\* The mapping of hooks is not part of what delete clears.
RemoveIssuance ==
    /\ moduleStates[IssuanceModule] = "INITIALIZED"
    /\ moduleIssuanceHooks = <<>>
    /\ SetState(IssuanceModule, "NONE")
    /\ maxManagerFee' = 0 /\ managerIssueFee' = 0 /\ managerRedeemFee' = 0
    /\ UNCHANGED <<hookVars, isModule, fundVars, assetVars, debtVars>>

UpdateIssueFee(fee) ==
    /\ moduleStates[IssuanceModule] = "INITIALIZED"
    /\ fee <= maxManagerFee /\ fee # managerIssueFee
    /\ managerIssueFee' = fee
    /\ UNCHANGED <<maxManagerFee, managerRedeemFee, hookVars, moduleVars, fundVars, assetVars,
                    debtVars>>

UpdateRedeemFee(fee) ==
    /\ moduleStates[IssuanceModule] = "INITIALIZED"
    /\ fee <= maxManagerFee /\ fee # managerRedeemFee
    /\ managerRedeemFee' = fee
    /\ UNCHANGED <<maxManagerFee, managerIssueFee, hookVars, moduleVars, fundVars, assetVars,
                    debtVars>>
=============================================================================
