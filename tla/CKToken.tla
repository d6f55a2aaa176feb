------------------------------- MODULE CKToken -------------------------------
(***************************************************************************)
(* One CKToken (protocol/CKToken.sol): who may call it, and the positions   *)
(* it keeps.                                                                *)
(*                                                                          *)
(* A position is an amount of a component per CKToken, either held by the   *)
(* token itself (default) or tracked by a module (external, possibly a      *)
(* debt).  It is stored as a virtual unit; the real unit is the virtual one *)
(* scaled by positionMultiplier.  The token also keeps the lists of its     *)
(* components and of the modules that hold an external position in each.    *)
(* No call of the token keeps the lists and the units together: the library *)
(* protocol/lib/Position.sol does, and it is the only caller of the token's *)
(* addComponent, removeComponent, addExternalPositionModule,                *)
(* removeExternalPositionModule and the edit functions.  An action here is  *)
(* one call of the library or of the token, with every change it makes.     *)
(*                                                                          *)
(* The exception is removeModule, which calls the module back before it      *)
(* changes anything: what comes before the callback and what comes after it *)
(* are two actions, and between them modules act with the rights they have. *)
(*                                                                          *)
(* A reverted transaction changes nothing, so a require is a guard.         *)
(* External position data is left out: every module passes "".             *)
(***************************************************************************)
EXTENDS PreciseUnitMath, AddressArrayUtils

CONSTANTS
    Module,          \* module contracts
    Component,       \* ERC20 tokens that may become components
    Account,         \* addresses that may be the manager
    Null,            \* address(0)
    Permanent,       \* the modules whose removeModule callback reverts
    LocksOnRemoval,  \* the modules whose removeModule callback locks the token
    ComponentLists,  \* component arrays a creation may pass
    DefaultUnits,    \* real units a module may ask for in a default position
    ExternalUnits,   \* the same for an external position; negative is a debt
    Multipliers      \* multipliers a module may ask for

ASSUME NullAssumption == Null \notin Module /\ Null \notin Account
ASSUME PermanentAssumption == Permanent \subseteq Module /\ LocksOnRemoval \subseteq Module
ASSUME ComponentListsAssumption == ComponentLists \subseteq Seq(Component)
ASSUME UnitsAssumption ==
    DefaultUnits \subseteq Nat /\ ExternalUnits \subseteq Int /\ Multipliers \subseteq Int

VARIABLES
    isModule,              \* Controller.isModule
    manager,
    locker,
    isLocked,
    modules,
    moduleStates,
    removing,              \* the module whose removeModule callback runs, or Null
    components,
    virtualUnit,           \* componentPositions[c].virtualUnit
    externalModules,       \* componentPositions[c].externalPositionModules
    externalVirtualUnit,   \* componentPositions[c].externalPositions[m].virtualUnit
    positionMultiplier

accessVars   == <<isModule, manager, locker, isLocked, modules, moduleStates, removing>>
positionVars == <<components, virtualUnit, externalModules, externalVirtualUnit,
                  positionMultiplier>>
vars == <<isModule, manager, locker, isLocked, modules, moduleStates, removing, components,
          virtualUnit, externalModules, externalVirtualUnit, positionMultiplier>>

-----------------------------------------------------------------------------
(* Units *)

ModuleState == {"NONE", "PENDING", "INITIALIZED"}

convertVirtualToRealUnit(virtual) == conservativePreciseMul(virtual, positionMultiplier)
convertRealToVirtualUnit(real)    == conservativePreciseDiv(real, positionMultiplier)

\* A positive real unit that the stored virtual unit would lose is refused.
IsConvertible(real) ==
    real > 0 => /\ convertRealToVirtualUnit(real) # 0
                /\ convertVirtualToRealUnit(convertRealToVirtualUnit(real)) # 0

getDefaultPositionRealUnit(c)     == convertVirtualToRealUnit(virtualUnit[c])
getExternalPositionRealUnit(c, m) == convertVirtualToRealUnit(externalVirtualUnit[c][m])

isComponent(c)                 == contains(components, c)
isExternalPositionModule(c, m) == contains(externalModules[c], m)
hasDefaultPosition(c)          == getDefaultPositionRealUnit(c) > 0
hasExternalPosition(c)         == Len(externalModules[c]) > 0

-----------------------------------------------------------------------------
(* Who may call *)

OnlyManager(sender) == sender = manager

OnlyModule(sender) == moduleStates[sender] = "INITIALIZED" /\ isModule[sender]

WhenLockedOnlyLocker(sender) == isLocked => sender = locker

MayEdit(sender) == OnlyModule(sender) /\ WhenLockedOnlyLocker(sender)

-----------------------------------------------------------------------------
(* CKTokenCreator.create and the constructor *)

Create(list, units, pending, newManager) ==
    /\ list # <<>> /\ ~hasDuplicate(list)
    /\ \A c \in Component : contains(list, c) => units[c] > 0
    /\ pending # {} /\ \A m \in pending : isModule[m]
    /\ manager = newManager
    /\ locker = Null /\ isLocked = FALSE
    /\ modules = <<>>
    /\ moduleStates = [m \in Module |-> IF m \in pending THEN "PENDING" ELSE "NONE"]
    /\ removing = Null
    /\ components = list
    /\ virtualUnit = [c \in Component |-> IF contains(list, c) THEN units[c] ELSE 0]
    /\ externalModules = [c \in Component |-> <<>>]
    /\ externalVirtualUnit = [c \in Component |-> [m \in Module |-> 0]]
    /\ positionMultiplier = PreciseUnit

Init ==
    /\ isModule \in [Module -> BOOLEAN]
    /\ \E list \in ComponentLists, units \in [Component -> DefaultUnits],
          pending \in SUBSET Module, newManager \in Account :
            Create(list, units, pending, newManager)

-----------------------------------------------------------------------------
(* Controller.addModule and Controller.removeModule, as the token sees them *)

ControllerAddModule(m) ==
    /\ ~isModule[m]
    /\ isModule' = [isModule EXCEPT ![m] = TRUE]
    /\ UNCHANGED <<manager, locker, isLocked, modules, moduleStates, removing, positionVars>>

ControllerRemoveModule(m) ==
    /\ isModule[m]
    /\ isModule' = [isModule EXCEPT ![m] = FALSE]
    /\ UNCHANGED <<manager, locker, isLocked, modules, moduleStates, removing, positionVars>>

-----------------------------------------------------------------------------
(* The life of a module on the token *)

AddModule(sender, m) ==
    /\ OnlyManager(sender)
    /\ moduleStates[m] = "NONE" /\ isModule[m]
    /\ moduleStates' = [moduleStates EXCEPT ![m] = "PENDING"]
    /\ UNCHANGED <<isModule, manager, locker, isLocked, modules, removing, positionVars>>

\* Mutant: a module may be initialized while the token is locked.
MayInitialize_WhileLocked(m) == moduleStates[m] = "PENDING"

MayInitialize(m) == ~isLocked /\ moduleStates[m] = "PENDING"

\* Called by the module itself; the Controller is not asked again.
InitializeModule(m) ==
    /\ MayInitialize(m)
    /\ moduleStates' = [moduleStates EXCEPT ![m] = "INITIALIZED"]
    /\ modules' = Append(modules, m)
    /\ UNCHANGED <<isModule, manager, locker, isLocked, removing, positionVars>>

\* Mutant: the requirement that the token is not locked is dropped.
IsRemovable_WhileLocked(m) == moduleStates[m] = "INITIALIZED" /\ m \notin Permanent

IsRemovable(m) == ~isLocked /\ moduleStates[m] = "INITIALIZED" /\ m \notin Permanent

\* removeModule up to its call of IModule.removeModule.  A callback that reverts
\* undoes the whole call, so only callbacks that return are followed.
RemoveModule(sender, m) ==
    /\ removing = Null
    /\ OnlyManager(sender)
    /\ IsRemovable(m)
    /\ removing' = m
    /\ UNCHANGED <<isModule, manager, locker, isLocked, modules, moduleStates, positionVars>>

\* The rest of removeModule, once the callback has returned; the lock is not
\* looked at again.
RemoveModuleReturns(m) ==
    /\ removing = m
    /\ moduleStates' = [moduleStates EXCEPT ![m] = "NONE"]
    /\ contains(modules, m)
    /\ modules' = removeStorage(modules, m)
    /\ removing' = Null
    /\ UNCHANGED <<isModule, manager, locker, isLocked, positionVars>>

IsPending(m) == moduleStates[m] = "PENDING"

RemovePendingModule(sender, m) ==
    /\ OnlyManager(sender)
    /\ ~isLocked
    /\ IsPending(m)
    /\ moduleStates' = [moduleStates EXCEPT ![m] = "NONE"]
    /\ UNCHANGED <<isModule, manager, locker, isLocked, modules, removing, positionVars>>

SetManager(sender, newManager) ==
    /\ OnlyManager(sender)
    /\ ~isLocked
    /\ manager' = newManager
    /\ UNCHANGED <<isModule, locker, isLocked, modules, moduleStates, removing, positionVars>>

\* A module locks in its own removal callback when its code does so.
Lock(m) ==
    /\ OnlyModule(m)
    /\ ~isLocked
    /\ removing = m => m \in LocksOnRemoval
    /\ locker' = m /\ isLocked' = TRUE
    /\ UNCHANGED <<isModule, manager, modules, moduleStates, removing, positionVars>>

Unlock(m) ==
    /\ OnlyModule(m)
    /\ isLocked /\ locker = m
    /\ locker' = Null /\ isLocked' = FALSE
    /\ UNCHANGED <<isModule, manager, modules, moduleStates, removing, positionVars>>

-----------------------------------------------------------------------------
(* Position.editDefaultPosition *)

OpensComponent(c, newUnit) ==
    ~hasDefaultPosition(c) /\ newUnit > 0 /\ ~hasExternalPosition(c)

\* Mutant: external positions in the component are forgotten.
ClosesComponent_DespiteExternal(c, newUnit) == hasDefaultPosition(c) /\ newUnit = 0

ClosesComponent(c, newUnit) ==
    hasDefaultPosition(c) /\ newUnit = 0 /\ ~hasExternalPosition(c)

EditDefaultPosition(m, c, newUnit) ==
    /\ MayEdit(m)
    /\ \/ /\ OpensComponent(c, newUnit)
          /\ ~isComponent(c)
          /\ components' = Append(components, c)
       \/ /\ ClosesComponent(c, newUnit)
          /\ isComponent(c)
          /\ components' = removeStorage(components, c)
       \/ /\ ~OpensComponent(c, newUnit) /\ ~ClosesComponent(c, newUnit)
          /\ UNCHANGED components
    /\ IsConvertible(newUnit)
    /\ virtualUnit' = [virtualUnit EXCEPT ![c] = convertRealToVirtualUnit(newUnit)]
    /\ UNCHANGED <<accessVars, externalModules, externalVirtualUnit, positionMultiplier>>

-----------------------------------------------------------------------------
(* Position.editExternalPosition, with the caller as the position's module *)

\* _newUnit # 0
EditExternalPosition(m, c, newUnit) ==
    /\ MayEdit(m)
    /\ newUnit # 0
    /\ \/ /\ ~isComponent(c)
          /\ ~isExternalPositionModule(c, m)
          /\ components' = Append(components, c)
          /\ externalModules' = [externalModules EXCEPT ![c] = Append(@, m)]
       \/ /\ isComponent(c)
          /\ ~isExternalPositionModule(c, m)
          /\ externalModules' = [externalModules EXCEPT ![c] = Append(@, m)]
          /\ UNCHANGED components
       \/ /\ isComponent(c)
          /\ isExternalPositionModule(c, m)
          /\ UNCHANGED <<components, externalModules>>
    /\ IsConvertible(newUnit)
    /\ externalVirtualUnit' =
         [externalVirtualUnit EXCEPT ![c][m] = convertRealToVirtualUnit(newUnit)]
    /\ UNCHANGED <<accessVars, virtualUnit, positionMultiplier>>

\* Mutant: the default position is forgotten.
IsLastPosition_DespiteDefault(c) == Len(externalModules[c]) = 1

IsLastPosition(c) == getDefaultPositionRealUnit(c) = 0 /\ Len(externalModules[c]) = 1

removeExternalPosition(c, m) == [externalVirtualUnit EXCEPT ![c][m] = 0]

\* _newUnit = 0; nothing happens when the position is closed already.
CloseExternalPosition(m, c) ==
    /\ MayEdit(m)
    /\ getExternalPositionRealUnit(c, m) # 0
    /\ IF IsLastPosition(c)
       THEN /\ externalModules[c][1] = m
            /\ isComponent(c)
            /\ components' = removeStorage(components, c)
       ELSE UNCHANGED components
    /\ isExternalPositionModule(c, m)
    /\ externalModules' = [externalModules EXCEPT ![c] = removeStorage(@, m)]
    /\ externalVirtualUnit' = removeExternalPosition(c, m)
    /\ UNCHANGED <<accessVars, virtualUnit, positionMultiplier>>

-----------------------------------------------------------------------------
(* CKToken.editPositionMultiplier *)

absoluteValue(a) == IF a >= 0 THEN a ELSE -a

\* What _getPositionsAbsMinimumVirtualUnit takes the minimum of.
AbsVirtualUnits ==
    {virtualUnit[c] : c \in {d \in Component : isComponent(d) /\ virtualUnit[d] > 0}}
    \union
    {absoluteValue(externalVirtualUnit[p[1]][p[2]]) :
        p \in {q \in Component \X Module : /\ isComponent(q[1])
                                           /\ isExternalPositionModule(q[1], q[2])
                                           /\ externalVirtualUnit[q[1]][q[2]] # 0}}

\* Mutant: the new multiplier is not tried on the smallest position.
ValidateNewMultiplier_Unscaled(newMultiplier) == AbsVirtualUnits # {}

\* Mutant: the largest position is tried.
ValidateNewMultiplier_Largest(newMultiplier) ==
    \E max \in AbsVirtualUnits :
        /\ \A unit \in AbsVirtualUnits : unit <= max
        /\ conservativePreciseMul(max, newMultiplier) > 0

\* With no position the minimum stays uint256(-1), which toInt256 refuses.
ValidateNewMultiplier(newMultiplier) ==
    \E min \in AbsVirtualUnits :
        /\ \A unit \in AbsVirtualUnits : min <= unit
        /\ conservativePreciseMul(min, newMultiplier) > 0

EditPositionMultiplier(m, newMultiplier) ==
    /\ MayEdit(m)
    /\ ValidateNewMultiplier(newMultiplier)
    /\ positionMultiplier' = newMultiplier
    /\ UNCHANGED <<accessVars, components, virtualUnit, externalModules,
                   externalVirtualUnit>>

-----------------------------------------------------------------------------
AccessNext ==
    \/ \E m \in Module :
         \/ ControllerAddModule(m)
         \/ ControllerRemoveModule(m)
         \/ InitializeModule(m)
         \/ RemoveModuleReturns(m)
         \/ Lock(m)
         \/ Unlock(m)
    \/ \E sender \in Account, m \in Module :
         \/ AddModule(sender, m)
         \/ RemoveModule(sender, m)
         \/ RemovePendingModule(sender, m)
    \/ \E sender \in Account, newManager \in Account \union {Null} :
         SetManager(sender, newManager)

PositionNext ==
    \E m \in Module :
        \/ \E c \in Component :
             \/ \E newUnit \in DefaultUnits : EditDefaultPosition(m, c, newUnit)
             \/ \E newUnit \in ExternalUnits : EditExternalPosition(m, c, newUnit)
             \/ CloseExternalPosition(m, c)
        \/ \E newMultiplier \in Multipliers : EditPositionMultiplier(m, newMultiplier)

Next == AccessNext \/ PositionNext

Spec == Init /\ [][Next]_vars

-----------------------------------------------------------------------------
(* Properties *)

\* The values each variable takes; the multiplier never reaches zero.
TypeOK ==
    /\ isModule \in [Module -> BOOLEAN]
    /\ manager \in Account \union {Null}
    /\ locker \in Module \union {Null}
    /\ isLocked \in BOOLEAN
    /\ modules \in Seq(Module)
    /\ moduleStates \in [Module -> ModuleState]
    /\ removing \in Module \union {Null}
    /\ components \in Seq(Component)
    /\ virtualUnit \in [Component -> Nat]
    /\ externalModules \in [Component -> Seq(Module)]
    /\ externalVirtualUnit \in [Component -> [Module -> Int]]
    /\ positionMultiplier \in Nat \ {0}

\* The module array and the module states agree through every order of adding,
\* initializing and removing (swap with the last) modules: the array holds each
\* initialized module once and no other.
ModuleListExact ==
    /\ ~hasDuplicate(modules)
    /\ \A m \in Module : contains(modules, m) <=> moduleStates[m] = "INITIALIZED"

\* The holder of the lock stays an initialized module until it unlocks, unless it
\* took the lock in its own removal callback: removeModule looks at the lock before
\* the callback only.
LockerInitialized ==
    /\ isLocked <=> locker # Null
    /\ isLocked => moduleStates[locker] = "INITIALIZED" \/ locker \in LocksOnRemoval

\* Whatever is done in the callback, the module that is being removed stays in the
\* array: a removal whose callback returns goes through.
RemovalGoesThrough == removing # Null => contains(modules, removing)

\* Who may act on the token is one and the same set by the array, by the states
\* and by the lock, also while removeModule calls a module back.
AccessExact == ModuleListExact /\ LockerInitialized /\ RemovalGoesThrough

\* The lock is held by a module that is no longer initialized.
LockIsLost == isLocked /\ moduleStates[locker] # "INITIALIZED"

\* A module that locks the token in its own removal callback (CKToken.sol:380)
\* freezes it for good: nobody can unlock it, edit a position, initialize or remove
\* a module or change the manager ever again, whatever the manager and the
\* Controller do, the module's being added once more included.
LostLockFreezes ==
    [][LockIsLost => UNCHANGED <<manager, locker, isLocked, modules, positionVars>>]_vars

\* Position.editDefaultPosition and editExternalPosition decide from real units
\* whether a position exists; a stored virtual unit that a change of the
\* multiplier rounds to a zero real unit would be a position that exists for the
\* token and not for the library.
NoVanishedPosition ==
    \A c \in Component :
        /\ virtualUnit[c] > 0 => getDefaultPositionRealUnit(c) > 0
        /\ \A m \in Module :
             externalVirtualUnit[c][m] # 0 => getExternalPositionRealUnit(c, m) # 0

\* A component's external module array holds each module that has an external
\* position in it, once, and no other.
ExternalListExact ==
    \A c \in Component :
        /\ ~hasDuplicate(externalModules[c])
        /\ \A m \in Module :
             isExternalPositionModule(c, m) <=> externalVirtualUnit[c][m] # 0

\* The component array, which issuance, valuation and the multiplier check walk,
\* holds each component with a default or an external position, once, and no
\* other: nothing owned or owed is skipped, nothing is counted twice, and the
\* requires of addComponent and removeComponent never stop the library.
ComponentListExact ==
    /\ ~hasDuplicate(components)
    /\ \A c \in Component :
         isComponent(c) <=> virtualUnit[c] > 0 \/ hasExternalPosition(c)

\* Both kinds of list are exactly what the units say (Position.editDefaultPosition,
\* Position.editExternalPosition).
PositionListsExact == ExternalListExact /\ ComponentListExact
=============================================================================
