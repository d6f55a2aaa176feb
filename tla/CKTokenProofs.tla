---------------------------- MODULE CKTokenProofs ----------------------------
(***************************************************************************)
(* The invariants of CKToken, proved for every set of modules, components   *)
(* and units and every precise unit.  Together with the type invariant they *)
(* are inductive: what Position.sol decides from real units is right as     *)
(* long as no position has vanished, and the lists are exact as long as     *)
(* what it decides is right.  On them, what getPositions reports depends    *)
(* only on the stored virtual units, and each call stores one of them or    *)
(* none: a CKToken implements PositionLedger.                               *)
(***************************************************************************)
EXTENDS CKTokenLedger, LibraryProofs

PositionInv == NoVanishedPosition /\ ExternalListExact /\ ComponentListExact

\* The module being removed is still initialized, nothing is being removed once a
\* lock is lost, and a module that locks in its own callback is one that does so.
RemovalInv ==
    /\ removing # Null => moduleStates[removing] = "INITIALIZED"
    /\ LockIsLost => removing = Null
    /\ isLocked /\ locker = removing => locker \in LocksOnRemoval

AccessInv == ModuleListExact /\ LockerInitialized /\ RemovalInv

\* The inductive invariant.
IInv == TypeOK /\ AccessInv /\ PositionInv

-----------------------------------------------------------------------------
(* Conversions at the current multiplier *)

LEMMA RealOfVirtual ==
    ASSUME positionMultiplier \in Nat \ {0}, NEW v \in Int
    PROVE  /\ convertVirtualToRealUnit(v) = (v * positionMultiplier) \div PreciseUnit
           /\ convertVirtualToRealUnit(v) \in Int
           /\ v >= 0 => convertVirtualToRealUnit(v) >= 0
           /\ v = 0 => convertVirtualToRealUnit(v) = 0
           /\ v < 0 => convertVirtualToRealUnit(v) < 0
<1>1. convertVirtualToRealUnit(v) = (v * positionMultiplier) \div PreciseUnit
  BY ConservativeMul DEF convertVirtualToRealUnit
<1>2. v * positionMultiplier \in Int
  OBVIOUS
<1>3. v < 0 => v * positionMultiplier < 0
  OBVIOUS
<1>4. v >= 0 => v * positionMultiplier >= 0
  OBVIOUS
<1> QED  BY <1>1, <1>2, <1>3, <1>4, PreciseUnitAssumption

LEMMA VirtualOfReal ==
    ASSUME positionMultiplier \in Nat \ {0}, NEW real \in Int
    PROVE  /\ convertRealToVirtualUnit(real) \in Int
           /\ real >= 0 => convertRealToVirtualUnit(real) >= 0
           /\ real = 0 => convertRealToVirtualUnit(real) = 0
           /\ real < 0 => convertRealToVirtualUnit(real) < 0
<1>1. convertRealToVirtualUnit(real) = (real * PreciseUnit) \div positionMultiplier
  BY ConservativeDiv DEF convertRealToVirtualUnit
<1>2. /\ real * PreciseUnit \in Int
      /\ real < 0 => real * PreciseUnit < 0
      /\ real = 0 => real * PreciseUnit = 0
      /\ real >= 0 => real * PreciseUnit >= 0
  BY PreciseUnitAssumption
<1> QED  BY <1>1, <1>2, FloorBounds, FloorSign

\* Storing a unit and reading it back never gives more than was asked for: an
\* asset is rounded down and a debt up (_convertRealToVirtualUnit and
\* _convertVirtualToRealUnit, "conservative").
THEOREM StoredUnitIsConservative ==
    ASSUME positionMultiplier \in Nat \ {0}, NEW real \in Int
    PROVE  convertVirtualToRealUnit(convertRealToVirtualUnit(real)) <= real
<1> DEFINE v == convertRealToVirtualUnit(real)
<1>1. v = (real * PreciseUnit) \div positionMultiplier /\ v \in Int
  BY ConservativeDiv DEF convertRealToVirtualUnit
<1>2. convertVirtualToRealUnit(v) = (v * positionMultiplier) \div PreciseUnit
  BY <1>1, RealOfVirtual
<1>3. real * PreciseUnit \in Int
  BY PreciseUnitAssumption
<1>4. positionMultiplier * v <= real * PreciseUnit
  BY <1>1, <1>3, FloorBounds
<1> HIDE DEF v
<1>5. v * positionMultiplier \in Int /\ v * positionMultiplier <= real * PreciseUnit
  BY <1>1, <1>4
<1>6. PreciseUnit * ((v * positionMultiplier) \div PreciseUnit) <= v * positionMultiplier
  BY <1>5, FloorBounds, PreciseUnitAssumption
<1>7. (v * positionMultiplier) \div PreciseUnit \in Int
  BY <1>5, FloorBounds, PreciseUnitAssumption
<1>8. PreciseUnit * ((v * positionMultiplier) \div PreciseUnit) <= PreciseUnit * real
  BY <1>3, <1>5, <1>6, <1>7, PreciseUnitAssumption
<1>9. (v * positionMultiplier) \div PreciseUnit <= real
  BY <1>7, <1>8, PreciseUnitAssumption
<1> QED  BY <1>2, <1>9 DEF v

\* What a module stores keeps its sign and does not vanish.
LEMMA StoredUnit ==
    ASSUME positionMultiplier \in Nat \ {0}, NEW real \in Int, IsConvertible(real)
    PROVE  /\ real > 0 => /\ convertRealToVirtualUnit(real) > 0
                          /\ convertVirtualToRealUnit(convertRealToVirtualUnit(real)) > 0
           /\ real # 0 =>
                /\ convertRealToVirtualUnit(real) # 0
                /\ convertVirtualToRealUnit(convertRealToVirtualUnit(real)) # 0
<1> DEFINE v == convertRealToVirtualUnit(real)
<1>1. /\ v \in Int
      /\ real >= 0 => v >= 0
      /\ real < 0 => v < 0
  BY VirtualOfReal
<1>2. /\ convertVirtualToRealUnit(v) \in Int
      /\ v >= 0 => convertVirtualToRealUnit(v) >= 0
      /\ v < 0 => convertVirtualToRealUnit(v) < 0
  BY <1>1, RealOfVirtual
<1>3. real > 0 => v # 0 /\ convertVirtualToRealUnit(v) # 0
  BY DEF IsConvertible
<1> HIDE DEF v
<1>4. (real > 0 => v > 0 /\ convertVirtualToRealUnit(v) > 0)
      /\ (real # 0 => v # 0 /\ convertVirtualToRealUnit(v) # 0)
  BY <1>1, <1>2, <1>3
<1> QED  BY <1>4 DEF v

\* The library sees a position exactly when the token stores one.
LEMMA SeenIsStored ==
    ASSUME TypeOK, NoVanishedPosition, NEW c \in Component
    PROVE  /\ hasDefaultPosition(c) <=> virtualUnit[c] > 0
           /\ getDefaultPositionRealUnit(c) = 0 <=> virtualUnit[c] = 0
           /\ \A m \in Module :
                getExternalPositionRealUnit(c, m) = 0 <=> externalVirtualUnit[c][m] = 0
<1>1. positionMultiplier \in Nat \ {0} /\ virtualUnit[c] \in Nat
  BY DEF TypeOK
<1>2. \A m \in Module : externalVirtualUnit[c][m] \in Int
  BY DEF TypeOK
<1>3. /\ getDefaultPositionRealUnit(c) \in Int
      /\ virtualUnit[c] = 0 => getDefaultPositionRealUnit(c) = 0
  BY <1>1, RealOfVirtual DEF getDefaultPositionRealUnit
<1>4. virtualUnit[c] > 0 => getDefaultPositionRealUnit(c) > 0
  BY DEF NoVanishedPosition
<1>5. ASSUME NEW m \in Module
      PROVE  getExternalPositionRealUnit(c, m) = 0 <=> externalVirtualUnit[c][m] = 0
  BY <1>1, <1>2, RealOfVirtual DEF getExternalPositionRealUnit, NoVanishedPosition
<1> QED  BY <1>1, <1>3, <1>4, <1>5 DEF hasDefaultPosition

-----------------------------------------------------------------------------
(* Position.editDefaultPosition *)

LEMMA EditDefaultPositionStep ==
    ASSUME TypeOK, PositionInv, NEW m \in Module, NEW c \in Component,
           NEW newUnit \in DefaultUnits, EditDefaultPosition(m, c, newUnit)
    PROVE  TypeOK' /\ PositionInv'
<1> DEFINE v == convertRealToVirtualUnit(newUnit)
<1>1. newUnit \in Nat /\ newUnit \in Int
  BY UnitsAssumption
<1>2. positionMultiplier \in Nat \ {0}
  BY DEF TypeOK
<1>3. /\ v \in Nat
      /\ newUnit > 0 <=> v > 0
      /\ v > 0 => convertVirtualToRealUnit(v) > 0
  BY <1>1, <1>2, VirtualOfReal, StoredUnit, SMTT(30) DEF EditDefaultPosition
<1>4. /\ virtualUnit' = [virtualUnit EXCEPT ![c] = v]
      /\ UNCHANGED <<isModule, manager, locker, isLocked, modules, moduleStates, removing,
                     externalModules, externalVirtualUnit, positionMultiplier>>
  BY DEF EditDefaultPosition, accessVars
<1>5. hasDefaultPosition(c) <=> virtualUnit[c] > 0
  BY SeenIsStored DEF PositionInv
<1>6. /\ virtualUnit \in [Component -> Nat]
      /\ virtualUnit'[c] = v
      /\ \A d \in Component : d # c => virtualUnit'[d] = virtualUnit[d]
      /\ virtualUnit' \in [Component -> Nat]
  BY <1>3, <1>4 DEF TypeOK
<1> HIDE DEF v
<1>7. /\ components' \in Seq(Component)
      /\ ~hasDuplicate(components')
      /\ \A d \in Component :
           contains(components', d) <=> virtualUnit'[d] > 0 \/ hasExternalPosition(d)
  <2>0. /\ components \in Seq(Component) /\ ~hasDuplicate(components)
        /\ \A d \in Component :
             contains(components, d) <=> virtualUnit[d] > 0 \/ hasExternalPosition(d)
    BY DEF TypeOK, PositionInv, ComponentListExact, isComponent
  <2>1. CASE OpensComponent(c, newUnit)
    <3>1. ~contains(components, c) /\ components' = Append(components, c)
      BY <2>1, <1>1 DEF EditDefaultPosition, ClosesComponent, OpensComponent, isComponent
    <3>2. v > 0
      BY <2>1, <1>3 DEF OpensComponent
    <3> QED  BY <3>1, <3>2, <2>0, <1>6, AppendNew
  <2>2. CASE ClosesComponent(c, newUnit)
    <3>1. contains(components, c) /\ components' = removeStorage(components, c)
      BY <2>2, <1>1 DEF EditDefaultPosition, ClosesComponent, OpensComponent, isComponent
    <3>2. ~(v > 0) /\ ~hasExternalPosition(c)
      BY <2>2, <1>3 DEF ClosesComponent
    <3> QED  BY <3>1, <3>2, <2>0, <1>6, RemoveStorage
  <2>3. CASE ~OpensComponent(c, newUnit) /\ ~ClosesComponent(c, newUnit)
    <3>1. components' = components
      BY <2>3 DEF EditDefaultPosition
    <3>2. v > 0 \/ hasExternalPosition(c) <=> virtualUnit[c] > 0 \/ hasExternalPosition(c)
      BY <2>3, <1>1, <1>3, <1>5, <1>6 DEF OpensComponent, ClosesComponent
    <3> QED  BY <3>1, <3>2, <2>0, <1>6
  <2> QED  BY <2>1, <2>2, <2>3
<1>8. TypeOK'
  BY <1>4, <1>6, <1>7 DEF TypeOK
<1>9. NoVanishedPosition'
  BY <1>3, <1>4, <1>6
  DEF PositionInv, NoVanishedPosition, getDefaultPositionRealUnit,
      getExternalPositionRealUnit, convertVirtualToRealUnit
<1>10. ExternalListExact'
  BY <1>4 DEF PositionInv, ExternalListExact, isExternalPositionModule
<1>11. ComponentListExact'
  BY <1>4, <1>7 DEF ComponentListExact, isComponent, hasExternalPosition
<1> QED  BY <1>8, <1>9, <1>10, <1>11 DEF PositionInv

-----------------------------------------------------------------------------
(* Position.editExternalPosition *)

LEMMA EditExternalPositionStep ==
    ASSUME TypeOK, PositionInv, NEW m \in Module, NEW c \in Component,
           NEW newUnit \in ExternalUnits, EditExternalPosition(m, c, newUnit)
    PROVE  TypeOK' /\ PositionInv'
<1> DEFINE v == convertRealToVirtualUnit(newUnit)
<1>1. newUnit \in Int /\ newUnit # 0
  BY UnitsAssumption DEF EditExternalPosition
<1>2. positionMultiplier \in Nat \ {0}
  BY DEF TypeOK
<1>3. v \in Int /\ v # 0 /\ convertVirtualToRealUnit(v) # 0
  BY <1>1, <1>2, VirtualOfReal, StoredUnit DEF EditExternalPosition
<1>4. /\ externalVirtualUnit' = [externalVirtualUnit EXCEPT ![c][m] = v]
      /\ UNCHANGED <<isModule, manager, locker, isLocked, modules, moduleStates, removing,
                     virtualUnit, positionMultiplier>>
  BY DEF EditExternalPosition, accessVars
<1>5. /\ externalVirtualUnit' \in [Component -> [Module -> Int]]
      /\ externalVirtualUnit'[c][m] = v
      /\ \A d \in Component, n \in Module :
           d # c \/ n # m => externalVirtualUnit'[d][n] = externalVirtualUnit[d][n]
  BY <1>3, <1>4 DEF TypeOK
<1> HIDE DEF v
<1>6. /\ externalModules \in [Component -> Seq(Module)]
      /\ \A d \in Component : ~hasDuplicate(externalModules[d])
      /\ \A d \in Component, n \in Module :
           contains(externalModules[d], n) <=> externalVirtualUnit[d][n] # 0
  BY DEF TypeOK, PositionInv, ExternalListExact, isExternalPositionModule
<1>7. /\ externalModules' \in [Component -> Seq(Module)]
      /\ \A d \in Component : d # c => externalModules'[d] = externalModules[d]
      /\ ~hasDuplicate(externalModules'[c])
      /\ \A n \in Module :
           contains(externalModules'[c], n) <=> contains(externalModules[c], n) \/ n = m
  <2>1. CASE contains(externalModules[c], m)
    <3>1. externalModules' = externalModules
      BY <2>1 DEF EditExternalPosition, isExternalPositionModule
    <3> QED  BY <3>1, <2>1, <1>6
  <2>2. CASE ~contains(externalModules[c], m)
    <3>1. externalModules' = [externalModules EXCEPT ![c] = Append(externalModules[c], m)]
      BY <2>2 DEF EditExternalPosition, isExternalPositionModule
    <3>2. /\ Append(externalModules[c], m) \in Seq(Module)
          /\ ~hasDuplicate(Append(externalModules[c], m))
          /\ \A n : contains(Append(externalModules[c], m), n)
                     <=> contains(externalModules[c], n) \/ n = m
      BY <2>2, <1>6, AppendNew
    <3>3. /\ externalModules'[c] = Append(externalModules[c], m)
          /\ \A d \in Component : d # c => externalModules'[d] = externalModules[d]
          /\ externalModules' \in [Component -> Seq(Module)]
      BY <3>1, <3>2, <1>6
    <3> QED  BY <3>2, <3>3
  <2> QED  BY <2>1, <2>2
<1>8. Len(externalModules'[c]) > 0
  <2>1. contains(externalModules'[c], m)
    BY <1>7
  <2>2. externalModules'[c] \in Seq(Module)
    BY <1>7
  <2> QED  BY <2>1, <2>2, DomainIsRange DEF contains
<1>9. /\ components' \in Seq(Component)
      /\ ~hasDuplicate(components')
      /\ \A d \in Component : contains(components', d) <=> contains(components, d) \/ d = c
  <2>0. components \in Seq(Component) /\ ~hasDuplicate(components)
    BY DEF TypeOK, PositionInv, ComponentListExact
  <2>1. CASE contains(components, c)
    BY <2>0, <2>1 DEF EditExternalPosition, isComponent
  <2>2. CASE ~contains(components, c)
    <3>1. components' = Append(components, c)
      BY <2>2 DEF EditExternalPosition, isComponent
    <3> QED  BY <3>1, <2>0, <2>2, AppendNew
  <2> QED  BY <2>1, <2>2
<1>10. TypeOK'
  BY <1>4, <1>5, <1>7, <1>9 DEF TypeOK
<1>11. NoVanishedPosition'
  BY <1>3, <1>4, <1>5
  DEF PositionInv, NoVanishedPosition, getDefaultPositionRealUnit,
      getExternalPositionRealUnit, convertVirtualToRealUnit
<1>12. ExternalListExact'
  <2>1. ASSUME NEW d \in Component
        PROVE  /\ ~hasDuplicate(externalModules'[d])
               /\ \A n \in Module :
                    contains(externalModules'[d], n) <=> externalVirtualUnit'[d][n] # 0
    <3>1. CASE d = c
      <4>1. ASSUME NEW n \in Module
            PROVE  contains(externalModules'[c], n) <=> externalVirtualUnit'[c][n] # 0
        <5>1. CASE n = m
          BY <5>1, <1>3, <1>5, <1>7
        <5>2. CASE n # m
          BY <5>2, <1>5, <1>6, <1>7
        <5> QED  BY <5>1, <5>2
      <4> QED  BY <3>1, <4>1, <1>7
    <3>2. CASE d # c
      BY <3>2, <1>5, <1>6, <1>7
    <3> QED  BY <3>1, <3>2
  <2> QED  BY <2>1 DEF ExternalListExact, isExternalPositionModule
<1>13. ComponentListExact'
  BY <1>4, <1>7, <1>8, <1>9
  DEF PositionInv, ComponentListExact, isComponent, hasExternalPosition
<1> QED  BY <1>10, <1>11, <1>12, <1>13 DEF PositionInv

LEMMA CloseExternalPositionStep ==
    ASSUME TypeOK, PositionInv, NEW m \in Module, NEW c \in Component,
           CloseExternalPosition(m, c)
    PROVE  TypeOK' /\ PositionInv'
<1>1. /\ externalVirtualUnit' = [externalVirtualUnit EXCEPT ![c][m] = 0]
      /\ UNCHANGED <<isModule, manager, locker, isLocked, modules, moduleStates, removing,
                     virtualUnit, positionMultiplier>>
      /\ contains(externalModules[c], m)
      /\ externalModules' = [externalModules EXCEPT ![c] = removeStorage(externalModules[c], m)]
  BY DEF CloseExternalPosition, accessVars, removeExternalPosition, isExternalPositionModule
<1>2. /\ externalVirtualUnit' \in [Component -> [Module -> Int]]
      /\ externalVirtualUnit'[c][m] = 0
      /\ \A d \in Component, n \in Module :
           d # c \/ n # m => externalVirtualUnit'[d][n] = externalVirtualUnit[d][n]
  BY <1>1 DEF TypeOK
<1>3. /\ externalModules \in [Component -> Seq(Module)]
      /\ \A d \in Component : ~hasDuplicate(externalModules[d])
      /\ \A d \in Component, n \in Module :
           contains(externalModules[d], n) <=> externalVirtualUnit[d][n] # 0
  BY DEF TypeOK, PositionInv, ExternalListExact, isExternalPositionModule
<1>4. /\ removeStorage(externalModules[c], m) \in Seq(Module)
      /\ Len(removeStorage(externalModules[c], m)) = Len(externalModules[c]) - 1
      /\ ~hasDuplicate(removeStorage(externalModules[c], m))
      /\ \A n : contains(removeStorage(externalModules[c], m), n)
                 <=> contains(externalModules[c], n) /\ n # m
  BY <1>1, <1>3, RemoveStorage
<1>5. /\ externalModules'[c] = removeStorage(externalModules[c], m)
      /\ \A d \in Component : d # c => externalModules'[d] = externalModules[d]
      /\ externalModules' \in [Component -> Seq(Module)]
  BY <1>1, <1>3, <1>4
<1>6. externalModules[c] \in Seq(Module) /\ Len(externalModules[c]) \in Nat
      /\ Len(externalModules[c]) > 0
  BY <1>1, <1>3, DomainIsRange DEF contains
<1>7. getDefaultPositionRealUnit(c) = 0 <=> virtualUnit[c] = 0
  BY SeenIsStored DEF PositionInv
<1>8. virtualUnit[c] \in Nat
  BY DEF TypeOK
<1>9. /\ components \in Seq(Component) /\ ~hasDuplicate(components)
      /\ \A d \in Component :
           contains(components, d) <=> virtualUnit[d] > 0 \/ Len(externalModules[d]) > 0
  BY DEF TypeOK, PositionInv, ComponentListExact, isComponent, hasExternalPosition
<1>10. /\ components' \in Seq(Component)
       /\ ~hasDuplicate(components')
       /\ \A d \in Component :
            contains(components', d) <=> virtualUnit[d] > 0 \/ Len(externalModules'[d]) > 0
  <2>1. CASE IsLastPosition(c)
    <3>1. contains(components, c) /\ components' = removeStorage(components, c)
      BY <2>1 DEF CloseExternalPosition, isComponent
    <3>2. /\ components' \in Seq(Component)
          /\ ~hasDuplicate(components')
          /\ \A d : contains(components', d) <=> contains(components, d) /\ d # c
      BY <3>1, <1>9, RemoveStorage
    <3>3. ~(virtualUnit[c] > 0) /\ ~(Len(externalModules'[c]) > 0)
      BY <2>1, <1>4, <1>5, <1>6, <1>7, <1>8 DEF IsLastPosition
    <3> QED  BY <3>2, <3>3, <1>5, <1>9
  <2>2. CASE ~IsLastPosition(c)
    <3>1. components' = components
      BY <2>2 DEF CloseExternalPosition
    <3> DEFINE before == Len(externalModules[c])
               after  == Len(externalModules'[c])
    <3>2. before \in Nat /\ before > 0 /\ after = before - 1
      BY <1>4, <1>5, <1>6
    <3>3. virtualUnit[c] = 0 => before # 1
      BY <2>2, <1>7 DEF IsLastPosition
    <3> HIDE DEF before, after
    <3>4. virtualUnit[c] > 0 \/ after > 0
      BY <3>2, <3>3, <1>8
    <3> QED  BY <3>1, <3>4, <1>5, <1>6, <1>9 DEF after
  <2> QED  BY <2>1, <2>2
<1>11. TypeOK'
  BY <1>1, <1>2, <1>5, <1>10 DEF TypeOK
<1>12. NoVanishedPosition'
  BY <1>1, <1>2
  DEF PositionInv, NoVanishedPosition, getDefaultPositionRealUnit,
      getExternalPositionRealUnit, convertVirtualToRealUnit
<1>13. ExternalListExact'
  <2>1. ASSUME NEW d \in Component
        PROVE  /\ ~hasDuplicate(externalModules'[d])
               /\ \A n \in Module :
                    contains(externalModules'[d], n) <=> externalVirtualUnit'[d][n] # 0
    <3>1. CASE d = c
      BY <3>1, <1>2, <1>3, <1>4, <1>5, ZenonT(60)
    <3>2. CASE d # c
      BY <3>2, <1>2, <1>3, <1>5, ZenonT(60)
    <3> QED  BY <3>1, <3>2
  <2> QED  BY <2>1 DEF ExternalListExact, isExternalPositionModule
<1>14. ComponentListExact'
  BY <1>1, <1>10 DEF ComponentListExact, isComponent, hasExternalPosition
<1> QED  BY <1>11, <1>12, <1>13, <1>14 DEF PositionInv

-----------------------------------------------------------------------------
(* CKToken.editPositionMultiplier *)

LEMMA AbsVirtualUnitsArePositions ==
    ASSUME TypeOK, PositionInv
    PROVE  /\ AbsVirtualUnits \subseteq Nat \ {0}
           /\ \A c \in Component : virtualUnit[c] > 0 => virtualUnit[c] \in AbsVirtualUnits
           /\ \A c \in Component, m \in Module : externalVirtualUnit[c][m] # 0 =>
                absoluteValue(externalVirtualUnit[c][m]) \in AbsVirtualUnits
<1>1. /\ \A c \in Component : virtualUnit[c] \in Nat
      /\ \A c \in Component, m \in Module : externalVirtualUnit[c][m] \in Int
      /\ externalModules \in [Component -> Seq(Module)]
  BY DEF TypeOK
<1>2. \A c \in Component, m \in Module :
        externalVirtualUnit[c][m] # 0 =>
            absoluteValue(externalVirtualUnit[c][m]) \in Nat \ {0}
  BY <1>1 DEF absoluteValue
<1>3. \A c \in Component : virtualUnit[c] > 0 => isComponent(c)
  BY DEF PositionInv, ComponentListExact
<1>4. ASSUME NEW c \in Component, NEW m \in Module, externalVirtualUnit[c][m] # 0
      PROVE  isExternalPositionModule(c, m) /\ isComponent(c)
  <2>1. isExternalPositionModule(c, m)
    BY <1>4 DEF PositionInv, ExternalListExact
  <2>2. externalModules[c] \in Seq(Module)
    BY <1>1
  <2>3. hasExternalPosition(c)
    BY <2>1, <2>2, DomainIsRange
    DEF isExternalPositionModule, contains, hasExternalPosition
  <2> QED  BY <2>1, <2>3 DEF PositionInv, ComponentListExact
<1>5. AbsVirtualUnits \subseteq Nat \ {0}
  BY <1>1, <1>2 DEF AbsVirtualUnits
<1>6. ASSUME NEW c \in Component, virtualUnit[c] > 0
      PROVE  virtualUnit[c] \in AbsVirtualUnits
  BY <1>3, <1>6 DEF AbsVirtualUnits
<1>7. ASSUME NEW c \in Component, NEW m \in Module, externalVirtualUnit[c][m] # 0
      PROVE  absoluteValue(externalVirtualUnit[c][m]) \in AbsVirtualUnits
  <2>1. <<c, m>> \in {q \in Component \X Module : /\ isComponent(q[1])
                                                /\ isExternalPositionModule(q[1], q[2])
                                                /\ externalVirtualUnit[q[1]][q[2]] # 0}
    BY <1>4, <1>7
  <2> QED  BY <2>1 DEF AbsVirtualUnits
<1> QED  BY <1>5, <1>6, <1>7

LEMMA EditPositionMultiplierStep ==
    ASSUME TypeOK, PositionInv, NEW m \in Module, NEW newMultiplier \in Multipliers,
           EditPositionMultiplier(m, newMultiplier)
    PROVE  TypeOK' /\ PositionInv'
<1>1. newMultiplier \in Int
  BY UnitsAssumption
<1>2. PICK min \in AbsVirtualUnits :
        /\ \A unit \in AbsVirtualUnits : min <= unit
        /\ conservativePreciseMul(min, newMultiplier) > 0
  BY DEF EditPositionMultiplier, ValidateNewMultiplier
<1>3. min \in Nat \ {0}
  BY <1>2, AbsVirtualUnitsArePositions
<1>4. PreciseUnit <= min * newMultiplier
  <2>1. min * newMultiplier \in Int
    BY <1>1, <1>3
  <2>2. (min * newMultiplier) \div PreciseUnit > 0
    BY <1>1, <1>2, <1>3, ConservativeMul
  <2>3. (min * newMultiplier) \div PreciseUnit \in Int
    BY <2>1, FloorBounds, PreciseUnitAssumption
  <2>4. PreciseUnit * ((min * newMultiplier) \div PreciseUnit) <= min * newMultiplier
    BY <2>1, FloorBounds, PreciseUnitAssumption
  <2>5. PreciseUnit <= PreciseUnit * ((min * newMultiplier) \div PreciseUnit)
    BY <2>2, <2>3, PreciseUnitAssumption
  <2> QED  BY <2>1, <2>3, <2>4, <2>5, PreciseUnitAssumption
<1>5. newMultiplier \in Nat \ {0}
  BY <1>1, <1>3, <1>4, PreciseUnitAssumption
<1>6. ASSUME NEW unit \in Nat, min <= unit
      PROVE  conservativePreciseMul(unit, newMultiplier) > 0
  <2>1. PreciseUnit <= unit * newMultiplier
    BY <1>3, <1>4, <1>5, <1>6, PreciseUnitAssumption
  <2>2. unit * newMultiplier \in Int
    BY <1>5, <1>6
  <2>3. 1 <= (unit * newMultiplier) \div PreciseUnit
    BY <2>1, <2>2, FloorIsGreatest, PreciseUnitAssumption
  <2>4. (unit * newMultiplier) \div PreciseUnit \in Int
    BY <2>2, FloorBounds, PreciseUnitAssumption
  <2> QED  BY <1>5, <1>6, <2>3, <2>4, ConservativeMul
<1>7. /\ positionMultiplier' = newMultiplier
      /\ UNCHANGED <<isModule, manager, locker, isLocked, modules, moduleStates, removing,
                     components, virtualUnit, externalModules, externalVirtualUnit>>
  BY DEF EditPositionMultiplier, accessVars
<1>8. TypeOK'
  BY <1>5, <1>7 DEF TypeOK
<1>9. ASSUME NEW c \in Component, virtualUnit[c] > 0
      PROVE  conservativePreciseMul(virtualUnit[c], newMultiplier) > 0
  <2>1. virtualUnit[c] \in Nat
    BY DEF TypeOK
  <2>2. min <= virtualUnit[c]
    BY <1>2, <1>9, AbsVirtualUnitsArePositions
  <2> QED  BY <1>6, <2>1, <2>2
<1>10. ASSUME NEW c \in Component, NEW n \in Module, externalVirtualUnit[c][n] # 0
       PROVE  conservativePreciseMul(externalVirtualUnit[c][n], newMultiplier) # 0
  <2> DEFINE unit == externalVirtualUnit[c][n]
  <2>1. unit \in Int
    BY DEF TypeOK
  <2>2. min <= absoluteValue(unit)
    BY <1>2, <1>10, AbsVirtualUnitsArePositions
  <2> HIDE DEF unit
  <2>3. CASE unit >= 0
    <3>1. conservativePreciseMul(unit, newMultiplier) > 0
      BY <2>1, <2>2, <2>3, <1>6 DEF absoluteValue
    <3> QED  BY <3>1 DEF unit
  <2>4. CASE unit < 0
    <3>1. unit * newMultiplier \in Int /\ unit * newMultiplier < 0
      BY <2>1, <2>4, <1>5
    <3>2. (unit * newMultiplier) \div PreciseUnit < 0
      BY <3>1, FloorSign, PreciseUnitAssumption
    <3>3. conservativePreciseMul(unit, newMultiplier) < 0
      BY <2>1, <3>2, <1>5, ConservativeMul
    <3> QED  BY <3>3 DEF unit
  <2> QED  BY <2>1, <2>3, <2>4
<1>11. NoVanishedPosition'
  BY <1>7, <1>9, <1>10
  DEF NoVanishedPosition, getDefaultPositionRealUnit, getExternalPositionRealUnit,
      convertVirtualToRealUnit
<1>12. ExternalListExact'
  BY <1>7 DEF PositionInv, ExternalListExact, isExternalPositionModule
<1>13. ComponentListExact'
  BY <1>7 DEF PositionInv, ComponentListExact, isComponent, hasExternalPosition
<1> QED  BY <1>8, <1>11, <1>12, <1>13 DEF PositionInv

-----------------------------------------------------------------------------
(* The life of a module *)

LEMMA PositionsUnchanged ==
    ASSUME PositionInv, UNCHANGED positionVars
    PROVE  PositionInv'
BY DEF PositionInv, positionVars, NoVanishedPosition, ExternalListExact,
       ComponentListExact, getDefaultPositionRealUnit, getExternalPositionRealUnit,
       convertVirtualToRealUnit, isExternalPositionModule, isComponent,
       hasExternalPosition

LEMMA AccessUnchanged ==
    ASSUME AccessInv, UNCHANGED accessVars
    PROVE  AccessInv'
BY DEF AccessInv, accessVars, ModuleListExact, LockerInitialized, RemovalInv, LockIsLost

\* initializeModule pushes a module that was pending, so not in the array.
LEMMA InitializeModuleStep ==
    ASSUME TypeOK, AccessInv, NEW m \in Module, InitializeModule(m)
    PROVE  TypeOK' /\ AccessInv'
<1>1. /\ moduleStates[m] = "PENDING" /\ ~isLocked
      /\ moduleStates' = [moduleStates EXCEPT ![m] = "INITIALIZED"]
      /\ modules' = Append(modules, m)
      /\ UNCHANGED <<isModule, manager, locker, isLocked, removing, components,
                     virtualUnit, externalModules, externalVirtualUnit,
                     positionMultiplier>>
  BY DEF InitializeModule, MayInitialize, positionVars
<1>2. /\ modules \in Seq(Module) /\ ~hasDuplicate(modules)
      /\ \A n \in Module : contains(modules, n) <=> moduleStates[n] = "INITIALIZED"
      /\ moduleStates \in [Module -> ModuleState]
  BY DEF TypeOK, AccessInv, ModuleListExact
<1>3. ~contains(modules, m)
  BY <1>1, <1>2
<1>4. /\ modules' \in Seq(Module) /\ ~hasDuplicate(modules')
      /\ \A x : contains(modules', x) <=> contains(modules, x) \/ x = m
  BY <1>1, <1>2, <1>3, AppendNew
<1>5. /\ moduleStates' \in [Module -> ModuleState]
      /\ moduleStates'[m] = "INITIALIZED"
      /\ \A n \in Module : n # m => moduleStates'[n] = moduleStates[n]
  BY <1>1, <1>2 DEF ModuleState
<1>6. TypeOK'
  BY <1>1, <1>4, <1>5 DEF TypeOK
<1>7. ModuleListExact'
  BY <1>2, <1>4, <1>5 DEF ModuleListExact
<1>8. LockerInitialized' /\ RemovalInv'
  BY <1>1, <1>5, NullAssumption
  DEF TypeOK, AccessInv, LockerInitialized, RemovalInv, LockIsLost
<1> QED  BY <1>6, <1>7, <1>8 DEF AccessInv

\* The callback starts on an unlocked token, for an initialized module.
LEMMA RemoveModuleStep ==
    ASSUME TypeOK, AccessInv, NEW sender, NEW m \in Module, RemoveModule(sender, m)
    PROVE  TypeOK' /\ AccessInv'
<1>1. /\ ~isLocked /\ moduleStates[m] = "INITIALIZED" /\ removing' = m
      /\ UNCHANGED <<isModule, manager, locker, isLocked, modules, moduleStates,
                     components, virtualUnit, externalModules, externalVirtualUnit,
                     positionMultiplier>>
  BY DEF RemoveModule, IsRemovable, positionVars
<1>2. TypeOK'
  BY <1>1 DEF TypeOK
<1>3. ModuleListExact' /\ LockerInitialized'
  BY <1>1 DEF AccessInv, ModuleListExact, LockerInitialized
<1>4. RemovalInv'
  BY <1>1 DEF RemovalInv, LockIsLost
<1> QED  BY <1>2, <1>3, <1>4 DEF AccessInv

\* The rest of removeModule takes the module out of the array it is in once.
LEMMA RemoveModuleReturnsStep ==
    ASSUME TypeOK, AccessInv, NEW m \in Module, RemoveModuleReturns(m)
    PROVE  TypeOK' /\ AccessInv'
<1>1. /\ removing = m /\ removing' = Null
      /\ contains(modules, m)
      /\ moduleStates' = [moduleStates EXCEPT ![m] = "NONE"]
      /\ modules' = removeStorage(modules, m)
      /\ UNCHANGED <<isModule, manager, locker, isLocked, components, virtualUnit,
                     externalModules, externalVirtualUnit, positionMultiplier>>
  BY DEF RemoveModuleReturns, positionVars
<1>2. /\ modules \in Seq(Module) /\ ~hasDuplicate(modules)
      /\ \A n \in Module : contains(modules, n) <=> moduleStates[n] = "INITIALIZED"
      /\ moduleStates \in [Module -> ModuleState]
  BY DEF TypeOK, AccessInv, ModuleListExact
<1>3. /\ modules' \in Seq(Module) /\ ~hasDuplicate(modules')
      /\ \A x : contains(modules', x) <=> contains(modules, x) /\ x # m
  BY <1>1, <1>2, RemoveStorage
<1>4. /\ moduleStates' \in [Module -> ModuleState]
      /\ moduleStates'[m] = "NONE"
      /\ \A n \in Module : n # m => moduleStates'[n] = moduleStates[n]
  BY <1>1, <1>2 DEF ModuleState
<1>5. TypeOK'
  BY <1>1, <1>3, <1>4 DEF TypeOK
<1>6. ModuleListExact'
  BY <1>2, <1>3, <1>4 DEF ModuleListExact
<1>7. locker \in Module \union {Null} /\ m # Null /\ Null \notin Module
  BY NullAssumption DEF TypeOK
<1>8. LockerInitialized'
  <2>1. (isLocked <=> locker # Null)'
    BY <1>1 DEF AccessInv, LockerInitialized
  <2>2. ASSUME isLocked'
        PROVE  moduleStates'[locker] = "INITIALIZED" \/ locker \in LocksOnRemoval
    <3>1. isLocked /\ locker \in Module
      BY <1>1, <1>7, <2>2 DEF AccessInv, LockerInitialized
    <3>2. CASE locker = m
      BY <1>1, <3>1, <3>2 DEF AccessInv, RemovalInv
    <3>3. CASE locker # m
      BY <1>4, <3>1, <3>3 DEF AccessInv, LockerInitialized
    <3> QED  BY <3>2, <3>3
  <2> QED  BY <1>1, <2>1, <2>2 DEF LockerInitialized
<1>9. RemovalInv'
  <2>1. isLocked => locker # Null
    BY DEF AccessInv, LockerInitialized
  <2> QED  BY <1>1, <2>1 DEF RemovalInv, LockIsLost
<1> QED  BY <1>5, <1>6, <1>8, <1>9 DEF AccessInv

\* addModule and removePendingModule move a module between NONE and PENDING:
\* the array, the lock and the removal are about INITIALIZED ones.
LEMMA PendingStep ==
    ASSUME TypeOK, AccessInv, NEW sender, NEW m \in Module,
           AddModule(sender, m) \/ RemovePendingModule(sender, m)
    PROVE  TypeOK' /\ AccessInv'
<1>1. PICK s \in ModuleState \ {"INITIALIZED"} :
        moduleStates' = [moduleStates EXCEPT ![m] = s]
  BY DEF AddModule, RemovePendingModule, ModuleState
<1>2. /\ moduleStates[m] # "INITIALIZED"
      /\ UNCHANGED <<isModule, manager, locker, isLocked, modules, removing,
                     components, virtualUnit, externalModules, externalVirtualUnit,
                     positionMultiplier>>
  BY DEF AddModule, RemovePendingModule, IsPending, positionVars
<1>3. /\ moduleStates' \in [Module -> ModuleState]
      /\ \A n \in Module :
           moduleStates'[n] = "INITIALIZED" <=> moduleStates[n] = "INITIALIZED"
  BY <1>1, <1>2 DEF TypeOK
<1>4. TypeOK'
  BY <1>2, <1>3 DEF TypeOK
<1>5. ModuleListExact'
  BY <1>2, <1>3 DEF AccessInv, ModuleListExact
<1>6. LockerInitialized' /\ RemovalInv'
  <2>1. /\ isLocked => locker \in Module
        /\ removing # Null => removing \in Module
    BY DEF TypeOK, AccessInv, LockerInitialized
  <2> QED  BY <1>2, <1>3, <2>1 DEF AccessInv, LockerInitialized, RemovalInv, LockIsLost
<1> QED  BY <1>4, <1>5, <1>6 DEF AccessInv

LEMMA LockStep ==
    ASSUME TypeOK, AccessInv, NEW m \in Module, Lock(m) \/ Unlock(m)
    PROVE  TypeOK' /\ AccessInv'
<1>1. /\ moduleStates[m] = "INITIALIZED" /\ m # Null
      /\ UNCHANGED <<isModule, manager, modules, moduleStates, removing, components,
                     virtualUnit, externalModules, externalVirtualUnit,
                     positionMultiplier>>
  BY NullAssumption DEF Lock, Unlock, OnlyModule, positionVars
<1>2. \/ /\ locker' = m /\ isLocked' = TRUE
         /\ removing = m => m \in LocksOnRemoval
      \/ locker' = Null /\ isLocked' = FALSE
  BY DEF Lock, Unlock
<1>3. TypeOK'
  BY <1>1, <1>2 DEF TypeOK
<1>4. ModuleListExact' /\ LockerInitialized'
  BY <1>1, <1>2 DEF AccessInv, ModuleListExact, LockerInitialized
<1>5. RemovalInv'
  BY <1>1, <1>2 DEF AccessInv, RemovalInv, LockIsLost
<1> QED  BY <1>3, <1>4, <1>5 DEF AccessInv

LEMMA AccessStep ==
    ASSUME TypeOK, AccessInv, AccessNext
    PROVE  TypeOK' /\ AccessInv' /\ UNCHANGED positionVars
<1> USE DEF positionVars
<1>1. ASSUME NEW m \in Module, ControllerAddModule(m) \/ ControllerRemoveModule(m)
      PROVE  TypeOK' /\ AccessInv' /\ UNCHANGED positionVars
  BY <1>1
  DEF TypeOK, AccessInv, ModuleListExact, LockerInitialized, RemovalInv, LockIsLost,
      ControllerAddModule, ControllerRemoveModule
<1>2. ASSUME NEW m \in Module, InitializeModule(m)
      PROVE  TypeOK' /\ AccessInv' /\ UNCHANGED positionVars
  BY <1>2, InitializeModuleStep DEF InitializeModule
<1>3. ASSUME NEW m \in Module, Lock(m) \/ Unlock(m)
      PROVE  TypeOK' /\ AccessInv' /\ UNCHANGED positionVars
  BY <1>3, LockStep DEF Lock, Unlock
<1>4. ASSUME NEW m \in Module, RemoveModuleReturns(m)
      PROVE  TypeOK' /\ AccessInv' /\ UNCHANGED positionVars
  BY <1>4, RemoveModuleReturnsStep DEF RemoveModuleReturns
<1>5. ASSUME NEW sender, NEW m \in Module,
             AddModule(sender, m) \/ RemovePendingModule(sender, m)
      PROVE  TypeOK' /\ AccessInv' /\ UNCHANGED positionVars
  BY <1>5, PendingStep DEF AddModule, RemovePendingModule
<1>6. ASSUME NEW sender, NEW m \in Module, RemoveModule(sender, m)
      PROVE  TypeOK' /\ AccessInv' /\ UNCHANGED positionVars
  BY <1>6, RemoveModuleStep DEF RemoveModule
<1>7. ASSUME NEW sender, NEW newManager \in Account \union {Null},
             SetManager(sender, newManager)
      PROVE  TypeOK' /\ AccessInv' /\ UNCHANGED positionVars
  BY <1>7
  DEF TypeOK, AccessInv, ModuleListExact, LockerInitialized, RemovalInv, LockIsLost,
      SetManager
<1> QED  BY <1>1, <1>2, <1>3, <1>4, <1>5, <1>6, <1>7 DEF AccessNext

LEMMA PositionStep ==
    ASSUME TypeOK, PositionInv, PositionNext
    PROVE  TypeOK' /\ PositionInv' /\ UNCHANGED accessVars
<1>1. ASSUME NEW m \in Module, NEW c \in Component, NEW newUnit \in DefaultUnits,
             EditDefaultPosition(m, c, newUnit)
      PROVE  TypeOK' /\ PositionInv' /\ UNCHANGED accessVars
  BY <1>1, EditDefaultPositionStep DEF EditDefaultPosition
<1>2. ASSUME NEW m \in Module, NEW c \in Component, NEW newUnit \in ExternalUnits,
             EditExternalPosition(m, c, newUnit)
      PROVE  TypeOK' /\ PositionInv' /\ UNCHANGED accessVars
  BY <1>2, EditExternalPositionStep DEF EditExternalPosition
<1>3. ASSUME NEW m \in Module, NEW c \in Component, CloseExternalPosition(m, c)
      PROVE  TypeOK' /\ PositionInv' /\ UNCHANGED accessVars
  BY <1>3, CloseExternalPositionStep DEF CloseExternalPosition
<1>4. ASSUME NEW m \in Module, NEW newMultiplier \in Multipliers,
             EditPositionMultiplier(m, newMultiplier)
      PROVE  TypeOK' /\ PositionInv' /\ UNCHANGED accessVars
  BY <1>4, EditPositionMultiplierStep DEF EditPositionMultiplier
<1> QED  BY <1>1, <1>2, <1>3, <1>4 DEF PositionNext

-----------------------------------------------------------------------------
(* The theorems *)

\* A created token has positive units in the components it lists, each once, no
\* external position and no initialized module.
LEMMA InitEstablishes ==
    ASSUME Init
    PROVE  IInv
<1>1. PICK list \in ComponentLists, units \in [Component -> DefaultUnits],
           pending \in SUBSET Module, newManager \in Account :
             Create(list, units, pending, newManager)
  BY DEF Init
<1>2. list \in Seq(Component) /\ units \in [Component -> Nat]
  BY ComponentListsAssumption, UnitsAssumption
<1>3. /\ components = list /\ ~hasDuplicate(list)
      /\ \A c \in Component : virtualUnit[c] \in Nat
      /\ \A c \in Component : contains(list, c) <=> virtualUnit[c] > 0
      /\ virtualUnit \in [Component -> Nat]
  BY <1>1, <1>2 DEF Create
<1>4. /\ modules = <<>> /\ locker = Null /\ isLocked = FALSE /\ manager \in Account
      /\ removing = Null
      /\ moduleStates \in [Module -> {"NONE", "PENDING"}]
      /\ isModule \in [Module -> BOOLEAN]
      /\ externalModules = [c \in Component |-> <<>>]
      /\ externalVirtualUnit = [c \in Component |-> [m \in Module |-> 0]]
      /\ positionMultiplier = PreciseUnit
  BY <1>1 DEF Create, Init
<1>5. TypeOK
  <2>1. <<>> \in Seq(Module) /\ components \in Seq(Component)
    BY <1>2, <1>3
  <2>2. /\ externalModules \in [Component -> Seq(Module)]
        /\ externalVirtualUnit \in [Component -> [Module -> Int]]
    BY <1>4, <2>1
  <2>3. moduleStates \in [Module -> ModuleState]
    BY <1>4 DEF ModuleState
  <2> QED  BY <1>3, <1>4, <2>1, <2>2, <2>3, PreciseUnitAssumption DEF TypeOK
<1>6. ModuleListExact /\ LockerInitialized /\ RemovalInv
  BY <1>4
  DEF ModuleListExact, LockerInitialized, RemovalInv, LockIsLost, hasDuplicate, contains
<1>7. NoVanishedPosition
  <2>1. ASSUME NEW c \in Component, virtualUnit[c] > 0
        PROVE  getDefaultPositionRealUnit(c) > 0
    <3>1. (virtualUnit[c] * PreciseUnit) \div PreciseUnit = virtualUnit[c]
      BY <1>3, PreciseUnitAssumption
    <3> QED  BY <1>3, <1>4, <1>5, <2>1, <3>1, RealOfVirtual
             DEF TypeOK, getDefaultPositionRealUnit
  <2> QED  BY <1>4, <2>1 DEF NoVanishedPosition
<1>8. ExternalListExact
  BY <1>4 DEF ExternalListExact, isExternalPositionModule, hasDuplicate, contains
<1>9. ComponentListExact
  BY <1>3, <1>4 DEF ComponentListExact, isComponent, hasExternalPosition
<1> QED  BY <1>5, <1>6, <1>7, <1>8, <1>9 DEF IInv, AccessInv, PositionInv

LEMMA NextPreserves ==
    ASSUME IInv, [Next]_vars
    PROVE  IInv'
<1>1. CASE AccessNext
  BY <1>1, AccessStep, PositionsUnchanged DEF IInv
<1>2. CASE PositionNext
  BY <1>2, PositionStep, AccessUnchanged DEF IInv
<1>3. CASE UNCHANGED vars
  <2>1. UNCHANGED accessVars /\ UNCHANGED positionVars
    BY <1>3 DEF vars, accessVars, positionVars
  <2>2. TypeOK'
    BY <1>3 DEF IInv, TypeOK, vars
  <2> QED  BY <2>1, <2>2, AccessUnchanged, PositionsUnchanged DEF IInv
<1> QED  BY <1>1, <1>2, <1>3 DEF Next

\* The lists, the lock and the positions stay consistent together, whatever the
\* manager, the Controller and the modules do and in whatever order.
THEOREM Invariance == Spec => []IInv
<1>1. Init => IInv
  BY InitEstablishes
<1>2. IInv /\ [Next]_vars => IInv'
  BY NextPreserves
<1> QED  BY <1>1, <1>2, PTL DEF Spec

\* The types hold, and no multiplier a module asks for brings it to zero.
THEOREM TypeCorrect == Spec => []TypeOK
<1>1. IInv => TypeOK
  BY DEF IInv
<1> QED  BY <1>1, Invariance, PTL

\* The module array is exactly the initialized modules, also while a module that is
\* being removed acts in its callback; the lock is held by one of them, unless its
\* holder took it in its own removal callback; and a removal whose callback returns
\* goes through (addModule, initializeModule, removeModule, removePendingModule, lock
\* and unlock).
THEOREM AccessCorrect == Spec => []AccessExact
<1>1. IInv => AccessExact
  <2> SUFFICES ASSUME IInv
               PROVE  RemovalGoesThrough
    BY DEF IInv, AccessInv, AccessExact
  <2>1. removing # Null => removing \in Module /\ moduleStates[removing] = "INITIALIZED"
    BY DEF IInv, TypeOK, AccessInv, RemovalInv
  <2> QED  BY <2>1 DEF IInv, AccessInv, ModuleListExact, RemovalGoesThrough
<1> QED  BY <1>1, Invariance, PTL

\* A lock whose holder was removed in the callback in which it took it is never let
\* go, and nothing that asks for an unlocked token or for the locker happens again.
THEOREM LostLockIsForGood == Spec => LostLockFreezes
<1> DEFINE Frozen == LockIsLost => UNCHANGED <<manager, locker, isLocked, modules, positionVars>>
<1>1. ASSUME IInv, [Next]_vars
      PROVE  [Frozen]_vars
  <2> SUFFICES ASSUME Next, LockIsLost
               PROVE  UNCHANGED <<manager, locker, isLocked, modules, positionVars>>
    BY <1>1
  <2>1. /\ isLocked /\ removing = Null /\ Null \notin Module
        /\ \A m \in Module : ~(OnlyModule(m) /\ locker = m)
    BY <1>1, NullAssumption DEF IInv, AccessInv, RemovalInv, LockIsLost, OnlyModule
  <2>2. \A m \in Module : ~MayEdit(m)
    BY <2>1 DEF MayEdit, WhenLockedOnlyLocker
  <2>3. ~PositionNext
    BY <2>2 DEF PositionNext, EditDefaultPosition, EditExternalPosition,
                CloseExternalPosition, EditPositionMultiplier
  <2>4. CASE AccessNext
    BY <2>1, <2>4
    DEF AccessNext, ControllerAddModule, ControllerRemoveModule, InitializeModule,
        MayInitialize, RemoveModuleReturns, Lock, Unlock, AddModule, RemoveModule,
        IsRemovable, RemovePendingModule, SetManager
  <2> QED  BY <2>3, <2>4 DEF Next
<1> QED  BY <1>1, Invariance, PTL DEF Spec, LostLockFreezes

\* No accepted multiplier rounds a stored position to nothing
\* (_validateNewMultiplier): it is enough that it keeps the smallest one.
THEOREM PositionsNeverVanish == Spec => []NoVanishedPosition
<1>1. IInv => NoVanishedPosition
  BY DEF IInv, PositionInv
<1> QED  BY <1>1, Invariance, PTL

\* The component array and the external module arrays are exactly the positions
\* (Position.editDefaultPosition and editExternalPosition).
THEOREM PositionListsCorrect == Spec => []PositionListsExact
<1>1. IInv => PositionListsExact
  BY DEF IInv, PositionInv, PositionListsExact
<1> QED  BY <1>1, Invariance, PTL

-----------------------------------------------------------------------------
(* CKToken implements PositionLedger *)

\* What is reported for one component and holder, from the stored units alone.
StoredKind(c, holder) ==
    IF holder = Null THEN KindOf(virtualUnit[c]) ELSE KindOf(externalVirtualUnit[c][holder])

LEMMA HolderIsModule ==
    ASSUME NEW holder \in Holder, holder # Null
    PROVE  holder \in Module
BY DEF Holder

LEMMA ReportedIsStored ==
    TypeOK /\ PositionInv => getPositions = [p \in Component \X Holder |-> StoredKind(p[1], p[2])]
<1> SUFFICES ASSUME TypeOK, PositionInv, NEW p \in Component \X Holder
             PROVE  getPositions[p] = StoredKind(p[1], p[2])
  BY DEF getPositions
<1> DEFINE c == p[1]
<1>1. c \in Component /\ p[2] \in Holder
  OBVIOUS
<1> HIDE DEF c
<1>2. /\ positionMultiplier \in Nat \ {0}
      /\ virtualUnit[c] \in Nat
      /\ isComponent(c) <=> virtualUnit[c] > 0 \/ hasExternalPosition(c)
      /\ externalModules[c] \in Seq(Module)
  BY <1>1 DEF TypeOK, PositionInv, ComponentListExact
<1>3. CASE p[2] = Null
  <2>1. hasDefaultPosition(c) <=> virtualUnit[c] > 0
    BY <1>1, SeenIsStored DEF PositionInv
  <2>2. getDefaultPositionRealUnit(c) \in Int
    <3>1. positionMultiplier \in Nat \ {0} /\ virtualUnit[c] \in Int
      BY <1>2
    <3> QED  BY <3>1, RealOfVirtual DEF getDefaultPositionRealUnit
  <2> QED  BY <1>1, <1>2, <1>3, <2>1, <2>2
           DEF c, getPositions, IsReported, StoredKind, KindOf, hasDefaultPosition
<1>4. CASE p[2] # Null
  <2> DEFINE m == p[2]
             v == externalVirtualUnit[c][m]
  <2>1. m \in Module
    BY <1>1, <1>4, HolderIsModule
  <2>2. v \in Int /\ (isExternalPositionModule(c, m) <=> v # 0)
    BY <1>1, <2>1 DEF TypeOK, PositionInv, ExternalListExact
  <2>3. isExternalPositionModule(c, m) => isComponent(c)
    BY <1>2, <2>2, DomainIsRange
    DEF isExternalPositionModule, contains, hasExternalPosition
  <2>4. /\ getExternalPositionRealUnit(c, m) \in Int
        /\ v > 0 => getExternalPositionRealUnit(c, m) > 0
        /\ v < 0 => getExternalPositionRealUnit(c, m) < 0
    <3>1. getExternalPositionRealUnit(c, m) = 0 <=> v = 0
      BY <1>1, <2>1, SeenIsStored DEF PositionInv
    <3>2. positionMultiplier \in Nat \ {0} /\ v \in Int
      BY <1>2, <2>2
    <3> HIDE DEF v
    <3>3. /\ convertVirtualToRealUnit(v) \in Int
          /\ v >= 0 => convertVirtualToRealUnit(v) >= 0
          /\ v < 0 => convertVirtualToRealUnit(v) < 0
      BY <3>2, RealOfVirtual
    <3>4. getExternalPositionRealUnit(c, m) = convertVirtualToRealUnit(v)
      BY DEF v, getExternalPositionRealUnit
    <3> QED  BY <3>1, <3>2, <3>3, <3>4
  <2>5. getPositions[p] = IF ~(isComponent(c) /\ isExternalPositionModule(c, m))
                          THEN "none" ELSE KindOf(getExternalPositionRealUnit(c, m))
    BY <1>4 DEF c, getPositions, IsReported
  <2>6. StoredKind(c, m) = KindOf(v)
    BY <1>4 DEF StoredKind
  <2> HIDE DEF m, v
  <2>7. getPositions[p] = KindOf(v)
    BY <2>2, <2>3, <2>4, <2>5 DEF KindOf
  <2> QED  BY <2>6, <2>7 DEF c, m
<1> QED  BY <1>3, <1>4

-----------------------------------------------------------------------------
(* Each edit sets the entry of one holder in one component. *)

LEMMA DefaultEditSets ==
    ASSUME TypeOK, NEW m \in Module, NEW c \in Component, NEW newUnit \in DefaultUnits,
           EditDefaultPosition(m, c, newUnit), NEW p \in Component \X Holder,
           p # <<c, Null>>
    PROVE  StoredKind(p[1], p[2])' = StoredKind(p[1], p[2])
<1>1. p[1] # c \/ p[2] # Null
  OBVIOUS
<1>2. UNCHANGED externalVirtualUnit /\ (p[1] # c => virtualUnit'[p[1]] = virtualUnit[p[1]])
  BY DEF EditDefaultPosition, TypeOK
<1> QED  BY <1>1, <1>2 DEF StoredKind, KindOf

LEMMA ExternalEditSets ==
    ASSUME TypeOK, NEW m \in Module, NEW c \in Component, NEW v,
           externalVirtualUnit' = [externalVirtualUnit EXCEPT ![c][m] = v],
           UNCHANGED virtualUnit, NEW p \in Component \X Holder, p # <<c, m>>
    PROVE  StoredKind(p[1], p[2])' = StoredKind(p[1], p[2])
<1>1. p[1] \in Component /\ p[2] \in Holder /\ (p[1] # c \/ p[2] # m)
  OBVIOUS
<1>2. p[2] # Null => externalVirtualUnit'[p[1]][p[2]] = externalVirtualUnit[p[1]][p[2]]
  <2> HAVE p[2] # Null
  <2>1. p[2] \in Module
    BY <1>1, HolderIsModule
  <2> QED  BY <1>1, <2>1 DEF TypeOK
<1> QED  BY <1>2 DEF StoredKind, KindOf

\* A ledger that changed in one entry only is a step of the abstract ledger.
LEMMA OneEntry ==
    ASSUME getPositions  = [p \in Component \X Holder |-> StoredKind(p[1], p[2])],
           getPositions' = [p \in Component \X Holder |-> StoredKind(p[1], p[2])'],
           NEW position \in Component \X Holder,
           \A p \in Component \X Holder :
               p # position => StoredKind(p[1], p[2])' = StoredKind(p[1], p[2])
    PROVE  Ledger!Next
<1>1. StoredKind(position[1], position[2])' \in {"none", "asset", "debt"}
  BY DEF StoredKind, KindOf
<1>2. getPositions' =
        [getPositions EXCEPT ![position] = StoredKind(position[1], position[2])']
  OBVIOUS
<1> QED  BY <1>1, <1>2 DEF Ledger!Next, Ledger!Kind, Ledger!Set

LEMMA LedgerStep ==
    ASSUME IInv, IInv', [Next]_vars,
           getPositions  = [p \in Component \X Holder |-> StoredKind(p[1], p[2])],
           getPositions' = [p \in Component \X Holder |-> StoredKind(p[1], p[2])']
    PROVE  [Ledger!Next]_getPositions
<1>1. TypeOK /\ PositionInv
  BY DEF IInv
<1>2. Null \in Holder /\ Module \subseteq Holder
  BY DEF Holder
<1>3. ASSUME UNCHANGED <<virtualUnit, externalVirtualUnit>>
      PROVE  UNCHANGED getPositions
  BY <1>3 DEF StoredKind, KindOf
<1>4. CASE AccessNext
  BY <1>1, <1>3, <1>4, AccessStep DEF IInv, positionVars
<1>5. CASE UNCHANGED vars
  BY <1>3, <1>5 DEF vars
<1>6. CASE PositionNext
  <2>1. ASSUME NEW m \in Module, NEW c \in Component, NEW newUnit \in DefaultUnits,
               EditDefaultPosition(m, c, newUnit)
        PROVE  Ledger!Next
    <3>1. <<c, Null>> \in Component \X Holder
      BY <1>2
    <3> QED  BY <1>1, <2>1, <3>1, DefaultEditSets, OneEntry
  <2>2. ASSUME NEW m \in Module, NEW c \in Component, NEW v,
               externalVirtualUnit' = [externalVirtualUnit EXCEPT ![c][m] = v],
               UNCHANGED virtualUnit
        PROVE  Ledger!Next
    <3>1. <<c, m>> \in Component \X Holder
      BY <1>2
    <3> QED  BY <1>1, <2>2, <3>1, ExternalEditSets, OneEntry
  <2>3. ASSUME NEW m \in Module, NEW c \in Component, NEW newUnit \in ExternalUnits,
               EditExternalPosition(m, c, newUnit)
        PROVE  Ledger!Next
    BY <2>2, <2>3 DEF EditExternalPosition
  <2>4. ASSUME NEW m \in Module, NEW c \in Component, CloseExternalPosition(m, c)
        PROVE  Ledger!Next
    BY <2>2, <2>4 DEF CloseExternalPosition, removeExternalPosition
  <2>5. ASSUME NEW m \in Module, NEW newMultiplier \in Multipliers,
               EditPositionMultiplier(m, newMultiplier)
        PROVE  UNCHANGED getPositions
    BY <1>3, <2>5 DEF EditPositionMultiplier
  <2> QED  BY <1>6, <2>1, <2>3, <2>4, <2>5 DEF PositionNext
<1> QED  BY <1>4, <1>5, <1>6 DEF Next

LEMMA LedgerInit ==
    ASSUME Init, getPositions = [p \in Component \X Holder |-> StoredKind(p[1], p[2])]
    PROVE  Ledger!Init
<1>1. PICK list \in ComponentLists, units \in [Component -> DefaultUnits],
           pending \in SUBSET Module, newManager \in Account :
             Create(list, units, pending, newManager)
  BY DEF Init
<1>2. list \in Seq(Component) /\ list # <<>> /\ units \in [Component -> Nat]
  BY <1>1, ComponentListsAssumption, UnitsAssumption DEF Create
<1>3. list[1] \in Component /\ contains(list, list[1])
  BY <1>2 DEF contains
<1>4. /\ \A c \in Component : virtualUnit[c] \in Nat
      /\ virtualUnit[list[1]] > 0
      /\ externalVirtualUnit = [c \in Component |-> [m \in Module |-> 0]]
  BY <1>1, <1>2, <1>3 DEF Create
<1>5. ASSUME NEW p \in Component \X Holder
      PROVE  StoredKind(p[1], p[2]) \in {"none", "asset"}
  <2>1. CASE p[2] = Null
    BY <1>4, <2>1 DEF StoredKind, KindOf
  <2>2. CASE p[2] # Null
    BY <1>4, <2>2, HolderIsModule DEF StoredKind, KindOf
  <2> QED  BY <2>1, <2>2
<1>6. <<list[1], Null>> \in Component \X Holder /\ StoredKind(list[1], Null) = "asset"
  BY <1>3, <1>4 DEF StoredKind, KindOf, Holder
<1> QED  BY <1>5, <1>6 DEF Ledger!Init

\* Every call of the token is, for those who read getPositions, the edit of one
\* position or nothing.
THEOREM LedgerImplemented == Spec => ImplementsLedger
<1> DEFINE Exact == getPositions = [p \in Component \X Holder |-> StoredKind(p[1], p[2])]
<1>1. IInv => Exact
  BY ReportedIsStored DEF IInv
<1>2. Init /\ Exact => Ledger!Init
  BY LedgerInit
<1>3. IInv /\ IInv' /\ Exact /\ Exact' /\ [Next]_vars => [Ledger!Next]_getPositions
  BY LedgerStep
<1> HIDE DEF Exact
<1> QED  BY <1>1, <1>2, <1>3, InitEstablishes, Invariance, PTL
         DEF Spec, ImplementsLedger, Ledger!Spec
=============================================================================
