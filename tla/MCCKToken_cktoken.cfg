CONSTANTS
    m1 = m1  m2 = m2  c1 = c1
    Module = {m1, m2}
    Component = {c1}
    Account = {alice, bob}
    Null = Null
    Permanent = {}
    LocksOnRemoval = {m1}
    PreciseUnit = 2
    ComponentLists <- OneComponent
    DefaultUnits <- SmallDefaultUnits
    ExternalUnits <- SmallExternalUnits
    Multipliers <- SmallMultipliers
SPECIFICATION Spec
INVARIANTS TypeOK AccessExact NoVanishedPosition PositionListsExact
PROPERTIES LostLockFreezes ImplementsLedger
