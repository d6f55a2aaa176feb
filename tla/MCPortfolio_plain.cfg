CONSTANTS
    c1 = c1  c2 = c2
    Component = {c1, c2}
    PreciseUnit = 2
    TradeProtocolFee = 1
    OneYear = 2
    RealUnits <- TwoUnits
    Quantities = {1, 2}
    TradeUnits = {0, 2}
    MaxGiven = 2
    Fees = {0, 1, 2}
    MaxSupply = 3
    MaxBalance = 5
    MaxTime = 0
SPECIFICATION PlainSpec
INVARIANTS Collateralized AirdropListExact
PROPERTIES FeeChangeAbsorbsFirst AirdropsStayAirdropped
