CONSTANTS
    c1 = c1  c2 = c2
    Component = {c1}
    PreciseUnit = 8
    TradeProtocolFee = 1
    OneYear = 1
    RealUnits <- OneUnit
    Quantities = {4, 28}
    TradeUnits = {1}
    MaxGiven = 2
    Fees = {0, 1}
    MaxSupply = 36
    MaxBalance = 20
    MaxTime = 4
SPECIFICATION FeeSpec
INVARIANT Collateralized
