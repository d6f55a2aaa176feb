CONSTANTS
    c1 = c1  c2 = c2
    Component = {c1, c2}
    PreciseUnit = 10
    TradeProtocolFee = 1
    OneYear = 2
    RealUnits <- NAVUnits
    Quantities = {8}
    TradeUnits = {1}
    MaxGiven = 2
    Fees = {0, 3}
    MaxSupply = 20
    MaxBalance = 12
    MaxTime = 2
    Price <- NAVPrices
    MasterQuoteAsset = c1
    BaseUnit <- NAVBaseUnits
    RevenueShare = 5
    DirectFee = 0
    Reserves = {c1}
    NAVQuantities = {5}
    NAVSettings <- MCNAVSettings
    Percentages = {4}
SPECIFICATION NAVSpec
INVARIANTS QuotesAsTested AccruingOftenCostsNoMore
PROPERTIES RateChangeAccrues AccrualExact ShortOnlyByIssues UnitRisesWithBalance RoundTripGainsNothing ScalingAsTested
