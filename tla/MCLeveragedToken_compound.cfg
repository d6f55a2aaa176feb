SPECIFICATION Spec
CONSTANTS
    PreciseUnit = 2
    eth = eth
    dai = dai
    cEth = cEth
    cDai = cDai
    aEth = aEth
    aDai = aDai
    comp = comp
    aave = aave
    Component = {eth, dai, cEth, cDai}
    Asset = {eth, dai}
    Lender = {comp}
    Compound = {comp}
    receipt <- Receipts
    IssuanceModule = issuance
    Validates = FALSE
    ProtocolFeeSplit = 1
    RealUnits <- CollateralUnits
    Multipliers = {2}
    Quantities = {1, 2}
    Fees = {0, 1}
    LeverUnits = {1}
    Minted = {1}
    Burned = {1}
    Left = {0}
    Given = {1}
    Surplus = {0}
    CollateralLists <- JustEth
    BorrowLists <- JustDai
    Collaterals = {eth, dai}
    Borrowed = {dai}
    Airdropped = {dai}
    Interest = {1}
    Seizures = {1}
    ModulesChange = TRUE
    ControllerActs = TRUE
    MaxSupply = 3
    MaxBalance = 3
    MaxDebt = 2
PROPERTY DebtCovered
PROPERTY CollateralCovered
PROPERTY LoanPassedOn
PROPERTY DisabledTakesNoPart
INVARIANT DebtOnBooks
PROPERTY HooksPartWhileDisabled
