SPECIFICATION Spec
CONSTANTS
    PreciseUnit = 2
    eth = eth
    dai = dai
    cEth = cEth
    cDai = cDai
    aEth = aEth
    aDai = aDai
    comp = comp
    aave = aave
    Component = {eth, dai, aEth, aDai}
    Asset = {eth, dai}
    Lender = {aave}
    Compound = {}
    receipt <- Receipts
    IssuanceModule = issuance
    Validates = TRUE
    ProtocolFeeSplit = 1
    RealUnits <- CollateralUnits
    Multipliers = {2}
    Quantities = {1, 2}
    Fees = {0}
    LeverUnits = {1}
    Minted = {1}
    Burned = {1}
    Left = {0}
    Given = {1}
    Surplus = {0, 1}
    CollateralLists <- JustEth
    BorrowLists <- JustDai
    Collaterals = {eth}
    Borrowed = {dai}
    Airdropped = {aEth}
    Interest = {1}
    Seizures = {1}
    ModulesChange = TRUE
    ControllerActs = FALSE
    MaxSupply = 3
    MaxBalance = 3
    MaxDebt = 2
INVARIANT EnabledAssetsExact
PROPERTY DebtCovered
PROPERTY CollateralCovered
PROPERTY LoanTakenOutOnce
