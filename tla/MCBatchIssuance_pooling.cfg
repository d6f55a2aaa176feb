CONSTANTS
    k1 = k1  k2 = k2  weth = weth  dai = dai
    a1 = a1  a2 = a2
    CKToken = {k1, k2}
    Account = {a1, a2}
    WETH = weth
    Null = Null
    PooledTokens <- SameToken
    PreciseUnit = 2
    Incentives = {1}
    Amounts = {2}
    Minted = {0, 2}
    MaxRounds = 1
    MaxDeposited = 4
SPECIFICATION Spec
SYMMETRY Depositors
PROPERTIES PaidFromOwnRound
CHECK_DEADLOCK FALSE
