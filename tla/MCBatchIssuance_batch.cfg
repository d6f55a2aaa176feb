CONSTANTS
    k1 = k1  k2 = k2  weth = weth  dai = dai
    a1 = a1  a2 = a2  a3 = a3
    CKToken = {k1}
    Account = {a1, a2, a3}
    WETH = weth
    Null = Null
    PooledTokens <- EitherToken
    PreciseUnit = 2
    Incentives = {1, 3}
    Amounts = {1, 2}
    Minted = {0, 2, 4}
    MaxRounds = 2
    MaxDeposited = 3
SPECIFICATION Spec
SYMMETRY Depositors
INVARIANTS WithdrawalsCovered FairShare
PROPERTIES WaitsUntilSwept ClaimsStand
CHECK_DEADLOCK FALSE
