SPECIFICATION DashSpec
CONSTANTS
    SOL = SOL
    USDC = USDC
    Users = {u1, u2}
    Mints = {SOL, USDC}
    None = None
    SUPPORTED_COLLATERALS <- JustSOL
    SUPPORTED_LOANS <- JustUSDC
    Price <- MCPrice
    LtvPercent <- MCLtv
    MaxFetches = 1
    SHARE_MULTIPLIER = 2
    U64 = 131072
    Amounts = {1}
    ShareAmounts = {2}
    MaxDeposits = 2
SYMMETRY Symmetry
PROPERTIES
    FetchedDebtIsOwed
