SPECIFICATION VaultSpec
CONSTANTS
    Users = {u1}
    Mints = {m1}
    Outside = Outside
    CpiChoices = {"none"}
    SHARE_MULTIPLIER = 2
    U64 = 131072
    AmountCount = 2
    Amounts <- MCAmounts
    ShareAmounts <- MCShareAmounts
    MaxDeposits = 4
    MaxTokens = 4
    MaxSent = 0
SYMMETRY Symmetry
PROPERTIES
    DebtFallsOnlyWhenPaid
