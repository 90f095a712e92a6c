SPECIFICATION VaultSpec
CONSTANTS
    Users = {u1}
    Mints = {m1, m2}
    Outside = Outside
    CpiChoices = {"none", "marginfi", "other"}
    SHARE_MULTIPLIER = 2
    U64 = 131072
    AmountCount = 1
    Amounts <- MCAmounts
    ShareAmounts <- MCShareAmounts
    MaxDeposits = 2
    MaxTokens = 1
    MaxSent = 1
SYMMETRY Symmetry
INVARIANTS
    Custody
