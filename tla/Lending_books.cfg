SPECIFICATION Spec
CONSTANTS
    Users = {u1, u2}
    Mints = {m1}
    SHARE_MULTIPLIER = 2
    U64 = 131072
    FirstAmount = 1
    OddShares = 1
    AmountCount = 3
    Amounts <- MCAmounts
    ShareAmounts <- MCShareAmounts
    MaxDeposits = 4
SYMMETRY Symmetry
INVARIANTS
    TypeOK
    OwedIsBorrowed
    DebtIndex
    DebtPoolExact
    SharesAccounted
    AggregateAccounted
    ValueWasDeposited
PROPERTIES
    OthersOweTheSame
    OnlyBorrowLowersShares
    KeepsTheLedger
