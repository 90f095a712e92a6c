SPECIFICATION ProgramSpec
CONSTANTS
    Users = {u1}
    Mints = {m1, m2}
    SHARE_MULTIPLIER = 2
    U64 = 131072
    Amounts = {30}
    ShareAmounts = {60}
    MaxDeposits = 60
    Keys = {k1, k2, k3}
    None = None
    Prices = {1}
    Fees = {1, 2}
    U8 = 2
    MaxTime = 1
    MaxFees = 2
SYMMETRY Symmetry
INVARIANTS
    UnconfiguredIsEmpty
    FeesAreAShare
    GovTypeOK
    ProposalIsTheAuthoritys
    AssetsCountedOnce
    FeesCollectedOnce
PROPERTIES
    LendingSpec
    GovernanceSpec
    HandoverByBoth
