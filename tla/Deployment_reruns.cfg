SPECIFICATION DepSpec
CONSTANTS
    k1 = k1
    k2 = k2
    m1 = m1
    m2 = m2
    Keys = {k1, k2}
    None = None
    Mints = {m1, m2}
    Prices = {1}
    Fees = {1}
    U8 = 4
    U64 = 4
    MaxTime = 1
    MaxFees = 1
    Runs = {r1}
    Deployer = k1
    MULTISIGS = {None, k2}
    ASSET_CONFIGS <- TwoAssets
INVARIANTS
    VerifiedOnceComplete
PROPERTIES
    RefusedOnlyWhenRaced
    RerunsMakeReady
