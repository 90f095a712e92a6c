SPECIFICATION ClientSpec
CONSTANTS
    Wallets = {w1}
    None = None
    MaxFetches = 2
    MaxTasks = 2
    MaxTimers = 1
INVARIANTS
    FlagIsHonest
PROPERTIES
    ButtonComesBack
    NewsAreShown
