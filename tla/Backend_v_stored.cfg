SPECIFICATION BackendSpec
CONSTANTS
    Handlers = {h1, h2}
    Logs <- MCLogs
    Users = {Alice}
    Mints = {SolMint}
    Shares = {1, 2}
    Junk = Junk
    Chain <- MCChain
    healthFactorWarn = 300
    healthFactorLiquidate = 250
    MaxPolls = 2
    MaxLiquidations = 2
    Signals = {"SIGTERM", "SIGINT"}
    Alice = Alice
    SolMint = SolMint
    Few = 1
    Many = 2
INVARIANTS
    EmittedAreStored
