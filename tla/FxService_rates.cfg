SPECIFICATION FxSpec
CONSTANTS
    Calls = {c1, c2}
    Urls = 2
    TTL = 4
    OracleTimeout = 2
    FallbackTimeout = 1
    Old = 8
INVARIANTS
    FxTypeOK
    AnswersAreRecent
    FailsOnlyIfNobodyAnswered
PROPERTIES
    EveryCallSettles
