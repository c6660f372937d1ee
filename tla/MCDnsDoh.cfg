CONSTANTS
    NoTtl = NoTtl
    NoResp = NoResp
    Idle = Idle
    Names = {"a", "b", ""}
    Ips = {"x", "y"}
    Datagrams <- MCDatagrams
    Answers <- MCAnswers
    StripAaaa = TRUE
    MAX_CACHE_ENTRIES = 3
    MIN_TTL = 2
    MAX_TTL = 3
    TABLE_TTL_FLOOR = 1
    TABLE_TTL_CEIL = 3
    MaxQueries = 3
    MaxTime = 2
CHECK_DEADLOCK FALSE
SPECIFICATION Spec
INVARIANT TruthfulTtl
PROPERTIES CacheMovesForward ImplementsService EventuallyAnswered
