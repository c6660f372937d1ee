CONSTANTS
    NoTtl = NoTtl
    Conns <- MCConns
    Names = {"a", "b", "u", ""}
    Ips = {"x", "y", "z"}
    Queries <- MCQueries
    Answers <- MCAnswers
    Others <- MCOthers
    Ttls = {9, NoTtl}
    StripAaaa = TRUE
    Window = 1
    MaxQueries <- MCMaxQueries
    MaxTime = 1
    MAX_CACHE_ENTRIES = 2
    MIN_TTL = 1
    MAX_TTL = 2
    TABLE_TTL_FLOOR = 1
    TABLE_TTL_CEIL = 2
CHECK_DEADLOCK FALSE
SPECIFICATION Spec
INVARIANTS WithinCapacity LookupIsLatest TableTruthful
PROPERTIES EvictionIsLastResort ImplementsService EventuallySettled
