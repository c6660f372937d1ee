CONSTANTS
    NoTtl = NoTtl
    NoName = NoName
    NoId = NoId
    Idle = Idle
    Names <- MCNames
    Lower <- MCLower
    Ips = {"x", "y"}
    Datagrams <- MCRootDatagrams
    Answers <- MCAnswers
    Forged <- MCForged
    Others = {}
    UpIds = {1, 2, 3}
    AAAA = 28
    StripAaaa = FALSE
    MAX_CACHE_ENTRIES = 3
    MIN_TTL = 1
    MAX_TTL = 3
    TABLE_TTL_FLOOR = 1
    TABLE_TTL_CEIL = 3
    PENDING_QUERY_TTL = 2
    MAX_PENDING_QUERIES = 2
    MaxQueries = 2
    MaxTime = 2
SPECIFICATION Spec
PROPERTY NamelessSettled
