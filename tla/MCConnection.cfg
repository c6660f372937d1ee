CONSTANTS
    None = None
    Plans <- MCPlans
    MAX_RESPONSE_SIZE = 8
    ListenAddr <- MCListenAddr
    MAX_CLIENT_HELLO = 6
    MAX_PEEK_ATTEMPTS = 3
    TableHosts <- MCTableHosts
CHECK_DEADLOCK FALSE
SPECIFICATION Spec
INVARIANTS StreamIntact OnlyWithConsent NameFits SplitHelloKeepsName
PROPERTY EventuallySettled
