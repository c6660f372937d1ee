SPECIFICATION AnySpec
CONSTANTS
    Configs <- MCConfigs
    Dports = {22, 53, 80, 443, 1082}
    UpPort = 1082
    NoConfig = NoConfig
    MaxRuns = 2
    MaxFailures = 1
INVARIANTS
    NoLoop
    DnsNotProxied
    GatewayReachable
    PolicyInForce
    TeardownIsComplete
CHECK_DEADLOCK FALSE
