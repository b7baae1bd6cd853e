CONSTANTS
    ChainType = "ethereum"
    NoRequest = NoRequest
    NoName = NoName
    Sessions = {"s1", "s2", "s3", "s4"}
    ClientRequests <- MCClientRequests
    Users = {"known", "unknown"}
    Coins = {"eth", "etc"}
    NoCoin = NoCoin
    Servers = {"eth"}
    DefaultCoin = "etc"
    AutoRegMaxWaitUsers = 1
    Starts <- MCStarts
    MaxAttempts = 2
    NoUser = NoUser
    MaxReconnects = 1
    MaxFailures = 1
SPECIFICATION Spec
INVARIANTS TypeOK RunningIsAccepted QuotaConserved ResumeRestores
PROPERTIES  RegistrationEnds
CHECK_DEADLOCK FALSE
