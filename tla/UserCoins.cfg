CONSTANTS
    Users = {"u1", "u2"}
    Coins = {"btc", "bcc"}
    NoCoin = NoCoin
    NoUser = NoUser
    AllCoins = "all"
    PUID <- MCPUID
    SafetyPeriod = 1
    NoCache = NoCache
    CronInterval = 2
    Latency = 1
    Cap = 8
    Budgets <- MCBudgets
SPECIFICATION Spec
INVARIANTS TypeOK CoinFollowsList ListIsCurrent
