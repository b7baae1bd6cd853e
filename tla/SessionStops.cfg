CONSTANTS
    Coins = {btc, bch}
    ServerCoins = {btc, bch}
    Chans = {ch1, ch2, ch3, ch4}
    NoChan = NoChan
    NoCoin = NoCoin
    NoConn = NoConn
    Dirs = {"up", "down"}
    MaxReconnects = 2
    MaxAttempts = 1
    MaxCoinChanges = 0
    MaxServerCloses = 1
    MaxClientCloses = 1
SPECIFICATION Spec
INVARIANTS TypeOK ReleasedOnce RunningIsRegistered
PROPERTIES HealthyConnKept StopJustified
CHECK_DEADLOCK FALSE
