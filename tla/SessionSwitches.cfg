CONSTANTS
    Coins = {btc, bch, other}
    ServerCoins = {btc, bch}
    Chans = {ch1, ch2, ch3, ch4, ch5}
    NoChan = NoChan
    NoCoin = NoCoin
    NoConn = NoConn
    Dirs = {"up"}
    MaxReconnects = 2
    MaxAttempts = 2
    MaxCoinChanges = 2
    MaxServerCloses = 0
    MaxClientCloses = 1
SPECIFICATION Spec
INVARIANT FollowsAtRest
PROPERTIES CoinFollowed ClientGoneStops
CHECK_DEADLOCK FALSE
