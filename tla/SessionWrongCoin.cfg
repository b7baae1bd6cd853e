CONSTANTS
    Coins = {btc, bch}
    ServerCoins = {btc, bch}
    Chans = {ch1, ch2, ch3, ch4}
    NoChan = NoChan
    NoCoin = NoCoin
    NoConn = NoConn
    Dirs = {"up"}
    MaxReconnects = 1
    MaxAttempts = 1
    MaxCoinChanges = 1
    MaxServerCloses = 1
    MaxClientCloses = 0
SPECIFICATION Spec
INVARIANT MiningCoinIsMined
CHECK_DEADLOCK FALSE
