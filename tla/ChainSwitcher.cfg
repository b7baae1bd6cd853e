CONSTANTS
    Chains = {"btc", "bcc"}
    NoChain = NoChain
    ChainNameMap <- MCChainNameMap
    Limited = {"bcc"}
    Answers <- MCAnswers
    Down = Down
    FailSafeChain = "btc"
    FailSafeSeconds = 4
    SwitchIntervalSeconds = 1
    Latency <- MCLatency
    MaxEvents = 1
SPECIFICATION Spec
INVARIANTS TypeOK
PROPERTIES ChainSettles
