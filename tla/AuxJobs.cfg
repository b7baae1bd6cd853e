CONSTANTS
    Width = 4
    Base = 4
    Bytes = 4
    Nonces = {3}
    NumChains = 2
    Replies <- MCReplies
    MaxJobTarget = 150
    AuxPowJobListSize = 2
    Clients = {m1, m2}
    NoBlock = NoBlock
    NoSlots = NoSlots
    NoJob = NoJob
    MaxRestarts = 1
SPECIFICATION Spec
INVARIANTS TypeOK JobsMatchIndex WorkVerifies SmallestTree BitsMatchTarget
    OneHashAhead
PROPERTIES RequestsAnswered TasksFollowBlocks
CHECK_DEADLOCK FALSE
