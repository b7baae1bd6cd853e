\* Ethereum: setAllocInterval(256) with 2^16 indices, scaled to 2 with 4.
CONSTANTS
    Sessions = {c1, c2, c3}
    ServerIDs = {3}
    Size = 4
    FirstIDx = 0
    AllocInterval = 2
    NoID = NoID
SPECIFICATION Spec
INVARIANT UniqueIDs
