\* Bitcoin and Decred: no allocation interval.  One connection more than there
\* are indices, so the pool fills up; an even and an odd server ID.
CONSTANTS
    Sessions = {c1, c2, c3, c4, c5}
    ServerIDs = {2, 3}
    Size = 4
    FirstIDx = 2
    AllocInterval = 0
    NoID = NoID
SPECIFICATION Spec
SYMMETRY Symmetry
INVARIANTS TypeOK UniqueIDs NoLeak ResumeFindsFree
PROPERTIES AllocCarriesServerID PoolSpec
