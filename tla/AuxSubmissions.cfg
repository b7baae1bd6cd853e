CONSTANTS
    Width = 4
    Base = 4
    Bytes = 4
    Nonces = {3}
    Jobs <- MCJobs
    HasResponse = {0, 1}
    Keyed = {0}
    Works = {5}
    Outers <- MCOuters
    MaxSubmits = 2
    MaxRestarts = 1
    MaxFailures = 1
SPECIFICATION Spec
INVARIANTS SubmittedVerifies 
CHECK_DEADLOCK FALSE
