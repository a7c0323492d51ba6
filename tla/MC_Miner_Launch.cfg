CONSTANTS
    j1 = j1
    j2 = j2
    Epochs <- MCEpochs
    Jobs <- MCJobs
    BatchSize = 2
    MaxNonce = 6
    Faults = {"Launch"}
    Wins <- MCWins
    Uninit = Uninit
    Junk = Junk
    NoJob = NoJob
SPECIFICATION Spec
INVARIANT
    ProbedExactlyOnce
