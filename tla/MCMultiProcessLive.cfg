SPECIFICATION Spec
CONSTANTS
    j1 = j1
    j2 = j2
    j3 = j3
    Jobs <- MCTwoJobs
    MaxProcesses = 2
    TaskCount = 2
    PrefetchSize = 1
    PipeRoom = 1
    Deaths <- MCNoDeaths
PROPERTY Terminates
PROPERTY ImplementsStrategy
