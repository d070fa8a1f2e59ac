SPECIFICATION Spec
CONSTANTS
    j1 = j1
    j2 = j2
    j3 = j3
    Jobs <- MCJobs
    MaxProcesses = 2
    TaskCount = 3
    PrefetchSize = 2
    PipeRoom = 1
    Deaths <- MCAtStart
SYMMETRY MCSymmetry
INVARIANT TypeOK
INVARIANT NoJobLostOrDoubled
INVARIANT CollectorLeavesLast
 
