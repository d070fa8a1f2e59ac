SPECIFICATION Spec
CONSTANTS
    t1 = t1
    t2 = t2
    t3 = t3
    w1 = w1
    w2 = w2
    s1 = s1
    Transcripts <- MCTranscripts
    Writers <- MCWriter
    Sessions <- MCSession
    MaxTime = 1
    MaxFiles = 7
SYMMETRY MCSymmetry
INVARIANT TypeOK
INVARIANT Findable
INVARIANT ReaderComplete
INVARIANT DataKept
