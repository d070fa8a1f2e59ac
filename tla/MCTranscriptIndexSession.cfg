SPECIFICATION Spec
CONSTANTS
    t1 = t1
    t2 = t2
    t3 = t3
    w1 = w1
    w2 = w2
    s1 = s1
    Transcripts <- MCTranscripts
    Writers <- MCWriter
    Sessions <- MCSession
    MaxTime = 2
    MaxFiles = 6
INVARIANT SessionIndexed
