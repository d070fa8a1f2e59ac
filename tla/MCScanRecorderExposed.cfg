SPECIFICATION Spec
CONSTANTS
    t1 = t1
    t2 = t2
    Transcripts <- MCTranscripts
    NumScanners = 1
    Vacuous <- MCVacuous
    Exposed <- MCExposed
    MaxSessions = 3
INVARIANT CompleteIsWhole
