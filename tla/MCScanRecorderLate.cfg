SPECIFICATION Spec
CONSTANTS
    t1 = t1
    t2 = t2
    Transcripts <- MCTranscripts
    NumScanners = 1
    Vacuous <- MCNone
    Exposed <- MCSynced
    MaxSessions = 2
INVARIANT WorkKept
