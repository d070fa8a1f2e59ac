SPECIFICATION Spec
CONSTANTS
    t1 = t1
    t2 = t2
    Transcripts <- MCTranscripts
    NumScanners = 2
    Vacuous <- MCNone
    Exposed <- MCNone
    MaxSessions = 2
INVARIANT TypeOK
INVARIANT WorkKept
INVARIANT NeverLost
INVARIANT CompleteKeepsAll
INVARIANT ErrorListExact
PROPERTY ImplementsLedger
