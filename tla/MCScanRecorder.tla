--------------------------- MODULE MCScanRecorder ---------------------------
(* Small instances of ScanRecorder for TLC. *)
EXTENDS ScanRecorder

CONSTANTS t1, t2

MCTranscripts == {t1, t2}
MCNone == {}
MCVacuous == {<<t1, 1>>}
MCExposed == {"snapshotting", "cleaning", "synced"}
MCSynced == {"synced"}
=============================================================================
