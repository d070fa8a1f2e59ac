------------------------- MODULE MCTranscriptIndex -------------------------
(* Instances of TranscriptIndex for TLC. *)
EXTENDS TranscriptIndex, TLC

CONSTANTS t1, t2, t3, w1, w2, s1

MCTranscripts == {t1, t2}
MCThreeTranscripts == {t1, t2, t3}
MCWriter == {w1}
MCWriters == {w1, w2}
MCSession == {s1}
MCSymmetry == Permutations(MCThreeTranscripts)
=============================================================================
