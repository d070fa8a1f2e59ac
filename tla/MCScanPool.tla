----------------------------- MODULE MCScanPool -----------------------------
(* Instances of ScanPool for TLC. *)
EXTENDS ScanPool

CONSTANTS w1, w2, w3, t1, t2, t3, s1, s2

\* Every pair is wanted but one: a resumed scan has parse jobs of both sizes.
ResumedPairs == (Transcripts \X Scanners) \ {<<t2, s2>>}
=============================================================================
