--------------------------- MODULE MCMultiProcess ---------------------------
(* Small instances of MultiProcess for TLC. *)
EXTENDS MultiProcess, TLC

CONSTANTS j1, j2, j3

MCJobs == {j1, j2, j3}
MCTwoJobs == {j1, j2}
MCOneJob == {j1}
MCNoDeaths == {}
MCAtStart == {"starting"}
MCAnytime == {"starting", "waiting", "working", "ending"}
MCSymmetry == Permutations(MCJobs)
=============================================================================
