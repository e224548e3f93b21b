---------------------------- MODULE MCPipeline ----------------------------
(* Model values and symmetry for TLC.  The buffer slots, the goroutines and  *)
(* the requests are interchangeable; symmetry is used only where no liveness *)
(* property is checked.                                                      *)
EXTENDS Pipeline, TLC

CONSTANTS r1, r2, w1, w2

MCRequests == {r1, r2}
MCOneRequest == {r1}
MCWorkers == {w1, w2}
MCOneWorker == {w1}

\* Two notifications in one request and one in the other, at most.
ThreeInAll == size[r1] + size[r2] <= 3

Symmetry == Permutations(MCRequests) \cup Permutations(MCWorkers)
=============================================================================
