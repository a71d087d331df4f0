--------------------------- MODULE MCStressRuns ---------------------------
(* Small instances of StressRuns for TLC.                                  *)
EXTENDS StressRuns, TLC

CONSTANT Reconnects  (* the connections of one worker that reconnects      *)

\* Every other connection is the only one of its worker.
MCWorkerId == [w \in Conns |-> IF w \in Reconnects THEN Reconnects ELSE {w}]

\* Runs and the connections of one worker are interchangeable (not used where
\* liveness is checked).
StressSymmetry == Permutations(Runs) \cup Permutations(Reconnects)
=============================================================================
