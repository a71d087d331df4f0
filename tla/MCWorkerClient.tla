--------------------------- MODULE MCWorkerClient ---------------------------
(* A small instance of WorkerClient for TLC.                               *)
EXTENDS WorkerClient, TLC

\* Tasks are interchangeable.
TaskSymmetry == Permutations(Tasks)
=============================================================================
