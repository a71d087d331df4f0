---------------------------- MODULE MCWorkerPool ----------------------------
(* A small instance of WorkerPool for TLC: worker i1 connects up to twice,  *)
(* workers i2 and i3 once each.                                             *)
EXTENDS WorkerPool

CONSTANTS c3, c4, i1, i2, i3

MCIdOf == [c \in Conns |-> CASE c = c3 -> i2 [] c = c4 -> i3 [] OTHER -> i1]
=============================================================================
