-------------------------- MODULE MCTaskDispatch --------------------------
(* A small instance of TaskDispatch for TLC: a run with two tasks, another  *)
(* with one.                                                                *)
EXTENDS TaskDispatch, TLC

CONSTANTS t1, t2, t3, r1, r2, w1

MCRunOf == [t \in Tasks |-> IF t = t3 THEN r2 ELSE r1]

\* The tasks of a run are interchangeable.
DispatchSymmetry == Permutations({t1, t2})
=============================================================================
