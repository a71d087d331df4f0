-------------------------- MODULE MCRunLifecycle --------------------------
(* Small instances of RunLifecycle for TLC.                                *)
EXTENDS RunLifecycle, TLC

\* Runs of one kind are interchangeable (not used where liveness is checked).
RunSymmetry == Permutations(PlanRuns) \cup Permutations(DebugRuns)
=============================================================================
