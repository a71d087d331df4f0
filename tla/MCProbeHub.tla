----------------------------- MODULE MCProbeHub -----------------------------
(* A small instance of ProbeHub for TLC.                                    *)
EXTENDS ProbeHub, TLC

HubSymmetry == Permutations(SessionIds) \cup Permutations(Workers) \cup Permutations(Calls)
=============================================================================
