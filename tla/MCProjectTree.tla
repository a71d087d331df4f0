--------------------------- MODULE MCProjectTree ---------------------------
(* Small instances of ProjectTree for TLC.                                  *)
EXTENDS ProjectTree

\* The places a client asks for: none, before the first, the second.
Places == {None, -1, 1}

\* The requests, and the entities, are interchangeable.
TreeSymmetry == Permutations(Requests) \cup Permutations(Apis)
=============================================================================
