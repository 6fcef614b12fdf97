--------------------------- MODULE MCEventStream ---------------------------
(* Small instances of EventStream for TLC. *)
EXTENDS EventStream

\* The callers of the safety run are interchangeable.
Symmetry == Permutations(Callers)
=============================================================================
