------------------------------ MODULE MCPlayQueue ------------------------------
(* Small instances of PlayQueue for TLC. *)
EXTENDS PlayQueue, TLC

\* Workers and videos are interchangeable.
Symmetry == Permutations(Workers) \cup Permutations(Videos)
===============================================================================
