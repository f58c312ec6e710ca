------------------------------ MODULE DifferMC ------------------------------
(* Differ on small sets of features, values and queries, for TLC. *)
EXTENDS Differ, TLC

CONSTANTS v1, v2

\* One query that follows a change of value and one that does not.
SmallQueries == {{v1}, {v1, v2}}

\* Features are interchangeable.
Symmetry == Permutations(Features)
=============================================================================
