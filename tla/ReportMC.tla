------------------------------ MODULE ReportMC ------------------------------
(* Report on three features with three values each, for TLC. *)
EXTENDS Report, TLC

CONSTANTS early, promoted, revised

\* Before and after a promotion, and after a later release on the phone and a new name.
SmallDetails ==
    LET Value(name, baseline, desktop, mobile) ==
            [name |-> name, baseline |-> baseline,
             browsers |-> [chrome |-> desktop, chrome_android |-> mobile]]
    IN (early :> Value("a", "limited", "unavailable", "unavailable"))
       @@ (promoted :> Value("a", "newly", "r1", "r1"))
       @@ (revised :> Value("b", "newly", "r1", "r2"))

ChromePair == {[desktop |-> "chrome", mobile |-> "chrome_android"]}

\* One query that follows a change of status and one that does not.
SmallQueries == {{early}, {early, promoted, revised}}

\* Features are interchangeable.
Symmetry == Permutations(Features)
=============================================================================
