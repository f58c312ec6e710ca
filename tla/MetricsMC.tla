------------------------------ MODULE MetricsMC ------------------------------
(* Metrics on two lanes and a few tests, for TLC. *)
EXTENDS Metrics, TLC

Result(status, pass, total) == [status |-> status, pass |-> pass, total |-> total]

\* One lane has two runs, and a run may lack a test.
SomeLanes == (1 :> "a") @@ (2 :> "a") @@ (3 :> "b")
SomeStarts == (1 :> 1) @@ (2 :> 2) @@ (3 :> 1)

SomeResults ==
    (1 :> (("t" :> Result("C", 0, 0)) @@ ("u" :> Result("O", 2, 2))))
        @@ (2 :> (("t" :> Result("O", 0, 0)) @@ ("u" :> Result("", 0, 0))))
        @@ (3 :> (("t" :> None) @@ ("u" :> Result("F", 1, 2))))

\* Both tests are labelled with a feature that has been moved, and one with a
\* key that is no feature.
SomeLabels == ("t" :> {"old", "f"}) @@ ("u" :> {"old", "g"})
SomeMoves == "old" :> "new"

\* Two workers of one job, and one of another.
SomeJobs == ("w1" :> 1) @@ ("w2" :> 1) @@ ("w3" :> 2)
=============================================================================
