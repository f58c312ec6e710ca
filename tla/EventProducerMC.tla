-------------------------- MODULE EventProducerMC --------------------------
(* EventProducer on small sets of messages and runs, for TLC. *)
EXTENDS EventProducer, TLC

\* Bound: the query is edited in calm behaviours only.
EditsInCalm == calm \/ query = 0

\* Runs are interchangeable, and so are messages.
Symmetry == Permutations(Messages) \cup Permutations(Workers)
=============================================================================
