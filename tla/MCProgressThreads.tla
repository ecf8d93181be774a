------------------------- MODULE MCProgressThreads -------------------------
(* Instances of ProgressThreads for TLC. *)
EXTENDS ProgressThreads, TLC

OneEach == [n \in Names |-> 1]
\* The threads are alike; for runs without liveness properties.
ThreadSymmetry == Permutations(Threads)
=============================================================================
