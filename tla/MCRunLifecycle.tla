--------------------------- MODULE MCRunLifecycle ---------------------------
(* RunLifecycle for TLC. *)
EXTENDS RunLifecycle, TLC

\* Threads are interchangeable: no property below is about a particular one.
WorkerSymmetry == Permutations(Worker)
=============================================================================
