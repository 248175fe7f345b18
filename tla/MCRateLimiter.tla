--------------------------- MODULE MCRateLimiter ---------------------------
(* RateLimiter for TLC. *)
EXTENDS RateLimiter, TLC

\* Threads are interchangeable.
ThreadSymmetry == Permutations(Thread)
=============================================================================
