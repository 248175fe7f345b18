------------------------------ MODULE MCMemory ------------------------------
(* Memory for TLC. *)
EXTENDS Memory, TLC

\* Threads are interchangeable, and so are the keys: no property names one.
Symmetry == Permutations(Writer) \cup Permutations(Key)
=============================================================================
