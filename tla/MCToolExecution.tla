-------------------------- MODULE MCToolExecution --------------------------
(* ToolExecution for TLC. *)
EXTENDS ToolExecution, TLC

\* Callers are interchangeable, and so are operation ids and tools.
ToolSymmetry == Permutations(Caller) \cup Permutations(Op) \cup Permutations(Tool)
=============================================================================
