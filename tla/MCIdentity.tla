----------------------------- MODULE MCIdentity -----------------------------
(* Identity for TLC. *)
EXTENDS Identity, TLC

\* Workers are interchangeable.
IdentitySymmetry == Permutations(Workers)
=============================================================================
