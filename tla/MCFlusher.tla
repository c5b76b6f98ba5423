----------------------------- MODULE MCFlusher -----------------------------
(* Instances of Flusher for TLC. *)
EXTENDS Flusher, TLC

\* Operations and services are interchangeable.
NameSymmetry == Permutations(Ops) \union Permutations(Services)
=============================================================================
