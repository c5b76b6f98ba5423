---------------------------- MODULE MCScheduler ----------------------------
(* Instances of Scheduler for TLC. *)
EXTENDS Scheduler, TLC

MCTokens == ClientTokens \X Keys
MCIds == Keys

\* Callers, workers, client tokens and lock addresses are interchangeable.
NameSymmetry == UNION {Permutations(Callers), Permutations(Workers),
                       Permutations(ClientTokens), Permutations(LockIds)}
\* raced only grows, and every Serial property is silent about raced keys:
\* nothing is left to check once all of them are.
SomeKeyUnraced == raced # Keys
=============================================================================
