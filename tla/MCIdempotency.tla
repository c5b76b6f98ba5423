--------------------------- MODULE MCIdempotency ---------------------------
(* Instances of Idempotency for TLC. *)
EXTENDS Idempotency, TLC

\* Callers, lock addresses, tokens and ids are interchangeable: no action or
\* invariant compares them with anything but themselves.
NameSymmetry == UNION {Permutations(Callers), Permutations(LockIds),
                       Permutations(Tokens), Permutations(Ids)}
=============================================================================
