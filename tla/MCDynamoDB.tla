----------------------------- MODULE MCDynamoDB -----------------------------
(* Instances of DynamoDB for TLC: a table of two keys. *)
EXTENDS DynamoDB, TLC

CONSTANTS k1, k2

Op(kind, key, cond, exp) == [kind |-> kind, key |-> key, cond |-> cond, exp |-> exp]

\* Single-item calls with and without a condition, on an item that expires and
\* on one that does not, and transactions that put, update,
\* delete and check.
MCRequests == {<<Op("put", k1, "absent", 1)>>,
               <<Op("update", k1, "present", 0)>>,
               <<Op("put", k1, "none", 0), Op("update", k2, "none", 0)>>,
               <<Op("check", k2, "present", 0), Op("delete", k1, "none", 0)>>}

\* Calls are interchangeable.
WriterSymmetry == Permutations(Writers)
=============================================================================
