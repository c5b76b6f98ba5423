------------------------------- MODULE MCEC2 -------------------------------
(* Instances of EC2 for TLC. *)
EXTENDS EC2

CONSTANTS i1, i2, v1, t1, l1, l2, c1, c2, a1, d1

\* A launch of one or of both instances; terminations of one or of both.
MCLaunches == {<<i1>>, <<i2>>, <<i1, i2>>}
MCBatches == {<<i1>>, <<i1, i2>>}
\* Calls compete for a token; terminations compete for two instances; a volume
\* is attached and detached around the launch, the rollback and the end of two
\* instances; and around those of one while it is deleted as well.
MCSetups ==
    {[actors |-> {l1, l2, c1}, tokens |-> {t1}, launches |-> MCLaunches, vols |-> {}],
     [actors |-> {l1, c1, c2}, tokens |-> {}, launches |-> {<<i1, i2>>}, vols |-> {}],
     [actors |-> {l1, c1, a1}, tokens |-> {}, launches |-> {<<i1, i2>>}, vols |-> {v1}],
     [actors |-> {l1, c1, a1, d1}, tokens |-> {}, launches |-> {<<i1>>}, vols |-> {v1}]}
=============================================================================
