------------------------------- MODULE MCSQS -------------------------------
(* Instances of SQS for TLC: a queue that redrives to a dead-letter queue. *)
EXTENDS SQS, TLC

CONSTANTS mainQ, deadQ

MCDlq == [q \in {mainQ, deadQ} |-> IF q = mainQ THEN deadQ ELSE NoQueue]

\* Either both queues are FIFO, with and without a delay, or the first one feeds
\* a Lambda function.
MCSetups == {[fifo |-> {mainQ, deadQ}, mapped |-> {}, delays |-> {0, 1}],
             [fifo |-> {}, mapped |-> {mainQ}, delays |-> {0}]}

\* Deduplication ids, senders and move tasks are interchangeable.
NameSymmetry == UNION {Permutations(DedupIds), Permutations(Senders),
                       Permutations(Movers)}
=============================================================================
