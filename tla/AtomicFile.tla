----------------------------- MODULE AtomicFile -----------------------------
(***************************************************************************)
(* What persist.Snapshot.WriteFile promises of the state file: its path    *)
(* always reads as one complete snapshot (or nothing), replaced in one     *)
(* step, and a power loss takes it back to no more than the last content   *)
(* that had settled, or takes all of it while its directory is not kept.   *)
(***************************************************************************)
CONSTANTS
    Contents, \* complete snapshots
    NoFile    \* the path does not exist

VARIABLES
    file, \* what reading the path returns
    safe, \* the content that has settled
    kept  \* whether a power loss leaves the directory

Init == file = NoFile /\ safe = NoFile /\ kept \in BOOLEAN

Replace(c) == file' = c /\ UNCHANGED <<safe, kept>>

Settle == safe' = file /\ UNCHANGED <<file, kept>>

Keep == kept' = TRUE /\ UNCHANGED <<file, safe>>

PowerLoss ==
    /\ safe' = IF kept THEN safe ELSE NoFile
    /\ file' = safe'
    /\ UNCHANGED kept

Next == (\E c \in Contents : Replace(c)) \/ Settle \/ Keep \/ PowerLoss

Spec == Init /\ [][Next]_<<file, safe, kept>>
=============================================================================
