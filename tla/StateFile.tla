----------------------------- MODULE StateFile -----------------------------
(***************************************************************************)
(* persist: how WriteFile puts a snapshot on disk, and what ReadFile finds *)
(* there after errors, process crashes and power losses.                   *)
(*                                                                         *)
(* Writers are whoever saves to the same path: the server's flusher, or    *)
(* CLI processes saving a snapshot of the same name.  Each write fills a   *)
(* temp file of its own; a file is its serial number, which also stands    *)
(* for the snapshot it carries.  The operating system keeps the cached     *)
(* view (cache, name) that processes see and the disk's view (data, dname) *)
(* that a power loss leaves, and moves the first into the second whenever  *)
(* it likes and when told to.                                              *)
(***************************************************************************)
EXTENDS Integers

CONSTANTS
    Writers, \* processes or goroutines calling WriteFile on the path
    MaxFiles \* bound on the number of writes

ASSUME StateFileAssumption == MaxFiles \in Nat

Files == 1..MaxFiles

\* How much of a file's bytes are there: none, some, all.
Fill == 0..2
Full == 2

VARIABLES
    pc,      \* each writer's place in WriteFile
    tmp,     \* each writer's temp file, 0 when it has none
    used,    \* temp files created so far
    cache,   \* bytes of each file, as processes see them
    data,    \* bytes of each file on the disk
    name,    \* the file the path names, 0 when it does not exist
    dname,   \* the file the path names in the directory on the disk
    renames, \* renames onto the path so far
    rank,    \* the number of the rename that published each file
    dir,     \* the path's directory: absent, made, or kept by the disk as well
    acked,   \* files whose WriteFile returned nil, less what power losses undid, and
    synced   \* those whose directory was synced by then (history)

diskVars == <<cache, data, name, dname, renames, rank, dir>>
ackVars == <<acked, synced>>
vars == <<pc, tmp, used, diskVars, ackVars>>

Steps == {"idle", "write", "sync", "close", "rename", "dirsync"}

\* Files, their bytes and the path in the cache and on the disk.
TypeOK ==
    /\ pc \in [Writers -> Steps]
    /\ tmp \in [Writers -> 0..MaxFiles]
    /\ used \in 0..MaxFiles
    /\ cache \in [Files -> Fill]
    /\ data \in [Files -> Fill]
    /\ name \in 0..MaxFiles
    /\ dname \in 0..MaxFiles
    /\ renames \in Nat
    /\ rank \in [0..MaxFiles -> Nat]
    /\ dir \in {"absent", "made", "kept"}
    /\ acked \subseteq Files /\ synced \subseteq acked

Init ==
    /\ pc = [w \in Writers |-> "idle"]
    /\ tmp = [w \in Writers |-> 0]
    /\ used = 0
    /\ cache = [f \in Files |-> 0]
    /\ data = [f \in Files |-> 0]
    /\ name = 0
    /\ dname = 0
    /\ renames = 0
    /\ rank = [f \in 0..MaxFiles |-> 0]
    /\ dir \in {"absent", "kept"}
    /\ acked = {} /\ synced = {}

(***************************************************************************)
(* WriteFile                                                               *)
(***************************************************************************)

Goto(w, step) == pc' = [pc EXCEPT ![w] = step]

\* WriteFile returns; its temp file is no longer its business.
Leave(w) ==
    /\ Goto(w, "idle")
    /\ tmp' = [tmp EXCEPT ![w] = 0]

\* os.MkdirAll.  Nothing syncs the entry of the directory it makes.
MkdirAll(w) ==
    /\ pc[w] = "idle"
    /\ dir = "absent"
    /\ dir' = "made"
    /\ UNCHANGED <<pc, tmp, used, cache, data, name, dname, renames, rank, ackVars>>

\* os.CreateTemp.  Other errors up to here change nothing.
CreateTemp(w) ==
    /\ pc[w] = "idle"
    /\ dir # "absent"
    /\ used < MaxFiles
    /\ used' = used + 1
    /\ tmp' = [tmp EXCEPT ![w] = used + 1]
    /\ Goto(w, "write")
    /\ UNCHANGED <<diskVars, ackVars>>

\* tmp.Write writes everything ...
Write(w) ==
    /\ pc[w] = "write"
    /\ cache' = [cache EXCEPT ![tmp[w]] = Full]
    /\ Goto(w, "sync")
    /\ UNCHANGED <<tmp, used, data, name, dname, renames, rank, dir, ackVars>>

\* ... or fails after some bytes.
WriteErr(w) ==
    /\ pc[w] = "write"
    /\ \E n \in Fill : cache' = [cache EXCEPT ![tmp[w]] = n]
    /\ Leave(w)
    /\ UNCHANGED <<used, data, name, dname, renames, rank, dir, ackVars>>

\* Variant: no fsync before the rename.
SyncSkipped(w) ==
    /\ pc[w] = "sync"
    /\ Goto(w, "close")
    /\ UNCHANGED <<tmp, used, diskVars, ackVars>>

\* tmp.Sync
Sync(w) ==
    /\ pc[w] = "sync"
    /\ data' = [data EXCEPT ![tmp[w]] = cache[tmp[w]]]
    /\ Goto(w, "close")
    /\ UNCHANGED <<tmp, used, cache, name, dname, renames, rank, dir, ackVars>>

\* tmp.Close
Close(w) ==
    /\ pc[w] = "close"
    /\ Goto(w, "rename")
    /\ UNCHANGED <<tmp, used, diskVars, ackVars>>

\* os.Rename onto the path.
Rename(w) ==
    /\ pc[w] = "rename"
    /\ name' = tmp[w]
    /\ renames' = renames + 1
    /\ rank' = [rank EXCEPT ![tmp[w]] = renames + 1]
    /\ Goto(w, "dirsync")
    /\ UNCHANGED <<tmp, used, cache, data, dname, dir, ackVars>>

\* Variant: the error path removes the path instead of the temp file.
AbortRemovesTarget(w) ==
    /\ pc[w] \in {"sync", "close", "rename"}
    /\ name' = 0
    /\ Leave(w)
    /\ UNCHANGED <<used, cache, data, dname, renames, rank, dir, ackVars>>

\* Variant: the error path removes the temp file and goes on.
AbortContinues(w) ==
    /\ pc[w] \in {"sync", "close", "rename"}
    /\ tmp' = [tmp EXCEPT ![w] = 0]
    /\ Goto(w, "rename")
    /\ UNCHANGED <<used, diskVars, ackVars>>

\* Sync, Close or Rename fails: the temp file is removed and the error
\* returned.  The path still names what it named.
Abort(w) ==
    /\ pc[w] \in {"sync", "close", "rename"}
    /\ Leave(w)
    /\ UNCHANGED <<used, diskVars, ackVars>>

\* Variant: the directory is opened and not synced.
SyncDirForgotten(w) ==
    /\ pc[w] = "dirsync"
    /\ acked' = acked \union {tmp[w]} /\ synced' = synced \union {tmp[w]}
    /\ Leave(w)
    /\ UNCHANGED <<used, diskVars>>

\* fsyncDir syncs the directory, and WriteFile returns nil.
SyncDir(w) ==
    /\ pc[w] = "dirsync"
    /\ dname' = name
    /\ acked' = acked \union {tmp[w]} /\ synced' = synced \union {tmp[w]}
    /\ Leave(w)
    /\ UNCHANGED <<used, cache, data, name, renames, rank, dir>>

\* fsyncDir swallows that it synced nothing, and WriteFile returns nil all the
\* same: on Windows, where the file system refuses, and whenever the directory
\* cannot be opened, be it for want of a file descriptor.
SyncDirSwallowed(w) ==
    /\ pc[w] = "dirsync"
    /\ acked' = acked \union {tmp[w]}
    /\ Leave(w)
    /\ UNCHANGED <<used, diskVars, synced>>

\* Sync or Close of the directory fails for another reason: WriteFile reports
\* an error although the rename has happened.
SyncDirErr(w) ==
    /\ pc[w] = "dirsync"
    /\ Leave(w)
    /\ UNCHANGED <<used, diskVars, ackVars>>

(***************************************************************************)
(* The operating system and its failures                                   *)
(***************************************************************************)

\* Background writeback of some of a file's bytes ...
Writeback(f) ==
    /\ \E n \in Fill : /\ data[f] < n /\ n <= cache[f]
                       /\ data' = [data EXCEPT ![f] = n]
    /\ UNCHANGED <<pc, tmp, used, cache, name, dname, renames, rank, dir, ackVars>>

\* ... of the directory ...
WritebackDir ==
    /\ dname # name
    /\ dname' = name
    /\ UNCHANGED <<pc, tmp, used, cache, data, name, renames, rank, dir, ackVars>>

\* ... and of the directory's own entry.
WritebackParent ==
    /\ dir = "made"
    /\ dir' = "kept"
    /\ UNCHANGED <<pc, tmp, used, cache, data, name, dname, renames, rank, ackVars>>

\* A writer's process dies; what it did so far stays in the cache.
Crash(w) ==
    /\ pc[w] # "idle"
    /\ Leave(w)
    /\ UNCHANGED <<used, diskVars, ackVars>>

\* The machine loses power and comes back with what the disk has: a directory
\* it does not keep is gone with all that was in it.  Of the acknowledged
\* writes, those that were synced into a kept directory still stand.
PowerLoss ==
    /\ pc' = [w \in Writers |-> "idle"]
    /\ tmp' = [w \in Writers |-> 0]
    /\ cache' = data
    /\ \/ /\ dir = "kept"
          /\ name' = dname
          /\ acked' = synced
          /\ UNCHANGED <<dname, dir, synced>>
       \/ /\ dir # "kept"
          /\ dir' = "absent"
          /\ name' = 0 /\ dname' = 0
          /\ acked' = {} /\ synced' = {}
    /\ UNCHANGED <<used, data, renames, rank>>

Next ==
    \/ \E w \in Writers :
         \/ MkdirAll(w) \/ CreateTemp(w) \/ Write(w) \/ WriteErr(w) \/ Sync(w)
         \/ Close(w) \/ Rename(w) \/ Abort(w) \/ Crash(w)
         \/ SyncDir(w) \/ SyncDirSwallowed(w) \/ SyncDirErr(w)
    \/ \E f \in Files : Writeback(f)
    \/ WritebackDir \/ WritebackParent
    \/ PowerLoss

Spec == Init /\ [][Next]_vars

(***************************************************************************)
(* Properties                                                              *)
(***************************************************************************)

\* What ReadFile makes of file f when it finds these bytes: 0 (no such file),
\* the snapshot f, or -1 (a file that does not parse, which restoreState
\* ignores: the server starts empty and its next save replaces the file).
ReadFile(f, bytes) == IF f = 0 THEN 0 ELSE IF bytes[f] = Full THEN f ELSE -1

\* "power loss can leave the previous snapshot (or none) but never a
\* truncated/empty file": neither the path as processes see it nor the path a
\* power loss would leave ever reads as an incomplete snapshot.
NeverTorn == ReadFile(name, cache) # -1 /\ ReadFile(dname, data) # -1

\* "The parent-dir fsync then makes the rename entry itself durable": while the
\* machine is up, no error, crash or other writer takes the path back to a
\* snapshot published before one that WriteFile acknowledged, and a power loss
\* does not take it back past one whose directory was synced, once the disk
\* keeps that directory.  (fsyncDir returns nil without a sync when it cannot open
\* the directory, and MkdirAll's directory is never synced into its parent: a
\* write that returned nil in either case can be undone.)
AckedSurvives ==
    /\ \A f \in acked : rank[name] >= rank[f]
    /\ \A f \in synced : rank[dname] >= rank[f]

\* The path behaves as a file that is replaced in one step.
Abstract == INSTANCE AtomicFile WITH
    Contents <- Files,
    NoFile <- 0,
    file <- ReadFile(name, cache),
    safe <- ReadFile(dname, data),
    kept <- dir = "kept"

\* WriteFile's steps, its errors, crashes and power losses implement AtomicFile.
ImplementsAtomicFile == Abstract!Spec
=============================================================================
