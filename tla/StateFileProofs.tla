-------------------------- MODULE StateFileProofs --------------------------
(***************************************************************************)
(* The state file for every number of writers and writes: the path never   *)
(* reads as a torn snapshot, a synced write survives power loss, and        *)
(* WriteFile's steps implement AtomicFile.                                 *)
(***************************************************************************)
EXTENDS StateFile, TLAPS

Unpublished == {"write", "sync", "close", "rename"}

\* A writer in WriteFile owns a temp file nobody else owns ...
Owned ==
    /\ \A w \in Writers : pc[w] = "idle" <=> tmp[w] = 0
    /\ \A w \in Writers : tmp[w] <= used
    /\ \A w, x \in Writers : tmp[w] # 0 /\ tmp[w] = tmp[x] => w = x

\* ... and that was never published before its rename.
Private ==
    /\ name <= used /\ dname <= used
    /\ \A f \in acked : f <= used
    /\ \A w \in Writers :
         pc[w] \in Unpublished => tmp[w] # name /\ tmp[w] # dname /\ tmp[w] \notin acked

\* What has been written and synced by each step of WriteFile.
Filled ==
    \A w \in Writers :
        /\ pc[w] = "sync" => cache[tmp[w]] = Full
        /\ pc[w] \in {"close", "rename"} => cache[tmp[w]] = Full /\ data[tmp[w]] = Full

\* Published files are complete, in the cache and on the disk.
Complete ==
    \A f \in {name, dname} \ {0} : cache[f] = Full /\ data[f] = Full

\* The disk's directory is never ahead of the cached one, which is never
\* behind a writer about to sync it.
Ranked ==
    /\ rank[0] = 0
    /\ \A f \in Files : rank[f] <= renames
    /\ rank[dname] <= rank[name]
    /\ \A w \in Writers : pc[w] = "dirsync" => rank[tmp[w]] <= rank[name]

FileInv == TypeOK /\ Owned /\ Private /\ Filled /\ Complete /\ Ranked /\ AckedSurvives

\* The server has no state file, and writers have not started.
LEMMA InitInv == Init => FileInv
  BY StateFileAssumption DEF Init, FileInv, TypeOK, Owned, Private, Unpublished, Filled, Complete,
     Ranked, AckedSurvives, Files, Fill, Full, Steps

\* Every step of a writer, of the operating system and every failure keeps the
\* invariant.
LEMMA NextInv == FileInv /\ [Next]_vars => FileInv'
<1> SUFFICES ASSUME TypeOK, Owned, Private, Filled, Complete, Ranked, AckedSurvives, [Next]_vars
             PROVE  /\ TypeOK' /\ Owned' /\ Private' /\ Filled' /\ Complete' /\ Ranked'
                    /\ AckedSurvives'
  BY DEF FileInv
<1> DEFINE Kept == /\ TypeOK' /\ Owned' /\ Private' /\ Filled' /\ Complete' /\ Ranked'
                   /\ AckedSurvives'
<1> USE StateFileAssumption DEF Files, Fill, Full, Steps, Goto, Leave, diskVars, ackVars
<1>1. ASSUME NEW w \in Writers, CreateTemp(w) PROVE Kept
  <2>1. TypeOK'
    BY <1>1 DEF CreateTemp, TypeOK, Owned
  <2>2. Owned'
    BY <1>1 DEF CreateTemp, TypeOK, Owned
  <2>3. Private'
    BY <1>1 DEF CreateTemp, TypeOK, Owned, Private, Unpublished
  <2>4. Filled'
    BY <1>1 DEF CreateTemp, TypeOK, Owned, Filled
  <2>5. Complete'
    BY <1>1 DEF CreateTemp, TypeOK, Owned, Private, Unpublished, Filled, Complete
  <2>6. Ranked'
    BY <1>1 DEF CreateTemp, TypeOK, Owned, Ranked
  <2>7. AckedSurvives'
    BY <1>1 DEF CreateTemp, TypeOK, Owned, Private, Unpublished, Ranked, AckedSurvives
  <2> QED
    BY <2>1, <2>2, <2>3, <2>4, <2>5, <2>6, <2>7
<1>2. ASSUME NEW w \in Writers, Write(w) PROVE Kept
  <2>1. TypeOK'
    BY <1>2 DEF Write, TypeOK, Owned
  <2>2. Owned'
    BY <1>2 DEF Write, TypeOK, Owned
  <2>3. Private'
    BY <1>2 DEF Write, TypeOK, Owned, Private, Unpublished
  <2>4. Filled'
    BY <1>2 DEF Write, TypeOK, Owned, Filled
  <2>5. Complete'
    BY <1>2 DEF Write, TypeOK, Owned, Private, Unpublished, Filled, Complete
  <2>6. Ranked'
    BY <1>2 DEF Write, TypeOK, Owned, Ranked
  <2>7. AckedSurvives'
    BY <1>2 DEF Write, TypeOK, Owned, Private, Unpublished, Ranked, AckedSurvives
  <2> QED
    BY <2>1, <2>2, <2>3, <2>4, <2>5, <2>6, <2>7
<1>3. ASSUME NEW w \in Writers, WriteErr(w) PROVE Kept
  <2>1. TypeOK'
    BY <1>3 DEF WriteErr, TypeOK, Owned
  <2>2. Owned'
    BY <1>3 DEF WriteErr, TypeOK, Owned
  <2>3. Private'
    BY <1>3 DEF WriteErr, TypeOK, Owned, Private, Unpublished
  <2>4. Filled'
    BY <1>3 DEF WriteErr, TypeOK, Owned, Filled
  <2>5. Complete'
    BY <1>3 DEF WriteErr, TypeOK, Owned, Private, Unpublished, Filled, Complete
  <2>6. Ranked'
    BY <1>3 DEF WriteErr, TypeOK, Owned, Ranked
  <2>7. AckedSurvives'
    BY <1>3 DEF WriteErr, TypeOK, Owned, Private, Unpublished, Ranked, AckedSurvives
  <2> QED
    BY <2>1, <2>2, <2>3, <2>4, <2>5, <2>6, <2>7
<1>4. ASSUME NEW w \in Writers, Sync(w) PROVE Kept
  <2>1. TypeOK'
    BY <1>4 DEF Sync, TypeOK, Owned
  <2>2. Owned'
    BY <1>4 DEF Sync, TypeOK, Owned
  <2>3. Private'
    BY <1>4 DEF Sync, TypeOK, Owned, Private, Unpublished
  <2>4. Filled'
    BY <1>4 DEF Sync, TypeOK, Owned, Filled
  <2>5. Complete'
    BY <1>4 DEF Sync, TypeOK, Owned, Private, Unpublished, Filled, Complete
  <2>6. Ranked'
    BY <1>4 DEF Sync, TypeOK, Owned, Ranked
  <2>7. AckedSurvives'
    BY <1>4 DEF Sync, TypeOK, Owned, Private, Unpublished, Ranked, AckedSurvives
  <2> QED
    BY <2>1, <2>2, <2>3, <2>4, <2>5, <2>6, <2>7
<1>5. ASSUME NEW w \in Writers, Close(w) PROVE Kept
  <2>1. TypeOK'
    BY <1>5 DEF Close, TypeOK, Owned
  <2>2. Owned'
    BY <1>5 DEF Close, TypeOK, Owned
  <2>3. Private'
    BY <1>5 DEF Close, TypeOK, Owned, Private, Unpublished
  <2>4. Filled'
    BY <1>5 DEF Close, TypeOK, Owned, Filled
  <2>5. Complete'
    BY <1>5 DEF Close, TypeOK, Owned, Private, Unpublished, Filled, Complete
  <2>6. Ranked'
    BY <1>5 DEF Close, TypeOK, Owned, Ranked
  <2>7. AckedSurvives'
    BY <1>5 DEF Close, TypeOK, Owned, Private, Unpublished, Ranked, AckedSurvives
  <2> QED
    BY <2>1, <2>2, <2>3, <2>4, <2>5, <2>6, <2>7
<1>6. ASSUME NEW w \in Writers, Rename(w) PROVE Kept
  <2>1. TypeOK'
    BY <1>6 DEF Rename, TypeOK, Owned
  <2>2. Owned'
    BY <1>6 DEF Rename, TypeOK, Owned
  <2>3. Private'
    BY <1>6 DEF Rename, TypeOK, Owned, Private, Unpublished
  <2>4. Filled'
    BY <1>6 DEF Rename, TypeOK, Owned, Filled
  <2>5. Complete'
    BY <1>6 DEF Rename, TypeOK, Owned, Private, Unpublished, Filled, Complete
  <2>6. Ranked'
    <3>1. tmp[w] \in Files
      BY <1>6 DEF Rename, TypeOK, Owned
    <3>2. /\ renames + 1 \in Nat
          /\ \A f \in 0..MaxFiles : rank'[f] = IF f = tmp[w] THEN renames + 1 ELSE rank[f]
      BY <1>6 DEF Rename, TypeOK
    <3>3. \A f \in 0..MaxFiles : rank[f] <= renames
      BY DEF TypeOK, Owned, Ranked
    <3>4. ASSUME NEW f \in 0..MaxFiles PROVE rank'[f] <= renames + 1
      <4>1. rank[f] \in Nat /\ renames \in Nat
        BY DEF TypeOK, Owned, Ranked
      <4> QED
        BY <3>2, <3>3, <4>1
    <3>5. \A x \in Writers : tmp[x] \in 0..MaxFiles
      BY DEF TypeOK, Owned, Ranked
    <3>6. name' = tmp[w] /\ dname' = dname /\ renames' = renames + 1 /\ tmp' = tmp
      BY <1>6 DEF Rename
    <3>7. rank'[name'] = renames + 1
      BY <3>2, <3>5, <3>6
    <3>8. rank'[0] = 0
      BY <3>1, <3>2 DEF Ranked
    <3>9. \A x \in Writers : rank'[tmp'[x]] <= rank'[name']
      BY <3>4, <3>5, <3>6, <3>7
    <3>10. rank'[dname'] <= rank'[name']
      BY <3>4, <3>6, <3>7 DEF TypeOK
    <3>11. \A f \in Files : rank'[f] <= renames'
      BY <3>4, <3>6
    <3> QED
      BY <3>8, <3>9, <3>10, <3>11 DEF Ranked
  <2>7. AckedSurvives'
    BY <1>6 DEF Rename, TypeOK, Owned, Private, Unpublished, Ranked, AckedSurvives
  <2> QED
    BY <2>1, <2>2, <2>3, <2>4, <2>5, <2>6, <2>7
<1>7. ASSUME NEW w \in Writers, Abort(w) PROVE Kept
  <2>1. TypeOK'
    BY <1>7 DEF Abort, TypeOK, Owned
  <2>2. Owned'
    BY <1>7 DEF Abort, TypeOK, Owned
  <2>3. Private'
    BY <1>7 DEF Abort, TypeOK, Owned, Private, Unpublished
  <2>4. Filled'
    BY <1>7 DEF Abort, TypeOK, Owned, Filled
  <2>5. Complete'
    BY <1>7 DEF Abort, TypeOK, Owned, Private, Unpublished, Filled, Complete
  <2>6. Ranked'
    BY <1>7 DEF Abort, TypeOK, Owned, Ranked
  <2>7. AckedSurvives'
    BY <1>7 DEF Abort, TypeOK, Owned, Private, Unpublished, Ranked, AckedSurvives
  <2> QED
    BY <2>1, <2>2, <2>3, <2>4, <2>5, <2>6, <2>7
<1>8. ASSUME NEW w \in Writers, SyncDir(w) PROVE Kept
  <2>1. TypeOK'
    <3>1. tmp[w] \in Files
      BY <1>8 DEF SyncDir, TypeOK, Owned
    <3>2. acked' \subseteq Files /\ synced' \subseteq acked'
      BY <1>8, <3>1 DEF SyncDir, TypeOK
    <3>3. dname' \in 0..MaxFiles
      BY <1>8 DEF SyncDir, TypeOK
    <3>4. pc' \in [Writers -> Steps] /\ tmp' \in [Writers -> 0..MaxFiles]
      BY <1>8 DEF SyncDir, TypeOK
    <3> QED
      BY <1>8, <3>2, <3>3, <3>4 DEF SyncDir, TypeOK
  <2>2. Owned'
    BY <1>8 DEF SyncDir, TypeOK, Owned
  <2>3. Private'
    BY <1>8 DEF SyncDir, TypeOK, Owned, Private, Unpublished
  <2>4. Filled'
    BY <1>8 DEF SyncDir, TypeOK, Owned, Filled
  <2>5. Complete'
    BY <1>8 DEF SyncDir, TypeOK, Owned, Private, Unpublished, Filled, Complete
  <2>6. Ranked'
    BY <1>8 DEF SyncDir, TypeOK, Owned, Ranked
  <2>7. AckedSurvives'
    BY <1>8 DEF SyncDir, TypeOK, Owned, Private, Unpublished, Ranked, AckedSurvives
  <2> QED
    BY <2>1, <2>2, <2>3, <2>4, <2>5, <2>6, <2>7
<1>9. ASSUME NEW w \in Writers, SyncDirErr(w) PROVE Kept
  <2>1. TypeOK'
    BY <1>9 DEF SyncDirErr, TypeOK, Owned
  <2>2. Owned'
    BY <1>9 DEF SyncDirErr, TypeOK, Owned
  <2>3. Private'
    BY <1>9 DEF SyncDirErr, TypeOK, Owned, Private, Unpublished
  <2>4. Filled'
    BY <1>9 DEF SyncDirErr, TypeOK, Owned, Filled
  <2>5. Complete'
    BY <1>9 DEF SyncDirErr, TypeOK, Owned, Private, Unpublished, Filled, Complete
  <2>6. Ranked'
    BY <1>9 DEF SyncDirErr, TypeOK, Owned, Ranked
  <2>7. AckedSurvives'
    BY <1>9 DEF SyncDirErr, TypeOK, Owned, Private, Unpublished, Ranked, AckedSurvives
  <2> QED
    BY <2>1, <2>2, <2>3, <2>4, <2>5, <2>6, <2>7
<1>10. ASSUME NEW w \in Writers, Crash(w) PROVE Kept
  <2>1. TypeOK'
    BY <1>10 DEF Crash, TypeOK, Owned
  <2>2. Owned'
    BY <1>10 DEF Crash, TypeOK, Owned
  <2>3. Private'
    BY <1>10 DEF Crash, TypeOK, Owned, Private, Unpublished
  <2>4. Filled'
    BY <1>10 DEF Crash, TypeOK, Owned, Filled
  <2>5. Complete'
    BY <1>10 DEF Crash, TypeOK, Owned, Private, Unpublished, Filled, Complete
  <2>6. Ranked'
    BY <1>10 DEF Crash, TypeOK, Owned, Ranked
  <2>7. AckedSurvives'
    BY <1>10 DEF Crash, TypeOK, Owned, Private, Unpublished, Ranked, AckedSurvives
  <2> QED
    BY <2>1, <2>2, <2>3, <2>4, <2>5, <2>6, <2>7
<1>11. ASSUME NEW f \in Files, Writeback(f) PROVE Kept
  <2>1. TypeOK'
    BY <1>11 DEF Writeback, TypeOK, Owned
  <2>2. Owned'
    BY <1>11 DEF Writeback, TypeOK, Owned
  <2>3. Private'
    BY <1>11 DEF Writeback, TypeOK, Owned, Private, Unpublished
  <2>4. Filled'
    BY <1>11 DEF Writeback, TypeOK, Owned, Filled
  <2>5. Complete'
    BY <1>11 DEF Writeback, TypeOK, Owned, Private, Unpublished, Filled, Complete
  <2>6. Ranked'
    BY <1>11 DEF Writeback, TypeOK, Owned, Ranked
  <2>7. AckedSurvives'
    BY <1>11 DEF Writeback, TypeOK, Owned, Private, Unpublished, Ranked, AckedSurvives
  <2> QED
    BY <2>1, <2>2, <2>3, <2>4, <2>5, <2>6, <2>7
<1>12. ASSUME WritebackDir PROVE Kept
  <2>1. TypeOK'
    BY <1>12 DEF WritebackDir, TypeOK, Owned
  <2>2. Owned'
    BY <1>12 DEF WritebackDir, TypeOK, Owned
  <2>3. Private'
    BY <1>12 DEF WritebackDir, TypeOK, Owned, Private, Unpublished
  <2>4. Filled'
    BY <1>12 DEF WritebackDir, TypeOK, Owned, Filled
  <2>5. Complete'
    BY <1>12 DEF WritebackDir, TypeOK, Owned, Private, Unpublished, Filled, Complete
  <2>6. Ranked'
    BY <1>12 DEF WritebackDir, TypeOK, Owned, Ranked
  <2>7. AckedSurvives'
    BY <1>12 DEF WritebackDir, TypeOK, Owned, Private, Unpublished, Ranked, AckedSurvives
  <2> QED
    BY <2>1, <2>2, <2>3, <2>4, <2>5, <2>6, <2>7
<1>13. ASSUME PowerLoss PROVE Kept
  <2>1. TypeOK'
    <3>1. pc' \in [Writers -> Steps] /\ tmp' \in [Writers -> 0..MaxFiles]
      BY <1>13 DEF PowerLoss
    <3>2. /\ name' \in 0..MaxFiles /\ dname' \in 0..MaxFiles
          /\ dir' \in {"absent", "made", "kept"}
      BY <1>13 DEF PowerLoss, TypeOK
    <3>3. acked' \subseteq Files /\ synced' \subseteq acked'
      BY <1>13 DEF PowerLoss, TypeOK
    <3>4. UNCHANGED <<used, data, renames, rank>> /\ cache' = data
      BY <1>13 DEF PowerLoss
    <3> QED
      BY <3>1, <3>2, <3>3, <3>4 DEF TypeOK
  <2>2. Owned'
    BY <1>13 DEF PowerLoss, TypeOK, Owned
  <2>3. Private'
    <3>1. /\ name' <= used /\ dname' <= used /\ used' = used
          /\ \A f \in acked' : f <= used
      <4>1. 0 <= used /\ name <= used /\ dname <= used /\ synced \subseteq acked
            /\ \A f \in acked : f <= used
        BY DEF TypeOK, Private
      <4>2. CASE dir = "kept"
        BY <1>13, <4>1, <4>2 DEF PowerLoss
      <4>3. CASE dir # "kept"
        BY <1>13, <4>1, <4>3 DEF PowerLoss
      <4> QED
        BY <4>2, <4>3
    <3>2. \A w \in Writers : pc'[w] = "idle"
      BY <1>13 DEF PowerLoss
    <3> QED
      BY <3>1, <3>2 DEF Private, Unpublished
  <2>4. Filled'
    BY <1>13 DEF PowerLoss, TypeOK, Owned, Filled
  <2>5. Complete'
    BY <1>13 DEF PowerLoss, TypeOK, Owned, Private, Unpublished, Filled, Complete
  <2>6. Ranked'
    BY <1>13 DEF PowerLoss, TypeOK, Owned, Ranked
  <2>7. AckedSurvives'
    BY <1>13 DEF PowerLoss, TypeOK, Owned, Private, Unpublished, Ranked, AckedSurvives
  <2> QED
    BY <2>1, <2>2, <2>3, <2>4, <2>5, <2>6, <2>7
<1>14. ASSUME NEW w \in Writers, MkdirAll(w) PROVE Kept
  <2>1. TypeOK'
    BY <1>14 DEF MkdirAll, TypeOK, Owned
  <2>2. Owned'
    BY <1>14 DEF MkdirAll, TypeOK, Owned
  <2>3. Private'
    BY <1>14 DEF MkdirAll, TypeOK, Owned, Private, Unpublished
  <2>4. Filled'
    BY <1>14 DEF MkdirAll, TypeOK, Owned, Filled
  <2>5. Complete'
    BY <1>14 DEF MkdirAll, TypeOK, Owned, Private, Unpublished, Filled, Complete
  <2>6. Ranked'
    BY <1>14 DEF MkdirAll, TypeOK, Owned, Ranked
  <2>7. AckedSurvives'
    BY <1>14 DEF MkdirAll, TypeOK, Owned, Private, Unpublished, Ranked, AckedSurvives
  <2> QED
    BY <2>1, <2>2, <2>3, <2>4, <2>5, <2>6, <2>7
<1>15. ASSUME NEW w \in Writers, SyncDirSwallowed(w) PROVE Kept
  <2>1. TypeOK'
    <3>1. tmp[w] \in Files
      BY <1>15 DEF SyncDirSwallowed, TypeOK, Owned
    <3>2. acked' \subseteq Files /\ synced' \subseteq acked'
      BY <1>15, <3>1 DEF SyncDirSwallowed, TypeOK
    <3>3. pc' \in [Writers -> Steps] /\ tmp' \in [Writers -> 0..MaxFiles]
      BY <1>15 DEF SyncDirSwallowed, TypeOK
    <3> QED
      BY <1>15, <3>2, <3>3 DEF SyncDirSwallowed, TypeOK
  <2>2. Owned'
    BY <1>15 DEF SyncDirSwallowed, TypeOK, Owned
  <2>3. Private'
    BY <1>15 DEF SyncDirSwallowed, TypeOK, Owned, Private, Unpublished
  <2>4. Filled'
    BY <1>15 DEF SyncDirSwallowed, TypeOK, Owned, Filled
  <2>5. Complete'
    BY <1>15 DEF SyncDirSwallowed, TypeOK, Owned, Private, Unpublished, Filled, Complete
  <2>6. Ranked'
    BY <1>15 DEF SyncDirSwallowed, TypeOK, Owned, Ranked
  <2>7. AckedSurvives'
    BY <1>15 DEF SyncDirSwallowed, TypeOK, Owned, Private, Unpublished, Ranked, AckedSurvives
  <2> QED
    BY <2>1, <2>2, <2>3, <2>4, <2>5, <2>6, <2>7
<1>16. ASSUME WritebackParent PROVE Kept
  <2>1. TypeOK'
    BY <1>16 DEF WritebackParent, TypeOK, Owned
  <2>2. Owned'
    BY <1>16 DEF WritebackParent, TypeOK, Owned
  <2>3. Private'
    BY <1>16 DEF WritebackParent, TypeOK, Owned, Private, Unpublished
  <2>4. Filled'
    BY <1>16 DEF WritebackParent, TypeOK, Owned, Filled
  <2>5. Complete'
    BY <1>16 DEF WritebackParent, TypeOK, Owned, Private, Unpublished, Filled, Complete
  <2>6. Ranked'
    BY <1>16 DEF WritebackParent, TypeOK, Owned, Ranked
  <2>7. AckedSurvives'
    BY <1>16 DEF WritebackParent, TypeOK, Owned, Private, Unpublished, Ranked, AckedSurvives
  <2> QED
    BY <2>1, <2>2, <2>3, <2>4, <2>5, <2>6, <2>7
<1>17. CASE UNCHANGED vars
  BY <1>17 DEF vars, TypeOK, Owned, Private, Unpublished, Filled, Complete, Ranked, AckedSurvives
<1> QED
  BY <1>1, <1>2, <1>3, <1>4, <1>5, <1>6, <1>7, <1>8, <1>9, <1>10, <1>11, <1>12,
     <1>13, <1>14, <1>15, <1>16, <1>17 DEF Next

\* FileInv holds throughout.
LEMMA Invariance == Spec => []FileInv
  BY InitInv, NextInv, PTL DEF Spec

\* The protocol's states have the declared shape.
THEOREM TypeCorrect == Spec => []TypeOK
<1>1. FileInv => TypeOK
  BY DEF FileInv
<1> QED
  BY Invariance, <1>1, PTL

\* However writes, errors, crashes and power losses interleave, the path reads
\* as a complete snapshot or does not exist.
THEOREM PathNeverTorn == Spec => []NeverTorn
<1>1. FileInv => NeverTorn
  BY DEF FileInv, Complete, NeverTorn, ReadFile, TypeOK, Files, Full
<1> QED
  BY Invariance, <1>1, PTL

\* A write that WriteFile acknowledged is undone by nothing but a power loss, and
\* by no power loss either if its directory was synced and is one the disk keeps.
THEOREM AcknowledgedSurvives == Spec => []AckedSurvives
<1>1. FileInv => AckedSurvives
  BY DEF FileInv
<1> QED
  BY Invariance, <1>1, PTL

\* WriteFile implements a file that is replaced in one step.
THEOREM Implements == Spec => ImplementsAtomicFile
<1> DEFINE F == ReadFile(name, cache)
           S == ReadFile(dname, data)
           K == dir = "kept"
<1>1. Init => Abstract!Init
  BY DEF Init, Abstract!Init, ReadFile
<1>2. FileInv => F = name /\ S = dname
  BY DEF FileInv, Complete, ReadFile
<1>3. FileInv /\ FileInv' /\ [Next]_vars => [Abstract!Next]_<<F, S, K>>
  <2> SUFFICES ASSUME FileInv, FileInv', [Next]_vars
               PROVE  [Abstract!Next]_<<F, S, K>>
    OBVIOUS
  <2>1. /\ F = name /\ S = dname /\ F' = name' /\ S' = dname'
    BY <1>2 DEF FileInv, Complete, ReadFile
  <2> USE DEF diskVars, Leave, Goto, Abstract!Next, Abstract!Replace,
              Abstract!Settle, Abstract!Keep, Abstract!PowerLoss
  <2>2. ASSUME NEW w \in Writers, Rename(w) PROVE Abstract!Next
    <3>1. tmp[w] \in Files
      BY <2>2 DEF Rename, FileInv, TypeOK, Owned, Files
    <3> QED
      BY <2>1, <2>2, <3>1 DEF Rename
  <2>3. ASSUME NEW w \in Writers, SyncDir(w) PROVE [Abstract!Next]_<<F, S, K>>
    BY <2>1, <2>3 DEF SyncDir
  <2>4. CASE WritebackDir
    BY <2>1, <2>4 DEF WritebackDir
  <2>5. CASE WritebackParent
    BY <2>1, <2>5 DEF WritebackParent
  <2>6. CASE PowerLoss
    <3>1. CASE dir = "kept"
      BY <2>1, <2>6, <3>1 DEF PowerLoss
    <3>2. CASE dir # "kept"
      BY <2>1, <2>6, <3>2 DEF PowerLoss
    <3> QED
      BY <3>1, <3>2
  <2>7. ASSUME NEW w \in Writers, MkdirAll(w) PROVE [Abstract!Next]_<<F, S, K>>
    BY <2>1, <2>7 DEF MkdirAll
  <2>8. CASE UNCHANGED <<name, dname, dir>>
    BY <2>1, <2>8
  <2> QED
    BY <2>2, <2>3, <2>4, <2>5, <2>6, <2>7, <2>8
       DEF Next, vars, CreateTemp, Write, WriteErr, Sync, Close, Abort, SyncDirSwallowed,
           SyncDirErr, Crash, Writeback
<1> QED
  BY <1>1, <1>3, Invariance, PTL DEF Spec, ImplementsAtomicFile, Abstract!Spec
=============================================================================
