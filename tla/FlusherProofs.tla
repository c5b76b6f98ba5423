--------------------------- MODULE FlusherProofs ---------------------------
(***************************************************************************)
(* Proofs about Flusher, for every number of operations, services,         *)
(* versions, generations and failures, and every strategy.                 *)
(***************************************************************************)
EXTENDS Flusher, TLAPS

(***************************************************************************)
(* Type correctness                                                        *)
(***************************************************************************)

\* The idle operation and the idle save are well typed.
LEMMA IdleTypes ==
    /\ IdleOp \in Operation
    /\ IdleSave \in Saving
    /\ Zero \in [Services -> Versions]
    /\ 0 \in Gens /\ 0 \in Versions
BY FlusherAssumption DEF IdleOp, Operation, Kinds, OpSteps, Gens, IdleSave, Saving, SaveSteps,
   Zero, Versions

\* The server starts well typed.
LEMMA TypeInit == Init => TypeOK
<1> SUFFICES ASSUME Init PROVE TypeOK
  OBVIOUS
<1>1. /\ op \in [Ops -> Operation] /\ save \in [Savers -> Saving]
      /\ state \in [Gens -> [Services -> Versions]]
  BY IdleTypes DEF Init
<1>2. disk \in [gen : Gens, val : [Services -> Versions]]
  BY IdleTypes DEF Init
<1>3. version \in Versions /\ gen \in Gens /\ closed \subseteq Gens /\ fails \in 0..MaxFails
  BY IdleTypes, FlusherAssumption DEF Init
<1> QED
  BY <1>1, <1>2, <1>3, FlusherAssumption DEF Init, TypeOK

\* The fields of a step's result.
LEMMA OpType ==
    ASSUME NEW r \in Operation
    PROVE  /\ r.kind \in Kinds /\ r.at \in OpSteps /\ r.gen \in Gens
           /\ r.todo \subseteq Services /\ r.chg \subseteq Services
BY DEF Operation

\* A saver's record, by its fields.
LEMMA SaveType ==
    ASSUME NEW r \in Saving
    PROVE  /\ r.at \in SaveSteps /\ r.gen \in Gens
           /\ r.todo \subseteq Services /\ r.snap \in [Services -> Versions]
BY DEF Saving

\* Requests, seeds, resets, restores and ticks keep the types.
LEMMA TypeOpStep ==
    ASSUME TypeOK, NEW o \in Ops, OpStep(o)
    PROVE  TypeOK'
<1> USE FlusherAssumption, IdleTypes DEF flushVars, lifeVars, appVars
<1>0. op[o] \in Operation
  BY DEF TypeOK
<1>1. ASSUME NEW s \in Services, Apply(o, s) PROVE TypeOK'
  <2>1. [op[o] EXCEPT !.chg = @ \union {s}] \in Operation
    BY <1>0 DEF Operation
  <2>2. op' \in [Ops -> Operation]
    BY <1>1, <2>1 DEF Apply, TypeOK
  <2>3. version' \in Versions
    BY <1>1 DEF Apply, TypeOK, Versions
  <2>4. state' \in [Gens -> [Services -> Versions]]
    BY <1>1, <2>3 DEF Apply, TypeOK
  <2> QED
    BY <1>1, <2>2, <2>3, <2>4 DEF Apply, TypeOK
<1>2. ASSUME NEW s \in Services, LoadService(o, s) PROVE TypeOK'
  <2>1. [op[o] EXCEPT !.todo = @ \ {s}] \in Operation
    BY <1>0 DEF Operation
  <2>2. op' \in [Ops -> Operation]
    BY <1>2, <2>1 DEF LoadService, TypeOK
  <2>3. version' \in Versions
    BY <1>2 DEF LoadService, TypeOK, Versions
  <2>4. state' \in [Gens -> [Services -> Versions]]
    BY <1>2, <2>3 DEF LoadService, TypeOK
  <2> QED
    BY <1>2, <2>2, <2>3, <2>4 DEF LoadService, TypeOK
<1>3. CASE ApplyDone(o)
  <2>1. [op[o] EXCEPT !.at = "mark"] \in Operation
    BY <1>0 DEF Operation, OpSteps
  <2>2. op' \in [Ops -> Operation]
    BY <1>3, <2>1 DEF ApplyDone, TypeOK
  <2> QED
    BY <1>3, <2>2 DEF ApplyDone, TypeOK
<1>4. CASE ApplyFail(o) \/ LoadFail(o)
  <2>1. op[o].chg \subseteq Services
    BY <1>0, OpType
  <2> QED
    BY <1>4, <2>1 DEF ApplyFail, LoadFail, TypeOK
<1>5. CASE SwapFresh(o)
  <2>1. gen \in Gens /\ gen + 1 \in Gens /\ version' \in Versions
    BY <1>5 DEF SwapFresh, TypeOK, Gens, Versions
  <2>2. [op[o] EXCEPT !.at = "close", !.gen = gen, !.chg = Services] \in Operation
    BY <1>0, <2>1 DEF Operation, OpSteps
  <2>3. op' \in [Ops -> Operation]
    BY <1>5, <2>2 DEF SwapFresh, TypeOK
  <2>4. state' \in [Gens -> [Services -> Versions]]
    BY <1>5, <2>1 DEF SwapFresh, TypeOK
  <2> QED
    BY <1>5, <2>1, <2>3, <2>4 DEF SwapFresh, TypeOK
<1>6. CASE CloseProviders(o)
  <2>1. ASSUME NEW a \in {"mark", "targets"} PROVE [op[o] EXCEPT !.at = a] \in Operation
    BY <1>0 DEF Operation, OpSteps
  <2>2. op' \in [Ops -> Operation]
    BY <1>6, <2>1 DEF CloseProviders, TypeOK
  <2>3. op[o].gen \in Gens
    BY <1>0, OpType
  <2> QED
    BY <1>6, <2>2, <2>3 DEF CloseProviders, TypeOK
<1>7. CASE RestoreTargets(o)
  <2>1. gen \in Gens
    BY DEF TypeOK
  <2>2. [op[o] EXCEPT !.at = "load", !.gen = gen, !.todo = Services] \in Operation
    BY <1>0, <2>1 DEF Operation, OpSteps
  <2>3. op' \in [Ops -> Operation]
    BY <1>7, <2>2 DEF RestoreTargets, TypeOK
  <2> QED
    BY <1>7, <2>3 DEF RestoreTargets, TypeOK
<1>8. CASE LoadDone(o)
  <2>1. [op[o] EXCEPT !.at = "mark"] \in Operation
    BY <1>0 DEF Operation, OpSteps
  <2>2. op' \in [Ops -> Operation]
    BY <1>8, <2>1 DEF LoadDone, TypeOK
  <2> QED
    BY <1>8, <2>2 DEF LoadDone, TypeOK
<1>9. CASE MarkStore(o)
  <2>1. [op[o] EXCEPT !.at = "signal", !.chg = {}] \in Operation
    BY <1>0 DEF Operation, OpSteps
  <2>2. op' \in [Ops -> Operation]
    BY <1>9, <2>1 DEF MarkStore, TypeOK
  <2> QED
    BY <1>9, <2>2 DEF MarkStore, TypeOK
<1>10. CASE MarkSignal(o)
  BY <1>10 DEF MarkSignal, TypeOK
<1> QED
  BY <1>1, <1>2, <1>3, <1>4, <1>5, <1>6, <1>7, <1>8, <1>9, <1>10 DEF OpStep

\* A save starts well typed.
LEMMA StartSaveType ==
    ASSUME TypeOK, NEW x \in Savers, StartSave(x)
    PROVE  save' \in [Savers -> Saving]
<1>1. [IdleSave EXCEPT !.at = "lock"] \in Saving
  BY IdleTypes DEF Saving, SaveSteps
<1> QED
  BY <1>1 DEF StartSave, TypeOK

\* Every step of a save or an export keeps the types.
LEMMA TypeSaveStep ==
    ASSUME TypeOK, NEW x \in Savers, SaveStep(x)
    PROVE  TypeOK'
<1> USE FlusherAssumption, IdleTypes DEF lifeVars, appVars
<1>0. save[x] \in Saving
  BY DEF TypeOK
<1>1. CASE SaveLock(x)
  <2>1. [save[x] EXCEPT !.at = "targets"] \in Saving
    BY <1>0 DEF Saving, SaveSteps
  <2>2. save' \in [Savers -> Saving]
    BY <1>1, <2>1 DEF SaveLock, TypeOK
  <2> QED
    BY <1>1, <2>2 DEF SaveLock, TypeOK
<1>2. CASE SaveTargets(x)
  <2>1. gen \in Gens
    BY DEF TypeOK
  <2>2. [save[x] EXCEPT !.at = "export", !.gen = gen, !.todo = Services] \in Saving
    BY <1>0, <2>1 DEF Saving, SaveSteps
  <2>3. save' \in [Savers -> Saving]
    BY <1>2, <2>2 DEF SaveTargets, TypeOK
  <2> QED
    BY <1>2, <2>3 DEF SaveTargets, TypeOK
<1>3. ASSUME NEW s \in Services, ExportService(x, s) PROVE TypeOK'
  <2> DEFINE read == [save[x].snap EXCEPT ![s] = state[save[x].gen][s]]
  <2>1. read \in [Services -> Versions]
    BY <1>0, SaveType DEF TypeOK
  <2>2. [save[x] EXCEPT !.todo = @ \ {s}, !.snap = read] \in Saving
    BY <1>0, <2>1 DEF Saving
  <2>3. save' = [save EXCEPT ![x] = [save[x] EXCEPT !.todo = @ \ {s}, !.snap = read]]
    BY <1>3 DEF ExportService
  <2>4. save' \in [Savers -> Saving]
    BY <2>2, <2>3 DEF TypeOK
  <2> QED
    BY <1>3, <2>4 DEF ExportService, TypeOK
<1>4. Captured(x) \in [gen : Gens, val : [Services -> Versions]]
  BY <1>0, SaveType DEF Captured
<1>5. CASE SaveOk(x)
  <2>1. save' \in [Savers -> Saving] /\ disk' \in [gen : Gens, val : [Services -> Versions]]
    BY <1>4, <1>5 DEF SaveOk, TypeOK
  <2> QED
    BY <1>5, <2>1 DEF SaveOk, AfterSave, TypeOK
<1>6. CASE SaveFail(x)
  <2>1. save' \in [Savers -> Saving] /\ disk' \in [gen : Gens, val : [Services -> Versions]]
    BY <1>4, <1>6 DEF SaveFail, TypeOK
  <2>2. fails' \in 0..MaxFails
    BY <1>6 DEF SaveFail, TypeOK
  <2> QED
    BY <1>6, <2>1, <2>2 DEF SaveFail, TypeOK
<1> QED
  BY <1>1, <1>2, <1>3, <1>5, <1>6 DEF SaveStep

\* So does every step of the server.
LEMMA TypeNext == TypeOK /\ [Next]_vars => TypeOK'
<1> SUFFICES ASSUME TypeOK, [Next]_vars PROVE TypeOK'
  OBVIOUS
<1> USE FlusherAssumption, IdleTypes DEF appVars
<1>1. ASSUME NEW o \in Ops, NEW kind \in Kinds \intersect Inputs, Begin(o, kind)
      PROVE  TypeOK'
  <2>1. ASSUME NEW a \in {"swap", "apply"}
        PROVE  [IdleOp EXCEPT !.kind = kind, !.gen = gen, !.at = a] \in Operation
    BY DEF Operation, OpSteps, TypeOK
  <2>2. op' \in [Ops -> Operation]
    BY <1>1, <2>1 DEF Begin, TypeOK
  <2> QED
    BY <1>1, <2>2 DEF Begin, TypeOK, flushVars
<1>2. CASE LoopStep
  <2>1. CASE ScheduledTick
    <3>1. save' \in [Savers -> Saving]
      BY <2>1, StartSaveType DEF ScheduledTick, ClearAndSave, Savers
    <3> QED
      BY <2>1, <3>1 DEF ScheduledTick, ClearAndSave, TypeOK
  <2>2. CASE CoalesceFire
    <3>1. save' \in [Savers -> Saving]
      BY <2>2, StartSaveType DEF CoalesceFire, ClearAndSave, Savers
    <3> QED
      BY <2>2, <3>1 DEF CoalesceFire, ClearAndSave, TypeOK
  <2>3. CASE OnRequestWake \/ CoalesceMore \/ LoopExit
    BY <2>3 DEF OnRequestWake, CoalesceMore, LoopExit, TypeOK, lifeVars
  <2> QED
    BY <1>2, <2>1, <2>2, <2>3 DEF LoopStep
<1>3. CASE AdminSnapshot
  BY <1>3, StartSaveType DEF AdminSnapshot, TypeOK, Savers, lifeVars
<1>4. CASE AdminReply
  BY <1>4 DEF AdminReply, TypeOK, lifeVars
<1>5. ASSUME NEW x \in Savers, SaveStep(x)
      PROVE  TypeOK'
  BY <1>5, TypeSaveStep
<1>6. CASE BeginShutdown \/ DrainServers \/ StopTicker
  BY <1>6 DEF BeginShutdown, DrainServers, StopTicker, TypeOK, flushVars
<1>7. CASE FinalSave
  <2>1. save' \in [Savers -> Saving]
    BY <1>7, StartSaveType DEF FinalSave, TypeOK, Savers
  <2> QED
    BY <1>7, <2>1 DEF FinalSave, TypeOK
<1>8. CASE CloseLive
  BY <1>8 DEF CloseLive, TypeOK, flushVars
<1>9. CASE UNCHANGED vars
  BY <1>9 DEF vars, TypeOK
<1> QED
  BY <1>1, <1>2, <1>3, <1>4, <1>5, <1>6, <1>7, <1>8, <1>9, TypeOpStep DEF Next, ShutdownStep

\* Every state of the persistence protocol has the declared shape: a swap
\* publishes providers that are all built, and an export reads a generation
\* that exists.
THEOREM TypeCorrect == Spec => []TypeOK
BY TypeInit, TypeNext, PTL DEF Spec

(***************************************************************************)
(* The inductive invariant                                                 *)
(***************************************************************************)

\* The savers that write the file.
Writers == {"loop", "final"}

\* The loop is in runSave exactly while its save is in progress; the final
\* save belongs to its phase, by which the loop's goroutine has exited.
OneWriter ==
    /\ loop = "save" <=> save["loop"].at # "idle"
    /\ save["final"].at # "idle" => phase = "final"
    /\ phase \in {"final", "closing", "stopped"} => loop \in {"off", "exited"}

\* What an operation has changed is on its books until it marks.
BooksKept ==
    \A o \in Ops :
        /\ op[o].at \in {"idle", "signal"} => op[o].chg = {}
        /\ op[o].at \in {"close", "targets", "load"} => op[o].chg = Services

\* Providers are closed after they have been replaced.
ClosedAreOld ==
    /\ Running => \A g \in closed : g < gen
    /\ \A o \in Ops : op[o].at = "close" => op[o].gen < gen

\* A service a write in progress will not record in its live version.
Missed(x, s) ==
    \/ save[x].gen # gen
    \/ s \notin save[x].todo /\ save[x].snap[s] # state[gen][s]

\* Somebody has said that s changed, will say so, or has failed to.
Announced(s) == dirty \/ MarkPending(s) \/ s \in silent

MissedIsAnnounced ==
    \A x \in Writers, s \in Services :
        save[x].at = "export" /\ Missed(x, s) => Announced(s)

FlushInv ==
    /\ TypeOK
    /\ OneWriter
    /\ BooksKept
    /\ ClosedAreOld
    /\ MissedIsAnnounced
    /\ NoLostMutation
    /\ ExportReadsOpenProviders

\* The restored server has nothing to announce.
LEMMA FlushInvInit == Init => FlushInv
<1> SUFFICES ASSUME Init PROVE FlushInv
  OBVIOUS
<1>1. TypeOK
  BY TypeInit
<1>2. \A x \in Savers : save[x].at = "idle"
  BY DEF Init, IdleSave
<1>3. \A o \in Ops : op[o].at = "idle" /\ op[o].chg = {}
  BY DEF Init, IdleOp
<1>4. OneWriter
  BY <1>2 DEF Init, OneWriter, Savers
<1>5. BooksKept /\ ClosedAreOld
  BY <1>3 DEF Init, BooksKept, ClosedAreOld
<1>6. MissedIsAnnounced /\ ExportReadsOpenProviders
  BY <1>2 DEF MissedIsAnnounced, ExportReadsOpenProviders, Savers, Writers
<1>7. \A s \in Services : disk.val[s] = state[gen][s]
  BY IdleTypes DEF Init
<1>8. NoLostMutation
  BY <1>7 DEF NoLostMutation, Unsaved
<1> QED
  BY <1>1, <1>4, <1>5, <1>6, <1>8 DEF FlushInv

\* A step that leaves the file and the saves alone keeps every unsaved change
\* announced if it takes back no announcement and announces what it changes.
LEMMA AnnouncingStep ==
    ASSUME FlushInv, UNCHANGED <<disk, save>>,
           \A s \in Services : Announced(s) => Announced(s)',
           \A s \in Services :
              gen' # gen \/ state'[gen'][s] # state[gen][s] => Announced(s)'
    PROVE  NoLostMutation' /\ MissedIsAnnounced'
<1>1. ASSUME NEW s \in Services, Unsaved(s)', ~Announced(s)'
      PROVE  SaveWillCatch(s)'
  <2>1. gen' = gen /\ state'[gen'][s] = state[gen][s] /\ ~Announced(s)
    BY <1>1
  <2>2. SaveWillCatch(s)
    BY <1>1, <2>1 DEF FlushInv, NoLostMutation, Unsaved, Announced
  <2> QED
    BY <2>1, <2>2 DEF SaveWillCatch
<1>2. ASSUME NEW x \in Writers, NEW s \in Services, save'[x].at = "export", Missed(x, s)'
      PROVE  Announced(s)'
  <2> SUFFICES ASSUME ~Announced(s)' PROVE FALSE
    OBVIOUS
  <2>1. gen' = gen /\ state'[gen'][s] = state[gen][s] /\ ~Announced(s)
    OBVIOUS
  <2> QED
    BY <1>2, <2>1 DEF FlushInv, MissedIsAnnounced, Missed
<1> QED
  BY <1>1, <1>2 DEF NoLostMutation, MissedIsAnnounced, Announced

\* An operation's step touches its own progress only, and announcements of the
\* others stay.
LEMMA OpChanged ==
    ASSUME TypeOK, NEW o \in Ops, NEW r, op' = [op EXCEPT ![o] = r]
    PROVE  /\ op'[o] = r
           /\ \A d \in Ops \ {o} : op'[d] = op[d]
           /\ \A s : MarkPending(s) => MarkPending(s)' \/ s \in op[o].chg
           /\ \A s : s \in r.chg => MarkPending(s)'
BY DEF TypeOK, MarkPending

\* The steps of an operation that change no provider and unmark nothing.
LEMMA BookkeepingStep ==
    ASSUME FlushInv, TypeOK', NEW o \in Ops, NEW r,
           op' = [op EXCEPT ![o] = r],
           r.chg = op[o].chg,
           r.at \in {"idle", "signal"} => r.chg = {},
           r.at \in {"close", "targets", "load"} => r.chg = Services,
           r.at = "close" => r.gen < gen,
           UNCHANGED <<state, gen, closed, phase, disk, dirty, loop, save, silent>>
    PROVE  FlushInv'
<1>1. op'[o] = r /\ \A d \in Ops \ {o} : op'[d] = op[d]
  BY OpChanged DEF FlushInv
<1>2. \A s \in Services : Announced(s) => Announced(s)'
  BY OpChanged DEF FlushInv, Announced
<1>3. NoLostMutation' /\ MissedIsAnnounced'
  BY <1>2, AnnouncingStep
<1>4. OneWriter' /\ ExportReadsOpenProviders'
  BY DEF FlushInv, OneWriter, ExportReadsOpenProviders
<1>5. BooksKept' /\ ClosedAreOld'
  BY <1>1 DEF FlushInv, BooksKept, ClosedAreOld, Running
<1> QED
  BY <1>3, <1>4, <1>5 DEF FlushInv

\* A change of one service in the providers the operation works on.
LEMMA MutatingStep ==
    ASSUME FlushInv, TypeOK', NEW o \in Ops, NEW s \in Services, NEW r, NEW v,
           op' = [op EXCEPT ![o] = r],
           op[o].chg \union {s} \subseteq r.chg,
           r.at = op[o].at, r.at \in {"apply", "load"},
           r.at = "load" => r.chg = Services,
           state' = [state EXCEPT ![op[o].gen][s] = v],
           UNCHANGED <<gen, closed, phase, disk, dirty, loop, save, silent>>
    PROVE  FlushInv'
<1>1. op'[o] = r /\ \A d \in Ops \ {o} : op'[d] = op[d]
  BY OpChanged DEF FlushInv
<1>2. \A u \in Services : Announced(u) => Announced(u)'
  BY OpChanged DEF FlushInv, Announced
<1>3. ASSUME NEW u \in Services, state'[gen'][u] # state[gen][u] PROVE Announced(u)'
  <2>1. u = s
    BY <1>3 DEF FlushInv, TypeOK
  <2> QED
    BY <2>1, OpChanged DEF FlushInv, Announced
<1>4. NoLostMutation' /\ MissedIsAnnounced'
  BY <1>2, <1>3, AnnouncingStep
<1>5. OneWriter' /\ ExportReadsOpenProviders'
  BY DEF FlushInv, OneWriter, ExportReadsOpenProviders
<1>6. BooksKept' /\ ClosedAreOld'
  BY <1>1 DEF FlushInv, BooksKept, ClosedAreOld, Running
<1> QED
  BY <1>4, <1>5, <1>6 DEF FlushInv

\* Every step of an operation preserves the invariant.
LEMMA OpStepInv ==
    ASSUME FlushInv, NEW o \in Ops, OpStep(o)
    PROVE  FlushInv'
<1>0. TypeOK /\ TypeOK' /\ op[o] \in Operation
  BY TypeOpStep DEF FlushInv, TypeOK
<1> USE DEF flushVars, lifeVars, appVars
<1>1. ASSUME NEW s \in Services, Apply(o, s) PROVE FlushInv'
  <2> DEFINE r == [op[o] EXCEPT !.chg = @ \union {s}]
  <2>1. r.chg = op[o].chg \union {s} /\ r.at = op[o].at /\ op[o].at = "apply"
    BY <1>0, <1>1 DEF Apply, Operation
  <2>2. op' = [op EXCEPT ![o] = r]
    BY <1>1 DEF Apply
  <2>3. /\ state' = [state EXCEPT ![op[o].gen][s] = version + 1]
        /\ UNCHANGED <<gen, closed, phase, disk, dirty, loop, save, silent>>
    BY <1>1 DEF Apply
  <2> HIDE DEF r
  <2> QED
    BY <1>0, <2>1, <2>2, <2>3, MutatingStep
<1>2. ASSUME NEW s \in Services, LoadService(o, s) PROVE FlushInv'
  <2> DEFINE r == [op[o] EXCEPT !.todo = @ \ {s}]
  <2>1. r.chg = op[o].chg /\ r.at = op[o].at /\ op[o].at = "load"
    BY <1>0, <1>2 DEF LoadService, Operation
  <2>2. op' = [op EXCEPT ![o] = r] /\ op[o].chg = Services
    BY <1>2 DEF LoadService, FlushInv, BooksKept
  <2>3. /\ state' = [state EXCEPT ![op[o].gen][s] = version + 1]
        /\ UNCHANGED <<gen, closed, phase, disk, dirty, loop, save, silent>>
    BY <1>2 DEF LoadService
  <2>4. op[o].chg \union {s} \subseteq r.chg /\ r.chg = Services
    BY <2>1, <2>2
  <2> HIDE DEF r
  <2> QED
    BY <1>0, <2>1, <2>2, <2>3, <2>4, MutatingStep
<1>3. CASE ApplyDone(o)
  <2> DEFINE r == IF op[o].kind = "tick" /\ op[o].chg = {} THEN IdleOp
                  ELSE [op[o] EXCEPT !.at = "mark"]
  <2>1. r.chg = op[o].chg /\ (r.at = "idle" => r.chg = {}) /\ r.at \in {"idle", "mark"}
    BY <1>0 DEF Operation, IdleOp
  <2>2. /\ op' = [op EXCEPT ![o] = r]
        /\ UNCHANGED <<state, gen, closed, phase, disk, dirty, loop, save, silent>>
    BY <1>3 DEF ApplyDone
  <2> HIDE DEF r
  <2> QED
    BY <1>0, <2>1, <2>2, BookkeepingStep
<1>4. CASE ApplyFail(o) \/ LoadFail(o)
  <2>1. /\ op' = [op EXCEPT ![o] = IdleOp]
        /\ silent' = silent \union op[o].chg
        /\ UNCHANGED <<state, gen, closed, phase, disk, dirty, loop, save>>
    BY <1>4 DEF ApplyFail, LoadFail
  <2>2. \A s \in Services : Announced(s) => Announced(s)'
    BY <1>0, <2>1, OpChanged DEF Announced
  <2>3. NoLostMutation' /\ MissedIsAnnounced'
    BY <2>1, <2>2, AnnouncingStep
  <2>4. /\ op'[o].at = "idle" /\ op'[o].chg = {}
        /\ \A d \in Ops \ {o} : op'[d] = op[d]
    BY <1>0, <2>1 DEF TypeOK, IdleOp
  <2>5. BooksKept' /\ ClosedAreOld'
    BY <2>1, <2>4 DEF FlushInv, BooksKept, ClosedAreOld, Running
  <2>6. OneWriter' /\ ExportReadsOpenProviders'
    BY <2>1 DEF FlushInv, OneWriter, ExportReadsOpenProviders
  <2> QED
    BY <1>0, <2>3, <2>5, <2>6 DEF FlushInv
<1>5. CASE SwapFresh(o)
  <2> DEFINE r == [op[o] EXCEPT !.at = "close", !.gen = gen, !.chg = Services]
  <2>1. r.at = "close" /\ r.gen = gen /\ r.chg = Services
    BY <1>0 DEF Operation
  <2>2. /\ op' = [op EXCEPT ![o] = r] /\ gen' = gen + 1
        /\ UNCHANGED <<closed, phase, disk, dirty, loop, save, silent>>
    BY <1>5 DEF SwapFresh
  <2>0. gen \in Int
    BY <1>0 DEF TypeOK, Gens
  <2> HIDE DEF r
  <2>3. op'[o] = r /\ \A d \in Ops \ {o} : op'[d] = op[d]
    BY <1>0, <2>2, OpChanged
  <2>4. \A s \in Services : Announced(s)'
    BY <1>0, <2>1, <2>2, OpChanged DEF Announced
  <2>5. NoLostMutation' /\ MissedIsAnnounced'
    BY <2>0, <2>2, <2>4, AnnouncingStep
  <2>6. BooksKept'
    BY <2>1, <2>3 DEF FlushInv, BooksKept
  <2>7. ClosedAreOld'
    <3>1. \A g \in closed : g \in Int
      BY <1>0 DEF TypeOK, Gens
    <3>2. \A d \in Ops : op[d].gen \in Int
      BY <1>0, OpType DEF TypeOK, Gens
    <3> QED
      BY <2>0, <2>1, <2>2, <2>3, <3>1, <3>2 DEF FlushInv, ClosedAreOld, Running
  <2>8. OneWriter' /\ ExportReadsOpenProviders'
    BY <2>2 DEF FlushInv, OneWriter, ExportReadsOpenProviders
  <2> QED
    BY <1>0, <2>5, <2>6, <2>7, <2>8 DEF FlushInv
<1>6. CASE CloseProviders(o)
  <2> DEFINE r == [op[o] EXCEPT !.at = IF op[o].kind = "reset" THEN "mark" ELSE "targets"]
  <2>1. r.at \in {"mark", "targets"} /\ r.chg = Services
    BY <1>0, <1>6 DEF Operation, CloseProviders, FlushInv, BooksKept
  <2>2. /\ op' = [op EXCEPT ![o] = r] /\ closed' = closed \union {op[o].gen}
        /\ UNCHANGED <<state, gen, phase, disk, dirty, loop, save, silent>>
        /\ \A x \in Savers : ~Exporting(x)
        /\ op[o].gen < gen
    BY <1>6 DEF CloseProviders, FlushInv, ClosedAreOld
  <2> HIDE DEF r
  <2>3. op'[o] = r /\ \A d \in Ops \ {o} : op'[d] = op[d]
    BY <1>0, <2>2, OpChanged
  <2>4. \A s \in Services : Announced(s)'
    BY <1>0, <2>1, <2>2, OpChanged DEF Announced
  <2>5. NoLostMutation' /\ MissedIsAnnounced'
    BY <2>2, <2>4, AnnouncingStep
  <2>6. BooksKept' /\ ClosedAreOld'
    BY <2>1, <2>2, <2>3 DEF FlushInv, BooksKept, ClosedAreOld, Running
  <2>7. OneWriter' /\ ExportReadsOpenProviders'
    BY <2>2 DEF FlushInv, OneWriter, ExportReadsOpenProviders, Exporting
  <2> QED
    BY <1>0, <2>5, <2>6, <2>7 DEF FlushInv
<1>7. CASE RestoreTargets(o)
  <2> DEFINE r == [op[o] EXCEPT !.at = "load", !.gen = gen, !.todo = Services]
  <2>1. r.at = "load" /\ r.chg = op[o].chg /\ op[o].chg = Services
    BY <1>0, <1>7 DEF Operation, RestoreTargets, FlushInv, BooksKept
  <2>2. /\ op' = [op EXCEPT ![o] = r]
        /\ UNCHANGED <<state, gen, closed, phase, disk, dirty, loop, save, silent>>
    BY <1>7 DEF RestoreTargets
  <2> HIDE DEF r
  <2> QED
    BY <1>0, <2>1, <2>2, BookkeepingStep
<1>8. CASE LoadDone(o)
  <2> DEFINE r == [op[o] EXCEPT !.at = "mark"]
  <2>1. r.at = "mark" /\ r.chg = op[o].chg
    BY <1>0 DEF Operation
  <2>2. /\ op' = [op EXCEPT ![o] = r]
        /\ UNCHANGED <<state, gen, closed, phase, disk, dirty, loop, save, silent>>
    BY <1>8 DEF LoadDone
  <2> HIDE DEF r
  <2> QED
    BY <1>0, <2>1, <2>2, BookkeepingStep
<1>9. CASE MarkStore(o)
  <2> DEFINE r == [op[o] EXCEPT !.at = "signal", !.chg = {}]
  <2>1. r.at = "signal" /\ r.chg = {}
    BY <1>0 DEF Operation
  <2>2. /\ op' = [op EXCEPT ![o] = r] /\ dirty'
        /\ UNCHANGED <<state, gen, closed, phase, disk, loop, save>>
    BY <1>9 DEF MarkStore
  <2> HIDE DEF r
  <2>3. op'[o] = r /\ \A d \in Ops \ {o} : op'[d] = op[d]
    BY <1>0, <2>2, OpChanged
  <2>4. NoLostMutation' /\ MissedIsAnnounced'
    BY <2>2, AnnouncingStep DEF Announced
  <2>5. BooksKept' /\ ClosedAreOld'
    BY <2>1, <2>2, <2>3 DEF FlushInv, BooksKept, ClosedAreOld, Running
  <2>6. OneWriter' /\ ExportReadsOpenProviders'
    BY <2>2 DEF FlushInv, OneWriter, ExportReadsOpenProviders
  <2> QED
    BY <1>0, <2>4, <2>5, <2>6 DEF FlushInv
<1>10. CASE MarkSignal(o)
  <2>1. IdleOp.at = "idle" /\ IdleOp.chg = {} /\ op[o].chg = {}
    BY <1>10 DEF MarkSignal, IdleOp, FlushInv, BooksKept
  <2>2. /\ op' = [op EXCEPT ![o] = IdleOp]
        /\ UNCHANGED <<state, gen, closed, phase, disk, dirty, loop, save, silent>>
    BY <1>10 DEF MarkSignal
  <2> QED
    BY <1>0, <2>1, <2>2, BookkeepingStep
<1> QED
  BY <1>1, <1>2, <1>3, <1>4, <1>5, <1>6, <1>7, <1>8, <1>9, <1>10 DEF OpStep

\* A step of the loop or of shutdown that only moves the loop or the phase on.
LEMMA LifeStep ==
    ASSUME FlushInv, TypeOK', OneWriter', Running' => Running,
           UNCHANGED <<state, gen, closed, op, disk, dirty, save, silent>>
    PROVE  FlushInv'
<1>1. NoLostMutation' /\ MissedIsAnnounced'
  BY AnnouncingStep DEF Announced, MarkPending
<1>2. BooksKept' /\ ClosedAreOld' /\ ExportReadsOpenProviders'
  BY DEF FlushInv, BooksKept, ClosedAreOld, ExportReadsOpenProviders
<1> QED
  BY <1>1, <1>2 DEF FlushInv

\* A step of one saver that leaves the file alone.
LEMMA SavingStep ==
    ASSUME FlushInv, TypeOK', NEW x \in Savers, NEW r,
           save' = [save EXCEPT ![x] = r],
           x \in Writers => (r.at = "idle" <=> save[x].at = "idle"),
           x = "loop" => \A s \in Services : SaveWillCatch(s) => SaveWillCatch(s)',
           r.at = "export" => /\ r.gen \notin closed
                              /\ x \in Writers => \A s \in Services : Missed(x, s)' =>
                                    save[x].at = "export" /\ Missed(x, s),
           UNCHANGED <<state, gen, closed, op, disk, dirty, silent, loop, phase>>
    PROVE  FlushInv'
<1>1. save'[x] = r /\ \A y \in Savers \ {x} : save'[y] = save[y]
  BY DEF FlushInv, TypeOK
<1>2. OneWriter'
  BY <1>1 DEF FlushInv, OneWriter, Writers, Savers
<1>3. \A s : Announced(s)' <=> Announced(s)
  BY DEF Announced, MarkPending
<1>4. NoLostMutation'
  <2>1. \A s \in Services : SaveWillCatch(s) => SaveWillCatch(s)'
    BY <1>1 DEF SaveWillCatch, Savers
  <2>2. \A s \in Services : Unsaved(s)' <=> Unsaved(s)
    BY DEF Unsaved
  <2> QED
    BY <1>3, <2>1, <2>2 DEF FlushInv, NoLostMutation, Announced
<1>5. MissedIsAnnounced'
  <2> SUFFICES ASSUME NEW y \in Writers, NEW s \in Services,
                      save'[y].at = "export", Missed(y, s)'
               PROVE  Announced(s)
    BY <1>3 DEF MissedIsAnnounced
  <2>1. save[y].at = "export" /\ Missed(y, s)
    BY <1>1 DEF Missed, Writers, Savers
  <2> QED
    BY <2>1 DEF FlushInv, MissedIsAnnounced
<1>6. BooksKept' /\ ClosedAreOld' /\ ExportReadsOpenProviders'
  BY <1>1 DEF FlushInv, BooksKept, ClosedAreOld, ExportReadsOpenProviders, Running
<1> QED
  BY <1>2, <1>4, <1>5, <1>6 DEF FlushInv

\* A write ends.  If it reached the file, what it missed has been announced.
LEMMA WriteDone ==
    ASSUME FlushInv, TypeOK', NEW x \in Writers,
           save[x].at = "export",
           save' = [save EXCEPT ![x] = IdleSave],
           \/ save[x].todo = {} /\ disk' = Captured(x)
           \/ disk' = disk /\ (x = "loop" => dirty'),
           \/ UNCHANGED <<dirty, silent>>
           \/ dirty',
           \/ x = "loop" /\ loop' = "wait" /\ UNCHANGED phase
           \/ x = "final" /\ phase' = "closing" /\ UNCHANGED loop,
           UNCHANGED <<state, gen, closed, op>>
    PROVE  FlushInv'
<1>1. save'[x] = IdleSave /\ \A y \in Savers \ {x} : save'[y] = save[y]
  BY DEF FlushInv, TypeOK, Writers, Savers
<1>2. IdleSave.at = "idle"
  BY DEF IdleSave
<1>3. OneWriter'
  BY <1>1, <1>2 DEF FlushInv, OneWriter, Writers, Savers
<1>4. \A s : Announced(s) => Announced(s)'
  BY DEF Announced, MarkPending
<1>5. NoLostMutation'
  <2> SUFFICES ASSUME NEW s \in Services, Unsaved(s)', ~Announced(s)'
               PROVE  SaveWillCatch(s)'
    BY DEF NoLostMutation, Announced
  <2>1. CASE save[x].todo = {} /\ disk' = Captured(x)
    <3>1. disk'.val[s] = save[x].snap[s]
      BY <2>1 DEF Captured
    <3>2. Missed(x, s)
      BY <2>1, <3>1 DEF Unsaved, Missed
    <3> QED
      BY <1>4, <3>2 DEF FlushInv, MissedIsAnnounced
  <2>2. CASE disk' = disk /\ (x = "loop" => dirty')
    <3>1. x = "final"
      BY <2>2 DEF Announced, Writers
    <3>2. Unsaved(s)
      BY <2>2 DEF Unsaved
    <3>3. SaveWillCatch(s)
      BY <1>4, <3>2 DEF FlushInv, NoLostMutation, Announced
    <3> QED
      BY <1>1, <3>1, <3>3 DEF SaveWillCatch, Savers
  <2> QED
    BY <2>1, <2>2
<1>6. MissedIsAnnounced'
  BY <1>1, <1>2, <1>4 DEF FlushInv, MissedIsAnnounced, Missed, Writers, Savers
<1>7. BooksKept' /\ ExportReadsOpenProviders'
  BY <1>1, <1>2 DEF FlushInv, BooksKept, ExportReadsOpenProviders
<1>8. ClosedAreOld'
  BY DEF FlushInv, ClosedAreOld, Running, OneWriter, Writers
<1> QED
  BY <1>3, <1>5, <1>6, <1>7, <1>8 DEF FlushInv

\* Every step of a save preserves the invariant.
LEMMA SaveStepInv ==
    ASSUME FlushInv, NEW x \in Savers, SaveStep(x)
    PROVE  FlushInv'
<1>0. TypeOK /\ TypeOK' /\ save[x] \in Saving
  BY TypeSaveStep DEF FlushInv, TypeOK
<1> USE DEF lifeVars, appVars
<1>1. CASE SaveLock(x)
  <2> DEFINE r == [save[x] EXCEPT !.at = "targets"]
  <2>1. r.at = "targets" /\ save[x].at = "lock"
    BY <1>0, <1>1 DEF SaveLock, Saving
  <2>2. /\ save' = [save EXCEPT ![x] = r]
        /\ UNCHANGED <<state, gen, closed, op, disk, dirty, silent, loop, phase>>
    BY <1>1 DEF SaveLock
  <2> HIDE DEF r
  <2>3. x = "loop" => \A s \in Services : SaveWillCatch(s)'
    BY <1>0, <2>1, <2>2 DEF SaveWillCatch, TypeOK
  <2> QED
    BY <1>0, <2>1, <2>2, <2>3, SavingStep
<1>2. CASE SaveTargets(x)
  <2> DEFINE r == [save[x] EXCEPT !.at = "export", !.gen = gen, !.todo = Services]
  <2>1. r.at = "export" /\ r.gen = gen /\ r.todo = Services /\ save[x].at = "targets"
    BY <1>0, <1>2 DEF SaveTargets, Saving
  <2>2. /\ save' = [save EXCEPT ![x] = r]
        /\ UNCHANGED <<state, gen, closed, op, disk, dirty, silent, loop, phase>>
        /\ Running
    BY <1>2 DEF SaveTargets
  <2> HIDE DEF r
  <2>3. save'[x] = r
    BY <1>0, <2>2 DEF TypeOK
  <2>4. x = "loop" => \A s \in Services : SaveWillCatch(s)'
    BY <2>1, <2>2, <2>3 DEF SaveWillCatch
  <2>5. \A s \in Services : ~Missed(x, s)'
    BY <2>1, <2>2, <2>3 DEF Missed
  <2>6. gen \notin closed
    BY <1>0, <2>2 DEF FlushInv, ClosedAreOld, TypeOK, Gens
  <2> QED
    BY <1>0, <2>1, <2>2, <2>4, <2>5, <2>6, SavingStep
<1>3. ASSUME NEW s \in Services, ExportService(x, s) PROVE FlushInv'
  <2> DEFINE read == [save[x].snap EXCEPT ![s] = state[save[x].gen][s]]
             r == [save[x] EXCEPT !.todo = @ \ {s}, !.snap = read]
  <2>1. /\ r.at = "export" /\ save[x].at = "export"
        /\ r.gen = save[x].gen /\ r.todo = save[x].todo \ {s}
        /\ r.snap = read
    BY <1>0, <1>3 DEF ExportService, Saving
  <2>2. read[s] = state[save[x].gen][s] /\ \A u \in Services \ {s} : read[u] = save[x].snap[u]
    BY <1>0, SaveType
  <2>3. /\ save' = [save EXCEPT ![x] = r]
        /\ UNCHANGED <<state, gen, closed, op, disk, dirty, silent, loop, phase>>
    BY <1>3 DEF ExportService
  <2> HIDE DEF r, read
  <2>4. save'[x] = r
    BY <1>0, <2>3 DEF TypeOK
  <2>5. x = "loop" => \A u \in Services : SaveWillCatch(u) => SaveWillCatch(u)'
    BY <2>1, <2>2, <2>3, <2>4 DEF SaveWillCatch
  <2>6. \A u \in Services : Missed(x, u)' => Missed(x, u)
    BY <2>1, <2>2, <2>3, <2>4 DEF Missed
  <2>7. r.gen \notin closed
    BY <2>1 DEF FlushInv, ExportReadsOpenProviders
  <2> QED
    BY <1>0, <2>1, <2>3, <2>5, <2>6, <2>7, SavingStep
<1>4. CASE SaveOk(x)
  BY <1>0, <1>4, WriteDone DEF SaveOk, AfterSave, Writers
<1>5. CASE SaveFail(x)
  BY <1>0, <1>5, WriteDone DEF SaveFail, Writers
<1> QED
  BY <1>1, <1>2, <1>3, <1>4, <1>5 DEF SaveStep

\* Clearing the flag is safe because the save that follows has read nothing yet.
LEMMA ClearAndSaveInv ==
    ASSUME FlushInv, TypeOK', loop \in {"wait", "coalesce"}, ClearAndSave,
           UNCHANGED <<state, gen, closed, op, disk, phase>>
    PROVE  FlushInv'
<1> DEFINE r == [IdleSave EXCEPT !.at = "lock"]
<1>1. r.at = "lock"
  BY DEF IdleSave
<1>2. save' = [save EXCEPT !["loop"] = r] /\ loop' = "save"
  BY DEF ClearAndSave, StartSave
<1> HIDE DEF r
<1>3. save'["loop"].at = "lock" /\ \A y \in Savers \ {"loop"} : save'[y] = save[y]
  BY <1>1, <1>2 DEF FlushInv, TypeOK, Savers
<1>4. save["final"].at = "idle" /\ save["loop"].at = "idle"
  BY DEF FlushInv, OneWriter
<1>5. OneWriter'
  BY <1>2, <1>3, <1>4 DEF FlushInv, OneWriter, Savers
<1>6. NoLostMutation'
  BY <1>3 DEF NoLostMutation, SaveWillCatch
<1>7. MissedIsAnnounced'
  BY <1>3, <1>4 DEF MissedIsAnnounced, Writers, Savers
<1>8. ExportReadsOpenProviders'
  BY <1>3 DEF FlushInv, ExportReadsOpenProviders
<1>9. BooksKept' /\ ClosedAreOld'
  BY DEF FlushInv, BooksKept, ClosedAreOld, Running
<1> QED
  BY <1>5, <1>6, <1>7, <1>8, <1>9 DEF FlushInv

\* The invariant is inductive.
LEMMA FlushInvNext == FlushInv /\ [Next]_vars => FlushInv'
<1> SUFFICES ASSUME FlushInv, [Next]_vars PROVE FlushInv'
  OBVIOUS
<1>0. TypeOK /\ TypeOK'
  BY TypeNext DEF FlushInv
<1> USE DEF flushVars, lifeVars, appVars
<1>1. ASSUME NEW o \in Ops, NEW kind \in Kinds \intersect Inputs, Begin(o, kind)
      PROVE  FlushInv'
  <2> DEFINE r == [IdleOp EXCEPT !.kind = kind, !.gen = gen,
                     !.at = IF kind \in {"reset", "restore"} THEN "swap" ELSE "apply"]
  <2>1. r.at \in {"swap", "apply"} /\ r.chg = {} /\ op[o].chg = {}
    BY <1>1 DEF Begin, IdleOp, FlushInv, BooksKept
  <2>2. /\ op' = [op EXCEPT ![o] = r]
        /\ UNCHANGED <<state, gen, closed, phase, disk, dirty, loop, save, silent>>
    BY <1>1 DEF Begin
  <2> HIDE DEF r
  <2> QED
    BY <1>0, <2>1, <2>2, BookkeepingStep
<1>2. CASE ScheduledTick \/ CoalesceFire
  BY <1>0, <1>2, ClearAndSaveInv DEF ScheduledTick, CoalesceFire
<1>3. CASE OnRequestWake \/ CoalesceMore \/ LoopExit
  <2>1. /\ UNCHANGED <<state, gen, closed, op, disk, dirty, save, silent, phase>>
        /\ loop \in {"wait", "coalesce"}
        /\ loop' \in {"coalesce", "exited"}
    BY <1>3 DEF OnRequestWake, CoalesceMore, LoopExit
  <2>2. OneWriter'
    BY <2>1 DEF FlushInv, OneWriter
  <2> QED
    BY <1>0, <2>1, <2>2, LifeStep DEF Running
<1>4. CASE AdminSnapshot
  <2> DEFINE r == [IdleSave EXCEPT !.at = "lock"]
  <2>1. r.at = "lock" /\ "admin" \notin Writers /\ "admin" \in Savers
    BY DEF IdleSave, Writers, Savers
  <2>2. /\ save' = [save EXCEPT !["admin"] = r]
        /\ UNCHANGED <<state, gen, closed, op, disk, dirty, silent, loop, phase>>
    BY <1>4 DEF AdminSnapshot, StartSave
  <2> HIDE DEF r
  <2> QED
    BY <1>0, <2>1, <2>2, SavingStep
<1>5. CASE AdminReply
  <2>1. IdleSave.at = "idle" /\ "admin" \notin Writers /\ "admin" \in Savers
    BY DEF IdleSave, Writers, Savers
  <2>2. /\ save' = [save EXCEPT !["admin"] = IdleSave]
        /\ UNCHANGED <<state, gen, closed, op, disk, dirty, silent, loop, phase>>
    BY <1>5 DEF AdminReply
  <2> QED
    BY <1>0, <2>1, <2>2, SavingStep
<1>6. CASE BeginShutdown \/ DrainServers \/ StopTicker
  <2>1. /\ UNCHANGED <<state, gen, closed, op, disk, dirty, save, silent, loop>>
        /\ phase \in {"serving", "draining", "ticker"}
        /\ phase' \in {"draining", "ticker", "stopping"}
    BY <1>6 DEF BeginShutdown, DrainServers, StopTicker
  <2>2. OneWriter'
    BY <2>1 DEF FlushInv, OneWriter
  <2> QED
    BY <1>0, <2>1, <2>2, LifeStep DEF Running
<1>7. CASE FinalSave
  <2>1. CASE UNCHANGED save
    <3>1. OneWriter'
      BY <1>7, <2>1 DEF FinalSave, FlushInv, OneWriter
    <3> QED
      BY <1>0, <1>7, <2>1, <3>1, LifeStep DEF FinalSave, Running
  <2>2. CASE StartSave("final") /\ phase' = "final"
    <3> DEFINE r == [IdleSave EXCEPT !.at = "lock"]
    <3>1. r.at = "lock"
      BY DEF IdleSave
    <3>2. /\ save' = [save EXCEPT !["final"] = r]
          /\ UNCHANGED <<state, gen, closed, op, disk, dirty, silent, loop>>
          /\ loop \in {"off", "exited"} /\ phase = "stopping"
      BY <1>7, <2>2 DEF FinalSave, StartSave
    <3> HIDE DEF r
    <3>3. save'["final"].at = "lock" /\ \A y \in Savers \ {"final"} : save'[y] = save[y]
      BY <1>0, <3>1, <3>2 DEF TypeOK, Savers
    <3>4. OneWriter'
      BY <2>2, <3>2, <3>3 DEF FlushInv, OneWriter, Savers
    <3>5. \A s : (Announced(s)' <=> Announced(s)) /\ (Unsaved(s)' <=> Unsaved(s))
                 /\ (SaveWillCatch(s)' <=> SaveWillCatch(s))
      BY <3>2, <3>3 DEF Announced, MarkPending, Unsaved, SaveWillCatch, Savers
    <3>6. NoLostMutation'
      BY <3>5 DEF FlushInv, NoLostMutation, Announced
    <3>7. MissedIsAnnounced'
      BY <3>2, <3>3, <3>5 DEF FlushInv, MissedIsAnnounced, Missed, Writers, Savers
    <3>8. BooksKept' /\ ClosedAreOld' /\ ExportReadsOpenProviders'
      BY <2>2, <3>2, <3>3 DEF FlushInv, BooksKept, ClosedAreOld, ExportReadsOpenProviders, Running
    <3> QED
      BY <1>0, <3>4, <3>6, <3>7, <3>8 DEF FlushInv
  <2> QED
    BY <1>7, <2>1, <2>2 DEF FinalSave
<1>8. CASE CloseLive
  <2>1. /\ UNCHANGED <<state, gen, op, disk, dirty, save, silent, loop>>
        /\ phase = "closing" /\ phase' = "stopped"
        /\ \A x \in Savers : save[x].at # "export"
    BY <1>8 DEF CloseLive, Exporting
  <2>2. NoLostMutation' /\ MissedIsAnnounced'
    BY <2>1, AnnouncingStep DEF Announced, MarkPending
  <2>3. OneWriter' /\ BooksKept' /\ ClosedAreOld' /\ ExportReadsOpenProviders'
    BY <2>1 DEF FlushInv, OneWriter, BooksKept, ClosedAreOld, ExportReadsOpenProviders, Running
  <2> QED
    BY <1>0, <2>2, <2>3 DEF FlushInv
<1>9. CASE UNCHANGED vars
  <2>1. OneWriter'
    BY <1>9 DEF vars, FlushInv, OneWriter
  <2> QED
    BY <1>0, <1>9, <2>1, LifeStep DEF vars, Running
<1> QED
  BY <1>1, <1>2, <1>3, <1>4, <1>5, <1>6, <1>7, <1>8, <1>9, OpStepInv, SaveStepInv
     DEF Next, LoopStep, ShutdownStep

\* The invariant holds throughout.
LEMMA FlushInvAlways == Spec => []FlushInv
BY FlushInvInit, FlushInvNext, PTL DEF Spec

\* Whatever a crash leaves in the file, every change it lacks had been
\* announced: by the flag, by a markDirty still to come, by a save that had
\* not yet read it, or it was made by an operation that failed part-way.
THEOREM NothingLost == Spec => []NoLostMutation
<1>1. FlushInv => NoLostMutation
  BY DEF FlushInv
<1> QED
  BY <1>1, FlushInvAlways, PTL

\* An export never reads providers that have been closed.
THEOREM ExportsReadOpen == Spec => []ExportReadsOpenProviders
<1>1. FlushInv => ExportReadsOpenProviders
  BY DEF FlushInv
<1> QED
  BY <1>1, FlushInvAlways, PTL

\* The loop's save and the final save never overlap.
THEOREM OneSaveAtATime == Spec => []SingleFlight
<1>1. FlushInv => SingleFlight
  BY DEF FlushInv, OneWriter, SingleFlight
<1> QED
  BY <1>1, FlushInvAlways, PTL

(***************************************************************************)
(* What the file holds                                                     *)
(***************************************************************************)

\* Versions are given out once, so a later change has the greater one, and the
\* file never runs ahead of the providers it was taken from.
DiskIsOfThePast ==
    /\ \A g \in Gens, s \in Services : state[g][s] =< version
    /\ disk.gen =< gen
    /\ \A s \in Services : disk.val[s] =< state[disk.gen][s]

\* A write in progress will publish providers and versions that are no older than
\* the file's, which nobody else replaces meanwhile.
WritesForward ==
    \A x \in Writers : save[x].at = "export" =>
        /\ disk.gen =< save[x].gen /\ save[x].gen =< gen
        /\ \A s \in Services \ save[x].todo :
             /\ save[x].snap[s] =< state[save[x].gen][s]
             /\ save[x].gen = disk.gen => disk.val[s] =< save[x].snap[s]

DiskInv == FlushInv /\ DiskIsOfThePast /\ WritesForward

\* What DiskNeverRegresses says of a step.
MovesForward ==
    \/ disk'.gen > disk.gen
    \/ disk'.gen = disk.gen /\ \A s \in Services : disk'.val[s] >= disk.val[s]

\* The numbers the invariant compares.
LEMMA Numbers ==
    ASSUME TypeOK
    PROVE  /\ version \in Int /\ gen \in Int /\ gen \in Gens /\ disk.gen \in Int
           /\ disk.gen \in Gens
           /\ \A g \in Gens, s \in Services : state[g][s] \in Int
           /\ \A s \in Services : disk.val[s] \in Int
           /\ \A x \in Savers : /\ save[x].gen \in Gens /\ save[x].gen \in Int
                                /\ \A s \in Services : save[x].snap[s] \in Int
<1>1. \A g : g \in Gens => g \in Int
  BY DEF Gens
<1>2. \A v : v \in Versions => v \in Int
  BY DEF Versions
<1>3. /\ version \in Versions /\ gen \in Gens
      /\ disk.gen \in Gens /\ disk.val \in [Services -> Versions]
      /\ state \in [Gens -> [Services -> Versions]]
  BY DEF TypeOK
<1>4. ASSUME NEW x \in Savers
      PROVE  save[x].gen \in Gens /\ save[x].snap \in [Services -> Versions]
  <2>1. save[x] \in Saving
    BY DEF TypeOK
  <2> QED
    BY <2>1, SaveType
<1> QED
  BY <1>1, <1>2, <1>3, <1>4

\* The server starts with the file it has restored.
LEMMA DiskInvInit == Init => DiskInv
<1> SUFFICES ASSUME Init PROVE DiskInv
  OBVIOUS
<1>1. FlushInv /\ TypeOK
  BY FlushInvInit DEF FlushInv
<1>2. version = 0 /\ gen = 0 /\ disk.gen = 0
  BY DEF Init
<1>3. /\ \A g \in Gens, s \in Services : state[g][s] = 0
      /\ \A s \in Services : disk.val[s] = 0
  BY DEF Init, Zero
<1>4. DiskIsOfThePast
  BY <1>1, <1>2, <1>3, Numbers DEF DiskIsOfThePast
<1>5. \A x \in Savers : save[x].at = "idle"
  BY DEF Init, IdleSave
<1>6. WritesForward
  BY <1>5 DEF WritesForward, Writers, Savers
<1> QED
  BY <1>1, <1>4, <1>6 DEF DiskInv

\* A step that leaves the file and the saves alone: providers only move on.
LEMMA ProvidersMoveOn ==
    ASSUME DiskInv, TypeOK', UNCHANGED <<disk, save>>, gen =< gen',
           \A g \in Gens, s \in Services :
              state[g][s] =< state'[g][s] /\ state'[g][s] =< version'
    PROVE  DiskIsOfThePast' /\ WritesForward' /\ MovesForward
<1>0. TypeOK
  BY DEF DiskInv, FlushInv
<1>9. gen' \in Int /\ \A g \in Gens, s \in Services : state'[g][s] \in Int
  <2>1. gen' \in Gens /\ state' \in [Gens -> [Services -> Versions]]
    BY DEF TypeOK
  <2> QED
    BY <2>1 DEF Gens, Versions
<1>1. /\ gen \in Int /\ gen' \in Int /\ disk.gen \in Int /\ disk.gen \in Gens
      /\ \A g \in Gens, s \in Services : state[g][s] \in Int /\ state'[g][s] \in Int
      /\ \A s \in Services : disk.val[s] \in Int
      /\ \A x \in Savers : /\ save[x].gen \in Gens /\ save[x].gen \in Int
                           /\ \A s \in Services : save[x].snap[s] \in Int
  BY <1>0, <1>9, Numbers
<1>2. DiskIsOfThePast'
  <2>1. disk.gen =< gen'
    BY <1>1 DEF DiskInv, DiskIsOfThePast
  <2>2. ASSUME NEW s \in Services PROVE disk.val[s] =< state'[disk.gen][s]
    BY <1>1 DEF DiskInv, DiskIsOfThePast
  <2> QED
    BY <2>1, <2>2 DEF DiskIsOfThePast
<1>3. WritesForward'
  <2> SUFFICES ASSUME NEW x \in Writers, save[x].at = "export"
               PROVE  /\ disk.gen =< save[x].gen /\ save[x].gen =< gen'
                      /\ \A s \in Services \ save[x].todo :
                           /\ save[x].snap[s] =< state'[save[x].gen][s]
                           /\ save[x].gen = disk.gen => disk.val[s] =< save[x].snap[s]
    BY DEF WritesForward
  <2>1. x \in Savers
    BY DEF Writers, Savers
  <2>2. /\ disk.gen =< save[x].gen /\ save[x].gen =< gen
        /\ \A s \in Services \ save[x].todo :
             /\ save[x].snap[s] =< state[save[x].gen][s]
             /\ save[x].gen = disk.gen => disk.val[s] =< save[x].snap[s]
    BY DEF DiskInv, WritesForward
  <2> QED
    BY <1>1, <2>1, <2>2
<1>4. MovesForward
  BY <1>1 DEF MovesForward
<1> QED
  BY <1>2, <1>3, <1>4

\* A step of a saver that leaves the file alone.
LEMMA SaveMovesOn ==
    ASSUME DiskInv, NEW x \in Savers, NEW r,
           save' = [save EXCEPT ![x] = r],
           x \in Writers /\ r.at = "export" =>
               /\ disk.gen =< r.gen /\ r.gen =< gen
               /\ \A s \in Services \ r.todo :
                    /\ r.snap[s] =< state[r.gen][s]
                    /\ r.gen = disk.gen => disk.val[s] =< r.snap[s],
           UNCHANGED <<disk, state, gen, version>>
    PROVE  DiskIsOfThePast' /\ WritesForward' /\ MovesForward
<1>1. save'[x] = r /\ \A y \in Savers \ {x} : save'[y] = save[y]
  BY DEF DiskInv, FlushInv, TypeOK
<1>2. DiskIsOfThePast'
  BY DEF DiskInv, DiskIsOfThePast
<1>3. WritesForward'
  BY <1>1 DEF DiskInv, WritesForward, Writers, Savers
<1>4. MovesForward
  BY Numbers DEF MovesForward, DiskInv, FlushInv
<1> QED
  BY <1>2, <1>3, <1>4

\* A write ends, with or without having replaced the file.
LEMMA WriteMovesOn ==
    ASSUME DiskInv, NEW x \in Writers, save[x].at = "export",
           save' = [save EXCEPT ![x] = IdleSave],
           disk' = disk \/ (save[x].todo = {} /\ disk' = Captured(x)),
           UNCHANGED <<state, gen, version>>
    PROVE  DiskIsOfThePast' /\ WritesForward' /\ MovesForward
<1>0. TypeOK /\ x \in Savers /\ IdleSave.at = "idle"
  BY DEF DiskInv, FlushInv, Writers, Savers, IdleSave
<1>1. CASE disk' = disk
  BY <1>0, <1>1, SaveMovesOn
<1>2. CASE save[x].todo = {} /\ disk' = Captured(x)
  <2>1. save'[x] = IdleSave /\ \A y \in Savers \ {x} : save'[y] = save[y]
    BY <1>0 DEF TypeOK
  <2>2. \A y \in Writers \ {x} : save[y].at = "idle"
    BY DEF DiskInv, FlushInv, OneWriter, Writers
  <2>3. WritesForward'
    BY <1>0, <2>1, <2>2 DEF WritesForward, Writers, Savers
  <2>4. disk'.gen = save[x].gen /\ disk'.val = save[x].snap
    BY <1>2 DEF Captured
  <2>5. /\ disk.gen =< save[x].gen /\ save[x].gen =< gen
        /\ \A s \in Services :
             /\ save[x].snap[s] =< state[save[x].gen][s]
             /\ save[x].gen = disk.gen => disk.val[s] =< save[x].snap[s]
    BY <1>2 DEF DiskInv, WritesForward
  <2>6. DiskIsOfThePast'
    BY <2>4, <2>5 DEF DiskInv, DiskIsOfThePast
  <2>7. MovesForward
    <3>1. /\ disk.gen \in Int /\ save[x].gen \in Int
          /\ \A s \in Services : disk.val[s] \in Int /\ save[x].snap[s] \in Int
      BY <1>0, Numbers
    <3> QED
      BY <2>4, <2>5, <3>1 DEF MovesForward
  <2> QED
    BY <2>3, <2>6, <2>7
<1> QED
  BY <1>1, <1>2

\* A change of one service gives it a version nothing else has.
LEMMA ChangeMovesOn ==
    ASSUME DiskInv, TypeOK', NEW g \in Gens, NEW s \in Services,
           version' = version + 1,
           state' = [state EXCEPT ![g][s] = version + 1],
           UNCHANGED <<disk, save, gen>>
    PROVE  DiskIsOfThePast' /\ WritesForward' /\ MovesForward
<1>0. TypeOK
  BY DEF DiskInv, FlushInv
<1>1. /\ version \in Int /\ gen \in Int
      /\ \A h \in Gens, u \in Services : state[h][u] \in Int
  BY <1>0, Numbers
<1>2. ASSUME NEW h \in Gens, NEW u \in Services
      PROVE  state'[h][u] = IF h = g /\ u = s THEN version + 1 ELSE state[h][u]
  BY <1>0 DEF TypeOK
<1>3. ASSUME NEW h \in Gens, NEW u \in Services
      PROVE  state[h][u] =< state'[h][u] /\ state'[h][u] =< version'
  <2>1. state[h][u] =< version
    BY DEF DiskInv, DiskIsOfThePast
  <2> QED
    BY <1>1, <1>2, <2>1
<1> QED
  BY <1>1, <1>3, ProvidersMoveOn

\* Every step keeps the file of the past and moves it forward.
LEMMA DiskStep ==
    ASSUME DiskInv, [Next]_vars
    PROVE  DiskIsOfThePast' /\ WritesForward' /\ MovesForward
<1> DEFINE Done == DiskIsOfThePast' /\ WritesForward' /\ MovesForward
<1> SUFFICES Done
  OBVIOUS
<1>0. TypeOK /\ TypeOK' /\ FlushInv
  BY TypeNext DEF DiskInv, FlushInv
<1>1. /\ version \in Int /\ gen \in Int
      /\ \A g \in Gens, s \in Services : state[g][s] \in Int
  BY <1>0, Numbers
<1>2. \A g \in Gens, s \in Services : state[g][s] =< version
  BY DEF DiskInv, DiskIsOfThePast
<1> USE DEF flushVars, lifeVars, appVars
<1>3. CASE UNCHANGED <<disk, save, state, gen, version>>
  BY <1>0, <1>1, <1>2, <1>3, ProvidersMoveOn
<1>4. ASSUME NEW o \in Ops, OpStep(o) PROVE Done
  <2>1. op[o].gen \in Gens
    BY <1>0, OpType DEF TypeOK
  <2>2. ASSUME NEW s \in Services, Apply(o, s) \/ LoadService(o, s) PROVE Done
    <3>1. /\ version' = version + 1
          /\ state' = [state EXCEPT ![op[o].gen][s] = version + 1]
          /\ UNCHANGED <<disk, save, gen>>
      BY <2>2 DEF Apply, LoadService
    <3> QED
      BY <1>0, <2>1, <3>1, ChangeMovesOn
  <2>3. CASE SwapFresh(o)
    <3>1. /\ version' = version + 1 /\ gen' = gen + 1
          /\ state' = [state EXCEPT ![gen + 1] = [s \in Services |-> version + 1]]
          /\ UNCHANGED <<disk, save>>
      BY <2>3 DEF SwapFresh
    <3>2. ASSUME NEW g \in Gens, NEW s \in Services
          PROVE  state[g][s] =< state'[g][s] /\ state'[g][s] =< version'
      <4>1. state'[g] = IF g = gen + 1 THEN [u \in Services |-> version + 1] ELSE state[g]
        BY <1>0, <3>1 DEF TypeOK
      <4>2. state'[g][s] = version + 1 \/ state'[g][s] = state[g][s]
        BY <4>1
      <4> QED
        BY <1>1, <1>2, <3>1, <4>2
    <3> QED
      BY <1>0, <1>1, <3>1, <3>2, ProvidersMoveOn
  <2>4. CASE \/ ApplyDone(o) \/ ApplyFail(o) \/ CloseProviders(o) \/ RestoreTargets(o)
             \/ LoadDone(o) \/ LoadFail(o) \/ MarkStore(o) \/ MarkSignal(o)
    BY <1>3, <2>4 DEF ApplyDone, ApplyFail, CloseProviders, RestoreTargets, LoadDone,
       LoadFail, MarkStore, MarkSignal
  <2> QED
    BY <1>4, <2>2, <2>3, <2>4 DEF OpStep
<1>5. ASSUME NEW x \in Savers, StartSave(x), UNCHANGED <<disk, state, gen, version>> PROVE Done
  <2>1. [IdleSave EXCEPT !.at = "lock"].at = "lock"
    BY DEF IdleSave
  <2> QED
    BY <1>5, <2>1, SaveMovesOn DEF StartSave
<1>6. ASSUME NEW x \in Savers, SaveStep(x) PROVE Done
  <2>0. save[x] \in Saving
    BY <1>0 DEF TypeOK
  <2>1. CASE SaveLock(x)
    <3>1. [save[x] EXCEPT !.at = "targets"].at = "targets"
      BY <2>0 DEF Saving
    <3> QED
      BY <2>1, <3>1, SaveMovesOn DEF SaveLock
  <2>2. CASE SaveTargets(x)
    <3> DEFINE r == [save[x] EXCEPT !.at = "export", !.gen = gen, !.todo = Services]
    <3>1. r.gen = gen /\ r.todo = Services
      BY <2>0 DEF Saving
    <3>2. disk.gen =< gen
      BY DEF DiskInv, DiskIsOfThePast
    <3>3. save' = [save EXCEPT ![x] = r] /\ UNCHANGED <<disk, state, gen, version>>
      BY <2>2 DEF SaveTargets
    <3> HIDE DEF r
    <3> QED
      <4>1. /\ disk.gen =< r.gen /\ r.gen =< gen
            /\ \A s \in Services \ r.todo :
                 /\ r.snap[s] =< state[r.gen][s]
                 /\ r.gen = disk.gen => disk.val[s] =< r.snap[s]
        BY <1>1, <3>1, <3>2
      <4> QED
        BY <3>3, <4>1, SaveMovesOn
  <2>3. ASSUME NEW s \in Services, ExportService(x, s) PROVE Done
    <3> DEFINE read == [save[x].snap EXCEPT ![s] = state[save[x].gen][s]]
               r == [save[x] EXCEPT !.todo = @ \ {s}, !.snap = read]
    <3>1. /\ save[x].at = "export"
          /\ r.gen = save[x].gen /\ r.todo = save[x].todo \ {s} /\ r.snap = read
      BY <2>0, <2>3 DEF ExportService, Saving
    <3>2. /\ read[s] = state[save[x].gen][s]
          /\ \A u \in Services \ {s} : read[u] = save[x].snap[u]
      BY <2>0, SaveType
    <3>3. save' = [save EXCEPT ![x] = r] /\ UNCHANGED <<disk, state, gen, version>>
      BY <2>3 DEF ExportService
    <3>4. read[s] \in Int /\ save[x].gen = disk.gen => disk.val[s] =< read[s]
      BY <1>0, <3>2, Numbers DEF DiskInv, DiskIsOfThePast
    <3>5. read[s] \in Int
      BY <1>0, <3>2, Numbers
    <3> HIDE DEF r, read
    <3>6. ASSUME x \in Writers
          PROVE  /\ disk.gen =< r.gen /\ r.gen =< gen
                 /\ \A u \in Services \ r.todo :
                      /\ r.snap[u] =< state[r.gen][u]
                      /\ r.gen = disk.gen => disk.val[u] =< r.snap[u]
      <4>1. /\ disk.gen =< save[x].gen /\ save[x].gen =< gen
            /\ \A u \in Services \ save[x].todo :
                 /\ save[x].snap[u] =< state[save[x].gen][u]
                 /\ save[x].gen = disk.gen => disk.val[u] =< save[x].snap[u]
        BY <3>1, <3>6 DEF DiskInv, WritesForward
      <4> QED
        BY <3>1, <3>2, <3>4, <3>5, <4>1
    <3> QED
      BY <3>3, <3>6, SaveMovesOn
  <2>4. CASE SaveOk(x)
    BY <2>4, WriteMovesOn DEF SaveOk, Writers
  <2>5. CASE SaveFail(x)
    <3>1. /\ x \in Writers /\ save[x].at = "export"
          /\ save' = [save EXCEPT ![x] = IdleSave]
          /\ disk' = disk \/ (save[x].todo = {} /\ disk' = Captured(x))
          /\ UNCHANGED <<state, gen, version>>
      BY <2>5 DEF SaveFail, Writers
    <3> QED
      BY <3>1, WriteMovesOn
  <2> QED
    BY <1>6, <2>1, <2>2, <2>3, <2>4, <2>5 DEF SaveStep
<1>7. CASE LoopStep
  <2>1. CASE ScheduledTick \/ CoalesceFire
    BY <1>5, <2>1 DEF ScheduledTick, CoalesceFire, ClearAndSave, Savers
  <2>2. CASE OnRequestWake \/ CoalesceMore \/ LoopExit
    BY <1>3, <2>2 DEF OnRequestWake, CoalesceMore, LoopExit
  <2> QED
    BY <1>7, <2>1, <2>2 DEF LoopStep
<1>8. CASE AdminSnapshot
  BY <1>5, <1>8 DEF AdminSnapshot, Savers
<1>9. CASE AdminReply
  <2>1. IdleSave.at = "idle" /\ "admin" \in Savers
    BY DEF IdleSave, Savers
  <2> QED
    BY <1>9, <2>1, SaveMovesOn DEF AdminReply
<1>10. CASE ShutdownStep \/ BeginShutdown
  <2>1. CASE FinalSave
    BY <1>3, <1>5, <2>1 DEF FinalSave, Savers
  <2>2. CASE BeginShutdown \/ DrainServers \/ StopTicker \/ CloseLive
    BY <1>3, <2>2 DEF BeginShutdown, DrainServers, StopTicker, CloseLive
  <2> QED
    BY <1>10, <2>1, <2>2 DEF ShutdownStep
<1>11. CASE (\E o \in Ops, kind \in Kinds \intersect Inputs : Begin(o, kind)) \/ UNCHANGED vars
  BY <1>3, <1>11 DEF Begin, vars
<1> HIDE DEF Done
<1> QED
  BY <1>4, <1>6, <1>7, <1>8, <1>9, <1>10, <1>11 DEF Next

\* The invariant holds throughout.
LEMMA DiskInvAlways == Spec => []DiskInv
<1>1. DiskInv /\ [Next]_vars => DiskInv'
  BY DiskStep, FlushInvNext DEF DiskInv
<1> QED
  BY DiskInvInit, <1>1, PTL DEF Spec

\* "no earlier save can rename over it and regress the on-disk snapshot to an older
\* version": whatever saves fail and however resets, restores and shutdown fall
\* between their steps, the file moves to newer providers, or to versions of the
\* same ones that are at least as new, service by service.
THEOREM FileOnlyMovesOn == Spec => DiskNeverRegresses
<1>1. DiskInv /\ [Next]_vars => [MovesForward]_vars
  BY DiskStep
<1> QED
  BY <1>1, DiskInvAlways, PTL DEF Spec, DiskNeverRegresses, MovesForward

(***************************************************************************)
(* What a graceful stop leaves in the file                                 *)
(***************************************************************************)

\* Shutdown has waited for everything that changes the providers.
Quiescent ==
    ~timedOut =>
        /\ phase = "ticker" => \A o \in Ops : op[o].at # "idle" => op[o].kind = "tick"
        /\ phase \in {"stopping", "final", "closing", "stopped"} =>
             \A o \in Ops : op[o].at = "idle"

\* The final save reads the providers as they are left.
FinalSaveExact ==
    save["final"].at = "export" /\ ~timedOut =>
        \A s \in Services : ~Missed("final", s)

\* It is over once it has an outcome.
FinalIsLast == final # "none" => phase \in {"closing", "stopped"}

StoppedWell == Quiescent /\ FinalSaveExact /\ FinalIsLast /\ GracefulStopSavesAll

StopInv == FlushInv /\ StoppedWell

\* The server has not begun to stop.
LEMMA StopInvInit == Init => StopInv
<1> SUFFICES ASSUME Init PROVE StopInv
  OBVIOUS
<1>1. FlushInv
  BY FlushInvInit
<1>2. save["final"].at = "idle" /\ phase = "serving" /\ final = "none"
  BY DEF Init, IdleSave, Savers
<1> QED
  BY <1>1, <1>2 DEF StopInv, StoppedWell, Quiescent, FinalSaveExact, FinalIsLast,
                    GracefulStopSavesAll

\* Before the final save nothing is promised but that operations end.
LEMMA BeforeFinalSave ==
    ASSUME StopInv, OneWriter', final' = final, phase \notin {"closing", "stopped"},
           phase' \in {"serving", "draining", "ticker", "stopping"}, Quiescent'
    PROVE  StoppedWell'
<1>1. final' = "none"
  BY DEF StopInv, StoppedWell, FlushInv, TypeOK, FinalIsLast
<1>2. save'["final"].at = "idle"
  BY DEF OneWriter
<1> QED
  BY <1>1, <1>2 DEF StoppedWell, FinalSaveExact, FinalIsLast, GracefulStopSavesAll

\* An operation's step.  Once shutdown has waited, there is none, unless the
\* drain timed out.
LEMMA OpStepStop ==
    ASSUME StopInv, FlushInv', NEW o \in Ops, NEW r,
           op[o].at # "idle", r.at = "idle" \/ r.kind = op[o].kind,
           op' = [op EXCEPT ![o] = r],
           UNCHANGED <<phase, timedOut, final>>
    PROVE  StoppedWell'
<1>1. op'[o] = r /\ \A d \in Ops \ {o} : op'[d] = op[d]
  BY OpChanged DEF StopInv, FlushInv
<1>2. OneWriter' /\ phase \in {"serving", "draining", "ticker", "stopping", "final",
                              "closing", "stopped"}
  BY DEF StopInv, FlushInv, TypeOK
<1>3. CASE timedOut
  BY <1>3 DEF StopInv, StoppedWell, Quiescent, FinalSaveExact, FinalIsLast,
              GracefulStopSavesAll
<1>4. CASE ~timedOut
  <2>1. phase \in {"serving", "draining", "ticker"}
    BY <1>2, <1>4 DEF StopInv, StoppedWell, Quiescent
  <2>2. Quiescent'
    BY <1>1, <1>4, <2>1 DEF StopInv, StoppedWell, Quiescent
  <2> QED
    BY <1>2, <2>1, <2>2, BeforeFinalSave
<1> QED
  BY <1>3, <1>4

\* A step that changes neither the providers nor the final save, nor the file once
\* that save is over.
LEMMA StopStutter ==
    ASSUME StopInv, final = "saved" => disk' = disk,
           save'["final"] = save["final"],
           UNCHANGED <<state, gen, op, phase, timedOut, final>>
    PROVE  StoppedWell'
<1>1. Quiescent' /\ FinalIsLast'
  BY DEF StopInv, StoppedWell, Quiescent, FinalIsLast
<1>2. FinalSaveExact' /\ GracefulStopSavesAll'
  BY DEF StopInv, StoppedWell, FinalSaveExact, Missed, GracefulStopSavesAll, Unsaved
<1> QED
  BY <1>1, <1>2 DEF StoppedWell

\* A step of the final save that is not its last.
LEMMA FinalSaveStep ==
    ASSUME StopInv, NEW r, phase = "final",
           save' = [save EXCEPT !["final"] = r],
           r.at = "export" => \A s \in Services : ~Missed("final", s)',
           UNCHANGED <<state, gen, op, phase, timedOut, final>>
    PROVE  StoppedWell'
<1>1. save'["final"] = r
  BY DEF StopInv, FlushInv, TypeOK, Savers
<1>2. final # "saved"
  BY DEF StopInv, StoppedWell, FinalIsLast
<1> QED
  BY <1>1, <1>2 DEF StopInv, StoppedWell, Quiescent, FinalSaveExact, FinalIsLast,
                    GracefulStopSavesAll

\* Every step of a save.
LEMMA SaveStepStop ==
    ASSUME StopInv, NEW x \in Savers, SaveStep(x)
    PROVE  StoppedWell'
<1>0. TypeOK /\ save[x] \in Saving
  BY DEF StopInv, FlushInv, TypeOK
<1> USE DEF lifeVars, appVars
<1>1. CASE x # "final"
  <2>1. save'["final"] = save["final"]
    BY <1>0, <1>1 DEF SaveStep, SaveLock, SaveTargets, ExportService, SaveOk, SaveFail,
       TypeOK, Savers
  <2>2. UNCHANGED <<state, gen, op, phase, timedOut, final>>
    BY <1>1 DEF SaveStep, SaveLock, SaveTargets, ExportService, SaveOk, SaveFail, AfterSave
  <2>3. final = "saved" => save["loop"].at = "idle"
    BY DEF StopInv, FlushInv, OneWriter, StoppedWell, FinalIsLast
  <2>4. final = "saved" => disk' = disk
    BY <1>1, <2>3 DEF SaveStep, SaveLock, SaveTargets, ExportService, SaveOk, SaveFail
  <2> QED
    BY <2>1, <2>2, <2>4, StopStutter
<1>2. CASE x = "final"
  <2>0. save[x].at # "idle" /\ phase = "final"
    BY <1>2 DEF SaveStep, SaveLock, SaveTargets, ExportService, SaveOk, SaveFail,
       StopInv, FlushInv, OneWriter
  <2>1. CASE SaveLock(x)
    <3>1. [save[x] EXCEPT !.at = "targets"].at = "targets"
      BY <1>0 DEF Saving
    <3> QED
      BY <1>2, <2>0, <2>1, <3>1, FinalSaveStep DEF SaveLock
  <2>2. CASE SaveTargets(x)
    <3> DEFINE r == [save[x] EXCEPT !.at = "export", !.gen = gen, !.todo = Services]
    <3>1. r.gen = gen /\ r.todo = Services
      BY <1>0 DEF Saving
    <3>2. save' = [save EXCEPT ![x] = r] /\ UNCHANGED <<state, gen, op, phase, timedOut, final>>
      BY <2>2 DEF SaveTargets
    <3> HIDE DEF r
    <3>3. save'[x] = r
      BY <1>0, <3>2 DEF TypeOK
    <3>4. \A s \in Services : ~Missed("final", s)'
      BY <1>2, <3>1, <3>2, <3>3 DEF Missed
    <3> QED
      BY <1>2, <2>0, <3>2, <3>4, FinalSaveStep
  <2>3. ASSUME NEW s \in Services, ExportService(x, s) PROVE StoppedWell'
    <3> DEFINE read == [save[x].snap EXCEPT ![s] = state[save[x].gen][s]]
               r == [save[x] EXCEPT !.todo = @ \ {s}, !.snap = read]
    <3>1. /\ save[x].at = "export"
          /\ r.gen = save[x].gen /\ r.todo = save[x].todo \ {s} /\ r.snap = read
      BY <1>0, <2>3 DEF ExportService, Saving
    <3>2. /\ read[s] = state[save[x].gen][s]
          /\ \A u \in Services \ {s} : read[u] = save[x].snap[u]
      BY <1>0, SaveType
    <3>3. /\ save' = [save EXCEPT ![x] = r]
          /\ UNCHANGED <<state, gen, op, phase, timedOut, final>>
      BY <2>3 DEF ExportService
    <3> HIDE DEF r, read
    <3>4. save'[x] = r
      BY <1>0, <3>3 DEF TypeOK
    <3>5. CASE timedOut
      BY <2>0, <3>3, <3>5 DEF StopInv, StoppedWell, Quiescent, FinalSaveExact, FinalIsLast,
                              GracefulStopSavesAll
    <3>6. CASE ~timedOut
      <4>1. \A u \in Services : ~Missed("final", u)
        BY <1>2, <3>1, <3>6 DEF StopInv, StoppedWell, FinalSaveExact
      <4>2. \A u \in Services : ~Missed("final", u)'
        BY <1>2, <3>1, <3>2, <3>3, <3>4, <4>1 DEF Missed
      <4> QED
        BY <1>2, <2>0, <3>3, <4>2, FinalSaveStep
    <3> QED
      BY <3>5, <3>6
  <2>4. CASE SaveOk(x) \/ SaveFail(x)
    <3>1. /\ phase' = "closing" /\ save' = [save EXCEPT ![x] = IdleSave]
          /\ UNCHANGED <<state, gen, op, timedOut>>
      BY <1>2, <2>4 DEF SaveOk, SaveFail, AfterSave
    <3>2. save'["final"].at = "idle"
      BY <1>0, <1>2, <3>1 DEF TypeOK, IdleSave
    <3>3. Quiescent' /\ FinalSaveExact' /\ FinalIsLast'
      BY <2>0, <3>1, <3>2 DEF StopInv, StoppedWell, Quiescent, FinalSaveExact, FinalIsLast
    <3>4. GracefulStopSavesAll'
      <4> SUFFICES ASSUME final' = "saved", ~timedOut, NEW s \in Services
                   PROVE  ~Unsaved(s)'
        BY <3>1 DEF GracefulStopSavesAll
      <4>1. SaveOk(x)
        BY <1>2, <2>4 DEF SaveFail
      <4>2. save[x].at = "export" /\ save[x].todo = {} /\ disk' = Captured(x)
        BY <4>1 DEF SaveOk
      <4>3. ~Missed("final", s)
        BY <1>2, <4>2 DEF StopInv, StoppedWell, FinalSaveExact
      <4>4. disk'.val[s] = save[x].snap[s]
        BY <4>2 DEF Captured
      <4> QED
        BY <1>2, <3>1, <4>2, <4>3, <4>4 DEF Missed, Unsaved
    <3> QED
      BY <3>3, <3>4 DEF StoppedWell
  <2> QED
    BY <2>1, <2>2, <2>3, <2>4 DEF SaveStep
<1> QED
  BY <1>1, <1>2

\* Every step keeps what a graceful stop promises.
LEMMA StopInvNext == StopInv /\ [Next]_vars => StopInv'
<1> SUFFICES ASSUME StopInv, [Next]_vars PROVE StoppedWell'
  BY FlushInvNext DEF StopInv
<1>0. FlushInv /\ FlushInv' /\ OneWriter' /\ TypeOK
  BY FlushInvNext DEF StopInv, FlushInv
<1> USE DEF flushVars, lifeVars, appVars
<1>1. ASSUME NEW o \in Ops, OpStep(o) PROVE StoppedWell'
  <2>0. op[o] \in Operation
    BY <1>0 DEF TypeOK
  <2>1. op[o].at # "idle" /\ UNCHANGED <<phase, timedOut, final>>
    BY <1>1 DEF OpStep, Apply, LoadService, ApplyDone, ApplyFail, SwapFresh, CloseProviders,
       RestoreTargets, LoadDone, LoadFail, MarkStore, MarkSignal
  <2>2. PICK r : op' = [op EXCEPT ![o] = r] /\ (r.at = "idle" \/ r.kind = op[o].kind)
    <3> DEFINE Good(r) == op' = [op EXCEPT ![o] = r] /\ (r.at = "idle" \/ r.kind = op[o].kind)
    <3>1. ASSUME NEW s \in Services, Apply(o, s) PROVE \E r : Good(r)
      <4>1. [op[o] EXCEPT !.chg = @ \union {s}].kind = op[o].kind
        BY <2>0 DEF Operation
      <4> QED
        BY <3>1, <4>1 DEF Apply
    <3>2. ASSUME NEW s \in Services, LoadService(o, s) PROVE \E r : Good(r)
      <4>1. [op[o] EXCEPT !.todo = @ \ {s}].kind = op[o].kind
        BY <2>0 DEF Operation
      <4> QED
        BY <3>2, <4>1 DEF LoadService
    <3>3. CASE ApplyDone(o)
      <4>1. [op[o] EXCEPT !.at = "mark"].kind = op[o].kind /\ IdleOp.at = "idle"
        BY <2>0 DEF Operation, IdleOp
      <4> QED
        BY <3>3, <4>1 DEF ApplyDone
    <3>4. CASE ApplyFail(o) \/ LoadFail(o) \/ MarkSignal(o)
      <4>1. IdleOp.at = "idle"
        BY DEF IdleOp
      <4> QED
        BY <3>4, <4>1 DEF ApplyFail, LoadFail, MarkSignal
    <3>5. CASE SwapFresh(o)
      <4>1. [op[o] EXCEPT !.at = "close", !.gen = gen, !.chg = Services].kind = op[o].kind
        BY <2>0 DEF Operation
      <4> QED
        BY <3>5, <4>1 DEF SwapFresh
    <3>6. CASE CloseProviders(o)
      <4>1. ASSUME NEW a PROVE [op[o] EXCEPT !.at = a].kind = op[o].kind
        BY <2>0 DEF Operation
      <4> QED
        BY <3>6, <4>1 DEF CloseProviders
    <3>7. CASE RestoreTargets(o)
      <4>1. [op[o] EXCEPT !.at = "load", !.gen = gen, !.todo = Services].kind = op[o].kind
        BY <2>0 DEF Operation
      <4> QED
        BY <3>7, <4>1 DEF RestoreTargets
    <3>8. CASE LoadDone(o)
      <4>1. [op[o] EXCEPT !.at = "mark"].kind = op[o].kind
        BY <2>0 DEF Operation
      <4> QED
        BY <3>8, <4>1 DEF LoadDone
    <3>9. CASE MarkStore(o)
      <4>1. [op[o] EXCEPT !.at = "signal", !.chg = {}].kind = op[o].kind
        BY <2>0 DEF Operation
      <4> QED
        BY <3>9, <4>1 DEF MarkStore
    <3> QED
      BY <1>1, <3>1, <3>2, <3>3, <3>4, <3>5, <3>6, <3>7, <3>8, <3>9 DEF OpStep
  <2> QED
    BY <1>0, <2>1, <2>2, OpStepStop
<1>2. ASSUME NEW o \in Ops, NEW kind \in Kinds \intersect Inputs, Begin(o, kind)
      PROVE  StoppedWell'
  <2>1. phase' = phase /\ phase \in {"serving", "draining"} /\ final' = final
    BY <1>2 DEF Begin
  <2>2. Quiescent'
    BY <2>1 DEF Quiescent
  <2> QED
    BY <1>0, <2>1, <2>2, BeforeFinalSave
<1>3. CASE LoopStep \/ AdminSnapshot \/ AdminReply
  <2>1. save'["final"] = save["final"]
    BY <1>0, <1>3 DEF LoopStep, ScheduledTick, CoalesceFire, ClearAndSave, OnRequestWake,
       CoalesceMore, LoopExit, AdminSnapshot, AdminReply, StartSave, TypeOK, Savers
  <2>2. UNCHANGED <<disk, state, gen, op, phase, timedOut, final>>
    BY <1>3 DEF LoopStep, ScheduledTick, CoalesceFire, OnRequestWake, CoalesceMore, LoopExit,
       AdminSnapshot, AdminReply
  <2> QED
    BY <2>1, <2>2, StopStutter
<1>4. CASE BeginShutdown \/ DrainServers \/ StopTicker
  <2>1. /\ phase \in {"serving", "draining", "ticker"} /\ final' = final
        /\ phase' \in {"draining", "ticker", "stopping"} /\ op' = op
    BY <1>4 DEF BeginShutdown, DrainServers, StopTicker
  <2>2. CASE BeginShutdown
    BY <1>0, <2>1, <2>2, BeforeFinalSave DEF BeginShutdown, Quiescent
  <2>3. CASE DrainServers
    <3>1. Quiescent'
      BY <2>1, <2>3 DEF DrainServers, Drained, Quiescent
    <3> QED
      BY <1>0, <2>1, <3>1, BeforeFinalSave
  <2>4. CASE StopTicker
    <3>1. Quiescent'
      BY <2>1, <2>4 DEF StopTicker, StopInv, StoppedWell, Quiescent
    <3> QED
      BY <1>0, <2>1, <3>1, BeforeFinalSave
  <2> QED
    BY <1>4, <2>2, <2>3, <2>4
<1>5. CASE FinalSave
  <2>1. /\ phase = "stopping" /\ phase' \in {"closing", "final"}
        /\ UNCHANGED <<state, gen, op, timedOut, disk>>
        /\ phase' = "closing" => save' = save
        /\ phase' = "final" => StartSave("final") /\ final' = final
        /\ final' \in {final, "skipped"}
    BY <1>5 DEF FinalSave
  <2>2. save["final"].at = "idle" /\ final = "none"
    BY <1>0, <2>1 DEF OneWriter, FlushInv, StopInv, StoppedWell, FinalIsLast, TypeOK
  <2>3. save'["final"].at # "export"
    BY <1>0, <2>1, <2>2 DEF StartSave, IdleSave, TypeOK, Savers
  <2>4. FinalIsLast'
    BY <2>1, <2>2 DEF FinalIsLast
  <2> QED
    BY <2>1, <2>2, <2>3, <2>4 DEF StopInv, StoppedWell, Quiescent, FinalSaveExact,
                             GracefulStopSavesAll
<1>6. CASE CloseLive
  BY <1>6 DEF CloseLive, StopInv, StoppedWell, Quiescent, FinalSaveExact, Missed, FinalIsLast,
              GracefulStopSavesAll, Unsaved
<1>7. CASE UNCHANGED vars
  BY <1>7, StopStutter DEF vars
<1> QED
  BY <1>1, <1>2, <1>3, <1>4, <1>5, <1>6, <1>7, SaveStepStop DEF Next, ShutdownStep

\* "writes the persistence snapshot after they are quiescent": when the drain did not
\* time out and the final save succeeded, the file holds the live state of every
\* service, whatever operations, ticks, saves and rebuilds the shutdown interrupted.
THEOREM GracefulStop == Spec => []GracefulStopSavesAll
<1>1. Spec => []StopInv
  BY StopInvInit, StopInvNext, PTL DEF Spec
<1>2. StopInv => GracefulStopSavesAll
  BY DEF StopInv, StoppedWell
<1> QED
  BY <1>1, <1>2, PTL
=============================================================================
