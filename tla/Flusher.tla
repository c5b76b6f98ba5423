------------------------------ MODULE Flusher ------------------------------
(***************************************************************************)
(* server/serverkit: the persistence protocol of the standalone server.    *)
(*                                                                         *)
(* Operations (provider requests, admin seed/reset/restore, background     *)
(* ticks) change the live providers and then mark the state dirty; the     *)
(* flusher's loop clears the mark and saves; shutdown drains the servers,  *)
(* stops the ticks and makes the final save.  A crash is not an action:    *)
(* it can happen in any reachable state and leaves exactly disk, so the    *)
(* invariants below say what every crash preserves.                        *)
(*                                                                         *)
(* Provider state is abstracted to a version number per service, unique    *)
(* across the run, and a rebuild starts a new generation of providers.     *)
(* The file write is atomic here; StateFile models its steps.              *)
(***************************************************************************)
EXTENDS Integers, FiniteSets

CONSTANTS
    Ops,        \* goroutines that run operations
    Services,   \* snapshotted services (the Kubernetes data plane is one)
    Configured, \* the --persist-strategy values an instance covers
    Inputs,     \* the kinds of operation an instance exercises
    MaxVersion, \* bound on state changes
    MaxGen,     \* bound on rebuilds
    MaxFails    \* bound on failed saves

Kinds == {"request", "seed", "reset", "restore", "tick"}
Strategies == {"scheduled", "on-request", "on-shutdown", "manual"}

ASSUME FlusherAssumption ==
    /\ Configured \subseteq Strategies
    /\ Inputs \subseteq Kinds \union {"snapshot"}
    /\ MaxVersion \in Nat
    /\ MaxGen \in Nat
    /\ MaxFails \in Nat

Gens == 0..MaxGen
Versions == 0..MaxVersion
\* Who exports: the flusher's loop, Stop's final save, the admin endpoint.
Savers == {"loop", "final", "admin"}

VARIABLES
    strategy, \* --persist-strategy, fixed for the server's life
    version,  \* the last version number given out
    state,    \* provider state: generation -> service -> version
    gen,      \* the generation swapped into the backends
    closed,   \* generations whose providers have been closed
    disk,     \* the state file: the versions it holds and their generation
    dirty,    \* flusher.dirty
    signal,   \* flusher.signalCh holds its one token
    op,       \* each operation's progress
    loop,     \* the background loop
    save,     \* each saver's progress
    fails,    \* failed saves so far
    phase,    \* the server's life
    timedOut, \* the drain hit ShutdownTimeout with operations in flight
    final,    \* outcome of the final save
    silent    \* services changed by an operation that returned without marking

vars == <<strategy, version, state, gen, closed, disk, dirty, signal, op, loop, save,
          fails, phase, timedOut, final, silent>>
appVars == <<strategy, version, state, gen, closed>>
lifeVars == <<loop, phase, timedOut, final>>
flushVars == <<disk, dirty, signal, loop, save, fails, silent>>

IdleOp == [kind |-> "request", at |-> "idle", gen |-> 0, todo |-> {}, chg |-> {}]

Zero == [s \in Services |-> 0]
IdleSave == [at |-> "idle", gen |-> 0, todo |-> {}, snap |-> Zero]

OpSteps == {"idle", "apply", "swap", "close", "targets", "load", "mark", "signal"}
SaveSteps == {"idle", "lock", "targets", "export"}

\* Progress of an operation: the generation it works on, what a restore has
\* still to load, and what it has changed without marking.
Operation == [kind : Kinds, at : OpSteps, gen : Gens,
              todo : SUBSET Services, chg : SUBSET Services]

\* Progress of a save: the generation and the services it has still to read.
Saving == [at : SaveSteps, gen : Gens,
           todo : SUBSET Services, snap : [Services -> Versions]]

\* The protocol's state: a save reads one known generation and a snapshot has a
\* version of every service.
TypeOK ==
    /\ strategy \in Strategies
    /\ version \in Versions
    /\ state \in [Gens -> [Services -> Versions]]
    /\ gen \in Gens
    /\ closed \subseteq Gens
    /\ disk \in [gen : Gens, val : [Services -> Versions]]
    /\ dirty \in BOOLEAN
    /\ signal \in BOOLEAN
    /\ op \in [Ops -> Operation]
    /\ loop \in {"off", "wait", "coalesce", "save", "exited"}
    /\ save \in [Savers -> Saving]
    /\ fails \in 0..MaxFails
    /\ phase \in {"serving", "draining", "ticker", "stopping", "final",
                  "closing", "stopped"}
    /\ timedOut \in BOOLEAN
    /\ final \in {"none", "saved", "failed", "skipped"}
    /\ silent \subseteq Services

\* The server has restored its state file and starts serving.
Init ==
    /\ strategy \in Configured
    /\ version = 0
    /\ state = [g \in Gens |-> Zero]
    /\ gen = 0
    /\ closed = {}
    /\ disk = [gen |-> 0, val |-> Zero]
    /\ dirty = FALSE
    /\ signal = FALSE
    /\ op = [o \in Ops |-> IdleOp]
    /\ loop = IF strategy \in {"scheduled", "on-request"} THEN "wait" ELSE "off"
    /\ save = [x \in Savers |-> IdleSave]
    /\ fails = 0
    /\ phase = "serving"
    /\ timedOut = FALSE
    /\ final = "none"
    /\ silent = {}

Running == phase # "stopped"

(***************************************************************************)
(* Operations                                                              *)
(***************************************************************************)

\* A request reads its backend's handler, a seed or tick the current targets;
\* reset and restore go on to rebuild.  The servers are shut down one after
\* another, so requests still arrive during the drain; the ticker runs until it
\* is stopped.
Begin(o, kind) ==
    /\ op[o].at = "idle"
    /\ phase \in {"serving", "draining"}
    /\ op' = [op EXCEPT ![o] = [IdleOp EXCEPT !.kind = kind, !.gen = gen,
                !.at = IF kind \in {"reset", "restore"} THEN "swap" ELSE "apply"]]
    /\ UNCHANGED <<appVars, phase, timedOut, final, flushVars>>

\* One change the operation makes to the providers it was dispatched to.
Apply(o, s) ==
    /\ Running
    /\ op[o].at = "apply"
    /\ version < MaxVersion
    /\ version' = version + 1
    /\ state' = [state EXCEPT ![op[o].gen][s] = version + 1]
    /\ op' = [op EXCEPT ![o].chg = @ \union {s}]
    /\ UNCHANGED <<strategy, gen, closed, phase, timedOut, final, flushVars>>

\* The operation has made its changes.  wrapDirty marks after every request,
\* even a read; a tick marks when it changed something.
ApplyDone(o) ==
    /\ Running
    /\ op[o].at = "apply"
    /\ op' = [op EXCEPT ![o] = IF @.kind = "tick" /\ @.chg = {} THEN IdleOp
                               ELSE [@ EXCEPT !.at = "mark"]]
    /\ UNCHANGED <<appVars, phase, timedOut, final, flushVars>>

\* A seed fails on a later fixture, or a tick panics: no mark is made for what
\* was already applied.
ApplyFail(o) ==
    /\ Running
    /\ op[o].at = "apply"
    /\ op[o].kind \in {"seed", "tick"}
    /\ silent' = silent \union op[o].chg
    /\ op' = [op EXCEPT ![o] = IdleOp]
    /\ UNCHANGED <<appVars, disk, dirty, signal, save, fails, lifeVars>>

\* Variant: the swap publishes targets that have not been built yet.
SwapBeforeBuild(o) ==
    /\ Running
    /\ op[o].at = "swap"
    /\ gen < MaxGen /\ version < MaxVersion
    /\ version' = version + 1
    /\ gen' = gen + 1
    /\ state' = [state EXCEPT ![gen + 1] = [s \in {} |-> 0]]
    /\ op' = [op EXCEPT ![o].at = "close", ![o].gen = gen, ![o].chg = Services]
    /\ UNCHANGED <<strategy, closed, phase, timedOut, final, flushVars>>

\* swapFresh, under rebuildMu: fresh providers replace the current ones.
SwapFresh(o) ==
    /\ Running
    /\ op[o].at = "swap"
    /\ gen < MaxGen /\ version < MaxVersion
    /\ version' = version + 1
    /\ gen' = gen + 1
    /\ state' = [state EXCEPT ![gen + 1] = [s \in Services |-> version + 1]]
    /\ op' = [op EXCEPT ![o].at = "close", ![o].gen = gen, ![o].chg = Services]
    /\ UNCHANGED <<strategy, closed, phase, timedOut, final, flushVars>>

\* A saver that holds exportMu for reading.
Exporting(x) == save[x].at \in {"targets", "export"}

\* Variant: the outgoing providers are closed without exportMu.
CloseProvidersUnguarded(o) ==
    /\ Running
    /\ op[o].at = "close"
    /\ closed' = closed \union {op[o].gen}
    /\ op' = [op EXCEPT ![o].at = IF op[o].kind = "reset" THEN "mark" ELSE "targets"]
    /\ UNCHANGED <<strategy, version, state, gen, phase, timedOut, final, flushVars>>

\* closeProviders on the displaced generation, under exportMu for writing.
CloseProviders(o) ==
    /\ Running
    /\ op[o].at = "close"
    /\ \A x \in Savers : ~Exporting(x)
    /\ closed' = closed \union {op[o].gen}
    /\ op' = [op EXCEPT ![o].at = IF op[o].kind = "reset" THEN "mark" ELSE "targets"]
    /\ UNCHANGED <<strategy, version, state, gen, phase, timedOut, final, flushVars>>

\* restoreSnapshot reads the targets that are current by then.
RestoreTargets(o) ==
    /\ Running
    /\ op[o].at = "targets"
    /\ op' = [op EXCEPT ![o].at = "load", ![o].gen = gen, ![o].todo = Services]
    /\ UNCHANGED <<appVars, phase, timedOut, final, flushVars>>

\* One service's Restore.
LoadService(o, s) ==
    /\ Running
    /\ op[o].at = "load"
    /\ s \in op[o].todo
    /\ version < MaxVersion
    /\ version' = version + 1
    /\ state' = [state EXCEPT ![op[o].gen][s] = version + 1]
    /\ op' = [op EXCEPT ![o].todo = @ \ {s}]
    /\ UNCHANGED <<strategy, gen, closed, phase, timedOut, final, flushVars>>

\* A snapshot need not hold every service: the rest stay as rebuilt.
LoadDone(o) ==
    /\ Running
    /\ op[o].at = "load"
    /\ op' = [op EXCEPT ![o].at = "mark"]
    /\ UNCHANGED <<appVars, phase, timedOut, final, flushVars>>

\* A service's Restore fails: restore returns the error without marking.
LoadFail(o) ==
    /\ Running
    /\ op[o].at = "load"
    /\ silent' = silent \union op[o].chg
    /\ op' = [op EXCEPT ![o] = IdleOp]
    /\ UNCHANGED <<appVars, disk, dirty, signal, save, fails, lifeVars>>

\* markDirty, first the flag ...
MarkStore(o) ==
    /\ Running
    /\ op[o].at = "mark"
    /\ dirty' = TRUE
    /\ silent' = {}
    /\ op' = [op EXCEPT ![o] = [@ EXCEPT !.at = "signal", !.chg = {}]]
    /\ UNCHANGED <<appVars, disk, signal, save, fails, lifeVars>>

\* Variant: only the flag is set.
MarkNoSignal(o) ==
    /\ Running
    /\ op[o].at = "signal"
    /\ op' = [op EXCEPT ![o] = IdleOp]
    /\ UNCHANGED <<appVars, disk, dirty, signal, save, fails, silent, lifeVars>>

\* ... then the non-blocking send.
MarkSignal(o) ==
    /\ Running
    /\ op[o].at = "signal"
    /\ signal' = TRUE
    /\ op' = [op EXCEPT ![o] = IdleOp]
    /\ UNCHANGED <<appVars, disk, dirty, save, fails, silent, lifeVars>>

(***************************************************************************)
(* The flusher's loop                                                      *)
(***************************************************************************)

StartSave(x) == save' = [save EXCEPT ![x] = [IdleSave EXCEPT !.at = "lock"]]

\* Clearing the flag at the start of a save: from here the save will read
\* everything that has been applied, marked or not.
ClearAndSave ==
    /\ dirty' = FALSE
    /\ silent' = {}
    /\ loop' = "save"
    /\ StartSave("loop")

\* scheduledLoop: a tick of the interval with the flag set.
ScheduledTick ==
    /\ Running
    /\ strategy = "scheduled"
    /\ loop = "wait"
    /\ dirty
    /\ ClearAndSave
    /\ UNCHANGED <<appVars, disk, signal, op, fails, phase, timedOut, final>>

\* onRequestLoop: the signal wakes it up.
OnRequestWake ==
    /\ Running
    /\ strategy = "on-request"
    /\ loop = "wait"
    /\ signal
    /\ signal' = FALSE
    /\ loop' = "coalesce"
    /\ UNCHANGED <<appVars, disk, dirty, op, save, fails, phase, timedOut, final, silent>>

\* coalesceAndSave: more signals extend the quiet window.
CoalesceMore ==
    /\ Running
    /\ loop = "coalesce"
    /\ signal
    /\ signal' = FALSE
    /\ UNCHANGED <<appVars, disk, dirty, op, save, fails, lifeVars, silent>>

\* The debounce or the cap timer fires.
CoalesceFire ==
    /\ Running
    /\ loop = "coalesce"
    /\ ClearAndSave
    /\ UNCHANGED <<appVars, disk, signal, op, fails, phase, timedOut, final>>

\* The loop sees stopCh closed.
LoopExit ==
    /\ phase = "stopping"
    /\ loop \in {"wait", "coalesce"}
    /\ loop' = "exited"
    /\ UNCHANGED <<appVars, disk, dirty, signal, op, save, fails, phase, timedOut, final, silent>>

(***************************************************************************)
(* One save or export                                                      *)
(***************************************************************************)

\* GET /_cloudemu/snapshot.
AdminSnapshot ==
    /\ "snapshot" \in Inputs
    /\ phase \in {"serving", "draining"}
    /\ save["admin"].at = "idle"
    /\ StartSave("admin")
    /\ UNCHANGED <<appVars, disk, dirty, signal, op, fails, lifeVars, silent>>

\* exportMu.RLock.
SaveLock(x) ==
    /\ Running
    /\ save[x].at = "lock"
    /\ save' = [save EXCEPT ![x].at = "targets"]
    /\ UNCHANGED <<appVars, disk, dirty, signal, op, fails, lifeVars, silent>>

\* The targets and the data plane, in one rebuildMu section.
SaveTargets(x) ==
    /\ Running
    /\ save[x].at = "targets"
    /\ save' = [save EXCEPT ![x].at = "export", ![x].gen = gen, ![x].todo = Services]
    /\ UNCHANGED <<appVars, disk, dirty, signal, op, fails, lifeVars, silent>>

\* One service's Snapshot.
ExportService(x, s) ==
    /\ Running
    /\ save[x].at = "export"
    /\ s \in save[x].todo
    /\ save' = [save EXCEPT ![x].todo = @ \ {s},
                            ![x].snap[s] = state[save[x].gen][s]]
    /\ UNCHANGED <<appVars, disk, dirty, signal, op, fails, lifeVars, silent>>

Captured(x) == [gen |-> save[x].gen, val |-> save[x].snap]

\* What runSave does after a successful save, and Stop after the final one.
AfterSave(x) ==
    \/ x = "loop" /\ loop' = "wait" /\ UNCHANGED <<phase, timedOut, final>>
    \/ x = "final" /\ phase' = "closing" /\ final' = "saved"
                   /\ UNCHANGED <<loop, timedOut>>

\* Variant: the flag is cleared when the save is over.
SaveOkClearsDirty(x) ==
    /\ Running
    /\ x \in {"loop", "final"}
    /\ save[x].at = "export" /\ save[x].todo = {}
    /\ disk' = Captured(x)
    /\ dirty' = FALSE
    /\ save' = [save EXCEPT ![x] = IdleSave]
    /\ AfterSave(x)
    /\ UNCHANGED <<appVars, signal, op, fails, silent>>

\* WriteFile publishes the snapshot.
SaveOk(x) ==
    /\ Running
    /\ x \in {"loop", "final"}
    /\ save[x].at = "export" /\ save[x].todo = {}
    /\ disk' = Captured(x)
    /\ save' = [save EXCEPT ![x] = IdleSave]
    /\ AfterSave(x)
    /\ UNCHANGED <<appVars, dirty, signal, op, fails, silent>>

\* Variant: the error path removes the state file, not the temporary one.
SaveFailRemovesFile(x) ==
    /\ Running
    /\ x = "loop"
    /\ save[x].at = "export"
    /\ fails < MaxFails
    /\ fails' = fails + 1
    /\ disk' = [gen |-> save[x].gen, val |-> Zero]
    /\ save' = [save EXCEPT ![x] = IdleSave]
    /\ dirty' = TRUE /\ silent' = {}
    /\ loop' = "wait"
    /\ UNCHANGED <<appVars, signal, op, phase, timedOut, final>>

\* The export or the write fails; when only the directory sync fails the file
\* has already been replaced.  runSave marks dirty again, without a signal;
\* Stop gives up.
SaveFail(x) ==
    /\ Running
    /\ x \in {"loop", "final"}
    /\ save[x].at = "export"
    /\ fails < MaxFails
    /\ fails' = fails + 1
    /\ \/ UNCHANGED disk
       \/ save[x].todo = {} /\ disk' = Captured(x)
    /\ save' = [save EXCEPT ![x] = IdleSave]
    /\ \/ /\ x = "loop"
          /\ dirty' = TRUE /\ silent' = {}
          /\ loop' = "wait"
          /\ UNCHANGED <<phase, timedOut, final>>
       \/ /\ x = "final"
          /\ phase' = "closing" /\ final' = "failed"
          /\ UNCHANGED <<dirty, silent, loop, timedOut>>
    /\ UNCHANGED <<appVars, signal, op>>

\* The admin endpoint returns what it exported, or an error.
AdminReply ==
    /\ Running
    /\ save["admin"].at = "export"
    /\ save' = [save EXCEPT !["admin"] = IdleSave]
    /\ UNCHANGED <<appVars, disk, dirty, signal, op, fails, lifeVars, silent>>

(***************************************************************************)
(* Shutdown                                                                *)
(***************************************************************************)

\* Serve's context is canceled or a listener fails: shutdown starts to close
\* the servers.
BeginShutdown ==
    /\ phase = "serving"
    /\ phase' = "draining"
    /\ UNCHANGED <<appVars, op, timedOut, final, flushVars>>

Drained == /\ \A o \in Ops : op[o].at # "idle" => op[o].kind = "tick"
           /\ save["admin"].at = "idle"

\* The last server.Shutdown returns: every handler is done, or the timeout left
\* some running.
DrainServers ==
    /\ phase = "draining"
    /\ phase' = "ticker"
    /\ timedOut' = ~Drained
    /\ UNCHANGED <<appVars, op, final, flushVars>>

\* Variant: the final save does not wait for a tick in progress.
StopTickerNoWait ==
    /\ phase = "ticker"
    /\ phase' = "stopping"
    /\ UNCHANGED <<appVars, op, timedOut, final, flushVars>>

\* ticker.stop waits for the tick goroutines; flusher.Stop then closes stopCh.
StopTicker ==
    /\ phase = "ticker"
    /\ \A o \in Ops : op[o].kind = "tick" => op[o].at = "idle"
    /\ phase' = "stopping"
    /\ UNCHANGED <<appVars, op, timedOut, final, flushVars>>

\* Variant: Stop does not wait for the loop's goroutine.
FinalSaveAtOnce ==
    /\ phase = "stopping"
    /\ strategy # "manual"
    /\ phase' = "final" /\ UNCHANGED final /\ StartSave("final")
    /\ UNCHANGED <<appVars, op, disk, dirty, signal, loop, fails, silent, timedOut>>

\* Stop, after wg.Wait: the final save, unless the strategy is manual.
FinalSave ==
    /\ phase = "stopping"
    /\ loop \in {"off", "exited"}
    /\ IF strategy = "manual"
       THEN phase' = "closing" /\ final' = "skipped" /\ UNCHANGED save
       ELSE phase' = "final" /\ UNCHANGED final /\ StartSave("final")
    /\ UNCHANGED <<appVars, op, disk, dirty, signal, loop, fails, silent, timedOut>>

\* closeProviders on the live generation; the process then exits.
CloseLive ==
    /\ phase = "closing"
    /\ \A x \in Savers : ~Exporting(x)
    /\ closed' = closed \union {gen}
    /\ phase' = "stopped"
    /\ UNCHANGED <<strategy, version, state, gen, op, timedOut, final, flushVars>>

(***************************************************************************)
(* Specification                                                           *)
(***************************************************************************)

OpStep(o) ==
    \/ \E s \in Services : Apply(o, s) \/ LoadService(o, s)
    \/ ApplyDone(o) \/ ApplyFail(o) \/ SwapFresh(o) \/ CloseProviders(o)
    \/ RestoreTargets(o) \/ LoadDone(o) \/ LoadFail(o)
    \/ MarkStore(o) \/ MarkSignal(o)

LoopStep == ScheduledTick \/ OnRequestWake \/ CoalesceMore \/ CoalesceFire \/ LoopExit

SaveStep(x) ==
    \/ SaveLock(x) \/ SaveTargets(x)
    \/ \E s \in Services : ExportService(x, s)
    \/ SaveOk(x) \/ SaveFail(x)

ShutdownStep == DrainServers \/ StopTicker \/ FinalSave \/ CloseLive

Next ==
    \/ \E o \in Ops : OpStep(o) \/ \E kind \in Kinds \intersect Inputs : Begin(o, kind)
    \/ LoopStep
    \/ AdminSnapshot \/ AdminReply
    \/ \E x \in Savers : SaveStep(x)
    \/ BeginShutdown
    \/ ShutdownStep

Spec == Init /\ [][Next]_vars

\* Goroutines that have begun keep running; the interval, debounce and cap
\* timers fire.  Nobody has to send a request, and the server need not stop.
\* Weak fairness of CoalesceFire stands for the cap: CoalesceMore cannot
\* postpone the save for ever.
Fairness ==
    /\ \A o \in Ops : WF_vars(OpStep(o))
    /\ WF_vars(ScheduledTick) /\ WF_vars(OnRequestWake) /\ WF_vars(CoalesceFire)
    /\ WF_vars(LoopExit)
    /\ \A x \in Savers : WF_vars(SaveStep(x))
    /\ WF_vars(AdminReply)
    /\ WF_vars(ShutdownStep)

FairSpec == Spec /\ Fairness

(***************************************************************************)
(* Properties                                                              *)
(***************************************************************************)

\* The file does not hold the live version of a service.
Unsaved(s) == disk.val[s] # state[gen][s]

\* An operation that changed s has still to call markDirty.
MarkPending(s) == \E o \in Ops : s \in op[o].chg

\* The loop's save has still to read s, or has read its live version.
SaveWillCatch(s) ==
    /\ save["loop"].at # "idle"
    /\ save["loop"].at = "export" =>
         /\ save["loop"].gen = gen
         /\ s \in save["loop"].todo \/ save["loop"].snap[s] = state[gen][s]

\* "a mutation landing mid-save re-dirties and is caught by the next
\* tick/cycle": whatever interleaving of requests, resets, restores, saves and
\* failed saves, a change that is not in the state file is announced by the
\* dirty flag, by a markDirty still to come or by a save that will read it.  The
\* exception is what an operation left behind that failed part-way.
NoLostMutation ==
    \A s \in Services :
        Unsaved(s) => dirty \/ MarkPending(s) \/ SaveWillCatch(s) \/ s \in silent

\* "a real engine is never torn down mid-export": an export never reads
\* providers that a concurrent reset, restore or shutdown has closed.
ExportReadsOpenProviders ==
    \A x \in Savers : save[x].at = "export" => save[x].gen \notin closed

\* "guarantees at most one save is in flight at a time", Stop's included.
SingleFlight == save["loop"].at = "idle" \/ save["final"].at = "idle"

\* "no earlier save can rename over it and regress the on-disk snapshot to an
\* older version": the file only moves to newer versions of the same providers,
\* or on to newer providers.
DiskNeverRegresses ==
    [][ \/ disk'.gen > disk.gen
        \/ /\ disk'.gen = disk.gen
           /\ \A s \in Services : disk'.val[s] >= disk.val[s] ]_vars

\* "writes the persistence snapshot after they are quiescent": once the final
\* save has succeeded the file holds the live state until the process exits.
\* shutdown goes on when the drain times out, and a handler that outlives it
\* changes the state during or after the final save: hence ~timedOut.
GracefulStopSavesAll ==
    final = "saved" /\ ~timedOut => \A s \in Services : ~Unsaved(s)

\* "On failure it re-marks dirty so the next tick/cycle retries": while the
\* server keeps serving, mutations, resets and, under scheduled, failed saves can
\* delay an announced change on its way to the file but not for ever.  Under
\* on-request a failed save sets the flag without the signal the loop waits for,
\* so that nothing retries it before the next request.
EventuallySavedOrFailed ==
    \A s \in Services :
        Unsaved(s) ~> \/ ~Unsaved(s) \/ s \in silent \/ phase # "serving"
                      \/ strategy = "on-request" /\ fails > 0
=============================================================================
