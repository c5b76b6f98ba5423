-------------------------------- MODULE EC2 --------------------------------
(***************************************************************************)
(* providers/aws/ec2: launches with client tokens and rollback, lifecycle  *)
(* transitions, and the volumes of instances.                              *)
(*                                                                         *)
(* Instances and volumes live in two stores with a lock each; a call makes *)
(* several store calls, each a step, and nothing spans them but the token  *)
(* reservation under the provider's mutex.  transitionOne holds the        *)
(* instance's lock over both moves of a lifecycle change, so inst is the   *)
(* instance's State and its entry in the state machine at once.            *)
(*                                                                         *)
(* A launch draws its ids when it starts; the root volume of an instance   *)
(* has the instance's name.  An instance that is not in the store is       *)
(* "none" before its launch and "gone" after a rollback.                   *)
(***************************************************************************)
EXTENDS Integers, Sequences, SequencesExt

CONSTANTS
    Insts,       \* instance ids
    NoInst,      \* no attachment
    UserVols,    \* ids CreateVolume draws
    NoVol,       \* no volume
    Tokens,      \* ClientTokens
    NoToken,     \* no ClientToken
    Launchers,   \* goroutines in RunInstances
    Terminators, \* goroutines in TerminateInstances
    Attachers,   \* goroutines in AttachVolume
    Deleters,    \* goroutines in DeleteVolume
    Setups,      \* who is at work, and what for (a bound)
    Launches,    \* the ids a launch may draw
    Batches      \* id lists clients pass to TerminateInstances

Vols == Insts \union UserVols

ASSUME EC2Assumption ==
    /\ NoInst \notin Insts /\ NoToken \notin Tokens /\ NoVol \notin Vols
    /\ Insts \intersect UserVols = {}
    /\ Launches \subseteq Seq(Insts) \ {<<>>}
    /\ \A ids \in Launches : \A m, n \in DOMAIN ids : ids[m] = ids[n] => m = n
    /\ Batches \subseteq Seq(Insts) \ {<<>>}
    /\ Setups \subseteq [actors : SUBSET (Launchers \union Terminators \union Attachers
                                            \union Deleters),
                         tokens : SUBSET Tokens, launches : SUBSET Launches,
                         vols : SUBSET UserVols]

VARIABLES
    setup,      \* the goroutines at work, their tokens, launches and user volumes
    inst,       \* each instance's state
    vol,        \* the volume store
    launch,     \* each RunInstances call
    tokens,     \* clientTokens: the ids a token launched, or none
    inflight,   \* clientTokenInflight
    term,       \* each TerminateInstances call
    attach,     \* each AttachVolume call past its check of the instance
    del,        \* each DeleteVolume call past its check of the volume
    events,     \* instances whose terminated event is published
    answers,    \* the ids each token's successful calls returned (history)
    failed,     \* instances terminated by a call that then failed (history)
    stale,      \* instances that got a volume after their end (history)
    owned,      \* volumes a client created or detached (history)
    asked,      \* volumes a client deleted (history)
    rolled      \* volumes a rollback deleted (history)

launchVars == <<launch, tokens, inflight, answers>>
pastVars == <<failed, stale, owned, asked, rolled>>
vars == <<setup, inst, vol, launchVars, term, attach, del, events, pastVars>>

States == {"none", "running", "stopped", "terminated", "gone"}
Dead(i) == i # NoInst /\ inst[i] \in {"terminated", "gone"}

Volume == [state : {"none", "available", "in-use", "deleted"}, to : Insts \union {NoInst},
           delOnTerm : BOOLEAN]
NoVolume == [state |-> "none", to |-> NoInst, delOnTerm |-> FALSE]
FreeVolume == [state |-> "available", to |-> NoInst, delOnTerm |-> FALSE]
DeletedVolume == [state |-> "deleted", to |-> NoInst, delOnTerm |-> FALSE]

Stored(v) == vol[v].state \in {"available", "in-use"}

IdleLaunch == [at |-> "idle", tok |-> NoToken, ids |-> <<>>, n |-> 0, todo |-> {}]
IdleTerm == [at |-> "idle", ids |-> <<>>, n |-> 0, changed |-> {}, todo |-> {}]
IdleAttach == [v |-> NoVol, i |-> NoInst]

\* n counts the ids a call is through with; a volume is in use while attached.
TypeOK ==
    /\ setup \in Setups
    /\ inst \in [Insts -> States]
    /\ vol \in [Vols -> Volume]
    /\ \A v \in Vols : vol[v].state = "in-use" <=> vol[v].to # NoInst
    /\ \A l \in Launchers :
         /\ launch[l].at \in {"idle", "provision", "volumes", "rollback", "delete", "finish", "wait"}
         /\ launch[l].tok \in Tokens \union {NoToken}
         /\ launch[l].ids \in Seq(Insts)
         /\ launch[l].n \in 0..Len(launch[l].ids)
         /\ launch[l].todo \subseteq Vols
    /\ tokens \in [Tokens -> Launches \union {<<>>}]
    /\ inflight \subseteq Tokens
    /\ \A c \in Terminators :
         /\ term[c].at \in {"idle", "change", "release", "emit"}
         /\ term[c].ids \in Batches \union {<<>>}
         /\ term[c].n \in 0..Len(term[c].ids)
         /\ term[c].changed \subseteq ToSet(term[c].ids) /\ term[c].todo \subseteq Vols
    /\ attach \in [Attachers -> [v : Vols \union {NoVol}, i : Insts \union {NoInst}]]
    /\ del \in [Deleters -> Vols \union {NoVol}]
    /\ answers \in [Tokens -> SUBSET Launches]
    /\ \A s \in {events, failed, stale} : s \subseteq Insts
    /\ \A s \in {owned, asked, rolled} : s \subseteq Vols

Init ==
    /\ setup \in Setups
    /\ inst = [i \in Insts |-> "none"]
    /\ vol = [v \in Vols |-> NoVolume]
    /\ launch = [l \in Launchers |-> IdleLaunch]
    /\ tokens = [t \in Tokens |-> <<>>]
    /\ inflight = {}
    /\ term = [c \in Terminators |-> IdleTerm]
    /\ attach = [a \in Attachers |-> IdleAttach]
    /\ del = [d \in Deleters |-> NoVol]
    /\ answers = [t \in Tokens |-> {}]
    /\ events = {} /\ failed = {} /\ stale = {} /\ owned = {} /\ asked = {} /\ rolled = {}

(***************************************************************************)
(* RunInstances                                                            *)
(***************************************************************************)

\* The bound on clients' launches.
Asked(l, t, ids) ==
    l \in setup.actors /\ t \in setup.tokens \union {NoToken} /\ ids \in setup.launches

Fresh(ids) ==
    \A n \in DOMAIN ids : /\ inst[ids[n]] = "none"
                          /\ \A l \in Launchers : ids[n] \notin ToSet(launch[l].ids)

\* Variant: the token is not reserved.
StartLaunchUnreserved(l, t, ids) ==
    /\ Asked(l, t, ids)
    /\ launch[l].at = "idle"
    /\ Fresh(ids)
    /\ t # NoToken => tokens[t] = <<>> /\ t \notin inflight
    /\ launch' = [launch EXCEPT ![l] = [IdleLaunch EXCEPT !.at = "provision", !.tok = t, !.ids = ids]]
    /\ UNCHANGED <<setup, inst, vol, tokens, answers, inflight, term, attach, del, events, pastVars>>

\* runInstancesIdempotent reserves the token under m.mu; without one the launch
\* starts at once.
StartLaunch(l, t, ids) ==
    /\ Asked(l, t, ids)
    /\ launch[l].at = "idle"
    /\ Fresh(ids)
    /\ t # NoToken => tokens[t] = <<>> /\ t \notin inflight
    /\ launch' = [launch EXCEPT ![l] = [IdleLaunch EXCEPT !.at = "provision", !.tok = t, !.ids = ids]]
    /\ inflight' = IF t = NoToken THEN inflight ELSE inflight \union {t}
    /\ UNCHANGED <<setup, inst, vol, tokens, answers, term, attach, del, events, pastVars>>

\* A call that finds the token's ids returns them ...
ReplayLaunch(l, t) ==
    /\ launch[l].at = "idle"
    /\ tokens[t] # <<>>
    /\ answers' = [answers EXCEPT ![t] = @ \union {tokens[t]}]
    /\ UNCHANGED <<setup, inst, vol, launch, tokens, inflight, term, attach, del, events, pastVars>>

\* ... and one that finds a launch in flight waits for it.
WaitForLaunch(l, t) ==
    /\ launch[l].at = "idle"
    /\ tokens[t] = <<>> /\ t \in inflight
    /\ launch' = [launch EXCEPT ![l] = [IdleLaunch EXCEPT !.at = "wait", !.tok = t]]
    /\ UNCHANGED <<setup, inst, vol, tokens, inflight, answers, term, attach, del, events, pastVars>>

\* The instance is provisioned, moved from pending to running and published ...
Provision(l) ==
    LET i == launch[l].ids[launch[l].n + 1] IN
    /\ launch[l].at = "provision"
    /\ inst' = [inst EXCEPT ![i] = "running"]
    /\ launch' = [launch EXCEPT ![l].at = "volumes", ![l].n = @ + 1]
    /\ UNCHANGED <<setup, vol, tokens, inflight, answers, term, attach, del, events, pastVars>>

\* ... and gets its volume, deleted on termination or not as the request says.
MaterializeInstanceVolumes(l, delOnTerm) ==
    LET i == launch[l].ids[launch[l].n] IN
    /\ launch[l].at = "volumes"
    /\ vol' = [vol EXCEPT ![i] = [state |-> "in-use", to |-> i, delOnTerm |-> delOnTerm]]
    /\ stale' = IF Dead(i) THEN stale \union {i} ELSE stale
    /\ launch' = [launch EXCEPT ![l].at = IF launch[l].n < Len(launch[l].ids) THEN "provision"
                                          ELSE "finish"]
    /\ UNCHANGED <<setup, inst, tokens, inflight, answers, term, attach, del, events, failed, owned,
                   asked, rolled>>

\* The engine fails: the instances created so far are rolled back.
ProvisionFails(l) ==
    /\ launch[l].at = "provision"
    /\ launch' = [launch EXCEPT ![l].at = "rollback", ![l].ids = SubSeq(@, 1, launch[l].n),
                                ![l].n = 0]
    /\ UNCHANGED <<setup, inst, vol, tokens, inflight, answers, term, attach, del, events, pastVars>>

\* rollbackInstances drops an instance and lists the volumes ...
RollbackInstance(l) ==
    LET i == launch[l].ids[launch[l].n + 1] IN
    /\ launch[l].at = "rollback" /\ launch[l].n < Len(launch[l].ids)
    /\ inst' = [inst EXCEPT ![i] = "gone"]
    /\ launch' = [launch EXCEPT ![l].at = "delete", ![l].todo = {v \in Vols : Stored(v)}]
    /\ UNCHANGED <<setup, vol, tokens, inflight, answers, term, attach, del, events, pastVars>>

\* ... and deletes the ones attached to it, one UpdateOrDelete after the other.
DeleteInstanceVolume(l, v) ==
    LET i == launch[l].ids[launch[l].n + 1] IN
    /\ launch[l].at = "delete" /\ v \in launch[l].todo
    /\ launch' = [launch EXCEPT ![l].todo = @ \ {v}]
    /\ \/ /\ vol[v].to = i
          /\ vol' = [vol EXCEPT ![v] = DeletedVolume]
          /\ rolled' = rolled \union {v}
       \/ /\ vol[v].to # i
          /\ UNCHANGED <<vol, rolled>>
    /\ UNCHANGED <<setup, inst, tokens, inflight, answers, term, attach, del, events, failed, stale,
                   owned, asked>>

NextRollback(l) ==
    /\ launch[l].at = "delete" /\ launch[l].todo = {}
    /\ launch' = [launch EXCEPT ![l].at = "rollback", ![l].n = @ + 1]
    /\ UNCHANGED <<setup, inst, vol, tokens, inflight, answers, term, attach, del, events, pastVars>>

\* The call and everyone who waits for its token return.
Return(l) ==
    LET t == launch[l].tok IN
    launch' = [m \in Launchers |->
                 IF m = l \/ (t # NoToken /\ launch[m].at = "wait" /\ launch[m].tok = t)
                 THEN IdleLaunch ELSE launch[m]]

\* Variant: a failed launch leaves its reservation.
FailKeepsReservation(l) ==
    /\ launch[l].at = "rollback" /\ launch[l].n = Len(launch[l].ids)
    /\ launch' = [launch EXCEPT ![l] = IdleLaunch]
    /\ UNCHANGED <<setup, inst, vol, inflight, tokens, answers, term, attach, del, events, pastVars>>

\* A failed launch forgets the reservation; its error goes to all who wait.
FailLaunch(l) ==
    /\ launch[l].at = "rollback" /\ launch[l].n = Len(launch[l].ids)
    /\ Return(l)
    /\ inflight' = inflight \ {launch[l].tok}
    /\ UNCHANGED <<setup, inst, vol, tokens, answers, term, attach, del, events, pastVars>>

\* A launch that succeeded records its ids under the token in the same hold of
\* m.mu that forgets the reservation.
FinishLaunch(l) ==
    LET t == launch[l].tok IN
    /\ launch[l].at = "finish"
    /\ Return(l)
    /\ inflight' = inflight \ {t}
    /\ \/ /\ t = NoToken
          /\ UNCHANGED <<tokens, answers>>
       \/ /\ t # NoToken
          /\ tokens' = [tokens EXCEPT ![t] = launch[l].ids]
          /\ answers' = [answers EXCEPT ![t] = @ \union {launch[l].ids}]
    /\ UNCHANGED <<setup, inst, vol, term, attach, del, events, pastVars>>

(***************************************************************************)
(* Lifecycle                                                               *)
(***************************************************************************)

\* transitionOne for StopInstances and StartInstances.
Stop(i) ==
    /\ inst[i] = "running"
    /\ inst' = [inst EXCEPT ![i] = "stopped"]
    /\ UNCHANGED <<setup, vol, launchVars, term, attach, del, events, pastVars>>

Start(i) ==
    /\ inst[i] = "stopped"
    /\ inst' = [inst EXCEPT ![i] = "running"]
    /\ UNCHANGED <<setup, vol, launchVars, term, attach, del, events, pastVars>>

TerminateInstances(c, ids) ==
    /\ c \in setup.actors /\ term[c].at = "idle"
    /\ term' = [term EXCEPT ![c] = [IdleTerm EXCEPT !.at = "change", !.ids = ids]]
    /\ UNCHANGED <<setup, inst, vol, launchVars, attach, del, events, pastVars>>

\* Variant: a batch that fails returns without publishing the ends before it.
TerminateForgetsEnds(c) ==
    LET i == term[c].ids[term[c].n + 1] IN
    /\ term[c].at = "change" /\ term[c].n < Len(term[c].ids)
    /\ \/ /\ inst[i] \in {"running", "stopped"}
          /\ inst' = [inst EXCEPT ![i] = "terminated"]
          /\ term' = [term EXCEPT ![c].n = @ + 1, ![c].changed = @ \union {i}]
          /\ UNCHANGED failed
       \/ /\ inst[i] \notin {"running", "stopped"}
          /\ term' = [term EXCEPT ![c] = IdleTerm]
          /\ failed' = failed \union term[c].changed
          /\ UNCHANGED inst
    /\ UNCHANGED <<setup, vol, launchVars, attach, del, events, stale, owned, asked, rolled>>

\* transitionInstancesDeferEvents, one id: an instance that is not in the store
\* or has no way to shutting-down ends the call, which publishes the events of
\* the ones before it and leaves their volumes.
TerminateOne(c) ==
    LET i == term[c].ids[term[c].n + 1] IN
    /\ term[c].at = "change" /\ term[c].n < Len(term[c].ids)
    /\ \/ /\ inst[i] \in {"running", "stopped"}
          /\ inst' = [inst EXCEPT ![i] = "terminated"]
          /\ term' = [term EXCEPT ![c].n = @ + 1, ![c].changed = @ \union {i}]
          /\ UNCHANGED failed
       \/ /\ inst[i] \notin {"running", "stopped"}
          /\ term' = [term EXCEPT ![c].at = "emit"]
          /\ failed' = failed \union term[c].changed
          /\ UNCHANGED inst
    /\ UNCHANGED <<setup, vol, launchVars, attach, del, events, stale, owned, asked, rolled>>

\* detachTerminatedVolumes lists the volumes ...
ListVolumes(c) ==
    /\ term[c].at = "change" /\ term[c].n = Len(term[c].ids)
    /\ term' = [term EXCEPT ![c].at = "release", ![c].todo = {v \in Vols : Stored(v)}]
    /\ UNCHANGED <<setup, inst, vol, launchVars, attach, del, events, pastVars>>

\* Variant: only the volumes that are deleted on termination are settled.
ReleaseDeletesOnly(c, v) ==
    /\ term[c].at = "release" /\ v \in term[c].todo
    /\ term' = [term EXCEPT ![c].todo = @ \ {v}]
    /\ vol' = IF vol[v].to \in ToSet(term[c].ids) /\ vol[v].delOnTerm
              THEN [vol EXCEPT ![v] = DeletedVolume] ELSE vol
    /\ UNCHANGED <<setup, inst, launchVars, attach, del, events, pastVars>>

\* ... and deletes or frees each one that is still attached to an instance of
\* the call, under one hold of the store's lock.
ReleaseVolume(c, v) ==
    /\ term[c].at = "release" /\ v \in term[c].todo
    /\ term' = [term EXCEPT ![c].todo = @ \ {v}]
    /\ vol' = IF vol[v].to \in ToSet(term[c].ids)
              THEN [vol EXCEPT ![v] = IF @.delOnTerm THEN DeletedVolume ELSE FreeVolume]
              ELSE vol
    /\ UNCHANGED <<setup, inst, launchVars, attach, del, events, pastVars>>

ReleaseDone(c) ==
    /\ term[c].at = "release" /\ term[c].todo = {}
    /\ term' = [term EXCEPT ![c].at = "emit"]
    /\ UNCHANGED <<setup, inst, vol, launchVars, attach, del, events, pastVars>>

\* emitTransitionEvents: the terminated events of the instances that changed.
Emit(c) ==
    /\ term[c].at = "emit"
    /\ events' = events \union term[c].changed
    /\ term' = [term EXCEPT ![c] = IdleTerm]
    /\ UNCHANGED <<setup, inst, vol, launchVars, attach, del, pastVars>>

(***************************************************************************)
(* Volumes                                                                 *)
(***************************************************************************)

CreateVolume(v) ==
    /\ v \in setup.vols /\ vol[v].state = "none"
    /\ vol' = [vol EXCEPT ![v] = FreeVolume]
    /\ owned' = owned \union {v}
    /\ UNCHANGED <<setup, inst, launchVars, term, attach, del, events, failed, stale, asked, rolled>>

\* DeleteVolume checks that the volume is free ...
DeleteVolume(d, v) ==
    /\ d \in setup.actors /\ del[d] = NoVol
    /\ Stored(v) /\ vol[v].state # "in-use"
    /\ del' = [del EXCEPT ![d] = v]
    /\ UNCHANGED <<setup, inst, vol, launchVars, term, attach, events, pastVars>>

\* ... and removes what is under its id.
RemoveVolume(d) ==
    LET v == del[d] IN
    /\ v # NoVol
    /\ vol' = [vol EXCEPT ![v] = DeletedVolume]
    /\ asked' = asked \union {v}
    /\ del' = [del EXCEPT ![d] = NoVol]
    /\ UNCHANGED <<setup, inst, launchVars, term, attach, events, failed, stale, owned, rolled>>

\* AttachVolume reads the instance's state ...
AttachVolume(a, v, i) ==
    /\ a \in setup.actors /\ attach[a] = IdleAttach
    /\ vol[v].state # "none"
    /\ inst[i] \in {"running", "stopped"}
    /\ attach' = [attach EXCEPT ![a] = [v |-> v, i |-> i]]
    /\ UNCHANGED <<setup, inst, vol, launchVars, term, del, events, pastVars>>

\* ... and then tests and marks the volume under the store's lock.
MarkAttached(a) ==
    LET v == attach[a].v
        i == attach[a].i
    IN
    /\ v # NoVol
    /\ attach' = [attach EXCEPT ![a] = IdleAttach]
    /\ \/ /\ vol[v].state = "available"
          /\ vol' = [vol EXCEPT ![v] = [state |-> "in-use", to |-> i, delOnTerm |-> @.delOnTerm]]
          /\ stale' = IF Dead(i) THEN stale \union {i} ELSE stale
       \/ /\ vol[v].state # "available"
          /\ UNCHANGED <<vol, stale>>
    /\ UNCHANGED <<setup, inst, launchVars, term, del, events, failed, owned, asked, rolled>>

\* Variant: DeleteOnTermination outlives the attachment.
DetachKeepsFlag(v) ==
    /\ vol[v].state = "in-use"
    /\ vol' = [vol EXCEPT ![v] = [state |-> "available", to |-> NoInst, delOnTerm |-> @.delOnTerm]]
    /\ owned' = owned \union {v}
    /\ UNCHANGED <<setup, inst, launchVars, term, attach, del, events, failed, stale, asked, rolled>>

\* Variant: the volume becomes available and keeps its AttachedTo.
DetachKeepsInstance(v) ==
    /\ vol[v].state = "in-use"
    /\ vol' = [vol EXCEPT ![v].state = "available"]
    /\ owned' = owned \union {v}
    /\ UNCHANGED <<setup, inst, launchVars, term, attach, del, events, failed, stale, asked, rolled>>

DetachVolume(v) ==
    /\ vol[v].state = "in-use"
    /\ vol' = [vol EXCEPT ![v] = FreeVolume]
    /\ owned' = owned \union {v}
    /\ UNCHANGED <<setup, inst, launchVars, term, attach, del, events, failed, stale, asked, rolled>>

LaunchStep(l) ==
    \/ Provision(l) \/ ProvisionFails(l) \/ \E b \in BOOLEAN : MaterializeInstanceVolumes(l, b)
    \/ RollbackInstance(l) \/ \E v \in Vols : DeleteInstanceVolume(l, v)
    \/ NextRollback(l) \/ FailLaunch(l) \/ FinishLaunch(l)

TerminateStep(c) ==
    \/ TerminateOne(c) \/ ListVolumes(c) \/ \E v \in Vols : ReleaseVolume(c, v)
    \/ ReleaseDone(c) \/ Emit(c)

Next ==
    \/ \E l \in Launchers :
         \/ \E ids \in Launches, t \in Tokens \union {NoToken} : StartLaunch(l, t, ids)
         \/ \E t \in Tokens : ReplayLaunch(l, t) \/ WaitForLaunch(l, t)
         \/ LaunchStep(l)
    \/ \E i \in Insts : Stop(i) \/ Start(i)
    \/ \E c \in Terminators : TerminateStep(c) \/ \E ids \in Batches : TerminateInstances(c, ids)
    \/ \E v \in UserVols : CreateVolume(v)
    \/ \E v \in Vols : DetachVolume(v)
    \/ \E d \in Deleters : RemoveVolume(d) \/ \E v \in Vols : DeleteVolume(d, v)
    \/ \E a \in Attachers :
         MarkAttached(a) \/ \E v \in Vols, i \in Insts : AttachVolume(a, v, i)

Spec == Init /\ [][Next]_vars

\* A goroutine in RunInstances keeps running, and the engine answers; nothing
\* makes a client send a request.
Fairness == \A l \in Launchers : WF_vars(LaunchStep(l))

FairSpec == Spec /\ Fairness

(***************************************************************************)
(* Properties                                                              *)
(***************************************************************************)

\* A call in progress is still going to settle the volume v.
Releasing(v) ==
    \/ \E c \in Terminators :
         /\ vol[v].to \in term[c].changed
         /\ term[c].at = "change" \/ (term[c].at = "release" /\ v \in term[c].todo)
    \/ \E l \in Launchers :
         /\ launch[l].at = "delete" /\ v \in launch[l].todo
         /\ launch[l].ids[launch[l].n + 1] = vol[v].to

\* "Every attached EBS volume must be released, otherwise it stays in-use against
\* a dead instance forever and can never be deleted", and "a rolled-back launch
\* leaves no volume stuck in-use against a gone instance": set instances aside
\* that got a volume after their end, and a volume on a dead one has a call that
\* will settle it.  A batch that fails half-way breaks this (run
\* ec2_stuck_volume).
AttachmentsReleased ==
    \A v \in Vols : Dead(vol[v].to) /\ vol[v].to \notin stale => Releasing(v)

\* The same, with the instances of failed batches set aside too, and "a
\* subscriber reacting to 'terminated' never sees them still attached".
ReleasedUnlessRaced ==
    \A v \in Vols : Dead(vol[v].to) /\ vol[v].to \notin stale \union failed =>
        Releasing(v) /\ vol[v].to \notin events

\* "a volume no longer attached to a terminating instance (e.g. just detached)
\* survives": a volume that a client created, or detached once, is deleted by a
\* client only, or with an instance that a rollback takes back.
DetachedVolumeSurvives ==
    \A v \in owned : vol[v].state = "deleted" => v \in asked \union rolled

\* However many terminations race for an instance, and whether or not the batch
\* that ended it failed later: its end is published, once.  Until then exactly
\* one call has it to publish, and none after.
EndAnnouncedOnce ==
    \A i \in Insts :
      LET announcers == {c \in Terminators : i \in term[c].changed} IN
      /\ inst[i] = "terminated" => i \in events \/ announcers # {}
      /\ i \in events => announcers = {}
      /\ \A c, d \in announcers : c = d

Launching(l, t) == launch[l].tok = t /\ launch[l].at \notin {"idle", "wait"}

\* "a token never provisions twice": one call at a time launches for a token,
\* none once its ids are recorded, and all calls that succeed return the same
\* ids, whatever fails, waits or retries.
OneLaunchPerToken ==
    \A t \in Tokens :
      /\ answers[t] \subseteq {tokens[t]}
      /\ \A l, m \in Launchers : Launching(l, t) /\ Launching(m, t) => l = m
      /\ \A l \in Launchers : Launching(l, t) => tokens[t] = <<>> /\ t \in inflight

\* Every RunInstances returns, those that wait for another call's launch too.
EveryLaunchReturns ==
    \A l \in Launchers : launch[l].at # "idle" ~> launch[l].at = "idle"
=============================================================================
