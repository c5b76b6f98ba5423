----------------------------- MODULE Scheduler -----------------------------
(***************************************************************************)
(* providers/aws/eventbridgescheduler: the schedule and group stores, and  *)
(* CreateSchedule's use of the idempotency store.  A schedule's id is its  *)
(* name-derived key, so a deleted schedule's token has to be forgotten     *)
(* explicitly, in a step of its own.                                       *)
(*                                                                         *)
(* Callers run CreateSchedule; Workers run the other operations.  Each     *)
(* memstore call (Get, Set, SetIfAbsent, Delete, Has, Keys) is one atomic  *)
(* step and nothing holds a lock across two of them.  Tags and listings    *)
(* are left out: they change no schedule, group or token.                  *)
(***************************************************************************)
EXTENDS IdempotencyStore

CONSTANTS
    Workers,       \* goroutines running update, delete and group operations
    ClientTokens,  \* ClientToken values
    Groups,        \* schedule group names
    DefaultGroup,  \* the group that always exists
    Names,         \* schedule names
    MaxMade        \* bound on the number of schedules ever created

\* scheduleKey(group, name)
Keys == Groups \X Names

GroupOf(k) == k[1]

\* Scoped(token, key): a client token counts only for the key it came with.
Scoped(ct, k) == IF ct = NoToken THEN NoToken ELSE <<ct, k>>

ASSUME SchedulerAssumption ==
    /\ DefaultGroup \in Groups
    /\ Names # {}
    /\ TTL > 0                    \* idempotency.DefaultTTL
    /\ NoToken \notin ClientTokens
    /\ Tokens = ClientTokens \X Keys
    /\ Ids = Keys
    /\ MaxMade \in Nat

VARIABLES
    key,        \* the schedule key each caller asks for
    groupOk,    \* whether a caller's create has passed the group check
    schedules,  \* the schedules store: n = 0 when absent
    groups,     \* names in the groups store
    op,         \* each worker's operation in progress
    made,       \* how many schedules have been created
    raced       \* keys on which operations have overlapped (history)

schedVars == <<key, groupOk, schedules, groups, op, made>>
storeVars == <<clock, callVars, lockVars, entries>>
vars == <<storeVars, schedVars, raced>>

\* A stored schedule: which one it is, the scoped token of the request that
\* created it, and that request's now.
Schedule == [n : 0..MaxMade, by : Tokens \union {NoToken}, at : 0..MaxClock]
Absent == [n |-> 0, by |-> NoToken, at |-> 0]

Idle == [do |-> "idle", key |-> <<DefaultGroup, CHOOSE m \in Names : TRUE>>,
         seen |-> Absent, todo |-> {}]

WorkSteps == {"idle", "delete", "forget", "update", "set", "createGroup",
              "setGroup", "deleteGroup", "cascade", "forgetOne"}

\* The token store's types and those of the schedule and group stores.
TypeOK ==
    /\ StoreTypeOK
    /\ key \in [Callers -> Keys]
    /\ groupOk \in [Callers -> BOOLEAN]
    /\ schedules \in [Keys -> Schedule]
    /\ groups \subseteq Groups
    /\ op \in [Workers -> [do : WorkSteps, key : Keys, seen : Schedule,
                           todo : SUBSET Keys]]
    /\ made \in 0..MaxMade
    /\ raced \subseteq Keys

Init ==
    /\ StoreInit
    /\ key = [c \in Callers |-> Idle.key]
    /\ groupOk = [c \in Callers |-> FALSE]
    /\ schedules = [k \in Keys |-> Absent]
    /\ groups = {}
    /\ op = [w \in Workers |-> Idle]
    /\ made = 0
    /\ raced = {}

Exists(k) == schedules[k].n # 0

(***************************************************************************)
(* CreateSchedule                                                          *)
(***************************************************************************)

CreateSchedule(c, ct, k) ==
    /\ Call(c, Scoped(ct, k))
    /\ key' = [key EXCEPT ![c] = k]
    /\ UNCHANGED <<groupOk, schedules, groups, op, made>>

\* The replay closure: GetSchedule on the request's own key.
ReplaySchedule(c) ==
    /\ pc[c] = "replay"
    /\ Goto(c, IF Exists(key[c]) THEN "unlock" ELSE "create")
    /\ UNCHANGED <<clock, tok, now, lk, got, lockVars, entries, schedVars>>

\* A caller whose request is over asks for nothing (the key is a parameter).
KeyAfter(c) == IF pc'[c] = "idle" THEN [key EXCEPT ![c] = Idle.key] ELSE key

\* Do returns what its create returned, unlocking if it holds the lock.
Finish(c) ==
    /\ \/ /\ tok[c] # NoToken
          /\ Goto(c, "unlock")
          /\ UNCHANGED <<tok, now, lk, got>>
       \/ /\ tok[c] = NoToken
          /\ Return(c)
    /\ key' = KeyAfter(c)

\* The create closure, first step: groupExists.
CheckGroup(c) ==
    /\ pc[c] = "create"
    /\ ~groupOk[c]
    /\ \/ /\ GroupOf(key[c]) \in groups \union {DefaultGroup}
          /\ groupOk' = [groupOk EXCEPT ![c] = TRUE]
          /\ UNCHANGED <<callVars, key>>
       \/ /\ GroupOf(key[c]) \notin groups \union {DefaultGroup}
          /\ Finish(c)
          /\ UNCHANGED groupOk
    /\ UNCHANGED <<clock, lockVars, entries, schedules, groups, op, made>>

\* Second step: SetIfAbsent stores the schedule.
InsertSchedule(c) ==
    /\ pc[c] = "create" /\ groupOk[c]
    /\ ~Exists(key[c])
    /\ made < MaxMade
    /\ made' = made + 1
    /\ schedules' = [schedules EXCEPT ![key[c]] =
                       [n |-> made + 1, by |-> tok[c], at |-> now[c]]]
    /\ \/ /\ tok[c] # NoToken
          /\ Goto(c, "put")
          /\ got' = [got EXCEPT ![c] = key[c]]
          /\ UNCHANGED <<tok, now, lk>>
       \/ /\ tok[c] = NoToken
          /\ Return(c)
    /\ key' = KeyAfter(c)
    /\ groupOk' = [groupOk EXCEPT ![c] = FALSE]
    /\ UNCHANGED <<clock, lockVars, entries, groups, op>>

\* ... or reports the conflict.
InsertConflict(c) ==
    /\ pc[c] = "create" /\ groupOk[c]
    /\ Exists(key[c])
    /\ Finish(c)
    /\ groupOk' = [groupOk EXCEPT ![c] = FALSE]
    /\ UNCHANGED <<clock, lockVars, entries, schedules, groups, op, made>>

StoreStep(c) ==
    /\ \/ LockRef(c) \/ LockAcquire(c) \/ Lookup(c)
       \/ Put(c) \/ Unlock(c) \/ Deref(c)
    /\ key' = KeyAfter(c)
    /\ UNCHANGED <<groupOk, schedules, groups, op, made>>

(***************************************************************************)
(* The other operations, one memstore or token-store call per step         *)
(***************************************************************************)

Begin(w, step, k) ==
    /\ op[w].do = "idle"
    /\ op' = [op EXCEPT ![w].do = step, ![w].key = k]
    /\ UNCHANGED <<storeVars, key, groupOk, schedules, groups, made>>

\* DeleteSchedule: schedules.Delete; NotFound if it is not there.
DeleteSchedule(w) ==
    /\ op[w].do = "delete"
    /\ \/ /\ Exists(op[w].key)
          /\ schedules' = [schedules EXCEPT ![op[w].key] = Absent]
          /\ op' = [op EXCEPT ![w].do = "forget"]
       \/ /\ ~Exists(op[w].key)
          /\ op' = [op EXCEPT ![w] = Idle]
          /\ UNCHANGED schedules
    /\ UNCHANGED <<storeVars, key, groupOk, groups, made>>

\* Variant: the token entry of the deleted schedule stays.
ForgetNothing(w) ==
    /\ op[w].do = "forget"
    /\ op' = [op EXCEPT ![w] = Idle]
    /\ UNCHANGED <<storeVars, key, groupOk, schedules, groups, made>>

\* ... then scheduleTokens.Forget, and success.
ForgetKey(w) ==
    /\ op[w].do = "forget"
    /\ entries' = ForgetEntries(op[w].key)
    /\ op' = [op EXCEPT ![w] = Idle]
    /\ UNCHANGED <<clock, callVars, lockVars, key, groupOk, schedules, groups, made>>

\* UpdateSchedule: schedules.Get, then schedules.Set of the rebuilt record,
\* which keeps the identity it read.
UpdateSchedule(w) ==
    /\ \/ /\ op[w].do = "update"
          /\ op' = [op EXCEPT ![w] =
                      IF Exists(@.key)
                      THEN [@ EXCEPT !.do = "set", !.seen = schedules[op[w].key]]
                      ELSE Idle]
          /\ UNCHANGED schedules
       \/ /\ op[w].do = "set"
          /\ schedules' = [schedules EXCEPT ![op[w].key] = op[w].seen]
          /\ op' = [op EXCEPT ![w] = Idle]
    /\ UNCHANGED <<storeVars, key, groupOk, groups, made>>

\* CreateScheduleGroup: groups.Has, then groups.Set.
CreateScheduleGroup(w) ==
    LET g == GroupOf(op[w].key) IN
    /\ \/ /\ op[w].do = "createGroup"
          /\ op' = [op EXCEPT ![w] =
                      IF g \in groups \union {DefaultGroup} THEN Idle
                      ELSE [@ EXCEPT !.do = "setGroup"]]
          /\ UNCHANGED groups
       \/ /\ op[w].do = "setGroup"
          /\ groups' = groups \union {g}
          /\ op' = [op EXCEPT ![w] = Idle]
    /\ UNCHANGED <<storeVars, key, groupOk, schedules, made>>

\* Variant: the group goes without its schedules.
DeleteGroupOnly(w) ==
    LET g == GroupOf(op[w].key) IN
    /\ op[w].do = "deleteGroup"
    /\ op' = [op EXCEPT ![w] =
                IF g = DefaultGroup \/ g \notin groups THEN Idle
                ELSE [@ EXCEPT !.do = "cascade"]]
    /\ UNCHANGED <<storeVars, key, groupOk, schedules, groups, made>>

\* DeleteScheduleGroup: groups.Has and the key list, read together here since
\* only the list is used afterwards.
DeleteScheduleGroup(w) ==
    LET g == GroupOf(op[w].key) IN
    /\ op[w].do = "deleteGroup"
    /\ op' = [op EXCEPT ![w] =
                IF g = DefaultGroup \/ g \notin groups THEN Idle
                ELSE [@ EXCEPT !.do = "cascade",
                               !.todo = {k \in Keys : GroupOf(k) = g /\ Exists(k)}]]
    /\ UNCHANGED <<storeVars, key, groupOk, schedules, groups, made>>

\* The cascade: Delete and Forget each listed key, then drop the group.
CascadeDelete(w) ==
    /\ op[w].do = "cascade"
    /\ \E k \in op[w].todo :
         /\ schedules' = [schedules EXCEPT ![k] = Absent]
         /\ op' = [op EXCEPT ![w].do = "forgetOne", ![w].key = k]
    /\ UNCHANGED <<storeVars, key, groupOk, groups, made>>

CascadeForget(w) ==
    /\ op[w].do = "forgetOne"
    /\ entries' = ForgetEntries(op[w].key)
    /\ op' = [op EXCEPT ![w].do = "cascade", ![w].todo = @ \ {op[w].key}]
    /\ UNCHANGED <<clock, callVars, lockVars, key, groupOk, schedules, groups, made>>

DropGroup(w) ==
    /\ op[w].do = "cascade"
    /\ op[w].todo = {}
    /\ groups' = groups \ {GroupOf(op[w].key)}
    /\ op' = [op EXCEPT ![w] = Idle]
    /\ UNCHANGED <<storeVars, key, groupOk, schedules, made>>

(***************************************************************************)
(* Overlap of operations on one key, recorded for the properties           *)
(***************************************************************************)

\* The keys a worker's operation in progress can touch.
Touches(w, k) ==
    /\ op[w].do # "idle"
    /\ \/ op[w].key = k
       \/ op[w].do \in {"deleteGroup", "cascade", "forgetOne"}
            /\ GroupOf(op[w].key) = GroupOf(k)

\* A create of k, or a second worker on k, runs during a worker's operation
\* on k.  Creates overlapping each other do not count.
Overlap(k) ==
    \E w \in Workers :
        /\ Touches(w, k)
        /\ \/ \E c \in Callers : pc[c] # "idle" /\ key[c] = k
           \/ \E v \in Workers \ {w} : Touches(v, k)

Step ==
    \/ \E c \in Callers :
         \/ \E ct \in ClientTokens \union {NoToken}, k \in Keys :
              CreateSchedule(c, ct, k)
         \/ StoreStep(c) \/ ReplaySchedule(c)
         \/ CheckGroup(c) \/ InsertSchedule(c) \/ InsertConflict(c)
    \/ \E w \in Workers :
         \/ \E k \in Keys, step \in {"delete", "update", "createGroup", "deleteGroup"} :
              Begin(w, step, k)
         \/ DeleteSchedule(w) \/ ForgetKey(w) \/ UpdateSchedule(w)
         \/ CreateScheduleGroup(w) \/ DeleteScheduleGroup(w)
         \/ CascadeDelete(w) \/ CascadeForget(w) \/ DropGroup(w)
    \/ Tick /\ UNCHANGED schedVars

Next == Step /\ raced' = raced \union {k \in Keys : Overlap(k)'}

Spec == Init /\ [][Next]_vars

(***************************************************************************)
(* Properties                                                              *)
(***************************************************************************)

Replaying(c) == pc[c] = "replay" /\ Exists(key[c])

\* "a same-name schedule created later by another request must not replay to
\* this token": what a replay returns was created under the caller's token.
\* DeleteSchedule's two steps and the gap between a create's insert and its
\* put let it fail (run scheduler_foreign_replay).
ReplaysOwnSchedule ==
    \A c \in Callers : Replaying(c) => schedules[key[c]].by = tok[c]

\* The same promise for keys on which deletes and updates never overlapped a
\* create: creates may race each other freely, deleted names may be reused by
\* other requests, tokens may expire, and a replay still returns the caller's.
SerialReplaysOwnSchedule ==
    \A c \in Callers :
        Replaying(c) /\ key[c] \notin raced => schedules[key[c]].by = tok[c]

\* "A retried create ... would otherwise get a spurious ConflictException":
\* within the window (by the clock), a create never conflicts with the schedule its own token
\* made, again for keys without overlapping deletes and updates.
SerialRetryNeverConflicts ==
    \A c \in Callers :
        /\ pc[c] = "create" /\ tok[c] # NoToken
        /\ key[c] \notin raced
        /\ Exists(key[c]) /\ schedules[key[c]].by = tok[c]
        => clock > schedules[key[c]].at + TTL

\* "removes a group and cascades to the schedules it contains": with no group
\* or schedule operation in flight, every stored schedule's group exists, for
\* keys whose creates did not overlap the group's deletion.  (An overlapping
\* create that passed the group check inserts after the cascade and is orphaned.)
SerialNoOrphanSchedule ==
    (\A w \in Workers : op[w].do = "idle")
    => \A k \in Keys \ raced :
         Exists(k) => GroupOf(k) \in groups \union {DefaultGroup}
=============================================================================
