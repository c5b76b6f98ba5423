-------------------------- MODULE SchedulerProofs --------------------------
(***************************************************************************)
(* Proofs about Scheduler, for every number of callers, workers, client    *)
(* tokens, groups and names, every positive TTL and every bound.           *)
(***************************************************************************)
EXTENDS Scheduler, IdempotencyStoreProofs

(***************************************************************************)
(* The steps, field by field                                               *)
(***************************************************************************)

\* Only worker w moves: to step d of an operation on k, with s read and T listed.
Becomes(w, d, k, s, T) ==
    /\ op'[w].do = d /\ op'[w].key = k /\ op'[w].seen = s /\ op'[w].todo = T
    /\ \A v \in Workers \ {w} : op'[v] = op[v]

\* Only worker w moves: its operation is over.
Rests(w) ==
    /\ op'[w] = Idle
    /\ \A v \in Workers \ {w} : op'[v] = op[v]

\* A worker starts an operation on k.
LEMMA BeginFacts ==
    ASSUME TypeOK, NEW w \in Workers, NEW k, NEW step, Begin(w, step, k)
    PROVE  Becomes(w, step, k, op[w].seen, op[w].todo)
<1>1. op'[w] = [op[w] EXCEPT !.do = step, !.key = k]
  BY DEF Begin, TypeOK
<1> QED
  BY <1>1 DEF Begin, TypeOK, Becomes

\* schedules.Delete took the record out, or found none.
LEMMA DeleteFacts ==
    ASSUME TypeOK, NEW w \in Workers, DeleteSchedule(w)
    PROVE  LET k == op[w].key IN
           \/ /\ Exists(k)
              /\ schedules' = [schedules EXCEPT ![k] = Absent]
              /\ Becomes(w, "forget", k, op[w].seen, op[w].todo)
           \/ /\ UNCHANGED schedules
              /\ Rests(w)
<1>1. CASE ~Exists(op[w].key)
  BY <1>1 DEF DeleteSchedule, Rests, TypeOK
<1>2. CASE Exists(op[w].key)
  <2>1. op'[w] = [op[w] EXCEPT !.do = "forget"]
    BY <1>2 DEF DeleteSchedule, TypeOK
  <2> QED
    BY <1>2, <2>1 DEF DeleteSchedule, TypeOK, Becomes
<1> QED
  BY <1>1, <1>2

\* After its Forget a delete is over.
LEMMA ForgetFacts ==
    ASSUME TypeOK, NEW w \in Workers, ForgetKey(w)
    PROVE  Rests(w)
BY DEF ForgetKey, Rests, TypeOK

\* An update read the record, found none, or wrote it back.
LEMMA UpdateFacts ==
    ASSUME TypeOK, NEW w \in Workers, UpdateSchedule(w)
    PROVE  LET k == op[w].key IN
           \/ /\ op[w].do = "update" /\ Exists(k)
              /\ UNCHANGED schedules
              /\ Becomes(w, "set", k, schedules[k], op[w].todo)
           \/ /\ op[w].do = "update"
              /\ UNCHANGED schedules
              /\ Rests(w)
           \/ /\ op[w].do = "set"
              /\ schedules' = [schedules EXCEPT ![k] = op[w].seen]
              /\ Rests(w)
<1>1. CASE op[w].do = "update" /\ Exists(op[w].key)
  <2>1. op'[w] = [op[w] EXCEPT !.do = "set", !.seen = schedules[op[w].key]]
    BY <1>1 DEF UpdateSchedule, TypeOK
  <2> QED
    BY <1>1, <2>1 DEF UpdateSchedule, TypeOK, Becomes
<1>2. CASE op[w].do = "update" /\ ~Exists(op[w].key)
  BY <1>2 DEF UpdateSchedule, Rests, TypeOK
<1>3. CASE op[w].do = "set"
  BY <1>3 DEF UpdateSchedule, Rests, TypeOK
<1> QED
  BY <1>1, <1>2, <1>3 DEF UpdateSchedule

\* A group is only ever added by CreateScheduleGroup.
LEMMA CreateGroupFacts ==
    ASSUME TypeOK, NEW w \in Workers, CreateScheduleGroup(w)
    PROVE  /\ op[w].do \in {"createGroup", "setGroup"}
           /\ groups \subseteq groups'
           /\ \/ Rests(w)
              \/ Becomes(w, "setGroup", op[w].key, op[w].seen, op[w].todo)
<1>1. op[w].do \in {"createGroup", "setGroup"} /\ groups \subseteq groups'
  BY DEF CreateScheduleGroup
<1>2. CASE op' = [op EXCEPT ![w] = Idle]
  BY <1>1, <1>2 DEF Rests, TypeOK
<1>3. CASE op' = [op EXCEPT ![w] = [op[w] EXCEPT !.do = "setGroup"]]
  <2>1. op'[w] = [op[w] EXCEPT !.do = "setGroup"]
    BY <1>3 DEF TypeOK
  <2> QED
    BY <1>1, <1>3, <2>1 DEF TypeOK, Becomes
<1> QED
  BY <1>2, <1>3 DEF CreateScheduleGroup

\* A cascade starts from the keys then stored in its group.
LEMMA DeleteGroupFacts ==
    ASSUME TypeOK, NEW w \in Workers, DeleteScheduleGroup(w)
    PROVE  LET k == op[w].key IN
           \/ Rests(w)
           \/ Becomes(w, "cascade", k, op[w].seen,
                      {j \in Keys : GroupOf(j) = GroupOf(k) /\ Exists(j)})
<1> DEFINE listed == {j \in Keys : GroupOf(j) = GroupOf(op[w].key) /\ Exists(j)}
<1>1. CASE op' = [op EXCEPT ![w] = Idle]
  BY <1>1 DEF Rests, TypeOK
<1>2. CASE op' = [op EXCEPT ![w] = [op[w] EXCEPT !.do = "cascade", !.todo = listed]]
  <2> HIDE DEF listed
  <2>1. op'[w] = [op[w] EXCEPT !.do = "cascade", !.todo = listed]
    BY <1>2 DEF TypeOK
  <2>2. Becomes(w, "cascade", op[w].key, op[w].seen, listed)
    BY <1>2, <2>1 DEF TypeOK, Becomes
  <2> QED
    BY <2>2 DEF listed
<1> QED
  BY <1>1, <1>2, Zenon DEF DeleteScheduleGroup

\* A cascade takes one listed schedule out.
LEMMA CascadeDeleteFacts ==
    ASSUME TypeOK, NEW w \in Workers, CascadeDelete(w)
    PROVE  \E k \in op[w].todo :
             /\ schedules' = [schedules EXCEPT ![k] = Absent]
             /\ Becomes(w, "forgetOne", k, op[w].seen, op[w].todo)
<1>1. PICK k \in op[w].todo :
        /\ schedules' = [schedules EXCEPT ![k] = Absent]
        /\ op' = [op EXCEPT ![w].do = "forgetOne", ![w].key = k]
  BY DEF CascadeDelete
<1>2. op'[w] = [op[w] EXCEPT !.do = "forgetOne", !.key = k]
  BY <1>1 DEF TypeOK
<1>3. Becomes(w, "forgetOne", k, op[w].seen, op[w].todo)
  BY <1>1, <1>2 DEF TypeOK, Becomes
<1> QED
  BY <1>1, <1>3

\* A cascade crosses off the key whose token it dropped.
LEMMA CascadeForgetFacts ==
    ASSUME TypeOK, NEW w \in Workers, CascadeForget(w)
    PROVE  Becomes(w, "cascade", op[w].key, op[w].seen, op[w].todo \ {op[w].key})
<1>1. op'[w] = [op[w] EXCEPT !.do = "cascade", !.todo = op[w].todo \ {op[w].key}]
  BY DEF CascadeForget, TypeOK
<1> QED
  BY <1>1 DEF CascadeForget, TypeOK, Becomes

\* A cascade ends when its group is dropped.
LEMMA DropFacts ==
    ASSUME TypeOK, NEW w \in Workers, DropGroup(w)
    PROVE  Rests(w)
BY DEF DropGroup, Rests, TypeOK

(***************************************************************************)
(* Types, and the lock table of the token store                            *)
(***************************************************************************)

\* What a worker is about to write back, it has read.
SeenStored == \A w \in Workers : op[w].do = "set" => op[w].seen.n # 0

BaseInv == TypeOK /\ StoreInv /\ SeenStored

\* A scoped token is a token of its key, or none.
LEMMA ScopedType ==
    ASSUME NEW ct \in ClientTokens \union {NoToken}, NEW k \in Keys
    PROVE  /\ Scoped(ct, k) \in Tokens \union {NoToken}
           /\ Scoped(ct, k) # NoToken => Scoped(ct, k)[2] = k
<1>1. CASE ct = NoToken
  BY <1>1 DEF Scoped
<1>2. CASE ct # NoToken
  BY <1>2, SchedulerAssumption DEF Scoped
<1> QED
  BY <1>1, <1>2

\* The value a worker that is doing nothing has.
LEMMA IdleType ==
    /\ Idle \in [do : WorkSteps, key : Keys, seen : Schedule, todo : SUBSET Keys]
    /\ Idle.do = "idle" /\ Idle.key \in Keys /\ Absent \in Schedule
    /\ Absent.n = 0 /\ Absent.by = NoToken
<1>1. Absent \in Schedule
  BY SchedulerAssumption, StoreAssumption DEF Absent, Schedule
<1>2. <<DefaultGroup, CHOOSE m \in Names : TRUE>> \in Keys
  BY SchedulerAssumption DEF Keys
<1> QED
  BY <1>1, <1>2 DEF Idle, WorkSteps, Absent

\* A caller whose call is over keeps no key.
LEMMA KeyAfterType ==
    ASSUME TypeOK, NEW c \in Callers, key' = KeyAfter(c)
    PROVE  /\ key' \in [Callers -> Keys]
           /\ \A d \in Callers \ {c} : key'[d] = key[d]
           /\ pc'[c] # "idle" => key' = key
BY IdleType DEF TypeOK, KeyAfter

\* A step that leaves the callers and the locks alone, and fills no entry
\* with an unknown id, keeps the lock table's invariant.
LEMMA EntriesStepInv ==
    ASSUME StoreInv, UNCHANGED <<clock, callVars, lockVars>>,
           entries' \in [Tokens -> [id : Ids \union {NoId}, expireAt : Int]]
    PROVE  StoreInv'
BY DEF StoreInv, StoreTypeOK, callVars, lockVars, UntrackedStaysOut, PointsToTable,
       HeldByHolder, TableInjective, TableUsed, RefsCount, Inside, Holding, Referrers

\* A step of the create and replay closures that keeps the caller's lock.
LEMMA ClosureStepInv ==
    ASSUME StoreInv, NEW c \in Callers, NEW s \in {"create", "put", "unlock"},
           pc[c] \in {"replay", "create"}, tok[c] # NoToken,
           Goto(c, s), UNCHANGED <<clock, tok, now, lk, lockVars, entries>>,
           got' \in [Callers -> Ids \union {NoId}]
    PROVE  StoreInv'
<1>1. StoreTypeOK'
  BY DEF StoreInv, StoreTypeOK, Goto, Steps, lockVars
<1> QED
  BY <1>1, LocalStepInv DEF Steps, Counted, Critical

\* A caller without a token returns straight from the create closure.
LEMMA UntrackedReturnInv ==
    ASSUME StoreInv, NEW c \in Callers, tok[c] = NoToken, Return(c),
           UNCHANGED <<clock, lockVars, entries>>
    PROVE  StoreInv'
<1> USE StoreAssumption
<1>1. StoreTypeOK'
  BY DEF Return, Goto, StoreInv, StoreTypeOK, Steps, lockVars
<1>2. UNCHANGED <<lk, lockVars>> /\ ~Inside(c)
  BY DEF Return, StoreInv, StoreTypeOK, PointsToTable, Inside, lockVars
<1>3. tok' = [tok EXCEPT ![c] = NoToken] /\ tok'[c] = NoToken /\ Goto(c, "idle")
  BY DEF Return, StoreInv, StoreTypeOK
<1> QED
  BY <1>1, <1>2, <1>3, LocalStepInv DEF Steps

\* How CreateSchedule ends, with a token or without.
LEMMA FinishInv ==
    ASSUME StoreInv, NEW c \in Callers, pc[c] = "create", Finish(c),
           UNCHANGED <<clock, lockVars, entries>>
    PROVE  StoreInv'
<1>1. CASE tok[c] # NoToken
  BY <1>1, ClosureStepInv DEF Finish, StoreInv, StoreTypeOK
<1>2. CASE tok[c] = NoToken
  BY <1>2, UntrackedReturnInv DEF Finish
<1> QED
  BY <1>1, <1>2

\* Forgetting an id only empties entries.
LEMMA ForgetType ==
    ASSUME StoreTypeOK, NEW i
    PROVE  ForgetEntries(i) \in [Tokens -> [id : Ids \union {NoId}, expireAt : Int]]
BY DEF StoreTypeOK, ForgetEntries, NoEntry

\* Everything starts empty.
LEMMA BaseInvInit == Init => BaseInv
<1> SUFFICES ASSUME Init PROVE BaseInv
  OBVIOUS
<1>1. StoreInv
  BY StoreInvInit DEF Init
<1>2. TypeOK
  BY <1>1, IdleType, SchedulerAssumption DEF Init, TypeOK, StoreInv
<1>3. SeenStored
  BY IdleType DEF Init, SeenStored
<1> QED
  BY <1>1, <1>2, <1>3 DEF BaseInv

\* The steps of a caller.
CallerStep(c) ==
    \/ \E ct \in ClientTokens \union {NoToken}, k \in Keys : CreateSchedule(c, ct, k)
    \/ StoreStep(c) \/ ReplaySchedule(c)
    \/ CheckGroup(c) \/ InsertSchedule(c) \/ InsertConflict(c)

\* The steps of a worker.
WorkerStep(w) ==
    \/ \E k \in Keys, step \in {"delete", "update", "createGroup", "deleteGroup"} :
         Begin(w, step, k)
    \/ DeleteSchedule(w) \/ ForgetKey(w) \/ UpdateSchedule(w)
    \/ CreateScheduleGroup(w) \/ DeleteScheduleGroup(w)
    \/ CascadeDelete(w) \/ CascadeForget(w) \/ DropGroup(w)

\* Each step is one caller's, one worker's or the clock's.
LEMMA StepCases ==
    Step => \/ \E c \in Callers : CallerStep(c)
            \/ \E w \in Workers : WorkerStep(w)
            \/ Tick /\ UNCHANGED schedVars
BY DEF Step, CallerStep, WorkerStep

\* The token store sees a caller's step as a step of its own, a closure's or
\* a return.
LEMMA CallerStoreInv ==
    ASSUME BaseInv, NEW c \in Callers, CallerStep(c)
    PROVE  StoreInv'
<1> USE StoreAssumption DEF BaseInv
<1>1. ASSUME NEW ct \in ClientTokens \union {NoToken}, NEW k \in Keys,
             CreateSchedule(c, ct, k)
      PROVE  StoreInv'
  BY <1>1, ScopedType, CallInv DEF CreateSchedule
<1>2. CASE StoreStep(c)
  BY <1>2, LockRefInv, LockAcquireInv, LookupInv, PutInv, UnlockInv, DerefInv
     DEF StoreStep
<1>3. CASE ReplaySchedule(c)
  <2>1. tok[c] # NoToken
    BY <1>3 DEF ReplaySchedule, StoreInv, UntrackedStaysOut
  <2> QED
    BY <1>3, <2>1, ClosureStepInv DEF ReplaySchedule, StoreInv, StoreTypeOK
<1>4. CASE CheckGroup(c)
  <2>1. CASE UNCHANGED callVars
    BY <1>4, <2>1, EntriesStepInv DEF CheckGroup, StoreInv, StoreTypeOK
  <2> QED
    BY <1>4, <2>1, FinishInv DEF CheckGroup
<1>5. CASE InsertSchedule(c)
  <2>1. CASE tok[c] # NoToken
    <3>1. got' \in [Callers -> Ids \union {NoId}]
      BY <1>5, <2>1, SchedulerAssumption DEF InsertSchedule, TypeOK, StoreTypeOK
    <3> QED
      BY <1>5, <2>1, <3>1, ClosureStepInv DEF InsertSchedule
  <2> QED
    BY <1>5, <2>1, UntrackedReturnInv DEF InsertSchedule
<1>6. CASE InsertConflict(c)
  BY <1>6, FinishInv DEF InsertConflict
<1> QED
  BY <1>1, <1>2, <1>3, <1>4, <1>5, <1>6 DEF CallerStep

\* A worker only empties entries.
LEMMA WorkerStoreInv ==
    ASSUME BaseInv, NEW w \in Workers, WorkerStep(w)
    PROVE  /\ UNCHANGED <<clock, callVars, lockVars, key, groupOk, made>>
           /\ StoreInv'
<1> USE DEF BaseInv
<1>1. /\ UNCHANGED <<clock, callVars, lockVars, key, groupOk, made>>
      /\ UNCHANGED entries \/ \E k : entries' = ForgetEntries(k)
  BY DEF WorkerStep, Begin, DeleteSchedule, ForgetKey, UpdateSchedule,
         CreateScheduleGroup, DeleteScheduleGroup, CascadeDelete, CascadeForget,
         DropGroup, storeVars
<1>2. entries' \in [Tokens -> [id : Ids \union {NoId}, expireAt : Int]]
  BY <1>1, ForgetType DEF StoreInv, StoreTypeOK
<1> QED
  BY <1>1, <1>2, EntriesStepInv

\* A caller's step leaves the workers, the groups and the other callers alone.
LEMMA CallerFrame ==
    ASSUME BaseInv, NEW c \in Callers, CallerStep(c)
    PROVE  /\ UNCHANGED <<clock, groups, op>>
           /\ \A d \in Callers \ {c} : UNCHANGED <<pc[d], tok[d], now[d], got[d],
                                                 key[d], groupOk[d]>>
<1> USE DEF BaseInv, TypeOK, StoreTypeOK, Goto, Return
<1>1. UNCHANGED <<clock, groups, op>>
  BY DEF CallerStep, CreateSchedule, Call, StoreStep, LockRef, LockAcquire, Lookup,
         Put, Unlock, Deref, ReplaySchedule, CheckGroup, InsertSchedule,
         InsertConflict, schedVars
<1>2. ASSUME NEW d \in Callers \ {c}
      PROVE  UNCHANGED <<pc[d], tok[d], now[d], got[d], key[d], groupOk[d]>>
  <2>1. ASSUME NEW ct, NEW k, CreateSchedule(c, ct, k)
        PROVE  UNCHANGED <<pc[d], tok[d], now[d], got[d], key[d], groupOk[d]>>
    BY <2>1 DEF CreateSchedule, Call
  <2>2. CASE StoreStep(c)
    BY <2>2, KeyAfterType DEF StoreStep, LockRef, LockAcquire, Lookup, Put, Unlock, Deref
  <2>3. CASE ReplaySchedule(c)
    BY <2>3 DEF ReplaySchedule, schedVars
  <2>4. ASSUME Finish(c) PROVE UNCHANGED <<pc[d], tok[d], now[d], got[d], key[d]>>
    BY <2>4, KeyAfterType DEF Finish
  <2>5. CASE CheckGroup(c)
    BY <2>4, <2>5 DEF CheckGroup, callVars
  <2>6. CASE InsertSchedule(c)
    BY <2>6, KeyAfterType DEF InsertSchedule
  <2>7. CASE InsertConflict(c)
    BY <2>4, <2>7 DEF InsertConflict
  <2> QED
    BY <2>1, <2>2, <2>3, <2>5, <2>6, <2>7 DEF CallerStep
<1> QED
  BY <1>1, <1>2

\* The schedule and group stores keep their types over a caller's step.
LEMMA CallerTypeOK ==
    ASSUME BaseInv, NEW c \in Callers, CallerStep(c),
           raced' = raced \union {k \in Keys : Overlap(k)'}
    PROVE  TypeOK'
<1> USE DEF BaseInv
<1>1. StoreTypeOK'
  BY CallerStoreInv DEF StoreInv
<1>2. raced' \subseteq Keys
  BY DEF TypeOK
<1>3. UNCHANGED <<groups, op>>
  BY DEF CallerStep, CreateSchedule, StoreStep, ReplaySchedule, CheckGroup,
         InsertSchedule, InsertConflict, schedVars
<1>4. key' \in [Callers -> Keys]
  <2>1. CASE key' = KeyAfter(c)
    BY <2>1, KeyAfterType
  <2>2. CASE UNCHANGED key
    BY <2>2 DEF TypeOK
  <2>3. ASSUME NEW ct, NEW k \in Keys, CreateSchedule(c, ct, k)
        PROVE  key' \in [Callers -> Keys]
    BY <2>3 DEF CreateSchedule, TypeOK
  <2> QED
    BY <2>1, <2>2, <2>3 DEF CallerStep, StoreStep, ReplaySchedule, CheckGroup,
                            InsertSchedule, InsertConflict, Finish, schedVars
<1>5. groupOk' \in [Callers -> BOOLEAN]
  BY DEF CallerStep, CreateSchedule, StoreStep, ReplaySchedule, CheckGroup,
         InsertSchedule, InsertConflict, schedVars, TypeOK
<1>6. schedules' \in [Keys -> Schedule] /\ made' \in 0..MaxMade
  <2>1. CASE InsertSchedule(c)
    <3>1. made + 1 \in 0..MaxMade /\ key[c] \in Keys
      BY <2>1, SchedulerAssumption DEF InsertSchedule, TypeOK
    <3>2. [n |-> made + 1, by |-> tok[c], at |-> now[c]] \in Schedule
      BY <3>1 DEF Schedule, TypeOK, StoreTypeOK
    <3> QED
      BY <2>1, <3>1, <3>2 DEF InsertSchedule, TypeOK
  <2>2. CASE UNCHANGED <<schedules, made>>
    BY <2>2 DEF TypeOK
  <2> QED
    BY <2>1, <2>2 DEF CallerStep, CreateSchedule, StoreStep, ReplaySchedule,
                      CheckGroup, InsertConflict, schedVars
<1> QED
  BY <1>1, <1>2, <1>3, <1>4, <1>5, <1>6 DEF TypeOK

\* ... and over a worker's.
LEMMA WorkerTypeOK ==
    ASSUME BaseInv, NEW w \in Workers, WorkerStep(w),
           raced' = raced \union {k \in Keys : Overlap(k)'}
    PROVE  TypeOK'
<1> USE DEF BaseInv
<1>1. StoreTypeOK' /\ UNCHANGED <<key, groupOk, made>>
  BY WorkerStoreInv DEF StoreInv
<1>2. raced' \subseteq Keys
  BY DEF TypeOK
<1>3. /\ op[w] \in [do : WorkSteps, key : Keys, seen : Schedule, todo : SUBSET Keys]
      /\ schedules[op[w].key] \in Schedule
  BY DEF TypeOK
<1>4. /\ op' \in [Workers -> [do : WorkSteps, key : Keys, seen : Schedule,
                              todo : SUBSET Keys]]
      /\ schedules' \in [Keys -> Schedule]
      /\ groups' \subseteq Groups
  <2> DEFINE Stores == /\ op' \in [Workers -> [do : WorkSteps, key : Keys,
                                               seen : Schedule, todo : SUBSET Keys]]
                       /\ schedules' \in [Keys -> Schedule]
                       /\ groups' \subseteq Groups
  <2> DEFINE Work == [do : WorkSteps, key : Keys, seen : Schedule, todo : SUBSET Keys]
  <2> USE <1>3, IdleType
  <2>1. ASSUME NEW k \in Keys,
               NEW step \in {"delete", "update", "createGroup", "deleteGroup"},
               Begin(w, step, k)
        PROVE  Stores
    BY <2>1 DEF Begin, TypeOK, WorkSteps
  <2>2. CASE DeleteSchedule(w)
    <3> DEFINE gone == [op[w] EXCEPT !.do = "forget"]
    <3>1. gone \in Work
      BY DEF WorkSteps
    <3>2. op' = [op EXCEPT ![w] = gone] \/ op' = [op EXCEPT ![w] = Idle]
      BY <2>2, Zenon DEF DeleteSchedule
    <3>3. op' \in [Workers -> Work]
      BY <3>1, <3>2 DEF TypeOK
    <3>4. /\ schedules' = [schedules EXCEPT ![op[w].key] = Absent] \/ UNCHANGED schedules
          /\ UNCHANGED groups
      BY <2>2, Zenon DEF DeleteSchedule
    <3> QED
      BY <3>3, <3>4 DEF TypeOK
  <2>3. CASE ForgetKey(w)
    BY <2>3 DEF ForgetKey, TypeOK
  <2>4. CASE UpdateSchedule(w)
    <3>1. CASE op[w].do = "set"
      BY <2>4, <3>1 DEF UpdateSchedule, TypeOK
    <3>2. CASE op[w].do = "update"
      <4>1. [op[w] EXCEPT !.do = "set", !.seen = schedules[op[w].key]] \in Work
        BY DEF WorkSteps
      <4> QED
        BY <2>4, <3>2, <4>1 DEF UpdateSchedule, TypeOK
    <3> QED
      BY <2>4, <3>1, <3>2 DEF UpdateSchedule
  <2>5. CASE CreateScheduleGroup(w)
    <3>1. [op[w] EXCEPT !.do = "setGroup"] \in Work /\ GroupOf(op[w].key) \in Groups
      BY DEF WorkSteps, GroupOf, Keys
    <3> QED
      BY <2>5, <3>1 DEF CreateScheduleGroup, TypeOK
  <2>6. CASE DeleteScheduleGroup(w)
    <3> DEFINE listed == {k \in Keys : GroupOf(k) = GroupOf(op[w].key) /\ Exists(k)}
    <3>1. [op[w] EXCEPT !.do = "cascade", !.todo = listed] \in Work
      BY DEF WorkSteps
    <3> QED
      BY <2>6, <3>1 DEF DeleteScheduleGroup, TypeOK
  <2>7. CASE CascadeDelete(w)
    <3>1. PICK k \in op[w].todo :
            /\ schedules' = [schedules EXCEPT ![k] = Absent]
            /\ op' = [op EXCEPT ![w].do = "forgetOne", ![w].key = k]
      BY <2>7 DEF CascadeDelete
    <3>2. [op[w] EXCEPT !.do = "forgetOne", !.key = k] \in Work
      BY DEF WorkSteps
    <3> QED
      BY <2>7, <3>1, <3>2 DEF CascadeDelete, TypeOK
  <2>8. CASE CascadeForget(w)
    BY <2>8 DEF CascadeForget, TypeOK, WorkSteps
  <2>9. CASE DropGroup(w)
    BY <2>9 DEF DropGroup, TypeOK
  <2> QED
    BY <2>1, <2>2, <2>3, <2>4, <2>5, <2>6, <2>7, <2>8, <2>9 DEF WorkerStep
<1> QED
  BY <1>1, <1>2, <1>4 DEF TypeOK

\* A worker reads the record it goes on with while it is stored.
LEMMA WorkerSeen ==
    ASSUME BaseInv, NEW w \in Workers, WorkerStep(w)
    PROVE  SeenStored'
<1> SUFFICES ASSUME NEW v \in Workers, op'[v].do = "set"
             PROVE  op'[v].seen.n # 0
  BY DEF SeenStored
<1>1. TypeOK /\ (op[v].do = "set" => op[v].seen.n # 0)
  BY DEF BaseInv, SeenStored
<1>2. ASSUME Rests(w) PROVE op'[v].seen.n # 0
  BY <1>1, <1>2, IdleType DEF Rests
<1>3. ASSUME NEW d \in WorkSteps \ {"set"}, NEW k, NEW x, NEW T,
             Becomes(w, d, k, x, T)
      PROVE  op'[v].seen.n # 0
  BY <1>1, <1>3 DEF Becomes
<1>4. ASSUME NEW d, NEW k, NEW T, Exists(k), Becomes(w, d, k, schedules[k], T)
      PROVE  op'[v].seen.n # 0
  BY <1>1, <1>4 DEF Becomes, Exists
<1>5. ASSUME NEW k \in Keys,
             NEW step \in {"delete", "update", "createGroup", "deleteGroup"},
             Begin(w, step, k)
      PROVE  op'[v].seen.n # 0
  BY <1>1, <1>3, <1>5, BeginFacts DEF WorkSteps
<1>6. CASE DeleteSchedule(w)
  BY <1>1, <1>2, <1>3, <1>6, DeleteFacts DEF WorkSteps
<1>7. CASE UpdateSchedule(w)
  BY <1>1, <1>2, <1>4, <1>7, UpdateFacts
<1>8. CASE CreateScheduleGroup(w)
  BY <1>1, <1>2, <1>3, <1>8, CreateGroupFacts DEF WorkSteps
<1>9. CASE DeleteScheduleGroup(w)
  BY <1>1, <1>2, <1>3, <1>9, DeleteGroupFacts DEF WorkSteps
<1>10. CASE CascadeDelete(w)
  BY <1>1, <1>3, <1>10, CascadeDeleteFacts DEF WorkSteps
<1>11. CASE CascadeForget(w)
  BY <1>1, <1>3, <1>11, CascadeForgetFacts DEF WorkSteps
<1>12. CASE ForgetKey(w) \/ DropGroup(w)
  BY <1>1, <1>2, <1>12, ForgetFacts, DropFacts
<1> QED
  BY <1>5, <1>6, <1>7, <1>8, <1>9, <1>10, <1>11, <1>12 DEF WorkerStep

\* The base invariant holds throughout.
LEMMA BaseInvNext == BaseInv /\ [Next]_vars => BaseInv'
<1> SUFFICES ASSUME BaseInv, [Next]_vars PROVE BaseInv'
  OBVIOUS
<1>1. CASE Next
  <2>1. ASSUME NEW c \in Callers, CallerStep(c) PROVE BaseInv'
    BY <1>1, <2>1, CallerStoreInv, CallerTypeOK, CallerFrame DEF Next, BaseInv, SeenStored
  <2>2. ASSUME NEW w \in Workers, WorkerStep(w) PROVE BaseInv'
    BY <1>1, <2>2, WorkerStoreInv, WorkerTypeOK, WorkerSeen DEF Next, BaseInv
  <2>3. CASE Tick /\ UNCHANGED schedVars
    BY <1>1, <2>3, TickInv DEF Next, BaseInv, TypeOK, StoreInv, SeenStored, schedVars
  <2> QED
    BY <1>1, <2>1, <2>2, <2>3, StepCases DEF Next
<1>2. CASE UNCHANGED vars
  <2>1. StoreInv'
    BY <1>2, EntriesStepInv DEF BaseInv, StoreInv, StoreTypeOK, vars, storeVars
  <2> QED
    BY <1>2, <2>1 DEF BaseInv, TypeOK, StoreInv, SeenStored, vars, schedVars
<1> QED
  BY <1>1, <1>2

\* The base invariant holds in every reachable state.
LEMMA BaseInvAlways == Spec => []BaseInv
BY BaseInvInit, BaseInvNext, PTL DEF Spec

\* Every record, group and operation in progress has the declared shape, and
\* the token store's lock counts never go below zero.
THEOREM TypeCorrect == Spec => []TypeOK
BY BaseInvAlways, PTL DEF BaseInv


(***************************************************************************)
(* What the callers, the entries and the records have in order, raced or   *)
(* not                                                                     *)
(***************************************************************************)

\* A caller's token and the id it mints are those of the key it asks for.
CallersOwn ==
    \A c \in Callers :
        /\ tok[c] # NoToken => tok[c][2] = key[c]
        /\ pc[c] = "put" => got[c] = key[c]
        /\ groupOk[c] => pc[c] = "create"
        /\ now[c] <= clock

\* A token's entry names the token's own key.
EntriesScoped == \A t \in Tokens : entries[t].id \in {NoId, t[2]}

\* A cascade stays in its group.
CascadesScoped ==
    \A w \in Workers :
        op[w].do \in {"cascade", "forgetOne"} =>
            \A k \in op[w].todo : GroupOf(k) = GroupOf(op[w].key)

\* Where nothing is stored, nobody's token stands.
AbsentBlank == \A k \in Keys : schedules[k].n = 0 => schedules[k].by = NoToken

\* Overlaps are on record.
RacedSeen == \A k \in Keys : Overlap(k) => k \in raced

OwnInv == BaseInv /\ CallersOwn /\ EntriesScoped /\ CascadesScoped /\ AbsentBlank /\ RacedSeen

\* Nothing is stored and nobody works.
LEMMA OwnInvInit == Init => OwnInv
<1> SUFFICES ASSUME Init PROVE OwnInv
  OBVIOUS
<1> USE IdleType DEF Init, StoreInit
<1>1. BaseInv
  BY BaseInvInit
<1>2. CallersOwn /\ EntriesScoped /\ CascadesScoped
  BY DEF CallersOwn, EntriesScoped, CascadesScoped, NoEntry
<1>3. AbsentBlank
  BY DEF AbsentBlank
<1>4. RacedSeen
  BY DEF RacedSeen, Overlap, Touches
<1> QED
  BY <1>1, <1>2, <1>3, <1>4 DEF OwnInv

\* CallersOwn over a caller's own step.
LEMMA CallersOwnNext ==
    ASSUME OwnInv, NEW c \in Callers, CallerStep(c)
    PROVE  CallersOwn'
<1> USE DEF OwnInv, BaseInv, TypeOK, StoreTypeOK, Goto, Return
<1>1. ASSUME NEW d \in Callers \ {c}
      PROVE  UNCHANGED <<pc[d], tok[d], now[d], got[d], key[d], groupOk[d], clock>>
  BY CallerFrame
<1> DEFINE Own(d) == /\ tok[d] # NoToken => tok[d][2] = key[d]
                     /\ pc[d] = "put" => got[d] = key[d]
                     /\ groupOk[d] => pc[d] = "create"
                     /\ now[d] <= clock
<1>2. Own(c)
  BY DEF CallersOwn
<1>3. Own(c)'
  <2> USE <1>2
  <2>1. ASSUME NEW ct \in ClientTokens \union {NoToken}, NEW k \in Keys,
               CreateSchedule(c, ct, k)
        PROVE  Own(c)'
    <3>1. tok'[c] = Scoped(ct, k) /\ key'[c] = k
      BY <2>1 DEF CreateSchedule, Call
    <3>2. pc'[c] # "put" /\ ~groupOk'[c] /\ now'[c] = clock /\ clock' = clock
      BY <2>1 DEF CreateSchedule, Call
    <3>3. tok'[c] # NoToken => tok'[c][2] = key'[c]
      BY <3>1, ScopedType
    <3>4. now'[c] <= clock'
      BY <3>2
    <3> QED
      BY <3>2, <3>3, <3>4
  <2>2. CASE StoreStep(c)
    BY <2>2, KeyAfterType DEF StoreStep, LockRef, LockAcquire, Lookup, Put, Unlock, Deref
  <2>3. CASE ReplaySchedule(c)
    BY <2>3 DEF ReplaySchedule, schedVars
  <2>4. ASSUME Finish(c), UNCHANGED clock, pc[c] = "create"
        PROVE  /\ tok'[c] # NoToken => tok'[c][2] = key'[c]
               /\ pc'[c] \in {"idle", "unlock"}
               /\ now'[c] <= clock'
    BY <2>4, KeyAfterType DEF Finish
  <2>5. CASE CheckGroup(c)
    BY <2>4, <2>5 DEF CheckGroup, callVars
  <2>6. CASE InsertSchedule(c)
    BY <2>6, KeyAfterType DEF InsertSchedule
  <2>7. CASE InsertConflict(c)
    BY <2>4, <2>7 DEF InsertConflict
  <2> QED
    BY <2>1, <2>2, <2>3, <2>5, <2>6, <2>7 DEF CallerStep
<1> QED
  BY <1>1, <1>3 DEF CallersOwn

\* EntriesScoped: lookup and forget only empty entries, put writes the key.
LEMMA EntriesScopedNext ==
    ASSUME OwnInv, NEW c \in Callers, CallerStep(c)
    PROVE  EntriesScoped'
<1> USE DEF OwnInv, BaseInv, TypeOK, StoreTypeOK
<1>1. CASE Lookup(c)
  BY <1>1 DEF Lookup, EntriesScoped, NoEntry
<1>2. CASE Put(c)
  <2>1. tok[c] # NoToken /\ tok[c][2] = key[c] /\ got[c] = key[c]
    BY <1>2 DEF Put, StoreInv, UntrackedStaysOut, CallersOwn
  <2> QED
    BY <1>2, <2>1 DEF Put, PutEntries, EntriesScoped, NoEntry
<1>3. CASE UNCHANGED entries
  BY <1>3 DEF EntriesScoped
<1> QED
  BY <1>1, <1>2, <1>3 DEF CallerStep, CreateSchedule, Call, StoreStep, LockRef,
     LockAcquire, Unlock, Deref, ReplaySchedule, CheckGroup, InsertSchedule, InsertConflict

\* AbsentBlank over a caller's step: an insert stores a numbered record.
LEMMA CallerBlank ==
    ASSUME OwnInv, NEW c \in Callers, CallerStep(c)
    PROVE  AbsentBlank'
<1> USE DEF OwnInv, BaseInv, TypeOK
<1>1. CASE UNCHANGED schedules
  BY <1>1 DEF AbsentBlank
<1>2. CASE InsertSchedule(c)
  <2>1. /\ made + 1 # 0
        /\ schedules' = [schedules EXCEPT ![key[c]] =
                           [n |-> made + 1, by |-> tok[c], at |-> now[c]]]
    BY <1>2, SchedulerAssumption DEF InsertSchedule
  <2> QED
    BY <2>1 DEF AbsentBlank
<1> QED
  BY <1>1, <1>2 DEF CallerStep, CreateSchedule, StoreStep, ReplaySchedule, CheckGroup,
                    InsertConflict, schedVars

\* What a worker's step does to the schedules and to its own operation.
LEMMA WorkerChanges ==
    ASSUME OwnInv, NEW w \in Workers, WorkerStep(w)
    PROVE  /\ \A v \in Workers \ {w} : op'[v] = op[v]
           /\ \A k \in Keys :
                \/ schedules'[k] \in {schedules[k], Absent}
                \/ op[w].do = "set" /\ op[w].key = k /\ schedules'[k] = op[w].seen
           /\ op'[w].do = "set" =>
                op'[w].key \in Keys /\ op'[w].seen = schedules[op'[w].key]
           /\ op'[w].do \in {"cascade", "forgetOne"} =>
                \A k \in op'[w].todo : GroupOf(k) = GroupOf(op'[w].key)
<1> DEFINE Goal == /\ \A v \in Workers \ {w} : op'[v] = op[v]
                   /\ \A k \in Keys :
                        \/ schedules'[k] \in {schedules[k], Absent}
                        \/ op[w].do = "set" /\ op[w].key = k /\ schedules'[k] = op[w].seen
                   /\ op'[w].do = "set" =>
                        op'[w].key \in Keys /\ op'[w].seen = schedules[op'[w].key]
                   /\ op'[w].do \in {"cascade", "forgetOne"} =>
                        \A k \in op'[w].todo : GroupOf(k) = GroupOf(op'[w].key)
<1>0. TypeOK /\ CascadesScoped /\ op[w].key \in Keys /\ op[w].todo \subseteq Keys
      /\ Idle.do = "idle"
  BY IdleType DEF TypeOK, OwnInv, BaseInv
<1>1. ASSUME NEW k \in Keys,
             NEW step \in {"delete", "update", "createGroup", "deleteGroup"},
             Begin(w, step, k)
      PROVE  Goal
  <2>1. Becomes(w, step, k, op[w].seen, op[w].todo) /\ UNCHANGED schedules
    BY <1>0, <1>1, BeginFacts DEF Begin
  <2> QED
    BY <1>0, <2>1 DEF Becomes
<1>2. ASSUME DeleteSchedule(w) PROVE Goal
  <2>1. ASSUME schedules' = [schedules EXCEPT ![op[w].key] = Absent],
               Becomes(w, "forget", op[w].key, op[w].seen, op[w].todo)
        PROVE  Goal
    BY <1>0, <2>1 DEF Becomes, TypeOK
  <2>2. ASSUME UNCHANGED schedules, Rests(w) PROVE Goal
    BY <1>0, <2>2 DEF Rests
  <2> QED
    BY <1>0, <1>2, <2>1, <2>2, DeleteFacts
<1>3. ASSUME ForgetKey(w) PROVE Goal
  <2>1. Rests(w) /\ UNCHANGED schedules
    BY <1>0, <1>3, ForgetFacts DEF ForgetKey
  <2> QED
    BY <1>0, <2>1 DEF Rests
<1>4. ASSUME UpdateSchedule(w) PROVE Goal
  BY <1>0, <1>4, UpdateFacts DEF Becomes, Rests, TypeOK
<1>5. ASSUME CreateScheduleGroup(w) PROVE Goal
  <2>1. UNCHANGED schedules
    BY <1>5 DEF CreateScheduleGroup
  <2> QED
    BY <1>0, <1>5, <2>1, CreateGroupFacts DEF Becomes, Rests
<1>6. ASSUME DeleteScheduleGroup(w) PROVE Goal
  BY <1>0, <1>6, DeleteGroupFacts DEF DeleteScheduleGroup, Becomes, Rests
<1>7. ASSUME CascadeDelete(w) PROVE Goal
  <2>1. PICK k \in op[w].todo :
          /\ schedules' = [schedules EXCEPT ![k] = Absent]
          /\ Becomes(w, "forgetOne", k, op[w].seen, op[w].todo)
    BY <1>0, <1>7, CascadeDeleteFacts
  <2>2. \A j \in op[w].todo : GroupOf(j) = GroupOf(k)
    BY <1>0, <1>7 DEF CascadeDelete, CascadesScoped
  <2> QED
    BY <1>0, <2>1, <2>2 DEF Becomes, TypeOK
<1>8. ASSUME CascadeForget(w) PROVE Goal
  <2>1. /\ Becomes(w, "cascade", op[w].key, op[w].seen, op[w].todo \ {op[w].key})
        /\ UNCHANGED schedules
    BY <1>0, <1>8, CascadeForgetFacts DEF CascadeForget
  <2>2. \A j \in op[w].todo : GroupOf(j) = GroupOf(op[w].key)
    BY <1>0, <1>8 DEF CascadeForget, CascadesScoped
  <2> QED
    BY <1>0, <2>1, <2>2 DEF Becomes
<1>9. ASSUME DropGroup(w) PROVE Goal
  <2>1. Rests(w) /\ UNCHANGED schedules
    BY <1>0, <1>9, DropFacts DEF DropGroup
  <2> QED
    BY <1>0, <2>1 DEF Rests
<1>10. Goal
  BY <1>1, <1>2, <1>3, <1>4, <1>5, <1>6, <1>7, <1>8, <1>9 DEF WorkerStep
<1> QED
  BY <1>10

\* CascadesScoped, EntriesScoped, CallersOwn and AbsentBlank over a worker's step.
LEMMA WorkerOwn ==
    ASSUME OwnInv, TypeOK', NEW w \in Workers, WorkerStep(w)
    PROVE  CallersOwn' /\ EntriesScoped' /\ CascadesScoped' /\ AbsentBlank'
<1> USE DEF OwnInv, BaseInv
<1>1. UNCHANGED <<clock, callVars, lockVars, key, groupOk, made>>
  BY WorkerStoreInv
<1>2. CallersOwn'
  BY <1>1 DEF CallersOwn, callVars
<1>3. EntriesScoped'
  <2>1. UNCHANGED entries \/ \E k : entries' = ForgetEntries(k)
    BY DEF WorkerStep, Begin, DeleteSchedule, ForgetKey, UpdateSchedule,
           CreateScheduleGroup, DeleteScheduleGroup, CascadeDelete, CascadeForget,
           DropGroup, storeVars
  <2> QED
    BY <2>1 DEF ForgetEntries, EntriesScoped, NoEntry
<1>4. CascadesScoped'
  BY WorkerChanges DEF CascadesScoped
<1>5. AbsentBlank'
  BY WorkerChanges, IdleType DEF AbsentBlank, SeenStored
<1> QED
  BY <1>2, <1>3, <1>4, <1>5

\* OwnInv over every step.
LEMMA OwnInvNext == OwnInv /\ [Next]_vars => OwnInv'
<1> SUFFICES ASSUME OwnInv, [Next]_vars PROVE OwnInv'
  OBVIOUS
<1>1. BaseInv' /\ TypeOK'
  BY BaseInvNext DEF OwnInv, BaseInv
<1>2. CASE Next
  <2>1. RacedSeen'
    BY <1>2 DEF Next, RacedSeen
  <2>2. ASSUME NEW c \in Callers, CallerStep(c)
        PROVE  CallersOwn' /\ EntriesScoped' /\ CascadesScoped' /\ AbsentBlank'
    <3>1. CascadesScoped'
      BY <2>2, CallerFrame DEF OwnInv, CascadesScoped
    <3> QED
      BY <2>2, <3>1, CallersOwnNext, EntriesScopedNext, CallerBlank
  <2>3. ASSUME NEW w \in Workers, WorkerStep(w)
        PROVE  CallersOwn' /\ EntriesScoped' /\ CascadesScoped' /\ AbsentBlank'
    BY <1>1, <2>3, WorkerOwn
  <2>4. ASSUME Tick, UNCHANGED schedVars
        PROVE  CallersOwn' /\ EntriesScoped' /\ CascadesScoped' /\ AbsentBlank'
    <3>1. CallersOwn'
      BY <2>4 DEF OwnInv, BaseInv, TypeOK, StoreTypeOK, CallersOwn, Tick, callVars, schedVars
    <3> QED
      BY <2>4, <3>1 DEF OwnInv, EntriesScoped, CascadesScoped, AbsentBlank, Tick,
                        schedVars
  <2> QED
    BY <1>1, <1>2, <2>1, <2>2, <2>3, <2>4, StepCases DEF Next, OwnInv
<1>3. CASE UNCHANGED vars
  BY <1>1, <1>3 DEF OwnInv, CallersOwn, EntriesScoped, CascadesScoped, AbsentBlank,
                    RacedSeen, Overlap, Touches, vars, storeVars, schedVars, callVars
<1> QED
  BY <1>2, <1>3

(***************************************************************************)
(* A key on which nothing has overlapped                                   *)
(***************************************************************************)

GroupThere(k) == GroupOf(k) \in groups \union {DefaultGroup}

\* The worker has removed schedule k and not yet its token.
Forgetting(w, k) == op[w].do \in {"forget", "forgetOne"} /\ op[w].key = k

\* The stored schedule is in a group and carries a token of its own key.
StoredSound(k) ==
    /\ Exists(k) => GroupThere(k)
    /\ schedules[k].by # NoToken => schedules[k].by[2] = k

\* Only the token that made the schedule has an entry, until a deletion is
\* about to drop it.
EntriesSound(k) ==
    \A t \in Tokens :
        t[2] = k /\ entries[t].id # NoId =>
            schedules[k].by = t \/ \E w \in Workers : Forgetting(w, k)

\* The schedule's token has its entry, or its window is over, or its maker is
\* about to put the entry.
Guarded(k) ==
    schedules[k].by # NoToken =>
        \/ clock > schedules[k].at + TTL
        \/ entries[schedules[k].by] = [id |-> k, expireAt |-> schedules[k].at + TTL]
        \/ \E c \in Callers : pc[c] = "put" /\ tok[c] = schedules[k].by

\* What a caller asking for k relies on.
CallerSound(c, k) ==
    /\ groupOk[c] => GroupThere(k)
    /\ pc[c] = "put" => /\ Exists(k)
                        /\ schedules[k].by = tok[c]
                        /\ schedules[k].at = now[c]
    /\ pc[c] = "replay" => schedules[k].by = tok[c]
    /\ pc[c] = "create" /\ tok[c] # NoToken /\ schedules[k].by = tok[c] =>
         clock > schedules[k].at + TTL

\* What a worker in the middle of an operation on k relies on.
WorkerSound(w, k) ==
    /\ op[w].do = "set" /\ op[w].key = k => op[w].seen = schedules[k]
    /\ Forgetting(w, k) => ~Exists(k)
    /\ /\ op[w].do \in {"cascade", "forgetOne"}
       /\ GroupOf(op[w].key) = GroupOf(k)
       /\ Exists(k)
       => k \in op[w].todo

Serial(k) ==
    /\ StoredSound(k)
    /\ EntriesSound(k)
    /\ Guarded(k)
    /\ \A c \in Callers : key[c] = k => CallerSound(c, k)
    /\ \A w \in Workers : WorkerSound(w, k)

SerialInv == OwnInv /\ \A k \in Keys \ raced : Serial(k)

\* A worker that does not touch k asks nothing of it.
LEMMA Untouched ==
    ASSUME NEW w, NEW k, ~Touches(w, k)
    PROVE  WorkerSound(w, k) /\ ~Forgetting(w, k)
BY DEF Touches, WorkerSound, Forgetting

\* Next to a worker on k there is no caller of k and no other worker on k.
LEMMA Alone ==
    ASSUME OwnInv, NEW k \in Keys, k \notin raced, NEW w \in Workers, Touches(w, k)
    PROVE  /\ \A c \in Callers : key[c] = k => pc[c] = "idle"
           /\ \A v \in Workers \ {w} : ~Touches(v, k)
BY DEF OwnInv, RacedSeen, Overlap

\* A step that leaves k's schedule and its tokens' entries alone, drops no
\* group k needs and changes the callers of k only in what CallerSound says.
LEMMA CallerQuiet ==
    ASSUME OwnInv, OwnInv', NEW k \in Keys, Serial(k),
           NEW c \in Callers, CallerStep(c),
           schedules'[k] = schedules[k], UNCHANGED entries,
           pc[c] # "put", key'[c] = k => CallerSound(c, k)'
    PROVE  Serial(k)'
<1> USE DEF Serial
<1>1. UNCHANGED <<clock, groups, op>>
  BY CallerFrame DEF OwnInv
<1>2. ASSUME NEW d \in Callers \ {c}
      PROVE  UNCHANGED <<pc[d], tok[d], now[d], got[d], key[d], groupOk[d]>>
  BY CallerFrame DEF OwnInv
<1>3. StoredSound(k)' /\ EntriesSound(k)'
  BY <1>1 DEF StoredSound, EntriesSound, Exists, GroupThere, Forgetting
<1>4. Guarded(k)'
  BY <1>1, <1>2 DEF Guarded
<1>5. ASSUME NEW d \in Callers, key'[d] = k PROVE CallerSound(d, k)'
  <2>1. CASE d # c
    BY <1>1, <1>2, <1>5, <2>1 DEF CallerSound, GroupThere, Exists
  <2> QED
    BY <1>5, <2>1
<1>6. ASSUME NEW w \in Workers PROVE WorkerSound(w, k)'
  BY <1>1 DEF WorkerSound, Exists, Forgetting
<1> QED
  BY <1>3, <1>4, <1>5, <1>6

\* No worker is near the key a caller in Do asks for.
LEMMA NoWorkerNear ==
    ASSUME OwnInv, NEW c \in Callers, pc[c] # "idle", key[c] \notin raced
    PROVE  \A w \in Workers : ~Touches(w, key[c])
<1>1. key[c] \in Keys
  BY DEF OwnInv, BaseInv, TypeOK
<1> QED
  BY <1>1, Alone

\* An insert of k: the new schedule carries its maker's token and time, and
\* the maker goes on to put.
LEMMA InsertSerial ==
    ASSUME OwnInv, OwnInv', NEW c \in Callers, InsertSchedule(c),
           NEW k \in Keys, key[c] = k, k \notin raced, Serial(k)
    PROVE  Serial(k)'
<1> DEFINE r == [n |-> made + 1, by |-> tok[c], at |-> now[c]]
<1> USE DEF OwnInv, BaseInv, TypeOK, StoreTypeOK
<1>1. /\ made \in Nat /\ tok[c] \in Tokens \union {NoToken}
      /\ pc[c] = "create" /\ groupOk[c] /\ ~Exists(k)
      /\ schedules'[k] = r
  BY SchedulerAssumption DEF InsertSchedule
<1>2. /\ UNCHANGED <<clock, groups, op, entries>>
      /\ \A d \in Callers \ {c} : UNCHANGED <<pc[d], tok[d], now[d], got[d],
                                              key[d], groupOk[d]>>
  <2>1. CallerStep(c) /\ UNCHANGED entries
    BY DEF CallerStep, InsertSchedule
  <2> QED
    BY <2>1, CallerFrame
<1>3. /\ tok[c] # NoToken => pc'[c] = "put" /\ UNCHANGED <<tok, now>>
      /\ tok[c] = NoToken => pc'[c] = "idle"
      /\ ~groupOk'[c]
  BY DEF InsertSchedule, Goto, Return
<1>4. \A w \in Workers : ~Touches(w, k)
  BY <1>1, NoWorkerNear
<1>5. schedules[k].by = NoToken
  BY <1>1 DEF AbsentBlank, Exists
<1>6. StoredSound(k)'
  <2>1. GroupThere(k)
    BY <1>1 DEF Serial, CallerSound
  <2>2. tok[c] # NoToken => tok[c][2] = k
    BY DEF CallersOwn
  <2> QED
    BY <1>1, <1>2, <2>1, <2>2 DEF StoredSound, GroupThere
<1>7. EntriesSound(k)'
  <2>1. \A t \in Tokens : t[2] = k => entries[t].id = NoId
    BY <1>4, <1>5, Untouched, StoreAssumption DEF Serial, EntriesSound
  <2> QED
    BY <1>2, <2>1 DEF EntriesSound
<1>8. Guarded(k)'
  BY <1>1, <1>3 DEF Guarded
<1>9. ASSUME NEW d \in Callers, key'[d] = k PROVE CallerSound(d, k)'
  <2>1. CASE d = c
    BY <1>1, <1>3, <2>1 DEF CallerSound, Exists
  <2>2. CASE d # c
    <3>1. /\ CallerSound(d, k)
          /\ UNCHANGED <<pc[d], tok[d], now[d], groupOk[d], groups>>
      BY <1>2, <1>9, <2>2 DEF Serial
    <3>2. pc[d] # "put" /\ pc[d] # "replay"
      BY <1>1, <1>5, <3>1 DEF CallerSound, UntrackedStaysOut, StoreInv
    <3>3. ~(pc[d] = "create" /\ tok[d] # NoToken /\ tok[d] = tok[c])
      BY <1>1, <2>2, StoreInvMutex DEF TokenMutex, Critical
    <3> QED
      BY <1>1, <3>1, <3>2, <3>3 DEF CallerSound, GroupThere
  <2> QED
    BY <2>1, <2>2
<1>10. ASSUME NEW w \in Workers PROVE WorkerSound(w, k)'
  <2>1. ~Touches(w, k) /\ UNCHANGED op
    BY <1>2, <1>4
  <2> QED
    BY <2>1 DEF Touches, WorkerSound, Forgetting
<1> QED
  BY <1>6, <1>7, <1>8, <1>9, <1>10 DEF Serial

\* lookup and put away from k: entries of k's tokens can only be swept, once
\* their time is over.
LEMMA EntriesElsewhere ==
    ASSUME OwnInv, OwnInv', NEW c \in Callers, Lookup(c) \/ Put(c), StoreStep(c),
           NEW k \in Keys, key[c] # k, Serial(k)
    PROVE  Serial(k)'
<1> USE DEF OwnInv, BaseInv, TypeOK, StoreTypeOK
<1>1. /\ UNCHANGED <<clock, groups, op, schedules, key, groupOk, tok, now>>
      /\ \A d \in Callers \ {c} : pc'[d] = pc[d]
      /\ tok[c] \in Tokens /\ tok[c][2] = key[c]
  <2>1. CallerStep(c) /\ pc'[c] # "idle"
    BY DEF CallerStep, Lookup, Put, Goto
  <2>2. tok[c] # NoToken
    BY DEF Lookup, Put, StoreInv, UntrackedStaysOut
  <2>3. UNCHANGED <<schedules, key, groupOk, tok, now>>
    BY <2>1 DEF StoreStep, KeyAfter, Lookup, Put
  <2> QED
    BY <2>1, <2>2, <2>3, CallerFrame DEF CallersOwn
<1>2. ASSUME NEW t \in Tokens, t[2] = k
      PROVE  \/ entries'[t] = entries[t]
             \/ entries'[t] = NoEntry /\ clock > entries[t].expireAt
  <2>1. t # tok[c] /\ now[c] <= clock
    BY <1>1, <1>2 DEF CallersOwn
  <2>2. CASE Lookup(c)
    BY <1>1, <2>1, <2>2 DEF Lookup
  <2>3. CASE Put(c)
    BY <1>1, <2>1, <2>3 DEF Put, PutEntries, Expired
  <2> QED
    BY <2>2, <2>3
<1>3. StoredSound(k)'
  BY <1>1 DEF Serial, StoredSound, Exists, GroupThere
<1>4. EntriesSound(k)'
  BY <1>1, <1>2 DEF Serial, EntriesSound, Forgetting, NoEntry
<1>5. Guarded(k)'
  <2> SUFFICES ASSUME schedules[k].by # NoToken PROVE Guarded(k)'
    BY <1>1 DEF Guarded
  <2>1. schedules[k].by \in Tokens /\ schedules[k].by[2] = k
    BY DEF Serial, StoredSound, Schedule
  <2>2. CASE clock > schedules[k].at + TTL
    BY <1>1, <2>2 DEF Guarded
  <2>3. CASE entries[schedules[k].by] = [id |-> k, expireAt |-> schedules[k].at + TTL]
    BY <1>1, <1>2, <2>1, <2>3 DEF Guarded
  <2>4. ASSUME NEW d \in Callers, pc[d] = "put", tok[d] = schedules[k].by
        PROVE  Guarded(k)'
    <3>1. d # c
      BY <1>1, <2>1, <2>4
    <3> QED
      BY <1>1, <2>4, <3>1 DEF Guarded
  <2> QED
    BY <2>2, <2>3, <2>4 DEF Serial, Guarded
<1>6. ASSUME NEW d \in Callers, key'[d] = k PROVE CallerSound(d, k)'
  BY <1>1, <1>6 DEF Serial, CallerSound, GroupThere, Exists
<1>7. ASSUME NEW w \in Workers PROVE WorkerSound(w, k)'
  BY <1>1 DEF Serial, WorkerSound, Forgetting, Exists
<1> QED
  BY <1>3, <1>4, <1>5, <1>6, <1>7 DEF Serial

\* put on k: the schedule's maker leaves the entry that guards it.
LEMMA PutSerial ==
    ASSUME OwnInv, OwnInv', NEW c \in Callers, Put(c), StoreStep(c),
           NEW k \in Keys, key[c] = k, k \notin raced, Serial(k)
    PROVE  Serial(k)'
<1> USE DEF OwnInv, BaseInv, TypeOK, StoreTypeOK
<1>1. /\ UNCHANGED <<clock, groups, op, schedules, key, groupOk, tok, now>>
      /\ pc[c] = "put" /\ pc' = [pc EXCEPT ![c] = "unlock"]
      /\ entries' = PutEntries(c)
  <2>1. CallerStep(c) /\ pc' = [pc EXCEPT ![c] = "unlock"] /\ pc[c] = "put"
    BY DEF CallerStep, Put, Goto
  <2>2. UNCHANGED <<schedules, key, groupOk, tok, now>>
    BY <2>1 DEF StoreStep, KeyAfter, Put
  <2>3. entries' = PutEntries(c)
    BY SchedulerAssumption, StoreAssumption DEF Put
  <2> QED
    BY <2>1, <2>2, <2>3, CallerFrame
<1>2. /\ tok[c] \in Tokens /\ got[c] = k
      /\ schedules[k].by = tok[c] /\ schedules[k].at = now[c]
      /\ ~groupOk[c]
  BY <1>1 DEF StoreInv, UntrackedStaysOut, CallersOwn, Serial, CallerSound
<1>3. /\ entries'[tok[c]] = [id |-> k, expireAt |-> schedules[k].at + TTL]
      /\ \A t \in Tokens : entries'[t].id # NoId => t = tok[c] \/ entries[t].id # NoId
  BY <1>1, <1>2 DEF PutEntries, NoEntry
<1>4. \A w \in Workers : ~Touches(w, k)
  BY <1>1, NoWorkerNear
<1>5. StoredSound(k)'
  BY <1>1 DEF Serial, StoredSound, Exists, GroupThere
<1>6. EntriesSound(k)'
  <2>1. \A t \in Tokens : t[2] = k /\ entries[t].id # NoId => schedules[k].by = t
    BY <1>4, Untouched DEF Serial, EntriesSound
  <2> QED
    BY <1>1, <1>2, <1>3, <2>1 DEF EntriesSound
<1>7. Guarded(k)'
  BY <1>1, <1>2, <1>3 DEF Guarded
<1>8. ASSUME NEW d \in Callers, key'[d] = k PROVE CallerSound(d, k)'
  BY <1>1, <1>2, <1>8 DEF Serial, CallerSound, GroupThere, Exists
<1>9. ASSUME NEW w \in Workers PROVE WorkerSound(w, k)'
  BY <1>1 DEF Serial, WorkerSound, Forgetting, Exists
<1> QED
  BY <1>5, <1>6, <1>7, <1>8, <1>9 DEF Serial

\* lookup on k: a hit is the entry of the token that made the schedule, and
\* a miss by that token means its window is over.
LEMMA LookupSerial ==
    ASSUME OwnInv, OwnInv', NEW c \in Callers, Lookup(c), StoreStep(c),
           NEW k \in Keys, key[c] = k, k \notin raced, Serial(k)
    PROVE  Serial(k)'
<1> USE DEF OwnInv, BaseInv, TypeOK, StoreTypeOK
<1> DEFINE e == entries[tok[c]]
<1>1. /\ UNCHANGED <<clock, groups, op, schedules, key, groupOk, tok, now>>
      /\ pc[c] = "lookup"
  <2>1. CallerStep(c) /\ pc[c] = "lookup" /\ pc'[c] # "idle"
    BY DEF CallerStep, Lookup, Goto
  <2>2. UNCHANGED <<schedules, key, groupOk, tok, now>>
    BY <2>1 DEF StoreStep, KeyAfter, Lookup
  <2> QED
    BY <2>1, <2>2, CallerFrame
<1>2. /\ tok[c] \in Tokens /\ tok[c][2] = k
      /\ ~groupOk[c]
      /\ now[c] <= clock
  BY <1>1 DEF StoreInv, UntrackedStaysOut, CallersOwn
<1>3. \A w \in Workers : ~Touches(w, k)
  BY <1>1, NoWorkerNear
<1>4. \A t \in Tokens : t[2] = k /\ entries[t].id # NoId => schedules[k].by = t
  BY <1>3, Untouched DEF Serial, EntriesSound
<1>5. CASE e.id # NoId /\ pc' = [pc EXCEPT ![c] = "replay"] /\ UNCHANGED entries
  <2>1. schedules[k].by = tok[c]
    BY <1>2, <1>4, <1>5
  <2>2. CallerSound(c, k)'
    BY <1>1, <1>2, <1>5, <2>1 DEF CallerSound
  <2>3. CallerStep(c)
    BY DEF CallerStep
  <2> QED
    BY <1>1, <1>5, <2>2, <2>3, CallerQuiet
<1>6. CASE /\ e.id = NoId \/ Expired(e, now[c])
           /\ entries' = [entries EXCEPT ![tok[c]] = NoEntry]
           /\ pc' = [pc EXCEPT ![c] = "create"]
  <2>1. ASSUME schedules[k].by = tok[c] PROVE clock > schedules[k].at + TTL
    <3>1. CASE e = [id |-> k, expireAt |-> schedules[k].at + TTL]
      <4>1. e.id # NoId
        BY <3>1, SchedulerAssumption, StoreAssumption
      <4>2. now[c] > schedules[k].at + TTL
        BY <1>6, <3>1, <4>1 DEF Expired
      <4> QED
        BY <1>2, <4>2, StoreAssumption DEF Schedule
    <3>2. ASSUME NEW d \in Callers, pc[d] = "put", tok[d] = tok[c] PROVE FALSE
      <4>1. c # d /\ pc[c] = "lookup" /\ TokenMutex
        BY <1>1, <3>2, StoreInvMutex
      <4> QED
        BY <1>2, <3>2, <4>1, StoreAssumption DEF TokenMutex, Critical
    <3>3. Guarded(k) /\ schedules[k].by = tok[c] /\ tok[c] # NoToken
      BY <1>2, <2>1, StoreAssumption DEF Serial
    <3> QED
      BY <3>1, <3>2, <3>3 DEF Guarded
  <2>2. StoredSound(k)'
    BY <1>1 DEF Serial, StoredSound, Exists, GroupThere
  <2>3. EntriesSound(k)'
    BY <1>1, <1>4, <1>6 DEF EntriesSound, NoEntry
  <2>4. Guarded(k)'
    <3>1. CASE schedules[k].by = tok[c]
      BY <1>1, <2>1, <3>1 DEF Guarded
    <3>2. CASE schedules[k].by # tok[c]
      <4>1. schedules[k].by # NoToken => entries'[schedules[k].by] = entries[schedules[k].by]
        BY <1>2, <1>6, <3>2 DEF Schedule
      <4>2. \A d \in Callers : pc[d] = "put" => pc'[d] = "put"
        BY <1>1, <1>6
      <4> QED
        BY <1>1, <4>1, <4>2 DEF Serial, Guarded
    <3> QED
      BY <3>1, <3>2
  <2>5. ASSUME NEW d \in Callers, key'[d] = k PROVE CallerSound(d, k)'
    <3>1. CASE d = c
      BY <1>1, <1>2, <1>6, <2>1, <3>1 DEF CallerSound
    <3>2. CASE d # c
      BY <1>1, <1>6, <2>5, <3>2 DEF Serial, CallerSound, GroupThere, Exists
    <3> QED
      BY <3>1, <3>2
  <2>6. ASSUME NEW w \in Workers PROVE WorkerSound(w, k)'
    BY <1>1 DEF Serial, WorkerSound, Forgetting, Exists
  <2> QED
    BY <2>2, <2>3, <2>4, <2>5, <2>6 DEF Serial
<1> QED
  BY <1>5, <1>6 DEF Lookup, Goto

\* Every step of a caller keeps an unraced key serial.
LEMMA CallerSerial ==
    ASSUME OwnInv, OwnInv', NEW c \in Callers, CallerStep(c),
           NEW k \in Keys, k \notin raced, Serial(k)
    PROVE  Serial(k)'
<1> USE DEF OwnInv, BaseInv, TypeOK, StoreTypeOK, Goto, Return
<1>1. groupOk[c] => pc[c] = "create"
  BY DEF CallersOwn
<1>2. ASSUME pc'[c] \notin {"put", "replay", "create"} PROVE CallerSound(c, k)'
  BY <1>2 DEF CallerSound, CallersOwn
<1>3. ASSUME NEW ct \in ClientTokens \union {NoToken}, NEW j \in Keys,
             CreateSchedule(c, ct, j)
      PROVE  Serial(k)'
  <2>1. /\ UNCHANGED <<schedules, entries>> /\ pc[c] = "idle" /\ ~groupOk'[c]
        /\ tok'[c] # NoToken => pc'[c] = "ref"
        /\ pc'[c] \in {"ref", "create"}
    BY <1>1, <1>3 DEF CreateSchedule, Call
  <2>2. CallerSound(c, k)'
    BY <2>1 DEF CallerSound
  <2> QED
    BY <2>1, <2>2, CallerQuiet
<1>4. CASE StoreStep(c)
  <2>1. CASE Lookup(c)
    BY <1>4, <2>1, LookupSerial, EntriesElsewhere
  <2>2. CASE Put(c)
    BY <1>4, <2>2, PutSerial, EntriesElsewhere
  <2>3. CASE LockRef(c) \/ LockAcquire(c) \/ Unlock(c) \/ Deref(c)
    <3>1. /\ UNCHANGED <<schedules, entries>> /\ pc[c] # "put"
          /\ pc'[c] \notin {"put", "replay", "create"}
      BY <1>4, <2>3 DEF StoreStep, LockRef, LockAcquire, Unlock, Deref
    <3> QED
      BY <1>2, <3>1, CallerQuiet
  <2> QED
    BY <1>4, <2>1, <2>2, <2>3 DEF StoreStep
<1>5. CASE ReplaySchedule(c)
  <2>1. UNCHANGED <<schedules, entries, key, groupOk>> /\ pc[c] = "replay"
    BY <1>5 DEF ReplaySchedule, schedVars
  <2>2. pc'[c] = IF Exists(key[c]) THEN "unlock" ELSE "create"
    BY <1>5 DEF ReplaySchedule
  <2>3. ASSUME key'[c] = k PROVE CallerSound(c, k)'
    <3>1. CASE Exists(k)
      BY <1>2, <2>1, <2>2, <2>3, <3>1
    <3>2. CASE ~Exists(k)
      <4>1. schedules[k].by = NoToken /\ ~groupOk'[c]
        BY <1>1, <2>1, <3>2 DEF AbsentBlank, Exists
      <4> QED
        BY <2>1, <2>2, <2>3, <3>2, <4>1 DEF CallerSound
    <3> QED
      BY <3>1, <3>2
  <2> QED
    BY <2>1, <2>3, CallerQuiet
<1>6. CASE CheckGroup(c)
  <2>1. UNCHANGED <<schedules, entries, groups, clock>> /\ pc[c] = "create" /\ ~groupOk[c]
    BY <1>6 DEF CheckGroup
  <2>2. CASE UNCHANGED <<callVars, key>> /\ GroupThere(key[c])
    <3>1. ASSUME key'[c] = k PROVE CallerSound(c, k)'
      BY <2>1, <2>2, <3>1 DEF Serial, CallerSound, GroupThere, Exists, callVars
    <3> QED
      BY <2>1, <3>1, CallerQuiet
  <2>3. CASE Finish(c)
    <3>1. pc'[c] \in {"unlock", "idle"}
      BY <2>3 DEF Finish
    <3> QED
      BY <1>2, <2>1, <3>1, CallerQuiet
  <2> QED
    BY <1>6, <2>2, <2>3 DEF CheckGroup, GroupThere
<1>7. CASE InsertSchedule(c)
  <2>1. CASE key[c] = k
    BY <1>7, <2>1, InsertSerial
  <2>2. CASE key[c] # k
    <3>1. /\ schedules'[k] = schedules[k] /\ UNCHANGED entries /\ pc[c] = "create"
          /\ pc'[c] \in {"put", "idle"} /\ key' = KeyAfter(c)
      BY <1>7, <2>2 DEF InsertSchedule
    <3>2. key'[c] = k => pc'[c] = "idle"
      BY <2>2, <3>1, KeyAfterType
    <3> QED
      BY <1>2, <3>1, <3>2, CallerQuiet
  <2> QED
    BY <2>1, <2>2
<1>8. CASE InsertConflict(c)
  <2>1. /\ UNCHANGED <<schedules, entries>> /\ pc[c] = "create"
        /\ pc'[c] \in {"unlock", "idle"}
    BY <1>8 DEF InsertConflict, Finish
  <2> QED
    BY <1>2, <2>1, CallerQuiet
<1> QED
  BY <1>3, <1>4, <1>5, <1>6, <1>7, <1>8 DEF CallerStep

\* Time passing opens no conflict and keeps every window's end.
LEMMA TickSerial ==
    ASSUME OwnInv, OwnInv', Tick, UNCHANGED schedVars, NEW k \in Keys, Serial(k)
    PROVE  Serial(k)'
<1> USE DEF OwnInv, BaseInv, TypeOK, StoreTypeOK
<1>1. UNCHANGED <<pc, tok, now, entries, key, groupOk, schedules, groups, op>>
  BY DEF Tick, callVars, schedVars
<1>2. ASSUME clock > schedules[k].at + TTL PROVE clock' > schedules'[k].at + TTL
  BY <1>1, <1>2, StoreAssumption DEF Tick, Schedule
<1>3. StoredSound(k)' /\ EntriesSound(k)'
  BY <1>1 DEF Serial, StoredSound, EntriesSound, Exists, GroupThere, Forgetting
<1>4. Guarded(k)'
  BY <1>1, <1>2 DEF Serial, Guarded
<1>5. ASSUME NEW c \in Callers, key'[c] = k PROVE CallerSound(c, k)'
  BY <1>1, <1>2, <1>5 DEF Serial, CallerSound, GroupThere, Exists
<1>6. ASSUME NEW w \in Workers PROVE WorkerSound(w, k)'
  BY <1>1 DEF Serial, WorkerSound, Forgetting, Exists
<1> QED
  BY <1>3, <1>4, <1>5, <1>6 DEF Serial

\* A worker's step that leaves k's schedule and its tokens' entries alone.
LEMMA WorkerQuiet ==
    ASSUME OwnInv, OwnInv', NEW w \in Workers, WorkerStep(w), NEW k \in Keys, Serial(k),
           schedules'[k] = schedules[k],
           \A t \in Tokens : t[2] = k => entries'[t] = entries[t],
           (Exists(k) \/ \E c \in Callers : key[c] = k /\ groupOk[c]) /\ GroupThere(k)
             => GroupThere(k)',
           ~Forgetting(w, k),
           WorkerSound(w, k)'
    PROVE  Serial(k)'
<1> USE DEF OwnInv, BaseInv, TypeOK, StoreTypeOK
<1>1. /\ UNCHANGED <<clock, pc, tok, now, key, groupOk>>
      /\ \A v \in Workers \ {w} : op'[v] = op[v]
  BY WorkerStoreInv, WorkerChanges DEF callVars
<1>2. StoredSound(k)'
  BY DEF Serial, StoredSound, Exists
<1>3. EntriesSound(k)'
  <2> SUFFICES ASSUME NEW t \in Tokens, t[2] = k, entries'[t].id # NoId,
                      schedules[k].by # t
               PROVE  \E v \in Workers : Forgetting(v, k)'
    BY DEF EntriesSound
  <2>1. PICK v \in Workers : Forgetting(v, k)
    BY DEF Serial, EntriesSound
  <2> QED
    BY <1>1, <2>1 DEF Forgetting
<1>4. Guarded(k)'
  <2>1. schedules[k].by # NoToken => schedules[k].by \in Tokens /\ schedules[k].by[2] = k
    BY DEF Serial, StoredSound, Schedule
  <2> QED
    BY <1>1, <2>1 DEF Serial, Guarded
<1>5. ASSUME NEW c \in Callers, key'[c] = k PROVE CallerSound(c, k)'
  BY <1>1, <1>5 DEF Serial, CallerSound, Exists
<1>6. ASSUME NEW v \in Workers PROVE WorkerSound(v, k)'
  BY <1>1 DEF Serial, WorkerSound, Forgetting, Exists
<1> QED
  BY <1>2, <1>3, <1>4, <1>5, <1>6 DEF Serial

\* A worker alone on k: what is left to show once k is absent.
LEMMA RemovedSerial ==
    ASSUME OwnInv, OwnInv', NEW w \in Workers, WorkerStep(w),
           NEW k \in Keys, k \notin raced, Touches(w, k),
           ~Exists(k)', WorkerSound(w, k)',
           \/ Forgetting(w, k)'
           \/ \A t \in Tokens : t[2] = k => entries'[t].id = NoId
    PROVE  Serial(k)'
<1> USE DEF OwnInv, BaseInv, TypeOK, StoreTypeOK
<1>1. /\ UNCHANGED <<clock, pc, tok, now, key, groupOk>>
      /\ \A v \in Workers \ {w} : op'[v] = op[v]
  BY WorkerStoreInv, WorkerChanges DEF callVars
<1>2. /\ \A c \in Callers : key[c] = k => pc[c] = "idle"
      /\ \A v \in Workers \ {w} : ~Touches(v, k)
  BY Alone
<1>3. schedules'[k].n = 0 /\ schedules'[k].by = NoToken
  BY DEF Exists, AbsentBlank
<1>4. StoredSound(k)'
  BY <1>3 DEF StoredSound, Exists
<1>5. EntriesSound(k)' /\ Guarded(k)'
  BY <1>3 DEF EntriesSound, Guarded
<1>6. ASSUME NEW c \in Callers, key'[c] = k PROVE CallerSound(c, k)'
  <2>1. pc'[c] = "idle" /\ ~groupOk'[c]
    BY <1>1, <1>2, <1>6 DEF CallersOwn
  <2> QED
    BY <2>1 DEF CallerSound
<1>7. ASSUME NEW v \in Workers, v # w PROVE WorkerSound(v, k)'
  BY <1>1, <1>2, <1>7 DEF WorkerSound, Touches, Forgetting
<1> QED
  BY <1>4, <1>5, <1>6, <1>7 DEF Serial

\* A worker that is done, or in a step that promises nothing about k.
LEMMA RestsSound ==
    ASSUME NEW w \in Workers, NEW k,
           op'[w].do \notin {"set", "forget", "forgetOne", "cascade"}
    PROVE  WorkerSound(w, k)'
BY DEF WorkerSound, Forgetting

\* DeleteSchedule and its Forget on an unraced key, and on the others.
LEMMA DeleteSerial ==
    ASSUME OwnInv, OwnInv', NEW w \in Workers, DeleteSchedule(w) \/ ForgetKey(w),
           NEW k \in Keys, k \notin raced, Serial(k)
    PROVE  Serial(k)'
<1> USE DEF OwnInv, BaseInv
<1>0. WorkerStep(w) /\ Idle.do = "idle" /\ op[w].key \in Keys /\ StoreTypeOK
  BY IdleType DEF WorkerStep, TypeOK
<1>1. CASE DeleteSchedule(w)
  <2>0. /\ op[w].do = "delete" /\ ~Forgetting(w, k)
        /\ UNCHANGED <<entries, groups>>
    BY <1>1 DEF DeleteSchedule, Forgetting, storeVars
  <2>1. ASSUME UNCHANGED schedules, Rests(w) PROVE Serial(k)'
    <3>1. WorkerSound(w, k)'
      BY <1>0, <2>1, RestsSound DEF Rests
    <3> QED
      BY <1>0, <2>0, <2>1, <3>1, WorkerQuiet DEF Serial, StoredSound, GroupThere
  <2>2. ASSUME schedules' = [schedules EXCEPT ![op[w].key] = Absent],
               Becomes(w, "forget", op[w].key, op[w].seen, op[w].todo)
        PROVE  Serial(k)'
    <3>1. CASE op[w].key = k
      <4>1. ~Exists(k)' /\ Forgetting(w, k)' /\ Touches(w, k)
        BY <2>0, <2>2, <3>1, IdleType DEF Exists, Becomes, Forgetting, Touches, TypeOK
      <4>2. WorkerSound(w, k)'
        BY <2>2, <4>1 DEF WorkerSound, Becomes
      <4> QED
        BY <1>0, <4>1, <4>2, RemovedSerial
    <3>2. CASE op[w].key # k
      <4>1. schedules'[k] = schedules[k]
        BY <2>2, <3>2 DEF TypeOK
      <4>2. WorkerSound(w, k)'
        BY <2>2, <3>2 DEF WorkerSound, Becomes, Forgetting
      <4> QED
        BY <1>0, <2>0, <4>1, <4>2, WorkerQuiet DEF Serial, StoredSound, GroupThere
    <3> QED
      BY <3>1, <3>2
  <2> QED
    BY <1>1, <2>1, <2>2, DeleteFacts
<1>2. CASE ForgetKey(w)
  <2>0. /\ op[w].do = "forget" /\ entries' = ForgetEntries(op[w].key)
        /\ UNCHANGED <<schedules, groups>>
    BY <1>2 DEF ForgetKey
  <2>1. WorkerSound(w, k)'
    BY <1>0, <1>2, ForgetFacts, RestsSound DEF Rests
  <2>2. CASE op[w].key = k
    <3>1. ~Exists(k)' /\ Touches(w, k)
      BY <2>0, <2>2 DEF Serial, WorkerSound, Forgetting, Exists, Touches
    <3>2. \A t \in Tokens : t[2] = k => entries'[t].id = NoId
      BY <1>0, <2>0, <2>2 DEF ForgetEntries, EntriesScoped, NoEntry, StoreTypeOK
    <3> QED
      BY <1>0, <2>1, <3>1, <3>2, RemovedSerial
  <2>3. CASE op[w].key # k
    <3>1. \A t \in Tokens : t[2] = k => entries'[t] = entries[t]
      BY <1>0, <2>0, <2>3, SchedulerAssumption, StoreAssumption
         DEF ForgetEntries, EntriesScoped, StoreTypeOK
    <3> QED
      BY <1>0, <2>0, <2>1, <2>3, <3>1, WorkerQuiet
         DEF Serial, StoredSound, GroupThere, Forgetting
  <2> QED
    BY <2>2, <2>3
<1> QED
  BY <1>1, <1>2

\* UpdateSchedule writes back what it read, which is what is stored.
LEMMA UpdateSerial ==
    ASSUME OwnInv, OwnInv', NEW w \in Workers, UpdateSchedule(w),
           NEW k \in Keys, Serial(k)
    PROVE  Serial(k)'
<1> USE DEF OwnInv, BaseInv
<1>0. /\ WorkerStep(w) /\ Idle.do = "idle" /\ op[w].key \in Keys
      /\ op[w].do \in {"update", "set"} /\ ~Forgetting(w, k)
      /\ UNCHANGED <<entries, groups>>
  BY IdleType DEF WorkerStep, TypeOK, UpdateSchedule, Forgetting, storeVars
<1>1. ASSUME UNCHANGED schedules,
             Becomes(w, "set", op[w].key, schedules[op[w].key], op[w].todo)
      PROVE  Serial(k)'
  <2>1. WorkerSound(w, k)'
    BY <1>1 DEF WorkerSound, Becomes, Forgetting
  <2> QED
    BY <1>0, <1>1, <2>1, WorkerQuiet DEF Serial, StoredSound, GroupThere
<1>2. ASSUME UNCHANGED schedules, Rests(w) PROVE Serial(k)'
  <2>1. WorkerSound(w, k)'
    BY <1>0, <1>2, RestsSound DEF Rests
  <2> QED
    BY <1>0, <1>2, <2>1, WorkerQuiet DEF Serial, StoredSound, GroupThere
<1>3. ASSUME op[w].do = "set", schedules' = [schedules EXCEPT ![op[w].key] = op[w].seen],
             Rests(w)
      PROVE  Serial(k)'
  <2>1. WorkerSound(w, k)'
    BY <1>0, <1>3, RestsSound DEF Rests
  <2>2. schedules'[k] = schedules[k]
    BY <1>0, <1>3 DEF Serial, WorkerSound, TypeOK
  <2> QED
    BY <1>0, <2>1, <2>2, WorkerQuiet DEF Serial, StoredSound, GroupThere
<1> QED
  BY <1>1, <1>2, <1>3, UpdateFacts

\* Steps of a worker that change no schedule and no token.
LEMMA GroupSerial ==
    ASSUME OwnInv, OwnInv', NEW w \in Workers,
           \/ \E j \in Keys, step \in {"delete", "update", "createGroup", "deleteGroup"} :
                Begin(w, step, j)
           \/ CreateScheduleGroup(w)
           \/ DeleteScheduleGroup(w),
           NEW k \in Keys, Serial(k)
    PROVE  Serial(k)'
<1> USE DEF OwnInv, BaseInv
<1>1. /\ UNCHANGED <<schedules, entries>>
      /\ groups \subseteq groups'
      /\ ~Forgetting(w, k) /\ WorkerStep(w)
  BY DEF Begin, CreateScheduleGroup, DeleteScheduleGroup, Forgetting, WorkerStep, storeVars
<1>2. WorkerSound(w, k)'
  <2>1. Idle.do = "idle" /\ TypeOK
    BY IdleType
  <2>2. ASSUME NEW j \in Keys, NEW step \in {"delete", "update", "createGroup", "deleteGroup"},
               Begin(w, step, j)
        PROVE  WorkerSound(w, k)'
    BY <2>1, <2>2, BeginFacts, RestsSound DEF Becomes
  <2>3. CASE CreateScheduleGroup(w)
    BY <2>1, <2>3, CreateGroupFacts, RestsSound DEF Becomes, Rests
  <2>4. CASE DeleteScheduleGroup(w)
    <3>1. ASSUME Rests(w) PROVE WorkerSound(w, k)'
      BY <2>1, <3>1, RestsSound DEF Rests
    <3>2. ASSUME Becomes(w, "cascade", op[w].key, op[w].seen,
                         {j \in Keys : GroupOf(j) = GroupOf(op[w].key) /\ Exists(j)})
          PROVE  WorkerSound(w, k)'
      BY <1>1, <3>2 DEF WorkerSound, Becomes, Forgetting, Exists
    <3> QED
      BY <2>1, <2>4, <3>1, <3>2, DeleteGroupFacts
  <2> QED
    BY <2>2, <2>3, <2>4
<1> QED
  BY <1>1, <1>2, WorkerQuiet DEF Serial, StoredSound, GroupThere

\* The cascade removes what it listed, its tokens, and then the group, when
\* none of the group's unraced schedules is left.
LEMMA CascadeSerial ==
    ASSUME OwnInv, OwnInv', NEW w \in Workers,
           CascadeDelete(w) \/ CascadeForget(w) \/ DropGroup(w),
           NEW k \in Keys, k \notin raced, Serial(k)
    PROVE  Serial(k)'
<1> USE DEF OwnInv, BaseInv
<1>0. /\ WorkerStep(w) /\ Idle.do = "idle" /\ StoreTypeOK
      /\ op[w].key \in Keys /\ op[w].todo \subseteq Keys
  BY IdleType DEF WorkerStep, TypeOK, CascadeDelete, CascadeForget, DropGroup
<1>1. CASE CascadeDelete(w)
  <2>1. /\ op[w].do = "cascade" /\ ~Forgetting(w, k) /\ UNCHANGED <<entries, groups>>
        /\ \A j \in op[w].todo : GroupOf(j) = GroupOf(op[w].key)
    BY <1>1 DEF CascadeDelete, Forgetting, CascadesScoped, storeVars
  <2>2. PICK j \in op[w].todo :
          /\ schedules' = [schedules EXCEPT ![j] = Absent]
          /\ Becomes(w, "forgetOne", j, op[w].seen, op[w].todo)
    BY <1>1, CascadeDeleteFacts
  <2>3. CASE j = k
    <3>1. ~Exists(k)' /\ Forgetting(w, k)' /\ Touches(w, k)
      BY <2>1, <2>2, <2>3, IdleType DEF Exists, Becomes, Forgetting, Touches, TypeOK
    <3>2. WorkerSound(w, k)'
      BY <2>2, <3>1 DEF WorkerSound, Becomes
    <3> QED
      BY <1>0, <3>1, <3>2, RemovedSerial
  <2>4. CASE j # k
    <3>1. schedules'[k] = schedules[k]
      BY <1>0, <2>2, <2>4 DEF TypeOK
    <3>2. WorkerSound(w, k)'
      BY <2>1, <2>2, <2>4, <3>1 DEF Serial, WorkerSound, Becomes, Forgetting, Exists
    <3> QED
      BY <1>0, <2>1, <3>1, <3>2, WorkerQuiet DEF Serial, StoredSound, GroupThere
  <2> QED
    BY <2>3, <2>4
<1>2. CASE CascadeForget(w)
  <2>1. /\ op[w].do = "forgetOne" /\ entries' = ForgetEntries(op[w].key)
        /\ UNCHANGED <<schedules, groups>>
        /\ Becomes(w, "cascade", op[w].key, op[w].seen, op[w].todo \ {op[w].key})
    BY <1>2, CascadeForgetFacts DEF CascadeForget
  <2>2. CASE op[w].key = k
    <3>1. ~Exists(k)' /\ Touches(w, k)
      BY <2>1, <2>2 DEF Serial, WorkerSound, Forgetting, Exists, Touches
    <3>2. WorkerSound(w, k)'
      BY <2>1, <3>1 DEF WorkerSound, Becomes, Forgetting
    <3>3. \A t \in Tokens : t[2] = k => entries'[t].id = NoId
      BY <1>0, <2>1, <2>2 DEF ForgetEntries, EntriesScoped, NoEntry, StoreTypeOK
    <3> QED
      BY <1>0, <3>1, <3>2, <3>3, RemovedSerial
  <2>3. CASE op[w].key # k
    <3>1. \A t \in Tokens : t[2] = k => entries'[t] = entries[t]
      BY <1>0, <2>1, <2>3, SchedulerAssumption, StoreAssumption
         DEF ForgetEntries, EntriesScoped, StoreTypeOK
    <3>2. WorkerSound(w, k)'
      BY <2>1, <2>3 DEF Serial, WorkerSound, Becomes, Forgetting, Exists
    <3> QED
      BY <1>0, <2>1, <2>3, <3>1, <3>2, WorkerQuiet
         DEF Serial, StoredSound, GroupThere, Forgetting
  <2> QED
    BY <2>2, <2>3
<1>3. CASE DropGroup(w)
  <2>1. /\ op[w].do = "cascade" /\ op[w].todo = {} /\ ~Forgetting(w, k)
        /\ UNCHANGED <<schedules, entries>>
        /\ groups' = groups \ {GroupOf(op[w].key)}
    BY <1>3 DEF DropGroup, Forgetting, storeVars
  <2>2. WorkerSound(w, k)'
    BY <1>0, <1>3, DropFacts, RestsSound DEF Rests
  <2>3. CASE GroupOf(k) = GroupOf(op[w].key)
    <3>1. ~Exists(k) /\ Touches(w, k)
      BY <2>1, <2>3 DEF Serial, WorkerSound, Touches
    <3>2. \A c \in Callers : ~(key[c] = k /\ groupOk[c])
      BY <3>1, Alone DEF CallersOwn
    <3> QED
      BY <1>0, <2>1, <2>2, <3>1, <3>2, WorkerQuiet DEF Serial, StoredSound
  <2>4. CASE GroupOf(k) # GroupOf(op[w].key)
    BY <1>0, <2>1, <2>2, <2>4, WorkerQuiet DEF Serial, StoredSound, GroupThere
  <2> QED
    BY <2>3, <2>4
<1> QED
  BY <1>1, <1>2, <1>3

\* A new store has nothing on any key.
LEMMA SerialInvInit == Init => SerialInv
<1> SUFFICES ASSUME Init, NEW k \in Keys PROVE Serial(k)
  BY OwnInvInit DEF SerialInv
<1> USE IdleType DEF Init, StoreInit
<1>1. StoredSound(k) /\ EntriesSound(k) /\ Guarded(k)
  BY DEF StoredSound, EntriesSound, Guarded, Exists, NoEntry
<1>2. \A c \in Callers : CallerSound(c, k)
  BY DEF CallerSound
<1>3. \A w \in Workers : WorkerSound(w, k)
  BY DEF WorkerSound, Forgetting
<1> QED
  BY <1>1, <1>2, <1>3 DEF Serial

\* Every step keeps every key serial on which nothing has overlapped.
LEMMA SerialInvNext == SerialInv /\ [Next]_vars => SerialInv'
<1> SUFFICES ASSUME SerialInv, [Next]_vars PROVE SerialInv'
  OBVIOUS
<1>1. OwnInv /\ OwnInv'
  BY OwnInvNext DEF SerialInv
<1>2. SUFFICES ASSUME NEW k \in Keys, k \notin raced' PROVE Serial(k)'
  BY <1>1 DEF SerialInv
<1>3. k \notin raced /\ Serial(k)
  BY <1>2 DEF SerialInv, Next, vars
<1>4. CASE Next
  <2>1. ASSUME NEW c \in Callers, CallerStep(c) PROVE Serial(k)'
    BY <1>1, <1>3, <2>1, CallerSerial
  <2>2. ASSUME NEW w \in Workers, WorkerStep(w) PROVE Serial(k)'
    BY <1>1, <1>3, <2>2, DeleteSerial, UpdateSerial, GroupSerial, CascadeSerial
       DEF WorkerStep
  <2>3. CASE Tick /\ UNCHANGED schedVars
    BY <1>1, <1>3, <2>3, TickSerial
  <2> QED
    BY <1>4, <2>1, <2>2, <2>3, StepCases DEF Next
<1>5. CASE UNCHANGED vars
  BY <1>3, <1>5 DEF Serial, StoredSound, EntriesSound, Guarded, CallerSound, WorkerSound,
                    Forgetting, Exists, GroupThere, vars, storeVars, schedVars, callVars
<1> QED
  BY <1>4, <1>5

\* The serial invariant holds in every reachable state.
LEMMA SerialInvAlways == Spec => []SerialInv
BY SerialInvInit, SerialInvNext, PTL DEF Spec

(***************************************************************************)
(* The theorems                                                            *)
(***************************************************************************)

\* A replay returns a schedule made under the caller's own token, however
\* creates of the name race each other, names are reused and tokens expire,
\* as long as no delete or update of the key overlapped another operation.
THEOREM ReplayIsOwn == Spec => []SerialReplaysOwnSchedule
<1>1. SerialInv => SerialReplaysOwnSchedule
  BY DEF SerialInv, OwnInv, BaseInv, TypeOK, Serial, CallerSound,
         SerialReplaysOwnSchedule, Replaying
<1> QED
  BY <1>1, SerialInvAlways, PTL

\* Within its window a retried create never meets the schedule of its own
\* token as a conflict.
THEOREM RetryNeverConflicts == Spec => []SerialRetryNeverConflicts
<1>1. SerialInv => SerialRetryNeverConflicts
  BY DEF SerialInv, OwnInv, BaseInv, TypeOK, Serial, CallerSound,
         SerialRetryNeverConflicts
<1> QED
  BY <1>1, SerialInvAlways, PTL

\* A stored schedule's group exists, whether or not an operation is in flight.
THEOREM NoOrphanSchedule == Spec => []SerialNoOrphanSchedule
<1>1. SerialInv => SerialNoOrphanSchedule
  BY DEF SerialInv, Serial, StoredSound, GroupThere, SerialNoOrphanSchedule
<1> QED
  BY <1>1, SerialInvAlways, PTL
=============================================================================
