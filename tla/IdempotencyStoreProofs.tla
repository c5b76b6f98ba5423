----------------------- MODULE IdempotencyStoreProofs -----------------------
(***************************************************************************)
(* The lock table of IdempotencyStore, for every number of callers, tokens *)
(* and lock objects.  Each action of the store preserves StoreInv; modules *)
(* about a specification built on the store cite these lemmas for its      *)
(* steps.                                                                  *)
(***************************************************************************)
EXTENDS IdempotencyStore, FiniteSetTheorems, TLAPS

(***************************************************************************)
(* The inductive invariant                                                 *)
(***************************************************************************)

\* The caller is counted in the lock object of its token.
Inside(c) == pc[c] \in Counted /\ tok[c] # NoToken

\* The caller is between l.mu.Lock and l.mu.Unlock.
Holding(c) == pc[c] \in Critical /\ tok[c] # NoToken

\* Only a caller with a token goes near the locks.
UntrackedStaysOut == \A c \in Callers : tok[c] = NoToken => pc[c] \in {"idle", "create"}

\* A counted caller points to the lock object its token has in the table, and
\* nobody else points to any.
PointsToTable ==
    \A c \in Callers : IF Inside(c)
                       THEN lk[c] \in LockIds /\ locks[tok[c]] = lk[c]
                       ELSE lk[c] = NoLock

\* A lock object is held by the caller in its critical section.
HeldByHolder ==
    \A c \in Callers, l \in LockIds : held[l] = c <=> lk[c] = l /\ Holding(c)

\* Two tokens never share a lock object.
TableInjective ==
    \A t, u \in Tokens : locks[t] # NoLock /\ locks[t] = locks[u] => t = u

\* A lock object in the table has a caller.
TableUsed ==
    \A t \in Tokens : locks[t] # NoLock => \E c \in Callers : Inside(c) /\ tok[c] = t

\* refs counts the callers.
RefsCount == \A l \in LockIds : refs[l] = Cardinality(Referrers(l))

StoreInv ==
    /\ StoreTypeOK
    /\ UntrackedStaysOut
    /\ PointsToTable
    /\ HeldByHolder
    /\ TableInjective
    /\ TableUsed
    /\ RefsCount

\* What the callers of a lock object are, given where everyone points.
LEMMA ReferrersArePointers ==
    ASSUME PointsToTable, NEW l \in LockIds
    PROVE  Referrers(l) = {c \in Callers : lk[c] = l}
BY StoreAssumption DEF PointsToTable, Referrers, Inside

\* refs is a count of finitely many callers.
LEMMA ReferrersFinite ==
    ASSUME NEW l
    PROVE  IsFiniteSet(Referrers(l)) /\ Cardinality(Referrers(l)) \in Nat
BY StoreAssumption, FS_Subset, FS_CardinalityType DEF Referrers

(***************************************************************************)
(* Every step preserves it                                                 *)
(***************************************************************************)

\* A new store has no locks and no callers.
LEMMA StoreInvInit == StoreInit => StoreInv
<1> SUFFICES ASSUME StoreInit PROVE StoreInv
  OBVIOUS
<1> USE StoreAssumption DEF StoreInit
<1>1. StoreTypeOK
  BY DEF StoreTypeOK, Steps, NoEntry
<1>2. UntrackedStaysOut /\ PointsToTable /\ TableInjective /\ TableUsed
  BY DEF UntrackedStaysOut, PointsToTable, TableInjective, TableUsed, Inside,
         Counted, Critical
<1>3. HeldByHolder
  BY DEF HeldByHolder, Holding, Critical
<1>4. RefsCount
  <2>1. \A l : Referrers(l) = {}
    BY DEF Referrers, Counted, Critical
  <2> QED
    BY <2>1, FS_EmptySet DEF RefsCount
<1> QED
  BY <1>1, <1>2, <1>3, <1>4 DEF StoreInv

\* A step that moves a caller without touching the lock table, the tokens or
\* the pointers keeps the invariant when the caller stays inside, and keeps
\* its hold, or stays outside.
LEMMA LocalStepInv ==
    ASSUME StoreInv, StoreTypeOK', NEW c \in Callers, NEW s \in Steps,
           Goto(c, s), UNCHANGED <<lk, lockVars>>,
           \/ /\ UNCHANGED tok
              /\ tok[c] # NoToken
              /\ pc[c] \in Counted <=> s \in Counted
              /\ pc[c] \in Critical <=> s \in Critical
           \/ /\ \E t \in Tokens \union {NoToken} : tok' = [tok EXCEPT ![c] = t]
              /\ ~Inside(c)
              /\ tok'[c] = NoToken => s \in {"idle", "create"}
              /\ tok'[c] # NoToken => s \in {"idle", "ref"}
    PROVE  StoreInv'
<1> USE StoreAssumption
<1>1. \A d \in Callers : /\ Inside(d)' <=> Inside(d)
                         /\ Holding(d)' <=> Holding(d)
                         /\ Inside(d) => tok'[d] = tok[d]
  BY DEF StoreInv, StoreTypeOK, Inside, Holding, Goto, Counted, Critical
<1>2. UntrackedStaysOut'
  BY DEF StoreInv, StoreTypeOK, UntrackedStaysOut, Goto, Steps, Counted, Critical
<1>3. PointsToTable'
  BY <1>1 DEF StoreInv, PointsToTable, lockVars
<1>4. HeldByHolder'
  BY <1>1 DEF StoreInv, HeldByHolder, lockVars
<1>5. TableInjective'
  BY DEF StoreInv, TableInjective, lockVars
<1>6. TableUsed'
  BY <1>1 DEF StoreInv, TableUsed, lockVars
<1>7. RefsCount'
  <2>1. ASSUME NEW l \in LockIds PROVE Referrers(l)' = Referrers(l)
    BY <1>3, ReferrersArePointers DEF StoreInv, PointsToTable, Referrers, Inside, lockVars
  <2> QED
    BY <2>1 DEF StoreInv, RefsCount, lockVars
<1> QED
  BY <1>2, <1>3, <1>4, <1>5, <1>6, <1>7 DEF StoreInv

\* Entering Do touches no lock.
LEMMA CallInv ==
    ASSUME StoreInv, NEW c \in Callers, NEW t \in Tokens \union {NoToken}, Call(c, t)
    PROVE  StoreInv'
<1> USE StoreAssumption
<1>1. StoreTypeOK'
  BY DEF StoreInv, StoreTypeOK, Call, Goto, Steps, lockVars
<1>2. ~Inside(c) /\ tok' = [tok EXCEPT ![c] = t] /\ tok'[c] = t
  BY DEF StoreInv, StoreTypeOK, Call, Inside, Counted, Critical
<1>3. UNCHANGED <<lk, lockVars>>
  BY DEF Call, lockVars
<1>4. CASE t = NoToken
  <2>1. Goto(c, "create") /\ "create" \in Steps
    BY <1>4 DEF Call, Steps
  <2> QED
    BY <1>1, <1>2, <1>3, <1>4, <2>1, LocalStepInv
<1>5. CASE t # NoToken
  <2>1. Goto(c, "ref") /\ "ref" \in Steps
    BY <1>5 DEF Call, Steps
  <2> QED
    BY <1>1, <1>2, <1>3, <1>5, <2>1, LocalStepInv
<1> QED
  BY <1>4, <1>5

\* lookup, replay, create and put move a caller that holds its lock.
LEMMA LookupInv ==
    ASSUME StoreInv, NEW c \in Callers, Lookup(c)
    PROVE  StoreInv'
<1> USE StoreAssumption
<1>1. tok[c] # NoToken /\ tok[c] \in Tokens
  BY DEF StoreInv, StoreTypeOK, UntrackedStaysOut, Lookup
<1>2. StoreTypeOK'
  <2>1. CASE UNCHANGED entries /\ got' = [got EXCEPT ![c] = entries[tok[c]].id]
             /\ Goto(c, "replay")
    BY <1>1, <2>1 DEF StoreInv, StoreTypeOK, Lookup, Goto, Steps, lockVars
  <2>2. CASE UNCHANGED got /\ entries' = [entries EXCEPT ![tok[c]] = NoEntry]
             /\ Goto(c, "create")
    BY <1>1, <2>2 DEF StoreInv, StoreTypeOK, Lookup, Goto, Steps, NoEntry, lockVars
  <2> QED
    BY <2>1, <2>2 DEF Lookup
<1>3. PICK s \in {"replay", "create"} : Goto(c, s)
  BY DEF Lookup
<1> QED
  BY <1>1, <1>2, <1>3, LocalStepInv DEF Lookup, Steps, Counted, Critical

\* put touches no lock.
LEMMA PutInv ==
    ASSUME StoreInv, NEW c \in Callers, Put(c)
    PROVE  StoreInv'
<1> USE StoreAssumption
<1>1. PutEntries(c) \in [Tokens -> [id : Ids \union {NoId}, expireAt : Int]]
  BY DEF StoreInv, StoreTypeOK, PutEntries, NoEntry
<1>2. StoreTypeOK'
  BY <1>1 DEF StoreInv, StoreTypeOK, Put, Goto, Steps, lockVars
<1>3. tok[c] # NoToken
  BY DEF StoreInv, UntrackedStaysOut, Put
<1> QED
  BY <1>2, <1>3, LocalStepInv DEF Put, Steps, Counted, Critical

\* The clock touches no lock.
LEMMA TickInv ==
    ASSUME StoreInv, Tick
    PROVE  StoreInv'
<1> USE StoreAssumption
<1>1. StoreTypeOK'
  BY DEF StoreInv, StoreTypeOK, Tick, callVars, lockVars
<1> QED
  BY <1>1 DEF Tick, callVars, lockVars, StoreInv, UntrackedStaysOut, PointsToTable,
              HeldByHolder, TableInjective, TableUsed, RefsCount, Inside, Holding,
              Referrers

\* l.mu.Lock: the caller becomes the holder of an object nobody held.
LEMMA LockAcquireInv ==
    ASSUME StoreInv, NEW c \in Callers, LockAcquire(c)
    PROVE  StoreInv'
<1> USE StoreAssumption
<1>1. /\ tok[c] # NoToken
      /\ lk[c] \in LockIds
      /\ pc[c] = "acquire"
  BY DEF StoreInv, UntrackedStaysOut, PointsToTable, Inside, Counted, Critical, LockAcquire
<1>2. StoreTypeOK'
  BY DEF StoreInv, StoreTypeOK, LockAcquire, Goto, Steps, lockVars
<1>3. /\ pc' = [pc EXCEPT ![c] = "lookup"]
      /\ UNCHANGED <<tok, lk, locks, refs>>
      /\ held' = [held EXCEPT ![lk[c]] = c]
      /\ held[lk[c]] = NoLock
  BY DEF LockAcquire, Goto
<1>4. \A d \in Callers : /\ Inside(d)' <=> Inside(d)
                         /\ d # c => (Holding(d)' <=> Holding(d))
  BY <1>1, <1>3 DEF StoreInv, StoreTypeOK, Inside, Holding, Counted, Critical
<1>5. Holding(c)' /\ ~Holding(c)
  BY <1>1, <1>3 DEF StoreInv, StoreTypeOK, Holding, Critical
<1>6. UntrackedStaysOut'
  BY <1>1, <1>3 DEF StoreInv, StoreTypeOK, UntrackedStaysOut
<1>7. PointsToTable'
  BY <1>3, <1>4 DEF StoreInv, PointsToTable
<1>8. HeldByHolder'
  BY <1>1, <1>3, <1>4, <1>5 DEF StoreInv, StoreTypeOK, HeldByHolder
<1>9. TableInjective' /\ TableUsed'
  BY <1>3, <1>4 DEF StoreInv, TableInjective, TableUsed
<1>10. RefsCount'
  <2>1. ASSUME NEW l \in LockIds PROVE Referrers(l)' = Referrers(l)
    BY <1>3, <1>7, ReferrersArePointers DEF StoreInv, PointsToTable, Referrers, Inside
  <2> QED
    BY <1>3, <2>1 DEF StoreInv, RefsCount
<1> QED
  BY <1>2, <1>6, <1>7, <1>8, <1>9, <1>10 DEF StoreInv

\* l.mu.Unlock: the object is free and its caller still counted.
LEMMA UnlockInv ==
    ASSUME StoreInv, NEW c \in Callers, Unlock(c)
    PROVE  StoreInv'
<1> USE StoreAssumption
<1>1. /\ tok[c] # NoToken
      /\ lk[c] \in LockIds
      /\ pc[c] = "unlock"
      /\ held[lk[c]] = c
  BY DEF StoreInv, UntrackedStaysOut, PointsToTable, HeldByHolder, Inside, Holding,
         Counted, Critical, Unlock
<1>2. StoreTypeOK'
  BY DEF StoreInv, StoreTypeOK, Unlock, Goto, Steps, lockVars
<1>3. /\ pc' = [pc EXCEPT ![c] = "deref"]
      /\ UNCHANGED <<tok, lk, locks, refs>>
      /\ held' = [held EXCEPT ![lk[c]] = NoLock]
  BY DEF Unlock, Goto
<1>4. \A d \in Callers : /\ Inside(d)' <=> Inside(d)
                         /\ d # c => (Holding(d)' <=> Holding(d))
  BY <1>1, <1>3 DEF StoreInv, StoreTypeOK, Inside, Holding, Counted, Critical
<1>5. ~Holding(c)'
  BY <1>1, <1>3 DEF StoreInv, StoreTypeOK, Holding, Critical
<1>6. UntrackedStaysOut'
  BY <1>1, <1>3 DEF StoreInv, StoreTypeOK, UntrackedStaysOut
<1>7. PointsToTable'
  BY <1>3, <1>4 DEF StoreInv, PointsToTable
<1>8. HeldByHolder'
  BY <1>1, <1>3, <1>4, <1>5 DEF StoreInv, StoreTypeOK, HeldByHolder
<1>9. TableInjective' /\ TableUsed'
  BY <1>3, <1>4 DEF StoreInv, TableInjective, TableUsed
<1>10. RefsCount'
  <2>1. ASSUME NEW l \in LockIds PROVE Referrers(l)' = Referrers(l)
    BY <1>3, <1>7, ReferrersArePointers DEF StoreInv, PointsToTable, Referrers, Inside
  <2> QED
    BY <1>3, <2>1 DEF StoreInv, RefsCount
<1> QED
  BY <1>2, <1>6, <1>7, <1>8, <1>9, <1>10 DEF StoreInv

\* s.lock, first half: the caller joins the object of its token, which is new
\* when the table has none.
LEMMA LockRefInv ==
    ASSUME StoreInv, NEW c \in Callers, LockRef(c)
    PROVE  StoreInv'
<1> USE StoreAssumption
<1>1. PICK l \in LockIds :
        /\ IF locks[tok[c]] = NoLock THEN Unused(l) ELSE l = locks[tok[c]]
        /\ locks' = [locks EXCEPT ![tok[c]] = l]
        /\ refs' = [refs EXCEPT ![l] =
                      IF locks[tok[c]] = NoLock THEN 1 ELSE refs[l] + 1]
        /\ lk' = [lk EXCEPT ![c] = l]
  BY DEF LockRef
<1>2. /\ tok[c] \in Tokens
      /\ pc[c] = "ref"
      /\ pc' = [pc EXCEPT ![c] = "acquire"]
      /\ UNCHANGED <<tok, held>>
  BY DEF StoreInv, StoreTypeOK, UntrackedStaysOut, LockRef, Goto
<1>3. ~Inside(c) /\ ~Holding(c) /\ lk[c] = NoLock
  BY <1>2 DEF StoreInv, PointsToTable, Inside, Holding, Counted, Critical
<1>4. StoreTypeOK'
  <2>1. refs' \in [LockIds -> Nat] /\ locks' \in [Tokens -> LockIds \union {NoLock}]
    BY <1>1, <1>2 DEF StoreInv, StoreTypeOK
  <2> QED
    BY <1>1, <2>1 DEF StoreInv, StoreTypeOK, LockRef, Goto, Steps
<1>5. \A d \in Callers : /\ d # c => (Inside(d)' <=> Inside(d))
                         /\ Holding(d)' <=> Holding(d)
  BY <1>2, <1>3 DEF StoreInv, StoreTypeOK, Inside, Holding, Counted, Critical
<1>6. Inside(c)'
  BY <1>2 DEF StoreInv, StoreTypeOK, Inside, Counted, Critical
<1>7. UntrackedStaysOut'
  BY <1>2 DEF StoreInv, StoreTypeOK, UntrackedStaysOut
<1>8. ASSUME NEW t \in Tokens, t # tok[c] PROVE locks'[t] = locks[t] /\ locks[t] # l
  BY <1>1, <1>2, <1>8 DEF StoreInv, StoreTypeOK, TableInjective, Unused
<1>9. locks'[tok[c]] = l
  BY <1>1, <1>2 DEF StoreInv, StoreTypeOK
<1>10. ASSUME NEW d \in Callers, Inside(d) PROVE locks'[tok[d]] = locks[tok[d]]
  <2>1. tok[d] \in Tokens /\ lk[d] \in LockIds /\ locks[tok[d]] = lk[d]
    BY <1>10 DEF StoreInv, StoreTypeOK, PointsToTable, Inside
  <2>2. CASE tok[d] = tok[c]
    BY <1>1, <1>9, <2>1, <2>2
  <2> QED
    BY <1>8, <2>1, <2>2
<1>11. PointsToTable'
  BY <1>1, <1>2, <1>3, <1>5, <1>6, <1>9, <1>10 DEF StoreInv, StoreTypeOK, PointsToTable
<1>12. HeldByHolder'
  BY <1>1, <1>2, <1>3, <1>5 DEF StoreInv, StoreTypeOK, HeldByHolder
<1>13. TableInjective'
  BY <1>8, <1>9 DEF StoreInv, TableInjective
<1>14. TableUsed'
  <2> SUFFICES ASSUME NEW t \in Tokens, locks'[t] # NoLock
               PROVE  \E d \in Callers : Inside(d)' /\ tok'[d] = t
    BY DEF TableUsed
  <2>1. CASE t = tok[c]
    BY <1>2, <1>6, <2>1
  <2>2. CASE t # tok[c]
    BY <1>2, <1>3, <1>5, <1>8, <2>2 DEF StoreInv, TableUsed
  <2> QED
    BY <2>1, <2>2
<1>15. RefsCount'
  <2> SUFFICES ASSUME NEW m \in LockIds
               PROVE  refs'[m] = Cardinality(Referrers(m)')
    BY DEF RefsCount
  <2>0. /\ Referrers(m)' = {d \in Callers : lk'[d] = m}
        /\ Referrers(m) = {d \in Callers : lk[d] = m}
    BY <1>11, ReferrersArePointers DEF StoreInv, PointsToTable, Referrers, Inside
  <2>1. CASE m # l
    <3>1. Referrers(m)' = Referrers(m)
      BY <1>1, <1>3, <2>0, <2>1 DEF StoreInv, StoreTypeOK
    <3> QED
      BY <1>1, <2>1, <3>1 DEF StoreInv, StoreTypeOK, RefsCount
  <2>2. CASE m = l
    <3>1. Referrers(m)' = Referrers(m) \union {c} /\ c \notin Referrers(m)
      BY <1>1, <1>3, <2>0, <2>2 DEF StoreInv, StoreTypeOK
    <3>2. Cardinality(Referrers(m)') = refs[m] + 1
      BY <3>1, ReferrersFinite, FS_AddElement DEF StoreInv, RefsCount
    <3>3. CASE locks[tok[c]] = NoLock
      <4>1. Referrers(m) = {}
        BY <1>1, <2>0, <2>2, <3>3 DEF Unused
      <4>2. refs[m] = 0
        BY <4>1, FS_EmptySet DEF StoreInv, RefsCount
      <4> QED
        BY <1>1, <2>2, <3>2, <3>3, <4>2 DEF StoreInv, StoreTypeOK
    <3>4. CASE locks[tok[c]] # NoLock
      BY <1>1, <2>2, <3>2, <3>4 DEF StoreInv, StoreTypeOK
    <3> QED
      BY <3>3, <3>4
  <2> QED
    BY <2>1, <2>2
<1> QED
  BY <1>4, <1>7, <1>11, <1>12, <1>13, <1>14, <1>15 DEF StoreInv

\* The second half of the deferred unlock: the caller leaves its object, and
\* the last one to leave takes it out of the table.
LEMMA DerefInv ==
    ASSUME StoreInv, NEW c \in Callers, Deref(c)
    PROVE  StoreInv'
<1> USE StoreAssumption
<1> DEFINE l == lk[c]
<1>1. /\ tok[c] \in Tokens
      /\ pc[c] = "deref"
      /\ Inside(c) /\ ~Holding(c)
      /\ l \in LockIds /\ locks[tok[c]] = l
  BY DEF StoreInv, StoreTypeOK, UntrackedStaysOut, PointsToTable, Inside, Holding,
         Counted, Critical, Deref
<1>2. /\ pc' = [pc EXCEPT ![c] = "idle"]
      /\ tok' = [tok EXCEPT ![c] = NoToken]
      /\ lk' = [lk EXCEPT ![c] = NoLock]
      /\ refs' = [refs EXCEPT ![l] = refs[l] - 1]
      /\ locks' = IF refs[l] = 1 THEN [locks EXCEPT ![tok[c]] = NoLock] ELSE locks
      /\ UNCHANGED held
  BY DEF Deref, Return, Goto
<1>3. \A m \in LockIds : Referrers(m) = {d \in Callers : lk[d] = m}
  BY ReferrersArePointers DEF StoreInv
<1>4. c \in Referrers(l) /\ refs[l] \in Nat /\ refs[l] > 0
  BY <1>1, <1>3, ReferrersFinite, FS_EmptySet DEF StoreInv, RefsCount
<1>5. StoreTypeOK'
  <2>1. refs' \in [LockIds -> Nat] /\ locks' \in [Tokens -> LockIds \union {NoLock}]
    BY <1>1, <1>2, <1>4 DEF StoreInv, StoreTypeOK
  <2> QED
    BY <2>1 DEF StoreInv, StoreTypeOK, Deref, Return, Goto, Steps
<1>6. \A d \in Callers : d # c => /\ Inside(d)' <=> Inside(d)
                                  /\ Holding(d)' <=> Holding(d)
                                  /\ tok'[d] = tok[d]
                                  /\ lk'[d] = lk[d]
  BY <1>2 DEF StoreInv, StoreTypeOK, Inside, Holding
<1>7. ~Inside(c)' /\ ~Holding(c)' /\ lk'[c] = NoLock
  BY <1>2 DEF StoreInv, StoreTypeOK, Inside, Holding, Counted, Critical
<1>8. UntrackedStaysOut'
  BY <1>2 DEF StoreInv, StoreTypeOK, UntrackedStaysOut
\* A caller that stays has the object's token, so the count is not one.
<1>9. ASSUME NEW d \in Callers, d # c, Inside(d), tok[d] = tok[c]
      PROVE  refs[l] # 1
  <2>1. d \in Referrers(l)
    BY <1>1, <1>3, <1>9 DEF StoreInv, PointsToTable
  <2> QED
    BY <1>1, <1>4, <1>9, <2>1, ReferrersFinite, FS_Singleton DEF StoreInv, RefsCount
<1>10. ASSUME NEW d \in Callers, d # c, Inside(d) PROVE locks'[tok[d]] = locks[tok[d]]
  BY <1>1, <1>2, <1>9, <1>10 DEF StoreInv, StoreTypeOK, Inside
<1>11. PointsToTable'
  BY <1>6, <1>7, <1>10 DEF StoreInv, PointsToTable
<1>12. HeldByHolder'
  BY <1>1, <1>2, <1>6, <1>7 DEF StoreInv, HeldByHolder
<1>13. TableInjective'
  BY <1>1, <1>2 DEF StoreInv, StoreTypeOK, TableInjective
<1>14. TableUsed'
  <2> SUFFICES ASSUME NEW t \in Tokens, locks'[t] # NoLock
               PROVE  \E d \in Callers : Inside(d)' /\ tok'[d] = t
    BY DEF TableUsed
  <2>1. CASE t # tok[c]
    <3>1. locks[t] # NoLock
      BY <1>1, <1>2, <2>1 DEF StoreInv, StoreTypeOK
    <3> QED
      BY <1>6, <2>1, <3>1 DEF StoreInv, TableUsed
  <2>2. CASE t = tok[c]
    <3>1. refs[l] # 1
      BY <1>1, <1>2, <2>2 DEF StoreInv, StoreTypeOK
    <3>2. PICK d \in Callers : d # c /\ lk[d] = l
      <4>1. Referrers(l) # {c}
        BY <1>1, <3>1, FS_Singleton DEF StoreInv, RefsCount
      <4>2. Referrers(l) = {d \in Callers : lk[d] = l}
        BY <1>1, <1>3
      <4> HIDE DEF l
      <4> QED
        BY <1>4, <4>1, <4>2
    <3>3. Inside(d) /\ locks[tok[d]] = locks[tok[c]] /\ tok[d] \in Tokens
      BY <1>1, <3>2 DEF StoreInv, StoreTypeOK, PointsToTable, Inside
    <3> QED
      BY <1>1, <1>6, <2>2, <3>2, <3>3 DEF StoreInv, TableInjective
  <2> QED
    BY <2>1, <2>2
<1>15. RefsCount'
  <2> SUFFICES ASSUME NEW m \in LockIds
               PROVE  refs'[m] = Cardinality(Referrers(m)')
    BY DEF RefsCount
  <2>0. Referrers(m)' = {d \in Callers : lk'[d] = m}
    BY <1>11 DEF PointsToTable, Referrers, Inside
  <2>1. CASE m # l
    <3>1. Referrers(m)' = Referrers(m)
      BY <1>1, <1>3, <1>6, <1>7, <2>0, <2>1
    <3> QED
      BY <1>1, <1>2, <2>1, <3>1 DEF StoreInv, StoreTypeOK, RefsCount
  <2>2. CASE m = l
    <3>1. Referrers(m)' = Referrers(m) \ {c}
      BY <1>1, <1>3, <1>6, <1>7, <2>0, <2>2
    <3>2. Cardinality(Referrers(m)') = refs[m] - 1
      BY <1>4, <2>2, <3>1, ReferrersFinite, FS_RemoveElement DEF StoreInv, RefsCount
    <3> QED
      BY <1>1, <1>2, <2>2, <3>2 DEF StoreInv, StoreTypeOK
  <2> QED
    BY <2>1, <2>2
<1> QED
  BY <1>5, <1>8, <1>11, <1>12, <1>13, <1>14, <1>15 DEF StoreInv

(***************************************************************************)
(* What it implies                                                         *)
(***************************************************************************)

\* Two holders of one token point to the same object, which has one holder.
LEMMA StoreInvMutex == StoreInv => TokenMutex
<1> SUFFICES ASSUME StoreInv, NEW c \in Callers, NEW d \in Callers,
                    pc[c] \in Critical, tok[c] # NoToken,
                    pc[d] \in Critical, tok[d] = tok[c]
             PROVE  c = d
  BY DEF TokenMutex
<1>1. Inside(c) /\ Inside(d) /\ Holding(c) /\ Holding(d)
  BY DEF Inside, Holding, Counted
<1>2. lk[c] \in LockIds /\ lk[c] = lk[d]
  BY <1>1 DEF StoreInv, PointsToTable
<1> QED
  BY <1>1, <1>2 DEF StoreInv, HeldByHolder

\* ... and that the table holds exactly the locks in use.
LEMMA StoreInvTable == StoreInv => LockTableExact
<1> SUFFICES ASSUME StoreInv, NEW t \in Tokens
             PROVE  /\ locks[t] # NoLock <=>
                         \E c \in Callers : tok[c] = t /\ pc[c] \in Counted
                    /\ locks[t] # NoLock =>
                         refs[locks[t]] = Cardinality(Referrers(locks[t]))
  BY DEF LockTableExact
<1>1. ASSUME NEW c \in Callers, tok[c] = t, pc[c] \in Counted
      PROVE  locks[t] # NoLock
  BY <1>1, StoreAssumption DEF StoreInv, PointsToTable, Inside
<1>2. locks[t] # NoLock => \E c \in Callers : tok[c] = t /\ pc[c] \in Counted
  BY DEF StoreInv, TableUsed, Inside
<1>3. locks[t] # NoLock => refs[locks[t]] = Cardinality(Referrers(locks[t]))
  BY DEF StoreInv, StoreTypeOK, RefsCount
<1> QED
  BY <1>1, <1>2, <1>3
=============================================================================
