------------------------- MODULE IdempotencyProofs -------------------------
(***************************************************************************)
(* Proofs about Idempotency, for every number of callers, tokens, ids and  *)
(* lock objects, every TTL and every clock bound.                          *)
(***************************************************************************)
EXTENDS Idempotency, IdempotencyStoreProofs

(***************************************************************************)
(* The lock table                                                          *)
(***************************************************************************)

LockInv == TypeOK /\ StoreInv

\* The lock table starts empty and nobody is in Do.
LEMMA LockInvInit == Init => LockInv
<1> SUFFICES ASSUME Init PROVE LockInv
  OBVIOUS
<1>1. StoreInv
  BY StoreInvInit DEF Init
<1>2. made \in [Ids -> Provenance]
  BY StoreAssumption DEF Init, Provenance
<1> QED
  BY <1>1, <1>2 DEF Init, LockInv, TypeOK, StoreInv

\* A step of the provider's closures that leaves the store's own state alone
\* and keeps the caller in its critical section.
LEMMA ClosureStepInv ==
    ASSUME StoreInv, NEW c \in Callers, NEW s \in {"create", "put", "unlock"},
           pc[c] \in {"replay", "create"}, tok[c] # NoToken,
           Goto(c, s), UNCHANGED <<clock, tok, now, lk, lockVars, entries>>,
           got' \in [Callers -> Ids \union {NoId}]
    PROVE  StoreInv'
<1>1. StoreTypeOK'
  BY DEF StoreInv, StoreTypeOK, Goto, Steps, lockVars
<1> QED
  BY <1>1, LocalStepInv DEF Steps, Counted, Critical

\* Steps of the store, of the closures and of the clock preserve LockInv.
LEMMA LockInvNext == LockInv /\ [Next]_vars => LockInv'
<1> SUFFICES ASSUME LockInv, [Next]_vars PROVE LockInv'
  OBVIOUS
<1> USE StoreAssumption DEF LockInv
<1>1. ASSUME NEW c \in Callers, NEW t \in Tokens \union {NoToken}, CallDo(c, t)
      PROVE  LockInv'
  BY <1>1, CallInv DEF CallDo, TypeOK, StoreInv
<1>2. ASSUME NEW c \in Callers, StoreStep(c)
      PROVE  LockInv'
  <2>1. StoreInv'
    BY <1>2, LockRefInv, LockAcquireInv, LookupInv, PutInv, UnlockInv, DerefInv
       DEF StoreStep
  <2> QED
    BY <1>2, <2>1 DEF StoreStep, TypeOK, StoreInv
<1>3. ASSUME NEW c \in Callers, Replay(c)
      PROVE  LockInv'
  <2>1. tok[c] # NoToken
    BY <1>3 DEF Replay, StoreInv, UntrackedStaysOut
  <2>2. PICK s \in {"create", "unlock"} : Goto(c, s)
    BY <1>3 DEF Replay
  <2>3. StoreInv'
    BY <1>3, <2>1, <2>2, ClosureStepInv DEF Replay, StoreInv, StoreTypeOK
  <2> QED
    BY <1>3, <2>3 DEF Replay, TypeOK, StoreInv
<1>4. ASSUME NEW c \in Callers, CreateOk(c)
      PROVE  LockInv'
  <2>1. PICK i \in Ids \ minted : Mint(c, i) /\ got' = [got EXCEPT ![c] = i]
    BY <1>4 DEF CreateOk
  <2>2. got' \in [Callers -> Ids \union {NoId}]
    BY <2>1 DEF StoreInv, StoreTypeOK
  <2>3. StoreInv'
    BY <1>4, <2>2, ClosureStepInv DEF CreateOk
  <2>4. made' \in [Ids -> Provenance]
    BY <2>1 DEF Mint, TypeOK, StoreTypeOK, Provenance
  <2> QED
    BY <2>1, <2>3, <2>4 DEF Mint, TypeOK, StoreInv
<1>5. ASSUME NEW c \in Callers, CreateErr(c)
      PROVE  LockInv'
  <2>1. StoreInv'
    BY <1>5, ClosureStepInv DEF CreateErr, StoreInv, StoreTypeOK
  <2> QED
    BY <1>5, <2>1 DEF CreateErr, TypeOK, StoreInv
<1>6. ASSUME NEW c \in Callers, CreateUntracked(c)
      PROVE  LockInv'
  <2>1. StoreTypeOK'
    BY <1>6 DEF CreateUntracked, Return, Goto, StoreInv, StoreTypeOK, Steps, lockVars
  <2>2. UNCHANGED <<lk, lockVars>> /\ ~Inside(c)
    BY <1>6 DEF CreateUntracked, Return, StoreInv, StoreTypeOK, PointsToTable, Inside, lockVars
  <2>3. tok' = [tok EXCEPT ![c] = NoToken] /\ tok'[c] = NoToken /\ Goto(c, "idle")
    BY <1>6 DEF CreateUntracked, Return, StoreInv, StoreTypeOK
  <2>4. StoreInv'
    BY <2>1, <2>2, <2>3, LocalStepInv DEF Steps
  <2>5. live' \subseteq minted' /\ minted' \subseteq Ids /\ made' \in [Ids -> Provenance]
    BY <1>6 DEF CreateUntracked, Mint, TypeOK, StoreTypeOK, Provenance
  <2> QED
    BY <2>4, <2>5 DEF TypeOK, StoreInv
<1>7. ASSUME NEW i \in Ids, Delete(i)
      PROVE  LockInv'
  BY <1>7 DEF Delete, TypeOK, StoreTypeOK, callVars, lockVars, StoreInv, UntrackedStaysOut,
              PointsToTable, HeldByHolder, TableInjective, TableUsed, RefsCount, Inside,
              Holding, Referrers
<1>8. CASE Advance
  BY <1>8, TickInv DEF Advance, TypeOK, StoreInv
<1>9. CASE UNCHANGED vars
  BY <1>9 DEF vars, TypeOK, StoreTypeOK, callVars, lockVars, StoreInv, UntrackedStaysOut,
              PointsToTable, HeldByHolder, TableInjective, TableUsed, RefsCount, Inside,
              Holding, Referrers
<1> QED
  BY <1>1, <1>2, <1>3, <1>4, <1>5, <1>6, <1>7, <1>8, <1>9 DEF Next

\* The lock invariant holds throughout.
LEMMA LockInvAlways == Spec => []LockInv
BY LockInvInit, LockInvNext, PTL DEF Spec

\* Every state of the store and of the provider has the declared shape; a
\* lock object's refs never goes below zero, for which the whole lock
\* invariant is needed.
THEOREM TypeCorrect == Spec => []TypeOK
BY LockInvAlways, PTL DEF LockInv

\* Callers sharing a token run one at a time, for any number of callers and
\* however often the lock objects are dropped and allocated again.
THEOREM MutualExclusion == Spec => []TokenMutex
<1>1. LockInv => TokenMutex
  BY StoreInvMutex DEF LockInv
<1> QED
  BY <1>1, LockInvAlways, PTL

\* The locks map holds exactly the locks in use, each with its true count.
THEOREM LockTableIsExact == Spec => []LockTableExact
<1>1. LockInv => LockTableExact
  BY StoreInvTable DEF LockInv
<1> QED
  BY <1>1, LockInvAlways, PTL

(***************************************************************************)
(* The window                                                              *)
(***************************************************************************)

\* A token's live resources, other than x, whose window is not over.
Unfinished(t, x) ==
    {a \in live : a # x /\ made[a].tok = t /\ ~(clock > made[a].now + TTL)}

\* A caller's now is never ahead of the clock.
NowIsPast == \A c \in Callers : now[c] <= clock

\* A caller in put records what it has just made.
PutRecordsOwn ==
    \A c \in Callers : pc[c] = "put" => /\ got[c] \in minted
                                        /\ made[got[c]].tok = tok[c]
                                        /\ made[got[c]].now = now[c]

\* A caller with a token creates only when nothing it should have found is
\* left, and records its own before anything else is.
CreatesAlone ==
    \A c \in Callers : /\ pc[c] = "create" /\ tok[c] # NoToken => Unfinished(tok[c], NoId) = {}
                       /\ pc[c] = "put" => Unfinished(tok[c], got[c]) = {}

\* While a caller replays, its token's entry stays the one it found or goes.
ReplaysTheEntry ==
    \A c \in Callers : pc[c] = "replay" => entries[tok[c]].id \in {got[c], NoId}

WindowInv ==
    TTL > 0 => /\ NowIsPast
               /\ PutRecordsOwn
               /\ CreatesAlone
               /\ ReplaysTheEntry
               /\ FindableForItsWindow
               /\ OneResourcePerWindow

\* There are no resources to find at the start.
LEMMA WindowInvInit == Init => WindowInv
BY StoreAssumption DEF Init, StoreInit, WindowInv, NowIsPast, PutRecordsOwn, CreatesAlone,
   ReplaysTheEntry, FindableForItsWindow, OneResourcePerWindow

\* A caller that starts, waits, unlocks or leaves, and one that replays or
\* fails to create, changes nothing the window depends on but its own step;
\* it enters neither put nor replay, and create only with nothing left to find.
LEMMA QuietStepInv ==
    ASSUME LockInv, WindowInv, TTL > 0, NEW c \in Callers, NEW s,
           Goto(c, s), s \notin {"put", "replay"}, pc[c] # "put",
           \A d \in Callers \ {c} :
              tok'[d] = tok[d] /\ now'[d] = now[d] /\ got'[d] = got[d],
           s = "create" /\ tok'[c] # NoToken => Unfinished(tok'[c], NoId) = {},
           now'[c] <= clock,
           UNCHANGED <<clock, entries, live, minted, made>>
    PROVE  WindowInv'
<1> USE StoreAssumption
<1>1. pc'[c] = s /\ \A d \in Callers \ {c} : pc'[d] = pc[d]
  BY DEF LockInv, TypeOK, StoreTypeOK, Goto
<1>2. \A t, x : Unfinished(t, x)' = Unfinished(t, x)
  BY DEF Unfinished
<1>3. NowIsPast'
  BY DEF WindowInv, NowIsPast
<1>4. PutRecordsOwn'
  BY <1>1 DEF WindowInv, PutRecordsOwn
<1>5. CreatesAlone'
  BY <1>1, <1>2 DEF WindowInv, CreatesAlone
<1>6. ReplaysTheEntry'
  BY <1>1 DEF WindowInv, ReplaysTheEntry
<1>7. FindableForItsWindow'
  BY <1>1 DEF WindowInv, FindableForItsWindow, Guarded
<1>8. OneResourcePerWindow'
  BY DEF WindowInv, OneResourcePerWindow
<1> QED
  BY <1>3, <1>4, <1>5, <1>6, <1>7, <1>8 DEF WindowInv

\* In the critical section of its token a caller is the only one in put.
LEMMA NobodyElsePuts ==
    ASSUME LockInv, NEW c \in Callers, NEW d \in Callers, c # d,
           pc[c] \in Critical, tok[c] # NoToken, tok[d] = tok[c]
    PROVE  pc[d] \notin Critical
BY StoreInvMutex DEF LockInv, TokenMutex

\* A lookup that misses leaves nothing unfinished to be found.
LEMMA LookupWindow ==
    ASSUME LockInv, WindowInv, TTL > 0, NEW c \in Callers, Lookup(c),
           UNCHANGED <<live, minted, made>>
    PROVE  WindowInv'
<1> USE StoreAssumption
<1>1. tok[c] \in Tokens /\ pc[c] = "lookup"
  BY DEF LockInv, StoreInv, StoreTypeOK, UntrackedStaysOut, Lookup
<1>2. \A d \in Callers \ {c} : /\ pc'[d] = pc[d] /\ got'[d] = got[d]
                               /\ tok[d] = tok[c] => pc[d] \notin Critical
  BY <1>1, NobodyElsePuts DEF LockInv, StoreInv, StoreTypeOK, Lookup, Goto, Critical
<1>3. UNCHANGED <<clock, tok, now>> /\ now[c] <= clock
  BY DEF Lookup, WindowInv, NowIsPast
<1>4. \A t, x : Unfinished(t, x)' = Unfinished(t, x)
  BY <1>3 DEF Unfinished
<1>5. CASE /\ got' = [got EXCEPT ![c] = entries[tok[c]].id]
           /\ Goto(c, "replay")
           /\ UNCHANGED entries
  <2>1. pc'[c] = "replay" /\ got'[c] = entries[tok[c]].id
    BY <1>5 DEF LockInv, TypeOK, StoreTypeOK, Goto
  <2>2. NowIsPast' /\ PutRecordsOwn' /\ ReplaysTheEntry'
    BY <1>2, <1>3, <1>5, <2>1 DEF WindowInv, NowIsPast, PutRecordsOwn, ReplaysTheEntry
  <2>3. CreatesAlone'
    BY <1>2, <1>3, <1>4, <2>1 DEF WindowInv, CreatesAlone
  <2>4. FindableForItsWindow' /\ OneResourcePerWindow'
    BY <1>1, <1>2, <1>3, <1>5 DEF WindowInv, FindableForItsWindow, Guarded, OneResourcePerWindow
  <2> QED
    BY <2>2, <2>3, <2>4 DEF WindowInv
<1>6. CASE /\ entries[tok[c]].id = NoId \/ Expired(entries[tok[c]], now[c])
           /\ entries' = [entries EXCEPT ![tok[c]] = NoEntry]
           /\ Goto(c, "create")
           /\ UNCHANGED got
  <2>1. pc'[c] = "create"
    BY <1>6 DEF LockInv, TypeOK, StoreTypeOK, Goto
  \* What the caller does not find has run out its window.
  <2>2. ASSUME NEW a \in live, made[a].tok = tok[c]
        PROVE  clock > made[a].now + TTL
    <3>1. Guarded(a)
      BY <1>1, <2>2 DEF WindowInv, FindableForItsWindow
    <3>2. a \in Ids /\ now[c] \in Int /\ clock \in Int /\ made[a].now \in Int
      BY DEF LockInv, TypeOK, StoreTypeOK, Provenance
    <3>3. CASE entries[tok[c]] = [id |-> a, expireAt |-> made[a].now + TTL]
      BY <1>3, <1>6, <3>2, <3>3 DEF Expired
    <3>4. ~ \E d \in Callers : pc[d] = "put" /\ tok[d] = tok[c]
      BY <1>1, <1>2 DEF Critical
    <3> QED
      BY <2>2, <3>1, <3>3, <3>4 DEF Guarded
  <2>3. NowIsPast' /\ PutRecordsOwn'
    BY <1>2, <1>3, <1>6, <2>1 DEF WindowInv, NowIsPast, PutRecordsOwn
  <2>4. ReplaysTheEntry'
    <3> SUFFICES ASSUME NEW d \in Callers, pc'[d] = "replay"
                 PROVE  entries'[tok[d]].id \in {got[d], NoId}
      BY <1>3, <1>6 DEF ReplaysTheEntry
    <3>1. d # c /\ pc[d] = "replay" /\ tok[d] # tok[c]
      BY <1>2, <2>1 DEF Critical
    <3>2. entries'[tok[d]] = entries[tok[d]]
      BY <1>6, <3>1 DEF LockInv, StoreInv, StoreTypeOK, UntrackedStaysOut
    <3> QED
      BY <3>1, <3>2 DEF WindowInv, ReplaysTheEntry
  <2>5. CreatesAlone'
    <3>1. Unfinished(tok[c], NoId) = {}
      BY <2>2 DEF Unfinished
    <3> QED
      BY <1>2, <1>3, <1>4, <1>6, <2>1, <3>1 DEF WindowInv, CreatesAlone
  <2>6. FindableForItsWindow'
    <3> SUFFICES ASSUME NEW a \in live, made[a].tok # NoToken
                 PROVE  Guarded(a)'
      BY DEF FindableForItsWindow
    <3>1. CASE made[a].tok = tok[c]
      BY <1>3, <2>2, <3>1 DEF Guarded
    <3>2. CASE made[a].tok # tok[c]
      <4>1. entries'[made[a].tok] = entries[made[a].tok]
        BY <1>6, <3>2 DEF LockInv, TypeOK, StoreTypeOK, Provenance
      <4>2. Guarded(a)
        BY DEF WindowInv, FindableForItsWindow
      <4> QED
        BY <1>1, <1>2, <1>3, <1>6, <4>1, <4>2 DEF Guarded
    <3> QED
      BY <3>1, <3>2
  <2>7. OneResourcePerWindow'
    BY DEF WindowInv, OneResourcePerWindow
  <2> QED
    BY <2>3, <2>4, <2>5, <2>6, <2>7 DEF WindowInv
<1> QED
  BY <1>5, <1>6 DEF Lookup

\* put sweeps only entries past their window, whoever's now it goes by.
LEMMA PutWindow ==
    ASSUME LockInv, WindowInv, TTL > 0, NEW c \in Callers, Put(c),
           UNCHANGED <<live, minted, made>>
    PROVE  WindowInv'
<1> USE StoreAssumption
<1>1. tok[c] \in Tokens /\ pc[c] = "put" /\ pc'[c] = "unlock"
  BY DEF LockInv, StoreInv, StoreTypeOK, UntrackedStaysOut, Put, Goto
<1>2. \A d \in Callers \ {c} : /\ pc'[d] = pc[d]
                               /\ tok[d] = tok[c] => pc[d] \notin Critical
  BY <1>1, NobodyElsePuts DEF LockInv, StoreInv, StoreTypeOK, Put, Goto, Critical
<1>3. UNCHANGED <<clock, tok, now, got>> /\ now[c] <= clock
  BY DEF Put, WindowInv, NowIsPast
<1>4. \A t, x : Unfinished(t, x)' = Unfinished(t, x)
  BY <1>3 DEF Unfinished
<1>5. ASSUME NEW t \in Tokens
      PROVE  entries'[t] = IF t = tok[c] THEN [id |-> got[c], expireAt |-> now[c] + TTL]
                           ELSE IF Expired(entries[t], now[c]) THEN NoEntry
                           ELSE entries[t]
  BY DEF Put, PutEntries
<1>6. NowIsPast' /\ PutRecordsOwn' /\ OneResourcePerWindow'
  BY <1>1, <1>2, <1>3 DEF WindowInv, NowIsPast, PutRecordsOwn, OneResourcePerWindow
<1>7. CreatesAlone'
  BY <1>1, <1>2, <1>3, <1>4 DEF WindowInv, CreatesAlone
<1>8. ReplaysTheEntry'
  <2> SUFFICES ASSUME NEW d \in Callers, pc'[d] = "replay"
               PROVE  entries'[tok[d]].id \in {got[d], NoId}
    BY <1>3 DEF ReplaysTheEntry
  <2>1. d # c /\ pc[d] = "replay" /\ tok[d] # tok[c] /\ tok[d] \in Tokens
    BY <1>1, <1>2 DEF LockInv, StoreInv, StoreTypeOK, UntrackedStaysOut, Critical
  <2> QED
    BY <1>5, <2>1 DEF WindowInv, ReplaysTheEntry, NoEntry
<1>9. FindableForItsWindow'
  <2> SUFFICES ASSUME NEW a \in live, made[a].tok # NoToken
               PROVE  Guarded(a)'
    BY DEF FindableForItsWindow
  <2>1. Guarded(a)
    BY DEF WindowInv, FindableForItsWindow
  <2>2. /\ a \in Ids /\ made[a].tok \in Tokens
        /\ made[a].now \in Int /\ now[c] \in Int /\ clock \in Int
    BY DEF LockInv, TypeOK, StoreTypeOK, Provenance
  <2>3. CASE a = got[c] /\ made[a].tok = tok[c]
    BY <1>1, <1>3, <1>5, <2>3 DEF Guarded, WindowInv, PutRecordsOwn
  <2>4. CASE a # got[c] /\ made[a].tok = tok[c]
    <3>1. a \notin Unfinished(tok[c], got[c])
      BY <1>1 DEF WindowInv, CreatesAlone
    <3> QED
      BY <1>3, <2>4, <3>1 DEF Guarded, Unfinished
  <2>5. CASE made[a].tok # tok[c] /\ Expired(entries[made[a].tok], now[c])
    <3>1. CASE entries[made[a].tok] = [id |-> a, expireAt |-> made[a].now + TTL]
      BY <1>3, <2>2, <2>5, <3>1 DEF Guarded, Expired
    <3> QED
      BY <1>1, <1>2, <1>3, <2>1, <2>5, <3>1 DEF Guarded
  <2>6. CASE made[a].tok # tok[c] /\ ~Expired(entries[made[a].tok], now[c])
    BY <1>1, <1>2, <1>3, <1>5, <2>1, <2>2, <2>6 DEF Guarded
  <2> QED
    BY <1>1, <2>3, <2>4, <2>5, <2>6 DEF WindowInv, PutRecordsOwn
<1> QED
  BY <1>6, <1>7, <1>8, <1>9 DEF WindowInv

\* A new resource is made when its token has none left in its window, and is
\* guarded by its maker until the entry is there.
LEMMA CreateOkWindow ==
    ASSUME LockInv, WindowInv, TTL > 0, NEW c \in Callers, CreateOk(c)
    PROVE  WindowInv'
<1> USE StoreAssumption
<1>1. PICK i \in Ids \ minted : Mint(c, i) /\ got' = [got EXCEPT ![c] = i]
  BY DEF CreateOk
<1>2. tok[c] \in Tokens /\ pc[c] = "create" /\ pc'[c] = "put" /\ got'[c] = i
  BY <1>1 DEF LockInv, StoreInv, StoreTypeOK, CreateOk, Goto
<1>3. \A d \in Callers \ {c} : /\ pc'[d] = pc[d] /\ got'[d] = got[d]
                               /\ tok[d] = tok[c] => pc[d] \notin Critical
  BY <1>1, <1>2, NobodyElsePuts DEF LockInv, StoreInv, StoreTypeOK, CreateOk, Goto, Critical
<1>4. UNCHANGED <<clock, tok, now, entries>>
  BY DEF CreateOk
<1>5. /\ made'[i] = [tok |-> tok[c], now |-> now[c], clk |-> clock]
      /\ \A a \in minted : a # i /\ made'[a] = made[a]
      /\ live' = live \union {i} /\ live \subseteq minted /\ minted \subseteq minted'
      /\ i \in minted'
  BY <1>1 DEF Mint, LockInv, TypeOK
<1>6. ASSUME NEW a \in live, made[a].tok = tok[c] PROVE clock > made[a].now + TTL
  <2>1. a # NoId /\ a \notin Unfinished(tok[c], NoId)
    BY <1>2, <1>5 DEF WindowInv, CreatesAlone, LockInv, TypeOK
  <2> QED
    BY <1>6, <2>1 DEF Unfinished
<1>7. NowIsPast'
  BY <1>4 DEF WindowInv, NowIsPast
<1>8. PutRecordsOwn'
  BY <1>2, <1>3, <1>4, <1>5 DEF WindowInv, PutRecordsOwn
<1>9. CreatesAlone'
  <2>1. Unfinished(tok[c], i)' = {}
    BY <1>4, <1>5, <1>6 DEF Unfinished
  <2>2. ASSUME NEW d \in Callers \ {c}, pc[d] \in Critical, NEW x
        PROVE  Unfinished(tok[d], x)' = Unfinished(tok[d], x)
    BY <1>3, <1>4, <1>5, <2>2 DEF Unfinished
  <2> QED
    BY <1>2, <1>3, <1>4, <2>1, <2>2 DEF WindowInv, CreatesAlone, Critical
<1>10. ReplaysTheEntry'
  BY <1>2, <1>3, <1>4 DEF WindowInv, ReplaysTheEntry
<1>11. FindableForItsWindow'
  <2> SUFFICES ASSUME NEW a \in live', made'[a].tok # NoToken
               PROVE  Guarded(a)'
    BY DEF FindableForItsWindow
  <2>1. CASE a = i
    BY <1>2, <1>4, <1>5, <2>1 DEF Guarded
  <2>2. CASE a # i
    <3>1. a \in live /\ made'[a] = made[a] /\ Guarded(a)
      BY <1>5, <2>2 DEF WindowInv, FindableForItsWindow
    <3> QED
      BY <1>2, <1>3, <1>4, <3>1 DEF Guarded
  <2> QED
    BY <2>1, <2>2
<1>12. OneResourcePerWindow'
  BY <1>2, <1>5, <1>6 DEF WindowInv, OneResourcePerWindow
<1> QED
  BY <1>7, <1>8, <1>9, <1>10, <1>11, <1>12 DEF WindowInv

\* A create without a token concerns no token's window.
LEMMA CreateUntrackedWindow ==
    ASSUME LockInv, WindowInv, TTL > 0, NEW c \in Callers, CreateUntracked(c)
    PROVE  WindowInv'
<1> USE StoreAssumption
<1>1. /\ pc'[c] = "idle" /\ pc[c] = "create" /\ now'[c] = 0
      /\ \A d \in Callers \ {c} : /\ pc'[d] = pc[d] /\ tok'[d] = tok[d]
                                  /\ now'[d] = now[d] /\ got'[d] = got[d]
      /\ UNCHANGED <<clock, entries>>
      /\ clock \in Nat
  BY DEF LockInv, StoreInv, StoreTypeOK, CreateUntracked, Return, Goto
<1>2. /\ \A a \in minted : made'[a] = made[a]
      /\ live \subseteq minted
      /\ minted \subseteq minted'
      /\ \A a \in live' : a \notin live => made'[a].tok = NoToken
      /\ live \subseteq live'
  BY DEF CreateUntracked, Mint, LockInv, TypeOK
<1>3. \A t \in Tokens : \A x : Unfinished(t, x)' = Unfinished(t, x)
  BY <1>1, <1>2 DEF Unfinished
<1>4. NowIsPast' /\ PutRecordsOwn'
  BY <1>1, <1>2 DEF WindowInv, NowIsPast, PutRecordsOwn
<1>5. CreatesAlone'
  BY <1>1, <1>3 DEF WindowInv, CreatesAlone, LockInv, StoreInv, StoreTypeOK, UntrackedStaysOut
<1>6. ReplaysTheEntry'
  BY <1>1 DEF WindowInv, ReplaysTheEntry
<1>7. FindableForItsWindow'
  BY <1>1, <1>2 DEF WindowInv, FindableForItsWindow, Guarded
<1>8. OneResourcePerWindow'
  BY <1>1, <1>2 DEF WindowInv, OneResourcePerWindow
<1> QED
  BY <1>4, <1>5, <1>6, <1>7, <1>8 DEF WindowInv

\* The window invariant is inductive, given the lock invariant.
LEMMA WindowInvNext == LockInv /\ WindowInv /\ [Next]_vars => WindowInv'
<1> SUFFICES ASSUME LockInv, WindowInv, [Next]_vars, TTL > 0
             PROVE  WindowInv'
  BY DEF WindowInv
<1> USE StoreAssumption
<1>0. /\ pc \in [Callers -> Steps] /\ tok \in [Callers -> Tokens \union {NoToken}]
      /\ now \in [Callers -> 0..MaxClock] /\ got \in [Callers -> Ids \union {NoId}]
      /\ clock \in 0..MaxClock
      /\ \A d \in Callers : now[d] <= clock
  BY DEF LockInv, StoreInv, StoreTypeOK, WindowInv, NowIsPast
<1>1. ASSUME NEW c \in Callers, NEW t \in Tokens \union {NoToken}, CallDo(c, t)
      PROVE  WindowInv'
  <2>1. PICK s \in {"create", "ref"} : Goto(c, s) /\ (s = "create" => t = NoToken)
    BY <1>1 DEF CallDo, Call
  <2>2. /\ pc[c] # "put" /\ tok'[c] = t /\ now'[c] <= clock
        /\ \A d \in Callers \ {c} :
              tok'[d] = tok[d] /\ now'[d] = now[d] /\ got'[d] = got[d]
        /\ UNCHANGED <<clock, entries, live, minted, made>>
    BY <1>0, <1>1 DEF CallDo, Call
  <2> QED
    BY <2>1, <2>2, QuietStepInv
<1>2. ASSUME NEW c \in Callers, StoreStep(c)
      PROVE  WindowInv'
  <2>1. CASE Lookup(c)
    BY <1>2, <2>1, LookupWindow DEF StoreStep
  <2>2. CASE Put(c)
    BY <1>2, <2>2, PutWindow DEF StoreStep
  <2>3. CASE LockRef(c) \/ LockAcquire(c) \/ Unlock(c) \/ Deref(c)
    <3>1. PICK s \in {"acquire", "lookup", "deref", "idle"} : Goto(c, s)
      BY <2>3 DEF LockRef, LockAcquire, Unlock, Deref, Return
    <3>2. /\ pc[c] # "put" /\ now'[c] <= clock
          /\ \A d \in Callers \ {c} :
                tok'[d] = tok[d] /\ now'[d] = now[d] /\ got'[d] = got[d]
          /\ UNCHANGED <<clock, entries, live, minted, made>>
      BY <1>0, <1>2, <2>3 DEF StoreStep, LockRef, LockAcquire, Unlock, Deref, Return
    <3> QED
      BY <3>1, <3>2, QuietStepInv
  <2> QED
    BY <1>2, <2>1, <2>2, <2>3 DEF StoreStep
<1>3. ASSUME NEW c \in Callers, Replay(c)
      PROVE  WindowInv'
  <2>1. /\ pc[c] = "replay"
        /\ UNCHANGED <<clock, tok, now, got, entries, live, minted, made>>
        /\ tok[c] \in Tokens
    BY <1>0, <1>3 DEF Replay, LockInv, StoreInv, UntrackedStaysOut
  <2>2. CASE Goto(c, "unlock")
    BY <1>0, <2>1, <2>2, QuietStepInv
  <2>3. CASE Goto(c, "create") /\ got[c] \notin live
    <3>1. ASSUME NEW a \in live, made[a].tok = tok[c]
          PROVE  clock > made[a].now + TTL
      <4>1. Guarded(a)
        BY <2>1, <3>1 DEF WindowInv, FindableForItsWindow
      <4>2. entries[tok[c]].id # a
        BY <2>1, <2>3 DEF WindowInv, ReplaysTheEntry, LockInv, TypeOK
      <4>3. ~ \E d \in Callers : pc[d] = "put" /\ tok[d] = tok[c]
        BY <2>1, NobodyElsePuts DEF Critical
      <4> QED
        BY <3>1, <4>1, <4>2, <4>3 DEF Guarded
    <3>2. Unfinished(tok[c], NoId) = {}
      BY <3>1 DEF Unfinished
    <3> QED
      BY <1>0, <2>1, <2>3, <3>2, QuietStepInv
  <2> QED
    BY <1>3, <2>2, <2>3 DEF Replay
<1>4. ASSUME NEW c \in Callers, CreateOk(c)
      PROVE  WindowInv'
  BY <1>4, CreateOkWindow
<1>5. ASSUME NEW c \in Callers, CreateErr(c)
      PROVE  WindowInv'
  <2>1. /\ pc[c] # "put" /\ Goto(c, "unlock")
        /\ UNCHANGED <<clock, tok, now, got, entries, live, minted, made>>
    BY <1>5 DEF CreateErr
  <2> QED
    BY <1>0, <2>1, QuietStepInv
<1>6. ASSUME NEW c \in Callers, CreateUntracked(c)
      PROVE  WindowInv'
  BY <1>6, CreateUntrackedWindow
<1>7. ASSUME NEW i \in Ids, Delete(i)
      PROVE  WindowInv'
  <2>1. live' \subseteq live /\ UNCHANGED <<clock, pc, tok, now, got, entries, minted, made>>
    BY <1>7 DEF Delete, callVars
  <2>2. \A t, x : Unfinished(t, x)' \subseteq Unfinished(t, x)
    BY <2>1 DEF Unfinished
  <2>3. CreatesAlone'
    BY <2>1, <2>2 DEF WindowInv, CreatesAlone
  <2> QED
    BY <2>1, <2>3 DEF WindowInv, NowIsPast, PutRecordsOwn, ReplaysTheEntry,
                      FindableForItsWindow, Guarded, OneResourcePerWindow
<1>8. CASE Advance
  <2>1. /\ clock' = clock + 1
        /\ UNCHANGED <<pc, tok, now, got, entries, live, minted, made>>
    BY <1>8 DEF Advance, Tick, callVars
  <2>2. ASSUME NEW t, NEW x PROVE Unfinished(t, x)' \subseteq Unfinished(t, x)
    BY <1>0, <2>1 DEF Unfinished, LockInv, TypeOK, Provenance
  <2>3. CreatesAlone'
    BY <2>1, <2>2 DEF WindowInv, CreatesAlone
  <2>4. FindableForItsWindow'
    BY <1>0, <2>1 DEF WindowInv, FindableForItsWindow, Guarded, LockInv, TypeOK, Provenance
  <2>5. NowIsPast'
    BY <1>0, <2>1 DEF NowIsPast
  <2> QED
    BY <2>1, <2>3, <2>4, <2>5 DEF WindowInv, PutRecordsOwn, ReplaysTheEntry,
                                  OneResourcePerWindow
<1>9. CASE UNCHANGED vars
  <2>1. UNCHANGED <<clock, pc, tok, now, got, entries, live, minted, made>>
    BY <1>9 DEF vars, callVars
  <2>2. \A t, x : Unfinished(t, x)' = Unfinished(t, x)
    BY <2>1 DEF Unfinished
  <2>3. CreatesAlone'
    BY <2>1, <2>2 DEF WindowInv, CreatesAlone
  <2> QED
    BY <2>1, <2>3 DEF WindowInv, NowIsPast, PutRecordsOwn, ReplaysTheEntry,
                      FindableForItsWindow, Guarded, OneResourcePerWindow
<1> QED
  BY <1>1, <1>2, <1>3, <1>4, <1>5, <1>6, <1>7, <1>8, <1>9 DEF Next

\* The window invariant holds throughout.
LEMMA WindowInvAlways == Spec => []WindowInv
BY LockInvAlways, WindowInvInit, WindowInvNext, PTL DEF Spec

\* A token makes one live resource per window, for any interleaving of any
\* number of callers, deletions, failed replays, sweeps and clock steps.
THEOREM OneResource == Spec => []OneResourcePerWindow
<1>1. WindowInv => OneResourcePerWindow
  BY DEF WindowInv, OneResourcePerWindow
<1> QED
  BY <1>1, WindowInvAlways, PTL

\* Every resource made under a token is findable through it until its window
\* ends, although entries are swept with the nows of other, slower callers.
THEOREM Findable == Spec => []FindableForItsWindow
<1>1. WindowInv => FindableForItsWindow
  BY DEF WindowInv, FindableForItsWindow
<1> QED
  BY <1>1, WindowInvAlways, PTL

(***************************************************************************)
(* The refinement of IdempotentCreate                                      *)
(***************************************************************************)

\* An entry is that of a resource made under its token, and ends with its window.
EntriesTrue ==
    \A t \in Tokens :
        entries[t].id # NoId =>
            /\ TTL > 0 /\ entries[t].id \in minted
            /\ made[entries[t].id].tok = t
            /\ entries[t].expireAt = made[entries[t].id].now + TTL

NameInv == NowIsPast /\ EntriesTrue

\* Nobody has called and nothing is recorded at the start.
LEMMA NameInvInit == Init => NameInv
BY StoreAssumption DEF Init, StoreInit, NameInv, NowIsPast, EntriesTrue, NoEntry

\* A step that adds no entry, touches no resource that was made and brings no
\* caller a time to come.
LEMMA NameInvKept ==
    ASSUME LockInv, NameInv, clock' >= clock, clock' \in Int,
           \A c \in Callers : now'[c] \in Int /\ (now'[c] = now[c] \/ now'[c] <= clock),
           \A t \in Tokens : entries'[t] \in {entries[t], NoEntry},
           minted \subseteq minted', \A i \in minted : made'[i] = made[i]
    PROVE  NameInv'
<1>1. NowIsPast'
  BY StoreAssumption DEF NameInv, NowIsPast, LockInv, TypeOK, StoreTypeOK
<1>2. EntriesTrue'
  BY DEF NameInv, EntriesTrue, NoEntry
<1> QED
  BY <1>1, <1>2 DEF NameInv

\* Every step keeps the entries true: put records what its caller has just made.
LEMMA NameInvNext == LockInv /\ WindowInv /\ NameInv /\ [Next]_vars => NameInv'
<1> SUFFICES ASSUME LockInv, WindowInv, NameInv, [Next]_vars
             PROVE  NameInv'
  OBVIOUS
<1> USE StoreAssumption
<1>0. /\ pc \in [Callers -> Steps] /\ now \in [Callers -> 0..MaxClock]
      /\ clock \in 0..MaxClock /\ clock \in Int
      /\ entries \in [Tokens -> [id : Ids \union {NoId}, expireAt : Int]]
      /\ \A d \in Callers : now[d] <= clock /\ now[d] \in Int
      /\ minted \subseteq Ids /\ made \in [Ids -> Provenance]
  BY DEF LockInv, TypeOK, StoreTypeOK, NameInv, NowIsPast
<1>1. ASSUME NEW c \in Callers, NEW t \in Tokens \union {NoToken}, CallDo(c, t)
      PROVE  NameInv'
  BY <1>0, <1>1, NameInvKept DEF CallDo, Call
<1>2. ASSUME NEW c \in Callers, StoreStep(c), ~Put(c)
      PROVE  NameInv'
  <2>1. \A t \in Tokens : entries'[t] \in {entries[t], NoEntry}
    BY <1>0, <1>2 DEF StoreStep, LockRef, LockAcquire, Lookup, Unlock, Deref
  <2>2. \A d \in Callers : now'[d] = now[d] \/ now'[d] = 0
    BY <1>0, <1>2 DEF StoreStep, LockRef, LockAcquire, Lookup, Unlock, Deref, Return
  <2>3. UNCHANGED <<clock, minted, made>>
    BY <1>2 DEF StoreStep, LockRef, LockAcquire, Lookup, Unlock, Deref
  <2> QED
    BY <1>0, <2>1, <2>2, <2>3, NameInvKept
<1>3. ASSUME NEW c \in Callers, Put(c), UNCHANGED <<live, minted, made>>
      PROVE  NameInv'
  <2>1. CASE TTL <= 0
    BY <1>0, <1>3, <2>1, NameInvKept DEF Put
  <2>2. CASE TTL > 0
    <3>1. /\ pc[c] = "put" /\ entries' = PutEntries(c)
          /\ UNCHANGED <<clock, now>>
      BY <1>3, <2>2 DEF Put
    <3>2. got[c] \in minted /\ made[got[c]].tok = tok[c] /\ made[got[c]].now = now[c]
      BY <2>2, <3>1 DEF WindowInv, PutRecordsOwn
    <3>3. EntriesTrue'
      BY <1>3, <2>2, <3>1, <3>2 DEF NameInv, EntriesTrue, PutEntries, NoEntry
    <3> QED
      BY <3>1, <3>3 DEF NameInv, NowIsPast
  <2> QED
    BY <2>1, <2>2
<1>4. ASSUME NEW c \in Callers, Replay(c) \/ CreateErr(c)
      PROVE  NameInv'
  BY <1>0, <1>4, NameInvKept DEF Replay, CreateErr
<1>5. ASSUME NEW c \in Callers, CreateOk(c)
      PROVE  NameInv'
  <2>1. PICK i \in Ids \ minted : Mint(c, i)
    BY <1>5 DEF CreateOk
  <2> QED
    BY <1>0, <1>5, <2>1, NameInvKept DEF CreateOk, Mint
<1>6. ASSUME NEW c \in Callers, CreateUntracked(c)
      PROVE  NameInv'
  <2>1. minted \subseteq minted' /\ \A i \in minted : made'[i] = made[i]
    BY <1>0, <1>6 DEF CreateUntracked, Mint
  <2>2. \A d \in Callers : now'[d] = now[d] \/ now'[d] = 0
    BY <1>0, <1>6 DEF CreateUntracked, Return
  <2> QED
    BY <1>0, <1>6, <2>1, <2>2, NameInvKept DEF CreateUntracked
<1>7. ASSUME NEW i \in Ids, Delete(i)
      PROVE  NameInv'
  BY <1>0, <1>7, NameInvKept DEF Delete, callVars
<1>8. CASE Advance
  BY <1>0, <1>8, NameInvKept DEF Advance, Tick, callVars
<1>9. CASE UNCHANGED vars
  BY <1>0, <1>9, NameInvKept DEF vars, callVars
<1> QED
  BY <1>1, <1>2, <1>3, <1>4, <1>5, <1>6, <1>7, <1>8, <1>9 DEF Next, StoreStep

\* What the three invariants say throughout.
LEMMA NameInvAlways == Spec => []NameInv
BY LockInvAlways, WindowInvAlways, NameInvInit, NameInvNext, PTL DEF Spec

abstractVars == <<clock, Held, Named, live, minted, made>>

\* A caller that moves within its critical section, or outside of it, holds what it held.
LEMMA HeldKept ==
    ASSUME LockInv, NEW c \in Callers,
           \A d \in Callers \ {c} : pc'[d] = pc[d] /\ tok'[d] = tok[d],
           \/ pc[c] \in Critical /\ pc'[c] \in Critical /\ tok'[c] = tok[c]
           \/ /\ pc[c] \notin Critical \/ tok[c] = NoToken
              /\ pc'[c] \notin Critical \/ tok'[c] = NoToken
    PROVE  Held' = Held
BY DEF Held

\* Entering and leaving a critical section.
LEMMA HeldMoves ==
    ASSUME LockInv, NEW c \in Callers, UNCHANGED tok, NEW s, Goto(c, s)
    PROVE  /\ s \in Critical => Held' = [Held EXCEPT ![c] = tok[c]]
           /\ s \notin Critical => Held' = [Held EXCEPT ![c] = NoToken]
BY DEF Held, Goto, LockInv, TypeOK, StoreTypeOK

\* A caller takes a token's lock when no other caller is inside.
LEMMA AcquireEnters ==
    ASSUME LockInv, LockInv', NEW c \in Callers, LockAcquire(c),
           UNCHANGED <<live, minted, made>>
    PROVE  Abstract!Next
<1>1. /\ pc[c] = "acquire" /\ Goto(c, "lookup")
      /\ UNCHANGED <<clock, tok, entries>>
  BY DEF LockAcquire
<1>2. tok[c] \in Tokens /\ tok[c] # NoToken /\ pc \in [Callers -> Steps]
  BY <1>1, StoreAssumption
  DEF LockInv, TypeOK, StoreTypeOK, StoreInv, UntrackedStaysOut
<1>3. Held' = [Held EXCEPT ![c] = tok[c]] /\ Named' = Named
  BY <1>1, HeldMoves DEF Critical, Named
<1>4. Held[c] = NoToken
  BY <1>1 DEF Held, Critical
<1>5. ASSUME NEW d \in Callers PROVE Held[d] # tok[c]
  <2>1. CASE d = c
    BY <1>2, <1>4, <2>1
  <2>2. CASE d # c
    <3>1. pc'[d] = pc[d] /\ pc'[c] = "lookup"
      BY <1>1, <1>2, <2>2 DEF Goto
    <3>2. ~ (pc[d] \in Critical /\ tok[d] = tok[c])
      <4>0. StoreInv'
        BY DEF LockInv
      <4>1. TokenMutex'
        BY <4>0, StoreInvMutex, PTL
      <4> QED
        BY <1>1, <1>2, <2>2, <3>1, <4>1 DEF TokenMutex, Critical
    <3> QED
      BY <1>2, <3>2 DEF Held
  <2> QED
    BY <2>1, <2>2
<1>6. Abstract!Enter(c, tok[c])
  BY <1>1, <1>3, <1>4, <1>5 DEF Abstract!Enter
<1> QED
  BY <1>2, <1>6 DEF Abstract!Next

\* What a caller does while it holds its token, the holder does.
LEMMA HolderSteps ==
    ASSUME LockInv, NEW c \in Callers, tok[c] # NoToken, pc[c] \in Critical,
           Abstract!Holder(c, tok[c])
    PROVE  Abstract!Next
<1>1. Held[c] = tok[c]
  BY DEF Held
<1> QED
  BY <1>1 DEF Abstract!Next

\* A lookup finds the entry, or drops one whose window is over.
LEMMA LookupDrops ==
    ASSUME LockInv, NameInv, NEW c \in Callers, Lookup(c),
           UNCHANGED <<live, minted, made>>
    PROVE  Abstract!Next \/ UNCHANGED abstractVars
<1>1. /\ pc[c] = "lookup" /\ UNCHANGED <<clock, tok>>
      /\ Goto(c, "replay") \/ Goto(c, "create")
  BY DEF Lookup
<1>2. tok[c] \in Tokens /\ tok[c] # NoToken /\ pc \in [Callers -> Steps]
      /\ entries \in [Tokens -> [id : Ids \union {NoId}, expireAt : Int]]
      /\ now[c] \in Int /\ clock \in Int
  BY <1>1, StoreAssumption
  DEF LockInv, TypeOK, StoreTypeOK, StoreInv, UntrackedStaysOut
<1>3. Held' = Held
  BY <1>1, <1>2, HeldKept DEF Critical, Goto
<1>4. CASE UNCHANGED entries
  BY <1>1, <1>3, <1>4 DEF abstractVars, Named
<1>5. CASE entries' = [entries EXCEPT ![tok[c]] = NoEntry] /\ entries[tok[c]].id = NoId
  <2>1. Named' = Named
    BY <1>2, <1>5 DEF Named, NoEntry
  <2> QED
    BY <1>1, <1>3, <2>1 DEF abstractVars
<1>6. CASE /\ entries' = [entries EXCEPT ![tok[c]] = NoEntry]
           /\ entries[tok[c]].id # NoId /\ Expired(entries[tok[c]], now[c])
  <2>1. Named' = [Named EXCEPT ![tok[c]] = NoId]
    BY <1>2, <1>6 DEF Named, NoEntry
  <2>2. Named[tok[c]] = entries[tok[c]].id
    BY <1>2 DEF Named
  <2>3. now[c] > made[entries[tok[c]].id].now + TTL /\ now[c] <= clock
    BY <1>2, <1>6 DEF Expired, NameInv, EntriesTrue, NowIsPast
  <2>4. entries[tok[c]].id \in Ids /\ made[entries[tok[c]].id].now \in Int /\ TTL \in Int
    BY <1>2, <1>6, StoreAssumption DEF LockInv, TypeOK, Provenance
  <2>5. Abstract!Drop(tok[c])
    BY <1>1, <1>2, <1>3, <1>6, <2>1, <2>2, <2>3, <2>4 DEF Abstract!Drop, Abstract!Over
  <2> QED
    BY <1>1, <1>2, <2>5, HolderSteps DEF Abstract!Holder, Critical
<1> QED
  BY <1>4, <1>5, <1>6 DEF Lookup

\* A put names what its caller made, and drops entries whose window is over.
LEMMA PutNames ==
    ASSUME LockInv, WindowInv, NameInv, NEW c \in Callers, Put(c),
           UNCHANGED <<live, minted, made>>
    PROVE  Abstract!Next \/ UNCHANGED abstractVars
<1>1. pc[c] = "put" /\ Goto(c, "unlock") /\ UNCHANGED <<clock, tok>>
  BY DEF Put
<1>2. tok[c] \in Tokens /\ tok[c] # NoToken /\ pc \in [Callers -> Steps]
      /\ entries \in [Tokens -> [id : Ids \union {NoId}, expireAt : Int]]
      /\ now[c] \in Int /\ clock \in Int /\ TTL \in Int
      /\ minted \subseteq Ids /\ live \subseteq minted
      /\ \A i \in Ids : made[i].now \in Int
  BY <1>1, StoreAssumption
  DEF LockInv, TypeOK, StoreTypeOK, StoreInv, UntrackedStaysOut, Provenance
<1>3. Held' = Held
  BY <1>1, <1>2, HeldKept DEF Critical, Goto
<1>4. CASE TTL <= 0
  BY <1>1, <1>3, <1>4 DEF Put, abstractVars, Named
<1>5. CASE TTL > 0
  <2> DEFINE dropped == {u \in Tokens : u # tok[c] /\ entries[u].id # NoId
                                        /\ Expired(entries[u], now[c])}
  <2>1. entries' = PutEntries(c)
    BY <1>2, <1>5 DEF Put
  <2>2. Named' = [u \in Tokens |-> IF u = tok[c] THEN got[c]
                                   ELSE IF u \in dropped THEN NoId ELSE Named[u]]
    BY <2>1 DEF Named, PutEntries, NoEntry
  <2>3. ASSUME NEW u \in dropped PROVE Named[u] # NoId /\ Abstract!Over(Named[u])
    <3>1. Named[u] = entries[u].id /\ entries[u].id # NoId
      BY DEF Named
    <3>2. now[c] > made[entries[u].id].now + TTL /\ now[c] <= clock
      BY DEF Expired, NameInv, EntriesTrue, NowIsPast
    <3>3. made[entries[u].id].now \in Int
      BY <1>2, <3>1 DEF NameInv, EntriesTrue
    <3> QED
      BY <1>2, <3>1, <3>2, <3>3 DEF Abstract!Over
  <2>4. dropped \in SUBSET {u \in Tokens : Named[u] # NoId /\ Abstract!Over(Named[u])}
    BY <2>3
  <2>5. got[c] \in minted /\ made[got[c]].tok = tok[c]
    BY <1>1, <1>5 DEF WindowInv, PutRecordsOwn
  <2>6. Abstract!Alone(tok[c], got[c])
    <3>1. Unfinished(tok[c], got[c]) = {}
      BY <1>1, <1>5 DEF WindowInv, CreatesAlone
    <3> QED
      BY <3>1 DEF Unfinished, Abstract!Alone, Abstract!Over
  <2> HIDE DEF dropped
  <2>7. Abstract!Name(tok[c], got[c])
    BY <1>1, <1>3, <1>5, <2>2, <2>4, <2>5, <2>6 DEF Abstract!Name
  <2> QED
    BY <1>1, <1>2, <2>5, <2>7, HolderSteps DEF Abstract!Holder, Critical
<1> QED
  BY <1>2, <1>4, <1>5

\* Nothing made under a caller's token is there within its window when it creates.
LEMMA CreateMakes ==
    ASSUME LockInv, WindowInv, NameInv, NEW c \in Callers, CreateOk(c)
    PROVE  Abstract!Next
<1>1. /\ pc[c] = "create" /\ tok[c] # NoToken /\ Goto(c, "put")
      /\ UNCHANGED <<clock, tok, entries>>
  BY DEF CreateOk
<1>2. pc \in [Callers -> Steps] /\ now[c] \in 0..clock /\ NoId \notin live
  BY StoreAssumption DEF LockInv, TypeOK, StoreTypeOK, NameInv, NowIsPast
<1>3. Held' = Held /\ Named' = Named
  BY <1>1, <1>2, HeldKept DEF Critical, Goto, Named
<1>4. PICK i \in Ids \ minted : Mint(c, i)
  BY DEF CreateOk
<1>5. TTL > 0 => Abstract!Alone(tok[c], NoId)
  BY <1>1, <1>2 DEF WindowInv, CreatesAlone, Unfinished, Abstract!Alone, Abstract!Over
<1>6. Abstract!Create(tok[c], i, now[c])
  BY <1>1, <1>3, <1>4, <1>5 DEF Mint, Abstract!Create, Abstract!Make
<1> QED
  BY <1>1, <1>2, <1>6, HolderSteps DEF Abstract!Holder, Critical

\* Every step is one of IdempotentCreate, or nothing it knows of changes.
LEMMA StepRefines ==
    ASSUME LockInv, LockInv', WindowInv, NameInv, [Next]_vars
    PROVE  Abstract!Next \/ UNCHANGED abstractVars
<1>0. /\ pc \in [Callers -> Steps] /\ tok \in [Callers -> Tokens \union {NoToken}]
      /\ \A c \in Callers : tok[c] = NoToken => pc[c] \in {"idle", "create"}
  BY DEF LockInv, TypeOK, StoreTypeOK, StoreInv, UntrackedStaysOut
<1>1. ASSUME NEW c \in Callers, NEW t \in Tokens \union {NoToken}, CallDo(c, t)
      PROVE  UNCHANGED abstractVars
  <2>1. Held' = Held
    BY <1>0, <1>1, HeldKept DEF CallDo, Call, Goto, Critical
  <2> QED
    BY <1>1, <2>1 DEF CallDo, Call, abstractVars, Named
<1>2. ASSUME NEW c \in Callers, StoreStep(c)
      PROVE  Abstract!Next \/ UNCHANGED abstractVars
  <2>1. UNCHANGED <<live, minted, made>>
    BY <1>2 DEF StoreStep
  <2>2. CASE LockRef(c) \/ Deref(c)
    <3>1. Held' = Held
      BY <1>0, <2>2, HeldKept DEF LockRef, Deref, Return, Goto, Critical
    <3> QED
      BY <2>1, <2>2, <3>1 DEF LockRef, Deref, abstractVars, Named
  <2>3. CASE Unlock(c)
    <3>1. /\ pc[c] = "unlock" /\ tok[c] # NoToken /\ Goto(c, "deref")
          /\ UNCHANGED <<clock, tok, entries>>
      BY <1>0, <2>3 DEF Unlock
    <3>2. Held' = [Held EXCEPT ![c] = NoToken] /\ Named' = Named
      BY <3>1, HeldMoves DEF Critical, Named
    <3>3. Abstract!Leave(c)
      BY <2>1, <3>1, <3>2 DEF Abstract!Leave
    <3> QED
      BY <3>1, <3>3, HolderSteps DEF Abstract!Holder, Critical
  <2> QED
    BY <1>2, <2>1, <2>2, <2>3, AcquireEnters, LookupDrops, PutNames DEF StoreStep
<1>3. ASSUME NEW c \in Callers, Replay(c) \/ CreateErr(c)
      PROVE  UNCHANGED abstractVars
  <2>1. Held' = Held
    BY <1>0, <1>3, HeldKept DEF Replay, CreateErr, Goto, Critical
  <2> QED
    BY <1>3, <2>1 DEF Replay, CreateErr, abstractVars, Named
<1>4. ASSUME NEW c \in Callers, CreateUntracked(c)
      PROVE  Abstract!Next \/ UNCHANGED abstractVars
  <2>1. Held' = Held /\ Named' = Named /\ UNCHANGED clock
    BY <1>0, <1>4, HeldKept DEF CreateUntracked, Return, Goto, Critical, Named
  <2>2. tok[c] = NoToken /\ now[c] \in 0..clock
    BY <1>4, StoreAssumption
    DEF CreateUntracked, NameInv, NowIsPast, LockInv, TypeOK, StoreTypeOK
  <2>3. ASSUME NEW i \in Ids \ minted, Mint(c, i) PROVE Abstract!Next
    <3>1. Abstract!Make(NoToken, i, now[c])
      BY <2>1, <2>2, <2>3 DEF Mint, Abstract!Make
    <3> QED
      BY <2>2, <3>1 DEF Abstract!Next
  <2> QED
    BY <1>4, <2>1, <2>3 DEF CreateUntracked, abstractVars
<1>5. ASSUME NEW i \in Ids, Delete(i) PROVE Abstract!Next
  <2>1. Abstract!Delete(i)
    BY <1>5 DEF Delete, Abstract!Delete, callVars, Held, Named
  <2> QED
    BY <2>1 DEF Abstract!Next
<1>6. CASE Advance
  <2>1. Abstract!Tick
    BY <1>6 DEF Advance, Tick, Abstract!Tick, callVars, Held, Named
  <2> QED
    BY <2>1 DEF Abstract!Next
<1>7. CASE UNCHANGED vars
  BY <1>7 DEF vars, callVars, abstractVars, Held, Named
<1> QED
  BY <1>1, <1>2, <1>3, <1>4, <1>5, <1>6, <1>7, CreateMakes DEF Next

\* Do implements IdempotentCreate, for any number of callers, tokens, resources and
\* lock objects and for every TTL: to its callers it is a lock per token that is
\* always there, and a record of what was made under the token that lasts a window.
THEOREM ImplementsCreate == Spec => ImplementsIdempotentCreate
<1>1. Init => Abstract!Init
  BY DEF Init, StoreInit, Abstract!Init, Held, Named, NoEntry
<1>2. LockInv /\ LockInv' /\ WindowInv /\ NameInv /\ [Next]_vars
        => [Abstract!Next]_abstractVars
  BY StepRefines
<1> QED
  BY <1>1, <1>2, LockInvAlways, WindowInvAlways, NameInvAlways, PTL
  DEF Spec, ImplementsIdempotentCreate, Abstract!Spec, abstractVars
=============================================================================
