-------------------------- MODULE IdempotencyStore --------------------------
(***************************************************************************)
(* internal/idempotency: the token -> resource id store behind the         *)
(* ClientToken contract, up to the closures a provider passes to Do.       *)
(*                                                                         *)
(* A caller is one goroutine inside Do.  The store mutex s.mu makes each   *)
(* of LockRef, Lookup, Put, Deref and Forget one atomic step; the          *)
(* per-token lock l.mu is held across several of them.  Lock objects are   *)
(* modelled explicitly, because the locks map drops an object once its     *)
(* refs reach zero and a later caller then allocates a new one: mutual     *)
(* exclusion is a property of the objects, not of the token.               *)
(*                                                                         *)
(* The replay and create closures belong to the provider: modules that     *)
(* EXTEND this one supply them (Idempotency, Scheduler).                   *)
(***************************************************************************)
EXTENDS Integers, FiniteSets

CONSTANTS
    Callers,   \* goroutines that may be inside Do
    Tokens,    \* non-empty client tokens
    Ids,       \* resource ids
    LockIds,   \* addresses of tokenLock objects
    NoToken,   \* the empty token: no dedup asked for
    NoId,
    NoLock,
    TTL,       \* Store.ttl, in clock units
    MaxClock   \* bound on the modelled clock

ASSUME StoreAssumption ==
    /\ IsFiniteSet(Callers)
    /\ NoToken \notin Tokens
    /\ NoId \notin Ids
    /\ NoLock \notin LockIds
    /\ NoLock \notin Callers
    /\ TTL \in Int
    /\ MaxClock \in Nat

VARIABLES
    clock,    \* the providers' clock
    pc,       \* where each caller is in Do
    tok,      \* the token each caller carries
    now,      \* the time each caller read before it entered Do
    lk,       \* the lock object each caller has a pointer to
    got,      \* the id each caller looked up or minted
    locks,    \* Store.locks
    refs,     \* tokenLock.refs, per object
    held,     \* who holds tokenLock.mu, per object
    entries   \* Store.entries; id = NoId when the token has none

callVars == <<pc, tok, now, lk, got>>
lockVars == <<locks, refs, held>>

\* The steps of Do, in program order.
Steps == {"idle", "ref", "acquire", "lookup", "replay", "create", "put",
          "unlock", "deref"}

\* Steps taken between l.mu.Lock and l.mu.Unlock.
Critical == {"lookup", "replay", "create", "put", "unlock"}

\* Steps during which the caller is counted in refs.
Counted == Critical \union {"acquire", "deref"}

NoEntry == [id |-> NoId, expireAt |-> 0]

\* The store's state: refs never drops below zero.
StoreTypeOK ==
    /\ clock \in 0..MaxClock
    /\ pc \in [Callers -> Steps]
    /\ tok \in [Callers -> Tokens \union {NoToken}]
    /\ now \in [Callers -> 0..MaxClock]
    /\ lk \in [Callers -> LockIds \union {NoLock}]
    /\ got \in [Callers -> Ids \union {NoId}]
    /\ locks \in [Tokens -> LockIds \union {NoLock}]
    /\ refs \in [LockIds -> Nat]
    /\ held \in [LockIds -> Callers \union {NoLock}]
    /\ entries \in [Tokens -> [id : Ids \union {NoId}, expireAt : Int]]

StoreInit ==
    /\ clock = 0
    /\ pc = [c \in Callers |-> "idle"]
    /\ tok = [c \in Callers |-> NoToken]
    /\ now = [c \in Callers |-> 0]
    /\ lk = [c \in Callers |-> NoLock]
    /\ got = [c \in Callers |-> NoId]
    /\ locks = [t \in Tokens |-> NoLock]
    /\ refs = [l \in LockIds |-> 0]
    /\ held = [l \in LockIds |-> NoLock]
    /\ entries = [t \in Tokens |-> NoEntry]

Goto(c, step) == pc' = [pc EXCEPT ![c] = step]

\* Do returns: the caller's locals are gone.
Return(c) ==
    /\ Goto(c, "idle")
    /\ tok' = [tok EXCEPT ![c] = NoToken]
    /\ now' = [now EXCEPT ![c] = 0]
    /\ lk' = [lk EXCEPT ![c] = NoLock]
    /\ got' = [got EXCEPT ![c] = NoId]

(***************************************************************************)
(* Do                                                                      *)
(***************************************************************************)

\* The provider reads its clock and calls Do.  An empty token goes straight
\* to create, outside any lock.
Call(c, t) ==
    /\ pc[c] = "idle"
    /\ tok' = [tok EXCEPT ![c] = t]
    /\ now' = [now EXCEPT ![c] = clock]
    /\ Goto(c, IF t = NoToken THEN "create" ELSE "ref")
    /\ UNCHANGED <<clock, lk, got, lockVars, entries>>

\* A lock object nobody points to: what new(tokenLock) may return.
Unused(l) == /\ \A t \in Tokens : locks[t] # l
             /\ \A c \in Callers : lk[c] # l

\* lock, first half: under s.mu, find or allocate the token's lock and count
\* the caller in before waiting on it.
LockRef(c) ==
    /\ pc[c] = "ref"
    /\ \E l \in LockIds :
         /\ IF locks[tok[c]] = NoLock THEN Unused(l) ELSE l = locks[tok[c]]
         /\ locks' = [locks EXCEPT ![tok[c]] = l]
         /\ refs' = [refs EXCEPT ![l] =
                       IF locks[tok[c]] = NoLock THEN 1 ELSE @ + 1]
         /\ lk' = [lk EXCEPT ![c] = l]
    /\ Goto(c, "acquire")
    /\ UNCHANGED <<clock, tok, now, got, held, entries>>

\* Variant: a read lock, which several callers can hold.
LockAcquireShared(c) ==
    /\ pc[c] = "acquire"
    /\ held' = [held EXCEPT ![lk[c]] = c]
    /\ Goto(c, "lookup")
    /\ UNCHANGED <<clock, tok, now, lk, got, locks, refs, entries>>

\* l.mu.Lock returns.
LockAcquire(c) ==
    /\ pc[c] = "acquire"
    /\ held[lk[c]] = NoLock
    /\ held' = [held EXCEPT ![lk[c]] = c]
    /\ Goto(c, "lookup")
    /\ UNCHANGED <<clock, tok, now, lk, got, locks, refs, entries>>

\* Variant: an entry expires at the last instant of its window.
ExpiredAtWindowEnd(e, t) == t >= e.expireAt

\* now.After(e.expireAt)
Expired(e, t) == t > e.expireAt

\* lookup: a hit goes on to replay, an expired entry is dropped.
Lookup(c) ==
    LET e == entries[tok[c]] IN
    /\ pc[c] = "lookup"
    /\ \/ /\ e.id # NoId
          /\ ~Expired(e, now[c])
          /\ got' = [got EXCEPT ![c] = e.id]
          /\ Goto(c, "replay")
          /\ UNCHANGED entries
       \/ /\ e.id = NoId \/ Expired(e, now[c])
          /\ entries' = [entries EXCEPT ![tok[c]] = NoEntry]
          /\ Goto(c, "create")
          /\ UNCHANGED got
    /\ UNCHANGED <<clock, tok, now, lk, lockVars>>

\* put: sweep the expired entries of every token, then record the id.  The
\* time is the caller's own now, read before it waited for the lock.
PutEntries(c) ==
    [t \in Tokens |->
        IF t = tok[c] THEN [id |-> got[c], expireAt |-> now[c] + TTL]
        ELSE IF Expired(entries[t], now[c]) THEN NoEntry
        ELSE entries[t]]

Put(c) ==
    /\ pc[c] = "put"
    /\ entries' = IF TTL <= 0 THEN entries ELSE PutEntries(c)
    /\ Goto(c, "unlock")
    /\ UNCHANGED <<clock, tok, now, lk, got, lockVars>>

\* The deferred unlock, first half: l.mu.Unlock.
Unlock(c) ==
    /\ pc[c] = "unlock"
    /\ held' = [held EXCEPT ![lk[c]] = NoLock]
    /\ Goto(c, "deref")
    /\ UNCHANGED <<clock, tok, now, lk, got, locks, refs, entries>>

\* Variant: the release runs twice.
DerefTwice(c) ==
    /\ pc[c] = "deref"
    /\ refs' = [refs EXCEPT ![lk[c]] = @ - 2]
    /\ locks' = IF refs[lk[c]] = 1
                THEN [locks EXCEPT ![tok[c]] = NoLock] ELSE locks
    /\ Return(c)
    /\ UNCHANGED <<clock, held, entries>>

\* Variant: the lock object is dropped while others wait on it.
DerefAlwaysDrops(c) ==
    /\ pc[c] = "deref"
    /\ refs' = [refs EXCEPT ![lk[c]] = @ - 1]
    /\ locks' = [locks EXCEPT ![tok[c]] = NoLock]
    /\ Return(c)
    /\ UNCHANGED <<clock, held, entries>>

\* Second half: under s.mu, drop the lock object with its last reference.
Deref(c) ==
    /\ pc[c] = "deref"
    /\ refs' = [refs EXCEPT ![lk[c]] = @ - 1]
    /\ locks' = IF refs[lk[c]] = 1
                THEN [locks EXCEPT ![tok[c]] = NoLock] ELSE locks
    /\ Return(c)
    /\ UNCHANGED <<clock, held, entries>>

\* Forget: drop every token recorded for id.
ForgetEntries(id) ==
    [t \in Tokens |-> IF entries[t].id = id THEN NoEntry ELSE entries[t]]

\* Time passes, up to the model's bound.
Tick ==
    /\ clock < MaxClock
    /\ clock' = clock + 1
    /\ UNCHANGED <<callVars, lockVars, entries>>

(***************************************************************************)
(* Properties of the lock table                                            *)
(***************************************************************************)

\* Callers counted in a lock object's refs.
Referrers(l) == {c \in Callers : pc[c] \in Counted /\ lk[c] = l}

\* "Callers sharing a token run one at a time": at most one caller of a token
\* is between lock and unlock, although lock objects come and go.
TokenMutex ==
    \A c, d \in Callers :
        /\ pc[c] \in Critical /\ tok[c] # NoToken
        /\ pc[d] \in Critical /\ tok[d] = tok[c]
        => c = d

\* "the lock is dropped once nobody needs it": the locks map holds a token's
\* lock exactly while a caller of that token holds or waits on it, and refs is
\* the number of those callers, so the map cannot leak and a waiter is never
\* left on an orphaned lock.
LockTableExact ==
    /\ \A t \in Tokens :
         (locks[t] # NoLock) <=>
            (\E c \in Callers : tok[c] = t /\ pc[c] \in Counted)
    /\ \A t \in Tokens :
         locks[t] # NoLock => refs[locks[t]] = Cardinality(Referrers(locks[t]))
=============================================================================
