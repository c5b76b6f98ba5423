---------------------------- MODULE Idempotency ----------------------------
(***************************************************************************)
(* Do with the closures of a provider that mints a fresh id per resource   *)
(* (ACM RequestCertificate and DeleteCertificate; Global Accelerator, FIS  *)
(* and HealthLake pass closures of the same shape): replay re-reads the    *)
(* resource, create mints and stores one, and deleting a resource leaves   *)
(* its token behind for the next replay to miss.                           *)
(***************************************************************************)
EXTENDS IdempotencyStore

VARIABLES
    live,     \* ids of the resources that exist
    minted,   \* ids ever handed out by the id generator
    made      \* for each minted id: the create's token, its now and the clock

vars == <<clock, callVars, lockVars, entries, live, minted, made>>

Provenance == [tok : Tokens \union {NoToken}, now : 0..MaxClock,
               clk : 0..MaxClock]

\* The store's types, and only minted resources live.
TypeOK ==
    /\ StoreTypeOK
    /\ live \subseteq minted
    /\ minted \subseteq Ids
    /\ made \in [Ids -> Provenance]

Init ==
    /\ StoreInit
    /\ live = {}
    /\ minted = {}
    /\ made = [i \in Ids |-> [tok |-> NoToken, now |-> 0, clk |-> 0]]

\* Variant: every replay error is taken for NotFound.
ReplayErrorCreates(c) ==
    /\ pc[c] = "replay"
    /\ \/ got[c] \in live /\ Goto(c, "unlock")
       \/ Goto(c, "create")
    /\ UNCHANGED <<clock, tok, now, lk, got, lockVars, entries, live, minted, made>>

\* replay(ctx, id): the resource is there, it is gone, or the read fails in
\* some other way (a canceled context, an injected fault).
Replay(c) ==
    /\ pc[c] = "replay"
    /\ \/ got[c] \in live /\ Goto(c, "unlock")
       \/ got[c] \notin live /\ Goto(c, "create")
       \/ Goto(c, "unlock")
    /\ UNCHANGED <<clock, tok, now, lk, got, lockVars, entries, live, minted, made>>

\* Minting an id and storing the resource under it.
Mint(c, i) ==
    /\ minted' = minted \union {i}
    /\ live' = live \union {i}
    /\ made' = [made EXCEPT ![i] =
                  [tok |-> tok[c], now |-> now[c], clk |-> clock]]

\* create() under the token's lock.
CreateOk(c) ==
    /\ pc[c] = "create"
    /\ tok[c] # NoToken
    /\ \E i \in Ids \ minted : Mint(c, i) /\ got' = [got EXCEPT ![c] = i]
    /\ Goto(c, "put")
    /\ UNCHANGED <<clock, tok, now, lk, lockVars, entries>>

\* Variant: a failed create is tried again under the token's lock.
CreateErrRetries(c) ==
    /\ pc[c] = "create"
    /\ tok[c] # NoToken
    /\ Goto(c, "lookup")
    /\ UNCHANGED <<clock, tok, now, lk, got, lockVars, entries, live, minted, made>>

\* create() fails its validation: nothing is stored or recorded.
CreateErr(c) ==
    /\ pc[c] = "create"
    /\ tok[c] # NoToken
    /\ Goto(c, "unlock")
    /\ UNCHANGED <<clock, tok, now, lk, got, lockVars, entries, live, minted, made>>

\* An empty token: create() runs outside any lock, Do returns its result.
CreateUntracked(c) ==
    /\ pc[c] = "create"
    /\ tok[c] = NoToken
    /\ \/ \E i \in Ids \ minted : Mint(c, i)
       \/ UNCHANGED <<live, minted, made>>
    /\ Return(c)
    /\ UNCHANGED <<clock, lockVars, entries>>

\* DeleteCertificate: the store entry goes, the token entry stays.
Delete(i) ==
    /\ i \in live
    /\ live' = live \ {i}
    /\ UNCHANGED <<clock, callVars, lockVars, entries, minted, made>>

\* The steps of Do that the store itself takes.
StoreStep(c) ==
    /\ \/ LockRef(c) \/ LockAcquire(c) \/ Lookup(c)
       \/ Put(c) \/ Unlock(c) \/ Deref(c)
    /\ UNCHANGED <<live, minted, made>>

CallDo(c, t) == Call(c, t) /\ UNCHANGED <<live, minted, made>>

Advance == Tick /\ UNCHANGED <<live, minted, made>>

Next ==
    \/ \E c \in Callers : \/ \E t \in Tokens \union {NoToken} : CallDo(c, t)
                          \/ StoreStep(c)
                          \/ Replay(c)
                          \/ CreateOk(c)
                          \/ CreateErr(c)
                          \/ CreateUntracked(c)
    \/ \E i \in Ids : Delete(i)
    \/ Advance

\* A goroutine inside Do keeps running.  sync.Mutex hands the lock to a
\* starving waiter, so acquiring it is strongly fair.
Fairness ==
    \A c \in Callers :
        /\ WF_vars(\/ StoreStep(c) \/ Replay(c)
                   \/ CreateOk(c) \/ CreateErr(c) \/ CreateUntracked(c))
        /\ SF_vars(LockAcquire(c) /\ UNCHANGED <<live, minted, made>>)

Spec == Init /\ [][Next]_vars

FairSpec == Spec /\ Fairness

(***************************************************************************)
(* Properties                                                              *)
(***************************************************************************)

\* "A burst of same-token requests yields exactly one resource": two
\* resources made under one token are alive together only when the later one
\* was made after the earlier one's window (its caller's now plus the TTL) had
\* passed.  Deleting and retrying, failing replays, sweeps by other tokens and
\* callers whose now is stale do not break it.
OneResourcePerWindow ==
    TTL > 0 =>
      \A a, b \in live :
        /\ a # b
        /\ made[a].tok = made[b].tok
        /\ made[a].tok # NoToken
        => \/ made[b].clk > made[a].now + TTL
           \/ made[a].clk > made[b].now + TTL

\* What a token's live resource is guarded by, from the create to the end of
\* its window: the entry, or the caller about to record it.
Guarded(a) ==
    \/ clock > made[a].now + TTL
    \/ entries[made[a].tok] = [id |-> a, expireAt |-> made[a].now + TTL]
    \/ \E c \in Callers : /\ pc[c] = "put"
                          /\ tok[c] = made[a].tok
                          /\ got[c] = a
                          /\ now[c] = made[a].now

\* Every resource made under a token stays findable through that token for
\* its whole window, however the calls interleave, so a retry cannot miss it.
FindableForItsWindow ==
    TTL > 0 => \A a \in live : made[a].tok # NoToken => Guarded(a)

\* What the callers hold and what the tokens name, to somebody who does not see how.
Held == [c \in Callers |-> IF pc[c] \in Critical THEN tok[c] ELSE NoToken]
Named == [t \in Tokens |-> entries[t].id]

Abstract == INSTANCE IdempotentCreate WITH inside <- Held, names <- Named

\* Do, with its lock objects that come and go, its waiting callers and the times they
\* have read before they waited, implements creates that take turns, make nothing
\* twice within a window and are found again until it is over.
ImplementsIdempotentCreate == Abstract!Spec

\* Every call of Do returns: no caller waits for a token's lock forever.
EveryCallReturns == \A c \in Callers : pc[c] # "idle" ~> pc[c] = "idle"
=============================================================================
