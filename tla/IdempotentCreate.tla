-------------------------- MODULE IdempotentCreate --------------------------
(***************************************************************************)
(* What idempotency.Do promises of the creates that carry a client token:  *)
(* the callers of a token take turns; a resource is made under a token     *)
(* only when the window of every live one made under it is over; and a     *)
(* token names the resource last made under it until that window is over.  *)
(* There are no locks, no waiting callers and no sweeps with old times.    *)
(***************************************************************************)
EXTENDS Integers

CONSTANTS
    Callers, Tokens, Ids,
    NoToken,  \* a create without a token
    NoId,     \* the token names no resource
    TTL       \* the length of a token's window

VARIABLES
    clock,
    inside, \* the token each caller holds, if any
    names,  \* the resource each token replays
    live,   \* the resources that exist
    minted, \* the resources ever made
    made    \* for each: the token, the time its window begins, the time it was made

Init ==
    /\ clock = 0
    /\ inside = [c \in Callers |-> NoToken]
    /\ names = [t \in Tokens |-> NoId]
    /\ live = {} /\ minted = {}
    /\ made = [i \in Ids |-> [tok |-> NoToken, now |-> 0, clk |-> 0]]

Over(i) == clock > made[i].now + TTL

\* Nothing made under t but i is still there within its window.
Alone(t, i) == \A a \in live : made[a].tok = t /\ a # i => Over(a)

Enter(c, t) ==
    /\ inside[c] = NoToken
    /\ \A d \in Callers : inside[d] # t
    /\ inside' = [inside EXCEPT ![c] = t]
    /\ UNCHANGED <<clock, names, live, minted, made>>

Leave(c) ==
    /\ inside' = [inside EXCEPT ![c] = NoToken]
    /\ UNCHANGED <<clock, names, live, minted, made>>

Make(t, i, n) ==
    /\ i \notin minted
    /\ minted' = minted \union {i}
    /\ live' = live \union {i}
    /\ made' = [made EXCEPT ![i] = [tok |-> t, now |-> n, clk |-> clock]]
    /\ UNCHANGED <<clock, inside, names>>

\* The window of a new resource may begin before it is made, not after.
Create(t, i, n) ==
    /\ TTL > 0 => Alone(t, NoId)
    /\ Make(t, i, n)

\* t names what was made under it; other tokens may drop what is over.
Name(t, i) ==
    /\ TTL > 0 /\ i \in minted /\ made[i].tok = t /\ Alone(t, i)
    /\ \E dropped \in SUBSET {u \in Tokens : names[u] # NoId /\ Over(names[u])} :
         names' = [u \in Tokens |-> IF u = t THEN i
                                    ELSE IF u \in dropped THEN NoId ELSE names[u]]
    /\ UNCHANGED <<clock, inside, live, minted, made>>

Drop(t) ==
    /\ names[t] # NoId /\ Over(names[t])
    /\ names' = [names EXCEPT ![t] = NoId]
    /\ UNCHANGED <<clock, inside, live, minted, made>>

Delete(i) ==
    /\ i \in live
    /\ live' = live \ {i}
    /\ UNCHANGED <<clock, inside, names, minted, made>>

Tick == clock' = clock + 1 /\ UNCHANGED <<inside, names, live, minted, made>>

\* A step of the caller that holds token t.
Holder(c, t) ==
    \/ Leave(c) \/ Drop(t)
    \/ \E i \in Ids : Name(t, i) \/ \E n \in 0..clock : Create(t, i, n)

Next ==
    \/ \E c \in Callers : \/ \E t \in Tokens : Enter(c, t)
                          \/ inside[c] # NoToken /\ Holder(c, inside[c])
    \/ \E i \in Ids : Delete(i) \/ \E n \in 0..clock : Make(NoToken, i, n)
    \/ Tick

Spec == Init /\ [][Next]_<<clock, inside, names, live, minted, made>>
=============================================================================
