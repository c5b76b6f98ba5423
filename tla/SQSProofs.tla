----------------------------- MODULE SQSProofs -----------------------------
(***************************************************************************)
(* Proofs about SQS, for every set of queues and dead-letter policy, every *)
(* set of senders, move tasks, groups and deduplication ids, every window  *)
(* and threshold, and every bound.                                         *)
(***************************************************************************)
EXTENDS SQS, FiniteSetTheorems, WellFoundedInduction, TLAPS

(***************************************************************************)
(* The operators                                                           *)
(***************************************************************************)

\* A nonempty set of objects has a lowest one: the prefixes of the set are
\* well-founded under inclusion, and the smallest ends with it.
LEMMA LowestIsIn ==
    ASSUME NEW n \in Nat, NEW S, S \subseteq 1..n, S # {}
    PROVE  /\ Lowest(S) \in S
           /\ \A r \in S : Lowest(S) <= r
<1> DEFINE Prefix(p) == {r \in S : r <= p}
           Prefixes == {Prefix(p) : p \in S}
<1>1. Prefixes \subseteq FiniteSubsetsOf(1..n) /\ Prefixes # {}
  <2>1. \A p \in S : Prefix(p) \in SUBSET (1..n) /\ IsFiniteSet(Prefix(p))
    <3>1. IsFiniteSet(1..n)
      BY FS_Interval
    <3>2. \A p \in S : Prefix(p) \in SUBSET (1..n)
      OBVIOUS
    <3> HIDE DEF Prefix
    <3> QED
      BY <3>1, <3>2, FS_Subset
  <2> QED
    BY <2>1 DEF FiniteSubsetsOf
<1> HIDE DEF Prefixes
<1>2. PICK U \in Prefixes : \A V \in Prefixes : <<V, U>> \notin StrictSubsetOrdering(1..n)
  BY <1>1, WFMin, FS_StrictSubsetOrderingWellFounded
<1>3. PICK p \in S : U = Prefix(p)
  BY <1>2 DEF Prefixes
<1>4. \A r \in S : p <= r
  <2> SUFFICES ASSUME NEW r \in S, r < p
               PROVE  FALSE
    OBVIOUS
  <2>0. \A x \in S : x \in Nat
    OBVIOUS
  <2>1. Prefix(r) \subseteq Prefix(p) /\ p \in Prefix(p) /\ p \notin Prefix(r)
    <3>1. \A x \in S : x <= r => x <= p
      BY <2>0
    <3>2. p <= p /\ ~(p <= r)
      BY <2>0
    <3> QED
      BY <3>1, <3>2
  <2>2. Prefix(r) \in Prefixes
    BY DEF Prefixes
  <2>3. Prefix(r) \in SUBSET (1..n) /\ Prefix(p) \in SUBSET (1..n)
    OBVIOUS
  <2>4. <<Prefix(r), Prefix(p)>> \in StrictSubsetOrdering(1..n)
    <3> HIDE DEF Prefix
    <3> DEFINE pair == <<Prefix(r), Prefix(p)>>
    <3>1. Prefix(r) \subseteq Prefix(p) /\ Prefix(r) # Prefix(p)
      <4> HIDE DEF Prefix
      <4> QED
        BY <2>1
    <3>2. pair \in (SUBSET (1..n)) \X (SUBSET (1..n))
      BY <2>3
    <3>3. pair[1] = Prefix(r) /\ pair[2] = Prefix(p)
      OBVIOUS
    <3> HIDE DEF pair
    <3>4. pair \in StrictSubsetOrdering(1..n)
      BY <3>1, <3>2, <3>3 DEF StrictSubsetOrdering
    <3> QED
      BY <3>4 DEF pair
  <2> QED
    BY <1>2, <1>3, <2>2, <2>4
<1> QED
  BY <1>4 DEF Lowest

\* FS_Subset in first-order form.
LEMMA SubsetCard ==
    \A S, T : IsFiniteSet(S) /\ T \subseteq S
             => /\ IsFiniteSet(T)
                /\ Cardinality(T) <= Cardinality(S)
                /\ Cardinality(S) = Cardinality(T) => S = T
BY FS_Subset

\* The copies of the objects in dead are numbered from made on, in their order.
LEMMA NumberFacts ==
    ASSUME made \in Nat, NEW dead, dead \subseteq 1..made
    PROVE  /\ Cardinality(dead) \in Nat
           /\ \A p \in dead : Number(p, dead) \in (made + 1)..(made + Cardinality(dead))
           /\ \A p, r \in dead : Number(p, dead) = Number(r, dead) => p = r
           /\ Copies(dead) = (made + 1)..(made + Cardinality(dead))
<1> DEFINE Prefix(p) == {r \in dead : r <= p}
           Numbers == (made + 1)..(made + Cardinality(dead))
<1>1. IsFiniteSet(dead) /\ Cardinality(dead) \in Nat
  <2>1. IsFiniteSet(1..made)
    BY FS_Interval
  <2>2. IsFiniteSet(dead)
    BY <2>1, FS_Subset
  <2> QED
    BY <2>2, FS_CardinalityType
<1>2. \A p \in dead : /\ Cardinality(Prefix(p)) \in 1..Cardinality(dead)
                      /\ IsFiniteSet(Prefix(p))
  <2> TAKE p \in dead
  <2>1. Prefix(p) \in SUBSET dead /\ p \in Prefix(p)
    OBVIOUS
  <2>2. IsFiniteSet(Prefix(p)) /\ Cardinality(Prefix(p)) <= Cardinality(dead)
    BY <1>1, <2>1, FS_Subset
  <2>3. Cardinality(Prefix(p)) \in Nat /\ Cardinality(Prefix(p)) # 0
    BY <2>1, <2>2, FS_CardinalityType, FS_EmptySet
  <2> QED
    BY <1>1, <2>2, <2>3
<1>3. \A p, r \in dead : p < r => Cardinality(Prefix(p)) < Cardinality(Prefix(r))
  <2> SUFFICES ASSUME NEW p \in dead, NEW r \in dead, p < r
               PROVE  Cardinality(Prefix(p)) < Cardinality(Prefix(r))
    OBVIOUS
  <2>0. \A x \in dead : x \in Nat
    OBVIOUS
  <2>1. Prefix(p) \subseteq Prefix(r) /\ r \in Prefix(r) \ Prefix(p)
    <3>1. \A x \in dead : x <= p => x <= r
      BY <2>0
    <3>2. r <= r /\ ~(r <= p)
      BY <2>0
    <3> QED
      BY <3>1, <3>2
  <2>2. /\ Cardinality(Prefix(p)) <= Cardinality(Prefix(r))
        /\ Cardinality(Prefix(r)) = Cardinality(Prefix(p)) => Prefix(r) = Prefix(p)
    <3>1. IsFiniteSet(Prefix(r))
      BY <1>2
    <3> QED
      BY <2>1, <3>1, SubsetCard
  <2>3. Cardinality(Prefix(p)) \in Nat /\ Cardinality(Prefix(r)) \in Nat
    BY <1>1, <1>2
  <2> QED
    BY <2>1, <2>2, <2>3
<1>4. \A p \in dead : Number(p, dead) = made + Cardinality(Prefix(p))
  BY DEF Number
<1> HIDE DEF Prefix
<1>5. \A p \in dead : Number(p, dead) \in Numbers
  BY <1>1, <1>2, <1>4
<1>6. \A p, r \in dead : Number(p, dead) = Number(r, dead) => p = r
  <2> SUFFICES ASSUME NEW p \in dead, NEW r \in dead, p # r
               PROVE  Number(p, dead) # Number(r, dead)
    OBVIOUS
  <2>1. p < r \/ r < p
    OBVIOUS
  <2>2. Cardinality(Prefix(p)) # Cardinality(Prefix(r))
    BY <1>1, <1>2, <1>3, <2>1
  <2> QED
    BY <1>1, <1>2, <1>4, <2>2
<1>7. Copies(dead) = Numbers
  <2> DEFINE f == [p \in dead |-> Number(p, dead)]
  <2>1. f \in Injection(dead, Numbers)
    <3>1. f \in [dead -> Numbers]
      BY <1>5
    <3>2. IsInjective(f)
      BY <1>6 DEF IsInjective
    <3> QED
      BY <3>1, <3>2 DEF Injection
  <2>2. IsFiniteSet(Numbers) /\ Cardinality(Numbers) = Cardinality(dead)
    <3>1. PICK a, b \in Int : a = made + 1 /\ b = made + Cardinality(dead)
      BY <1>1
    <3>2. IsFiniteSet(a..b) /\ Cardinality(a..b) = IF a > b THEN 0 ELSE b - a + 1
      BY FS_Interval
    <3>3. Numbers = a..b
      BY <3>1
    <3>4. (IF a > b THEN 0 ELSE b - a + 1) = Cardinality(dead)
      BY <1>1, <3>1
    <3> HIDE DEF Numbers
    <3> QED
      BY <3>2, <3>3, <3>4
  <2>3. f \in Surjection(dead, Numbers)
    <3> HIDE DEF f, Numbers
    <3> QED
      BY <2>1, <2>2, FS_Injection
  <2> QED
    BY <1>5, <2>3 DEF Surjection, Copies
<1> QED
  BY <1>1, <1>5, <1>6, <1>7

(***************************************************************************)
(* The steps, object by object                                             *)
(***************************************************************************)

\* The objects a step makes.
New == (made + 1)..made'

\* The objects of X leave queue q and forget their state.
Leave(q, X) ==
    /\ queue' = [queue EXCEPT ![q] = @ \ X]
    /\ msg' = Unqueue(X)
    /\ UNCHANGED <<setup, clock, open, made, dedup>>

\* One object, m, joins queue q.
Arrive(q, m) ==
    /\ made' = made + 1
    /\ queue' = [queue EXCEPT ![q] = @ \union {made + 1}]
    /\ msg' = [msg EXCEPT ![made + 1] = m]
    /\ UNCHANGED <<setup, clock, open>>

\* An object a receive hands out at time t.
HandedOut(p, t) == [msg[p] EXCEPT !.count = @ + 1, !.received = TRUE, !.visAt = t]

\* What a receive on q does: the objects in taken are handed out, those in dead leave, and
\* each object it makes is the copy of one of kept.
Received(q, t, taken, dead, kept, from) ==
    /\ taken \subseteq queue[q] /\ dead \subseteq queue[q] /\ kept \subseteq dead
    /\ taken \intersect dead = {}
    /\ Dlq[q] \in open => kept = dead
    /\ dead # {} => Dlq[q] \in Queues
    /\ kept # {} => Dlq[q] \in open
    /\ made' \in made..MaxMsgs
    /\ from \in [New -> kept]
    /\ \A p, r \in New : from[p] = from[r] => p = r
    /\ \A o \in kept : \E p \in New : from[p] = o
    /\ \A p \in taken : msg'[p] = HandedOut(p, clock + t)
    /\ \A p \in taken : msg[p].count < MaxCount
    /\ \A p \in New : msg'[p] = Copy(from[p], q)
    /\ \A p \in Objects \ (taken \union New) : msg'[p] = Unqueue(dead)[p]
    /\ \A r \in Queues : queue'[r] = IF r = q THEN queue[q] \ dead
                                     ELSE IF r = Dlq[q] THEN queue[r] \union New
                                     ELSE queue[r]
    /\ queue' = [r \in Queues |-> queue'[r]]
    /\ msg' = [p \in Objects |-> msg'[p]]
    /\ UNCHANGED <<setup, clock, open, dedup, esm, move, history>>

\* The group-mates ahead of an object a receive takes are taken too, or leave.
Ahead(q, taken, dead) ==
    Fifo(q) => \A p \in queue[q], r \in taken :
                 p < r /\ msg[p].grp = msg[r].grp => p \in taken \union dead

\* ReceiveMessages, with its sets named.
LEMMA ReceiveFacts ==
    ASSUME TypeOK, NEW q \in Queues, NEW n \in Nat, NEW t \in Nat, ReceiveMessages(q, n, t)
    PROVE  \E taken, dead, kept \in SUBSET queue[q] : \E from \in [New -> kept] :
             Received(q, t, taken, dead, kept, from) /\ Ahead(q, taken, dead)
<1> DEFINE ready == {p \in queue[q] :
                       Visible(p) /\ msg[p].grp \notin FifoInFlightGroups(q)}
           live  == {p \in ready : ~ExceedsMaxReceive(q, p)}
           before(p) == {r \in live : r < p}
           within(p) == Cardinality(before(p)) < n
           taken == {p \in live : within(p)}
           dead  == {p \in ready \ live : within(p)}
           kept  == IF Dlq[q] \in open THEN dead ELSE {}
           from == [x \in New |-> CHOOSE r \in kept : Number(r, kept) = x]
<1>1. /\ made + Cardinality(kept) <= MaxMsgs
      /\ \A p \in taken : msg[p].count < MaxCount
      /\ made' = made + Cardinality(kept)
      /\ msg' = [p \in Objects |->
                   IF p \in taken
                   THEN HandedOut(p, clock + t)
                   ELSE IF p \in Copies(kept)
                   THEN Copy(CHOOSE r \in kept : Number(r, kept) = p, q)
                   ELSE Unqueue(dead)[p]]
      /\ queue' = [r \in Queues |->
                     IF r = q THEN queue[q] \ dead
                     ELSE IF r = Dlq[q] THEN queue[r] \union Copies(kept)
                     ELSE queue[r]]
      /\ UNCHANGED <<setup, clock, open, dedup, esm, move, history>>
  BY DEF ReceiveMessages, HandedOut
<1>2. /\ ready \subseteq queue[q] /\ live \subseteq ready
      /\ taken \subseteq live /\ dead \subseteq ready \ live /\ kept \subseteq dead
      /\ Dlq[q] \in open => kept = dead
      /\ kept # {} => Dlq[q] \in open
  OBVIOUS
<1>3. queue[q] \subseteq 1..made /\ made \in Nat /\ made \in 0..MaxMsgs
      /\ open \subseteq Queues /\ MaxMsgs \in Nat /\ MaxMsgs \in Int
  BY SQSAssumption DEF TypeOK
<1>4. dead # {} => Dlq[q] \in Queues
  <2>1. \A p \in dead : ExceedsMaxReceive(q, p)
    OBVIOUS
  <2> QED
    BY <2>1, SQSAssumption DEF ExceedsMaxReceive
<1>5. Ahead(q, taken, dead)
  <2> SUFFICES ASSUME Fifo(q), NEW p \in queue[q], NEW r \in taken,
                      p < r, msg[p].grp = msg[r].grp
               PROVE  p \in taken \union dead
    BY DEF Ahead
  <2>1. p \in ready
    BY DEF FifoInFlightGroups
  <2>2. within(p)
    <3>1. live \subseteq 1..made /\ p \in 1..made /\ r \in 1..made
      BY <1>2, <1>3
    <3>2. \A x \in before(p) : x \in before(r)
      BY <3>1
    <3>3. IsFiniteSet(1..made)
      BY <1>3, FS_Interval
    <3>4. IsFiniteSet(live)
      BY <3>1, <3>3, SubsetCard
    <3>5. /\ IsFiniteSet(before(r)) /\ IsFiniteSet(before(p))
          /\ Cardinality(before(p)) <= Cardinality(before(r))
      <4>1. IsFiniteSet(before(r))
        BY <3>4, SubsetCard
      <4> HIDE DEF before
      <4> QED
        BY <3>2, <4>1, SubsetCard
    <3>6. Cardinality(before(p)) \in Nat /\ Cardinality(before(r)) \in Nat
      BY <3>5, FS_CardinalityType
    <3>7. Cardinality(before(r)) < n
      OBVIOUS
    <3> HIDE DEF before
    <3> QED
      BY <3>5, <3>6, <3>7
  <2> HIDE DEF ready, within
  <2> QED
    BY <2>1, <2>2
<1> HIDE DEF ready, live, taken, dead, kept
<1>6. kept \subseteq 1..made
  BY <1>2, <1>3
<1>7. /\ Cardinality(kept) \in Nat
      /\ \A p \in kept : Number(p, kept) \in New
      /\ \A p, r \in kept : Number(p, kept) = Number(r, kept) => p = r
      /\ Copies(kept) = New
  BY <1>1, <1>3, <1>6, NumberFacts DEF New
<1>8. \A x \in New : from[x] \in kept /\ Number(from[x], kept) = x
  BY <1>7 DEF Copies
<1>9. from \in [New -> kept]
  BY <1>8
<1>10. \A p, r \in New : from[p] = from[r] => p = r
  BY <1>8
<1>11. \A o \in kept : \E p \in New : from[p] = o
  BY <1>7, <1>8
<1>12. \A p \in New : p \in Objects /\ p \notin taken
  BY <1>1, <1>2, <1>3, <1>7 DEF New, Objects
<1>13. \A p \in New : msg'[p] = Copy(from[p], q)
  BY <1>1, <1>7, <1>12
<1>14. \A p \in taken : p \in Objects
  BY <1>2, <1>3 DEF Objects
<1>15. made' \in made..MaxMsgs
  BY <1>1, <1>3, <1>7
<1>16. Received(q, t, taken, dead, kept, from)
  <2> HIDE DEF from
  <2>1. /\ \A p \in taken : msg'[p] = HandedOut(p, clock + t)
        /\ \A p \in Objects \ (taken \union New) : msg'[p] = Unqueue(dead)[p]
    BY <1>1, <1>7, <1>14
  <2>2. taken \subseteq queue[q] /\ dead \subseteq queue[q] /\ taken \intersect dead = {}
    BY <1>2
  <2>3. \A r \in Queues : queue'[r] = IF r = q THEN queue[q] \ dead
                                      ELSE IF r = Dlq[q] THEN queue[r] \union New
                                      ELSE queue[r]
    BY <1>1, <1>7
  <2>4. queue' = [r \in Queues |-> queue'[r]] /\ msg' = [p \in Objects |-> msg'[p]]
    BY <1>1
  <2> QED
    BY <1>1, <1>2, <1>4, <1>9, <1>10, <1>11, <1>13, <1>15, <2>1, <2>2, <2>3, <2>4
    DEF Received
<1> HIDE DEF from
<1>17. taken \in SUBSET queue[q] /\ dead \in SUBSET queue[q] /\ kept \in SUBSET queue[q]
  BY <1>2
<1> QED
  BY <1>5, <1>9, <1>16, <1>17

\* A copy is the message it copies, new, undelivered, and free of deduplication.
LEMMA CopyFacts ==
    ASSUME TypeOK, NEW p \in Objects, NEW n \in Queues \union {NoQueue}
    PROVE  /\ Copy(p, n) \in Message
           /\ Copy(p, n).id = msg[p].id /\ Copy(p, n).dd = NoDedup
           /\ Copy(p, n).sentAt = clock /\ Copy(p, n).count = 0
<1>1. msg[p] \in Message /\ clock \in 0..MaxClock /\ clock \in Nat /\ 0 \in 0..MaxCount
  BY SQSAssumption DEF TypeOK
<1> QED
  BY <1>1 DEF Copy, Message

\* What a move task appends keeps the deduplication id as well.
LEMMA MovedFacts ==
    ASSUME TypeOK, NEW p \in Objects
    PROVE  LET c == [Copy(p, NoQueue) EXCEPT !.dd = msg[p].dd] IN
           /\ c \in Message
           /\ c.id = msg[p].id /\ c.sentAt = clock /\ c.count = 0
<1>1. Copy(p, NoQueue) \in Message /\ msg[p] \in Message
  BY CopyFacts DEF TypeOK
<1>2. msg[p].dd \in DedupIds \union {NoDedup}
  BY <1>1 DEF Message
<1> QED
  BY <1>1, <1>2, CopyFacts DEF Message

\* The fields a send fills in.
Filled(m, i, g, d, c, v) ==
    [m EXCEPT !.id = i, !.grp = g, !.dd = d, !.sentAt = c, !.visAt = v]

\* They are all it changes.
LEMMA FilledFacts ==
    ASSUME NEW m \in Message, NEW i \in 0..MaxMsgs, NEW g \in Groups,
           NEW d \in DedupIds \union {NoDedup}, NEW c \in 0..MaxClock, NEW v \in Nat
    PROVE  /\ Filled(m, i, g, d, c, v) \in Message
           /\ Filled(m, i, g, d, c, v).id = i /\ Filled(m, i, g, d, c, v).dd = d
           /\ Filled(m, i, g, d, c, v).sentAt = c
           /\ Filled(m, i, g, d, c, v).count = m.count
BY DEF Message, Filled

\* What a send appends.
Sends(g, d, delay) == Filled(NoMessage, made + 1, g, d, clock, clock + delay)

\* A message sent is a message of its own, sent now.
LEMMA SendsFacts ==
    ASSUME TypeOK, made < MaxMsgs, NEW g \in Groups, NEW d \in DedupIds \union {NoDedup},
           NEW delay \in Nat
    PROVE  /\ Sends(g, d, delay) \in Message
           /\ Sends(g, d, delay).id = made + 1 /\ Sends(g, d, delay).dd = d
           /\ Sends(g, d, delay).sentAt = clock /\ Sends(g, d, delay).count = 0
<1>1. /\ clock \in 0..MaxClock /\ clock \in Nat /\ 0 \in 0..MaxCount
      /\ made + 1 \in 0..MaxMsgs /\ clock + delay \in Nat /\ 0 \in 0..MaxMsgs
      /\ 0 \in 0..MaxClock
  BY SQSAssumption DEF TypeOK
<1>2. (CHOOSE x \in Groups : TRUE) \in Groups
  BY SQSAssumption
<1>3. NoMessage \in Message /\ NoMessage.count = 0
  <2>1. FALSE \in BOOLEAN /\ NoDedup \in DedupIds \union {NoDedup}
        /\ NoQueue \in Queues \union {NoQueue} /\ 0 \in Nat
    OBVIOUS
  <2> DEFINE first == CHOOSE g0 \in Groups : TRUE
  <2>2. first \in Groups
    BY <1>2
  <2>3. NoMessage = [id |-> 0, grp |-> first, dd |-> NoDedup, sentAt |-> 0, visAt |-> 0,
                     count |-> 0, received |-> FALSE, src |-> NoQueue]
    BY DEF NoMessage
  <2> HIDE DEF first
  <2> QED
    BY <1>1, <2>1, <2>2, <2>3 DEF Message
<1> QED
  BY <1>1, <1>3, FilledFacts DEF Sends

\* An object that leaves its queue stays the same message.
LEMMA UnqueueFacts ==
    ASSUME TypeOK, NEW S
    PROVE  /\ Unqueue(S) \in [Objects -> Message]
           /\ \A p \in Objects :
                /\ Unqueue(S)[p].id = msg[p].id /\ Unqueue(S)[p].grp = msg[p].grp
                /\ Unqueue(S)[p].dd = msg[p].dd /\ Unqueue(S)[p].sentAt <= msg[p].sentAt
                /\ p \notin S => Unqueue(S)[p] = msg[p]
<1>1. /\ \A p \in Objects : msg[p] \in Message
      /\ 0 \in Nat /\ 0 \in 0..MaxClock /\ 0 \in 0..MaxCount
  BY SQSAssumption DEF TypeOK
<1>2. \A p \in Objects : msg[p].sentAt >= 0 /\ msg[p].sentAt <= msg[p].sentAt
  BY <1>1 DEF Message
<1> DEFINE Bare(p) ==
      [msg[p] EXCEPT !.sentAt = 0, !.visAt = 0, !.count = 0, !.received = FALSE]
<1>3. \A p \in Objects :
        /\ Bare(p) \in Message
        /\ Bare(p).id = msg[p].id /\ Bare(p).grp = msg[p].grp /\ Bare(p).dd = msg[p].dd
        /\ Bare(p).sentAt = 0
  BY <1>1 DEF Message
<1>4. \A p \in Objects : msg[p].sentAt >= 0
  BY <1>1 DEF Message
<1>5. Unqueue(S) = [p \in Objects |-> IF p \in S THEN Bare(p) ELSE msg[p]]
  BY DEF Unqueue
<1> HIDE DEF Bare
<1> QED
  BY <1>1, <1>2, <1>3, <1>4, <1>5

\* An object handed out counts one more receive.
LEMMA HandedOutFacts ==
    ASSUME TypeOK, NEW p \in Objects, msg[p].count < MaxCount, NEW t \in Nat
    PROVE  /\ HandedOut(p, t) \in Message
           /\ HandedOut(p, t).id = msg[p].id /\ HandedOut(p, t).grp = msg[p].grp
           /\ HandedOut(p, t).dd = msg[p].dd /\ HandedOut(p, t).sentAt = msg[p].sentAt
           /\ HandedOut(p, t).count = msg[p].count + 1
<1>1. msg[p] \in Message
  BY DEF TypeOK
<1>2. msg[p].count + 1 \in 0..MaxCount
  BY <1>1, SQSAssumption DEF Message
<1> QED
  BY <1>1, <1>2 DEF HandedOut, Message

(***************************************************************************)
(* What every step of the system does to the objects                       *)
(***************************************************************************)

\* Time goes on; objects are made, and each of them joins one queue; the others only
\* leave their queue or stay, and stay the same message.
Flow ==
    /\ setup' = setup
    /\ clock' \in clock..MaxClock
    /\ made' \in made..MaxMsgs
    /\ queue' \in [Queues -> SUBSET (1..made')]
    /\ msg' \in [Objects -> Message]
    /\ \A q \in Queues : queue'[q] \subseteq queue[q] \union New
    /\ \A p \in New : \E q \in Queues : p \in queue'[q]
    /\ \A p \in New, q, r \in Queues : p \in queue'[q] /\ p \in queue'[r] => q = r
    /\ \A p \in 1..made :
         /\ msg'[p].id = msg[p].id /\ msg'[p].grp = msg[p].grp
         /\ msg'[p].dd = msg[p].dd /\ msg'[p].sentAt <= msg[p].sentAt
    /\ \A q \in Queues, p \in 1..made :
         p \in queue[q] /\ p \in queue'[q] => msg'[p].sentAt = msg[p].sentAt
    /\ \A p \in New : /\ msg'[p].id \in 1..made' /\ msg'[p].sentAt = clock
                      /\ msg'[p].count = 0

\* Objects that stay in a queue without a Lambda mapping keep their receive count.
CountsKept ==
    \A q \in Queues \ setup.mapped, p \in 1..made :
        p \in queue[q] /\ p \in queue'[q] => msg'[p].count = msg[p].count

\* The types, unfolded.
LEMMA Basics ==
    ASSUME TypeOK
    PROVE  /\ made \in Nat /\ made \in 0..MaxMsgs /\ clock \in 0..MaxClock
           /\ MaxMsgs \in Nat /\ MaxClock \in Nat
           /\ \A p \in 1..made : p \in Objects
           /\ msg \in [Objects -> Message]
           /\ \A p \in Objects : msg[p].sentAt \in Nat /\ msg[p].count \in Nat
           /\ queue \in [Queues -> SUBSET (1..made)]
           /\ \A q \in Queues : \A p \in queue[q] : p \in 1..made
           /\ setup.fifo \subseteq Queues /\ setup.mapped \subseteq Queues
<1>1. /\ made \in 0..MaxMsgs /\ clock \in 0..MaxClock /\ msg \in [Objects -> Message]
      /\ queue \in [Queues -> SUBSET (1..made)] /\ setup \in Setups
  BY DEF TypeOK
<1>2. \A p \in Objects : msg[p].sentAt \in Nat /\ msg[p].count \in Nat
  BY <1>1 DEF Message
<1>3. setup.fifo \subseteq Queues /\ setup.mapped \subseteq Queues
  BY <1>1, SQSAssumption
<1>4. /\ made \in Nat /\ MaxMsgs \in Nat /\ MaxClock \in Nat
      /\ \A p \in 1..made : p \in Objects
  BY <1>1, SQSAssumption DEF Objects
<1>5. \A q \in Queues : \A p \in queue[q] : p \in 1..made
  BY <1>1
<1> QED
  BY <1>1, <1>2, <1>3, <1>4, <1>5

\* Steps that touch no object.
LEMMA QuietFlow ==
    ASSUME TypeOK, UNCHANGED <<setup, queue, msg, made>>, clock' \in clock..MaxClock
    PROVE  Flow /\ CountsKept /\ New = {}
<1>1. New = {}
  BY Basics DEF New
<1> QED
  BY <1>1, Basics DEF Flow, CountsKept

\* Objects leave a queue.
LEMMA LeaveFlow ==
    ASSUME TypeOK, NEW q \in Queues, NEW X, Leave(q, X),
           \A r \in Queues \ {q} : X \intersect queue[r] = {}
    PROVE  Flow /\ CountsKept /\ New = {}
<1>1. New = {}
  BY Basics DEF New, Leave
<1>2. /\ \A r \in Queues : queue'[r] = IF r = q THEN queue[r] \ X ELSE queue[r]
      /\ queue' \in [Queues -> SUBSET (1..made)]
  BY Basics DEF Leave
<1>3. msg' = Unqueue(X) /\ made' = made /\ setup' = setup /\ clock' = clock
  BY DEF Leave
<1>4. \A r \in Queues, p \in 1..made : p \in queue'[r] => p \notin X
  BY <1>2
<1>5. \A r \in Queues, p \in 1..made : p \in queue'[r] => msg'[p] = msg[p]
  BY <1>3, <1>4, UnqueueFacts, Basics
<1> QED
  BY <1>1, <1>2, <1>3, <1>5, UnqueueFacts, Basics DEF Flow, CountsKept

\* An object joins a queue.
LEMMA ArriveFlow ==
    ASSUME TypeOK, NEW q \in Queues, NEW m \in Message, made < MaxMsgs, Arrive(q, m),
           m.id \in 1..(made + 1), m.sentAt = clock, m.count = 0
    PROVE  /\ Flow /\ CountsKept /\ New = {made + 1}
           /\ msg'[made + 1] = m
           /\ \A r \in Queues : \A p \in queue[r] : p \in queue'[r]
           /\ \A r \in Queues : made + 1 \in queue'[r] <=> r = q
<1>1. New = {made + 1}
  BY Basics DEF New, Arrive
<1>2. made' = made + 1 /\ setup' = setup /\ clock' = clock /\ made + 1 \in Objects
  BY Basics DEF Arrive, Objects
<1>3. /\ \A r \in Queues : queue'[r] = IF r = q THEN queue[r] \union {made + 1}
                                       ELSE queue[r]
      /\ queue' \in [Queues -> SUBSET (1..made')]
  <2>1. queue' = [queue EXCEPT ![q] = queue[q] \union {made + 1}]
    BY DEF Arrive
  <2>2. \A r \in Queues : queue[r] \subseteq 1..made' /\ made + 1 \in 1..made'
    BY <1>2, Basics
  <2> QED
    BY <2>1, <2>2, Basics
<1>4. /\ msg' \in [Objects -> Message] /\ msg'[made + 1] = m
      /\ \A p \in 1..made : msg'[p] = msg[p]
  BY <1>2, Basics DEF Arrive
<1>5. made + 1 \notin 1..made
  BY Basics
<1>6. \A r \in Queues : made + 1 \notin queue[r]
  BY <1>5, Basics
<1>7. \A r \in Queues : made + 1 \in queue'[r] <=> r = q
  BY <1>3, <1>6
<1> QED
  BY <1>1, <1>2, <1>3, <1>4, <1>7, Basics DEF Flow, CountsKept

\* No object is in two queues.
OwnQueue == \A q, r \in Queues, p \in 1..made : p \in queue[q] /\ p \in queue[r] => q = r

\* An object changes in its queue.
LEMMA ChangeFlow ==
    ASSUME TypeOK, OwnQueue, NEW q \in Queues, NEW p \in queue[q], NEW m \in Message,
           msg' = [msg EXCEPT ![p] = m],
           m.id = msg[p].id, m.grp = msg[p].grp, m.dd = msg[p].dd, m.sentAt = msg[p].sentAt,
           q \in setup.mapped \/ m.count = msg[p].count,
           UNCHANGED <<setup, clock, queue, made>>
    PROVE  Flow /\ CountsKept /\ New = {}
<1>1. New = {}
  BY Basics DEF New
<1>2. p \in Objects
  BY Basics
<1>3. /\ msg' \in [Objects -> Message]
      /\ \A o \in Objects : msg'[o] = IF o = p THEN m ELSE msg[o]
  BY <1>2, Basics
<1>4. \A o \in Objects : /\ msg'[o].id = msg[o].id /\ msg'[o].grp = msg[o].grp
                         /\ msg'[o].dd = msg[o].dd /\ msg'[o].sentAt = msg[o].sentAt
  BY <1>3
<1>5. Flow
  BY <1>1, <1>3, <1>4, Basics DEF Flow
<1>6. CountsKept
  BY <1>2, <1>3, Basics DEF CountsKept, OwnQueue
<1> QED
  BY <1>1, <1>5, <1>6

\* A receive.
LEMMA ReceiveFlow ==
    ASSUME TypeOK, OwnQueue, \A p \in 1..made : msg[p].id \in 1..made,
           NEW q \in Queues, NEW t \in Nat,
           NEW taken, NEW dead, NEW kept, NEW from, Received(q, t, taken, dead, kept, from)
    PROVE  /\ Flow
           /\ \A p \in New : msg'[p].dd = NoDedup /\ msg'[p].id = msg[from[p]].id
           /\ \A r \in Queues, p \in 1..made :
                p \in queue'[r] => /\ p \in queue[r]
                                   /\ p \notin dead
                                   /\ p \notin taken => msg'[p] = msg[p]
                                   /\ p \in taken => msg'[p].count = msg[p].count + 1
<1>1. /\ taken \subseteq queue[q] /\ dead \subseteq queue[q] /\ kept \subseteq dead
      /\ taken \intersect dead = {}
      /\ kept # {} => Dlq[q] \in open
      /\ made' \in made..MaxMsgs
      /\ from \in [New -> kept]
      /\ \A p \in taken : msg'[p] = HandedOut(p, clock + t)
      /\ \A p \in taken : msg[p].count < MaxCount
      /\ \A p \in New : msg'[p] = Copy(from[p], q)
      /\ \A p \in Objects \ (taken \union New) : msg'[p] = Unqueue(dead)[p]
      /\ queue' = [r \in Queues |-> queue'[r]] /\ msg' = [p \in Objects |-> msg'[p]]
      /\ UNCHANGED <<setup, clock>>
  BY DEF Received
<1>2. \A r \in Queues : queue'[r] = IF r = q THEN queue[q] \ dead
                                    ELSE IF r = Dlq[q] THEN queue[r] \union New
                                    ELSE queue[r]
  BY DEF Received
<1>3. /\ \A p \in New : p \in Objects /\ p \in 1..made' /\ p \notin 1..made
      /\ \A p \in 1..made : p \in Objects /\ p \in 1..made' /\ p \notin New
      /\ \A p \in 1..made' : p \in New \/ p \in 1..made
  BY <1>1, Basics DEF New, Objects
<1>4. \A p \in taken \union dead : p \in 1..made
  BY <1>1, Basics
<1>5. clock + t \in Nat /\ clock \in Nat
  BY Basics
<1>6. \A p \in New : /\ from[p] \in kept /\ from[p] \in 1..made
                     /\ msg'[p] \in Message /\ msg'[p].id = msg[from[p]].id
                     /\ msg'[p].dd = NoDedup
                     /\ msg'[p].sentAt = clock /\ msg'[p].count = 0
  <2>1. \A p \in New : from[p] \in kept
    BY <1>1
  <2>2. \A p \in New : from[p] \in 1..made /\ from[p] \in Objects
    BY <2>1, <1>1, <1>3, <1>4
  <2> QED
    BY <1>1, <2>1, <2>2, CopyFacts
<1>7. \A p \in taken : /\ msg'[p] \in Message
                       /\ msg'[p].id = msg[p].id /\ msg'[p].grp = msg[p].grp
                       /\ msg'[p].dd = msg[p].dd /\ msg'[p].sentAt = msg[p].sentAt
                       /\ msg'[p].count = msg[p].count + 1
  BY <1>1, <1>3, <1>4, <1>5, HandedOutFacts
<1>8. \A p \in Objects \ (taken \union New) :
        /\ msg'[p] \in Message
        /\ msg'[p].id = msg[p].id /\ msg'[p].grp = msg[p].grp
        /\ msg'[p].dd = msg[p].dd /\ msg'[p].sentAt <= msg[p].sentAt
        /\ p \notin dead => msg'[p] = msg[p]
  BY <1>1, UnqueueFacts
<1>9. msg' \in [Objects -> Message]
  <2>1. \A p \in Objects : msg'[p] \in Message
    BY <1>6, <1>7, <1>8
  <2> QED
    BY <1>1, <2>1
<1>10. \A p \in New : Dlq[q] \in Queues /\ Dlq[q] # q
  <2>1. open \subseteq Queues
    BY DEF TypeOK
  <2> QED
    BY <1>1, <1>6, <2>1, SQSAssumption
<1>11. queue' \in [Queues -> SUBSET (1..made')]
  <2>1. \A r \in Queues : queue[r] \subseteq 1..made' /\ New \subseteq 1..made'
    BY <1>3, Basics
  <2>2. \A r \in Queues : queue'[r] \subseteq 1..made'
    BY <1>2, <2>1
  <2> QED
    BY <1>1, <2>2
<1>12. \A r \in Queues, p \in New : p \in queue'[r] <=> r = Dlq[q]
  BY <1>2, <1>3, <1>10, Basics
<1>13. \A r \in Queues, p \in 1..made :
          p \in queue'[r] => /\ p \in queue[r] /\ p \notin dead
                             /\ p \notin taken => msg'[p] = msg[p]
                             /\ p \in taken => msg'[p].count = msg[p].count + 1
  <2> SUFFICES ASSUME NEW r \in Queues, NEW p \in 1..made, p \in queue'[r]
               PROVE  /\ p \in queue[r] /\ p \notin dead
                      /\ p \notin taken => msg'[p] = msg[p]
                      /\ p \in taken => msg'[p].count = msg[p].count + 1
    OBVIOUS
  <2>1. p \in queue[r]
    BY <1>2, <1>3
  <2>2. p \notin dead
    BY <1>1, <1>2, <2>1 DEF OwnQueue
  <2> QED
    BY <1>3, <1>7, <1>8, <2>1, <2>2
<1>14. \A p \in 1..made :
         /\ msg'[p].id = msg[p].id /\ msg'[p].grp = msg[p].grp
         /\ msg'[p].dd = msg[p].dd /\ msg'[p].sentAt <= msg[p].sentAt
  BY <1>3, <1>7, <1>8, Basics
<1>15. \A r \in Queues, p \in 1..made :
         p \in queue[r] /\ p \in queue'[r] => msg'[p].sentAt = msg[p].sentAt
  BY <1>7, <1>13
<1>16. \A p \in New : msg'[p].id \in 1..made'
  BY <1>3, <1>6
<1>17. Flow
  <2>1. \A r \in Queues : queue'[r] \subseteq queue[r] \union New
    BY <1>2
  <2>2. /\ \A p \in New : \E r \in Queues : p \in queue'[r]
        /\ \A p \in New, r1, r2 \in Queues : p \in queue'[r1] /\ p \in queue'[r2] => r1 = r2
    BY <1>10, <1>12
  <2>3. clock' \in clock..MaxClock
    BY <1>1, Basics
  <2> QED
    BY <1>1, <1>6, <1>9, <1>11, <1>14, <1>15, <1>16, <2>1, <2>2, <2>3 DEF Flow
<1> QED
  BY <1>6, <1>13, <1>17

(***************************************************************************)
(* Where the messages are                                                  *)
(***************************************************************************)

\* The object sender s is at.
Load(s) == Lowest(esm[s].todo)
\* Object p is in a queue, or in the hands of a sender on its way to the dead-letter queue.
InQueue(p) == \E q \in Queues : p \in queue[q]
OnWay(p) == \E s \in Senders : esm[s].at = "dlq" /\ Load(s) = p
Live(p) == InQueue(p) \/ OnWay(p)

\* Every object is a message that was sent, in the past.
Identity == \A p \in 1..made : msg[p].id \in 1..made /\ msg[p].sentAt <= clock

\* What TypeOK says of the senders and of the move tasks.
SendersTyped ==
    /\ esm \in [Senders -> Delivery]
    /\ \A s \in Senders :
         /\ esm[s].todo \subseteq 1..made
         /\ esm[s].at # "idle" => esm[s].q \in Queues
         /\ esm[s].at \in {"try", "invoke", "dlq"} => esm[s].todo # {}
MoversTyped ==
    /\ move \in [Movers -> Task]
    /\ \A m \in Movers :
         /\ move[m].todo \subseteq 1..made /\ move[m].done \subseteq 1..made
         /\ move[m].at # "idle" => move[m].src \in Queues

\* A sender holds objects of its queue only, or of none; it calls a function only for a mapped
\* queue, and what it carries to a dead-letter queue is in no queue.
DeliveriesHome ==
    \A s \in Senders :
        /\ esm[s].at \in {"idle", "sweep"} => esm[s].todo = {}
        /\ \A q \in Queues, p \in esm[s].todo : p \in queue[q] => q = esm[s].q
        /\ esm[s].at = "invoke" => esm[s].q \in setup.mapped
        /\ esm[s].at = "dlq" => ~InQueue(Load(s)) /\ Dlq[esm[s].q] \in Queues

\* Two senders carry different objects.
LoadsApart ==
    \A s, x \in Senders :
        esm[s].at = "dlq" /\ esm[x].at = "dlq" /\ Load(s) = Load(x) => s = x

SendersOK == SendersTyped /\ DeliveriesHome /\ LoadsApart

\* A move task's objects are in its source or in no queue.
MovesHome ==
    \A m \in Movers, q \in Queues : \A p \in move[m].todo \union move[m].done :
        p \in queue[q] => q = move[m].src

MoversOK == MoversTyped /\ MovesHome

\* The types and where everything is.
Places == TypeOK /\ Identity /\ OwnQueue /\ SendersOK /\ MoversOK

\* A sender with objects left is at one of them.
LEMMA LoadFacts ==
    ASSUME SendersTyped, made \in Nat, NEW s \in Senders, esm[s].todo # {}
    PROVE  Load(s) \in esm[s].todo /\ Load(s) \in 1..made
BY LowestIsIn DEF SendersTyped, Load

\* Senders that stay as they are.
LEMMA SendersKept ==
    ASSUME Places, Flow, UNCHANGED esm
    PROVE  SendersOK' /\ \A p : OnWay(p)' <=> OnWay(p)
<1>1. /\ made \in Nat /\ made' \in made..MaxMsgs /\ MaxMsgs \in Nat
      /\ \A p \in 1..made : p \in 1..made' /\ p \notin New
      /\ \A q \in Queues : queue'[q] \subseteq queue[q] \union New
      /\ setup' = setup
  BY Basics DEF Places, Flow, New
<1>2. SendersTyped'
  BY <1>1 DEF Places, SendersOK, SendersTyped
<1>3. \A p \in 1..made : InQueue(p)' => InQueue(p)
  BY <1>1 DEF InQueue
<1>4. \A s \in Senders : Load(s)' = Load(s)
  BY DEF Load
<1>5. DeliveriesHome'
  <2>1. \A s \in Senders : esm[s].at = "dlq" => Load(s) \in 1..made
    BY <1>1, LoadFacts DEF Places, SendersOK, SendersTyped
  <2>2. \A s \in Senders : \A p \in esm[s].todo : p \in 1..made
    BY DEF Places, SendersOK, SendersTyped
  <2> QED
    BY <1>1, <1>3, <1>4, <2>1, <2>2 DEF Places, SendersOK, DeliveriesHome
<1>6. LoadsApart'
  BY <1>4 DEF Places, SendersOK, LoadsApart
<1>7. \A p : OnWay(p)' <=> OnWay(p)
  BY <1>4 DEF OnWay
<1> QED
  BY <1>2, <1>5, <1>6, <1>7 DEF SendersOK

\* Sender s turns to step a on queue q with the objects of S left.
Turns(s, a, q, S) ==
    /\ esm' \in [Senders -> Delivery]
    /\ esm'[s].at = a /\ esm'[s].q = q /\ esm'[s].todo = S
    /\ \A x \in Senders \ {s} : esm'[x] = esm[x]

\* A sender that turns to objects of its queue, or keeps some of those it had, and takes the
\* one it carries out of the queue first.
LEMMA SendersTurn ==
    ASSUME Places, Flow, NEW s \in Senders, NEW a, NEW q, NEW S, Turns(s, a, q, S),
           \/ S = {}
           \/ S \subseteq esm[s].todo /\ q = esm[s].q
           \/ q \in Queues /\ S \subseteq queue[q],
           a # "idle" => q \in Queues,
           a \in {"idle", "sweep"} => S = {},
           a \in {"try", "invoke", "dlq"} => S # {},
           a = "invoke" => q \in setup.mapped,
           a = "dlq" => /\ InQueue(Lowest(S)) /\ \A r \in Queues : Lowest(S) \notin queue'[r]
                        /\ Dlq[q] \in Queues
    PROVE  /\ SendersOK'
           /\ \A p : OnWay(p)' => OnWay(p) \/ InQueue(p)
           /\ \A p : OnWay(p) => OnWay(p)' \/ (esm[s].at = "dlq" /\ Load(s) = p)
           /\ a = "dlq" => OnWay(Lowest(S))'
<1>1. /\ made \in Nat /\ made' \in made..MaxMsgs /\ MaxMsgs \in Nat
      /\ \A p \in 1..made : p \in 1..made' /\ p \notin New
      /\ \A r \in Queues : queue'[r] \subseteq queue[r] \union New
      /\ setup' = setup
  BY Basics DEF Places, Flow, New
<1>2. S \subseteq 1..made
  BY Basics DEF Places, SendersOK, SendersTyped
<1>3. /\ esm'[s].at = a /\ esm'[s].q = q /\ esm'[s].todo = S
      /\ \A x \in Senders \ {s} : esm'[x] = esm[x]
      /\ esm' \in [Senders -> Delivery]
  BY DEF Turns
<1>4. SendersTyped'
  <2>1. \A x \in Senders : /\ esm[x].todo \subseteq 1..made
                           /\ esm[x].at # "idle" => esm[x].q \in Queues
                           /\ esm[x].at \in {"try", "invoke", "dlq"} => esm[x].todo # {}
    BY DEF Places, SendersOK, SendersTyped
  <2>2. \A x \in Senders : /\ esm'[x].todo \subseteq 1..made
                           /\ esm'[x].at # "idle" => esm'[x].q \in Queues
                           /\ esm'[x].at \in {"try", "invoke", "dlq"} => esm'[x].todo # {}
    BY <1>2, <1>3, <2>1
  <2>3. \A T : T \subseteq 1..made => T \subseteq 1..made'
    BY <1>1
  <2> QED
    BY <1>3, <2>2, <2>3 DEF SendersTyped
<1>5. \A p \in 1..made : InQueue(p)' => InQueue(p)
  BY <1>1 DEF InQueue
<1>6. Load(s)' = Lowest(S) /\ \A x \in Senders \ {s} : Load(x)' = Load(x)
  BY <1>3 DEF Load
<1>7. \A x \in Senders : esm[x].at = "dlq" => Load(x) \in 1..made /\ ~InQueue(Load(x))
  BY <1>1, LoadFacts DEF Places, SendersOK, SendersTyped, DeliveriesHome
<1>8. DeliveriesHome'
  <2>1. \A x \in Senders : \A p \in esm[x].todo : p \in 1..made
    BY DEF Places, SendersOK, SendersTyped
  <2>2. ASSUME NEW x \in Senders, x # s
        PROVE  /\ esm'[x].at \in {"idle", "sweep"} => esm'[x].todo = {}
               /\ \A r \in Queues, p \in esm'[x].todo : p \in queue'[r] => r = esm'[x].q
               /\ esm'[x].at = "invoke" => esm'[x].q \in setup'.mapped
               /\ esm'[x].at = "dlq" => ~InQueue(Load(x))' /\ Dlq[esm'[x].q] \in Queues
    <3>1. esm'[x] = esm[x] /\ Load(x)' = Load(x)
      BY <1>3, <1>6, <2>2
    <3> QED
      BY <1>1, <1>5, <1>7, <2>1, <3>1 DEF Places, SendersOK, DeliveriesHome
  <2>3. \A r \in Queues, p \in S : p \in queue'[r] => r = q
    <3> SUFFICES ASSUME NEW r \in Queues, NEW p \in S, p \in queue'[r]
                 PROVE  r = q
      OBVIOUS
    <3>1. p \in queue[r] /\ p \in 1..made
      BY <1>1, <1>2
    <3>2. CASE S \subseteq esm[s].todo /\ q = esm[s].q
      BY <3>1, <3>2 DEF Places, SendersOK, DeliveriesHome
    <3>3. CASE q \in Queues /\ S \subseteq queue[q]
      BY <3>1, <3>3 DEF Places, OwnQueue
    <3> QED
      BY <3>2, <3>3
  <2>4. a = "dlq" => ~InQueue(Load(s))' /\ Dlq[q] \in Queues
    BY <1>6 DEF InQueue
  <2>5. /\ esm'[s].at \in {"idle", "sweep"} => esm'[s].todo = {}
        /\ \A r \in Queues, p \in esm'[s].todo : p \in queue'[r] => r = esm'[s].q
        /\ esm'[s].at = "invoke" => esm'[s].q \in setup'.mapped
        /\ esm'[s].at = "dlq" => ~InQueue(Load(s))' /\ Dlq[esm'[s].q] \in Queues
    BY <1>1, <1>3, <2>3, <2>4
  <2> QED
    BY <2>2, <2>5 DEF DeliveriesHome
<1>9. LoadsApart'
  <2> SUFFICES ASSUME NEW x \in Senders, NEW y \in Senders,
                      esm'[x].at = "dlq", esm'[y].at = "dlq", Load(x)' = Load(y)', x # y
               PROVE  FALSE
    BY DEF LoadsApart
  <2>1. x # s /\ y # s => esm[x].at = "dlq" /\ esm[y].at = "dlq" /\ Load(x) = Load(y)
    BY <1>3, <1>6
  <2>2. ~(x # s /\ y # s)
    BY <2>1 DEF Places, SendersOK, LoadsApart
  <2>3. ASSUME NEW z \in Senders, z # s, esm'[z].at = "dlq" PROVE ~InQueue(Load(z)')
    <3>1. esm[z].at = "dlq" /\ Load(z)' = Load(z)
      BY <1>3, <1>6, <2>3
    <3> QED
      BY <1>7, <3>1
  <2>4. a = "dlq" /\ InQueue(Load(s)')
    BY <1>3, <1>6, <2>2
  <2> QED
    BY <2>2, <2>3, <2>4
<1>10. \A p : OnWay(p)' => OnWay(p) \/ InQueue(p)
  BY <1>3, <1>6 DEF OnWay
<1>11. \A p : OnWay(p) => OnWay(p)' \/ (esm[s].at = "dlq" /\ Load(s) = p)
  BY <1>3, <1>6 DEF OnWay
<1>12. a = "dlq" => OnWay(Lowest(S))'
  BY <1>3, <1>6 DEF OnWay
<1> QED
  BY <1>4, <1>8, <1>9, <1>10, <1>11, <1>12 DEF SendersOK

\* Move tasks that stay as they are.
LEMMA MoversKept ==
    ASSUME Places, Flow, UNCHANGED move
    PROVE  MoversOK'
<1>1. /\ made \in Nat /\ made' \in made..MaxMsgs /\ MaxMsgs \in Nat
      /\ \A p \in 1..made : p \in 1..made' /\ p \notin New
      /\ \A q \in Queues : queue'[q] \subseteq queue[q] \union New
  BY Basics DEF Places, Flow, New
<1>2. MoversTyped'
  BY <1>1 DEF Places, MoversOK, MoversTyped
<1>3. \A m \in Movers : \A p \in move[m].todo \union move[m].done : p \in 1..made
  BY DEF Places, MoversOK, MoversTyped
<1>4. MovesHome'
  BY <1>1, <1>3 DEF Places, MoversOK, MovesHome
<1> QED
  BY <1>2, <1>4 DEF MoversOK

\* Move task m goes on with the objects of S left and those of D copied.
Shifts(m, a, q, S, D) ==
    /\ move' \in [Movers -> Task]
    /\ move'[m].at = a /\ move'[m].src = q /\ move'[m].todo = S /\ move'[m].done = D
    /\ \A x \in Movers \ {m} : move'[x] = move[x]

\* A move task that takes objects of its source, or keeps some of those it had.
LEMMA MoversShift ==
    ASSUME Places, Flow, NEW m \in Movers, NEW a, NEW q, NEW S, NEW D, Shifts(m, a, q, S, D),
           \/ S \union D = {}
           \/ S \union D \subseteq move[m].todo \union move[m].done /\ q = move[m].src
           \/ q \in Queues /\ S \union D \subseteq queue[q],
           a # "idle" => q \in Queues
    PROVE  MoversOK'
<1>1. /\ made \in Nat /\ made' \in made..MaxMsgs /\ MaxMsgs \in Nat
      /\ \A p \in 1..made : p \in 1..made' /\ p \notin New
      /\ \A r \in Queues : queue'[r] \subseteq queue[r] \union New
  BY Basics DEF Places, Flow, New
<1>2. \A x \in Movers : /\ move[x].todo \subseteq 1..made /\ move[x].done \subseteq 1..made
                        /\ move[x].at # "idle" => move[x].src \in Queues
  BY DEF Places, MoversOK, MoversTyped
<1>3. /\ move'[m].at = a /\ move'[m].src = q /\ move'[m].todo = S /\ move'[m].done = D
      /\ \A x \in Movers \ {m} : move'[x] = move[x]
      /\ move' \in [Movers -> Task]
  BY DEF Shifts
<1>4. S \subseteq 1..made /\ D \subseteq 1..made
  BY <1>2, Basics DEF Places
<1>5. MoversTyped'
  <2>1. \A T : T \subseteq 1..made => T \subseteq 1..made'
    BY <1>1
  <2> QED
    BY <1>2, <1>3, <1>4, <2>1 DEF MoversTyped
<1>6. \A r \in Queues : \A p \in S \union D : p \in queue'[r] => r = q
  <2> SUFFICES ASSUME NEW r \in Queues, NEW p \in S \union D, p \in queue'[r]
               PROVE  r = q
    OBVIOUS
  <2>1. p \in queue[r] /\ p \in 1..made
    BY <1>1, <1>4
  <2>2. CASE S \union D \subseteq move[m].todo \union move[m].done /\ q = move[m].src
    BY <2>1, <2>2 DEF Places, MoversOK, MovesHome
  <2>3. CASE q \in Queues /\ S \union D \subseteq queue[q]
    BY <2>1, <2>3 DEF Places, OwnQueue
  <2> QED
    BY <2>2, <2>3
<1>7. ASSUME NEW x \in Movers, x # m, NEW r \in Queues,
             NEW p \in move'[x].todo \union move'[x].done, p \in queue'[r]
      PROVE  r = move'[x].src
  <2>1. move'[x] = move[x]
    BY <1>3, <1>7
  <2>2. p \in move[x].todo \union move[x].done /\ p \in 1..made
    BY <1>2, <1>7, <2>1
  <2>3. p \in queue[r]
    BY <1>1, <1>7, <2>2
  <2> QED
    BY <2>1, <2>2, <2>3 DEF Places, MoversOK, MovesHome
<1>8. MovesHome'
  BY <1>3, <1>6, <1>7 DEF MovesHome
<1> QED
  BY <1>5, <1>8 DEF MoversOK

\* What else a step keeps typed.
RestTyped ==
    /\ open \subseteq Queues
    /\ dedup \in [Queues -> [DedupIds -> -1..MaxClock]]
    /\ gone \subseteq 1..made /\ moved \subseteq 1..made

\* Every step that keeps the senders and the move tasks right keeps everything in its place.
LEMMA PlacesFlow ==
    ASSUME Places, Flow, SendersOK', MoversOK', RestTyped'
    PROVE  Places'
<1>1. /\ made \in Nat /\ made' \in made..MaxMsgs /\ MaxMsgs \in Nat
      /\ clock \in 0..MaxClock /\ clock \in Nat /\ MaxClock \in Nat
      /\ clock' \in clock..MaxClock /\ setup' = setup
      /\ \A p \in 1..made : p \in 1..made' /\ p \notin New /\ p \in Objects
      /\ \A p \in 1..made' : p \in 1..made \/ p \in New
      /\ \A p \in New : p \in 1..made' /\ p \notin 1..made
      /\ \A q \in Queues : queue'[q] \subseteq queue[q] \union New
      /\ queue \in [Queues -> SUBSET (1..made)]
      /\ \A p \in Objects : msg[p].sentAt \in Nat
  BY Basics DEF Places, Flow, New
<1>2. msg' \in [Objects -> Message] /\ queue' \in [Queues -> SUBSET (1..made')]
  BY DEF Flow
<1>3. TypeOK'
  <2>1. setup \in Setups
    BY DEF Places, TypeOK
  <2>2. SendersTyped' /\ MoversTyped'
    BY DEF SendersOK, MoversOK
  <2>3. clock' \in 0..MaxClock /\ made' \in 0..MaxMsgs
    BY <1>1
  <2> QED
    BY <1>1, <1>2, <2>1, <2>2, <2>3 DEF RestTyped, SendersTyped, MoversTyped, TypeOK
<1>4. Identity'
  <2>1. \A p \in New : msg'[p].id \in 1..made' /\ msg'[p].sentAt <= clock'
    BY <1>1 DEF Flow
  <2>2. \A p \in 1..made : msg'[p].id \in 1..made' /\ msg'[p].sentAt <= clock'
    <3> SUFFICES ASSUME NEW p \in 1..made
                 PROVE  msg'[p].id \in 1..made' /\ msg'[p].sentAt <= clock'
      OBVIOUS
    <3>1. /\ msg'[p].id = msg[p].id /\ msg'[p].sentAt <= msg[p].sentAt
          /\ msg[p].id \in 1..made /\ msg[p].sentAt <= clock
      BY DEF Flow, Places, Identity
    <3>2. msg'[p].sentAt \in Nat /\ msg[p].sentAt \in Nat
      BY <1>1, <1>2 DEF Message
    <3> QED
      BY <1>1, <3>1, <3>2
  <2> QED
    BY <1>1, <2>1, <2>2 DEF Identity
<1>5. OwnQueue'
  <2> SUFFICES ASSUME NEW q \in Queues, NEW r \in Queues, NEW p \in 1..made',
                      p \in queue'[q], p \in queue'[r]
               PROVE  q = r
    BY DEF OwnQueue
  <2>1. CASE p \in New
    BY <2>1 DEF Flow
  <2>2. CASE p \in 1..made
    BY <1>1, <2>2 DEF Places, OwnQueue
  <2> QED
    BY <1>1, <2>1, <2>2
<1> QED
  BY <1>3, <1>4, <1>5 DEF Places

(***************************************************************************)
(* What every step does to messages, and what follows                      *)
(***************************************************************************)

\* No message has two objects, in queues or on their way: only a move task makes a second one.
Unique ==
    \A p, r \in 1..made :
        Live(p) /\ Live(r) /\ msg[p].id = msg[r].id /\ msg[p].id \notin moved => p = r

\* An object a move task has copied, and is going to remove.
Copied(p) == \E m \in Movers : p \in move[m].done

\* While no queue is deleted, a message that is not gone has an object that no move task is
\* about to remove.
Kept ==
    open = Queues =>
      \A i \in Sent \ gone : \E p \in 1..made : Live(p) /\ ~Copied(p) /\ msg[p].id = i

\* A FIFO queue's index remembers when the messages it holds were sent, or a later send.
Remembered ==
    \A q \in setup.fifo : \A p \in queue[q] :
        msg[p].dd # NoDedup /\ msg[p].id \notin moved
        => dedup[q][msg[p].dd] # -1 /\ msg[p].sentAt <= dedup[q][msg[p].dd]
DedupPast == \A q \in Queues, d \in DedupIds : dedup[q][d] <= clock

\* A step makes an object of a new message, of one a move task copies, or of one whose object
\* it takes away.
Lineage ==
    /\ moved \subseteq moved'
    /\ \A p \in 1..made : Live(p)' => Live(p)
    /\ \A p \in New :
         \/ msg'[p].id \in moved'
         \/ msg'[p].id \notin 1..made
         \/ \E o \in 1..made : Live(o) /\ ~Live(o)' /\ msg[o].id = msg'[p].id
    /\ \A p, r \in New : msg'[p].id = msg'[r].id => p = r \/ msg'[p].id \in moved'

\* A message whose object goes away is gone, or has another.
Survival ==
    /\ open' \subseteq open /\ gone \subseteq gone'
    /\ \A p \in New : ~Copied(p)'
    /\ open' = Queues =>
         \A p \in 1..made : Live(p) /\ ~Copied(p) =>
           \/ msg[p].id \in gone'
           \/ \E r \in 1..made' : Live(r)' /\ ~Copied(r)' /\ msg'[r].id = msg[p].id

\* The index only moves on, and what joins a FIFO queue is a copy or is recorded there.
Windows ==
    /\ \A q \in Queues, d \in DedupIds :
         dedup[q][d] <= dedup'[q][d] /\ dedup'[q][d] <= clock'
    /\ \A q \in setup.fifo, p \in New :
         p \in queue'[q] =>
           \/ msg'[p].dd = NoDedup
           \/ msg'[p].id \in moved'
           \/ /\ made' = made + 1
              /\ dedup'[q][msg'[p].dd] = clock
              /\ ~FindDuplicate(q, msg'[p].dd)

\* The old and the new objects of a step.
LEMMA OldAndNew ==
    ASSUME TypeOK, Flow
    PROVE  /\ made \in Nat /\ made' \in Nat /\ made <= made'
           /\ \A p \in 1..made : p \in 1..made' /\ p \notin New
           /\ \A p \in 1..made' : p \in 1..made \/ p \in New
           /\ \A p \in New : p \in 1..made' /\ p \notin 1..made /\ p > made
           /\ \A q \in Queues : \A p \in queue'[q] : p \in 1..made'
           /\ \A q \in Queues : \A p \in queue'[q] : p \in queue[q] \/ p \in New
           /\ setup' = setup
BY Basics DEF Flow, New

\* A step that makes no second object of a message leaves none.
LEMMA UniqueFlow ==
    ASSUME Places, Flow, Lineage, Unique
    PROVE  Unique'
<1> SUFFICES ASSUME NEW p \in 1..made', NEW r \in 1..made', Live(p)', Live(r)',
                    msg'[p].id = msg'[r].id, msg'[p].id \notin moved'
             PROVE  p = r
  BY DEF Unique
<1>1. /\ p \in 1..made \/ p \in New
      /\ r \in 1..made \/ r \in New
  BY OldAndNew DEF Places
<1>2. ASSUME NEW x \in 1..made', Live(x)', msg'[x].id = msg'[p].id, x \in 1..made
      PROVE  Live(x) /\ msg[x].id = msg'[p].id /\ msg[x].id \notin moved
             /\ msg[x].id \in 1..made
  <2>1. Live(x) /\ msg'[x].id = msg[x].id /\ moved \subseteq moved' /\ msg[x].id \in 1..made
    BY <1>2 DEF Lineage, Flow, Places, Identity
  <2> QED
    BY <1>2, <2>1
<1>3. ASSUME NEW x \in 1..made, NEW y \in New, Live(x)',
             msg'[x].id = msg'[p].id, msg'[y].id = msg'[p].id
      PROVE  FALSE
  <2>1. x \in 1..made' /\ y \in 1..made'
    BY OldAndNew DEF Places
  <2>2. Live(x) /\ msg[x].id = msg'[p].id /\ msg[x].id \notin moved /\ msg[x].id \in 1..made
    BY <1>2, <1>3, <2>1
  <2>3. PICK o \in 1..made : Live(o) /\ ~Live(o)' /\ msg[o].id = msg'[y].id
    BY <1>3, <2>2 DEF Lineage
  <2>4. o = x
    BY <1>3, <2>2, <2>3 DEF Unique
  <2> QED
    BY <1>3, <2>3, <2>4
<1>4. CASE p \in 1..made /\ r \in 1..made
  BY <1>2, <1>4 DEF Unique
<1>5. CASE p \in 1..made /\ r \in New
  BY <1>3, <1>5
<1>6. CASE p \in New /\ r \in 1..made
  BY <1>3, <1>6
<1>7. CASE p \in New /\ r \in New
  BY <1>7 DEF Lineage
<1> QED
  BY <1>1, <1>4, <1>5, <1>6, <1>7

\* A step that leaves each message an object loses none.
LEMMA KeptFlow ==
    ASSUME Places, Flow, Survival, Kept
    PROVE  Kept'
<1> SUFFICES ASSUME open' = Queues, NEW i \in Sent' \ gone'
             PROVE  \E r \in 1..made' : Live(r)' /\ ~Copied(r)' /\ msg'[r].id = i
  BY DEF Kept
<1>1. PICK x \in 1..made' : msg'[x].id = i
  BY DEF Sent
<1>2. CASE x \in New
  <2>1. Live(x)' /\ ~Copied(x)'
    BY <1>2 DEF Flow, Survival, Live, InQueue
  <2> QED
    BY <1>1, <2>1
<1>3. CASE x \in 1..made
  <2>1. open = Queues /\ gone \subseteq gone'
    BY DEF Survival, Places, TypeOK
  <2>2. i \in Sent \ gone
    BY <1>1, <1>3, <2>1 DEF Flow, Sent
  <2>3. PICK p \in 1..made : Live(p) /\ ~Copied(p) /\ msg[p].id = i
    BY <2>1, <2>2 DEF Kept
  <2> QED
    BY <2>3 DEF Survival
<1> QED
  BY <1>2, <1>3, OldAndNew DEF Places

\* The deduplication ids of messages.
LEMMA DedupTypes ==
    ASSUME TypeOK, NEW p \in 1..made, msg[p].dd # NoDedup
    PROVE  msg[p].dd \in DedupIds
<1>1. msg[p] \in Message
  BY Basics
<1> QED
  BY <1>1 DEF Message

\* The index goes on remembering.
LEMMA RememberedFlow ==
    ASSUME Places, Flow, Lineage, Windows, Places', Remembered
    PROVE  Remembered'
<1> SUFFICES ASSUME NEW q \in setup'.fifo, NEW p \in queue'[q],
                    msg'[p].dd # NoDedup, msg'[p].id \notin moved'
             PROVE  dedup'[q][msg'[p].dd] # -1 /\ msg'[p].sentAt <= dedup'[q][msg'[p].dd]
  BY DEF Remembered
<1>1. q \in Queues /\ q \in setup.fifo /\ setup' = setup
  BY Basics, OldAndNew DEF Places
<1>2. clock \in Nat
  BY Basics DEF Places
<1>3. CASE p \in New
  <2>1. dedup'[q][msg'[p].dd] = clock
    BY <1>1, <1>3 DEF Windows
  <2>2. msg'[p].sentAt = clock
    BY <1>3 DEF Flow
  <2> QED
    BY <1>2, <2>1, <2>2
<1>4. CASE p \in queue[q]
  <2>1. p \in 1..made /\ msg[p].sentAt \in Nat
    BY <1>1, <1>4, Basics DEF Places
  <2>2. /\ msg'[p].dd = msg[p].dd /\ msg'[p].id = msg[p].id
        /\ msg'[p].sentAt = msg[p].sentAt
    BY <1>1, <1>4, <2>1 DEF Flow
  <2>3. msg[p].id \notin moved
    BY <2>2 DEF Lineage
  <2> DEFINE d == msg[p].dd
  <2>4. d \in DedupIds
    BY <2>1, <2>2, DedupTypes DEF Places
  <2>5. dedup[q][d] # -1 /\ msg[p].sentAt <= dedup[q][d]
    BY <1>1, <1>4, <2>2, <2>3 DEF Remembered
  <2>6. dedup[q][d] \in -1..MaxClock
    BY <1>1, <2>4 DEF Places, TypeOK
  <2>7. dedup'[q][d] \in -1..MaxClock
    BY <1>1, <2>4 DEF Places, TypeOK
  <2>8. dedup[q][d] <= dedup'[q][d]
    BY <1>1, <2>4 DEF Windows
  <2>9. msg'[p].dd = d /\ msg'[p].sentAt = msg[p].sentAt
    BY <2>2
  <2>10. MaxClock \in Nat
    BY Basics DEF Places
  <2> HIDE DEF d
  <2> QED
    BY <2>1, <2>5, <2>6, <2>7, <2>8, <2>9, <2>10
<1> QED
  BY <1>1, <1>3, <1>4, OldAndNew DEF Places

\* Nothing joins a FIFO queue within the window of a message of its deduplication id.
LEMMA NoDuplicateFlow ==
    ASSUME Places, Flow, Lineage, Windows, Remembered, NoDuplicateInWindow
    PROVE  NoDuplicateInWindow'
<1> SUFFICES ASSUME NEW q \in setup'.fifo, NEW p \in queue'[q], NEW r \in queue'[q],
                    p < r, msg'[p].dd = msg'[r].dd, msg'[p].dd # NoDedup,
                    msg'[p].id \notin moved', msg'[r].id \notin moved'
             PROVE  msg'[r].sentAt - msg'[p].sentAt >= DedupWindow
  BY DEF NoDuplicateInWindow
<1>1. q \in Queues /\ q \in setup.fifo /\ setup' = setup
  BY Basics, OldAndNew DEF Places
<1>2. clock \in Nat /\ DedupWindow \in Nat
  BY Basics, SQSAssumption DEF Places
<1>3. ASSUME NEW x \in queue'[q], x \in queue[q]
      PROVE  /\ x \in 1..made /\ msg'[x].dd = msg[x].dd /\ msg'[x].id = msg[x].id
             /\ msg'[x].sentAt = msg[x].sentAt /\ msg[x].sentAt \in Nat
             /\ msg'[x].id \notin moved' => msg[x].id \notin moved
  <2>1. x \in 1..made /\ msg[x].sentAt \in Nat
    BY <1>1, <1>3, Basics DEF Places
  <2> QED
    BY <1>1, <1>3, <2>1 DEF Flow, Lineage
<1>4. CASE p \in queue[q] /\ r \in queue[q]
  BY <1>1, <1>3, <1>4 DEF NoDuplicateInWindow
<1>5. CASE p \in queue[q] /\ r \in New
  <2>1. /\ msg'[r].sentAt = clock
        /\ dedup'[q][msg'[r].dd] = clock
        /\ ~FindDuplicate(q, msg'[r].dd)
    BY <1>1, <1>5 DEF Windows, Flow
  <2> DEFINE d == msg[p].dd
  <2>2. d \in DedupIds /\ msg'[r].dd = d /\ d # NoDedup
    BY <1>3, <1>5, DedupTypes DEF Places
  <2>3. dedup[q][d] # -1 /\ msg[p].sentAt <= dedup[q][d]
    BY <1>1, <1>3, <1>5, <2>2 DEF Remembered
  <2>4. \E x \in queue[q] : msg[x].dd = d
    BY <1>5
  <2>5. dedup[q][d] \in -1..MaxClock /\ MaxClock \in Nat
    BY <1>1, <2>2, Basics DEF Places, TypeOK
  <2>6. msg'[p].sentAt = msg[p].sentAt /\ msg[p].sentAt \in Nat
    BY <1>3, <1>5
  <2> HIDE DEF d
  <2>7. clock - dedup[q][d] >= DedupWindow
    BY <1>1, <1>2, <2>1, <2>2, <2>3, <2>4, <2>5 DEF FindDuplicate, Fifo
  <2> QED
    BY <1>2, <2>1, <2>3, <2>5, <2>6, <2>7
<1>6. CASE p \in New /\ r \in queue[q]
  <2>1. p > made /\ r \in 1..made /\ made \in Nat /\ p \in 1..made' /\ made' \in Nat
    BY <1>1, <1>3, <1>6, OldAndNew DEF Places
  <2> QED
    BY <2>1
<1>7. CASE p \in New /\ r \in New
  <2>1. made' = made + 1 /\ made \in Nat
    BY <1>1, <1>7, OldAndNew DEF Windows, Places
  <2>2. p = made + 1 /\ r = made + 1
    BY <1>7, <2>1 DEF New
  <2> QED
    BY <2>1, <2>2
<1> QED
  BY <1>1, <1>4, <1>5, <1>6, <1>7, OldAndNew DEF Places

\* What joins a queue has not been received, and joins at the end.
LEMMA OrderKept ==
    ASSUME Places, Flow, CountsKept, FifoDeliveryInOrder
    PROVE  FifoDeliveryInOrder'
<1> SUFFICES ASSUME NEW q \in setup'.fifo \ setup'.mapped,
                    NEW p \in queue'[q], NEW r \in queue'[q],
                    p < r, msg'[p].grp = msg'[r].grp, msg'[r].count > 0
             PROVE  msg'[p].count > 0
  BY DEF FifoDeliveryInOrder
<1>1. q \in Queues /\ q \in setup.fifo \ setup.mapped /\ setup' = setup
  BY Basics, OldAndNew DEF Places
<1>2. r \in queue[q]
  BY <1>1, OldAndNew DEF Flow, Places
<1>3. r \in 1..made /\ made \in Nat
  BY <1>1, <1>2, Basics DEF Places
<1>4. p \in queue[q]
  <2>1. p \notin New
    BY <1>1, <1>3, OldAndNew DEF Places
  <2> QED
    BY <1>1, <2>1, OldAndNew DEF Places
<1>5. p \in 1..made
  BY <1>1, <1>4, Basics DEF Places
<1>6. /\ msg'[p].grp = msg[p].grp /\ msg'[r].grp = msg[r].grp
      /\ msg'[p].count = msg[p].count /\ msg'[r].count = msg[r].count
  BY <1>1, <1>2, <1>3, <1>4, <1>5 DEF Flow, CountsKept
<1> QED
  BY <1>1, <1>2, <1>4, <1>6 DEF FifoDeliveryInOrder

(***************************************************************************)
(* The steps                                                               *)
(***************************************************************************)

\* What is shown of each step.
Good ==
    /\ Flow /\ Places' /\ Lineage /\ Survival /\ Windows
    /\ FifoDeliveryInOrder => FifoDeliveryInOrder'

\* An old object is in a queue only if it was before.
LEMMA StillQueued ==
    ASSUME TypeOK, Flow, NEW p \in 1..made, InQueue(p)'
    PROVE  InQueue(p)
BY OldAndNew DEF InQueue

\* Steps that make no object.
LEMMA NothingNew ==
    ASSUME Places, DedupPast, Flow, CountsKept, New = {}, UNCHANGED <<dedup, moved>>,
           SendersOK', MoversOK',
           open' \subseteq open, gone \subseteq gone', gone' \subseteq 1..made,
           \A p \in 1..made : OnWay(p)' => Live(p),
           open' = Queues =>
             \A p \in 1..made : Live(p) /\ ~Copied(p) =>
               msg[p].id \in gone' \/ (Live(p)' /\ ~Copied(p)')
    PROVE  Good
<1>1. /\ \A p \in 1..made : p \in 1..made' /\ msg'[p].id = msg[p].id
      /\ clock \in Nat /\ clock' \in Nat /\ clock <= clock' /\ MaxClock \in Nat
  BY Basics, OldAndNew DEF Places, Flow
<1>2. Places'
  <2>1. RestTyped'
    BY <1>1 DEF RestTyped, Places, TypeOK
  <2> QED
    BY <2>1, PlacesFlow
<1>3. Lineage
  <2>1. \A p \in 1..made : Live(p)' => Live(p)
    BY StillQueued DEF Live, Places
  <2> QED
    BY <2>1 DEF Lineage
<1>4. Survival
  BY <1>1 DEF Survival
<1>5. Windows
  <2>1. \A q \in Queues, d \in DedupIds : dedup[q][d] \in -1..MaxClock /\ dedup[q][d] <= clock
    BY DEF Places, TypeOK, DedupPast
  <2> QED
    BY <1>1, <2>1 DEF Windows
<1> QED
  BY <1>2, <1>3, <1>4, <1>5, OrderKept DEF Good

\* Steps that make one object, n.
LEMMA OneNew ==
    ASSUME Places, Flow, CountsKept, NEW n, New = {n},
           SendersOK', MoversOK', RestTyped', UNCHANGED <<open, gone>>, moved \subseteq moved',
           \A p \in 1..made : OnWay(p)' => Live(p),
           ~Copied(n)',
           \/ msg'[n].id \in moved'
           \/ msg'[n].id \notin 1..made
           \/ \E o \in 1..made : Live(o) /\ ~Live(o)' /\ msg[o].id = msg'[n].id,
           open = Queues =>
             \A p \in 1..made : Live(p) /\ ~Copied(p) =>
               msg[p].id = msg'[n].id \/ (Live(p)' /\ ~Copied(p)'),
           Windows
    PROVE  Good
<1>1. /\ \A p \in 1..made : p \in 1..made' /\ msg'[p].id = msg[p].id
      /\ n \in 1..made' /\ n \in New
  BY OldAndNew DEF Places, Flow
<1>2. Places'
  BY PlacesFlow
<1>3. Lineage
  <2>1. \A p \in 1..made : Live(p)' => Live(p)
    BY StillQueued DEF Live, Places
  <2> QED
    BY <2>1 DEF Lineage
<1>4. Live(n)'
  BY DEF Flow, Live, InQueue
<1>5. Survival
  BY <1>1, <1>4 DEF Survival
<1> QED
  BY <1>2, <1>3, <1>5, OrderKept DEF Good

\* What the next step of a delivery is, and whom it leaves on the way.
LEMMA Proceeds ==
    ASSUME Places, Flow, NEW s \in Senders, esm[s].at \in {"try", "invoke", "dlq"},
           esm' = NextDelivery(s)
    PROVE  /\ SendersOK'
           /\ \A p : OnWay(p)' => OnWay(p)
           /\ \A p : OnWay(p) => OnWay(p)' \/ (esm[s].at = "dlq" /\ Load(s) = p)
           /\ \A p : esm[s].at = "dlq" /\ Load(s) = p => ~OnWay(p)'
<1> DEFINE rest == esm[s].todo \ {Lowest(esm[s].todo)}
<1>1. /\ esm \in [Senders -> Delivery] /\ esm[s].q \in Queues
      /\ esm[s].todo \in SUBSET Objects
  BY DEF Places, SendersOK, SendersTyped, Delivery
<1>2. 0 \in 0..MaxCount /\ 0 \in Nat
  BY SQSAssumption
<1>3. NoDelivery \in Delivery
  BY <1>2 DEF NoDelivery, Delivery
<1>4. \/ rest = {} /\ Turns(s, "idle", NoQueue, {})
      \/ rest # {} /\ Turns(s, "try", esm[s].q, rest)
  <2>1. CASE rest = {}
    <3>1. esm' = [esm EXCEPT ![s] = NoDelivery]
      BY <2>1 DEF NextDelivery
    <3> QED
      BY <1>1, <1>3, <2>1, <3>1 DEF Turns, NoDelivery
  <2>2. CASE rest # {}
    <3> DEFINE d == [NoDelivery EXCEPT !.at = "try", !.q = esm[s].q, !.todo = rest]
    <3>1. esm' = [esm EXCEPT ![s] = d]
      BY <2>2 DEF NextDelivery
    <3>2. rest \in SUBSET Objects
      BY <1>1
    <3>3. d \in Delivery /\ d.at = "try" /\ d.q = esm[s].q /\ d.todo = rest
      <4> HIDE DEF rest
      <4> QED
        BY <1>1, <1>3, <3>2 DEF Delivery
    <3> HIDE DEF rest, d
    <3> QED
      BY <1>1, <2>2, <3>1, <3>3 DEF Turns
  <2> QED
    BY <2>1, <2>2
<1>5. PICK a, q, S : /\ Turns(s, a, q, S) /\ a \in {"idle", "try"}
                     /\ a = "idle" => S = {}
                     /\ a = "try" => S # {} /\ q \in Queues
                     /\ S = {} \/ (S \subseteq esm[s].todo /\ q = esm[s].q)
  <2>1. rest \subseteq esm[s].todo
    OBVIOUS
  <2> HIDE DEF rest
  <2> QED
    BY <1>1, <1>4, <2>1
<1>6. /\ SendersOK'
      /\ \A p : OnWay(p) => OnWay(p)' \/ (esm[s].at = "dlq" /\ Load(s) = p)
  BY <1>5, SendersTurn
<1>7. /\ esm'[s].at # "dlq"
      /\ \A x \in Senders \ {s} : esm'[x] = esm[x] /\ Load(x)' = Load(x)
  BY <1>5 DEF Turns, Load
<1>8. \A p : OnWay(p)' => OnWay(p)
  BY <1>7 DEF OnWay
<1>9. \A p : esm[s].at = "dlq" /\ Load(s) = p => ~OnWay(p)'
  BY <1>7 DEF OnWay, Places, SendersOK, LoadsApart
<1> QED
  BY <1>6, <1>8, <1>9

\* The objects of the senders and the move tasks.
LEMMA Held ==
    ASSUME Places
    PROVE  /\ esm \in [Senders -> Delivery]
           /\ \A s \in Senders : /\ esm[s].todo \in SUBSET (1..made)
                                 /\ esm[s].at # "idle" => esm[s].q \in Queues
                                 /\ esm[s].at \in {"idle", "sweep"} => esm[s].todo = {}
                                 /\ esm[s].at \in {"try", "invoke", "dlq"} =>
                                      /\ Load(s) \in esm[s].todo /\ Load(s) \in 1..made
                                      /\ esm[s].todo # {}
           /\ move \in [Movers -> Task]
           /\ \A m \in Movers : /\ move[m].todo \in SUBSET (1..made)
                                /\ move[m].done \in SUBSET (1..made)
                                /\ move[m].at # "idle" => move[m].src \in Queues
           /\ \A p : Copied(p) => p \in 1..made
<1>1. made \in Nat
  BY Basics DEF Places
<1>2. SendersTyped /\ MoversTyped /\ DeliveriesHome
  BY DEF Places, SendersOK, MoversOK
<1> QED
  BY <1>1, <1>2, LoadFacts DEF SendersTyped, MoversTyped, DeliveriesHome, Copied

\* Subsets of the objects made are sets of objects.
LEMMA MadeObjects ==
    ASSUME TypeOK
    PROVE  SUBSET (1..made) \subseteq SUBSET Objects
BY Basics

\* Move tasks that stay have copied the same objects.
LEMMA StillCopied ==
    ASSUME UNCHANGED move
    PROVE  \A p : Copied(p)' <=> Copied(p)
BY DEF Copied

\* A send makes a new message, which the index then remembers.
LEMMA SendStep ==
    ASSUME Places, DedupPast, NEW s \in Senders, NEW q \in Queues, NEW g \in Groups,
           NEW d \in DedupIds \union {NoDedup}, NEW delay \in setup.delays,
           SendMessage(s, q, g, d, delay)
    PROVE  Good
<1> DEFINE c == Sends(g, d, delay)
<1>0. PICK n : n = made + 1
  OBVIOUS
<1>1. /\ esm[s].at = "idle" /\ q \in open /\ made < MaxMsgs
      /\ Fifo(q) <=> d # NoDedup
      /\ ~FindDuplicate(q, d)
      /\ Arrive(q, c)
      /\ dedup' = IF Fifo(q) THEN [dedup EXCEPT ![q][d] = clock] ELSE dedup
      /\ esm' = [esm EXCEPT ![s].at = "sweep", ![s].q = q]
      /\ UNCHANGED <<move, history>>
  BY DEF SendMessage, Arrive, Sends, Filled
<1>2. /\ made \in Nat /\ clock \in 0..MaxClock /\ clock \in Nat /\ MaxClock \in Nat
      /\ n \in 1..(made + 1) /\ n \notin 1..made
  BY <1>0, Basics DEF Places
<1>3. c \in Message /\ c.id = n /\ c.dd = d /\ c.sentAt = clock /\ c.count = 0
  <2>1. delay \in Nat
    BY SQSAssumption DEF Places, TypeOK
  <2> QED
    BY <1>0, <1>1, <2>1, SendsFacts DEF Places
<1> HIDE DEF c
<1>4. /\ Flow /\ CountsKept /\ New = {n} /\ msg'[n] = c
      /\ \A r \in Queues : \A p \in queue[r] : p \in queue'[r]
      /\ \A r \in Queues : n \in queue'[r] <=> r = q
  BY <1>0, <1>1, <1>2, <1>3, ArriveFlow DEF Places
<1>5. Turns(s, "sweep", q, {})
  <2>1. esm'[s] = [esm[s] EXCEPT !.at = "sweep", !.q = q]
    BY <1>1, Held
  <2>2. esm[s] \in Delivery /\ esm[s].todo = {}
    BY <1>1, Held
  <2>3. esm'[s] \in Delivery /\ esm'[s].at = "sweep" /\ esm'[s].q = q /\ esm'[s].todo = {}
    BY <2>1, <2>2 DEF Delivery
  <2>4. esm' \in [Senders -> Delivery] /\ \A x \in Senders \ {s} : esm'[x] = esm[x]
    BY <1>1, <2>3, Held
  <2> QED
    BY <2>3, <2>4 DEF Turns
<1>6. /\ SendersOK'
      /\ \A p : OnWay(p)' => Live(p)
      /\ \A p : OnWay(p) => OnWay(p)'
  BY <1>1, <1>4, <1>5, SendersTurn DEF Live
<1>7. MoversOK'
  BY <1>1, <1>4, MoversKept
<1>8. dedup' \in [Queues -> [DedupIds -> -1..MaxClock]]
      /\ \A r \in Queues, e \in DedupIds :
           dedup'[r][e] = IF r = q /\ e = d /\ Fifo(q) THEN clock ELSE dedup[r][e]
  <2>1. dedup \in [Queues -> [DedupIds -> -1..MaxClock]]
    BY DEF Places, TypeOK
  <2>2. CASE ~Fifo(q)
    BY <1>1, <2>1, <2>2
  <2>3. CASE Fifo(q)
    <3>1. d \in DedupIds /\ clock \in -1..MaxClock
      BY <1>1, <1>2, <2>3
    <3> QED
      BY <1>1, <2>1, <2>3, <3>1
  <2> QED
    BY <2>2, <2>3
<1>9. RestTyped'
  <2>1. open \subseteq Queues /\ gone \subseteq 1..made /\ moved \subseteq 1..made
    BY DEF Places, TypeOK
  <2> QED
    BY <1>1, <1>4, <1>8, <2>1, OldAndNew DEF RestTyped, history, Arrive, Places
<1>10. Windows
  <2>1. \A r \in Queues, e \in DedupIds : dedup[r][e] \in -1..MaxClock /\ dedup[r][e] <= clock
    BY DEF Places, TypeOK, DedupPast
  <2>2. clock' = clock /\ made' = made + 1
    BY <1>1 DEF Arrive
  <2>3. \A r \in Queues, e \in DedupIds :
          dedup[r][e] <= dedup'[r][e] /\ dedup'[r][e] <= clock'
    BY <1>2, <1>8, <2>1, <2>2
  <2>4. \A r \in setup.fifo, p \in New : p \in queue'[r] => r = q /\ Fifo(q) /\ p = n
    BY <1>4, Basics DEF Fifo, Places
  <2>5. Fifo(q) => dedup'[q][d] = clock
    BY <1>1, <1>8
  <2> QED
    BY <1>1, <1>3, <1>4, <2>2, <2>3, <2>4, <2>5 DEF Windows
<1>11. \A p \in 1..made : Live(p) /\ ~Copied(p) => Live(p)' /\ ~Copied(p)'
  BY <1>1, <1>4, <1>6, StillCopied DEF Live, InQueue
<1>12. UNCHANGED <<open, gone, moved>>
  BY <1>1 DEF Arrive, history
<1>13. ~Copied(n)'
  BY <1>1, <1>2, StillCopied, Held
<1> QED
  BY <1>2, <1>3, <1>4, <1>6, <1>7, <1>9, <1>10, <1>11, <1>12, <1>13, OneNew

\* A receive hands objects out in order, and replaces those it takes away by copies.
LEMMA ReceiveStep ==
    ASSUME Places, DedupPast, Unique, NEW q \in Queues, NEW n \in Batch, NEW t \in Timeouts,
           ReceiveMessages(q, n, t)
    PROVE  Good
<1>1. n \in Nat /\ t \in Nat
  BY SQSAssumption
<1>2. PICK taken, dead, kept \in SUBSET queue[q] : \E from \in [New -> kept] :
        Received(q, t, taken, dead, kept, from) /\ Ahead(q, taken, dead)
  BY <1>1, ReceiveFacts DEF Places
<1>3. PICK from \in [New -> kept] : Received(q, t, taken, dead, kept, from)
  BY <1>2
<1>4. /\ Flow
      /\ \A p \in New : msg'[p].dd = NoDedup /\ msg'[p].id = msg[from[p]].id
      /\ \A r \in Queues, p \in 1..made :
           p \in queue'[r] => /\ p \in queue[r] /\ p \notin dead
                              /\ p \notin taken => msg'[p] = msg[p]
                              /\ p \in taken => msg'[p].count = msg[p].count + 1
  BY <1>1, <1>3, ReceiveFlow DEF Places, Identity
<1>5. /\ kept \subseteq dead /\ dead \subseteq queue[q] /\ taken \subseteq queue[q]
      /\ Dlq[q] \in open => kept = dead
      /\ dead # {} => Dlq[q] \in Queues
      /\ \A p, r \in New : from[p] = from[r] => p = r
      /\ \A o \in kept : \E p \in New : from[p] = o
      /\ \A r \in Queues : queue'[r] = IF r = q THEN queue[q] \ dead
                                       ELSE IF r = Dlq[q] THEN queue[r] \union New
                                       ELSE queue[r]
      /\ UNCHANGED <<setup, clock, open, dedup, esm, move, gone, moved>>
  BY <1>3 DEF Received, history
<1>6. SendersOK' /\ \A p : OnWay(p)' <=> OnWay(p)
  BY <1>4, <1>5, SendersKept
<1>7. MoversOK'
  BY <1>4, <1>5, MoversKept
<1>8. \A p \in New : from[p] \in dead /\ from[p] \in queue[q] /\ from[p] \in 1..made
  BY <1>5, Basics DEF Places
<1>9. \A o \in dead : Live(o) /\ ~Live(o)'
  <2> SUFFICES ASSUME NEW o \in dead
               PROVE  Live(o) /\ ~Live(o)'
    OBVIOUS
  <2>1. o \in queue[q] /\ o \in 1..made
    BY <1>5, Basics DEF Places
  <2>2. InQueue(o)
    BY <2>1 DEF InQueue
  <2>3. ~InQueue(o)'
    BY <1>4, <2>1 DEF InQueue
  <2>4. ~OnWay(o)'
    BY <1>6, <2>2 DEF OnWay, Places, SendersOK, DeliveriesHome
  <2> QED
    BY <2>2, <2>3, <2>4 DEF Live
<1>10. Lineage
  <2>1. \A p \in 1..made : Live(p)' => Live(p)
    BY <1>4, <1>6, StillQueued DEF Live, Places
  <2>2. \A p \in New : \E o \in 1..made : Live(o) /\ ~Live(o)' /\ msg[o].id = msg'[p].id
    BY <1>4, <1>8, <1>9
  <2>3. \A p, r \in New : msg'[p].id = msg'[r].id => p = r \/ msg'[p].id \in moved'
    BY <1>4, <1>5, <1>8, <1>9 DEF Unique
  <2> QED
    BY <1>5, <2>1, <2>2, <2>3 DEF Lineage
<1>11. Survival
  <2>1. \A p \in New : ~Copied(p)'
    BY <1>4, <1>5, StillCopied, Held, OldAndNew DEF Places
  <2>2. ASSUME open' = Queues, NEW p \in 1..made, Live(p), ~Copied(p)
        PROVE  \E r \in 1..made' : Live(r)' /\ ~Copied(r)' /\ msg'[r].id = msg[p].id
    <3>1. CASE p \in dead
      <4>1. kept = dead
        BY <1>5, <2>2, <3>1
      <4>2. PICK r \in New : from[r] = p
        BY <1>5, <3>1, <4>1
      <4>3. Live(r)' /\ r \in 1..made'
        BY <1>4, OldAndNew DEF Live, InQueue, Flow, Places
      <4> QED
        BY <1>4, <2>1, <4>2, <4>3
    <3>2. CASE p \notin dead
      <4>1. Live(p)'
        BY <1>5, <1>6, <2>2, <3>2 DEF Live, InQueue
      <4>2. ~Copied(p)'
        BY <1>5, <2>2, StillCopied
      <4>3. p \in 1..made' /\ msg'[p].id = msg[p].id
        BY <1>4, OldAndNew DEF Flow, Places
      <4> QED
        BY <4>1, <4>2, <4>3
    <3> QED
      BY <3>1, <3>2
  <2> QED
    BY <1>5, <2>1, <2>2 DEF Survival
<1>12. Windows
  <2>1. \A r \in Queues, d \in DedupIds : dedup[r][d] \in -1..MaxClock /\ dedup[r][d] <= clock
    BY DEF Places, TypeOK, DedupPast
  <2> QED
    BY <1>4, <1>5, <2>1, Basics DEF Windows, Places
<1>13. Places'
  <2>1. RestTyped'
    BY <1>4, <1>5, OldAndNew DEF RestTyped, Places, TypeOK
  <2> QED
    BY <1>4, <1>6, <1>7, <2>1, PlacesFlow
<1>14. ASSUME FifoDeliveryInOrder
       PROVE  FifoDeliveryInOrder'
  <2> SUFFICES ASSUME NEW r \in setup'.fifo \ setup'.mapped,
                      NEW a \in queue'[r], NEW b \in queue'[r],
                      a < b, msg'[a].grp = msg'[b].grp, msg'[b].count > 0
               PROVE  msg'[a].count > 0
    BY DEF FifoDeliveryInOrder
  <2>1. r \in Queues /\ r \in setup.fifo \ setup.mapped
    BY <1>5, Basics DEF Places
  <2>2. b \in 1..made /\ b \in queue[r] /\ made \in Nat
    BY <1>4, <2>1, Basics, OldAndNew DEF Flow, Places
  <2>3. a \in 1..made /\ a \in queue[r]
    <3>1. a \notin New
      BY <1>4, <2>2, OldAndNew DEF Places
    <3> QED
      BY <1>4, <2>1, <3>1, Basics, OldAndNew DEF Places
  <2>4. /\ msg[a].grp = msg[b].grp
        /\ msg[a].count \in Nat /\ msg[b].count \in Nat
        /\ a \notin dead /\ b \notin dead
        /\ a \notin taken => msg'[a].count = msg[a].count
        /\ b \notin taken => msg'[b].count = msg[b].count
        /\ a \in taken => msg'[a].count = msg[a].count + 1
    BY <1>4, <2>1, <2>2, <2>3, Basics DEF Flow, Places
  <2>5. CASE b \in taken
    <3>1. r = q
      BY <1>5, <2>1, <2>2, <2>5 DEF Places, OwnQueue
    <3>2. a \in taken
      BY <1>2, <2>1, <2>3, <2>4, <2>5, <3>1 DEF Ahead, Fifo
    <3> QED
      BY <2>4, <3>2
  <2>6. CASE b \notin taken
    <3>1. msg[a].count > 0
      BY <1>14, <2>1, <2>2, <2>3, <2>4, <2>6 DEF FifoDeliveryInOrder
    <3> QED
      BY <2>4, <3>1
  <2> QED
    BY <2>5, <2>6
<1> QED
  BY <1>4, <1>10, <1>11, <1>12, <1>13, <1>14 DEF Good

\* What leaves a queue without being replaced is consumed, purged, or a move task's.
LEMMA LeaveStep ==
    ASSUME Places, DedupPast, NEW q \in Queues, NEW X, Leave(q, X),
           \A r \in Queues \ {q} : X \intersect queue[r] = {},
           SendersOK', MoversOK', moved' = moved, gone \subseteq gone', gone' \subseteq 1..made,
           \A p \in 1..made : OnWay(p)' => Live(p),
           \A p : OnWay(p) => OnWay(p)',
           \A p : Copied(p)' => Copied(p),
           \A p \in 1..made :
             p \in X /\ p \in queue[q] => msg[p].id \in gone' \/ OnWay(p)' \/ Copied(p)
    PROVE  Good
<1>1. Flow /\ CountsKept /\ New = {}
  BY LeaveFlow DEF Places
<1>2. /\ \A r \in Queues : queue'[r] = IF r = q THEN queue[r] \ X ELSE queue[r]
      /\ UNCHANGED <<open, dedup>>
  BY Basics DEF Leave, Places
<1>3. \A p \in 1..made : Live(p) /\ ~Copied(p) =>
        msg[p].id \in gone' \/ (Live(p)' /\ ~Copied(p)')
  <2> SUFFICES ASSUME NEW p \in 1..made, Live(p), ~Copied(p), msg[p].id \notin gone'
               PROVE  Live(p)' /\ ~Copied(p)'
    OBVIOUS
  <2>1. CASE OnWay(p)
    BY <2>1 DEF Live
  <2>2. CASE p \in X /\ p \in queue[q]
    BY <2>2 DEF Live
  <2>3. CASE InQueue(p) /\ ~(p \in X /\ p \in queue[q])
    BY <1>2, <2>3 DEF Live, InQueue
  <2> QED
    BY <2>1, <2>2, <2>3 DEF Live
<1> QED
  BY <1>1, <1>2, <1>3, NothingNew

\* The ids of what a queue holds are ids that were sent.
LEMMA QueuedIds ==
    ASSUME Places, NEW q \in Queues
    PROVE  {msg[p].id : p \in queue[q]} \subseteq 1..made
BY Basics DEF Places, Identity

\* A message deleted is gone.
LEMMA DeleteMessageStep ==
    ASSUME Places, DedupPast, NEW q \in Queues, NEW p \in Objects, DeleteMessage(q, p)
    PROVE  Good
<1>1. /\ p \in queue[q] /\ Leave(q, {p}) /\ gone' = gone \union {msg[p].id}
      /\ UNCHANGED <<esm, move, moved>>
  BY DEF DeleteMessage, Leave
<1>2. \A r \in Queues \ {q} : {p} \intersect queue[r] = {}
  BY <1>1, Basics DEF Places, OwnQueue
<1>3. Flow
  BY <1>1, <1>2, LeaveFlow DEF Places
<1>4. gone' \subseteq 1..made
  BY <1>1, QueuedIds DEF Places, TypeOK
<1> QED
  BY <1>1, <1>2, <1>3, <1>4, LeaveStep, SendersKept, MoversKept, StillCopied DEF Live

\* So are those purged.
LEMMA PurgeStep ==
    ASSUME Places, DedupPast, NEW q \in Queues, PurgeQueue(q)
    PROVE  Good
<1>1. /\ Leave(q, queue[q]) /\ gone' = gone \union {msg[p].id : p \in queue[q]}
      /\ UNCHANGED <<esm, move, moved>>
  <2>1. [queue EXCEPT ![q] = {}] = [queue EXCEPT ![q] = queue[q] \ queue[q]]
    OBVIOUS
  <2> QED
    BY <2>1 DEF PurgeQueue, Leave
<1>2. \A r \in Queues \ {q} : queue[q] \intersect queue[r] = {}
  BY Basics DEF Places, OwnQueue
<1>3. Flow
  BY <1>1, <1>2, LeaveFlow DEF Places
<1>4. gone' \subseteq 1..made
  BY <1>1, QueuedIds DEF Places, TypeOK
<1> QED
  BY <1>1, <1>2, <1>3, <1>4, LeaveStep, SendersKept, MoversKept, StillCopied DEF Live

\* Steps that touch neither objects, senders nor move tasks.
LEMMA DeleteQueueStep ==
    ASSUME Places, DedupPast, NEW q \in Queues, DeleteQueue(q)
    PROVE  Good
<1>1. /\ q \in open /\ open' = open \ {q}
      /\ gone' = gone \union {msg[p].id : p \in queue[q]}
      /\ UNCHANGED <<setup, clock, queue, msg, made, dedup, esm, move, moved>>
  BY DEF DeleteQueue
<1>2. Flow /\ CountsKept /\ New = {}
  BY <1>1, QuietFlow, Basics DEF Places
<1>3. gone' \subseteq 1..made
  BY <1>1, QueuedIds DEF Places, TypeOK
<1>4. open' # Queues /\ open' \subseteq open
  BY <1>1
<1> QED
  BY <1>1, <1>2, <1>3, <1>4, NothingNew, SendersKept, MoversKept DEF Live

\* Time passes.
LEMMA TickStep ==
    ASSUME Places, DedupPast, Tick \/ UNCHANGED vars
    PROVE  Good
<1>1. /\ clock' \in clock..MaxClock
      /\ UNCHANGED <<setup, open, queue, msg, made, dedup, esm, move, gone, moved>>
  BY Basics DEF Tick, vars, history, Places
<1>2. Flow /\ CountsKept /\ New = {}
  BY <1>1, QuietFlow DEF Places
<1>3. gone \subseteq 1..made
  BY DEF Places, TypeOK
<1>4. \A p : (Live(p)' <=> Live(p)) /\ (Copied(p)' <=> Copied(p))
  BY <1>1 DEF Live, InQueue, OnWay, Load, Copied
<1> QED
  BY <1>1, <1>2, <1>3, <1>4, NothingNew, SendersKept, MoversKept DEF Live

\* A new visibility changes neither what an object is nor its count.
LEMMA ChangeVisibilityStep ==
    ASSUME Places, DedupPast, NEW q \in Queues, NEW p \in Objects, NEW t \in Timeouts,
           ChangeVisibility(q, p, t)
    PROVE  Good
<1> DEFINE m == [msg[p] EXCEPT !.visAt = clock + t]
<1>1. /\ p \in queue[q] /\ msg' = [msg EXCEPT ![p] = m]
      /\ UNCHANGED <<setup, clock, open, queue, made, dedup, esm, move, gone, moved>>
  BY DEF ChangeVisibility, history
<1>2. /\ m \in Message
      /\ m.id = msg[p].id /\ m.grp = msg[p].grp /\ m.dd = msg[p].dd
      /\ m.sentAt = msg[p].sentAt /\ m.count = msg[p].count
  <2>1. msg[p] \in Message /\ clock + t \in Nat
    BY Basics, SQSAssumption DEF Places
  <2> QED
    BY <2>1 DEF Message
<1> HIDE DEF m
<1>3. Flow /\ CountsKept /\ New = {}
  BY <1>1, <1>2, ChangeFlow DEF Places
<1>4. gone \subseteq 1..made
  BY DEF Places, TypeOK
<1>5. \A p1 : (Live(p1)' <=> Live(p1)) /\ (Copied(p1)' <=> Copied(p1))
  BY <1>1 DEF Live, InQueue, OnWay, Load, Copied
<1> QED
  BY <1>1, <1>3, <1>4, <1>5, NothingNew, SendersKept, MoversKept DEF Live

\* A sender's turn that touches no object and leaves none on its way.
LEMMA QuietTurn ==
    ASSUME Places, DedupPast,
           UNCHANGED <<setup, clock, open, queue, msg, made, dedup, move, gone, moved>>,
           SendersOK', \A p \in 1..made : OnWay(p)' => Live(p),
           \A p : OnWay(p) => OnWay(p)'
    PROVE  Good
<1>1. Flow /\ CountsKept /\ New = {}
  BY QuietFlow, Basics DEF Places
<1>2. gone \subseteq 1..made
  BY DEF Places, TypeOK
<1>3. \A p : Live(p) => Live(p)'
  BY DEF Live, InQueue
<1> QED
  BY <1>1, <1>2, <1>3, NothingNew, MoversKept, StillCopied

\* The sweep takes what is visible, or is over.
LEMMA DeliverToESMStep ==
    ASSUME Places, DedupPast, NEW s \in Senders, DeliverToESM(s)
    PROVE  Good
<1> DEFINE q == esm[s].q
           pending == {p \in queue[q] : Visible(p)}
<1>1. /\ esm[s].at = "sweep"
      /\ UNCHANGED <<setup, clock, open, queue, msg, made, dedup, move, gone, moved>>
      /\ esm' = [esm EXCEPT ![s] = IF pending = {} THEN NoDelivery
                                   ELSE [esm[s] EXCEPT !.at = "try", !.todo = pending]]
  BY DEF DeliverToESM, history
<1>2. q \in Queues /\ esm \in [Senders -> Delivery] /\ esm[s].q = q
  BY <1>1, Held
<1>3. pending \subseteq queue[q] /\ pending \in SUBSET Objects
  BY <1>2, Basics DEF Places
<1>4. NoDelivery \in Delivery
  BY SQSAssumption DEF NoDelivery, Delivery
<1>5. \/ pending = {} /\ Turns(s, "idle", NoQueue, {})
      \/ pending # {} /\ Turns(s, "try", q, pending)
  <2>1. CASE pending = {}
    <3>1. esm' = [esm EXCEPT ![s] = NoDelivery]
      BY <1>1, <2>1
    <3> QED
      BY <1>2, <1>4, <2>1, <3>1 DEF Turns, NoDelivery
  <2>2. CASE pending # {}
    <3> DEFINE d == [esm[s] EXCEPT !.at = "try", !.todo = pending]
    <3>1. esm' = [esm EXCEPT ![s] = d]
      BY <1>1, <2>2
    <3>2. d \in Delivery /\ d.at = "try" /\ d.q = q /\ d.todo = pending
      <4> HIDE DEF pending, q
      <4> QED
        BY <1>2, <1>3 DEF Delivery
    <3> HIDE DEF d, pending
    <3> QED
      BY <1>2, <2>2, <3>1, <3>2 DEF Turns
  <2> QED
    BY <2>1, <2>2
<1>6. Flow
  BY <1>1, QuietFlow, Basics DEF Places
<1>7. /\ SendersOK'
      /\ \A p : OnWay(p)' => OnWay(p) \/ InQueue(p)
      /\ \A p : OnWay(p) => OnWay(p)'
  <2> HIDE DEF pending, q
  <2>1. CASE pending = {}
    <3>1. Turns(s, "idle", NoQueue, {})
      BY <1>5, <2>1
    <3> QED
      BY <1>1, <1>6, <3>1, SendersTurn
  <2>2. CASE pending # {}
    <3>1. Turns(s, "try", q, pending)
      BY <1>5, <2>2
    <3> QED
      BY <1>1, <1>2, <1>3, <1>6, <2>2, <3>1, SendersTurn
  <2> QED
    BY <2>1, <2>2
<1> QED
  BY <1>1, <1>7, QuietTurn DEF Live

\* The trial: the sender skips the object, takes it out of the queue to carry it, or calls.
LEMMA DeliverMessageStep ==
    ASSUME Places, DedupPast, NEW s \in Senders, DeliverMessage(s)
    PROVE  Good
<1> DEFINE q == esm[s].q
           p == Load(s)
<1>1. /\ esm[s].at = "try"
      /\ UNCHANGED <<setup, clock, open, made, dedup, move, gone, moved>>
  BY DEF DeliverMessage, history
<1>2. /\ q \in Queues /\ esm \in [Senders -> Delivery] /\ esm[s].todo \in SUBSET (1..made)
      /\ p \in esm[s].todo /\ p \in 1..made /\ esm[s].todo # {} /\ q = esm[s].q
  BY <1>1, Held
<1>3. \/ esm' = NextDelivery(s) /\ UNCHANGED <<queue, msg>>
      \/ /\ p \in queue[q] /\ ExceedsMaxReceive(q, p)
         /\ queue' = [queue EXCEPT ![q] = @ \ {p}]
         /\ msg' = Unqueue({p})
         /\ esm' = [esm EXCEPT ![s].at = "dlq"]
      \/ /\ q \in setup.mapped /\ p \in queue[q] /\ msg[p].count < MaxCount
         /\ \E t \in Timeouts :
              esm' = [esm EXCEPT ![s].at = "invoke", ![s].visAt = clock + t,
                                 ![s].count = msg[p].count + 1]
         /\ UNCHANGED <<queue, msg>>
  BY DEF DeliverMessage, Load
<1>4. CASE esm' = NextDelivery(s) /\ UNCHANGED <<queue, msg>>
  <2>1. Flow
    BY <1>1, <1>4, QuietFlow, Basics DEF Places
  <2> QED
    BY <1>1, <1>4, <2>1, Proceeds, QuietTurn DEF Live
<1>5. ASSUME p \in queue[q], ExceedsMaxReceive(q, p),
             queue' = [queue EXCEPT ![q] = queue[q] \ {p}], msg' = Unqueue({p}),
             esm' = [esm EXCEPT ![s].at = "dlq"]
      PROVE  Good
  <2>1. PICK o \in 1..made : o = p
    BY <1>2
  <2>2. PICK r \in Queues : r = q
    BY <1>2
  <2>3. Leave(r, {o})
    BY <1>1, <1>5, <2>1, <2>2 DEF Leave
  <2>4. \A x \in Queues \ {r} : {o} \intersect queue[x] = {}
    BY <1>5, <2>1, <2>2 DEF Places, OwnQueue
  <2>5. Flow
    BY <2>3, <2>4, LeaveFlow DEF Places
  <2>6. Turns(s, "dlq", r, esm[s].todo)
    <3>1. esm'[s] = [esm[s] EXCEPT !.at = "dlq"] /\ esm[s] \in Delivery
      BY <1>2, <1>5
    <3>2. /\ esm'[s] \in Delivery /\ esm'[s].at = "dlq" /\ esm'[s].q = esm[s].q
          /\ esm'[s].todo = esm[s].todo
      BY <3>1 DEF Delivery
    <3> QED
      BY <1>2, <1>5, <2>2, <3>2 DEF Turns
  <2>7. InQueue(o)
    BY <1>5, <2>1, <2>2 DEF InQueue
  <2>8. \A x \in Queues : o \notin queue'[x]
    <3>1. \A x \in Queues : queue'[x] = IF x = r THEN queue[x] \ {o} ELSE queue[x]
      BY <2>3, Basics DEF Leave, Places
    <3> QED
      BY <2>4, <3>1
  <2>9. Dlq[r] \in Queues
    BY <1>5, <2>2, SQSAssumption DEF ExceedsMaxReceive
  <2>10. PICK S : S = esm[s].todo
    OBVIOUS
  <2>11. Lowest(S) = o /\ S # {} /\ Turns(s, "dlq", r, S)
         /\ S \subseteq esm[s].todo /\ r = esm[s].q
    BY <1>2, <2>1, <2>2, <2>6, <2>10 DEF Load
  <2>12. /\ SendersOK'
         /\ \A x : OnWay(x)' => OnWay(x) \/ InQueue(x)
         /\ \A x : OnWay(x) => OnWay(x)' \/ (esm[s].at = "dlq" /\ Load(s) = x)
         /\ OnWay(Lowest(S))'
    <3> HIDE DEF q, p
    <3> QED
      BY <2>5, <2>7, <2>8, <2>9, <2>11, SendersTurn
  <2>13. OnWay(o)'
    BY <2>11, <2>12
  <2>14. gone \subseteq 1..made
    BY DEF Places, TypeOK
  <2> HIDE DEF q, p
  <2> QED
    BY <1>1, <2>3, <2>4, <2>5, <2>12, <2>13, <2>14, LeaveStep, MoversKept, StillCopied
    DEF Live
<1>6. ASSUME q \in setup.mapped, p \in queue[q], msg[p].count < MaxCount,
             NEW t \in Timeouts,
             esm' = [esm EXCEPT ![s].at = "invoke", ![s].visAt = clock + t,
                                ![s].count = msg[p].count + 1],
             UNCHANGED <<queue, msg>>
      PROVE  Good
  <2>1. Flow
    BY <1>1, <1>6, QuietFlow, Basics DEF Places
  <2>2. clock + t \in Nat /\ msg[p].count + 1 \in 0..MaxCount
    BY <1>2, <1>6, Basics, SQSAssumption DEF Places
  <2>3. Turns(s, "invoke", q, esm[s].todo)
    <3> DEFINE v == clock + t
               c == msg[p].count + 1
    <3>0. esm' = [esm EXCEPT ![s].at = "invoke", ![s].visAt = v, ![s].count = c]
      BY <1>6
    <3>1. v \in Nat /\ c \in 0..MaxCount
      BY <2>2
    <3> HIDE DEF v, c, p
    <3>2. /\ esm[s] \in Delivery
          /\ esm'[s] = [esm[s] EXCEPT !.at = "invoke", !.visAt = v, !.count = c]
          /\ \A x \in Senders \ {s} : esm'[x] = esm[x]
          /\ esm' = [x \in Senders |-> esm'[x]]
      BY <1>2, <3>0
    <3>3. /\ esm'[s] \in Delivery /\ esm'[s].at = "invoke" /\ esm'[s].q = esm[s].q
          /\ esm'[s].todo = esm[s].todo
      BY <3>1, <3>2 DEF Delivery
    <3> QED
      BY <1>2, <3>2, <3>3 DEF Turns
  <2>4. /\ SendersOK'
        /\ \A x : OnWay(x)' => OnWay(x) \/ InQueue(x)
        /\ \A x : OnWay(x) => OnWay(x)'
    <3>1. PICK S : S = esm[s].todo
      OBVIOUS
    <3>2. S # {} /\ Turns(s, "invoke", q, S) /\ S \subseteq esm[s].todo
      BY <1>2, <2>3, <3>1
    <3> HIDE DEF q, p
    <3> QED
      BY <1>1, <1>2, <1>6, <2>1, <3>2, SendersTurn
  <2> HIDE DEF q, p
  <2> QED
    BY <1>1, <1>6, <2>4, QuietTurn DEF Live
<1> QED
  BY <1>3, <1>4, <1>5, <1>6

\* The copy of what the sender carries joins the dead-letter queue.
LEMMA DeliverToDLQStep ==
    ASSUME Places, DedupPast, NEW s \in Senders, DeliverToDLQ(s)
    PROVE  Good
<1>1. /\ esm[s].at = "dlq" /\ esm' = NextDelivery(s)
      /\ UNCHANGED <<setup, clock, open, dedup, move, gone, moved>>
  BY DEF DeliverToDLQ, history
<1>2. PICK p \in 1..made : p = Load(s)
  BY <1>1, Held
<1>3. PICK q \in Queues : q = esm[s].q
  BY <1>1, Held
<1>4. Dlq[q] \in Queues /\ ~InQueue(p) /\ OnWay(p)
  BY <1>1, <1>2, <1>3 DEF Places, SendersOK, DeliveriesHome, OnWay
<1>5. PICK n : n = made + 1
  OBVIOUS
<1>6. CASE Dlq[q] \in open
  <2> DEFINE c == Copy(p, q)
  <2>1. made < MaxMsgs /\ Arrive(Dlq[q], c)
    BY <1>1, <1>2, <1>3, <1>6 DEF DeliverToDLQ, Arrive, Load
  <2>2. /\ made \in Nat /\ clock \in Nat /\ p \in Objects
        /\ n \in 1..(made + 1) /\ n \notin 1..made
    BY <1>5, Basics DEF Places
  <2>3. /\ c \in Message /\ c.id = msg[p].id /\ c.dd = NoDedup
        /\ c.sentAt = clock /\ c.count = 0
    BY <2>2, CopyFacts DEF Places
  <2>4. c.id \in 1..(made + 1)
    BY <2>2, <2>3 DEF Places, Identity
  <2> HIDE DEF c
  <2>5. /\ Flow /\ CountsKept /\ New = {n} /\ msg'[n] = c
        /\ \A r \in Queues : \A x \in queue[r] : x \in queue'[r]
    BY <1>4, <1>5, <2>1, <2>3, <2>4, ArriveFlow DEF Places
  <2>6. /\ SendersOK'
        /\ \A x : OnWay(x)' => OnWay(x)
        /\ \A x : OnWay(x) => OnWay(x)' \/ x = p
        /\ ~OnWay(p)'
    BY <1>1, <1>2, <2>5, Proceeds
  <2>7. Live(p) /\ ~Live(p)'
    BY <1>4, <2>5, <2>6, StillQueued DEF Live, Places
  <2>8. \A x \in 1..made : Live(x) /\ ~Copied(x) =>
          msg[x].id = msg'[n].id \/ (Live(x)' /\ ~Copied(x)')
    <3>1. \A x : Live(x) => Live(x)' \/ x = p
      BY <2>5, <2>6 DEF Live, InQueue
    <3> QED
      BY <1>1, <2>3, <2>5, <3>1, StillCopied
  <2>9. RestTyped'
    BY <1>1, <2>5, OldAndNew DEF RestTyped, Places, TypeOK
  <2>10. Windows
    <3>1. \A r \in Queues, d \in DedupIds :
            dedup[r][d] \in -1..MaxClock /\ dedup[r][d] <= clock
      BY DEF Places, TypeOK, DedupPast
    <3>2. MaxClock \in Nat
      BY Basics DEF Places
    <3> QED
      BY <1>1, <2>2, <2>3, <2>5, <3>1, <3>2 DEF Windows
  <2>11. ~Copied(n)'
    BY <1>1, <2>2, StillCopied, Held
  <2> QED
    BY <1>1, <2>3, <2>5, <2>6, <2>7, <2>8, <2>9, <2>10, <2>11, MoversKept, OneNew DEF Live
<1>7. CASE Dlq[q] \notin open
  <2>1. UNCHANGED <<made, msg, queue>>
    BY <1>3, <1>7 DEF DeliverToDLQ
  <2>2. Flow /\ CountsKept /\ New = {}
    BY <1>1, <2>1, QuietFlow, Basics DEF Places
  <2>3. SendersOK' /\ \A x : OnWay(x)' => OnWay(x)
    BY <1>1, <2>2, Proceeds
  <2>4. open' # Queues /\ gone \subseteq 1..made
    BY <1>1, <1>4, <1>7 DEF Places, TypeOK
  <2> QED
    BY <1>1, <2>2, <2>3, <2>4, MoversKept, NothingNew DEF Live
<1> QED
  BY <1>6, <1>7

\* The call returned: its message is gone, or the trial takes effect on what it has become.
LEMMA CommitStep ==
    ASSUME Places, DedupPast, NEW s \in Senders, NEW ok \in BOOLEAN, CommitESMReceive(s, ok)
    PROVE  Good
<1>1. /\ esm[s].at = "invoke"
      /\ UNCHANGED <<setup, clock, open, made, dedup, move, moved>>
  BY DEF CommitESMReceive
<1>2. PICK p \in 1..made : p = Load(s)
  BY <1>1, Held
<1>3. PICK q \in Queues : q = esm[s].q
  BY <1>1, Held
<1>4. q \in setup.mapped /\ esm \in [Senders -> Delivery] /\ esm[s].todo # {}
  BY <1>1, <1>3, Held DEF Places, SendersOK, DeliveriesHome
<1>5. \/ esm' = NextDelivery(s) /\ UNCHANGED <<queue, msg, gone>>
      \/ /\ p \in queue[q]
         /\ msg' = IF ok THEN Unqueue({p})
                   ELSE [msg EXCEPT ![p].count = esm[s].count, ![p].received = TRUE,
                                    ![p].visAt = esm[s].visAt]
         /\ queue' = IF ok THEN [queue EXCEPT ![q] = queue[q] \ {p}] ELSE queue
         /\ gone' = IF ok THEN gone \union {msg[p].id} ELSE gone
         /\ esm' = IF ok \/ Dlq[q] = NoQueue THEN NextDelivery(s)
                   ELSE [esm EXCEPT ![s] = [@ EXCEPT !.at = "try", !.count = 0, !.visAt = 0]]
  BY <1>2, <1>3 DEF CommitESMReceive, Load
<1>6. gone \subseteq 1..made /\ msg[p].id \in 1..made
  BY DEF Places, TypeOK, Identity
<1>7. CASE esm' = NextDelivery(s) /\ UNCHANGED <<queue, msg, gone>>
  <2>1. Flow
    BY <1>1, <1>7, QuietFlow, Basics DEF Places
  <2> QED
    BY <1>1, <1>7, <2>1, Proceeds, QuietTurn DEF Live
<1>8. ASSUME p \in queue[q], ok, msg' = Unqueue({p}),
             queue' = [queue EXCEPT ![q] = queue[q] \ {p}],
             gone' = gone \union {msg[p].id}, esm' = NextDelivery(s)
      PROVE  Good
  <2>1. Leave(q, {p})
    BY <1>1, <1>8 DEF Leave
  <2>2. \A x \in Queues \ {q} : {p} \intersect queue[x] = {}
    BY <1>8 DEF Places, OwnQueue
  <2>3. Flow
    BY <2>1, <2>2, LeaveFlow DEF Places
  <2>4. /\ SendersOK'
        /\ \A x : OnWay(x)' => OnWay(x)
        /\ \A x : OnWay(x) => OnWay(x)'
    BY <1>1, <1>8, <2>3, Proceeds
  <2>5. gone \subseteq gone' /\ gone' \subseteq 1..made /\ msg[p].id \in gone'
    BY <1>6, <1>8
  <2> QED
    BY <1>1, <2>1, <2>2, <2>3, <2>4, <2>5, LeaveStep, MoversKept, StillCopied DEF Live
<1>9. ASSUME p \in queue[q],
             msg' = [msg EXCEPT ![p].count = esm[s].count, ![p].received = TRUE,
                                ![p].visAt = esm[s].visAt],
             UNCHANGED <<queue, gone>>,
             \/ esm' = NextDelivery(s)
             \/ esm' = [esm EXCEPT ![s] = [esm[s] EXCEPT !.at = "try", !.count = 0,
                                                         !.visAt = 0]]
      PROVE  Good
  <2> DEFINE c == esm[s].count
             v == esm[s].visAt
             m == [msg[p] EXCEPT !.count = c, !.received = TRUE, !.visAt = v]
  <2>1. /\ msg[p] \in Message /\ c \in 0..MaxCount /\ v \in Nat
        /\ msg \in [Objects -> Message] /\ p \in Objects
    BY <1>4, Basics DEF Places, Delivery
  <2>2. msg' = [msg EXCEPT ![p] = m]
    BY <1>9, <2>1
  <2>3. /\ m \in Message /\ m.id = msg[p].id /\ m.grp = msg[p].grp /\ m.dd = msg[p].dd
        /\ m.sentAt = msg[p].sentAt
    <3> HIDE DEF c, v
    <3> QED
      BY <2>1 DEF Message
  <2> HIDE DEF m
  <2>4. Flow /\ CountsKept /\ New = {}
    BY <1>1, <1>4, <1>9, <2>2, <2>3, ChangeFlow DEF Places
  <2>5. /\ SendersOK'
        /\ \A x : OnWay(x)' => OnWay(x) \/ InQueue(x)
        /\ \A x : OnWay(x) => OnWay(x)'
    <3>1. CASE esm' = NextDelivery(s)
      BY <1>1, <2>4, <3>1, Proceeds
    <3>2. CASE esm' = [esm EXCEPT ![s] = [esm[s] EXCEPT !.at = "try", !.count = 0,
                                                        !.visAt = 0]]
      <4>1. PICK S : S = esm[s].todo
        OBVIOUS
      <4> DEFINE d == [esm[s] EXCEPT !.at = "try", !.count = 0, !.visAt = 0]
      <4>2. /\ d \in Delivery /\ d.at = "try" /\ d.q = q /\ d.todo = S
        <5>1. esm[s] \in Delivery /\ 0 \in 0..MaxCount /\ 0 \in Nat
          BY <1>4, SQSAssumption
        <5> QED
          BY <1>3, <4>1, <5>1 DEF Delivery
      <4> HIDE DEF d
      <4>3. esm' = [esm EXCEPT ![s] = d]
        BY <3>2 DEF d
      <4>4. Turns(s, "try", q, S)
        BY <1>4, <4>2, <4>3 DEF Turns
      <4>5. S # {} /\ S \subseteq esm[s].todo /\ q = esm[s].q
        BY <1>3, <1>4, <4>1
      <4> QED
        BY <1>1, <2>4, <4>4, <4>5, SendersTurn
    <3> QED
      BY <1>9, <3>1, <3>2
  <2>6. \A x : Live(x) => Live(x)'
    BY <1>9, <2>5 DEF Live, InQueue
  <2> QED
    BY <1>1, <1>6, <1>9, <2>4, <2>5, <2>6, MoversKept, StillCopied, NothingNew DEF Live
<1>10. CASE ok
  BY <1>5, <1>7, <1>8, <1>10
<1>11. CASE ~ok
  BY <1>5, <1>7, <1>9, <1>11
<1> QED
  BY <1>10, <1>11

\* A move task's turn that touches no object.
LEMMA QuietShift ==
    ASSUME Places, DedupPast,
           UNCHANGED <<setup, clock, open, queue, msg, made, dedup, esm, gone, moved>>,
           MoversOK', \A p : Copied(p)' => Copied(p)
    PROVE  Good
<1>1. Flow /\ CountsKept /\ New = {}
  BY QuietFlow, Basics DEF Places
<1>2. gone \subseteq 1..made
  BY DEF Places, TypeOK
<1>3. SendersOK' /\ \A p : OnWay(p)' <=> OnWay(p)
  BY <1>1, SendersKept
<1>4. \A p : Live(p) <=> Live(p)'
  BY <1>3 DEF Live, InQueue
<1> QED
  BY <1>1, <1>2, <1>3, <1>4, NothingNew DEF Live

\* A task takes its snapshot.
LEMMA StartMoveStep ==
    ASSUME Places, DedupPast, NEW m \in Movers, NEW src \in Queues,
           NEW dest \in Queues \union {NoQueue}, StartMessageMoveTask(m, src, dest)
    PROVE  Good
<1> DEFINE d == [at |-> "copy", src |-> src, dest |-> dest, todo |-> queue[src], done |-> {}]
<1>1. /\ move' = [move EXCEPT ![m] = d]
      /\ UNCHANGED <<setup, clock, open, queue, msg, made, dedup, esm, gone, moved>>
  BY DEF StartMessageMoveTask, history
<1>2. /\ move \in [Movers -> Task] /\ queue[src] \in SUBSET Objects
      /\ queue[src] \subseteq 1..made
  BY Held, Basics DEF Places
<1>3. d \in Task
  BY <1>2 DEF Task
<1>4. Shifts(m, "copy", src, queue[src], {})
  BY <1>1, <1>2, <1>3 DEF Shifts
<1>5. Flow
  BY <1>1, QuietFlow, Basics DEF Places
<1> HIDE DEF d
<1>6. PICK S : S = queue[src]
  OBVIOUS
<1>7. MoversOK'
  <2>1. Shifts(m, "copy", src, S, {}) /\ S \union {} \subseteq queue[src]
    BY <1>4, <1>6
  <2> QED
    BY <1>5, <2>1, MoversShift
<1>8. \A p : Copied(p)' => Copied(p)
  BY <1>4 DEF Shifts, Copied
<1> QED
  BY <1>1, <1>7, <1>8, QuietShift

\* A task copies an object, then counts it among those to remove; or passes it over.
LEMMA AppendStep ==
    ASSUME Places, DedupPast, NEW m \in Movers, AppendMessage(m)
    PROVE  Good
<1>1. /\ move[m].at = "copy" /\ move[m].todo # {}
      /\ UNCHANGED <<setup, clock, open, dedup, esm, gone>>
  BY DEF AppendMessage
<1>2. PICK p : p = Lowest(move[m].todo)
  OBVIOUS
<1>3. /\ move \in [Movers -> Task] /\ p \in move[m].todo /\ p \in 1..made
      /\ move[m].todo \in SUBSET (1..made) /\ move[m].done \in SUBSET (1..made)
      /\ move[m].src \in Queues
  <2>1. /\ move \in [Movers -> Task] /\ move[m].src \in Queues
        /\ move[m].todo \in SUBSET (1..made) /\ move[m].done \in SUBSET (1..made)
    BY <1>1, Held
  <2>2. made \in Nat
    BY Basics DEF Places
  <2>3. Lowest(move[m].todo) \in move[m].todo
    BY <1>1, <2>1, <2>2, LowestIsIn
  <2> QED
    BY <1>2, <2>1, <2>3
<1>4. PICK S, D, q : /\ S = move[m].todo \ {p} /\ D = move[m].done /\ q = move[m].src
  OBVIOUS
<1>5. /\ S \in SUBSET Objects /\ D \in SUBSET Objects /\ p \in Objects /\ move[m] \in Task
      /\ \A T : T \subseteq D \union {p} =>
                S \union T \subseteq move[m].todo \union move[m].done
      /\ q \in Queues
  BY <1>3, <1>4, Basics DEF Places
<1>6. PICK n : n = made + 1
  OBVIOUS
<1>7. \/ \E target \in open :
           /\ made < MaxMsgs
           /\ Arrive(target, [Copy(p, NoQueue) EXCEPT !.dd = msg[p].dd])
           /\ move' = [move EXCEPT ![m].todo = S, ![m].done = D \union {p}]
           /\ moved' = moved \union {msg[p].id}
      \/ /\ move' = [move EXCEPT ![m].todo = S]
         /\ UNCHANGED <<made, msg, queue, moved>>
  BY <1>1, <1>2, <1>3, <1>4 DEF AppendMessage, Arrive
<1>8. ASSUME NEW target \in open, made < MaxMsgs,
             Arrive(target, [Copy(p, NoQueue) EXCEPT !.dd = msg[p].dd]),
             move' = [move EXCEPT ![m].todo = S, ![m].done = D \union {p}],
             moved' = moved \union {msg[p].id}
      PROVE  Good
  <2> DEFINE c == [Copy(p, NoQueue) EXCEPT !.dd = msg[p].dd]
  <2>1. /\ made \in Nat /\ clock \in Nat
        /\ n \in 1..(made + 1) /\ n \notin 1..made /\ target \in Queues
    BY <1>6, Basics DEF Places, TypeOK
  <2>2. /\ c \in Message /\ c.id = msg[p].id
        /\ c.sentAt = clock /\ c.count = 0
    BY <1>5, MovedFacts DEF Places
  <2>3. c.id \in 1..(made + 1) /\ msg[p].id \in 1..made
    BY <1>3, <2>1, <2>2 DEF Places, Identity
  <2>4. Arrive(target, c)
    BY <1>8
  <2> HIDE DEF c
  <2>5. /\ Flow /\ CountsKept /\ New = {n} /\ msg'[n] = c
        /\ \A r \in Queues : \A x \in queue[r] : x \in queue'[r]
    BY <1>6, <1>8, <2>1, <2>2, <2>3, <2>4, ArriveFlow DEF Places
  <2>6. SendersOK' /\ \A x : OnWay(x)' <=> OnWay(x)
    BY <1>1, <2>5, SendersKept
  <2>7. Shifts(m, "copy", q, S, D \union {p})
    <3> DEFINE E == D \union {p}
    <3>1. E \in SUBSET Objects
      BY <1>5
    <3>2. move' = [move EXCEPT ![m].todo = S, ![m].done = E]
      BY <1>8
    <3> HIDE DEF E
    <3>3. /\ move'[m] = [move[m] EXCEPT !.todo = S, !.done = E]
          /\ move' = [x \in Movers |-> move'[x]]
          /\ \A x \in Movers \ {m} : move'[x] = move[x]
      BY <1>3, <3>2
    <3>4. move'[m] \in Task /\ move'[m].at = move[m].at /\ move'[m].src = move[m].src
          /\ move'[m].todo = S /\ move'[m].done = E
      BY <1>5, <3>1, <3>3 DEF Task
    <3>5. Shifts(m, "copy", q, S, E)
      BY <1>1, <1>3, <1>4, <3>3, <3>4 DEF Shifts
    <3> QED
      BY <3>5 DEF E
  <2>8. PICK T : T = D \union {p}
    OBVIOUS
  <2>9. MoversOK'
    <3>1. Shifts(m, "copy", q, S, T) /\ S \union T \subseteq move[m].todo \union move[m].done
      BY <1>5, <2>7, <2>8
    <3> QED
      BY <1>4, <1>5, <2>5, <3>1, MoversShift
  <2>10. \A x : Copied(x)' => Copied(x) \/ x = p
    BY <1>4, <2>7 DEF Shifts, Copied
  <2>11. \A x \in 1..made : Live(x) /\ ~Copied(x) =>
           msg[x].id = msg'[n].id \/ (Live(x)' /\ ~Copied(x)')
    <3>1. \A x : Live(x) => Live(x)'
      BY <2>5, <2>6 DEF Live, InQueue
    <3> QED
      BY <2>2, <2>5, <2>10, <3>1
  <2>12. ~Copied(n)'
    <3>1. n # p
      BY <1>3, <2>1
    <3> QED
      BY <2>1, <2>10, <3>1, Held
  <2>13. RestTyped'
    BY <1>1, <1>8, <2>3, <2>5, OldAndNew DEF RestTyped, Places, TypeOK
  <2>14. Windows
    <3>1. \A r \in Queues, d \in DedupIds :
            dedup[r][d] \in -1..MaxClock /\ dedup[r][d] <= clock
      BY DEF Places, TypeOK, DedupPast
    <3>2. MaxClock \in Nat
      BY Basics DEF Places
    <3>3. msg'[n].id \in moved'
      BY <1>8, <2>2, <2>5
    <3> QED
      BY <1>1, <2>1, <2>5, <3>1, <3>2, <3>3 DEF Windows
  <2>15. msg'[n].id \in moved' /\ moved \subseteq moved'
    BY <1>8, <2>2, <2>5
  <2> QED
    BY <1>1, <2>5, <2>6, <2>9, <2>11, <2>12, <2>13, <2>14, <2>15, OneNew DEF Live
<1>9. CASE move' = [move EXCEPT ![m].todo = S] /\ UNCHANGED <<made, msg, queue, moved>>
  <2>1. Shifts(m, "copy", q, S, D)
    <3>1. /\ move'[m] = [move[m] EXCEPT !.todo = S]
          /\ move' = [x \in Movers |-> move'[x]]
          /\ \A x \in Movers \ {m} : move'[x] = move[x]
      BY <1>3, <1>9
    <3>2. move'[m] \in Task /\ move'[m].at = move[m].at /\ move'[m].src = move[m].src
          /\ move'[m].todo = S /\ move'[m].done = move[m].done
      BY <1>5, <3>1 DEF Task
    <3> QED
      BY <1>1, <1>3, <1>4, <3>1, <3>2 DEF Shifts
  <2>2. Flow
    BY <1>1, <1>9, QuietFlow, Basics DEF Places
  <2>3. MoversOK'
    BY <1>4, <1>5, <2>1, <2>2, MoversShift
  <2>4. \A x : Copied(x)' => Copied(x)
    BY <1>4, <2>1 DEF Shifts, Copied
  <2> QED
    BY <1>1, <1>9, <2>3, <2>4, QuietShift
<1> QED
  BY <1>7, <1>8, <1>9

\* What a task has copied leaves its source.
LEMMA FinishStep ==
    ASSUME Places, DedupPast, NEW m \in Movers, FinishMove(m)
    PROVE  Good
<1>1. /\ move[m].at = "copy" /\ move' = [move EXCEPT ![m] = NoMove]
      /\ UNCHANGED <<setup, clock, open, made, dedup, esm, gone, moved>>
  BY DEF FinishMove, history
<1>2. PICK q \in Queues : q = move[m].src
  BY <1>1, Held
<1>3. PICK D : D = move[m].done
  OBVIOUS
<1>4. Leave(q, D)
  BY <1>1, <1>2, <1>3 DEF FinishMove, Leave
<1>5. \A r \in Queues \ {q} : D \intersect queue[r] = {}
  BY <1>2, <1>3 DEF Places, MoversOK, MovesHome
<1>6. Flow
  BY <1>4, <1>5, LeaveFlow DEF Places
<1>7. NoMove \in Task /\ move \in [Movers -> Task]
  BY Held DEF NoMove, Task
<1>8. Shifts(m, "idle", NoQueue, {}, {})
  BY <1>1, <1>7 DEF Shifts, NoMove
<1>9. MoversOK'
  BY <1>6, <1>8, MoversShift
<1>10. \A p : Copied(p)' => Copied(p)
  BY <1>8 DEF Shifts, Copied
<1>11. SendersOK' /\ \A p : OnWay(p)' <=> OnWay(p)
  BY <1>1, <1>6, SendersKept
<1>12. \A p \in D : Copied(p)
  BY <1>3 DEF Copied
<1>13. gone \subseteq 1..made
  BY DEF Places, TypeOK
<1> QED
  BY <1>1, <1>4, <1>5, <1>9, <1>10, <1>11, <1>12, <1>13, LeaveStep DEF Live

(***************************************************************************)
(* The invariant                                                           *)
(***************************************************************************)

Inv ==
    /\ Places /\ Unique /\ Kept
    /\ Remembered /\ DedupPast /\ NoDuplicateInWindow
    /\ FifoDeliveryInOrder

\* Every step is good.
LEMMA EveryStep ==
    ASSUME Places, DedupPast, Unique, [Next]_vars
    PROVE  Good
<1>1. ASSUME NEW s \in Senders, NEW q \in Queues, NEW g \in Groups,
             NEW d \in DedupIds \union {NoDedup}, NEW delay \in setup.delays,
             SendMessage(s, q, g, d, delay)
      PROVE  Good
  BY <1>1, SendStep
<1>2. ASSUME NEW s \in Senders, DeliverToESM(s)
      PROVE  Good
  BY <1>2, DeliverToESMStep
<1>3. ASSUME NEW s \in Senders, DeliverMessage(s)
      PROVE  Good
  BY <1>3, DeliverMessageStep
<1>4. ASSUME NEW s \in Senders, DeliverToDLQ(s)
      PROVE  Good
  BY <1>4, DeliverToDLQStep
<1>5. ASSUME NEW s \in Senders, NEW ok \in BOOLEAN, CommitESMReceive(s, ok)
      PROVE  Good
  BY <1>5, CommitStep
<1>6. ASSUME NEW q \in Queues, NEW n \in Batch, NEW t \in Timeouts, ReceiveMessages(q, n, t)
      PROVE  Good
  BY <1>6, ReceiveStep
<1>7. ASSUME NEW q \in Queues, NEW p \in Objects, DeleteMessage(q, p)
      PROVE  Good
  BY <1>7, DeleteMessageStep
<1>8. ASSUME NEW q \in Queues, NEW p \in Objects, NEW t \in Timeouts,
             ChangeVisibility(q, p, t)
      PROVE  Good
  BY <1>8, ChangeVisibilityStep
<1>9. ASSUME NEW q \in Queues, PurgeQueue(q)
      PROVE  Good
  BY <1>9, PurgeStep
<1>10. ASSUME NEW q \in Queues, DeleteQueue(q)
       PROVE  Good
  BY <1>10, DeleteQueueStep
<1>11. ASSUME NEW m \in Movers, NEW src \in Queues, NEW dest \in Queues \union {NoQueue},
              StartMessageMoveTask(m, src, dest)
       PROVE  Good
  BY <1>11, StartMoveStep
<1>12. ASSUME NEW m \in Movers, AppendMessage(m)
       PROVE  Good
  BY <1>12, AppendStep
<1>13. ASSUME NEW m \in Movers, FinishMove(m)
       PROVE  Good
  BY <1>13, FinishStep
<1>14. CASE Tick \/ UNCHANGED vars
  BY <1>14, TickStep
<1> QED
  BY <1>1, <1>2, <1>3, <1>4, <1>5, <1>6, <1>7, <1>8, <1>9, <1>10, <1>11, <1>12, <1>13, <1>14
  DEF Next

\* The index never runs ahead of the clock.
LEMMA DedupPastKept ==
    ASSUME Windows
    PROVE  DedupPast'
BY DEF Windows, DedupPast

\* The invariant holds at the start.
LEMMA InvInit == Init => Inv
<1> SUFFICES ASSUME Init
             PROVE  Inv
  OBVIOUS
<1>1. /\ setup \in Setups /\ clock = 0 /\ open = Queues
      /\ queue = [q \in Queues |-> {}]
      /\ msg = [p \in Objects |-> NoMessage] /\ made = 0
      /\ dedup = [q \in Queues |-> [d \in DedupIds |-> -1]]
      /\ esm = [s \in Senders |-> NoDelivery] /\ move = [m \in Movers |-> NoMove]
      /\ gone = {} /\ moved = {}
  BY DEF Init
<1>2. MaxClock \in Nat /\ MaxMsgs \in Nat /\ 0 \in 0..MaxCount /\ 0 \in 0..MaxMsgs
      /\ 0 \in 0..MaxClock /\ 1..made = {}
  BY <1>1, SQSAssumption
<1>3. NoMessage \in Message
  <2> DEFINE first == CHOOSE g \in Groups : TRUE
  <2>1. first \in Groups
    BY SQSAssumption
  <2>2. NoMessage = [id |-> 0, grp |-> first, dd |-> NoDedup, sentAt |-> 0, visAt |-> 0,
                     count |-> 0, received |-> FALSE, src |-> NoQueue]
    BY DEF NoMessage
  <2>3. FALSE \in BOOLEAN /\ NoDedup \in DedupIds \union {NoDedup}
        /\ NoQueue \in Queues \union {NoQueue} /\ 0 \in Nat
    OBVIOUS
  <2> HIDE DEF first
  <2> QED
    BY <1>2, <2>1, <2>2, <2>3 DEF Message
<1>4. /\ NoDelivery \in Delivery /\ NoDelivery.at = "idle" /\ NoDelivery.todo = {}
      /\ NoMove \in Task /\ NoMove.at = "idle" /\ NoMove.todo = {} /\ NoMove.done = {}
  BY <1>2 DEF NoDelivery, Delivery, NoMove, Task
<1>5. SendersOK /\ MoversOK
  BY <1>1, <1>4 DEF SendersOK, SendersTyped, DeliveriesHome, LoadsApart,
                    MoversOK, MoversTyped, MovesHome
<1>6. TypeOK
  <2>1. dedup \in [Queues -> [DedupIds -> -1..MaxClock]]
    <3>1. -1 \in -1..MaxClock
      BY <1>2
    <3> QED
      BY <1>1, <3>1
  <2>2. queue \in [Queues -> SUBSET (1..made)] /\ msg \in [Objects -> Message]
    BY <1>1, <1>3
  <2> QED
    BY <1>1, <1>2, <1>5, <2>1, <2>2
    DEF TypeOK, SendersOK, SendersTyped, MoversOK, MoversTyped
<1>7. Places
  BY <1>2, <1>5, <1>6 DEF Places, Identity, OwnQueue
<1>8. Unique /\ Kept
  BY <1>2 DEF Unique, Kept, Sent
<1>9. setup.fifo \subseteq Queues
  BY <1>6, Basics
<1>10. Remembered /\ NoDuplicateInWindow /\ FifoDeliveryInOrder
  BY <1>1, <1>9 DEF Remembered, NoDuplicateInWindow, FifoDeliveryInOrder
<1>11. DedupPast
  BY <1>1 DEF DedupPast
<1> QED
  BY <1>7, <1>8, <1>10, <1>11 DEF Inv

\* ... and every step keeps it.
LEMMA InvNext == Inv /\ [Next]_vars => Inv'
<1> SUFFICES ASSUME Inv, [Next]_vars
             PROVE  Inv'
  OBVIOUS
<1>1. Good
  BY EveryStep DEF Inv
<1>2. Places' /\ Flow /\ Lineage /\ Survival /\ Windows /\ FifoDeliveryInOrder'
  BY <1>1 DEF Good, Inv
<1>3. Unique'
  BY <1>2, UniqueFlow DEF Inv
<1>4. Kept'
  BY <1>2, KeptFlow DEF Inv
<1>5. Remembered'
  BY <1>2, RememberedFlow DEF Inv
<1>6. NoDuplicateInWindow'
  BY <1>2, NoDuplicateFlow DEF Inv
<1>7. DedupPast'
  BY <1>2, DedupPastKept
<1> QED
  BY <1>2, <1>3, <1>4, <1>5, <1>6, <1>7 DEF Inv

\* The invariant holds throughout.
THEOREM Invariant == Spec => []Inv
BY InvInit, InvNext, PTL DEF Spec

(***************************************************************************)
(* What follows                                                            *)
(***************************************************************************)

\* A message that has an object is in a queue or on its way to one.
LEMMA LostNone == Inv => NoMessageLost
<1> SUFFICES ASSUME Inv, open = Queues, NEW i \in Sent \ gone
             PROVE  i \in Carried \/ \E q \in Queues : \E p \in queue[q] : msg[p].id = i
  BY DEF NoMessageLost
<1>1. PICK p \in 1..made : Live(p) /\ msg[p].id = i
  BY DEF Inv, Kept
<1> QED
  BY <1>1 DEF Live, InQueue, OnWay, Carried, Load

\* A message that no task has moved has one object at most.
LEMMA OneEach == Inv => OneCopy
<1> SUFFICES ASSUME Inv, NEW i \in Sent \ moved
             PROVE  LET copies == {p \in 1..made : msg[p].id = i
                                                   /\ \E q \in Queues : p \in queue[q]}
                    IN Cardinality(copies) + Cardinality({i} \intersect Carried) <= 1
  BY DEF OneCopy
<1> DEFINE copies == {p \in 1..made : msg[p].id = i /\ \E q \in Queues : p \in queue[q]}
<1>1. \A p, r \in 1..made : Live(p) /\ Live(r) /\ msg[p].id = i /\ msg[r].id = i => p = r
  BY DEF Inv, Unique
<1>2. \A p \in copies : p \in 1..made /\ msg[p].id = i /\ InQueue(p) /\ Live(p)
  BY DEF InQueue, Live
<1> HIDE DEF copies
<1>3. CASE i \in Carried
  <2>1. PICK s \in Senders : esm[s].at = "dlq" /\ msg[Load(s)].id = i
    BY <1>3 DEF Carried, Load
  <2>2. Load(s) \in 1..made /\ Live(Load(s)) /\ ~InQueue(Load(s))
    BY <2>1, Held DEF Inv, Places, SendersOK, DeliveriesHome, Live, OnWay
  <2>3. copies = {}
    BY <1>1, <1>2, <2>1, <2>2
  <2>4. {i} \intersect Carried = {i}
    BY <1>3
  <2>5. Cardinality(copies) = 0 /\ Cardinality({i} \intersect Carried) = 1
    BY <2>3, <2>4, FS_EmptySet, FS_Singleton
  <2> QED
    BY <2>5 DEF copies
<1>4. CASE i \notin Carried
  <2>1. {i} \intersect Carried = {}
    BY <1>4
  <2>2. Cardinality({i} \intersect Carried) = 0
    BY <2>1, FS_EmptySet
  <2>3. copies = {} \/ \E p : copies = {p}
    BY <1>1, <1>2
  <2>4. Cardinality(copies) = 0 \/ Cardinality(copies) = 1
    BY <2>3, FS_EmptySet, FS_Singleton
  <2> QED
    BY <2>2, <2>4 DEF copies
<1> QED
  BY <1>3, <1>4

\* TypeOK: every queue, message, index entry, delivery and move task is well-formed, whatever
\* the interleaving of sends, receives, deliveries and move tasks.
THEOREM TypeCorrect == Spec => []TypeOK
<1>1. Inv => TypeOK
  BY DEF Inv, Places
<1> QED
  BY <1>1, Invariant, PTL

\* NoMessageLost: while no queue is deleted, a message that was sent and neither consumed nor
\* purged is in a queue or in the hands of a sender that redrives it.
THEOREM NothingLost == Spec => []NoMessageLost
BY LostNone, Invariant, PTL

\* OneCopy: receives and Lambda deliveries that race to redrive a message leave one copy of it.
THEOREM RedrivesOnce == Spec => []OneCopy
BY OneEach, Invariant, PTL

\* FifoDeliveryInOrder: in a FIFO queue without a Lambda mapping, receives take the messages of
\* a group in the order they were sent.
THEOREM DeliversInOrder == Spec => []FifoDeliveryInOrder
<1>1. Inv => FifoDeliveryInOrder
  BY DEF Inv
<1> QED
  BY <1>1, Invariant, PTL

\* NoDuplicateInWindow: a FIFO queue never holds two messages of one deduplication id sent
\* within the window, move tasks aside.
THEOREM DeduplicatesInWindow == Spec => []NoDuplicateInWindow
<1>1. Inv => NoDuplicateInWindow
  BY DEF Inv
<1> QED
  BY <1>1, Invariant, PTL
=============================================================================
