------------------------------ MODULE DynamoDB ------------------------------
(***************************************************************************)
(* providers/aws/dynamodb: conditional writes, transactions with client    *)
(* tokens, item expiry, the table's change stream, its delivery to Lambda  *)
(* and the stream's readers, for one table with its stream wired to a      *)
(* Lambda mapping.                                                         *)
(*                                                                         *)
(* A write evaluates its conditions and plans its mutations under the      *)
(* provider's mutex and applies them one by one under the same hold.  The  *)
(* item store has a lock of its own, and GetItem uses only that one: it    *)
(* can run between two mutations, and its removal of an expired item is a  *)
(* second step.  A write call leaves by draining the change records that   *)
(* are pending, its own or not, and delivering them outside the mutex.  A  *)
(* Lambda handler that writes back is one more writer.                     *)
(*                                                                         *)
(* An item is the number of the call that wrote it and the time in its TTL *)
(* attribute; the number 0 is no item.  Change records are numbered from 1 *)
(* and appended in that order, so the buffer, the pending list and the     *)
(* batches are the sets of their numbers.                                  *)
(***************************************************************************)
EXTENDS Integers, Sequences, FiniteSets

CONSTANTS
    Keys,       \* item keys
    Writers,    \* goroutines in a write call
    NoWriter,   \* the mutex is free
    Getters,    \* goroutines in GetItem
    Requests,   \* operation lists clients send
    Tokens,     \* ClientRequestTokens
    NoToken,    \* no ClientRequestToken
    Limits,     \* GetRecords limits
    MaxRecords, \* maxStreamRecords
    Window,     \* transactIdempotencyWindow
    MaxWrites,  \* bound on write calls
    MaxSeq,     \* bound on change records
    MaxClock    \* bound on time

Kinds == {"put", "update", "delete", "check"}
Conditions == {"none", "absent", "present"}

\* exp: the TTL attribute a put writes, 0 for none.
Ops == [kind : Kinds, key : Keys, cond : Conditions, exp : Nat]

\* The handler rejects a transaction that names an item twice.
ASSUME DynamoDBAssumption ==
    /\ Keys # {} /\ NoWriter \notin Writers /\ NoToken \notin Tokens
    /\ Requests \subseteq Seq(Ops) \ {<<>>}
    /\ \A r \in Requests : \A i, j \in DOMAIN r : r[i].key = r[j].key => i = j
    /\ Limits \subseteq Nat \ {0}
    /\ MaxRecords \in Nat \ {0}
    /\ Window \in Nat /\ MaxWrites \in Nat /\ MaxSeq \in Nat /\ MaxClock \in Nat

VARIABLES
    clock,    \* the provider's clock
    mu,       \* the writer that holds the provider's mutex
    items,    \* the table's items
    stream,   \* the stream is enabled
    seq,      \* seqCounter
    log,      \* streamRecords: the change records still kept, by number
    pending,  \* pendingStream
    write,    \* each write call
    tokens,   \* txIdempotency: each token's request and time, -1 if none
    get,      \* each GetItem about to remove an expired item
    after,    \* the stream reader's position
    made,     \* write calls that have planned their mutations so far
    delivered,\* records delivered to Lambda (history)
    late,     \* records delivered after a later one (history)
    overlap,  \* two calls have held records to deliver at once (history)
    applied,  \* when each token's calls were applied (history)
    raced,    \* keys GetItem has removed a newer item from, and
    unlogged, \* keys written while the stream was disabled, until the next record (history)
    seen,     \* records the reader has read (history)
    again,    \* records it has read twice (history)
    missed    \* records dropped from the buffer before it read them (history)

tableVars == <<clock, stream>>
logVars == <<seq, log, pending, missed, unlogged>>
readVars == <<after, seen, again>>
deliveryVars == <<delivered, late, overlap>>
callVars == <<made, applied, tokens>>
vars == <<tableVars, mu, items, logVars, write, get, readVars, deliveryVars, callVars, raced>>

Item == [ver : 0..MaxWrites, exp : Nat]
NoItem == [ver |-> 0, exp |-> 0]

\* A change record: its key and new image, NoItem in a REMOVE.
Record == [key : Keys, new : Item]

\* A planned mutation (txMutation).
Plan == [kind : Kinds, key : Keys, old : Item, new : Item, hadOld : BOOLEAN]

\* The buffer after n records: appendStreamRecord keeps the last MaxRecords.
BufferAt(n) == {s \in 1..n : s > n - MaxRecords}
Buffer == BufferAt(seq)

IdleWrite == [at |-> "idle", plans |-> <<>>, req |-> <<>>, tok |-> NoToken, batch |-> {}]
IdleGet == [at |-> "idle", key |-> CHOOSE k \in Keys : TRUE, saw |-> NoItem]

\* Calls hold plans while they commit and records while they deliver.
TypeOK ==
    /\ clock \in 0..MaxClock
    /\ mu \in Writers \union {NoWriter}
    /\ items \in [Keys -> Item]
    /\ stream \in BOOLEAN
    /\ seq \in Nat
    /\ log \in [Buffer -> Record]
    /\ pending \subseteq 1..seq
    /\ write \in [Writers -> [at : {"idle", "commit", "flush", "deliver"}, plans : Seq(Plan),
                              req : Requests \union {<<>>}, tok : Tokens \union {NoToken},
                              batch : SUBSET (1..seq)]]
    /\ tokens \in [Tokens -> [req : Requests \union {<<>>}, at : -1..MaxClock]]
    /\ get \in [Getters -> [at : {"idle", "expire"}, key : Keys, saw : Item]]
    /\ after \in 0..seq
    /\ made \in 0..MaxWrites
    /\ delivered \subseteq 1..seq /\ late \subseteq delivered /\ overlap \in BOOLEAN
    /\ applied \in [Tokens -> SUBSET ((0..made) \X (0..MaxClock))]
    /\ raced \subseteq Keys /\ unlogged \subseteq Keys
    /\ seen \subseteq 1..seq /\ again \subseteq seen /\ missed \subseteq 1..seq

Init ==
    /\ clock = 0
    /\ mu = NoWriter
    /\ items = [k \in Keys |-> NoItem]
    /\ stream = TRUE
    /\ seq = 0 /\ log = <<>> /\ pending = {}
    /\ write = [w \in Writers |-> IdleWrite]
    /\ tokens = [t \in Tokens |-> [req |-> <<>>, at |-> -1]]
    /\ get = [g \in Getters |-> IdleGet]
    /\ after = 0
    /\ made = 0 /\ applied = [t \in Tokens |-> {}]
    /\ delivered = {} /\ late = {} /\ overlap = FALSE
    /\ raced = {} /\ unlogged = {}
    /\ seen = {} /\ again = {} /\ missed = {}

Present(i) == i.ver # 0

\* What a GetItem at this instant takes for an expired item.
PastExpiry(i) == Present(i) /\ i.exp # 0 /\ clock > i.exp

(***************************************************************************)
(* Write calls                                                             *)
(***************************************************************************)

\* evalCondition: attribute_not_exists, attribute_exists; expiry plays no part.
EvalCondition(op) ==
    /\ op.cond = "absent" => ~Present(items[op.key])
    /\ op.cond = "present" => Present(items[op.key])

\* evalTransactConditions
EvalConditions(req) == \A i \in DOMAIN req : EvalCondition(req[i])

\* planTransactOp, and the single-item calls: an update keeps the item's other
\* attributes and always counts as a change of an old item.
PlanOp(op) ==
    LET old == items[op.key] IN
    [kind |-> op.kind, key |-> op.key, old |-> old,
     hadOld |-> Present(old) \/ op.kind = "update",
     new |-> IF op.kind = "put" THEN [ver |-> made + 1, exp |-> op.exp]
             ELSE IF op.kind = "update" THEN [ver |-> made + 1, exp |-> old.exp]
             ELSE NoItem]

\* How many change records a request can make (for the bound on them).
Changing(req) == Cardinality({i \in DOMAIN req : req[i].kind # "check"})

\* Variant: a token expires one instant early.
RememberedShort(t) == tokens[t].at # -1 /\ clock - tokens[t].at < Window

\* checkTransactToken after pruneTransactTokens: the token is still known.
Remembered(t) == tokens[t].at # -1 /\ clock - tokens[t].at <= Window

Pruned == [t \in Tokens |-> IF Remembered(t) THEN tokens[t] ELSE [req |-> <<>>, at |-> -1]]

\* Variant: the mutex is not taken for the evaluation of the conditions.
BeginWriteUnlocked(w, req, t) ==
    /\ write[w].at = "idle"
    /\ made < MaxWrites /\ seq + Changing(req) <= MaxSeq
    /\ t # NoToken => ~Remembered(t)
    /\ EvalConditions(req)
    /\ mu' = w
    /\ write' = [write EXCEPT ![w] = [IdleWrite EXCEPT !.at = "commit", !.req = req, !.tok = t,
                                        !.plans = [i \in DOMAIN req |-> PlanOp(req[i])]]]
    /\ made' = made + 1
    /\ tokens' = IF t = NoToken THEN tokens ELSE Pruned
    /\ UNCHANGED <<tableVars, items, logVars, get, readVars, deliveryVars, applied, raced>>

\* PutItemConditional, UpdateItemConditional, DeleteItemConditional (one
\* operation, no token) and transactWriteLocked up to the commit.
BeginWrite(w, req, t) ==
    /\ write[w].at = "idle"
    /\ mu = NoWriter
    /\ made < MaxWrites /\ seq + Changing(req) <= MaxSeq
    /\ t # NoToken => ~Remembered(t)
    /\ EvalConditions(req)
    /\ mu' = w
    /\ write' = [write EXCEPT ![w] = [IdleWrite EXCEPT !.at = "commit", !.req = req, !.tok = t,
                                        !.plans = [i \in DOMAIN req |-> PlanOp(req[i])]]]
    /\ made' = made + 1
    /\ tokens' = IF t = NoToken THEN tokens ELSE Pruned
    /\ UNCHANGED <<tableVars, items, logVars, get, readVars, deliveryVars, applied, raced>>

\* A transaction that is a replay, reuses a token for another request or fails
\* a condition writes nothing, but still drains the pending records.
RefuseTransact(w, req, t) ==
    /\ write[w].at = "idle"
    /\ mu = NoWriter
    /\ \/ t # NoToken /\ Remembered(t)
       \/ ~EvalConditions(req)
    /\ pending # {}
    /\ write' = [write EXCEPT ![w].at = "flush"]
    /\ tokens' = IF t = NoToken THEN tokens ELSE Pruned
    /\ UNCHANGED <<tableVars, mu, items, logVars, get, readVars, deliveryVars, made, applied,
                   raced>>

\* What a plan leaves under its key.
Changes(p) == p.kind # "check"
\* Variant: a delete leaves no record.
RecordedWithoutRemove(p) == stream /\ p.kind \in {"put", "update"}

\* Its record, if it makes one: recordStreamEvent and recordStreamRemove.
Recorded(p) == stream /\ Changes(p) /\ (p.kind = "delete" => p.hadOld)
RecordOf(p) == [key |-> p.key, new |-> p.new]

\* Variant: the buffer grows without bound.
AppendUntrimmed(p) ==
    IF Recorded(p)
    THEN /\ seq' = seq + 1
         /\ log' = [s \in 1..seq + 1 |-> IF s > seq THEN RecordOf(p) ELSE log[s]]
         /\ pending' = pending \union {seq + 1}
         /\ unlogged' = unlogged \ {p.key}
         /\ UNCHANGED missed
    ELSE /\ unlogged' = IF Changes(p) /\ ~stream THEN unlogged \union {p.key} ELSE unlogged
         /\ UNCHANGED <<seq, log, pending, missed>>

\* buildStreamRecord, appendStreamRecord and queueStreamDelivery, or nothing.
AppendRecord(p) ==
    IF Recorded(p)
    THEN /\ seq' = seq + 1
         /\ log' = [s \in BufferAt(seq + 1) |-> IF s > seq THEN RecordOf(p) ELSE log[s]]
         /\ pending' = pending \union {seq + 1}
         /\ missed' = missed \union {s \in Buffer \ BufferAt(seq + 1) : s > after}
         /\ unlogged' = unlogged \ {p.key}
    ELSE /\ unlogged' = IF Changes(p) /\ ~stream THEN unlogged \union {p.key} ELSE unlogged
         /\ UNCHANGED <<seq, log, pending, missed>>

\* rememberTransactToken
RememberToken(w) ==
    tokens' = IF write[w].tok = NoToken THEN tokens
              ELSE [tokens EXCEPT ![write[w].tok] = [req |-> write[w].req, at |-> clock]]

\* commitTransactMutations, one plan at a time; after the last one the token is
\* remembered and the mutex released.
Commit(w) ==
    LET p == Head(write[w].plans)
        rest == Tail(write[w].plans)
        t == write[w].tok
    IN
    /\ write[w].at = "commit"
    /\ items' = IF Changes(p) THEN [items EXCEPT ![p.key] = p.new] ELSE items
    /\ AppendRecord(p)
    /\ raced' = IF Recorded(p) THEN raced \ {p.key} ELSE raced
    /\ \/ /\ rest # <<>>
          /\ write' = [write EXCEPT ![w].plans = rest]
          /\ UNCHANGED <<mu, tokens, applied>>
       \/ /\ rest = <<>>
          /\ write' = [write EXCEPT ![w] = [IdleWrite EXCEPT !.at = "flush"]]
          /\ mu' = NoWriter
          /\ RememberToken(w)
          /\ applied' = IF t = NoToken THEN applied
                        ELSE [applied EXCEPT ![t] = @ \union {<<made, clock>>}]
    /\ UNCHANGED <<tableVars, get, readVars, deliveryVars, made>>

(***************************************************************************)
(* Delivery to Lambda                                                      *)
(***************************************************************************)

\* Variant: the drained records stay pending.
FlushKeepsPending(w) ==
    /\ write[w].at = "flush"
    /\ mu = NoWriter
    /\ write' = [write EXCEPT ![w].at = IF pending = {} THEN "idle" ELSE "deliver",
                              ![w].batch = pending]
    /\ overlap' = (overlap \/ (pending # {} /\ \E x \in Writers : write[x].at = "deliver"))
    /\ UNCHANGED <<tableVars, mu, items, logVars, get, readVars, delivered, late, callVars, raced>>

\* flushStreamDeliveries takes what is pending under the mutex ...
FlushStreamDeliveries(w) ==
    /\ write[w].at = "flush"
    /\ mu = NoWriter
    /\ write' = [write EXCEPT ![w].at = IF pending = {} THEN "idle" ELSE "deliver",
                              ![w].batch = pending]
    /\ pending' = {}
    /\ overlap' = (overlap \/ (pending # {} /\ \E x \in Writers : write[x].at = "deliver"))
    /\ UNCHANGED <<tableVars, mu, items, seq, log, missed, unlogged, get, readVars, delivered,
                   late, callVars, raced>>

\* Variant: a call delivers its records one by one, the newest first.
DeliverNewestFirst(w) ==
    LET newest == CHOOSE s \in write[w].batch : \A r \in write[w].batch : r <= s IN
    /\ write[w].at = "deliver"
    /\ delivered' = delivered \union {newest}
    /\ late' = late \union {s \in {newest} : \E r \in delivered : r > s}
    /\ write' = [write EXCEPT ![w] = IF @.batch = {newest} THEN IdleWrite
                                    ELSE [@ EXCEPT !.batch = @ \ {newest}]]
    /\ UNCHANGED <<tableVars, mu, items, logVars, get, readVars, overlap, callVars, raced>>

\* ... and hands it to DeliverEventSourceBatch outside it.
Deliver(w) ==
    /\ write[w].at = "deliver"
    /\ delivered' = delivered \union write[w].batch
    /\ late' = late \union {s \in write[w].batch : \E r \in delivered : r > s}
    /\ write' = [write EXCEPT ![w] = IdleWrite]
    /\ UNCHANGED <<tableVars, mu, items, logVars, get, readVars, overlap, callVars, raced>>

(***************************************************************************)
(* Reads, expiry, configuration                                            *)
(***************************************************************************)

\* GetItem finds an expired item ...
GetItem(g, k) ==
    /\ get[g].at = "idle"
    /\ PastExpiry(items[k])
    /\ get' = [get EXCEPT ![g] = [at |-> "expire", key |-> k, saw |-> items[k]]]
    /\ UNCHANGED <<tableVars, mu, items, logVars, write, readVars, deliveryVars, callVars, raced>>

\* ... and removes whatever is under its key by then.
RemoveExpired(g) ==
    LET k == get[g].key IN
    /\ get[g].at = "expire"
    /\ items' = [items EXCEPT ![k] = NoItem]
    /\ raced' = IF Present(items[k]) /\ ~PastExpiry(items[k]) THEN raced \union {k} ELSE raced
    /\ get' = [get EXCEPT ![g] = IdleGet]
    /\ UNCHANGED <<tableVars, mu, logVars, write, readVars, deliveryVars, callVars>>

\* Records survive their stream's disabling.
UpdateStreamConfig ==
    /\ mu = NoWriter
    /\ stream' = ~stream
    /\ UNCHANGED <<clock, mu, items, logVars, write, get, readVars, deliveryVars,
                   callVars, raced>>

\* Variant: the record at the reader's position is read again.
FilterFromToken == IF after \in Buffer THEN {s \in Buffer : s >= after} ELSE Buffer

\* filterStreamRecords: what follows the reader's position, or the whole buffer
\* when that record has been dropped.
FilterStreamRecords == IF after \in Buffer THEN {s \in Buffer : s > after} ELSE Buffer

Least(S, n) == {s \in S : \E m \in 0..n-1 : s = m + (CHOOSE l \in S : \A x \in S : l <= x)}

\* GetStreamRecords and getRecords: at most limit records, and the iterator
\* moves to the last one.
GetRecords(limit) ==
    LET page == Least(FilterStreamRecords, limit) IN
    /\ mu = NoWriter
    /\ stream
    /\ page # {}
    /\ after' = CHOOSE s \in page : \A x \in page : s >= x
    /\ seen' = seen \union page
    /\ again' = again \union (page \intersect seen)
    /\ UNCHANGED <<tableVars, mu, items, logVars, write, get, deliveryVars, callVars, raced>>

Tick ==
    /\ clock < MaxClock
    /\ clock' = clock + 1
    /\ UNCHANGED <<stream, mu, items, logVars, write, get, readVars, deliveryVars,
                   callVars, raced>>

Next ==
    \/ \E w \in Writers :
         \/ \E req \in Requests, t \in Tokens \union {NoToken} :
              BeginWrite(w, req, t) \/ RefuseTransact(w, req, t)
         \/ Commit(w) \/ FlushStreamDeliveries(w) \/ Deliver(w)
    \/ \E g \in Getters : RemoveExpired(g) \/ \E k \in Keys : GetItem(g, k)
    \/ \E n \in Limits : GetRecords(n)
    \/ UpdateStreamConfig \/ Tick

Spec == Init /\ [][Next]_vars

(***************************************************************************)
(* Properties                                                              *)
(***************************************************************************)

\* "Each method here evaluates the condition and applies the write under a SINGLE
\* hold of m.mu, so no concurrent writer can interleave": what a call saw when it
\* evaluated its conditions is still there when it applies its writes, except for
\* an item that a GetItem has removed.
PlansStayCurrent ==
    \A w \in Writers : write[w].at = "commit" =>
        \A i \in DOMAIN write[w].plans :
            LET p == write[w].plans[i] IN
            items[p.key] = p.old \/ ~Present(items[p.key])

\* "a replay short-circuits instead of applying the writes again": two
\* applications under one token are further apart than the window.
AppliedOncePerWindow ==
    \A t \in Tokens : \A a, b \in applied[t] : a[1] < b[1] => b[2] - a[2] > Window

\* The last record of a key in the buffer shows what the table holds, or an item
\* that has expired since.
ShowsItem(k) ==
    \A s \in Buffer :
        /\ log[s].key = k
        /\ \A r \in Buffer : r > s => log[r].key # k
        => \/ log[s].new = items[k]
           \/ ~Present(items[k]) /\ PastExpiry(log[s].new)

\* A consumer that applies the change stream in order rebuilds the table,
\* whatever writes, expiry and transactions interleave: keys written while the
\* stream was disabled aside, and keys on which GetItem removed an item that was
\* written after the one it found expired.  (That item was acknowledged and is
\* lost: a plain Get-then-Delete, where UpdateOrDelete would re-read the item.)
StreamRebuildsTable == \A k \in Keys \ (raced \union unlogged) : ShowsItem(k)

\* Every change record is pending, in the hands of one call or delivered, and
\* only one of these: calls that drain each other's records neither lose nor
\* repeat one.  A pending record always has a call that will still drain.
DeliveredOnce ==
    LET held == {w \in Writers : write[w].at = "deliver"} IN
    /\ pending \union delivered \union UNION {write[w].batch : w \in held} = 1..seq
    /\ pending \intersect delivered = {}
    /\ \A w \in held : write[w].batch \intersect (pending \union delivered) = {}
    /\ \A w, x \in held : w # x => write[w].batch \intersect write[x].batch = {}
    /\ pending # {} => \E w \in Writers : write[w].at \in {"commit", "flush"}

\* Lambda receives the records in the order of the writes as long as no two calls
\* have had records to deliver at the same time.
InOrderUnlessOverlap == late # {} => overlap

\* "it advances past the last delivered record so repeated polls drain new
\* writes": a reader that follows its iterator reads every record once, except
\* the ones the full buffer dropped before it came for them.
ReaderDrainsStream == again = {} /\ (1..after) \ missed \subseteq seen
=============================================================================
