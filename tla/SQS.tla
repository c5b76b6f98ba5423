-------------------------------- MODULE SQS --------------------------------
(***************************************************************************)
(* providers/aws/sqs: queues with visibility timeouts, FIFO groups and     *)
(* deduplication, dead-letter redrive, Lambda event-source delivery and    *)
(* message move tasks.                                                     *)
(*                                                                         *)
(* A message object (an *sqsMessage) is its serial number.  Objects are    *)
(* created as they are appended, so a queue is the set of its objects and  *)
(* their numbers are its order.  Receive, delete, purge and the appends    *)
(* run under the queue's mutex and are one step; delivery to Lambda and    *)
(* move tasks release it between steps.  A receive appends to the dead-    *)
(* letter queue while it still holds its own queue's mutex, hence in the   *)
(* same step.  A receipt handle that is not the message's last one changes *)
(* nothing, so the last one is all the model keeps.                        *)
(***************************************************************************)
EXTENDS Integers, FiniteSets

CONSTANTS
    Queues,      \* queue URLs
    NoQueue,     \* the empty URL
    Dlq,         \* each queue's dead-letter target, or NoQueue
    Setups,      \* configurations: the FIFO queues, the queues with a Lambda
                 \* mapping, the DelaySeconds the queues are set to
    Groups,      \* MessageGroupId values
    DedupIds,    \* MessageDeduplicationId values
    NoDedup,     \* no deduplication id
    Senders,     \* goroutines in SendMessage
    Movers,      \* goroutines in StartMessageMoveTask
    Timeouts,    \* visibility timeouts a receive or a change asks for
    DedupWindow, \* deduplicationWindow
    MaxReceive,  \* MaxReceiveCount of the redrive policies
    Batch,       \* MaxNumberOfMessages values
    MaxMsgs,     \* bound on message objects
    MaxCount,    \* bound on receives of one object
    MaxClock     \* bound on time

\* No queue is its own dead-letter target: the code accepts such a policy, and a
\* receive that redrives under it would wait for the mutex it holds.
ASSUME SQSAssumption ==
    /\ NoQueue \notin Queues
    /\ Dlq \in [Queues -> Queues \union {NoQueue}]
    /\ \A q \in Queues : Dlq[q] # q
    /\ \A c \in Setups :
         c.fifo \subseteq Queues /\ c.mapped \subseteq Queues /\ c.delays \subseteq Nat
    /\ Groups # {} /\ NoDedup \notin DedupIds
    /\ Timeouts \subseteq Nat /\ Batch \subseteq Nat \ {0}
    /\ DedupWindow \in Nat \ {0}
    /\ MaxReceive \in Nat \ {0}
    /\ MaxMsgs \in Nat /\ MaxClock \in Nat
    /\ MaxCount \in Nat /\ MaxCount >= MaxReceive

Objects == 1..MaxMsgs

VARIABLES
    setup,  \* the configuration under check
    clock,  \* the provider's clock
    open,   \* queues in the queues store
    queue,  \* each queue's message objects
    msg,    \* the objects
    made,   \* objects created so far
    dedup,  \* deduplicationIndex: time of the last send, -1 if none
    esm,    \* each sender's delivery to Lambda
    move,   \* each move task
    gone,   \* messages consumed, purged or deleted with their queue (history)
    moved   \* messages a move task has copied (history)

vars == <<setup, clock, open, queue, msg, made, dedup, esm, move, gone, moved>>
history == <<gone, moved>>

\* id: the message, the same in every copy; received: it has a receipt handle;
\* src: the queue it was redriven from.
Message == [id : 0..MaxMsgs, grp : Groups, dd : DedupIds \union {NoDedup},
            sentAt : 0..MaxClock, visAt : Nat, count : 0..MaxCount,
            received : BOOLEAN, src : Queues \union {NoQueue}]

NoMessage == [id |-> 0, grp |-> CHOOSE g \in Groups : TRUE, dd |-> NoDedup,
              sentAt |-> 0, visAt |-> 0, count |-> 0, received |-> FALSE,
              src |-> NoQueue]

\* q: the queue; todo: swept messages still to deliver; count, visAt: the trial.
Delivery == [at : {"idle", "sweep", "try", "invoke", "dlq"},
             q : Queues \union {NoQueue}, todo : SUBSET Objects,
             count : 0..MaxCount, visAt : Nat]
NoDelivery == [at |-> "idle", q |-> NoQueue, todo |-> {}, count |-> 0, visAt |-> 0]
\* todo: the snapshot still to copy; done: the objects copied.
Task == [at : {"idle", "copy"}, src : Queues \union {NoQueue},
         dest : Queues \union {NoQueue}, todo : SUBSET Objects, done : SUBSET Objects]
NoMove == [at |-> "idle", src |-> NoQueue, dest |-> NoQueue, todo |-> {}, done |-> {}]

\* A queue holds objects that were made, and a delivery in progress has a message.
TypeOK ==
    /\ setup \in Setups
    /\ clock \in 0..MaxClock
    /\ open \subseteq Queues
    /\ queue \in [Queues -> SUBSET (1..made)]
    /\ msg \in [Objects -> Message]
    /\ made \in 0..MaxMsgs
    /\ dedup \in [Queues -> [DedupIds -> -1..MaxClock]]
    /\ esm \in [Senders -> Delivery]
    /\ \A s \in Senders :
         /\ esm[s].todo \subseteq 1..made
         /\ esm[s].at # "idle" => esm[s].q \in Queues
         /\ esm[s].at \in {"try", "invoke", "dlq"} => esm[s].todo # {}
    /\ move \in [Movers -> Task]
    /\ \A m \in Movers :
         /\ move[m].todo \subseteq 1..made /\ move[m].done \subseteq 1..made
         /\ move[m].at # "idle" => move[m].src \in Queues
    /\ gone \subseteq 1..made /\ moved \subseteq 1..made

Init ==
    /\ setup \in Setups
    /\ clock = 0
    /\ open = Queues
    /\ queue = [q \in Queues |-> {}]
    /\ msg = [p \in Objects |-> NoMessage]
    /\ made = 0
    /\ dedup = [q \in Queues |-> [d \in DedupIds |-> -1]]
    /\ esm = [s \in Senders |-> NoDelivery]
    /\ move = [m \in Movers |-> NoMove]
    /\ gone = {} /\ moved = {}

Fifo(q) == q \in setup.fifo
Visible(p) == msg[p].visAt <= clock

\* Objects taken out of their queue: only what a copy takes from them matters
\* from here on.
Unqueue(S) ==
    [p \in Objects |-> IF p \in S
                       THEN [msg[p] EXCEPT !.sentAt = 0, !.visAt = 0, !.count = 0,
                                           !.received = FALSE]
                       ELSE msg[p]]

(***************************************************************************)
(* SendMessage                                                             *)
(***************************************************************************)

\* Variant: the window ends one instant early.
FindDuplicateShort(q, d) ==
    /\ Fifo(q)
    /\ dedup[q][d] # -1
    /\ clock - dedup[q][d] < DedupWindow - 1
    /\ \E p \in queue[q] : msg[p].dd = d

\* findDuplicate: sent within the window, and still in the queue.
FindDuplicate(q, d) ==
    /\ Fifo(q)
    /\ dedup[q][d] # -1
    /\ clock - dedup[q][d] < DedupWindow
    /\ \E p \in queue[q] : msg[p].dd = d

\* A new message; a duplicate only returns the existing id.  A FIFO queue insists
\* on a deduplication id and a standard one ignores it.  The sender goes on
\* to deliver to Lambda, whether or not a mapping targets the queue.
SendMessage(s, q, g, d, delay) ==
    /\ esm[s].at = "idle"
    /\ q \in open
    /\ Fifo(q) <=> d # NoDedup
    /\ ~FindDuplicate(q, d)
    /\ made < MaxMsgs
    /\ made' = made + 1
    /\ msg' = [msg EXCEPT ![made + 1] =
                 [NoMessage EXCEPT !.id = made + 1, !.grp = g, !.dd = d,
                                   !.sentAt = clock, !.visAt = clock + delay]]
    /\ queue' = [queue EXCEPT ![q] = @ \union {made + 1}]
    /\ dedup' = IF Fifo(q) THEN [dedup EXCEPT ![q][d] = clock] ELSE dedup
    /\ esm' = [esm EXCEPT ![s].at = "sweep", ![s].q = q]
    /\ UNCHANGED <<setup, clock, open, move, history>>

(***************************************************************************)
(* Dead-letter redrive                                                     *)
(***************************************************************************)

\* The receive that would make count cross MaxReceiveCount.
ExceedsMaxReceive(q, p) == Dlq[q] # NoQueue /\ msg[p].count + 1 > MaxReceive

\* moveToDLQ of the objects in dead: fresh copies, numbered in their order.
Copy(p, n) == [msg[p] EXCEPT !.dd = NoDedup, !.sentAt = clock, !.visAt = clock,
                             !.count = 0, !.received = FALSE, !.src = n]
Number(p, dead) == made + Cardinality({r \in dead : r <= p})
Copies(dead) == {Number(p, dead) : p \in dead}

(***************************************************************************)
(* ReceiveMessages                                                         *)
(***************************************************************************)

\* Variant: no group is ever blocked.
NoInFlightGroups(q) == {}

\* fifoInFlightGroups
FifoInFlightGroups(q) ==
    IF Fifo(q) THEN {msg[p].grp : p \in {r \in queue[q] : ~Visible(r)}} ELSE {}

\* receiveOnce and collectVisibleMessages: in queue order, messages that cross
\* the threshold go to the dead-letter queue (nowhere, if it has been deleted)
\* and others are handed out, until n are.  A long poll is its last attempt.
ReceiveMessages(q, n, timeout) ==
    LET ready == {p \in queue[q] : Visible(p) /\ msg[p].grp \notin FifoInFlightGroups(q)}
        live  == {p \in ready : ~ExceedsMaxReceive(q, p)}
        within(p) == Cardinality({r \in live : r < p}) < n
        taken == {p \in live : within(p)}
        dead  == {p \in ready \ live : within(p)}
        kept  == IF Dlq[q] \in open THEN dead ELSE {}
    IN
    /\ q \in open
    /\ taken \union dead # {}
    /\ made + Cardinality(kept) <= MaxMsgs
    /\ \A p \in taken : msg[p].count < MaxCount
    /\ made' = made + Cardinality(kept)
    /\ msg' = [p \in Objects |->
                 IF p \in taken
                 THEN [msg[p] EXCEPT !.count = @ + 1, !.received = TRUE,
                                     !.visAt = clock + timeout]
                 ELSE IF p \in Copies(kept)
                 THEN Copy(CHOOSE r \in kept : Number(r, kept) = p, q)
                 ELSE Unqueue(dead)[p]]
    /\ queue' = [r \in Queues |->
                   IF r = q THEN queue[q] \ dead
                   ELSE IF r = Dlq[q] THEN queue[r] \union Copies(kept)
                   ELSE queue[r]]
    /\ UNCHANGED <<setup, clock, open, dedup, esm, move, history>>

\* DeleteMessage with the message's last receipt handle.
DeleteMessage(q, p) ==
    /\ q \in open
    /\ p \in queue[q] /\ msg[p].received
    /\ queue' = [queue EXCEPT ![q] = @ \ {p}]
    /\ msg' = Unqueue({p})
    /\ gone' = gone \union {msg[p].id}
    /\ UNCHANGED <<setup, clock, open, made, dedup, esm, move, moved>>

\* ChangeVisibility with the message's last receipt handle.
ChangeVisibility(q, p, timeout) ==
    /\ q \in open
    /\ p \in queue[q] /\ msg[p].received
    /\ msg' = [msg EXCEPT ![p].visAt = clock + timeout]
    /\ UNCHANGED <<setup, clock, open, queue, made, dedup, esm, move, history>>

PurgeQueue(q) ==
    /\ q \in open
    /\ queue[q] # {}
    /\ gone' = gone \union {msg[p].id : p \in queue[q]}
    /\ queue' = [queue EXCEPT ![q] = {}]
    /\ msg' = Unqueue(queue[q])
    /\ UNCHANGED <<setup, clock, open, made, dedup, esm, move, moved>>

\* The queue leaves the store; goroutines that hold it go on using it.
DeleteQueue(q) ==
    /\ q \in open
    /\ open' = open \ {q}
    /\ gone' = gone \union {msg[p].id : p \in queue[q]}
    /\ UNCHANGED <<setup, clock, queue, msg, made, dedup, esm, move, moved>>

(***************************************************************************)
(* Delivery to a Lambda event-source mapping                               *)
(***************************************************************************)

Lowest(S) == CHOOSE p \in S : \A r \in S : p <= r

\* The delivery goes on to its next message, or is over.
NextDelivery(s) ==
    LET rest == esm[s].todo \ {Lowest(esm[s].todo)} IN
    [esm EXCEPT ![s] = IF rest = {} THEN NoDelivery
                       ELSE [NoDelivery EXCEPT !.at = "try", !.q = esm[s].q, !.todo = rest]]

\* Variant: an empty sweep goes on to its first message.
DeliverEmptySweep(s) ==
    /\ esm[s].at = "sweep"
    /\ esm' = [esm EXCEPT ![s].at = "try",
                          ![s].todo = {p \in queue[esm[s].q] : Visible(p)}]
    /\ UNCHANGED <<setup, clock, open, queue, msg, made, dedup, move, history>>

\* deliverToESM snapshots what is visible now, FIFO groups or not.
DeliverToESM(s) ==
    LET pending == {p \in queue[esm[s].q] : Visible(p)} IN
    /\ esm[s].at = "sweep"
    /\ esm' = [esm EXCEPT ![s] = IF pending = {} THEN NoDelivery
                                 ELSE [@ EXCEPT !.at = "try", !.todo = pending]]
    /\ UNCHANGED <<setup, clock, open, queue, msg, made, dedup, move, history>>

\* Variant: the message stays queued while it goes to the dead-letter queue.
DeliverKeepsDead(s) ==
    LET q == esm[s].q
        p == Lowest(esm[s].todo)
    IN
    /\ esm[s].at = "try"
    /\ esm' = IF p \notin queue[q] THEN NextDelivery(s)
              ELSE IF ExceedsMaxReceive(q, p) THEN [esm EXCEPT ![s].at = "dlq"]
              ELSE IF q \notin setup.mapped THEN NextDelivery(s)
              ELSE [esm EXCEPT ![s].at = "invoke"]
    /\ UNCHANGED <<setup, clock, open, queue, msg, made, dedup, move, history>>

\* deliverMessageToESM up to the call: skip a message that is gone, take one
\* that would cross the threshold out of the queue, else build the trial.  Only
\* the call finds out that no mapping targets the queue, and changes nothing.
DeliverMessage(s) ==
    LET q == esm[s].q
        p == Lowest(esm[s].todo)
    IN
    /\ esm[s].at = "try"
    /\ \/ /\ p \notin queue[q]
          /\ esm' = NextDelivery(s)
          /\ UNCHANGED <<queue, msg>>
       \/ /\ p \in queue[q] /\ ExceedsMaxReceive(q, p)
          /\ queue' = [queue EXCEPT ![q] = @ \ {p}]
          /\ msg' = Unqueue({p})
          /\ esm' = [esm EXCEPT ![s].at = "dlq"]
       \/ /\ p \in queue[q] /\ ~ExceedsMaxReceive(q, p)
          /\ q \notin setup.mapped
          /\ esm' = NextDelivery(s)
          /\ UNCHANGED <<queue, msg>>
       \/ /\ p \in queue[q] /\ ~ExceedsMaxReceive(q, p)
          /\ q \in setup.mapped
          /\ msg[p].count < MaxCount
          /\ \E t \in Timeouts :
               esm' = [esm EXCEPT ![s].at = "invoke", ![s].visAt = clock + t,
                                  ![s].count = msg[p].count + 1]
          /\ UNCHANGED <<queue, msg>>
    /\ UNCHANGED <<setup, clock, open, made, dedup, move, history>>

\* ... and moveToDLQ, outside the source's mutex.
DeliverToDLQ(s) ==
    LET q == esm[s].q
        p == Lowest(esm[s].todo)
    IN
    /\ esm[s].at = "dlq"
    /\ \/ /\ Dlq[q] \in open
          /\ made < MaxMsgs
          /\ made' = made + 1
          /\ msg' = [msg EXCEPT ![made + 1] = Copy(p, q)]
          /\ queue' = [queue EXCEPT ![Dlq[q]] = @ \union {made + 1}]
       \/ /\ Dlq[q] \notin open
          /\ UNCHANGED <<made, msg, queue>>
    /\ esm' = NextDelivery(s)
    /\ UNCHANGED <<setup, clock, open, dedup, move, history>>

\* commitESMReceive once the handler has returned: the trial receive replaces
\* what the stored message has become; success deletes it, failure retries at
\* once if there is a dead-letter queue.
CommitESMReceive(s, ok) ==
    LET q == esm[s].q
        p == Lowest(esm[s].todo)
    IN
    /\ esm[s].at = "invoke"
    /\ \/ /\ p \notin queue[q]
          /\ esm' = NextDelivery(s)
          /\ UNCHANGED <<queue, msg, gone>>
       \/ /\ p \in queue[q]
          /\ msg' = IF ok THEN Unqueue({p})
                    ELSE [msg EXCEPT ![p].count = esm[s].count, ![p].received = TRUE,
                                     ![p].visAt = esm[s].visAt]
          /\ queue' = IF ok THEN [queue EXCEPT ![q] = @ \ {p}] ELSE queue
          /\ gone' = IF ok THEN gone \union {msg[p].id} ELSE gone
          /\ esm' = IF ok \/ Dlq[q] = NoQueue THEN NextDelivery(s)
                    ELSE [esm EXCEPT ![s] = [@ EXCEPT !.at = "try", !.count = 0, !.visAt = 0]]
    /\ UNCHANGED <<setup, clock, open, made, dedup, move, moved>>

(***************************************************************************)
(* StartMessageMoveTask                                                    *)
(***************************************************************************)

\* The task snapshots its source.  rejectActiveMoveTask looks for a RUNNING
\* task, but a task is recorded when it is over, so nothing is rejected.
StartMessageMoveTask(m, src, dest) ==
    /\ move[m].at = "idle"
    /\ src \in open
    /\ dest \in open \union {NoQueue}
    /\ queue[src] # {}
    /\ move' = [move EXCEPT ![m] = [at |-> "copy", src |-> src, dest |-> dest,
                                    todo |-> queue[src], done |-> {}]]
    /\ UNCHANGED <<setup, clock, open, queue, msg, made, dedup, esm, history>>

\* redriveTargetURL: where the message came from, else a queue that redrives
\* to this one.
RedriveTargetURL(p, src) ==
    LET sources == {q \in open : Dlq[q] = src} IN
    IF msg[p].src # NoQueue THEN msg[p].src
    ELSE IF sources = {} THEN NoQueue ELSE CHOOSE q \in sources : TRUE

\* appendMessageToQueue for the next message of the snapshot, whether or not
\* it is still in the source; without a destination it stays where it is.
AppendMessage(m) ==
    LET p == Lowest(move[m].todo)
        target == IF move[m].dest # NoQueue THEN move[m].dest
                  ELSE RedriveTargetURL(p, move[m].src)
    IN
    /\ move[m].at = "copy"
    /\ move[m].todo # {}
    /\ \/ /\ target \in open
          /\ made < MaxMsgs
          /\ made' = made + 1
          /\ msg' = [msg EXCEPT ![made + 1] =
                       [Copy(p, NoQueue) EXCEPT !.dd = msg[p].dd]]
          /\ queue' = [queue EXCEPT ![target] = @ \union {made + 1}]
          /\ move' = [move EXCEPT ![m].todo = @ \ {p}, ![m].done = @ \union {p}]
          /\ moved' = moved \union {msg[p].id}
       \/ /\ target \notin open
          /\ move' = [move EXCEPT ![m].todo = @ \ {p}]
          /\ UNCHANGED <<made, msg, queue, moved>>
    /\ UNCHANGED <<setup, clock, open, dedup, esm, gone>>

\* Variant: the source is rebuilt from the snapshot.
KeepSnapshot(m) ==
    /\ move[m].at = "copy" /\ move[m].todo = {}
    /\ queue' = [queue EXCEPT ![move[m].src] = {}]
    /\ move' = [move EXCEPT ![m] = NoMove]
    /\ UNCHANGED <<setup, clock, open, msg, made, dedup, esm, history>>

\* The objects that were copied leave the source; the rest, and what arrived
\* meanwhile, stay.
FinishMove(m) ==
    /\ move[m].at = "copy" /\ move[m].todo = {}
    /\ queue' = [queue EXCEPT ![move[m].src] = @ \ move[m].done]
    /\ msg' = Unqueue(move[m].done)
    /\ move' = [move EXCEPT ![m] = NoMove]
    /\ UNCHANGED <<setup, clock, open, made, dedup, esm, history>>

Tick ==
    /\ clock < MaxClock
    /\ clock' = clock + 1
    /\ UNCHANGED <<setup, open, queue, msg, made, dedup, esm, move, history>>

Next ==
    \/ \E s \in Senders :
         \/ \E q \in Queues, g \in Groups, d \in DedupIds \union {NoDedup},
               delay \in setup.delays :
              SendMessage(s, q, g, d, delay)
         \/ DeliverToESM(s) \/ DeliverMessage(s) \/ DeliverToDLQ(s)
         \/ \E ok \in BOOLEAN : CommitESMReceive(s, ok)
    \/ \E q \in Queues :
         \/ \E n \in Batch, t \in Timeouts : ReceiveMessages(q, n, t)
         \/ \E p \in Objects : DeleteMessage(q, p)
         \/ \E p \in Objects, t \in Timeouts : ChangeVisibility(q, p, t)
         \/ PurgeQueue(q) \/ DeleteQueue(q)
    \/ \E m \in Movers :
         \/ \E src \in Queues, dest \in Queues \union {NoQueue} :
              StartMessageMoveTask(m, src, dest)
         \/ AppendMessage(m) \/ FinishMove(m)
    \/ Tick

Spec == Init /\ [][Next]_vars

(***************************************************************************)
(* Properties                                                              *)
(***************************************************************************)

Sent == {msg[p].id : p \in 1..made}

\* A message being carried to the dead-letter queue is in no queue.
Carried == {msg[Lowest(esm[s].todo)].id : s \in {x \in Senders : esm[x].at = "dlq"}}

\* "messages delivered to the DLQ while the move is in flight must survive, not
\* be clobbered": while no queue is deleted, a message leaves the system only by
\* being consumed or purged, however receives, redrives, Lambda deliveries and
\* move tasks interleave.
NoMessageLost ==
    open = Queues =>
      \A i \in Sent \ gone :
        i \in Carried \/ \E q \in Queues : \E p \in queue[q] : msg[p].id = i

\* Receives and Lambda deliveries that race to redrive a message leave one copy
\* of it: only a move task, which copies before it removes, makes more.
OneCopy ==
    \A i \in Sent \ moved :
      LET copies == {p \in 1..made : msg[p].id = i /\ \E q \in Queues : p \in queue[q]}
      IN Cardinality(copies) + Cardinality({i} \intersect Carried) <= 1

\* "a group's messages are delivered strictly in order across consumers": in a
\* FIFO queue without a Lambda mapping, no message is handed out before the
\* messages of its group that are ahead of it in the queue, whatever the delays
\* they were sent with and however their visibility is changed.
FifoDeliveryInOrder ==
    \A q \in setup.fifo \ setup.mapped : \A p, r \in queue[q] :
        p < r /\ msg[p].grp = msg[r].grp /\ msg[r].count > 0 => msg[p].count > 0

\* "check if same DeduplicationID was sent within 5-min window": a FIFO queue
\* never holds two messages of one deduplication id sent within the window,
\* unless a move task put one of them there.
NoDuplicateInWindow ==
    \A q \in setup.fifo : \A p, r \in queue[q] :
        /\ p < r /\ msg[p].dd = msg[r].dd /\ msg[p].dd # NoDedup
        /\ msg[p].id \notin moved /\ msg[r].id \notin moved
        => msg[r].sentAt - msg[p].sentAt >= DedupWindow

\* rejectActiveMoveTask: "SQS allows one active task per source", so a task
\* moves each message once and no queue holds two copies of it (a task moving a
\* queue onto itself aside).  Two tasks that overlap on a source do copy its
\* messages twice (run sqs_double_move).
MovedOnce ==
    \A q \in Queues : \A p, r \in queue[q] :
        p # r /\ msg[p].id = msg[r].id
        => \E m \in Movers : move[m].at # "idle" /\ move[m].src = q
=============================================================================
