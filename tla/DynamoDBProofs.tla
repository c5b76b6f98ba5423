--------------------------- MODULE DynamoDBProofs ---------------------------
(***************************************************************************)
(* One DynamoDB table for every number of keys, write calls, readers,      *)
(* requests, tokens and records: conditional writes, tokens, the change    *)
(* stream, its delivery and its readers.                                   *)
(***************************************************************************)
EXTENDS DynamoDB, TLAPS

(***************************************************************************)
(* Type correctness                                                        *)
(***************************************************************************)

\* A write call's record.
Write == [at : {"idle", "commit", "flush", "deliver"}, plans : Seq(Plan),
          req : Requests \union {<<>>}, tok : Tokens \union {NoToken}, batch : SUBSET (1..seq)]

\* The write call that holds the mutex is the one that commits, and it has a
\* plan left to apply; calls that do not deliver hold no records.
Holder ==
    /\ \A w \in Writers : write[w].at = "commit" <=> mu = w
    /\ \A w \in Writers : write[w].at = "commit" => write[w].plans # <<>>
    /\ \A w \in Writers : write[w].at # "deliver" => write[w].batch = {}

\* The type invariant in parts that an action disturbs one at a time.
TableType ==
    /\ clock \in 0..MaxClock /\ mu \in Writers \union {NoWriter} /\ stream \in BOOLEAN
    /\ made \in 0..MaxWrites /\ raced \subseteq Keys /\ unlogged \subseteq Keys
ItemsType == items \in [Keys -> Item]
SeqType ==
    /\ seq \in Nat /\ pending \subseteq 1..seq /\ after \in 0..seq
    /\ delivered \subseteq 1..seq /\ late \subseteq delivered /\ overlap \in BOOLEAN
    /\ seen \subseteq 1..seq /\ again \subseteq seen /\ missed \subseteq 1..seq
LogType == log \in [Buffer -> Record]
WritesType == write \in [Writers -> Write]
TokensType == tokens \in [Tokens -> [req : Requests \union {<<>>}, at : -1..MaxClock]]
GetsType == get \in [Getters -> [at : {"idle", "expire"}, key : Keys, saw : Item]]
AppliedType == applied \in [Tokens -> SUBSET ((0..made) \X (0..MaxClock))]

LEMMA TypeParts ==
    TypeOK <=> /\ TableType /\ ItemsType /\ SeqType /\ LogType /\ WritesType
               /\ TokensType /\ GetsType /\ AppliedType
BY DEF TypeOK, TableType, ItemsType, SeqType, LogType, WritesType, TokensType, GetsType,
       AppliedType, Write

LEMMA TypeNextParts ==
    ASSUME TableType', ItemsType', SeqType', LogType', WritesType', TokensType', GetsType',
           AppliedType'
    PROVE  TypeOK'
BY DEF TypeOK, TableType, ItemsType, SeqType, LogType, WritesType, TokensType, GetsType,
       AppliedType, Write

\* A part none of whose variables changes keeps its type.
LEMMA TypeKept ==
    ASSUME TypeOK
    PROVE  /\ UNCHANGED <<clock, mu, stream, made, raced, unlogged>> => TableType'
           /\ UNCHANGED items => ItemsType'
           /\ UNCHANGED <<seq, pending, after, delivered, late, overlap, seen, again, missed>>
              => SeqType'
           /\ UNCHANGED <<seq, log>> => LogType'
           /\ UNCHANGED <<seq, write>> => WritesType'
           /\ UNCHANGED tokens => TokensType'
           /\ UNCHANGED get => GetsType'
           /\ UNCHANGED <<made, applied>> => AppliedType'
<1> USE TypeParts
<1>1. UNCHANGED <<clock, mu, stream, made, raced, unlogged>> => TableType'
  BY DEF TableType
<1>2. UNCHANGED items => ItemsType'
  BY DEF ItemsType
<1>3. UNCHANGED <<seq, pending, after, delivered, late, overlap, seen, again, missed>> => SeqType'
  BY DEF SeqType
<1>4. UNCHANGED <<seq, log>> => LogType'
  BY DEF LogType, Buffer, BufferAt
<1>5. UNCHANGED <<seq, write>> => WritesType'
  BY DEF WritesType, Write
<1>6. (UNCHANGED tokens => TokensType') /\ (UNCHANGED get => GetsType')
  BY DEF TokensType, GetsType
<1>7. UNCHANGED <<made, applied>> => AppliedType'
  BY DEF AppliedType
<1> QED
  BY <1>1, <1>2, <1>3, <1>4, <1>5, <1>6, <1>7

LEMMA NoItemType == NoItem \in Item
BY DynamoDBAssumption DEF NoItem, Item

LEMMA IdleTypes ==
    /\ IdleWrite \in Write
    /\ IdleGet \in [at : {"idle", "expire"}, key : Keys, saw : Item]
<1>1. (CHOOSE k \in Keys : TRUE) \in Keys
  BY DynamoDBAssumption
<1>2. <<>> \in Seq(Plan)
  OBVIOUS
<1> QED
  BY <1>1, <1>2, NoItemType DEF IdleWrite, IdleGet, Write

\* The table is empty and its stream enabled.
LEMMA TypeInit == Init => TypeOK /\ Holder
<1> SUFFICES ASSUME Init PROVE TypeOK /\ Holder
  OBVIOUS
<1>1. log \in [Buffer -> Record]
  BY DEF Init, Buffer, BufferAt
<1>2. write \in [Writers -> Write]
  BY IdleTypes DEF Init
<1>3. get \in [Getters -> [at : {"idle", "expire"}, key : Keys, saw : Item]]
  BY IdleTypes DEF Init
<1>4. items \in [Keys -> Item]
  BY NoItemType DEF Init
<1>5. /\ clock \in 0..MaxClock /\ mu \in Writers \union {NoWriter} /\ stream \in BOOLEAN
      /\ seq \in Nat /\ pending \subseteq 1..seq /\ after \in 0..seq /\ made \in 0..MaxWrites
  BY DynamoDBAssumption DEF Init
<1>6. /\ tokens \in [Tokens -> [req : Requests \union {<<>>}, at : -1..MaxClock]]
      /\ applied \in [Tokens -> SUBSET ((0..made) \X (0..MaxClock))]
  BY DynamoDBAssumption DEF Init
<1>7. /\ delivered \subseteq 1..seq /\ late \subseteq delivered /\ overlap \in BOOLEAN
      /\ raced \subseteq Keys /\ unlogged \subseteq Keys
      /\ seen \subseteq 1..seq /\ again \subseteq seen /\ missed \subseteq 1..seq
  BY DEF Init
<1>8. TypeOK
  BY <1>1, <1>2, <1>3, <1>4, <1>5, <1>6, <1>7 DEF TypeOK, Write
<1>9. Holder
  BY DynamoDBAssumption DEF Init, Holder, IdleWrite
<1> QED
  BY <1>8, <1>9

\* What a call plans for an operation.
LEMMA PlanType ==
    ASSUME TypeOK, NEW op \in Ops, made < MaxWrites
    PROVE  PlanOp(op) \in Plan
<1> DEFINE old == items[op.key]
<1>1. old \in Item
  BY DEF TypeOK, Ops
<1>2. /\ [ver |-> made + 1, exp |-> op.exp] \in Item
      /\ [ver |-> made + 1, exp |-> old.exp] \in Item
  BY <1>1, DynamoDBAssumption DEF TypeOK, Ops, Item
<1> QED
  BY <1>1, <1>2, NoItemType DEF PlanOp, Plan, Ops, Present

LEMMA PlansType ==
    ASSUME TypeOK, NEW req \in Requests, made < MaxWrites
    PROVE  /\ [i \in DOMAIN req |-> PlanOp(req[i])] \in Seq(Plan)
           /\ DOMAIN [i \in DOMAIN req |-> PlanOp(req[i])] = DOMAIN req
           /\ [i \in DOMAIN req |-> PlanOp(req[i])] # <<>>
<1> DEFINE plans == [i \in DOMAIN req |-> PlanOp(req[i])]
<1>1. req \in Seq(Ops) /\ req # <<>>
  BY DynamoDBAssumption
<1>2. Len(req) \in Nat /\ DOMAIN req = 1..Len(req) /\ \A i \in 1..Len(req) : req[i] \in Ops
  BY <1>1
<1>3. Len(req) # 0
  BY <1>1
<1>4. plans \in [1..Len(req) -> Plan]
  BY <1>2, PlanType
<1>5. plans \in Seq(Plan) /\ Len(plans) = Len(req)
  BY <1>2, <1>4
<1> QED
  BY <1>2, <1>3, <1>5

\* The fields of a write call.
LEMMA WriteType ==
    ASSUME TypeOK, NEW w \in Writers
    PROVE  /\ write[w] \in Write
           /\ write[w].plans \in Seq(Plan) /\ write[w].batch \subseteq 1..seq
           /\ write[w].req \in Requests \union {<<>>}
           /\ write[w].tok \in Tokens \union {NoToken}
BY DEF TypeOK, Write

\* The plan a committing call applies next.
LEMMA NextPlan ==
    ASSUME TypeOK, Holder, NEW w \in Writers, write[w].at = "commit"
    PROVE  /\ Head(write[w].plans) \in Plan
           /\ Tail(write[w].plans) \in Seq(Plan)
           /\ Len(write[w].plans) \in Nat \ {0}
           /\ DOMAIN write[w].plans = 1..Len(write[w].plans)
           /\ Head(write[w].plans) = write[w].plans[1]
           /\ DOMAIN Tail(write[w].plans) = 1..(Len(write[w].plans) - 1)
           /\ \A i \in DOMAIN Tail(write[w].plans) :
                /\ i + 1 \in DOMAIN write[w].plans
                /\ Tail(write[w].plans)[i] = write[w].plans[i + 1]
<1>1. write[w].plans \in Seq(Plan) /\ write[w].plans # <<>>
  BY WriteType DEF Holder
<1> QED
  BY <1>1

LEMMA PrunedType ==
    ASSUME TypeOK
    PROVE  Pruned \in [Tokens -> [req : Requests \union {<<>>}, at : -1..MaxClock]]
BY DynamoDBAssumption DEF Pruned, TypeOK

\* Replacing one write call's record, while no record is added.
LEMMA WriteUpdate ==
    ASSUME TypeOK, NEW w \in Writers, NEW r \in Write, seq' = seq,
           write' = [write EXCEPT ![w] = r]
    PROVE  write' \in [Writers -> Write]'
BY DEF TypeOK, Write

LEMMA TypeBeginWrite ==
    ASSUME TypeOK, Holder, NEW w \in Writers, NEW req \in Requests,
           NEW t \in Tokens \union {NoToken}, BeginWrite(w, req, t)
    PROVE  TypeOK' /\ Holder'
<1> DEFINE plans == [i \in DOMAIN req |-> PlanOp(req[i])]
           new == [IdleWrite EXCEPT !.at = "commit", !.req = req, !.tok = t, !.plans = plans]
<1>1. plans \in Seq(Plan) /\ plans # <<>>
  BY PlansType DEF BeginWrite
<1>2. new \in Write
  BY <1>1 DEF IdleWrite, Write
<1>3. write' = [write EXCEPT ![w] = new] /\ seq' = seq
  BY DEF BeginWrite, logVars
<1>4. write' \in [Writers -> Write]'
  BY <1>2, <1>3, WriteUpdate
<1>5. tokens' \in [Tokens -> [req : Requests \union {<<>>}, at : -1..MaxClock]]
  BY PrunedType DEF BeginWrite, TypeOK
<1>6. made' \in 0..MaxWrites /\ made' = made + 1 /\ made \in 0..MaxWrites
  BY DynamoDBAssumption DEF BeginWrite, TypeOK
<1>7. applied' \in [Tokens -> SUBSET ((0..made') \X (0..MaxClock))]
  BY <1>6 DEF BeginWrite, TypeOK
<1>8. TypeOK'
  <2>1. TableType'
    BY <1>6, TypeParts DEF BeginWrite, TableType, tableVars, logVars
  <2>2. WritesType' /\ TokensType' /\ AppliedType'
    BY <1>4, <1>5, <1>7 DEF WritesType, TokensType, AppliedType
  <2>3. ItemsType' /\ SeqType' /\ LogType' /\ GetsType'
    BY TypeKept DEF BeginWrite, logVars, readVars, deliveryVars
  <2> QED
    BY <2>1, <2>2, <2>3, TypeNextParts
<1>9. Holder'
  <2>1. new.at = "commit" /\ new.plans = plans /\ new.batch = {}
    BY DEF IdleWrite
  <2>2. \A x \in Writers : write'[x] = IF x = w THEN new ELSE write[x]
    BY <1>3 DEF TypeOK
  <2>3. mu = NoWriter /\ mu' = w /\ NoWriter \notin Writers
    BY DynamoDBAssumption DEF BeginWrite
  <2>4. \A x \in Writers \ {w} : write'[x] = write[x] /\ write[x].at # "commit"
    BY <2>2, <2>3 DEF Holder
  <2>5. /\ write'[w].at = "commit" /\ write'[w].plans = plans /\ write'[w].batch = {}
    BY <2>1, <2>2
  <2> HIDE DEF new, plans
  <2> QED
    BY <1>1, <2>3, <2>4, <2>5 DEF Holder
<1> QED
  BY <1>8, <1>9

LEMMA TypeRefuse ==
    ASSUME TypeOK, Holder, NEW w \in Writers, NEW req \in Requests,
           NEW t \in Tokens \union {NoToken}, RefuseTransact(w, req, t)
    PROVE  TypeOK' /\ Holder'
<1> DEFINE new == [write[w] EXCEPT !.at = "flush"]
<1>1. new \in Write
  BY WriteType DEF Write
<1>2. write' = [write EXCEPT ![w] = new] /\ seq' = seq
  BY DEF RefuseTransact, logVars
<1>3. write' \in [Writers -> Write]'
  BY <1>1, <1>2, WriteUpdate
<1>4. tokens' \in [Tokens -> [req : Requests \union {<<>>}, at : -1..MaxClock]]
  BY PrunedType DEF RefuseTransact, TypeOK
<1>5. TypeOK'
  <2>1. WritesType' /\ TokensType'
    BY <1>3, <1>4 DEF WritesType, TokensType
  <2>2. TableType' /\ ItemsType' /\ SeqType' /\ LogType' /\ GetsType' /\ AppliedType'
    BY TypeKept DEF RefuseTransact, tableVars, logVars, readVars, deliveryVars
  <2> QED
    BY <2>1, <2>2, TypeNextParts
<1>6. Holder'
  <2>1. \A x \in Writers \ {w} : write'[x] = write[x]
    BY <1>2 DEF TypeOK
  <2>2. new.at = "flush" /\ new.batch = write[w].batch
    BY WriteType DEF Write
  <2>3. write'[w].at = "flush" /\ write'[w].batch = write[w].batch
    BY <1>2, <2>2 DEF TypeOK
  <2>4. mu' = mu /\ write[w].at = "idle"
    BY DEF RefuseTransact
  <2> QED
    BY <2>1, <2>3, <2>4 DEF Holder
<1> QED
  BY <1>5, <1>6

\* What a committed plan does to the change records, by the way it ends.
LEMMA RecordTypes ==
    ASSUME TypeOK, NEW p \in Plan, AppendRecord(p)
    PROVE  /\ seq' \in Nat /\ seq <= seq' /\ seq' <= seq + 1
           /\ (log \in [Buffer -> Record])'
           /\ (pending \subseteq 1..seq)' /\ (missed \subseteq 1..seq)'
           /\ unlogged' \subseteq Keys
<1>1. CASE Recorded(p)
  <2>1. seq' = seq + 1 /\ seq \in Nat
    BY <1>1 DEF AppendRecord, TypeOK
  <2>2. RecordOf(p) \in Record
    BY DEF RecordOf, Record, Plan
  <2>3. \A s \in BufferAt(seq + 1) : s <= seq => s \in Buffer
    BY <2>1, DynamoDBAssumption DEF Buffer, BufferAt
  <2>4. log' = [s \in BufferAt(seq + 1) |-> IF s > seq THEN RecordOf(p) ELSE log[s]]
    BY <1>1 DEF AppendRecord
  <2>5. \A s \in BufferAt(seq + 1) : (IF s > seq THEN RecordOf(p) ELSE log[s]) \in Record
    <3>1. \A s \in Buffer : log[s] \in Record
      BY DEF TypeOK
    <3> QED
      BY <2>1, <2>2, <2>3, <3>1 DEF BufferAt
  <2>6. Buffer' = BufferAt(seq + 1)
    BY <2>1 DEF Buffer, BufferAt
  <2>7. (log \in [Buffer -> Record])'
    BY <2>4, <2>5, <2>6
  <2>8. (pending \subseteq 1..seq)' /\ (missed \subseteq 1..seq)'
    <3>1. pending \subseteq 1..seq /\ missed \subseteq 1..seq
      BY DEF TypeOK
    <3>2. pending' = pending \union {seq + 1} /\ missed' \subseteq missed \union Buffer
      BY <1>1 DEF AppendRecord
    <3>3. Buffer \subseteq 1..seq /\ 1..seq \subseteq 1..seq' /\ seq + 1 \in 1..seq'
      BY <2>1 DEF Buffer, BufferAt
    <3> QED
      BY <3>1, <3>2, <3>3
  <2>9. unlogged' \subseteq Keys
    BY <1>1 DEF AppendRecord, TypeOK
  <2> QED
    BY <2>1, <2>7, <2>8, <2>9
<1>2. CASE ~Recorded(p)
  <2>1. UNCHANGED <<seq, log, pending, missed>>
    BY <1>2 DEF AppendRecord
  <2>2. unlogged' \subseteq Keys
    BY <1>2 DEF AppendRecord, TypeOK, Plan
  <2> QED
    BY <2>1, <2>2, TypeParts, TypeKept DEF SeqType, LogType
<1> QED
  BY <1>1, <1>2

LEMMA TypeCommit ==
    ASSUME TypeOK, Holder, NEW w \in Writers, Commit(w)
    PROVE  TypeOK' /\ Holder'
<1> DEFINE p == Head(write[w].plans)
           rest == Tail(write[w].plans)
           t == write[w].tok
<1>1. p \in Plan /\ rest \in Seq(Plan)
  BY NextPlan DEF Commit
<1>2. AppendRecord(p)
  BY DEF Commit
<1>3. /\ seq' \in Nat /\ seq <= seq' /\ LogType' /\ unlogged' \subseteq Keys
      /\ (pending \subseteq 1..seq)' /\ (missed \subseteq 1..seq)'
  BY <1>1, <1>2, RecordTypes DEF LogType
<1>4. 1..seq \subseteq 1..seq' /\ 0..seq \subseteq 0..seq'
  BY <1>3 DEF TypeOK
<1>5. SeqType'
  BY <1>3, <1>4, TypeParts DEF SeqType, Commit, readVars, deliveryVars
<1>6. ItemsType'
  BY <1>1 DEF Commit, TypeOK, ItemsType, Plan
<1>7. TableType'
  <2>1. p.key \in Keys
    BY <1>1 DEF Plan
  <2>2. raced' \subseteq Keys
    BY <2>1 DEF Commit, TypeOK
  <2> QED
    BY <1>3, <2>2 DEF Commit, TypeOK, TableType, tableVars
<1>8. write' = [write EXCEPT ![w].plans = rest]
      \/ write' = [write EXCEPT ![w] = [IdleWrite EXCEPT !.at = "flush"]]
  BY DEF Commit
<1>9. WritesType'
  <2>0. Write \subseteq Write'
    BY <1>4 DEF Write
  <2>1. \A x \in Writers : write[x] \in Write'
    BY <2>0, WriteType
  <2>2. [write[w] EXCEPT !.plans = rest] \in Write'
    BY <1>1, <2>1 DEF Write
  <2>3. [IdleWrite EXCEPT !.at = "flush"] \in Write'
    BY <2>0, IdleTypes DEF Write
  <2>4. write \in [Writers -> Write']
    BY <2>1 DEF TypeOK
  <2>5. ASSUME NEW r \in Write' PROVE [write EXCEPT ![w] = r] \in [Writers -> Write']
    BY <2>4
  <2>6. write' \in [Writers -> Write']
    BY <1>8, <2>2, <2>3, <2>5
  <2> QED
    BY <2>6 DEF WritesType
<1>10. TokensType'
  <2>1. clock \in -1..MaxClock /\ write[w].req \in Requests \union {<<>>}
    BY WriteType DEF TypeOK
  <2>2. \/ tokens' = tokens
        \/ t # NoToken /\ tokens' = [tokens EXCEPT ![t] = [req |-> write[w].req, at |-> clock]]
    BY DEF Commit, RememberToken
  <2>3. CASE t # NoToken /\ tokens' = [tokens EXCEPT ![t] = [req |-> write[w].req, at |-> clock]]
    <3>1. t \in Tokens
      BY <2>3, WriteType
    <3>2. [req |-> write[w].req, at |-> clock] \in [req : Requests \union {<<>>}, at : -1..MaxClock]
      BY <2>1
    <3> QED
      BY <2>3, <3>1, <3>2 DEF TypeOK, TokensType
  <2> QED
    BY <2>2, <2>3, TypeKept
<1>11. AppliedType' /\ GetsType'
  <2>1. made' = made /\ get' = get
    BY DEF Commit
  <2>2. applied' = applied \/ applied' = [applied EXCEPT ![t] = @ \union {<<made, clock>>}]
    BY DEF Commit
  <2>3. CASE applied' = applied
    BY <2>1, <2>3, TypeKept
  <2>4. CASE t # NoToken /\ applied' = [applied EXCEPT ![t] = @ \union {<<made, clock>>}]
    <3>1. t \in Tokens /\ <<made, clock>> \in (0..made) \X (0..MaxClock)
      BY <2>4, WriteType DEF TypeOK
    <3>2. applied[t] \union {<<made, clock>>} \in SUBSET ((0..made) \X (0..MaxClock))
      BY <3>1 DEF TypeOK
    <3> QED
      BY <2>1, <2>4, <3>1, <3>2, TypeKept DEF TypeOK, AppliedType
  <2> QED
    BY <2>2, <2>3, <2>4 DEF Commit
<1>12. Holder'
  <2>1. CASE rest # <<>> /\ write' = [write EXCEPT ![w].plans = rest] /\ mu' = mu
    BY <2>1 DEF Commit, Holder, TypeOK
  <2>2. CASE write' = [write EXCEPT ![w] = [IdleWrite EXCEPT !.at = "flush"]] /\ mu' = NoWriter
    <3>1. mu = w
      BY DEF Commit, Holder
    <3>2. \A x \in Writers \ {w} : write'[x] = write[x] /\ write[x].at # "commit"
      BY <2>2, <3>1 DEF Holder, TypeOK
    <3>3. write'[w].at = "flush" /\ write'[w].batch = {}
      BY <2>2 DEF TypeOK, IdleWrite
    <3> QED
      BY <2>2, <3>2, <3>3, DynamoDBAssumption DEF Holder
  <2> QED
    BY <2>1, <2>2 DEF Commit
<1> QED
  BY <1>3, <1>5, <1>6, <1>7, <1>9, <1>10, <1>11, <1>12, TypeNextParts

LEMMA TypeFlush ==
    ASSUME TypeOK, Holder, NEW w \in Writers, FlushStreamDeliveries(w)
    PROVE  TypeOK' /\ Holder'
<1> DEFINE new == [write[w] EXCEPT !.at = IF pending = {} THEN "idle" ELSE "deliver",
                                   !.batch = pending]
<1>1. pending \subseteq 1..seq
  BY DEF TypeOK
<1>2. new \in Write
  BY <1>1, WriteType DEF Write
<1>3. write' = [write EXCEPT ![w] = new] /\ seq' = seq
  BY DEF FlushStreamDeliveries
<1>4. WritesType'
  BY <1>2, <1>3, WriteUpdate DEF WritesType
<1>5. SeqType'
  BY TypeParts DEF FlushStreamDeliveries, SeqType, readVars
<1>6. TableType' /\ ItemsType' /\ LogType' /\ TokensType' /\ GetsType' /\ AppliedType'
  BY TypeKept DEF FlushStreamDeliveries, tableVars, callVars
<1>7. Holder'
  <2>1. \A x \in Writers : write'[x] = IF x = w THEN new ELSE write[x]
    BY <1>3 DEF TypeOK
  <2>2. new.at = (IF pending = {} THEN "idle" ELSE "deliver") /\ new.batch = pending
    BY WriteType DEF Write
  <2> HIDE DEF new
  <2> QED
    BY <2>1, <2>2, DynamoDBAssumption DEF FlushStreamDeliveries, Holder
<1> QED
  BY <1>4, <1>5, <1>6, <1>7, TypeNextParts

LEMMA TypeDeliver ==
    ASSUME TypeOK, Holder, NEW w \in Writers, Deliver(w)
    PROVE  TypeOK' /\ Holder'
<1>1. write' = [write EXCEPT ![w] = IdleWrite] /\ seq' = seq
  BY DEF Deliver, logVars
<1>2. WritesType'
  BY <1>1, IdleTypes, WriteUpdate DEF WritesType
<1>3. SeqType'
  BY WriteType, TypeParts DEF Deliver, SeqType, readVars, logVars
<1>4. /\ TableType' /\ ItemsType' /\ LogType' /\ TokensType' /\ GetsType' /\ AppliedType'
  BY TypeKept DEF Deliver, tableVars, callVars, logVars
<1>5. Holder'
  <2>1. \A x \in Writers : write'[x] = IF x = w THEN IdleWrite ELSE write[x]
    BY <1>1 DEF TypeOK
  <2>2. mu' = mu /\ mu # w /\ IdleWrite.at = "idle" /\ IdleWrite.batch = {}
    BY DEF Deliver, Holder, IdleWrite
  <2> QED
    BY <2>1, <2>2 DEF Holder
<1> QED
  BY <1>2, <1>3, <1>4, <1>5, TypeNextParts

\* GetItem, GetRecords, the stream's configuration and time.
LEMMA TypeGetItem ==
    ASSUME TypeOK, Holder, NEW g \in Getters, NEW k \in Keys, GetItem(g, k)
    PROVE  TypeOK' /\ Holder'
<1>1. [at |-> "expire", key |-> k, saw |-> items[k]]
      \in [at : {"idle", "expire"}, key : Keys, saw : Item]
  BY DEF TypeOK
<1>2. GetsType'
  BY <1>1 DEF GetItem, GetsType, TypeOK
<1>3. /\ TableType' /\ ItemsType' /\ SeqType' /\ LogType' /\ WritesType' /\ TokensType'
      /\ AppliedType'
  BY TypeKept DEF GetItem, tableVars, logVars, readVars, deliveryVars, callVars
<1>4. Holder'
  BY DEF Holder, GetItem
<1> QED
  BY <1>2, <1>3, <1>4, TypeNextParts

LEMMA TypeRemoveExpired ==
    ASSUME TypeOK, Holder, NEW g \in Getters, RemoveExpired(g)
    PROVE  TypeOK' /\ Holder'
<1>1. get[g].key \in Keys
  BY DEF TypeOK
<1>2. ItemsType' /\ GetsType'
  BY IdleTypes, NoItemType DEF RemoveExpired, ItemsType, GetsType, TypeOK
<1>3. TableType'
  BY <1>1 DEF RemoveExpired, TypeOK, TableType, tableVars, callVars, logVars
<1>4. SeqType' /\ LogType' /\ WritesType' /\ TokensType' /\ AppliedType'
  BY TypeKept DEF RemoveExpired, logVars, readVars, deliveryVars, callVars
<1>5. Holder'
  BY DEF Holder, RemoveExpired
<1> QED
  BY <1>2, <1>3, <1>4, <1>5, TypeNextParts

\* The clock and the stream's configuration concern TableType alone.
LEMMA TypeTable ==
    ASSUME TypeOK, Holder, UpdateStreamConfig \/ Tick
    PROVE  TypeOK' /\ Holder'
<1>1. stream' \in BOOLEAN
  BY DEF UpdateStreamConfig, Tick, TypeOK
<1>2. clock' \in 0..MaxClock
  BY DynamoDBAssumption DEF UpdateStreamConfig, Tick, TypeOK
<1>3. TableType'
  BY <1>1, <1>2 DEF UpdateStreamConfig, Tick, TypeOK, TableType, callVars, logVars
<1>4. /\ ItemsType' /\ SeqType' /\ LogType' /\ WritesType' /\ TokensType' /\ GetsType'
      /\ AppliedType'
  BY TypeKept DEF UpdateStreamConfig, Tick, logVars, readVars, deliveryVars, callVars
<1>5. Holder'
  BY DEF Holder, UpdateStreamConfig, Tick
<1> QED
  BY <1>3, <1>4, <1>5, TypeNextParts

\* The page GetRecords reads is a run of the buffer that begins behind the
\* reader's position, or with the oldest record kept.
LEMMA PageRun ==
    ASSUME TypeOK, NEW limit \in Limits, Least(FilterStreamRecords, limit) # {}
    PROVE  \E lo, hi \in 1..seq :
             /\ lo <= hi /\ Least(FilterStreamRecords, limit) = lo..hi
             /\ lo > after
             /\ \A s \in 1..seq : s > after /\ s < lo => s \notin Buffer
             /\ hi = (CHOOSE s \in Least(FilterStreamRecords, limit) :
                        \A x \in Least(FilterStreamRecords, limit) : s >= x)
<1> DEFINE S == FilterStreamRecords
           first == IF seq > MaxRecords THEN seq - MaxRecords + 1 ELSE 1
           lo == IF after \in Buffer THEN after + 1 ELSE first
           hi == IF lo + limit - 1 <= seq THEN lo + limit - 1 ELSE seq
<1>1. seq \in Nat /\ after \in 0..seq /\ MaxRecords \in Nat \ {0} /\ limit \in Nat \ {0}
  BY DynamoDBAssumption DEF TypeOK
<1>2. Buffer = first..seq /\ first \in Nat \ {0}
  BY <1>1 DEF Buffer, BufferAt
<1>3. S = lo..seq /\ lo \in Nat \ {0}
  <2>1. CASE after \in Buffer
    <3>1. S = {s \in first..seq : s > after} /\ lo = after + 1 /\ after >= first
      BY <1>1, <1>2, <2>1 DEF FilterStreamRecords
    <3> HIDE DEF S, lo, first
    <3> QED
      BY <1>1, <1>2, <3>1
  <2>2. CASE after \notin Buffer
    BY <1>2, <2>2 DEF FilterStreamRecords
  <2> QED
    BY <2>1, <2>2
<1>4. S # {}
  BY DEF Least
<1>5. lo \in 1..seq
  BY <1>1, <1>3, <1>4
<1>6. lo > after /\ \A s \in 1..seq : s > after /\ s < lo => s \notin Buffer
  BY <1>1, <1>2, <1>5
<1>7. (CHOOSE l \in S : \A x \in S : l <= x) = lo
  <2> HIDE DEF S, lo
  <2>1. lo \in S /\ \A x \in S : lo <= x
    BY <1>1, <1>3, <1>5
  <2>2. ASSUME NEW l \in S, \A x \in S : l <= x PROVE l = lo
    BY <1>1, <1>3, <1>5, <2>1, <2>2
  <2> QED
    BY <2>1, <2>2
<1>8. Least(S, limit) = {s \in S : \E m \in 0..limit - 1 : s = m + lo}
  BY <1>7 DEF Least
<1>9. Least(S, limit) = lo..hi /\ hi \in lo..seq
  <2> HIDE DEF S, lo
  <2>1. ASSUME NEW s \in lo..hi PROVE s \in S /\ \E m \in 0..limit - 1 : s = m + lo
    <3>1. s - lo \in 0..limit - 1 /\ s = (s - lo) + lo /\ s \in lo..seq
      BY <1>1, <1>5
    <3> QED
      BY <1>3, <3>1
  <2>2. ASSUME NEW s \in S, NEW m \in 0..limit - 1, s = m + lo PROVE s \in lo..hi
    BY <1>1, <1>3, <1>5, <2>2
  <2>3. hi \in lo..seq
    BY <1>1, <1>5
  <2> HIDE DEF hi
  <2> QED
    BY <1>8, <2>1, <2>2, <2>3
<1>10. (CHOOSE s \in lo..hi : \A x \in lo..hi : s >= x) = hi
  <2> HIDE DEF hi, lo
  <2>1. hi \in lo..hi /\ \A x \in lo..hi : hi >= x
    BY <1>1, <1>5, <1>9
  <2>2. ASSUME NEW s \in lo..hi, \A x \in lo..hi : s >= x PROVE s = hi
    BY <1>1, <1>5, <1>9, <2>1, <2>2
  <2> QED
    BY <2>1, <2>2
<1> HIDE DEF lo, hi
<1> QED
  BY <1>1, <1>5, <1>6, <1>9, <1>10

LEMMA TypeGetRecords ==
    ASSUME TypeOK, Holder, NEW limit \in Limits, GetRecords(limit)
    PROVE  TypeOK' /\ Holder'
<1> DEFINE page == Least(FilterStreamRecords, limit)
<1>1. PICK lo \in 1..seq, hi \in 1..seq :
        page = lo..hi /\ hi = (CHOOSE s \in page : \A x \in page : s >= x)
  BY PageRun DEF GetRecords
<1>2. page \subseteq 1..seq /\ after' = hi
  <2>1. after' = (CHOOSE s \in page : \A x \in page : s >= x)
    BY DEF GetRecords
  <2>2. seq \in Nat
    BY DEF TypeOK
  <2>3. after' = hi
    BY <1>1, <2>1
  <2>4. lo..hi \subseteq 1..seq
    BY <2>2
  <2> QED
    BY <1>1, <2>3, <2>4
<1> HIDE DEF page
<1>3. seen' = seen \union page /\ again' = again \union (page \intersect seen)
  BY DEF GetRecords, page
<1>4. SeqType'
  <2>1. UNCHANGED <<seq, pending, delivered, late, overlap, missed>>
    BY DEF GetRecords, logVars, deliveryVars
  <2> QED
    BY <1>1, <1>2, <1>3, <2>1, TypeParts DEF SeqType
<1>5. /\ TableType' /\ ItemsType' /\ LogType' /\ WritesType' /\ TokensType' /\ GetsType'
      /\ AppliedType'
  BY TypeKept DEF GetRecords, tableVars, logVars, callVars
<1>6. Holder'
  BY DEF Holder, GetRecords
<1> QED
  BY <1>4, <1>5, <1>6, TypeNextParts

\* A stuttering step.
LEMMA TypeStutter ==
    ASSUME TypeOK, Holder, UNCHANGED vars
    PROVE  TypeOK' /\ Holder'
<1>1. /\ TableType' /\ ItemsType' /\ SeqType' /\ LogType' /\ WritesType' /\ TokensType'
      /\ GetsType' /\ AppliedType'
  BY TypeKept DEF vars, tableVars, logVars, readVars, deliveryVars, callVars
<1>2. Holder'
  BY DEF Holder, vars
<1> QED
  BY <1>1, <1>2, TypeNextParts

\* Every step keeps the types.
LEMMA TypeNext == TypeOK /\ Holder /\ [Next]_vars => TypeOK' /\ Holder'
BY TypeBeginWrite, TypeRefuse, TypeCommit, TypeFlush, TypeDeliver, TypeGetItem,
   TypeRemoveExpired, TypeTable, TypeGetRecords, TypeStutter DEF Next

\* The type invariant: in particular the buffer holds the last MaxRecords change
\* records and no other.
THEOREM TypeCorrect == Spec => []TypeOK
<1>1. Init => TypeOK /\ Holder
  BY TypeInit
<1>2. (TypeOK /\ Holder) /\ [Next]_vars => (TypeOK /\ Holder)'
  BY TypeNext
<1> QED
  BY <1>1, <1>2, PTL DEF Spec

(***************************************************************************)
(* Delivery                                                                *)
(***************************************************************************)

\* As long as no two calls have held records at once, one call holds records at
\* most, they follow the delivered ones, and the pending ones follow them.
Ordered ==
    ~overlap =>
      /\ late = {}
      /\ \A d \in delivered, p \in pending : d < p
      /\ \A w \in Writers : write[w].at = "deliver" =>
           /\ \A x \in Writers : write[x].at = "deliver" => x = w
           /\ \A d \in delivered, s \in write[w].batch : d < s
           /\ \A s \in write[w].batch, p \in pending : s < p

Delivering == {w \in Writers : write[w].at = "deliver"}

\* DeliveredOnce, record by record.
Accounted ==
    /\ \A s \in 1..seq : \/ s \in pending \/ s \in delivered
                         \/ \E w \in Delivering : s \in write[w].batch
    /\ \A s \in pending : s \notin delivered
    /\ \A w \in Delivering : \A s \in write[w].batch : s \notin pending /\ s \notin delivered
    /\ \A w, x \in Delivering : w # x => \A s \in write[w].batch : s \notin write[x].batch
    /\ pending # {} => \E w \in Writers : write[w].at \in {"commit", "flush"}

LEMMA AccountedMeans == TypeOK /\ Accounted => DeliveredOnce
<1> SUFFICES ASSUME TypeOK, Accounted PROVE DeliveredOnce
  OBVIOUS
<1>1. pending \union delivered \union UNION {write[w].batch : w \in Delivering} = 1..seq
  <2>1. \A w \in Writers : write[w].batch \subseteq 1..seq
    BY WriteType
  <2>2. pending \subseteq 1..seq /\ delivered \subseteq 1..seq
    BY DEF TypeOK
  <2>3. UNION {write[w].batch : w \in Delivering} \subseteq 1..seq
    BY <2>1 DEF Delivering
  <2>4. ASSUME NEW s \in 1..seq
        PROVE  s \in pending \/ s \in delivered \/ s \in UNION {write[w].batch : w \in Delivering}
    BY DEF Accounted
  <2> QED
    BY <2>2, <2>3, <2>4
<1>2. pending \intersect delivered = {}
  BY DEF Accounted
<1>3. \A w \in Delivering : write[w].batch \intersect (pending \union delivered) = {}
  BY DEF Accounted
<1>4. \A w, x \in Delivering : w # x => write[w].batch \intersect write[x].batch = {}
  BY DEF Accounted
<1>5. pending # {} => \E w \in Writers : write[w].at \in {"commit", "flush"}
  BY DEF Accounted
<1> QED
  BY <1>1, <1>2, <1>3, <1>4, <1>5 DEF DeliveredOnce, Delivering

Delivery == Accounted /\ Ordered

LEMMA DeliveryInit == Init => Delivery
BY DEF Init, Delivery, Accounted, Ordered, Delivering, IdleWrite

\* A step that leaves the calls' records, the pending and the delivered ones alone.
LEMMA DeliveryKept ==
    ASSUME Delivery, UNCHANGED <<write, seq, pending, delivered, late, overlap>>
    PROVE  Delivery'
BY DEF Delivery, Accounted, Ordered, Delivering

\* A call that starts or is refused holds nothing yet.
LEMMA DeliveryStart ==
    ASSUME TypeOK, Holder, Delivery, NEW w \in Writers, write[w].at = "idle",
           NEW r \in Write, r.at \in {"commit", "flush"}, write' = [write EXCEPT ![w] = r],
           UNCHANGED <<seq, pending, delivered, late, overlap>>
    PROVE  Delivery'
<1>1. \A x \in Writers : write'[x] = IF x = w THEN r ELSE write[x]
  BY DEF TypeOK
<1>2. Delivering' = Delivering /\ \A x \in Delivering : write'[x] = write[x]
  BY <1>1 DEF Delivering
<1>3. Accounted'
  BY <1>1, <1>2 DEF Delivery, Accounted
<1>4. Ordered'
  BY <1>1 DEF Delivery, Ordered
<1> QED
  BY <1>3, <1>4 DEF Delivery

\* A new record follows every other.
LEMMA DeliveryCommit ==
    ASSUME TypeOK, Holder, Delivery, NEW w \in Writers, Commit(w)
    PROVE  Delivery'
<1> DEFINE p == Head(write[w].plans)
<1>1. /\ p \in Plan /\ AppendRecord(p) /\ write[w].at = "commit"
      /\ UNCHANGED <<delivered, late, overlap>>
  BY NextPlan DEF Commit, deliveryVars
<1>2. /\ \A x \in Writers \ {w} : write'[x] = write[x]
      /\ write'[w].at \in {"commit", "flush"}
  BY WriteType DEF Commit, TypeOK, IdleWrite, Write
<1>3. Delivering' = Delivering /\ \A x \in Delivering : write'[x] = write[x]
  BY <1>1, <1>2 DEF Delivering
<1>4. \/ seq' = seq /\ pending' = pending
      \/ seq' = seq + 1 /\ pending' = pending \union {seq + 1}
  BY <1>1 DEF AppendRecord
<1>5. /\ seq \in Nat /\ pending \subseteq 1..seq /\ delivered \subseteq 1..seq
      /\ \A x \in Writers : write[x].batch \subseteq 1..seq
  BY WriteType DEF TypeOK
<1>6. Accounted'
  <2>1. \A s \in (1..seq)' : s \in 1..seq \/ s \in pending'
    BY <1>4, <1>5
  <2>2. \A s \in pending' : s \in pending \/ s \notin 1..seq
    BY <1>4, <1>5
  <2>3. pending \subseteq pending'
    BY <1>4
  <2> QED
    BY <1>1, <1>2, <1>3, <1>5, <2>1, <2>2, <2>3 DEF Delivery, Accounted, Delivering
<1>7. Ordered'
  <2>1. \A s \in pending' : s \in pending \/ \A d \in 1..seq : d < s
    BY <1>4, <1>5
  <2>2. \A x \in Writers : write'[x].at = "deliver" => x \in Writers \ {w}
    BY <1>2
  <2> HIDE DEF p
  <2> QED
    BY <1>1, <1>2, <1>5, <2>1, <2>2 DEF Delivery, Ordered
<1> QED
  BY <1>6, <1>7 DEF Delivery

\* A call takes every pending record.
LEMMA DeliveryFlush ==
    ASSUME TypeOK, Holder, Delivery, NEW w \in Writers, FlushStreamDeliveries(w)
    PROVE  Delivery'
<1>1. /\ write[w].at = "flush" /\ pending' = {} /\ UNCHANGED <<seq, delivered, late>>
      /\ overlap' = (overlap \/ (pending # {} /\ Delivering # {}))
  BY DEF FlushStreamDeliveries, Delivering
<1>2. /\ \A x \in Writers \ {w} : write'[x] = write[x]
      /\ write'[w].at = (IF pending = {} THEN "idle" ELSE "deliver")
      /\ write'[w].batch = pending
  BY WriteType DEF FlushStreamDeliveries, TypeOK, Write
<1>3. CASE pending = {}
  <2>1. Delivering' = Delivering /\ \A x \in Delivering : write'[x] = write[x]
    BY <1>1, <1>2, <1>3 DEF Delivering
  <2>2. Accounted'
    BY <1>1, <1>3, <2>1 DEF Delivery, Accounted
  <2>3. Ordered'
    BY <1>1, <1>2, <1>3 DEF Delivery, Ordered
  <2> QED
    BY <2>2, <2>3 DEF Delivery
<1>4. CASE pending # {}
  <2>1. /\ Delivering' = Delivering \union {w} /\ w \notin Delivering
        /\ \A x \in Delivering : write'[x] = write[x]
    BY <1>1, <1>2, <1>4 DEF Delivering
  <2>2. Accounted'
    BY <1>1, <1>2, <2>1 DEF Delivery, Accounted
  <2>3. ASSUME ~overlap' PROVE ~overlap /\ Delivering = {}
    BY <1>1, <1>4, <2>3
  <2>4. Ordered'
    BY <1>1, <1>2, <1>4, <2>3 DEF Delivery, Ordered, Delivering
  <2> QED
    BY <2>2, <2>4 DEF Delivery
<1> QED
  BY <1>3, <1>4

\* A call delivers what it holds.
LEMMA DeliveryDeliver ==
    ASSUME TypeOK, Holder, Delivery, NEW w \in Writers, Deliver(w)
    PROVE  Delivery'
<1>1. /\ write[w].at = "deliver" /\ delivered' = delivered \union write[w].batch
      /\ late' = late \union {s \in write[w].batch : \E r \in delivered : r > s}
      /\ UNCHANGED <<seq, pending, overlap>>
  BY DEF Deliver, logVars
<1>2. /\ \A x \in Writers \ {w} : write'[x] = write[x]
      /\ write'[w].at = "idle"
  BY DEF Deliver, TypeOK, IdleWrite
<1>3. /\ Delivering' = Delivering \ {w} /\ w \in Delivering
      /\ \A x \in Delivering \ {w} : write'[x] = write[x]
  BY <1>1, <1>2 DEF Delivering
<1>4. Accounted'
  <2>1. \A s \in (1..seq)' : \/ s \in pending' \/ s \in delivered'
                             \/ \E x \in Delivering' : s \in write'[x].batch
    BY <1>1, <1>3 DEF Delivery, Accounted
  <2>2. \A s \in pending' : s \notin delivered'
    BY <1>1, <1>3 DEF Delivery, Accounted
  <2>3. \A x \in Delivering' : \A s \in write'[x].batch : s \notin pending' /\ s \notin delivered'
    BY <1>1, <1>3 DEF Delivery, Accounted
  <2>4. \A x, y \in Delivering' : x # y => \A s \in write'[x].batch : s \notin write'[y].batch
    BY <1>1, <1>3 DEF Delivery, Accounted
  <2>5. pending' # {} => \E x \in Writers : write'[x].at \in {"commit", "flush"}
    BY <1>1, <1>2 DEF Delivery, Accounted
  <2> QED
    BY <2>1, <2>2, <2>3, <2>4, <2>5 DEF Accounted
<1>5. Ordered'
  <2> SUFFICES ASSUME ~overlap
               PROVE  /\ late' = {}
                      /\ \A d \in delivered', p \in pending' : d < p
                      /\ \A x \in Writers : write'[x].at # "deliver"
    BY <1>1 DEF Ordered
  <2>1. /\ late = {} /\ \A d \in delivered, p \in pending : d < p
        /\ \A x \in Writers : write[x].at = "deliver" => x = w
        /\ \A d \in delivered, s \in write[w].batch : d < s
        /\ \A s \in write[w].batch, p \in pending : s < p
    BY <1>1 DEF Delivery, Ordered
  <2>2. \A s \in write[w].batch : ~\E r \in delivered : r > s
    <3>1. write[w].batch \subseteq Int /\ delivered \subseteq Int
      BY WriteType DEF TypeOK
    <3> QED
      BY <2>1, <3>1
  <2> QED
    BY <1>1, <1>2, <2>1, <2>2
<1> QED
  BY <1>4, <1>5 DEF Delivery

LEMMA DeliveryNext == TypeOK /\ Holder /\ Delivery /\ [Next]_vars => Delivery'
<1> SUFFICES ASSUME TypeOK, Holder, Delivery, [Next]_vars PROVE Delivery'
  OBVIOUS
<1>1. ASSUME NEW w \in Writers, NEW req \in Requests, NEW t \in Tokens \union {NoToken},
             BeginWrite(w, req, t)
      PROVE  Delivery'
  <2> DEFINE new == [IdleWrite EXCEPT !.at = "commit", !.req = req, !.tok = t,
                                      !.plans = [i \in DOMAIN req |-> PlanOp(req[i])]]
  <2>1. new \in Write /\ new.at = "commit"
    BY <1>1, PlansType DEF BeginWrite, IdleWrite, Write
  <2>2. /\ write' = [write EXCEPT ![w] = new] /\ write[w].at = "idle"
        /\ UNCHANGED <<seq, pending, delivered, late, overlap>>
    BY <1>1 DEF BeginWrite, logVars, deliveryVars
  <2> HIDE DEF new
  <2> QED
    BY <2>1, <2>2, DeliveryStart
<1>2. ASSUME NEW w \in Writers, NEW req \in Requests, NEW t \in Tokens \union {NoToken},
             RefuseTransact(w, req, t)
      PROVE  Delivery'
  <2> DEFINE new == [write[w] EXCEPT !.at = "flush"]
  <2>1. new \in Write /\ new.at = "flush"
    BY WriteType DEF Write
  <2>2. /\ write' = [write EXCEPT ![w] = new] /\ write[w].at = "idle"
        /\ UNCHANGED <<seq, pending, delivered, late, overlap>>
    BY <1>2 DEF RefuseTransact, logVars, deliveryVars
  <2> HIDE DEF new
  <2> QED
    BY <2>1, <2>2, DeliveryStart
<1>3. ASSUME NEW w \in Writers, Commit(w) \/ FlushStreamDeliveries(w) \/ Deliver(w)
      PROVE  Delivery'
  BY <1>3, DeliveryCommit, DeliveryFlush, DeliveryDeliver
<1>4. ASSUME \/ \E g \in Getters : RemoveExpired(g) \/ \E k \in Keys : GetItem(g, k)
             \/ \E n \in Limits : GetRecords(n)
             \/ UpdateStreamConfig \/ Tick \/ UNCHANGED vars
      PROVE  Delivery'
  <2>1. UNCHANGED <<write, seq, pending, delivered, late, overlap>>
    BY <1>4 DEF RemoveExpired, GetItem, GetRecords, UpdateStreamConfig, Tick, vars, logVars,
                deliveryVars
  <2> QED
    BY <2>1, DeliveryKept
<1> QED
  BY <1>1, <1>2, <1>3, <1>4 DEF Next

\* Every change record is delivered to Lambda once: it is pending, held by one
\* call or delivered, and a pending record always has a call that will drain it.
THEOREM DeliversOnce == Spec => []DeliveredOnce
<1>1. Init => TypeOK /\ Holder /\ Delivery
  BY TypeInit, DeliveryInit
<1>2. (TypeOK /\ Holder /\ Delivery) /\ [Next]_vars => (TypeOK /\ Holder /\ Delivery)'
  BY TypeNext, DeliveryNext
<1>3. TypeOK /\ Holder /\ Delivery => DeliveredOnce
  BY AccountedMeans DEF Delivery
<1> QED
  BY <1>1, <1>2, <1>3, PTL DEF Spec

\* Lambda receives the records in the order of the writes unless two calls have
\* had records to deliver at the same time.
THEOREM DeliversInOrder == Spec => []InOrderUnlessOverlap
<1>1. Init => TypeOK /\ Holder /\ Delivery
  BY TypeInit, DeliveryInit
<1>2. (TypeOK /\ Holder /\ Delivery) /\ [Next]_vars => (TypeOK /\ Holder /\ Delivery)'
  BY TypeNext, DeliveryNext
<1>3. TypeOK /\ Holder /\ Delivery => InOrderUnlessOverlap
  BY DEF TypeOK, Delivery, Ordered, InOrderUnlessOverlap
<1> QED
  BY <1>1, <1>2, <1>3, PTL DEF Spec

(***************************************************************************)
(* Conditional writes                                                      *)
(***************************************************************************)

\* What the plans of a committing call are.
GoodPlan(p) ==
    /\ p.kind \in {"put", "update"} => Present(p.new)
    /\ p.kind = "delete" => p.new = NoItem /\ (p.hadOld <=> Present(p.old))

\* A plan's item has not changed since the conditions were evaluated, or GetItem
\* has removed it.
StillCurrent(p) == items[p.key] = p.old \/ ~Present(items[p.key])

Planned ==
    \A w \in Writers : write[w].at = "commit" =>
        /\ \A i, j \in DOMAIN write[w].plans :
             write[w].plans[i].key = write[w].plans[j].key => i = j
        /\ \A i \in DOMAIN write[w].plans :
             GoodPlan(write[w].plans[i]) /\ StillCurrent(write[w].plans[i])

\* An absent item has no TTL attribute.
Clean == \A k \in Keys : ~Present(items[k]) => items[k] = NoItem

Current == Planned /\ Clean

LEMMA CurrentInit == Init => Current
BY DEF Init, Current, Planned, Clean, IdleWrite

\* A step that changes neither the items nor a call's plans.
LEMMA CurrentKept ==
    ASSUME Current, items' = items,
           \A w \in Writers : write'[w].at = "commit" => write'[w] = write[w]
    PROVE  Current'
BY DEF Current, Planned, Clean, GoodPlan, StillCurrent, Present

\* A call plans on the items it evaluated its conditions on.
LEMMA CurrentBegin ==
    ASSUME TypeOK, Holder, Current, NEW w \in Writers, NEW req \in Requests,
           NEW t \in Tokens \union {NoToken}, BeginWrite(w, req, t)
    PROVE  Current'
<1> DEFINE plans == [i \in DOMAIN req |-> PlanOp(req[i])]
           new == [IdleWrite EXCEPT !.at = "commit", !.req = req, !.tok = t, !.plans = plans]
<1>1. /\ write' = [write EXCEPT ![w] = new] /\ items' = items
      /\ mu = NoWriter /\ made < MaxWrites
  BY DEF BeginWrite
<1>2. new.plans = plans
  BY DEF IdleWrite
<1>3. \A x \in Writers : write'[x] = IF x = w THEN new ELSE write[x]
  BY <1>1 DEF TypeOK
<1>4. \A x \in Writers \ {w} : write'[x].at # "commit"
  <2>1. NoWriter \notin Writers
    BY DynamoDBAssumption
  <2>2. \A x \in Writers : write[x].at # "commit"
    BY <1>1, <2>1 DEF Holder
  <2> HIDE DEF new
  <2> QED
    BY <1>3, <2>2
<1>5. req \in Seq(Ops) /\ \A i, j \in DOMAIN req : req[i].key = req[j].key => i = j
  BY DynamoDBAssumption
<1>6. \A i \in DOMAIN req : req[i] \in Ops
  BY <1>5
<1>7. ASSUME NEW op \in Ops
      PROVE  /\ PlanOp(op).key = op.key /\ PlanOp(op).old = items[op.key]
             /\ GoodPlan(PlanOp(op))
  <2>1. made + 1 # 0
    BY DEF TypeOK
  <2>2. op.kind = "delete" => PlanOp(op).new = NoItem /\ (PlanOp(op).hadOld <=> Present(items[op.key]))
    BY DEF PlanOp
  <2>3. op.kind \in {"put", "update"} => PlanOp(op).new.ver = made + 1
    BY DEF PlanOp
  <2> QED
    BY <2>1, <2>2, <2>3 DEF PlanOp, GoodPlan, Present
<1>8. /\ DOMAIN plans = DOMAIN req
      /\ \A i \in DOMAIN plans : plans[i] = PlanOp(req[i])
  OBVIOUS
<1> HIDE DEF new, plans
<1>9. Planned'
  <2>1. /\ \A i, j \in DOMAIN plans : plans[i].key = plans[j].key => i = j
        /\ \A i \in DOMAIN plans : GoodPlan(plans[i])
        /\ \A i \in DOMAIN plans : items[plans[i].key] = plans[i].old
    BY <1>5, <1>6, <1>7, <1>8
  <2> QED
    BY <1>1, <1>2, <1>3, <1>4, <2>1 DEF Planned, StillCurrent, GoodPlan, Present
<1>10. Clean'
  BY <1>1 DEF Current, Clean, Present
<1> QED
  BY <1>9, <1>10 DEF Current

\* The rest of a call's plans are about other keys.
LEMMA CurrentCommit ==
    ASSUME TypeOK, Holder, Current, NEW w \in Writers, Commit(w)
    PROVE  Current'
<1> DEFINE plans == write[w].plans
           p == Head(plans)
           rest == Tail(plans)
<1>1. /\ p \in Plan /\ p = plans[1] /\ 1 \in DOMAIN plans
      /\ \A i \in DOMAIN rest : i \in Nat \ {0} /\ i + 1 \in DOMAIN plans /\ rest[i] = plans[i + 1]
  BY NextPlan DEF Commit
<1>2. /\ write[w].at = "commit"
      /\ \A k \in Keys : items'[k] = IF Changes(p) /\ k = p.key THEN p.new ELSE items[k]
  BY DEF Commit, TypeOK
<1>3. \A x \in Writers \ {w} : write'[x] = write[x] /\ write'[x].at # "commit"
  <2>1. mu = w
    BY <1>2 DEF Holder
  <2> QED
    BY <2>1 DEF Commit, Holder, TypeOK
<1>4. write'[w].at = "commit" => write'[w].plans = rest
  <2>1. CASE write' = [write EXCEPT ![w].plans = rest]
    BY <2>1, WriteType DEF TypeOK, Write
  <2>2. CASE write' = [write EXCEPT ![w] = [IdleWrite EXCEPT !.at = "flush"]]
    BY <2>2 DEF TypeOK, IdleWrite
  <2> QED
    BY <2>1, <2>2 DEF Commit
<1>5. /\ \A i, j \in DOMAIN plans : plans[i].key = plans[j].key => i = j
      /\ \A i \in DOMAIN plans : GoodPlan(plans[i]) /\ StillCurrent(plans[i])
  BY <1>2 DEF Current, Planned
<1>6. \A i \in DOMAIN rest : rest[i] \in Plan
  BY NextPlan, <1>2
<1> HIDE DEF p, rest, plans
<1>7. \A i, j \in DOMAIN rest : rest[i].key = rest[j].key => i = j
  BY <1>1, <1>5
<1>8. ASSUME NEW i \in DOMAIN rest
      PROVE  /\ GoodPlan(rest[i])
             /\ items'[rest[i].key] = rest[i].old \/ ~Present(items'[rest[i].key])
  <2>1. rest[i].key # p.key /\ rest[i].key \in Keys
    BY <1>1, <1>5, <1>6 DEF Plan
  <2>2. GoodPlan(rest[i]) /\ StillCurrent(rest[i])
    BY <1>1, <1>5
  <2>3. items'[rest[i].key] = items[rest[i].key]
    BY <1>2, <2>1
  <2> QED
    BY <2>2, <2>3 DEF StillCurrent
<1>9. Planned'
  BY <1>3, <1>4, <1>7, <1>8 DEF Planned, StillCurrent, GoodPlan, Present
<1>10. Clean'
  <2>1. GoodPlan(p) /\ p.kind \in Kinds
    BY <1>1, <1>5 DEF Plan
  <2>2. Changes(p) => Present(p.new) \/ p.new = NoItem
    BY <2>1 DEF GoodPlan, Changes, Kinds
  <2> QED
    BY <1>2, <2>2 DEF Current, Clean, Present
<1> QED
  BY <1>9, <1>10 DEF Current

\* A removal by GetItem leaves no item.
LEMMA CurrentRemove ==
    ASSUME TypeOK, Current, NEW g \in Getters, RemoveExpired(g)
    PROVE  Current'
<1>1. /\ write' = write
      /\ items' = [items EXCEPT ![get[g].key] = NoItem]
  BY DEF RemoveExpired
<1>2. \A k \in Keys : items'[k] = items[k] \/ items'[k] = NoItem
  BY <1>1 DEF TypeOK
<1>3. Clean'
  BY <1>2 DEF Current, Clean, Present
<1>4. ASSUME NEW q \in Plan, StillCurrent(q) PROVE StillCurrent(q)'
  <2>1. q.key \in Keys
    BY DEF Plan
  <2> QED
    BY <1>2, <1>4, <2>1 DEF StillCurrent, Present, NoItem
<1>5. \A w \in Writers, i \in Nat : i \in DOMAIN write[w].plans => write[w].plans[i] \in Plan
  BY WriteType
<1>6. \A w \in Writers : \A i \in DOMAIN write[w].plans : write[w].plans[i] \in Plan
  BY WriteType
<1>7. Planned'
  BY <1>1, <1>4, <1>6 DEF Current, Planned
<1> QED
  BY <1>3, <1>7 DEF Current

LEMMA CurrentNext == TypeOK /\ Holder /\ Current /\ [Next]_vars => Current'
<1> SUFFICES ASSUME TypeOK, Holder, Current, [Next]_vars PROVE Current'
  OBVIOUS
<1>1. ASSUME NEW w \in Writers, NEW req \in Requests, NEW t \in Tokens \union {NoToken},
             BeginWrite(w, req, t)
      PROVE  Current'
  BY <1>1, CurrentBegin
<1>2. ASSUME NEW w \in Writers, Commit(w) PROVE Current'
  BY <1>2, CurrentCommit
<1>3. ASSUME NEW g \in Getters, RemoveExpired(g) PROVE Current'
  BY <1>3, CurrentRemove
<1>4. ASSUME NEW w \in Writers, NEW req \in Requests, NEW t \in Tokens \union {NoToken},
             RefuseTransact(w, req, t)
      PROVE  Current'
  <2>1. items' = items /\ \A x \in Writers : write'[x].at = "commit" => write'[x] = write[x]
    BY <1>4, WriteType DEF RefuseTransact, TypeOK, Write
  <2> QED
    BY <2>1, CurrentKept
<1>5. ASSUME NEW w \in Writers, FlushStreamDeliveries(w) PROVE Current'
  <2>1. items' = items /\ \A x \in Writers : write'[x].at = "commit" => write'[x] = write[x]
    BY <1>5, WriteType DEF FlushStreamDeliveries, TypeOK, Write
  <2> QED
    BY <2>1, CurrentKept
<1>6. ASSUME NEW w \in Writers, Deliver(w) PROVE Current'
  <2>1. items' = items /\ \A x \in Writers : write'[x].at = "commit" => write'[x] = write[x]
    BY <1>6 DEF Deliver, TypeOK, IdleWrite
  <2> QED
    BY <2>1, CurrentKept
<1>7. ASSUME \/ \E g \in Getters, k \in Keys : GetItem(g, k)
             \/ \E n \in Limits : GetRecords(n)
             \/ UpdateStreamConfig \/ Tick \/ UNCHANGED vars
      PROVE  Current'
  <2>1. items' = items /\ write' = write
    BY <1>7 DEF GetItem, GetRecords, UpdateStreamConfig, Tick, vars
  <2> QED
    BY <2>1, CurrentKept
<1> QED
  BY <1>1, <1>2, <1>3, <1>4, <1>5, <1>6, <1>7 DEF Next

\* No write comes between the evaluation of a call's conditions and its writes;
\* only GetItem can, by removing an item.
THEOREM ConditionsStayTrue == Spec => []PlansStayCurrent
<1>1. Init => TypeOK /\ Holder /\ Current
  BY TypeInit, CurrentInit
<1>2. (TypeOK /\ Holder /\ Current) /\ [Next]_vars => (TypeOK /\ Holder /\ Current)'
  BY TypeNext, CurrentNext
<1>3. TypeOK /\ Holder /\ Current => PlansStayCurrent
  BY DEF Current, Planned, StillCurrent, PlansStayCurrent
<1> QED
  BY <1>1, <1>2, <1>3, PTL DEF Spec

(***************************************************************************)
(* Client tokens                                                           *)
(***************************************************************************)

\* Every application of a token is remembered until its window is over, and a
\* call that commits under a token runs after the windows of all earlier ones.
Old(a) == clock - a[2] > Window

Tokened ==
    /\ \A t \in Tokens : \A a \in applied[t] :
         a[2] <= clock /\ (a[2] <= tokens[t].at \/ Old(a))
    /\ \A w \in Writers : write[w].at = "commit" /\ write[w].tok # NoToken =>
         \A a \in applied[write[w].tok] : Old(a)
    /\ AppliedOncePerWindow

LEMMA TokenedInit == Init => Tokened
BY DEF Init, Tokened, AppliedOncePerWindow, IdleWrite

\* An application, by its parts.
LEMMA ApplicationType ==
    ASSUME TypeOK, NEW t \in Tokens, NEW a \in applied[t]
    PROVE  a[1] \in 0..made /\ a[2] \in 0..MaxClock
BY DEF TypeOK

LEMMA Numbers ==
    ASSUME TypeOK
    PROVE  /\ clock \in Int /\ Window \in Int /\ MaxClock \in Nat /\ made \in Nat
           /\ \A t \in Tokens : tokens[t].at \in Int
<1>1. clock \in Int /\ Window \in Int /\ MaxClock \in Nat /\ made \in Nat
  BY DynamoDBAssumption DEF TypeOK
<1>2. \A t \in Tokens : tokens[t].at \in -1..MaxClock
  BY DEF TypeOK
<1> QED
  BY <1>1, <1>2

\* Pruning forgets a token only when its window is over.
LEMMA PruneKeeps ==
    ASSUME TypeOK, Tokened, NEW t \in Tokens, NEW a \in applied[t]
    PROVE  /\ a[2] <= Pruned[t].at \/ Old(a)
           /\ ~Remembered(t) => Old(a)
<1>1. a[2] \in Nat
  BY ApplicationType, Numbers
<1>2. a[2] <= clock /\ (a[2] <= tokens[t].at \/ Old(a))
  BY DEF Tokened
<1>3. ~Remembered(t) => Old(a)
  BY <1>1, <1>2, Numbers DEF Remembered, Old
<1> QED
  BY <1>2, <1>3 DEF Pruned

\* A step that leaves the applications and the tokens, or prunes these, and
\* starts no call under a token that is remembered.
LEMMA TokenedKept ==
    ASSUME TypeOK, Tokened, UNCHANGED <<clock, applied>>,
           tokens' = tokens \/ tokens' = Pruned,
           \A w \in Writers :
             write'[w].at = "commit" /\ write'[w].tok # NoToken =>
               \/ write[w].at = "commit" /\ write'[w].tok = write[w].tok
               \/ write'[w].tok \in Tokens /\ ~Remembered(write'[w].tok)
    PROVE  Tokened'
<1>1. \A t \in Tokens : \A a \in applied'[t] :
        a[2] <= clock' /\ (a[2] <= tokens'[t].at \/ Old(a)')
  BY PruneKeeps DEF Tokened, Old
<1>2. \A w \in Writers : write'[w].at = "commit" /\ write'[w].tok # NoToken =>
        \A a \in applied'[write'[w].tok] : Old(a)'
  BY PruneKeeps DEF Tokened, Old
<1>3. AppliedOncePerWindow'
  BY DEF Tokened, AppliedOncePerWindow
<1> QED
  BY <1>1, <1>2, <1>3 DEF Tokened

LEMMA TokenedBegin ==
    ASSUME TypeOK, Holder, Tokened, NEW w \in Writers, NEW req \in Requests,
           NEW t \in Tokens \union {NoToken}, BeginWrite(w, req, t)
    PROVE  Tokened'
<1> DEFINE new == [IdleWrite EXCEPT !.at = "commit", !.req = req, !.tok = t,
                                    !.plans = [i \in DOMAIN req |-> PlanOp(req[i])]]
<1>1. new.tok = t
  BY DEF IdleWrite
<1>2. write' = [write EXCEPT ![w] = new]
  BY DEF BeginWrite
<1> HIDE DEF new
<1>3. \A x \in Writers : write'[x] = IF x = w THEN new ELSE write[x]
  BY <1>2 DEF TypeOK
<1>4. /\ UNCHANGED <<clock, applied>> /\ (tokens' = tokens \/ tokens' = Pruned)
      /\ t # NoToken => ~Remembered(t)
  BY DEF BeginWrite, tableVars
<1> QED
  BY <1>1, <1>3, <1>4, TokenedKept

\* The application of a token follows all earlier ones by more than a window.
LEMMA TokenedCommit ==
    ASSUME TypeOK, Holder, Tokened, NEW w \in Writers, Commit(w)
    PROVE  Tokened'
<1> DEFINE t == write[w].tok
           a == <<made, clock>>
<1>1. write[w].at = "commit" /\ clock' = clock /\ t \in Tokens \union {NoToken}
  BY WriteType DEF Commit, tableVars
<1>2. \A x \in Writers \ {w} : write'[x] = write[x] /\ write'[x].at # "commit"
  BY <1>1 DEF Commit, Holder, TypeOK
<1>3. CASE /\ write' = [write EXCEPT ![w].plans = Tail(write[w].plans)]
           /\ UNCHANGED <<tokens, applied>>
  <2>1. write'[w].tok = write[w].tok
    BY <1>3, WriteType DEF TypeOK, Write
  <2> QED
    BY <1>1, <1>2, <1>3, <2>1, TokenedKept
<1>4. CASE /\ write' = [write EXCEPT ![w] = [IdleWrite EXCEPT !.at = "flush"]]
           /\ t = NoToken /\ UNCHANGED <<tokens, applied>>
  <2>1. write'[w].at = "flush"
    BY <1>4 DEF TypeOK, IdleWrite
  <2> QED
    BY <1>1, <1>2, <1>4, <2>1, TokenedKept
<1>5. CASE /\ write' = [write EXCEPT ![w] = [IdleWrite EXCEPT !.at = "flush"]]
           /\ t \in Tokens
           /\ tokens' = [tokens EXCEPT ![t] = [req |-> write[w].req, at |-> clock]]
           /\ applied' = [applied EXCEPT ![t] = @ \union {a}]
  <2>1. \A x \in Writers : write'[x].at # "commit"
    BY <1>2, <1>5 DEF TypeOK, IdleWrite
  <2>2. /\ \A u \in Tokens \ {t} : applied'[u] = applied[u] /\ tokens'[u] = tokens[u]
        /\ applied'[t] = applied[t] \union {a} /\ tokens'[t].at = clock
    BY <1>5 DEF TypeOK
  <2>3. \A b \in applied[t] : Old(b) /\ b[1] \in 0..made /\ b[2] \in Nat
    BY <1>1, <1>5, ApplicationType, Numbers, DynamoDBAssumption DEF Tokened
  <2>4. a[1] = made /\ a[2] = clock
    OBVIOUS
  <2> HIDE DEF a
  <2>5. \A u \in Tokens : \A b \in applied'[u] :
          b[2] <= clock' /\ (b[2] <= tokens'[u].at \/ Old(b)')
    BY <1>1, <2>2, <2>3, <2>4, Numbers DEF Tokened, Old
  <2>6. ASSUME NEW u \in Tokens, NEW b \in applied'[u], NEW c \in applied'[u], b[1] < c[1]
        PROVE  c[2] - b[2] > Window
    <3>1. CASE u # t
      BY <2>2, <2>6, <3>1 DEF Tokened, AppliedOncePerWindow
    <3>2. CASE u = t /\ b \in applied[t] /\ c \in applied[t]
      BY <2>6, <3>2 DEF Tokened, AppliedOncePerWindow
    <3>3. CASE u = t /\ b = a /\ c \in applied[t]
      BY <2>3, <2>4, <2>6, <3>3, Numbers
    <3>4. CASE u = t /\ b \in applied[t] /\ c = a
      BY <2>3, <2>4, <3>4 DEF Old
    <3>5. CASE u = t /\ b = a /\ c = a
      BY <2>4, <2>6, <3>5, Numbers
    <3> QED
      BY <2>2, <3>1, <3>2, <3>3, <3>4, <3>5
  <2> QED
    BY <2>1, <2>5, <2>6 DEF Tokened, AppliedOncePerWindow
<1> QED
  BY <1>1, <1>3, <1>4, <1>5 DEF Commit, RememberToken

\* Time only ages the applications.
LEMMA TokenedTick ==
    ASSUME TypeOK, Tokened, Tick
    PROVE  Tokened'
<1>1. /\ clock' = clock + 1 /\ UNCHANGED <<tokens, applied, write>>
  BY DEF Tick, callVars
<1>2. \A t \in Tokens : \A a \in applied[t] : a[2] \in Nat
  BY ApplicationType, Numbers
<1>3. \A t \in Tokens : \A a \in applied[t] : a[2] <= clock' /\ (Old(a) => Old(a)')
  BY <1>1, <1>2, Numbers DEF Tokened, Old
<1>4. \A w \in Writers : write[w].tok \in Tokens \union {NoToken}
  BY WriteType
<1>5. \A w \in Writers : write'[w].at = "commit" /\ write'[w].tok # NoToken =>
        \A a \in applied'[write'[w].tok] : Old(a)'
  BY <1>1, <1>3, <1>4 DEF Tokened
<1> QED
  BY <1>1, <1>3, <1>5 DEF Tokened, AppliedOncePerWindow

LEMMA TokenedNext == TypeOK /\ Holder /\ Tokened /\ [Next]_vars => Tokened'
<1> SUFFICES ASSUME TypeOK, Holder, Tokened, [Next]_vars PROVE Tokened'
  OBVIOUS
<1>1. ASSUME NEW w \in Writers, NEW req \in Requests, NEW t \in Tokens \union {NoToken},
             BeginWrite(w, req, t)
      PROVE  Tokened'
  BY <1>1, TokenedBegin
<1>2. ASSUME NEW w \in Writers, Commit(w) PROVE Tokened'
  BY <1>2, TokenedCommit
<1>3. ASSUME Tick PROVE Tokened'
  BY <1>3, TokenedTick
<1>4. ASSUME NEW w \in Writers, NEW req \in Requests, NEW t \in Tokens \union {NoToken},
             RefuseTransact(w, req, t)
      PROVE  Tokened'
  <2>1. \A x \in Writers : write'[x].at = "commit" => write'[x] = write[x]
    BY <1>4, WriteType DEF RefuseTransact, TypeOK, Write
  <2>2. UNCHANGED <<clock, applied>> /\ (tokens' = tokens \/ tokens' = Pruned)
    BY <1>4 DEF RefuseTransact, tableVars
  <2> QED
    BY <2>1, <2>2, TokenedKept
<1>5. ASSUME NEW w \in Writers, FlushStreamDeliveries(w) \/ Deliver(w) PROVE Tokened'
  <2>1. \A x \in Writers : write'[x].at = "commit" => write'[x] = write[x]
    BY <1>5, WriteType DEF FlushStreamDeliveries, Deliver, TypeOK, Write, IdleWrite
  <2>2. UNCHANGED <<clock, applied, tokens>>
    BY <1>5 DEF FlushStreamDeliveries, Deliver, tableVars, callVars
  <2> QED
    BY <2>1, <2>2, TokenedKept
<1>6. ASSUME \/ \E g \in Getters : RemoveExpired(g) \/ \E k \in Keys : GetItem(g, k)
             \/ \E n \in Limits : GetRecords(n)
             \/ UpdateStreamConfig \/ UNCHANGED vars
      PROVE  Tokened'
  <2>1. UNCHANGED <<clock, applied, tokens, write>>
    BY <1>6 DEF RemoveExpired, GetItem, GetRecords, UpdateStreamConfig, vars, tableVars, callVars
  <2> QED
    BY <2>1, TokenedKept
<1> QED
  BY <1>1, <1>2, <1>3, <1>4, <1>5, <1>6 DEF Next

\* Two applications of one token are further apart than the window.
THEOREM TokensApplyOnce == Spec => []AppliedOncePerWindow
<1>1. Init => TypeOK /\ Holder /\ Tokened
  BY TypeInit, TokenedInit
<1>2. (TypeOK /\ Holder /\ Tokened) /\ [Next]_vars => (TypeOK /\ Holder /\ Tokened)'
  BY TypeNext, TokenedNext
<1>3. TypeOK /\ Holder /\ Tokened => AppliedOncePerWindow
  BY DEF Tokened
<1> QED
  BY <1>1, <1>2, <1>3, PTL DEF Spec

(***************************************************************************)
(* The change stream                                                       *)
(***************************************************************************)

\* A step that makes no record, and changes an item only on a key it sets aside
\* or to remove it when it has expired.
LEMMA ShowsKept ==
    ASSUME TypeOK, Clean, NEW k \in Keys, ShowsItem(k), UNCHANGED <<seq, log>>,
           clock <= clock', clock' \in Int,
           \/ items'[k] = items[k]
           \/ items'[k] = NoItem /\ (~Present(items[k]) \/ PastExpiry(items[k]))
    PROVE  ShowsItem(k)'
<1>1. Buffer' = Buffer
  BY DEF Buffer, BufferAt
<1> SUFFICES ASSUME NEW s \in Buffer, log[s].key = k, \A r \in Buffer : r > s => log[r].key # k
             PROVE  \/ log[s].new = items'[k]
                    \/ ~Present(items'[k]) /\ PastExpiry(log[s].new)'
  BY <1>1 DEF ShowsItem
<1>2. log[s].new = items[k] \/ (~Present(items[k]) /\ PastExpiry(log[s].new))
  BY DEF ShowsItem
<1>3. log[s].new \in Item /\ clock \in Int
  BY DEF TypeOK, Record
<1>4. PastExpiry(log[s].new) => PastExpiry(log[s].new)'
  BY <1>3 DEF PastExpiry, Item, Present
<1> QED
  BY <1>2, <1>4 DEF Clean, Present, NoItem

\* A record replaces what the stream shows of its key and nothing else.
LEMMA ShowsRecord ==
    ASSUME TypeOK, NEW p \in Plan, AppendRecord(p), Recorded(p), clock' = clock,
           NEW k \in Keys,
           p.key = k => items'[k] = p.new,
           p.key # k => ShowsItem(k) /\ items'[k] = items[k]
    PROVE  ShowsItem(k)'
<1>1. /\ seq' = seq + 1 /\ seq \in Nat /\ MaxRecords \in Nat \ {0}
      /\ log' = [s \in BufferAt(seq + 1) |-> IF s > seq THEN RecordOf(p) ELSE log[s]]
  BY DynamoDBAssumption DEF AppendRecord, TypeOK
<1>2. /\ Buffer' = BufferAt(seq + 1) /\ seq + 1 \in Buffer'
      /\ \A s \in Buffer' : s \in Nat /\ (s = seq + 1 \/ (s \in Buffer /\ s <= seq))
      /\ \A r \in Buffer : r \in Nat /\ r <= seq
      /\ \A s \in Buffer', r \in Buffer : r > s => r \in Buffer'
  BY <1>1 DEF Buffer, BufferAt
<1>3. /\ log'[seq + 1] = RecordOf(p)
      /\ \A s \in Buffer' : s <= seq => log'[s] = log[s]
  <2>1. \A s \in BufferAt(seq + 1) : log'[s] = IF s > seq THEN RecordOf(p) ELSE log[s]
    BY <1>1
  <2> QED
    BY <1>1, <1>2, <2>1
<1>4. RecordOf(p).key = p.key /\ RecordOf(p).new = p.new
  BY DEF RecordOf
<1> SUFFICES ASSUME NEW s \in Buffer', log'[s].key = k,
                    \A r \in Buffer' : r > s => log'[r].key # k
             PROVE  \/ log'[s].new = items'[k]
                    \/ ~Present(items'[k]) /\ PastExpiry(log[s].new)'
  BY DEF ShowsItem
<1>5. CASE s = seq + 1
  BY <1>3, <1>4, <1>5
<1>6. CASE s # seq + 1
  <2>1. s \in Buffer /\ s <= seq /\ log'[s] = log[s] /\ seq + 1 > s
    BY <1>1, <1>2, <1>3, <1>6
  <2>2. p.key # k
    BY <1>2, <1>3, <1>4, <2>1
  <2>3. \A r \in Buffer : r > s => log[r].key # k
    <3> SUFFICES ASSUME NEW r \in Buffer, r > s PROVE log[r].key # k
      OBVIOUS
    <3>1. r \in Buffer' /\ r <= seq
      BY <1>2
    <3> QED
      BY <1>3, <3>1
  <2>4. log[s].new = items[k] \/ (~Present(items[k]) /\ PastExpiry(log[s].new))
    BY <2>1, <2>2, <2>3 DEF ShowsItem
  <2> QED
    BY <2>1, <2>2, <2>4 DEF PastExpiry, Present
<1> QED
  BY <1>5, <1>6

\* A commit makes a record of every change, unless the stream is disabled.
LEMMA ShowsCommit ==
    ASSUME TypeOK, Holder, Current, StreamRebuildsTable, NEW w \in Writers, Commit(w)
    PROVE  StreamRebuildsTable'
<1> DEFINE p == Head(write[w].plans)
<1>1. /\ p \in Plan /\ AppendRecord(p) /\ clock' = clock /\ write[w].at = "commit"
      /\ raced' = IF Recorded(p) THEN raced \ {p.key} ELSE raced
      /\ \A k \in Keys : items'[k] = IF Changes(p) /\ k = p.key THEN p.new ELSE items[k]
  BY NextPlan DEF Commit, tableVars, TypeOK
<1>2. GoodPlan(p) /\ StillCurrent(p)
  BY <1>1, NextPlan DEF Current, Planned
<1>3. clock \in Int /\ Clean
  BY DEF TypeOK, Current
<1> HIDE DEF p
<1> SUFFICES ASSUME NEW k \in Keys, k \notin raced', k \notin unlogged' PROVE ShowsItem(k)'
  BY DEF StreamRebuildsTable
<1>4. CASE Recorded(p)
  <2>1. p.key = k => items'[k] = p.new
    BY <1>1, <1>4 DEF Recorded
  <2>2. p.key # k => ShowsItem(k) /\ items'[k] = items[k]
    <3>1. unlogged' = unlogged \ {p.key}
      BY <1>1, <1>4 DEF AppendRecord
    <3> QED
      BY <1>1, <1>4, <3>1 DEF StreamRebuildsTable
  <2> QED
    BY <1>1, <1>4, <2>1, <2>2, ShowsRecord
<1>5. CASE ~Recorded(p)
  <2>1. /\ UNCHANGED <<seq, log, raced>> /\ k \notin raced
        /\ unlogged' = IF Changes(p) /\ ~stream THEN unlogged \union {p.key} ELSE unlogged
    BY <1>1, <1>5 DEF AppendRecord
  <2>2. ShowsItem(k)
    BY <2>1 DEF StreamRebuildsTable
  <2>3. items'[k] = items[k]
    <3>1. CASE k # p.key \/ ~Changes(p)
      BY <1>1, <3>1
    <3>2. CASE k = p.key /\ Changes(p)
      <4>1. stream /\ p.kind = "delete" /\ ~p.hadOld
        BY <1>5, <2>1, <3>2 DEF Recorded
      <4>2. p.new = NoItem /\ ~Present(items[k])
        BY <1>2, <3>2, <4>1 DEF GoodPlan, StillCurrent
      <4> QED
        BY <1>1, <1>3, <3>2, <4>2 DEF Clean
    <3> QED
      BY <3>1, <3>2
  <2> QED
    BY <1>1, <1>3, <2>1, <2>2, <2>3, ShowsKept
<1> QED
  BY <1>4, <1>5

LEMMA ShowsNext ==
    TypeOK /\ Holder /\ Current /\ StreamRebuildsTable /\ [Next]_vars => StreamRebuildsTable'
<1> SUFFICES ASSUME TypeOK, Holder, Current, StreamRebuildsTable, [Next]_vars
             PROVE  StreamRebuildsTable'
  OBVIOUS
<1>1. ASSUME NEW w \in Writers, Commit(w) PROVE StreamRebuildsTable'
  BY <1>1, ShowsCommit
<1>2. clock \in Int /\ Clean
  BY DEF TypeOK, Current
<1>3. ASSUME NEW g \in Getters, RemoveExpired(g) PROVE StreamRebuildsTable'
  <2> DEFINE key == get[g].key
  <2>1. /\ UNCHANGED <<seq, log, clock, unlogged>> /\ key \in Keys
        /\ \A k \in Keys : items'[k] = IF k = key THEN NoItem ELSE items[k]
        /\ raced' = IF Present(items[key]) /\ ~PastExpiry(items[key]) THEN raced \union {key}
                    ELSE raced
    BY <1>3 DEF RemoveExpired, tableVars, logVars, TypeOK
  <2> HIDE DEF key
  <2> SUFFICES ASSUME NEW k \in Keys, k \notin raced', k \notin unlogged' PROVE ShowsItem(k)'
    BY DEF StreamRebuildsTable
  <2>2. ShowsItem(k) /\ (k = key => ~Present(items[key]) \/ PastExpiry(items[key]))
    BY <2>1 DEF StreamRebuildsTable
  <2> QED
    BY <1>2, <2>1, <2>2, ShowsKept
<1>4. ASSUME \/ \E w \in Writers :
                  \/ \E req \in Requests, t \in Tokens \union {NoToken} :
                       BeginWrite(w, req, t) \/ RefuseTransact(w, req, t)
                  \/ FlushStreamDeliveries(w) \/ Deliver(w)
             \/ \E g \in Getters, k \in Keys : GetItem(g, k)
             \/ \E n \in Limits : GetRecords(n)
             \/ UpdateStreamConfig \/ Tick \/ UNCHANGED vars
      PROVE  StreamRebuildsTable'
  <2>1. UNCHANGED <<items, seq, log, raced, unlogged>>
    BY <1>4 DEF BeginWrite, RefuseTransact, FlushStreamDeliveries, Deliver, GetItem, GetRecords,
                UpdateStreamConfig, Tick, vars, logVars
  <2>2. clock' = clock \/ clock' = clock + 1
    BY <1>4 DEF BeginWrite, RefuseTransact, FlushStreamDeliveries, Deliver, GetItem, GetRecords,
                UpdateStreamConfig, Tick, vars, tableVars
  <2> SUFFICES ASSUME NEW k \in Keys, k \notin raced', k \notin unlogged' PROVE ShowsItem(k)'
    BY DEF StreamRebuildsTable
  <2>3. ShowsItem(k)
    BY <2>1 DEF StreamRebuildsTable
  <2> QED
    BY <1>2, <2>1, <2>2, <2>3, ShowsKept
<1> QED
  BY <1>1, <1>3, <1>4 DEF Next

LEMMA ShowsInit == Init => StreamRebuildsTable
BY DEF Init, StreamRebuildsTable, ShowsItem, Buffer, BufferAt

\* A consumer that applies the records in order ends up with the table.
THEOREM StreamTellsTable == Spec => []StreamRebuildsTable
<1>1. Init => TypeOK /\ Holder /\ Current /\ StreamRebuildsTable
  BY TypeInit, CurrentInit, ShowsInit
<1>2. (TypeOK /\ Holder /\ Current /\ StreamRebuildsTable) /\ [Next]_vars
      => (TypeOK /\ Holder /\ Current /\ StreamRebuildsTable)'
  BY TypeNext, CurrentNext, ShowsNext
<1> QED
  BY <1>1, <1>2, PTL DEF Spec

(***************************************************************************)
(* The stream's reader                                                     *)
(***************************************************************************)

\* What the reader has behind it was read once or dropped before it came, and
\* what it has before it is in the buffer or was dropped.
Drained ==
    /\ again = {} /\ \A s \in seen : s <= after
    /\ \A s \in 1..seq : IF s <= after THEN s \in missed \union seen
                                       ELSE s \in missed \union Buffer

LEMMA DrainedInit == Init => Drained
BY DEF Init, Drained

LEMMA DrainedCommit ==
    ASSUME TypeOK, Holder, Drained, NEW w \in Writers, Commit(w)
    PROVE  Drained'
<1> DEFINE p == Head(write[w].plans)
<1>1. p \in Plan /\ AppendRecord(p) /\ UNCHANGED <<after, seen, again>>
  BY NextPlan DEF Commit, readVars
<1>2. seq \in Nat /\ after \in 0..seq /\ MaxRecords \in Nat \ {0}
  BY DynamoDBAssumption DEF TypeOK
<1> HIDE DEF p
<1>3. CASE Recorded(p)
  <2>1. /\ seq' = seq + 1
        /\ missed' = missed \union {s \in Buffer \ BufferAt(seq + 1) : s > after}
    BY <1>1, <1>3 DEF AppendRecord
  <2>2. Buffer' = BufferAt(seq + 1) /\ seq + 1 \in Buffer'
    BY <1>2, <2>1 DEF Buffer, BufferAt
  <2>3. \A s \in (1..seq)' : s \in 1..seq \/ s = seq + 1
    BY <1>2, <2>1
  <2> QED
    BY <1>1, <1>2, <2>1, <2>2, <2>3 DEF Drained
<1>4. CASE ~Recorded(p)
  BY <1>1, <1>4 DEF AppendRecord, Drained, Buffer, BufferAt
<1> QED
  BY <1>3, <1>4

\* The reader leaves nothing out but what was dropped before its page.
LEMMA DrainedRead ==
    ASSUME TypeOK, Drained, NEW limit \in Limits, GetRecords(limit)
    PROVE  Drained'
<1> DEFINE page == Least(FilterStreamRecords, limit)
<1>1. PICK lo \in 1..seq, hi \in 1..seq :
        /\ lo <= hi /\ page = lo..hi /\ lo > after
        /\ \A s \in 1..seq : s > after /\ s < lo => s \notin Buffer
        /\ hi = (CHOOSE s \in page : \A x \in page : s >= x)
  BY PageRun DEF GetRecords
<1>2. /\ after' = (CHOOSE s \in page : \A x \in page : s >= x)
      /\ seen' = seen \union page /\ again' = again \union (page \intersect seen)
      /\ UNCHANGED <<seq, missed>>
  BY DEF GetRecords, logVars
<1> HIDE DEF page
<1>3. after' = hi /\ seq \in Nat /\ after \in 0..seq /\ seen \subseteq 1..seq
  BY <1>1, <1>2 DEF TypeOK
<1>4. Buffer' = Buffer
  BY <1>2 DEF Buffer, BufferAt
<1>5. again' = {}
  BY <1>1, <1>2, <1>3 DEF Drained
<1>6. \A s \in seen' : s <= after'
  BY <1>1, <1>2, <1>3 DEF Drained
<1>7. ASSUME NEW s \in 1..seq, s <= hi PROVE s \in missed \union seen'
  <2>1. CASE s <= after
    BY <1>2, <2>1 DEF Drained
  <2>2. CASE s > after /\ s < lo
    BY <1>1, <1>3, <2>2 DEF Drained
  <2>3. CASE lo <= s
    BY <1>1, <1>2, <1>7, <2>3
  <2> QED
    BY <1>3, <2>1, <2>2, <2>3
<1>8. ASSUME NEW s \in 1..seq, s > hi PROVE s \in missed \union Buffer
  BY <1>1, <1>3, <1>8 DEF Drained
<1> QED
  BY <1>2, <1>3, <1>4, <1>5, <1>6, <1>7, <1>8 DEF Drained

LEMMA DrainedNext == TypeOK /\ Holder /\ Drained /\ [Next]_vars => Drained'
<1> SUFFICES ASSUME TypeOK, Holder, Drained, [Next]_vars PROVE Drained'
  OBVIOUS
<1>1. ASSUME NEW w \in Writers, Commit(w) PROVE Drained'
  BY <1>1, DrainedCommit
<1>2. ASSUME NEW n \in Limits, GetRecords(n) PROVE Drained'
  BY <1>2, DrainedRead
<1>3. ASSUME \/ \E w \in Writers :
                  \/ \E req \in Requests, t \in Tokens \union {NoToken} :
                       BeginWrite(w, req, t) \/ RefuseTransact(w, req, t)
                  \/ FlushStreamDeliveries(w) \/ Deliver(w)
             \/ \E g \in Getters : RemoveExpired(g) \/ \E k \in Keys : GetItem(g, k)
             \/ UpdateStreamConfig \/ Tick \/ UNCHANGED vars
      PROVE  Drained'
  <2>1. UNCHANGED <<seq, after, seen, again, missed>>
    BY <1>3 DEF BeginWrite, RefuseTransact, FlushStreamDeliveries, Deliver, RemoveExpired, GetItem,
                UpdateStreamConfig, Tick, vars, logVars, readVars
  <2> QED
    BY <2>1 DEF Drained, Buffer, BufferAt
<1> QED
  BY <1>1, <1>2, <1>3 DEF Next

\* A reader that follows its iterator reads every record once, except the ones
\* that the full buffer dropped before it came for them.
THEOREM ReaderDrains == Spec => []ReaderDrainsStream
<1>1. Init => TypeOK /\ Holder /\ Drained
  BY TypeInit, DrainedInit
<1>2. (TypeOK /\ Holder /\ Drained) /\ [Next]_vars => (TypeOK /\ Holder /\ Drained)'
  BY TypeNext, DrainedNext
<1>3. TypeOK /\ Holder /\ Drained => ReaderDrainsStream
  BY DEF TypeOK, Drained, ReaderDrainsStream
<1> QED
  BY <1>1, <1>2, <1>3, PTL DEF Spec
=============================================================================
