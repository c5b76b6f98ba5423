# cloudemu: formal models

cloudemu emulates AWS, Azure, GCP and OCI in memory, as a Go library and as a
standalone server.  This directory holds TLA+ models of the parts of it whose
correctness depends on interleavings, failures and time, the TLC runs that check
them on small instances, and TLAPS proofs of the properties that matter most.

- [Inventory](#inventory)
- [Modules](#modules)
- [Runs](#runs)
- [Findings](#findings)
- [Fairness](#fairness)
- [Proofs](#proofs)
- [Not modelled](#not-modelled)
- [Plan](#plan)

Run everything from this directory: `tlc -workers 2 -config X.cfg M` for a run of
PROJECT.json, `tlapm M.tla` for a proof module.

## Inventory

The repository is about 1.5 million lines of Go, tests included.  It has three layers:
`services/<svc>` (a portable API and a driver interface), `providers/<cloud>/<svc>`
(the in-memory implementation of the driver) and `server/<cloud>/<svc>` (the wire
protocol).  Most of the code is validated records put into and taken out of maps.
What is hard sits in a few places, and they come first in the table.

| Component | State | Operations | Hard behaviour | What makes it correct |
|---|---|---|---|---|
| `internal/idempotency` | token entries with expiry; a table of per-token locks with reference counts | `Do`, `Forget` | lock objects come and go while callers wait on them; each caller works with a time read before it waited | callers of a token exclude each other; a token has one live resource per window and finds it |
| `providers/aws/acm` | certificates, their tokens | request, delete | replay of a resource that is gone or cannot be read | a retry makes no second certificate |
| `providers/aws/eventbridgescheduler` | schedules, groups, their tokens | create, get, update, delete; cascade | ids are names and are reused; every operation is several unsynchronised store calls | a token replays its own schedule and never conflicts with it; a deleted group leaves no schedule |
| `server/serverkit` flusher | dirty flag, one-slot signal, loop goroutine | mark, save loops, stop | mutations during a save, failed saves, shutdown | every change reaches the file or is announced; the file never goes back |
| `server/serverkit` App, `server/admin` | backends, provider generation, `rebuildMu`, `exportMu` | request, seed, reset, restore, snapshot, shutdown | exports that race a rebuild; shutdown with ticks and handlers in flight | no export reads closed providers; a graceful stop saves all |
| `persist` | the state file | `ExportAll`, `RestoreAll`, `WriteFile`, `ReadFile` | errors, crashes and power loss half-way through a write | the file is replaced in one step and never torn; a write whose directory was synced stays |
| `providers/aws/sqs` | queues, messages, deduplication index, move tasks | send, receive, delete, change visibility, purge, redrive, Lambda delivery, move task | the queue's mutex is released in the middle of deliveries and moves; redrive crosses two queues | no message lost, copied or out of order |
| `providers/aws/dynamodb` | items, change records and the pending ones, stream settings, transaction tokens | conditional put, update and delete, transactions, get, stream records, stream settings, delivery to Lambda | expired items are removed without the provider's mutex; a call delivers the records of others after it has released the mutex; the buffer drops old records | conditions hold until the writes; a token applies once per window; the stream rebuilds the table, reaches Lambda once and in order, and a reader reads all of it once |
| `providers/aws/ec2` | instances, their states, volumes, client tokens with launches in flight | run, start, stop, terminate instances; create, delete, attach, detach volumes | launches and terminations are several store calls; launches are retried, waited for and rolled back; batches fail half-way | a token launches once; volumes of an instance that ends are settled before its end is published, and it is published once; a volume its client keeps is not deleted |
| `internal/memstore` | a map under an RWMutex | get, set, set-if-absent, update, delete, snapshot | callers that do get-then-set | each call is atomic |
| `internal/statemachine` | resource states, callbacks | transition, set, remove | callbacks run outside the lock | only legal transitions |
| `internal/settle` | an intermediate state and a time | observe, advance | clock at the boundary | observed states move forward |
| `features/ratelimit` | token bucket | allow | clock that moves back | never more than burst plus rate times elapsed |
| `features/quota` | quotas, increase requests | get, request, approve | – | an applied request changes its quota once |
| `features/inject`, `features/chaos` | counters, active scenarios | should-inject, apply, stop | concurrent counters, activation windows | exactly the configured calls fail |
| `features/timetravel` | named snapshots | save, rewind, fork, delete | capture happens before the registry is locked | a name holds its last save |
| `services/kubernetes` | API objects, watches | CRUD, watch, snapshot | resource versions, cascades | watch order follows resource versions |
| other providers, wire handlers, languages, CLI, contrib | mostly records | – | – | – |

How they interact:

- A wire handler calls a portable API, which runs injection, rate limiting,
  recording and metrics around a driver call into a provider.
- Providers keep their records in `memstore.Store`s.  A provider whose API takes
  a client token calls `idempotency.Do` with two closures: `replay` re-reads the
  recorded resource, `create` makes a new one.
- The server's middleware (`wrapDirty`) calls `markDirty` after each request; the
  admin plane does so after seed, reset and restore, and the ticker after a tick
  that did work.  The flusher's loop exports all providers and writes the file.
- Reset and restore build a new set of providers, swap it in under `rebuildMu`
  and close the old set under `exportMu`, which exports hold for reading.
- SQS calls the Lambda mapping from inside `SendMessage`, and appends to another
  queue (the dead-letter queue) from inside `ReceiveMessages`.
- DynamoDB calls the Lambda mapping after a write call has released its mutex, and
  the handler may write back.
- EC2 keeps the state of an instance in its record and in a `statemachine.Machine`,
  and publishes lifecycle events when the call has settled the volumes.

The hazards this exposes, each at the line where it bites, are in PROJECT.json
with the properties that cover them.

## Modules

| Module | Models | State and actions |
|---|---|---|
| `IdempotencyStore` | `internal/idempotency/idempotency.go` | One caller per goroutine in `Do`. Each critical section of `s.mu` is one action: `LockRef`, `Lookup`, `Put` (with its sweep), `Deref`, `ForgetEntries`. `l.mu` is held from `LockAcquire` to `Unlock`. Lock objects have identities, since the table drops an object at zero references and a later caller allocates another. `now` is the time the provider read before calling. |
| `Idempotency` | `Do` with ACM's closures (Global Accelerator, FIS and HealthLake pass closures of the same shape) | Extends the store with `live` and `minted` resources: `Replay` (found, gone, or another error), `CreateOk`, `CreateErr`, `CreateUntracked` (empty token), `Delete`. `made` records each resource's token, `now` and creation time for the properties. |
| `IdempotentCreate` | what `Do` promises | The abstract specification `Idempotency` implements. The state a client could know of: who holds a token, what a token names, which resources exist and when they were made. `Enter`, `Leave`, `Create`, `Name`, `Drop`. |
| `Scheduler` | `providers/aws/eventbridgescheduler` | Extends the store with schedules and groups. Callers run `CreateSchedule`, workers everything else, one memstore call per action. `raced` records the keys on which a worker's operation overlapped a create or another worker. |
| `Flusher` | `server/serverkit/{flusher,middleware,ticker,persist,serverkit}.go`, `server/admin` | Operations change versions of services in a generation of providers, then `MarkStore` and `MarkSignal`; the loop clears the flag and saves service by service; reset and restore start a generation; shutdown drains, stops the ticker, stops the loop, makes the final save and closes. |
| `StateFile` | `persist/persist.go` `WriteFile`, `ReadFile`, `fsyncDir` | Each system call is an action with its error path. `SyncDirSwallowed` is the acknowledgement without a directory sync: `fsyncDir` returns nil whenever it cannot open the directory, for whatever reason. The directory may have to be made (`MkdirAll`), and nothing syncs its own entry. The cached view of the file system and the disk's view are separate; `Writeback`, `WritebackDir`, `WritebackParent`, `Crash` and `PowerLoss` are external. |
| `AtomicFile` | what `WriteFile` promises | The abstract specification `StateFile` implements: replace, settle, keep (the directory survives from now on), power loss. |
| `SQS` | `providers/aws/sqs/{sqs,movetask}.go` | Message objects are numbered in the order they are appended, so a queue is a set. Operations under the queue's mutex are one action; Lambda delivery (`DeliverToESM`, `DeliverMessage`, `DeliverToDLQ`, `CommitESMReceive`) and move tasks (`StartMessageMoveTask`, `AppendMessage`, `FinishMove`) take a step per critical section. |
| `DynamoDB` | `providers/aws/dynamodb` for one table with a stream that feeds Lambda | A write call takes the mutex, checks its conditions and plans its writes (`BeginWrite`, `RefuseTransact`), applies them one by one (`Commit`), takes what is pending (`FlushStreamDeliveries`) and hands it to Lambda (`Deliver`). `GetItem` and `RemoveExpired` are the two halves of a read that finds an expired item; `GetRecords` follows an iterator; `UpdateStreamConfig` turns the stream on and off. An item is the number of the call that wrote it and its expiry. |
| `EC2` | `providers/aws/ec2`: launches, lifecycle, volumes | A launch reserves its token, provisions instance by instance, gives each a volume, and on an error rolls back instance by instance, volume by volume; others replay it or wait for it. A termination changes the instances, lists the volumes, releases one after the other and publishes the events. `DeleteVolume`/`RemoveVolume` and `AttachVolume`/`MarkAttached` are the check and the act of those calls. |
| `MC...` | – | Values of constants and symmetry sets for TLC. |
| `...Proofs` | – | Theorems and their lemmas. |

Definitions whose comment begins with "Variant:" are faulty forms of the action
that follows.  No specification uses them.  Substituting one for its action must
make TLC report the property PROJECT.json pairs it with, which shows that the
property depends on that piece of the code.

Abstractions:

- A resource, schedule or message has an identity and nothing else.  Validation
  that fails before any state is touched is an action that changes nothing, or
  no action.
- In `Flusher` provider state is one version number per service, unique across
  the run, so "the file holds this state" is equality.  The write is one step
  there, which `StateFile` justifies.  A crash is not an action: it may happen in
  any reachable state and leaves exactly `disk`.
- In `StateFile` a file's bytes are none, some or all.  A temporary file left by a
  crash is never read again, so its removal is not modelled.
- In `DynamoDB` change records are numbered in the order they are appended, so the
  buffer, the pending list and the batches are sets of numbers.  A request is a list
  of operations with a condition each; expressions, projections and capacity are not
  there.  A write of a single item is a transaction of one.
- In `EC2` the root volume of an instance has the instance's name, and a launch draws
  ids that nothing has.  The transient states pending, stopping and shutting-down are
  not seen by anyone: `transitionOne` holds the instance's lock over both moves.
- In `SQS` a redrive policy and the visibility timeouts are constants.  A receipt
  handle other than the last one changes nothing, so only the last is kept.  An
  object out of every queue keeps only the fields a copy is made from.

## Runs

| Run | What it checks | Bounds, and why they are enough |
|---|---|---|
| `idempotency` | `ImplementsIdempotentCreate`, `LockTableExact`, `OneResourcePerWindow`, `FindableForItsWindow`, `TypeOK` | 2 callers, 2 tokens, 2 lock addresses, 3 resources, TTL 1, clock 0..2. Two callers can wait on one token, a lock object can be dropped and reused by another token, an entry can expire and be swept by the other token's put, and a caller can be overtaken by the whole window while it holds an old `now`. The proofs remove the bounds. |
| `idempotency_live` | `EveryCallReturns` | 3 callers of one token, so a caller can be overtaken by two others. |
| `scheduler` | the three `Serial...` properties, `TypeOK` | 2 creators, 1 worker, the default group and another, 1 name, 1 client token, 2 schedules, TTL 1, clock 0..2. Names are reused after a deletion by a request without the token; a token is retried at the last instant of its window (clock = at + TTL) and expires after it (clock = at + TTL + 1), when another put sweeps it; the worker cascades a group. States in which every key has raced are cut: `raced` only grows and the properties are silent about raced keys. |
| `scheduler_foreign_replay` | `ReplaysOwnSchedule` is violated | 2 creators, 2 tokens, 1 key. |
| `flusher_safety` | `NoLostMutation`, `SingleFlight`, `ExportReadsOpenProviders`, `GracefulStopSavesAll`, `DiskNeverRegresses`, `TypeOK` | All four strategies, 2 operations at a time out of requests, ticks and restores, an admin export, 2 changes, 1 rebuild, 1 failed save, shutdown from any state. One service suffices for the safety properties, which are stated service by service; the proofs cover any number. |
| `flusher_live` | `EventuallySavedOrFailed` | Scheduled and on-request, 2 operations out of requests and resets, 2 changes, 1 rebuild, 1 failed save. |
| `state_file` | `NeverTorn`, `AckedSurvives`, `ImplementsAtomicFile`, `TypeOK` | 2 writers, 4 files, a directory that exists or has to be made: writers overlap, one overtakes the other between rename and directory sync, a sync of the directory is swallowed, fails or happens, power fails before and after the directory itself is kept, and writing resumes. The proofs remove the bounds. |
| `sqs` | `NoMessageLost`, `OneCopy`, `FifoDeliveryInOrder`, `NoDuplicateInWindow`, `TypeOK` | A queue and its dead-letter queue, either both FIFO or the first one feeding Lambda; 1 sender, 1 move task, 3 message objects, 1 receive before redrive, clock 0..1. A message can be sent, received, redriven and moved back (three objects); delays and changed visibility reorder two messages of a group; a delivery to Lambda races a receive of the same message. |
| `sqs_double_move` | `MovedOnce` is violated | 2 move tasks. |
| `dynamodb` | `PlansStayCurrent`, `AppliedOncePerWindow`, `StreamRebuildsTable`, `DeliveredOnce`, `InOrderUnlessOverlap`, `ReaderDrainsStream`, `TypeOK` | 2 keys, 2 writers, 1 getter, 1 token, 3 write calls, 4 change records in a buffer of 2, clock 0..2 with a window of 1, pages of 1 or 2. A transaction of two writes races single writes and the two steps of an expiry; records are dropped before and after they are read; a token is replayed and expires; a call drains what another has queued while a third batch is on its way. The proofs remove the bounds. |
| `ec2` | `ReleasedUnlessRaced`, `DetachedVolumeSurvives`, `EndAnnouncedOnce`, `OneLaunchPerToken`, `EveryLaunchReturns`, `TypeOK` | 2 instances, their volumes and one more, 1 token, and four casts: two launchers with a token and a terminator; a launcher of two instances and two terminators that compete for them; a launcher of two, a terminator and an attacher; a launcher of one, a terminator, an attacher and a deleter. A launch can fail after its first instance, be waited for and retried; an instance can be ended, rolled back, attached to and detached from at every step. The proofs remove the bounds of the safety properties. |
| `ec2_stuck_volume` | `AttachmentsReleased` is violated | as `ec2`. |

`CHECK_DEADLOCK FALSE` is used where the system may stop: a server that has shut
down, queues and tables whose bounds on objects, receives or writes are used up,
and instances that have all ended.  The other runs check that somebody can always
move.

Two properties exist in pairs.  `ReplaysOwnSchedule` and `AttachmentsReleased` say
what comments in the code promise, and the code breaks them: the first when
operations on one key overlap, the second when a batch fails half-way (volumes that
arrive after the end of their instance it leaves aside, `stale`).
`SerialReplaysOwnSchedule` and `ReleasedUnlessRaced` keep the promise for the rest and
hold.  What these and other
properties except is recorded by history variables (`raced`, `silent`, `stale`,
`failed`, `rolled`, `overlap`, `unlogged`), which no guard reads.

## Findings

1. **A deleted schedule's token can replay another request's schedule**
   (`scheduler_foreign_replay`).  `DeleteSchedule` removes the record and then
   forgets the tokens, `CreateSchedule` inserts the record and then records the
   token.  A delete that runs between insert and put leaves the token behind, and
   the next request to create the name is what the token then replays
   (schedule.go:100 promises otherwise).
2. **Two move tasks of one source can overlap** (`sqs_double_move`).  A task is
   recorded when it is over, so `rejectActiveMoveTask` never finds a running one,
   and both tasks copy the messages.
3. **A termination whose batch fails half-way leaves volumes on dead instances**
   (`ec2_stuck_volume`).  When a later instance of the batch does not exist or cannot
   be terminated, `TerminateInstances` publishes the end of the instances before it and
   returns without releasing their volumes, although ec2.go:1149 says they would
   otherwise stay in use "against a dead instance forever".  A retry of the batch
   stops at the first instance, which cannot be terminated again.

One more disagreement, without a run of its own: deliverMessageToESM compares a
message's count with the redrive threshold before it calls Lambda, and only the call
finds out that no mapping exists.  A send to a queue without any mapping therefore
redrives the visible messages that have been received MaxReceiveCount times, although
sqs.go:607 says such a queue "must therefore leave the message completely untouched".
`SQS` models it, and the properties of run `sqs` hold all the same.

Other behaviours met while modelling, for the record:

- A drain that hits `ShutdownTimeout` lets the remaining handlers change state during
  and after the final save (`GracefulStopSavesAll` is stated for drains that end in time).
- A create that has passed its group check may insert after the group's cascade and
  leave a schedule without a group (`SerialNoOrphanSchedule` is stated for operations
  that do not overlap).
- `UpdateSchedule` reads the record and stores it in a second call (schedule.go:83): a
  schedule deleted in between is back, although schedule.go:90-91 promises that it is
  not found any more.  The model does this; no property of a passing run excludes it.
- `fsyncDir` returns nil when it cannot open the directory, also for want of a file
  descriptor on a system that could sync it (persist.go:365-370), and the entry of a
  directory that `MkdirAll` made is never synced (:290).  In both cases `WriteFile`
  acknowledges a snapshot that a power loss may undo.  `AckedSurvives` promises each
  acknowledged write in the cache, and on the disk only those whose directory was
  synced (`synced`), once that directory is kept.
- A seed or a restore that fails part-way leaves what it did in memory and makes no mark
  for it (`NoLostMutation` excepts the services in `silent`), and a failed on-request save sets
  the flag without the signal its loop waits for, so that the retry waits for another
  request (`EventuallySavedOrFailed` excepts it).
- `GetItem` removes an expired item by key after it has let go of it: a put in
  between is acknowledged and lost (`raced` in `DynamoDB`).
- Two calls that have each drained a batch of change records may hand them to Lambda in
  the opposite order (`overlap` in `DynamoDB`).
- The DynamoDB snapshot holds no transaction tokens, so a retry across a restart
  applies its writes again.
- A launch publishes an instance before its volume exists, and `AttachVolume` reads the
  instance before it takes the volume: an end in between leaves the volume on a dead
  instance (`stale` in `EC2`).  A `DeleteVolume` can remove a volume that was attached
  between its check and its removal, and the rollback of a launch one that a client
  attached to an instance of it (`rolled`); no property promises these volumes.

What these exceptions leave out is not covered by any property: the hazards in
PROJECT.json that consist of such an overlap name none and say so.

## Fairness

- `Idempotency`: every goroutine inside `Do` keeps running (weak fairness of its
  steps).  Acquiring a token's lock is strongly fair: Go's `sync.Mutex` switches
  to starvation mode and hands the lock to a waiter that has waited for 1 ms, so a
  stream of other callers cannot keep it out.  Nobody has to call `Do`.
- `Flusher`: operations that have begun, saves and shutdown keep running; the
  interval ticker, the signal receive and the debounce or cap timer fire.  Weak
  fairness of `CoalesceFire` stands for the cap: signals may extend the quiet
  window, but not beyond it.  Nobody has to send a request, nothing forces a
  failed save to be followed by another request, and the server need not stop.
- `EC2`: a goroutine in `RunInstances` keeps running, and the engine answers (weak
  fairness of a launcher's steps together).  A caller that waits for another's launch
  has no step of its own: it returns when that launch does.
- `Scheduler`, `SQS`, `DynamoDB` and `StateFile` are checked for safety only.

## Proofs

All theorems are about the specifications TLC checks, with no bound on the
constants: any number of callers, tokens, services, writers, versions, keys, records,
instances, volumes, schedules, workers, queues, messages and move tasks.  They state
every safety property of every run that passes.

They rest on the named `ASSUME`s of the modules: distinct null values, finite
`Callers`, natural-number bounds, and four facts about the code.  The token store
of `Scheduler` remembers a token for a while (`TTL > 0`; `idempotency.DefaultTTL` is
five minutes), a schedule has a name and a message a group (`Names # {}`,
`Groups # {}`), and no queue of `SQS` is its own dead-letter queue.  The last one the
code does not check; without it a receive waits for the mutex it holds, which is a
deadlock and no violation of these properties.

**Token store** (`IdempotencyStoreProofs`, `IdempotencyProofs`).
`TokenMutex` alone is not inductive: that two callers exclude each other depends on
both pointing to the same lock object, and that on the table not dropping the
object while it is counted.  `StoreInv` says that a counted caller points to the
object its token has in the table, nobody else points to any, objects are not
shared between tokens, an object is held by the caller in its critical section,
every object in the table has a caller, and `refs` is the number of them.  The
count needs the cardinality theorems of the library (adding and removing one
element).  Each action of the store has a lemma, which a specification built on
the store cites.  From `StoreInv` follow `TypeCorrect` (refs is never negative),
`MutualExclusion` and `LockTableIsExact`.

`OneResource` and `Findable` need `WindowInv`: a caller's `now` is never ahead of
the clock; a caller in `put` is recording what it has just made; a caller with a
token is in `create` only if none of that token's live resources has an unfinished
window; while a caller replays, its token's entry is the one it found or has been
swept.  The sweep by another token is harmless because that caller's `now` is no later
than the clock, so it drops only entries whose window is over.

`ImplementsCreate` puts this together: `Idempotency` implements `IdempotentCreate`,
where callers of a token take turns, nothing is made under a token while a live resource
of it is in its window, and a token names what was made under it until its window is
over.  What a token names is the id in its entry; a caller holds its token from
`LockAcquire` to `Unlock`.  The steps on the lock table, the waiting and the replays are
stutters.  Besides the two invariants the refinement needs `EntriesTrue`: an entry is
that of a resource made under its token, and it ends with that resource's window.

**Flusher** (`FlusherProofs`).  `FlushInv` adds to `NoLostMutation`: the loop is in
`runSave` exactly while its save is in progress and has exited when the final save
starts; an operation keeps what it changed on its books until it marks; closed
providers are older than the current ones; and whatever a save in progress will
*not* record in its live version is announced already.  That last conjunct
carries the argument: a change after the export has read its service is announced
by the operation that made it, since the flag was cleared before the export began.
`TypeCorrect`, `NothingLost`, `ExportsReadOpen` and `OneSaveAtATime` follow.

The action property `FileOnlyMovesOn` (a save never puts an older generation or an older
version into the file) needs `DiskInv`: no live version exceeds the counter versions
are drawn from, what the file and every save in progress hold is no later than the live
version of its generation, no generation is later than the current one, and what a save
in progress has read is no earlier than what the file holds.  The last conjunct survives
because `OneWriter`, part of `FlushInv`, lets nobody else replace the file meanwhile.
`GracefulStop` (after a shutdown whose drain ended in time and whose final save
succeeded, the file holds the final state) strengthens to `StopInv`: once the drain has
ended no operation is left that could change anything, so the final save reads each
service in its last version and nothing overtakes it before the process ends.

**Scheduler** (`SchedulerProofs`, all properties of run `scheduler`).  Three layers.
`BaseInv` is the types, the store's `StoreInv` (its action lemmas are cited, as in
`IdempotencyProofs`) and the record a worker read.  `OwnInv` holds of every key, raced
or not: a caller's token and the id it records are of the key it asks for, entries name
their token's own key, a cascade stays in its group, no token stands where nothing is stored,
and every overlap is on record.  `SerialInv` adds, for each key that has not
raced, that store and entries agree: an entry is that of the token
that made the stored schedule, unless a worker that deleted it is about to forget it
(`EntriesSound`); that token has its entry, or its window is over, or the caller that
made the schedule is about to put it (`Guarded`); what a caller is going to record is
what is stored (`CallerSound`); what an update has read is still there, and a cascade
still has every schedule of its group before it (`WorkerSound`).  A step on one key leaves
`Serial` of another alone, so each action needs one lemma about its own key and one about
the rest.  The three theorems read off `SerialInv`: `ReplayIsOwn`, `RetryNeverConflicts`,
`NoOrphanSchedule`.

**State file** (`StateFileProofs`).  `FileInv` says that a temp file belongs to one
writer and is not published before its rename, that by each step its bytes have been
written and then synced, that published files are complete in the cache and on the
disk, and that the disk's directory entry is never ahead of the cached one.  From it follow `TypeCorrect`, `PathNeverTorn`,
`AcknowledgedSurvives` and the refinement `Implements`: each step of `StateFile` is a
step of `AtomicFile` or changes neither what the path reads as, nor what it would read
as after a power loss, nor whether the directory outlives one.  `AcknowledgedSurvives`
is about the cache for every write that returned nil, and about the disk for those
whose directory sync happened; a power loss takes the others from `acked`, and all of
them while the directory's own entry is not on the disk.

**DynamoDB** (`DynamoDBProofs`, all properties of run `dynamodb`).  Everything rests on
`Holder`: exactly the call that commits holds the mutex, with a plan left, and only
calls that deliver hold records.  `ConditionsStayTrue` strengthens `PlansStayCurrent`
by what the plans are still going to write: they name different keys, so no plan
disturbs the next, and the only other writer of items, an expiry, leaves none.
`TokensApplyOnce` needs `Tokened`: no application lies ahead of the clock, each is no
later than the instant its token remembers or older than the window, and all those of
a token under which a call is committing are older than the window.
`DeliversOnce` and `DeliversInOrder` come from
`Delivery`: pending, held and delivered records partition those made, and as long as
no two calls have held records, the held ones follow the delivered ones and the
pending ones follow both.  `StreamTellsTable` is inductive with the types: the record
a commit appends is the last of its key.  `ReaderDrains` needs that what the reader
has not seen lies after its position or was dropped before it came.

**SQS** (`SQSProofs`, all properties of run `sqs`).  No property of the run is inductive,
and the same facts about where objects are serve all of them.  `Flow` says what *any*
step does to message objects: numbers are given in order, an old object keeps its
message, group and deduplication id, and it enters no queue again.  `Places` says where they
are: each object is in at most one queue; what a Lambda
delivery has swept is in its queue or in none, and two deliveries do not carry one
object to the dead-letter queue; what a move task copies is in its source or in none.
Every action is shown to be `Good`: it keeps `Flow` and `Places`, a new object is that
of a new message, of a moved one, or of one whose object goes in the same step
(`Lineage`), a message whose object goes is gone or has another unless a queue was deleted
(`Survival`), and the deduplication index moves on (`Windows`).  The redrive of a whole batch by one receive
is where this needs work: the copies get the numbers after `made` in the order of the
originals, which `NumberFacts` gets from the cardinalities of prefixes of the batch.
From `Good` and the invariant each property follows without another look at the
actions: `RedrivesOnce` from `Unique`, one live object for each message no task
has moved; `NothingLost` from `Kept`, which asks for an object that no task is about to
remove as well; `DeduplicatesInWindow` from `Remembered`, an index that is never
behind what the queue holds.  `DeliversInOrder` is the exception: what is new in an order
is new at its end, unreceived, and a receive takes the first visible message of a
group with nothing in flight, so each action is gone through once.

**EC2** (`EC2Proofs`, all safety properties of run `ec2`).  `TokensLaunchOnce` is
inductive with the types once one knows that a launch is begun by `StartLaunch` only.
The volume theorems rest on `Unborn`: launches draw different ids, an id is out of the
store exactly until its launch has come to it, and until then, and until the launch
puts it there, the instance has no volume.  So no launch overwrites a volume that
somebody owns, is deleting or is releasing.  `VolumeSteps` lists the six ways a step
changes a volume, and `DetachedSurvive` goes through them: a volume that was once freed
is never deleted on termination again.  `ReleasedInTime` strengthens
`ReleasedUnlessRaced` by `Settled`: what was published or changed by a termination has
ended for good, and no termination is past a volume of an instance it ended.
`EndsArePublished` (each end is published once, by one call, whichever calls compete
for the instance and however their batches fail) rests on the same `Settled`: what has
not ended is neither published nor among what a call has changed, so the call that ends
an instance is the only one to have it.

**Only model-checked**: the liveness properties `EveryCallReturns`,
`EventuallySavedOrFailed` and `EveryLaunchReturns`.  Liveness under fairness needs
`ENABLED`, which the prover does not support.

## Not modelled

- Providers other than the five above, the wire handlers and the CLI: records,
  encodings and flags, with little control of their own.  PROJECT.json lists them.
- `vtl`, `jsonpath`, `eventmatch`, `awspolicy`, `yamlconv`, `jwtsign`, `k8spki`:
  sequential functions over strings.
- At boot, the restore of the state file and the fixtures of the init directory
  (applied at every boot) come before the server serves; `Flusher` starts there.
- DynamoDB tables, indexes, queries, batch calls, backups and restores; the reads of a
  `TransactGetItems`, which are not isolated from each other.
- EC2 apart from instances and volumes: images, snapshots, network interfaces,
  templates, spot and scaling groups; termination protection; the engines.
- SQS queue creation, attributes, tags, permissions and metrics; policies that
  make a cycle of dead-letter queues.

## Plan

What would be modelled or proved next, in this order:

1. Proofs: abstract specifications for other components and their refinement, as for
   `IdempotentCreate`: a state that is saved as a whole (`Flusher`), a table written in
   one step per call with its change stream (`DynamoDB`).
2. `SnapshotExport`: `exportSnapshot` with a cluster record in a provider that refers
   to one in the Kubernetes data plane, clusters created and deleted between the two
   captures, against the promise at serverkit/persist.go:69.
3. `SQS` at the level of its mutexes, with cyclic redrive policies, for deadlock.
4. The call path of the portable API: `inject`, `ratelimit`, `chaos` scenarios and
   `quota`; `Settle` windows over `StateMachine`.
5. `TimeTravel` over the restore and export operations of `Flusher`.
6. `services/kubernetes`: objects, resource versions, watches, cascades.
