# snmpproxy: TLA+ models, checks and proofs

This directory holds TLA+ models of the snmpproxy server (the Go code under
`src/`), the TLC configurations that check them on small instances, and TLAPS
proofs of their most important invariants for instances of any size.
`PROJECT.json` lists the parts of the system, the runs, which definition models
which lines, the mutants that show that each property can fail, the findings,
the hazards and the theorems.

## The system

snmpproxyd polls network devices over SNMP on a schedule, keeps the results and
the state of each poller in DuckDB, and serves clients that manage pollers, read
history and subscribe to samples.

| Part | State | Operations | What is hard |
|---|---|---|---|
| Scheduler (`internal/scheduler`) | heap of poll items, index by key, wakeup token, jobs and results channels, workers | Add, Remove, UpdateInterval, Pause, Resume, Stop; the loop; the workers | calls interleave with a loop that releases its mutex between two phases; full queues; items changed in place; shutdown |
| Poller state (`manager/state.go`) | admin, oper and health state, failure and success counts, dirty flag | Enable, Disable, Start, Stop, Mark..., RecordPollResult, ClearDirty | records are shared by pointer; the dirty flag races with the flush |
| Pollers (`manager/poller.go`, `handler/poller.go`, `server/dispatch.go`) | a cache over the store, state records, scheduler registration | create, enable, disable, delete, get, update requests; Load at the start | a request is a chain of steps under different locks; crash and failure between steps; cache fill outside the lock |
| Server process (`server/server.go`, `cmd/snmpproxyd`) | connections, result processor, shutdown | Run, Shutdown, executePoll, handlePollResult, cleanup | order of start and of shutdown |
| Sync (`manager/sync.go`, `manager/stats.go`) | buffered samples, dirty states and statistics | AddSample, the flush loops, Stop | updates during a flush; failed inserts; final flush |
| Entities (`manager/{namespace,target,tree,config_resolver}.go`, `store/`) | caches over the store, versions, resolved configuration | create, update, delete, resolve, invalidate | stale caches, concurrent modification, cascading deletion |
| Configuration (`manager/config_resolver.go`, `scheduler/snmp.go`) | four levels of defaults, resolved results with a time to live | Resolve, Invalidate; scheduling, polling and updating with the result | unlocked reads of four rows; results stored after a change; defaults filled in too early |
| Sessions (`handler/session.go`, `subscription.go`) | sessions, reconnect window, subscriptions, send channel | authenticate, bind, subscribe, lose, restore, clean up | restore against cleanup and against another restore |
| First server version (`server/{indices,tagindex,poller,browse}.go`) | targets with ring buffers, indices by state, protocol, host and tag | dispatch a sample, tag, resize, query, browse, list page by page | indices that follow the state one step later; wrap-around; paging under changes |
| Loader (`loader/loader.go`) | the watched file | Apply entity by entity | partial application; runs beside the requests |
| Client (`client/client.go`) | pending requests | request, read loop, reconnect | lost connections |

The parts meet as follows. A request handler changes the store and the cache
through a manager, the state record through the state manager, and the scheduler
through a callback or directly from `dispatch.go`. A scheduler worker calls
`Server.executePoll`, which reads the poller through the manager's cache; the
result goes through the results channel to `processResults`, which records it in
the state, the statistics and the sample buffer. The sync manager flushes those
to the store from its own goroutines. The watcher applies the configuration file
through the same managers as the requests. A signal runs `Shutdown` in a goroutine
of its own, beside `Run`. A crash loses everything but the rows;
`Run` loads them and schedules the enabled pollers before it opens the listener.

## The modules

### Scheduler

`Scheduler.tla` models `internal/scheduler/scheduler.go` with the reader of the
results in `server.go`. Each call that holds the scheduler's mutex is one action
(`Add`, `Remove`, `UpdateInterval`, `Pause`, `Resume`, and `MarkComplete` inside
`WorkerComplete`); the loop is split where it releases the mutex (`Peek`,
`Woken`, `TimerFires`, `Collect`, then `Enqueue` or `Requeue` for each due item),
and a worker has a step for each of its channel operations.

- Time is relative: `wait[i]` is `NextPollMs - now`, cut off at 0, and `Tick`
  lets time pass. The delay of a requeued item is chosen up to `RequeueDelay`,
  because the code computes it from a clock read before phase 1.
- The heap is the set of its items. `container/heap` guarantees that the root is
  a minimum as long as no key is changed in place; `MarkComplete` does change
  one when the item is in the heap already, and `ordered` records that. While it
  is false any item may be the root, and `Collect` may leave due items behind.
- An item can have several entries (`dup`): a removed item that comes back from
  a full queue, or one completed twice. Which index field survives then depends
  on swaps; `Reindex` allows both outcomes.
- `TimerFires` may end a sleep early: `timer.Reset` does not drain the channel
  with the timers of go 1.22, so an old tick may still be in it.
- Items are pairs of a key and a tag; an item nobody points to may be allocated
  again, so two tags per key let an old and a new item of a key coexist.

### Poller lifecycle

`PollerState.tla` has the methods of a state record as functions from records to
records, since each holds the record's mutex. `Lifecycle.tla` extends it with the
requests of clients, the polls of workers, `flushStates`, failing statements of
the store, a crash at any step, and the start of the next process.

- A goroutine's `at` names its next step; a step ends where the code releases a
  lock. `PollerManager.Create` and `Delete` are one step each; `Enable` is the
  UPDATE with the cache entry, then the state record, then the scheduler, then
  `Start`, then `MarkRunning`.
- The scheduler is the set of registered keys here: `Scheduler.tla` shows that a
  registered key is polled, and `Lifecycle` needs only that it may be.
- `StateManager.Get` creates a missing record, and a goroutine keeps the pointer
  it got: `held` is false once `Delete` took that record out of the map.
- Of a row the model keeps `admin_state` and the saved oper state, health and
  failure count. The two counters are kept up to their thresholds, beyond which
  the code does not tell values apart.
- `disturbed` is a history variable: the pollers on which, since the start, two
  requests overlapped or a statement failed. The code leaves such pollers
  inconsistent (see the hazards), and the properties say exactly for which
  others it does not.

### Samples, statistics and shutdown

`Sync.tla` follows a poll result from `processResults` to the tables: the atomics
of the statistics record one by one, the sample buffer, `flushSamples` called by
the reader, by its loop and by `Stop`, `flushStats`, and beside it the signal
handler of `main.go` with `Shutdown`, `Manager.Stop` and the return of `Run`.

- A sample is a member of a set; `rows` counts in how many rows it is stored. A
  batch is taken from the buffer under the mutex and inserted in one transaction
  that happens or fails.
- Statistics records have addresses (`Recs`), because a goroutine goes on with the
  record of a poller that was deleted; one nobody points to may be used again.
- `Restart` is a crash at any step followed by the next start, which loads the
  stored counters.
- `SampleLog.tla` is the abstract specification: a sample is accepted once, becomes
  durable with its batch, and is lost only with the process or in a batch that the
  store refused. `ImplementsLog` is the refinement: the buffer, the batches and the
  result in work are its `pending`, the rows its `log`. That the process runs, and how
  often it was started, are variables of the log too, so that what is pending can
  disappear at once only in the very step in which `Sync` exits or crashes; and a refused
  batch goes to `refused`, a history variable of `Sync` that only `InsertFails` changes.
  A sample that is dropped anywhere else while the process runs is no step of the log.

### Sessions

`Sessions.tla` models `handleConn`, the session manager and its cleanup, and the
requests that change a session. A connection's handler has a step for each lock it
takes: authenticate, try to restore, create, serve, lose. `Cleanup` collects under
the lock and removes one session after the other. Time is the age of a lost session
(`lost`), up to `Window + 1`; a session exactly as old as the window is neither
restorable nor expired, as in the code. The subscription index is not modelled: no
code calls the functions that fill it.

### Entities

`Entities.tla` has a namespace, a target in it, a poller of the target, and a
directory with links to both, each with its row and its cache entry.

- Create, Update and Delete of a manager hold its mutex around the statement; `Get`
  is three steps (look up, read, insert); a deletion counts the children in one
  statement and deletes in another, with the mutex held; the tree manager changes the
  store first and its cache later; a link is validated and inserted in two statements.
- A cached entity is an object with an address. `Get` returns the object itself, and the
  update handlers change it (`EditObject`) before they call `Update`, without the mutex;
  so does `SetLabels` with it. Whoever holds the object sees the change, in the cache as
  in the hands of another request, and when the statement fails or finds a conflict the
  change stays (`ShownCache`, `Shown`). The reload gives `Update` an object of its own
  (`NewObject`).
- An entity is its version and the number of its last write, which tells apart two
  entities of one name; handlers and managers differ in nothing else here.
- Every request of the namespace, target, poller and browse handlers is an action.
  `Watch` is the reload of the configuration file: a client with a list of requests,
  which takes the next one whether or not the last one failed.
- `StoreError` fails any statement; `Restart` empties the caches and runs the `Load`
  of each manager.

### Configuration

`Resolver.tla` has the four levels, the cache of one result with its age, and the
callers that use it: `GetResolvedConfig`, the scheduling of a poller,
`PollerManager.Update` (which asks for the interval before and after), and
`executePoll`. All fields are inherited in the same way, so one value stands for
them; `UpdateLevel`, `WritePoller`, `DeletePoller` and `CreatePoller` change rows
between any two reads of a `Resolve`.

### Targets of the first server version

`Targets.tla` has the targets of `internal/server` with their ring buffer and state,
the indices, the dispatcher, and the functions that read them: `Query`, `ListChildren`,
the tag directories and the paged listing. The buffer is an array with a write index,
compared with the sequence of the last samples (`kept`, a history variable). The
handlers that create, tag and delete targets are not in the repository; their actions
are modelled from the functions offered to them (for the targets of the configuration file and of
requests alike) and hold the server's mutex.

The answer to a request is computed in one state. `browseTargetList` does hold the
server's mutex for reading; `Query` and `browseTags` lock the indices, and `browseTags`
the server, several times, so that in the code a target can change between two of these
locks. Such answers are not modelled.

Ids are chosen by users, and a path is a sequence of strings: `Name` gives an id as one.
`browseTags` looks for ids among the segments of a path under `/tags` before it lists a
directory (`NamedBy`, `Naming`), and answers with the target when it finds one: for a
path of one segment in any case, for others if the target has the tag before the segment.
A target whose id is also a segment of a tag therefore hides that directory.

The `MC` modules add the symmetry sets and the constant functions of the runs.
`SchedulerProofs.tla`, `LifecycleProofs.tla`, `SessionsProofs.tla`, `ResolverProofs.tla`,
`SyncProofs.tla`, `StatsProofs.tla` (the statistics of `Sync`, on top of `SyncProofs`),
`EntitiesProofs.tla` and `TargetsProofs.tla` hold the proofs.

## What the runs check

| Run | Instance | Shows |
|---|---|---|
| `scheduler_churn` | 2 keys, 2 items per key, 2 workers, queues of 1; one key is removed, added, paused and resumed at any time | `NeverStranded`: no scheduled key is forgotten; `NoLostWakeup`; `StableOnce`: the other key is in exactly one place and has at most one poll in flight |
| `scheduler_live` | 2 keys, 2 workers, queues of 2, intervals 1 and 2, Stop at any time; fairness | `NoOversleep`; `PolledAgain`: a key in the heap is polled again; `StopEndsAll`: Stop ends all goroutines |
| `lifecycle_crash` | 1 poller, 1 client, 1 worker, failing statements, crashes | `HealthAgrees`; `CacheMatchesRow`: between requests, and after any crash and restart, cache and row agree; `ScheduledIffEnabled`: then exactly the enabled pollers are scheduled and the records have the stored admin state |
| `sync_flush` | 1 poller created and deleted, 2 results, batches of 2, 3 record addresses, failing statements, 1 crash, a signal at any time | `BufferBounded`: a full buffer is flushed by the one that filled it; `FlushedBeforeClose`: `Shutdown` leaves nothing in memory when it closes the store; `TotalsCovered`: a stored row is at most one poll per start ahead of its outcomes; `StoredOnce`; `ImplementsLog`: while the process runs a sample is only lost in a batch the store refused |
| `sync_live` | 2 results that time out, no crash; fairness | `PendingSettles`: no accepted sample stays in memory; `SignalEndsProcess`: shutdown cannot block |
| `sync_shutdown` (violated) | 1 result, no failures | `CleanExit`, what the comment on `SyncManager.Stop` says, for the whole process |
| `sessions_restore` | 3 connections, 2 sessions, 2 tokens of which one is restricted, 2 namespaces, window of 2; fairness | `OneConnection`; `ServedIsRegistered`; `BindingAllowed`; `BoundOnce`; `LostResolves`: a lost session is restored or removed |
| `entities` | 2 clients (one may be the watcher), an empty or a full store, a directory and a link to the poller, 3 objects for each entity, 1 content made, 2 by a reload | `StoredIsListed`; `OrphansAreInserted`: a deletion leaves nothing behind that refers to what it deleted, so only an insertion after an outdated check can; `CacheLeftBehind`: the three ways in which a cache comes to differ from its table, and that the next write of the row repairs it |
| `resolver` | 1 worker, 1 client, 2 values, results that live 2 ticks, 3 changes; fairness | `ResolvesEffective`: the levels read one by one give the most specific value; `ConfigCatchesUp`: stale results die out |
| `resolver_timeout` (violated) | a poller with and without a timeout of its own | `UsesResolvedTimeout`, what `config.reference.yaml` says |
| `targets` | 2 targets, with a host or without SNMP, 2 tags of which one is a prefix of the other, the ids being the two segments of the longer one, buffers of 1 and 2, pages of 1, 4 requests and polls | `IndicesAgree`, `TagsAgree`: the indices are exactly what the targets say; `RingKeepsLatest`; `QueryFinds` for every filter: when some target meets all criteria, the list is exactly those that do; `BrowseReaches`: below each of its tags a target is opened by its id, and where no id is in the way the tag is walked down to it; `ListingComplete`: a listing under changes misses no target that stayed and shows none twice |
| `targets_query` (violated) | 2 targets, with a host or without SNMP, buffers of 1 | `QueryMatches`, what the comment on `Query` says |

Why the bounds suffice. The keys of the scheduler interact only through the
queue, the order of the heap and the workers, so a key that is churned and one
that is not show every effect of one on the other; a queue of one is full after
one job; two workers allow two polls of one key. Pollers do not interact in
Lifecycle at all except through the flush, whose copies are independent, so one
poller is enough. CacheMatchesRow and ScheduledIffEnabled leave out pollers on which
requests overlapped or a statement failed (`disturbed`), so a second client would only
add states they say nothing of: one client is enough for TLC, and the theorems hold for
any number. Thresholds 1 and 2 reach every health state with a crash in between. In Sync two
results fill a batch, so a flush by the reader, one by the loop and the final one can
each have samples in hand; three addresses leave room for the record in the map, the
old one the reader holds and an old one a flush holds. One crash makes a half-counted
result permanent, and `TotalsCovered` counts starts, so more crashes add nothing new.
Three connections let two compete for a session a third one lost; two sessions and two
tokens show every mix-up between them. In Entities two clients give every overlap of
two requests; one write is enough for a row to differ from what a `Get` has read, and three addresses
let the cache and two requests hold an object each. In
Resolver two values tell the old result from the new one, and three changes allow a
deletion, a creation and an update during one `Resolve`. In Targets four events
(polls and requests, the start of a listing among them) wrap a
buffer of one and two and resize it afterwards, and delete and create a target between
two pages. Every run explores its whole state space. The proofs do not depend on these
bounds.

Fairness. In `scheduler_live` the loop and the workers are goroutines that run (weak
fairness), polls end because the SNMP client has a timeout, time passes and the result
reader reads until shutdown. A Go `select` with several ready cases chooses at random,
so the shutdown case is not passed over for ever: strong fairness of `LoopExit` and
`WorkerExit`. Nothing obliges clients to call anything. The queue has room for every key
in this run: when it does not, a key can find the queue full each time it is due and
`PolledAgain` does not hold. In `sync_live` goroutines run, tickers tick and the select
of a flush loop takes its shutdown case (strong); results and signals may never come,
and the reader may go on reading results for ever only as long as there are any. In
`sessions_restore` the cleanup loop runs, time passes and handlers go on; clients need
not do anything. In `resolver` time passes and a `Resolve` that began goes on.

Deadlock is checked in every passing run but `targets`, which stops after its bound of
four events: in the others no reachable state lacks a successor. `Over` in Sync is the
process that has ended.

## Findings

- A signal loses samples (`sync_shutdown`). `Shutdown` closes the listener, `Run`
  returns and `main` ends the process while the goroutine of the signal handler has
  still to stop the scheduler and flush. If that goroutine wins, its second `mgr.Stop`
  closes a closed channel and panics (`StopAgain`).
- Inherited timeouts and retries are never used (`resolver_timeout`):
  `ParseSNMPConfig` fills in 5000 ms and 2 before `executePoll` looks whether they are
  unset.
- A filtered list may have targets that do not meet the filter (`targets_query`). "Query
  returns target IDs matching all filter criteria" (`indices.go:297`), but the helper of
  `Query` returns on an empty set without noting that a criterion was given, so the
  criteria before the first one that some target meets do not count: the targets of a
  host in a state that no target has are all targets of the host. `QueryFinds` is what
  does hold: the list is exact whenever some target meets all criteria.

Other behaviour the models have because the code has it, and for which the properties
make room:

- After `Remove` and `Add` of a key whose job is in flight, the new item is not marked
  as polling and the key can be polled twice at once; `StableOnce` is therefore about
  keys that are not removed. The same completion changes a time in the heap without
  `heap.Fix`.
- A result recorded between the copy and `ClearDirty` of `flushStates` is neither in the
  store nor dirty until the next change.
- A poller created enabled is polled while its oper state is stopped, and is deleted
  without the refusal that a running poller gets.
- Overlapping enable and disable requests can leave a disabled poller scheduled
  (`disturbed`).
- A force deletion of a namespace or target leaves its contents in the caches, in the
  state manager and in the scheduler; a target can be created in a namespace that does
  not exist; a link can be inserted after what it names was deleted.
- `UpdatePoller` changes the cached poller in place, so `PollerManager.Update` finds the
  same interval before and after and does not tell the scheduler.
- An update that fails or finds a conflict leaves its change in the cached object, where
  later requests read it, until the next write of the row succeeds.
- "/tags/<path> Targets with specific tag" is what the help of the command line client says
  (`cmd/snmpctl/commands/nav.go:100`). A target whose id is a segment of the path is shown
  in the place of the directory (`browse.go:402-438`); the targets of that tag are then
  reachable by their ids below it and not listed. `BrowseReaches` claims the walk only
  where no id is a segment of the tag.
- `Subscribe` never reaches the index that `BroadcastSample` uses, and a handler whose
  connection is lost waits for its writer for ever.
- Reading code beyond the models: a reload changes the admin state of a poller through
  `Update` without the state record and the scheduler (`loader.go:396`); the watcher
  remembers the modification time of a file it could not load (`loader.go:510`);
  `targetToProto` takes the server's read lock while its callers hold it, which can
  block when a writer waits in between (`browse.go:877`); the version that
  `NamespaceManager.Update` compares is the cached one, not the client's
  (`namespace.go:121`); the readers of `LIKE` with `_` in a name match more links than
  meant (`store/target.go:293`); a client's requests in flight when the connection
  breaks wait for their timeout (`client.go:167`).

## What is proved

Every invariant and every action property that a passing run checks is a theorem, and so
is the refinement of `SampleLog`. The theorems hold for every set of keys, workers,
clients, targets, hosts and tags, every queue size, interval, threshold, token, window,
batch, buffer and page size, and every number of samples, writes and restarts allowed by
`SchedulerAssumption`, `ThresholdAssumption`, `LifecycleAssumption`, `SessionsAssumption`,
`ResolverAssumption`, `SyncAssumption`, `EntitiesAssumption` and `TargetsAssumption`
(positive sizes, tags that are not empty, and a `None` that is no other value).

Scheduler (`SchedulerProofs`):
- `TypeCorrect`; every further invariant is proved on top of it.
- `WakeupNotLost`, inductive with the types.
- `NeverStrandedHolds`, from `StrandedInv`: the items in `due` belong to a loop
  that is queueing, and an item that is marked as polling and is still the item of
  its key is about to be queued or has its job in flight. The second part is what
  makes dropping a marked item from the heap ("Skip if already polling") harmless.
- `StableOnceHolds`, from an invariant that counts the places of a key: heap,
  due items, queue and workers exclude each other for a key that is neither
  removed nor paused.
- `NoOversleepHolds`, under the extra assumption that no key is removed or paused.

Lifecycle (`LifecycleProofs`):
- `TypeCorrect`, from `TypeInv`: a pointer that counts as held points to a record
  of the map (`PointersOK`), and nothing goes on in a process that is down
  (`DownIdle`). Without `PointersOK`, `MarkRunning` on the record of a deleted
  poller would put a non-record into the map.
- `HealthAgreesHolds`: each method keeps health and failures in agreement, and
  every copy (flush, row, load) takes both from one record.
- `CacheMatchesRowHolds`, from `CacheInv` and `BootInv`: only one goroutine works
  on a settled poller, one that missed it in the cache will find no row, and none
  is about to fill the cache; during the start only `Run` changes anything and
  every poll finds its poller in the cache.
- `ScheduledIffEnabledHolds`, from `ReadyInv` and `BootDone` on top of the three
  above. The property speaks of moments between requests, so alone it says nothing
  about the steps that lead there. `Ready(k)` does: a goroutine that is going to
  register the poller sees an enabled row, one that is going to remove it a disabled
  one, and when nobody is due to do either, scheduler and record are in line with the
  row. `BootDone`: when the server serves, the start has registered all it had to.

Sessions (`SessionsProofs`), all from one inductive invariant `IInv`:
- Its parts are the types, `Registered` (a session that is registered, indexed or about
  to be removed has a state record, under the token that indexes it; what `Cleanup`
  collected has been lost for longer than the window), `HasToken` (a handler past
  authentication has a token), and the three state properties below.
- `OneConnectionHolds` and `ServedIsRegisteredHolds` need each other: only a lost session
  is restored, a served one is not lost, so no second connection can take it; and what
  the cleanup collected is past the window, where no restore can reach it any more.
- `BindingAllowedHolds` and `BoundOnceHolds`: only `BindNamespace` changes a binding, only
  `MayBind` lets it, and neither loss nor restore touches it.

Resolver (`ResolverProofs`), from `TypeOK`, `Jobbed` and `Reading`:
- `Jobbed`: a job counts levels only while it resolves, has a configuration after the
  server level, and its poll has a timeout. `TypeCorrect` needs it, since a missing
  configuration has no fields to apply a level to.
- `ResolvesEffectiveHolds`, from `Reading`: as long as no level has changed since it began,
  a resolution holds what the levels it has read so far set; after the fourth that is the
  effective configuration. `Upto` is this value after `n` levels, with one lemma for a
  further level and one for all four.

Sync (`SyncProofs`), all from one inductive invariant `IInv`:
- `OnePlace`: a sample is in at most one of `fresh`, the result in hand, the buffer, one
  batch and the rows. `Control`: who may hold samples where; once the goroutine of `main`
  is past a wait, those it waited for have ended, and past its own flush the buffer is
  empty. `Bounded`: the buffer is finite and within its bound.
- `StoredOnceHolds` and `BufferBoundedHolds` are parts of it; `FlushedBeforeCloseHolds`
  follows from `Control`.
- `ImplementsLogHolds` is the refinement: `Receive` accepts, `Insert` commits the batch of
  its goroutine, `InsertFails` refuses it (a closed store cannot be the reason: by
  `Control` no goroutine is at its insert then), `DeletePoller` erases, `StopAgain` and
  `RunReturns` are the log's `Exit`, `Restart` its `Crash`, and every other step leaves the
  abstract variables alone. Taking the buffer and appending to it are such steps because
  of `OnePlace`. Most steps only move the statistics: `Quiet` says what they have in
  common, so that the invariant is shown for them once.

Statistics (`StatsProofs`), from `SInv` on top of the `IInv` of `SyncProofs`:
- `TypeCorrect` is `TypeOK` of the whole of `Sync`. It needs `Held`: who counts a result or
  reads a record has one, although `Delete` takes records out of the map meanwhile.
- `TotalsCoveredHolds`. A record has at most one poll without an outcome for every start,
  and one more while `processResults` is between counting the poll and its outcome
  (`RecsCovered`). `GetStats` loads the counters one by one: `ReadCovered` bounds the total
  it has read by the outcomes it has read and, for those it has not, by the record itself,
  whose outcomes can only grow. This is where the order of the loads matters. From there
  the bound goes to the copy (`SavedCovered`) and the row (`RowsCovered`). A restart makes
  records of the rows again, so that the half counted result becomes one per start.

Entities (`EntitiesProofs`), from `IInv` = `TypeOK`, `ReqOK` and `Listed`:
- `ReqOK`: what a request works on at each of its steps (pollers are not deleted in
  steps, only links are validated, a `Get` at its insertion has read a row). Nearly all
  steps belong to a request; `Effect` lists the few things a step can do to rows, caches
  and the index, and the properties are shown once for each of them.
- `StoredIsListedHolds`: `Listed` is inductive because every insertion of a row fills the
  cache under the same lock, a deletion that empties the cache deletes the row first, and
  a restart loads namespaces and pollers from the rows.
- `OrphansAreInsertedHolds` and `CacheLeftBehindHolds` are action properties: for each
  effect, which reference it breaks, which cache it leaves behind, and that one which
  writes a new version of a row makes the cached object what it writes. In place changes
  are an effect of their own: one object changes for all who hold it.

Targets (`TargetsProofs`), from `IInv`:
- `RingKeepsLatestHolds`, from `RingOK`: the `i`-th oldest of the `count` samples is in
  `Slot(writeIdx, size, count, i)`. The property itself, which compares what is read
  with the history, is not inductive: a write needs to know every slot. `Wrap` replaces
  the remainders of `WriteSample` and `ReadLastN`, `WriteHolds` and the lemmas for a
  resize, up or down, and a read follow slot by slot.
- `IndicesAgreeHolds` (`PlacesOK`, `DispatchOK`: a target under dispatch is not deleted, and
  is still indexed under its old state) and `TagsAgreeHolds` (`TagsOK`), one id and one
  index entry at a time: removing a tag keeps the prefixes that other tags of the target
  need.
- `QueryFindsHolds` follows from the two: each index that `Query` reads is the set of
  targets that meet one criterion, none of these sets is empty when some target meets all,
  and so none is skipped (`IntersectNarrows`).
- `BrowseReachesHolds`: the last segment of a tag with the id appended is the id of one
  target only, since names differ, and that target has the tag before it (`OpenedById`);
  without an id among the segments `BrowseTags` is the directory (`DirectoriesUnshadowed`),
  which `TagsOK` relates to the tags of the targets.
- `ListingCompleteHolds`, from `PageOK`: up to the cursor the client has seen all that
  stayed, and nothing beyond it; a page takes the smallest ids after the cursor.

Only model-checked, because liveness under fairness is out of the prover's reach:
`PolledAgain`, `StopEndsAll`, `PendingSettles`, `SignalEndsProcess`, `LostResolves` and
`ConfigCatchesUp`.

## Not modelled

- The SNMP library, DuckDB and TLS are external. Framing, protobuf and the conversions in
  `bridge` have no state. The command line client and the parsing of configuration files
  are text processing.
- Secrets (their table and its encryption), the status handler, the history and statistics
  requests and the deletion of old samples: reads, or a single statement.
- The first `Apply` of the loader, which runs before there is a client. The loader calls
  `mgr.Tree.Create`, which the tree manager does not have; the links of the file are
  modelled as `CreateLink` makes them.
- The poll heap of the first server version: it has the structure of
  `internal/scheduler`. It differs in `MarkPollComplete`, which pushes the item without
  looking whether it is in the heap.
- The client library; the subscription index and the send channel, which nothing fills.

## Plan

1. `Scheduler`, `PollerState`, `Lifecycle` with their proofs (done).
2. `Sync` with the abstract `SampleLog` (done), `Sessions` with its proofs (done),
   `Entities`, `Resolver`, `Targets` (done).
3. Proofs of all invariants and action properties of the passing runs, and of the
   refinement (done).
4. `Client`: pending requests against lost connections and reconnection; a composition of
   `Entities` with the scheduler registration of `Lifecycle` for force deletion.
