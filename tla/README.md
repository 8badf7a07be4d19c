# libkalburator in TLA+

A model, model checks and machine-checked proofs of libkalburator: the runtime
a host drives, the dispatch of mappings over worker threads, the three-way
reconciliation of one mapping, the way of a conflict and of its answer, and the
backends a sync reads and writes, on disk, on CalDAV servers, in the clouds of
Google and Microsoft and in a DecSync directory. Paths are relative to the repository; `syncengine.cpp`
is `src/engine/syncengine.cpp`.

## Inventory

libkalburator keeps calendars, contacts, tasks, notes and files of several
backends in step. A *mapping* names a source and a target collection
(*endpoints*), a mode and a conflict policy; a *run* reconciles the enabled
mappings, some of them, or one.

| Part | State | Operations | What is hard |
|---|---|---|---|
| `SyncEngine` | dispatch tables (`m_inFlight`, `m_inFlightEndpoints`, `m_pool`), pass state, skip verdicts, pending resolutions | `runSync`, `pumpQueue`, completion and error slots, cancel, lost resources | slots re-entered between two steps of the pump; queued signals of several threads |
| `MappingQueue` | mappings left, results, lost resources, mode | `prime`, `nextEligible`, `drain` | always changed on behalf of the engine |
| `SyncEngineWorker` | one request, fetched records, diff, merge | first sync, fetch, clobber, conflict walk, apply, read-back, save | failure between two side effects; users who edit meanwhile |
| `perRecordDiff`, mirrors | none | pure classification of a record by two sides and a row | per-side hashes, records missing on one side |
| `BaselineStore`, `IdMappingStore` | rows of hashes, aliases, tokens (SQLite) | save in a transaction, migrate, quarantine | crash between data and rows |
| `SyncConflictStore`, `ConflictManager` | conflict rows, dialogs | record, list, resolve, remove | answers that arrive at any time; restart |
| `CollectionRuntime`, `SyncRunCoordinator` | registries, leases, run state | open, prepare, run, cancel, close | teardown during a run |
| `BackendRegistry`, `ProviderManager`, `ProviderLifecycle`, `BackendExecutor` | backends, their threads | register, load, mutate, shut down | half-done mutation; waiting across threads |
| `SyncOperation`, `WriteOperation`, `SyncBackendBase` | one asynchronous operation | start, complete, fail, cancel | exactly one end; partial batches |
| local calendars (`LocalBackend`), `AsyncFileWriter` | files, a queue of writes, a fingerprint of the directory | stage, fetch, push, delete, apply | a writer thread and other programs on the same files, no locks |
| `RemoteCalendarBackend` (CalDAV) | ctag, sync token, content cache, etags | fetch by ctag, token, report or listing; batched reads; windowed writes | a tag ahead of what was read, answers nobody waits for any more |
| `CalendarJournal`, `CrashJournal` | a file of lines | append, replay, discard | a torn line, a crash between rewrite and rest |
| `SyncMappingGenerator`, `TransformationRegistry` | edges, topology | generate mappings, find a pipeline | pure algorithms |
| Google and Graph backends and clients | sync tokens, cached rows, a state file | page, merge, retry, commit; batches of requests | expired tokens, half-read listings, lost and late requests |
| DecSync: directory, controller, garbage collector, backend | entries and sequence numbers of several applications in one directory; what was last agreed on, activity, deletions | read, merge by property, write, compact, purge, onboard; create, promote, delete a calendar | writers that never meet, files copied in any order, a hybrid of two directories |
| DAV providers, contact, todo, note and filtered backends | little | discovery, conversion, selection | order of replies |
| codecs, merging, shapes, types, plugins, user interface | little | conversion | data rather than control |

How they interact: a host calls the runtime, which calls `SyncEngine::runSync`;
the engine posts requests to worker threads and the workers answer with queued
signals (`syncCompleted`, `conflictDetected`, `conflictPauseRequested`). A
worker reads and writes backends on their own threads, and the stores on theirs
through blocking calls. Conflicts reach `ConflictManager`, whose answers come
back to the engine as a direct signal, from inside nested event loops.

What makes each part correct:

* engine: no two mappings work on one endpoint at once; every lease is answered
  once; nothing a run took on is dropped; one run converges whatever the order;
  every run ends;
* worker: every write has a cause, a missing record is deleted elsewhere only
  if a user deleted it, the rows tell the truth after every failure;
* conflicts: an answer is not lost, is used when it fits, and never overwrites
  what it was not for;
* runtime, providers: changes of the topology are undone or end in an explicit
  state of repair (where they are not is listed below), leases are finished
  once, success is earned, teardown is bounded (`docs/INVARIANTS.md` 1-3, 17);
* backends: operations end once; a fetch that succeeds tells the truth, because
  a record it leaves out is a deletion to the engine (invariants 4 and 5); a
  tag or token is never ahead of the content it stands for, because the change
  it hides is never read again; a fingerprint goes with the records it was
  taken with and with the engine's own writes; a write replaces what its
  caller had read.

## Modules

| Module | Models |
|---|---|
| `SyncRun` | the engine thread, its queue, the worker pool and their signals |
| `SyncRunInv`, `ReconcileInv`, `ConflictAnswersInv`, `CloudCollectionInv`, `LocalBackendInv`, `RemoteCalendarInv`, `CollectionRuntimeInv` | the inductive invariants of the modules they are named after |
| `SyncRunProofs`, `ReconcileProofs`, `ConflictAnswersProofs`, `OperationQueueProofs`, `CloudCollectionProofs`, `LocalBackendProofs`, `RemoteCalendarProofs`, `CollectionRuntimeProofs` | the theorems about them |
| `SyncRunSettled` | `SyncRun` with a history variable, to state convergence |
| `Reconcile` | one mapping reconciled over and over |
| `ReconcileClaims` | what a comment says of it and the code does not do |
| `ConflictAnswers` | conflict, row, dialog or list, answer, replay |
| `ProviderManager` | the accounts of a runtime, connecting, and their backends |
| `CollectionRuntime` | extends it: topology transactions, runs with leases, reset, destruction |
| `OperationQueue` | the operations of one collection of any backend, started one at a time |
| `AsyncFileWriter` | the thread that writes staged files |
| `LocalBackend` | extends both: a calendar that is a directory |
| `StagedBatches` | abstract: what staging changes promises; `LocalBackend` implements it |
| `RemoteCalendar` | extends `OperationQueue`: a calendar on a CalDAV server |
| `CloudCollection` | extends `OperationQueue`: a collection of a Google or Microsoft account |
| `DecSync` | a calendar in a directory of several applications |
| `SyncRunInstances`, `MC...` | topologies, requests and budgets for TLC |

How they compose. `OperationQueue` is one module because `SyncBackendBase` is
one class: three backends extend it, and its actions are conjuncts of theirs.
`ProviderManager` and `AsyncFileWriter` have variables of their own and are
composed in the same way. Between the engine and its surroundings the modules
meet at an interface each side abstracts: `CollectionRuntime` sees of the engine
a result for each mapping it took, which is what `SyncRun` shows of it;
`Reconcile` sees of a backend a fetch that is complete or fails and writes that
fail one by one, which is what `FetchTellsTheTruth` and `SuccessTellsTheTruth`
say of the backends; `SyncRun` sees of a fingerprint or token a verdict, whose
truth is `FingerprintFollowsFiles`, `TagsBehindCache` and `CacheAtToken`, within the limits
each of them names.

A definition named like another with a suffix or prefix (`TakeButKeep` beside
`Take`, `RowForAny` beside `RowFor`, `ResyncedAgain` beside `Resynced`) is a
plausible slip in the code it stands beside; no specification uses it, and
`PROJECT.json` says which property it breaks.

A *budget* is how the modules of the backends name their bounds: a record,
chosen in the initial state from a small set, of how many changes by others,
failures, cancellations and restarts a behaviour may have and which operations
it may start. One run then covers many scenarios without their product.

### SyncRun

Variables carry the names of the members of `SyncEngine` they stand for (see
the declaration). One action is one slot of the engine thread, with one
exception: each round of the loop of `pumpQueue()` is an action (`PumpLost`,
`PumpSkip`, `PumpDispatch`, ... , `PumpFinish`), because workers run while it
loops; `pc` keeps other slots out. `mail[s]` is the event queue of worker `s`,
`out[s]` what it has signalled and the engine has not read. A worker takes a
request, ends it with a result and the sides it wrote, pauses for a monitored
conflict, or abandons its walk when it finds its cancel flag set
(`WorkerAbandon`, `syncengine.cpp:4125-4128`). Hosts start runs, cancel through
the future or with a reason, toggle mappings, answer conflicts and report lost
resources. `pass` and `resPasses` are bounded by the code's own
`kMaxSyncPasses` and `kMaxResolutionPasses`; `PoolLimit` bounds the host's
`m_maxConcurrentMappings`. There is no other bound.

Not in it: destruction during a run, `setSyncMappings()` during a run, the
values of the progress tokens.

### Reconcile

`data` is what the two collections hold, `rows` the saved baseline with one
hash per side, and a run goes through fetch, apply (once per side), write
(record by record), read-back and save, so that a failure or an edit may fall
between any two of them. `Diff` translates `perRecordDiff()` (`DiffOp`), the
filters of the mode, the policies and the conflict walk into one `plan`;
`MirrorAll` is the mirror path, `StartFirstSync` and `HarvestedRow` the quick
first sync, `Wipe` the clobber. A hash is that of the side's own encoding:
equal contents have different hashes on the two sides (`TargetCoding`).

Three history variables judge the code from outside: `unsynced` and `gone` are
what users did since the record was last in step, whatever the rows say, and
`marks` are the events after which the code itself documents that the baseline
of a record may be wrong (an edit during a run, a record created again where a
dead row remained, writes withheld or denied, an interrupted run, a wiped
target). Each property names the marks it is subject to. A save makes up for
the edits of the records it leaves equal, but under the policy Skip, where the
same edit on both sides stays a conflict, only for those whose row says so.

Bounds: `MaxEdits` for edits of users, `MaxFaults` for refused writes, failed
reads, failed saves, crashes and changes of access. Left out: aliases of ids
and the identity-conflict guard that needs them, transcoding, recurring masters
with exceptions, `Duplicate` and `CustomMerge`.

### ConflictAnswers

One mapping of policy AskUser, in unmonitored runs (the monitored pause is in
`SyncRun`). A *version* is a content with its time of last modification. `rows`
is `SyncConflictStore`, `identity`, `pending`, `waiting`, `scheduled`, `fresh`
are the engine's members, `screen` what users have before them: dialogs run
event loops of their own and lists stay open, so `Answer` may come at any
moment, for versions that are no longer there. A fetch and the walk after it
are one action; the second of the two writes of `Reconcile` and the read-back
are too, as nothing here depends on where between them it fails: `WriteFails`
leaves any part of the batch written. `Restart` keeps data, baseline and store.

Bounds: `MaxEdits`, `MaxRows` (a conflict walk is not started when it might
insert more rows), `MaxFaults` for failed writes and restarts, `MaxPasses` in
the place of `kMaxResolutionPasses`. The clock of `resolved_at`, which counts
whole seconds, is an order of the answers. Left out: merged payloads, the
automatic workflow, several mappings, cancellation.

### CollectionRuntime and ProviderManager

One thread that re-enters. `applyTopology()` is a sequence of actions
(`ApplyTopology`, `Joined`, `ApplyPrepared`, `ApplyMutation`, ... ) because it
waits for connections in a nested event loop: providers report there, and hosts
may call from there. `InLoop` says where events can be delivered. `Leave` is
every error path: what was staged is restored, and that waits too. `Compensate`
undoes the collection mutations backwards; what cannot be undone sets `repair`.
A mutation that fails may have been done all the same: an answer is lost, or
`LocalBackend::updateCalendar()` (480-539) saves one half of the metadata and
not the other. `torn` is, as history, what a transaction changed for good
without knowing: such a mutation's collection, one that was created although it
was there, and one that is left to a backend the restored accounts have
replaced, whose undoing works or only says it did. `FailedApplyIsUndone` excepts
these, and only these; they are findings below.
A run prepares its leases one at a time, starts the engine, collects results,
and ends in `EndRun`, whoever ends it. A connection that ends after its account
was destroyed is an *orphan*: it resets whoever has the id by then.

Provider `p` stands for its backend, its endpoint and its mapping to the hub,
so the shape of the topology is fixed and its members vary. Hosts call what
`docs/CONSUMING.md` allows them: they add no provider in the nested loop of
`applyTopology()` (`HostsAddWhileApplying`); the code does not check, see below.
No variable is bounded. Left out: the queries, conflict forwarding, collection
calls outside a transaction, `SyncRunCoordinator`, the threads of backends.

### OperationQueue

`enqueueOperation()` and what follows it: an operation is pending until its
turn, its body starts one turn of the event loop later, and it ends once.
Callers cancel it or delete it when they like. Deleting one that is not over
jams the queue (below); `DeletesEarly` lets callers do so, and the runs say
they do not.

### LocalBackend, AsyncFileWriter and StagedBatches

A file holds a *family*, a master and its overrides. Three parties write it:
the backend's thread (`applyRecords()`, `pushItems()`, deletions), the writer
thread for what `startSync()` staged, and other programs. The writer truncates,
then writes: between the two the file is `Torn`. `stamp` is a file's time and
size. A fetch stats, then reads (`FetchStats`, `FetchReads`); `applyRecords()`
writes, then stats (`ApplyWrites`, `ApplyStats`), and patches the listing of the
last fetch into the revision it returns (`token`). `meant` is, as history, what
all calls together ask for; `disturbed` the families somebody changed while a
batch held them, or that a write or a deletion failed to change: a failed
`removeItem()` is logged and `startSync()` answers as if it had worked (`kept`),
so nothing is promised of them. `pass` is what the last fetch gave, `known` what
the directory looked like as that fetch began, with the engine's own writes
since. `FingerprintFollowsFiles` says two things: a file that looks as the fetch
saw it holds the record the fetch gave, though look and read are two steps; and
the fingerprint returned after writes is that of the directory as long as nobody
else writes. That a change by others never hides in it, which the code claims
too, is not so (see below), and nothing here says it.

`StagedBatches` is the promise: one answer to each call, in order, a success
only when every family was written, and an answer as long as the backend
exists. `ImplementsStagedBatches` maps the queue, the batch in flight, the
writer's queue and its tally to it, fairness included: the event loop and the
writer thread of `FairSpec` imply that of the abstract `Progress`.

Bounds: budgets; a chunk of a fetch is one file, a batch of the engine one
record, a call deletes at most one component of a family. An error that only
shows when the file is closed is not noticed by the code; `Noticed = {TRUE}`
leaves it out. Left out: creating, renaming and deleting calendars, the file
watcher, raw access, metadata.

### RemoteCalendar

The server numbers its changes; ctag and token are the number of the last one,
an etag that of the item's own. A fetch goes from the ctag to a token report or
a listing, then to batched reads (`CtagAnswered`, `ProbeAnswered`,
`ReportAnswered`, `ListAnswered`, `MultigetAnswered`, `TokenAnswered`); each
answer is the server's at that moment, so changes fall between any two. The
pump starts as many of the next writes as its window has room for (`Firsts`,
`Room`); a write is sent, arrives, is answered or
given up by its watchdog, and what was given up may arrive later (`late`).
Cancelled probe and token requests are `stray`: the code uses their answers.

Writes that go round the queue are in `direct`: a batch of `startSync()`, whose
items are all sent at once and which retries a refused item, as an update and
then for any version (`Again`); `removeItem()`; and `createRecord()`,
`updateRecord()` and `deleteRecord()`, which wait in an event loop of their own
while fetches go on. A fetch keeps the ctag it compares with (`cur.stored`) and
the token its report carried (`cur.from`), for these writes clear both meanwhile.

Two histories except what the code gets wrong (below): `omitted`, items the
server left out of a batched answer, and `masked`, items changed in one of four
windows in which a tag gets ahead of the cache, until they change again: an item
deleted after an update that was answered without an etag (`Orphans`); one that
changed before the token is taken and is not in the cache, or will be put back
there in an older version (`Unseen`, `Returning`); one that changed between a
listing and a discovery that replaces the staged ctag (`Discovered`); and one
whose write outside the queue is answered after a newer version was fetched
(`DirectNoted`). Bounds: two items, chunks of
one, a window of one, budgets, and `MaxSeq`. Left out: raw reads, composite
ids, managing calendars, collection revisions.

### CloudCollection

Five backends share a skeleton; `kind` says which is meant and the operators
`HasToken`, `ClientWalks`, `Retries`, `MergeBase`, `Row`, `HasCarriers` say
where they differ. A walk takes page after page into a copy of the cached rows
and commits it with the next token (`FinishFetch`). A transient error is tried
again up to `Attempts`; an expired token (410) begins a listing of everything,
once; the walks the client drives stop after `MaxPages`. A batch is sent record
by record; on Graph's to-do lists and contacts a *carrier* request follows with
what could not go with the record, and a 404 on deletion is confirmed by a
listing. The state file is replaced, kept or lost when it is saved.

A row has a main part and an optional field, which is where the union merge and
the skeletons of Graph lose information (`Agrees` excepts that). Items that slip
past the offset of a listing while a page is deleted are `missed`, and so are
those a walk of contacts leaves out after a page that breaks off (`PageCut`): a
good status and a body that is no object, which that walk takes for an empty
last page and the other four refuse. Bounds:
three items on pages of one, budgets; `MaxSeq` is never reached by them. Left
out: discovery, authentication, synchronous variants, the aliases of created
ids, refusals of an etag, updates of people with nothing to update.

### DecSync

`files[a][u]` are the entries application `a` holds for record `u`, in the
order of its file; a record is read as the newest of them (`ReadAllResources`),
and of several in one second as that of the first application by name. Our
application writes `files[Own]`. The others write on `device`, and `CopyFile`
and `CopySequences` bring a file and the sequence numbers that announce it here
one by one, as Syncthing does, in any order and with clocks that may be ahead.
A clock tick is a second to the merge and a day to the collector.

`Preprocess` (behind `FetchItems`) and `RunActiveSync` are the two loops of the
controller over `Verdict`, which is `mergeEntries()`; `Changes`, `Contested`,
`ChosenFor` and `Rebuilt` are its steps. `Apply` is what either loop then writes,
remembers (`baseline`), logs and notes of activity, for all records at once: it
is one function on one thread. The four parts of the garbage collector are an
action each, as hosts may call them singly; `learns` says whether the owner of
a file that was compacted or purged hears of it before it writes again.

The calendar "X" is made of `calendars/X` and, for a hybrid, `tasks/X`.
`exists` and `info` are the two directories, `hybridIds` and `cached` what the
process remembers of them and `Restart` forgets. A write creates the side it
needs (`PushItem`), a deletion marks those it finds.

Histories. `got` are the entries `getNewEntries()` has returned; `NothingMissed`
excepts files read before the copy their number announced (`overtaken`) and
those whose numbers the two sides count apart after a compaction or a purge
(`adrift`). `meant` is the register of last writes the directory ought to be;
it becomes `None`, and stays so, where the code is known to lose something: a
merge that is `Flawed`, an onboarding with outdated values, a last copy that is
compacted or purged away. So `RegisterKept` says that all other merges hold
every change they met, that a conflict goes to the last write, and that nothing
else changes a record. A conflict is `Flawed` when its winner lacks a change of
the loser to another property, or when two changes are of one second. `made` and
`announced` are what `CalendarKept` compares discovery with.

Bounds: two records, of which one is a to-do, three properties of which two can
be set, three values, four seconds, two other applications, one before ours by
name and one after; the budgets of `MCDecSync` say who wrote before, who writes
what, and how often. Only those of `Contesting` use the third value, which it
takes for two applications to disagree about a property (`Contested`, `ChosenFor`,
`WinnerOf`, `Conflicts`), on two properties with one change of each; the others
keep to two values, of which one is that agreed on, so nothing is contested there. Left out: to-do lists with ids of their own (`tasks/X`),
names and colours, raw access (it writes as `PushItem` does), reading in chunks,
the monitor of Syncthing, and hash files that several records share.

## Runs

| Run | Instance | States | Shows |
|---|---|---|---|
| `sync_run` | 3 mappings, a DAV server with cap 1, two mappings on one collection, queue, monitored and single runs, both cancellations, a lost server, two mappings with conflicts, DecSync controllers | 996,232 | the safety properties of dispatch and the inductive invariant |
| `sync_setup` | a chain of two mappings and a third, clobber, subset, monitored and single runs, controllers, a mapping toggled, a conflict, fair event loops | 97,243 | a run converges, and every run ends |
| `reconcile` | two records, two contents, two-way; one record under every mode, mirror, clobber, first sync and a target that turns read-only; 2 edits, 1 fault | 2,409,755 | causes, deletions, rows, equality, that a clobber spares the source, and the inductive invariant |
| `conflict_answers` | two records, 3 edits or deletions on either side, 2 rows, a second pass, 1 failed write or restart | 616,466 | answers are durable, used, and harmless |
| `runtime` | two accounts, one bound to a device, four topologies with six kinds of mutation, which fail before or after they are done, three selections | 535,824 | leases, success, what a failed topology undoes, agreement of the accounts, and that calls return |
| `local_files` | two files, one a series with an override; two staged batches, two fetches, a push, a deletion, batches of the engine, a foreign edit, a failing write or deletion, the destructor | 466,875 | nothing staged is lost, answers in order, a fingerprint follows the files |
| `remote_calendar` | two items, two fetches, each kind of write through the queue and round it, changes by others, failures, cancellation, discovery, restart | 205,026 | no tag ahead of the cache, fetches tell the truth, operations end |
| `cloud` | five kinds, three items on three pages, two fetches or a batch, changes by others, failures, a page that breaks off, cancellation, restart, a server that refuses every token or never ends its pages | 156,881 | no token ahead of the rows, success is true, operations end |
| `decsync` | two records, three applications, files and numbers copied in any order; merges and conflicts, compaction, purge and onboarding; a hybrid created, promoted, deleted and looked for after a restart | 989,162 | no entry is missed, the directory stays a register of last writes, a calendar is found as it was created |
| `cancel_hang`, `readonly_delete`, `blind_overwrite` | the smallest instance each needs | | one statement of the repository each, refuted |

Why these bounds are enough. Dispatch compares mappings in pairs, so three
mappings with a shared server, a shared collection and neither give every
relation between two plus a bystander; two workers give every race between two
completions. A record interacts with another only through the batch they share
(a failure, a hold, a guard), hence two; a history needs an edit on each side
and a fault between them to mislead a three-way diff. A conflict takes two
edits, and the third makes its answer stale; one record with both answers, and
two records with both answers and deletions on the target only, were checked as
well and agree (2,000,000 states, slower). The run keeps `TargetWins`, the
answer that meets the record without id when the target is deleted.

Two accounts are one the topology keeps and one it drops or waits for; a
transaction of two mutations has one to undo when the second fails. Two files
and two batches are one batch that waits for another, on the same family or
not. Two items, of which one changes while the other is read, with a chunk of
one put a change before, between and after any two answers. Three rows on pages
of one are a page before, at and after the change; two attempts and four pages
let each limit be met and exceeded. The budgets keep apart what does not
interact (a restart and a discovery, say) and each hazard of `PROJECT.json` has
one in which it happens: TLC reports that every action of these modules fires.

The type invariants of `Reconcile`, `RemoteCalendar`, `CloudCollection` and
`DecSync` hold on the instances above as well; their configurations leave them
out and keep to the properties of the code.

Deadlock is checked where a step is always possible; the configurations that
switch it off say why.

Fairness. `SyncRun!Fairness`: weak fairness of the engine thread and of each
worker's event loop, as Qt delivers posted events, and strong fairness of the
end of a sync that is not abandoned, as its list of operations is finite and a
pause, once answered, does not come back for ever. Nothing is assumed of hosts,
of cancellations, or of a worker that has abandoned its walk.
`CollectionRuntime!Fairness`: an application of a topology goes on, as its wait
for connections has a timeout (`kProviderConnectTimeoutMs`); the hooks of leases
return, as invariant 14 asks of every backend operation; the engine answers a run that was not
cancelled, which `RunTerminates` of `sync_setup` shows; the destructor goes on.
`LocalBackend!FairSpec`: the event loop and the writer thread. `RemoteCalendar`
and `CloudCollection`: the operation whose turn it is goes on, and a request
arrives, since each has a watchdog or a timeout of its own; nothing is assumed
of late requests, of servers, or of other clients. No fairness asks for a
cancellation, a failure or a restart.

## Where the code and its documents disagree

With a run:

1. `cancel_hang`: a worker cancelled inside the conflict walk returns without a
   completion (`syncengine.cpp:4127`); the run stays open for ever, although
   line 3985 takes the completion for granted and invariants 2 and 3 of
   `docs/INVARIANTS.md` promise it.
2. `readonly_delete`: writes withheld from a read-only side count as success
   and save rows (4485-4499, 4850); when the side is writable again the records
   it never got are deleted on the other side.
3. `blind_overwrite`: etags are in memory only. After a restart a fetch served
   by a ctag match leaves none, and an update goes without If-Match and wins,
   against `remotecalendarbackend.cpp:3450`.

Met while modelling, without a run of their own. The engine:

* A lost resource leaves the cancel flag of a slot set, and the next mapping on
  it is cancelled although it does not use the resource (1051).
* The second pass of a single-mapping run uses the override of the last queue
  run (836), which may be a clobber. A clobber of a one-way download empties the
  target and pushes nothing (4120-4145; `synctypes.h:503-507`).
* A conflict detected again changes the versions an open dialog stands for
  (1488-1493), so its answer overwrites versions nobody saw, past the staleness
  guard.
* A conflict whose source record is deleted has no source id (4068). Its row is
  refused (`local_uid TEXT NOT NULL`, `syncconflictstore.cpp:82`), its answer is
  never queued (1550), and it holds every write of the mapping at each run.
  With the target deleted instead, `TargetWins` writes a record without id and
  the run fails each time (2638).
* A write that fails half way changes the time of the records it wrote, so an
  answer kept "for the next run to retry" (1622-1624) is stale there.
* While a monitored dialog is open, the answer to any other conflict is taken
  for its answer and dropped (1520-1529).
* The guard of `presentPendingConflicts()` is cleared before the modal call
  (1938) and not held through it, as 1957-1960 says; presentations do nest.
* A resolution pass forgets which mapping wrote what (1339), so convergence is
  only promised for runs without one; a toggled mapping joins a resolution or
  fixpoint pass that never selected it (1331-1335, 1363-1379).
* Last write wins has two tie-breaks, `>=` at 2643 and `>` in
  `lastwritewins.h`; `Duplicate` by policy rewrites bytes the comment at the
  other copy calls wrong (4250).
* Rows of records deleted on both sides are never removed; the result of the
  transaction that saves rows is ignored (4934); an update that was interrupted
  comes back as a conflict between equal contents; the read-back records an
  edit made meanwhile as synchronised; a clobber that fails after the wipe
  leaves rows that make the next plain run delete on the source.

The runtime (`collectionruntime.cpp`):

* A failed transaction may leave collections changed and say that no repair is
  required, against invariant 17 ("Runtime-owned topology mutations are atomic
  or return explicit repair state", `docs/INVARIANTS.md:26`), in three ways.
  Creating a collection that exists succeeds, and when the transaction fails
  later the compensation deletes it. A mutation that fails after it was done, in
  whole or in half, is not among those undone (1112-1118). A refused commit
  restores the providers before it compensates collections (1137-1145), through
  pointers to backends that are gone. `FailedApplyIsUndone` without `torn` is
  refuted by each.
* `addProvider()` does not look whether a topology is being applied
  (`docs/CONSUMING.md:198`); after `reset()` the snapshot names no provider.
* A run of all enabled mappings takes the disabled ones too, so it fails and
  its leases are not flushed (`docs/ARCHITECTURE.md:195`).
* The engine's cancel flag survives a cancelled run, and ends the next run of a
  single mapping; a loss reported between the preparation of a lease and the
  start of the engine is forgotten by the engine; a backend registered anew by
  a reconnection is not bound to its resource any more.
* A refused `run()` emits its end without its start and finishes leases it
  never prepared; a cancellation does not stop the preparation.
* `BackendExecutor::shutdown()` waits without a bound after its deadline
  (`backendexecutor.cpp:69-75`, invariant 3).

Operations and local files:

* The listing `applyRecords()` patches is that of the last fetch, whoever made
  it. A second fetch between the engine's fetch and its writes puts a foreign
  change into the stored fingerprint, and the next run is skipped; so does a
  change between a write and its stat. Both are against `localbackend.cpp:1473-1476`
  ("any OTHER (foreign) file's change is simply absent from the patch").
* `removeItem()` only logs that it failed (384-392, 398-401), and `startSync()`
  answers that all is well; the file stays.
* An operation deleted before it is over keeps its turn for ever: its pointer
  is null by the time `destroyed` is handled (`syncbackendbase.cpp:225-247`).
* `removeItem()` of an override the file does not hold deletes the whole series
  (`localbackend.cpp:356-400`); a deletion does not look at the batches that
  still hold the uid, which write it again; `pushItems()` writes the item over
  the whole family, against 146-163.
* A fetch that meets a file the writer has truncated, or cannot read one, skips
  it and succeeds: the engine takes it for a deletion
  (`asyncfilewriter.cpp:124`, invariant 4).
* `modifiedSince()` takes the fingerprint after the walk; errors of closing a
  file are not checked; a file replaced under an open writer loses that write.

CalDAV (`remotecalendarbackend.cpp`):

* The token of a calendar is taken after its listing, and a discovery replaces
  the ctag a fetch has staged: changes in between are never fetched (`masked`).
  The same holds when a token that was asked for by a cancelled fetch arrives
  while a later fetch, or a write, still has an older version to cache.
* An update answered without an etag forgets the item's etag but keeps its row
  (3394-3398). A listing finds deletions by etag (2222-2234), so when another
  client deletes the item next, the row stays, under a ctag that says it is
  there, until another life of the program lists again (`Orphans`; `masked`).
* `startSync()` and `removeItem()` do not distrust the tags. When their answer
  comes after a fetch of a newer version, it puts the older one, or nothing,
  into the cache under a ctag that is ahead of it (1416, 1595, 1645; `masked`).
* `createRecord()` puts without a condition, as "nothing exists yet to conflict
  with" (3738): an item another client made at that address is overwritten.
* An item the server leaves out of a batched answer is missing from a fetch that
  succeeds (`omitted`), against 2369-2372; so are items that do not parse.
* A content cache that was wiped while the token survives serves only what
  changed since, and the rest reads as deleted.
* Etags a PUT answers with are bare or weak and never equal those of a listing;
  a PUT without an etag leaves a row that is fetched again. An empty calendar
  never commits its ctag (2100-2101); a staged ctag is never cleared.
* A watchdog reports as failed writes that land. A failed probe counts as
  probed. `createCollection()` always fails (3599-3608).

Google and Graph:

* Graph's listings page by offset: an item deleted from a page already read
  moves another past the cursor, and it reads as deleted (`missed`).
* A page of contacts whose body breaks off after a good status is no network
  error (`googleapiclient.cpp:182-184`) and no object, and is taken for an empty
  last page (`googlepeoplebackend.cpp:342-403`): the fetch succeeds with the
  contacts of later pages missing or as they were cached (`missed`), against
  invariant 4 ("A fetch or load failure is not an empty collection",
  `docs/INVARIANTS.md:10`). The token goes with it, so the next fetch lists all.
* The union merge never notices that an optional field was cleared.
* Walks of contacts use plain requests: no retry, no limit of pages. A delta
  walk has no limit either; an answer with neither link begins again for ever.
* A create whose answer is lost, or whose carrier fails, counts as failed and
  is created again. `postNextCarrier()` does not look at cancellation.
* `persistState()` checks neither the removal nor the renaming (harmless: the
  next fetch lists everything). Updates and deletes carry no If-Match but for
  people. Two accounts of people that share a cache directory share a state
  file. An empty `nextSyncToken` would merge a listing into old rows.

Journals: a torn last line joins the next append, which is skipped as malformed
when replayed; `discardPrefix()` counts malformed lines and replay does not; a
rewrite that truncates loses the rest in a crash.

DecSync. Up to the sixth, each makes `RegisterKept` or `NothingMissed` except a
record or a file:

* A merge takes what is not as agreed for a change. After a merge the entries
  that have not caught up are not as agreed, so a second fetch reverts it, and
  the next one again (`decsyncactivecontroller.h:70`, "authoritative merged entry").
* A conflict writes the winner as it is and drops the merge of the properties
  nobody contests (`decsyncactivecontroller.cpp:188-199`, computed at 495).
* Entries of our own are not merged: a sole other entry wins over a newer one of
  ours, and a deletion newer than live entries is ignored.
* `runActiveSync()` stamps an unchanged record with the present
  (`decsyncactivecontroller.cpp:304`), so `compactInactiveApps()` takes the only
  copy of it for superseded and drops it, where
  `decsyncgarbagecollector.h:26-30` says the worst is a forced re-read.
* Onboarding writes what was last agreed, and every deletion ever logged, with
  the present time over newer edits: nothing calls `removeDeletion()`.
* A purge resets an application's numbers but not how far we have read them; a
  compaction raises numbers their owner does not know of.
* A merge in the same second as the entry it was made of loses the tie to an
  application that comes first by name.
* The first to-do that makes a calendar a hybrid is written among the events,
  and `createRecord()` always writes there; a fetch prefers that copy, however
  old. `updateRecord()` and `deleteRecord()` look in every collection opened so
  far. `availableCollections()` leaves out a hybrid that has only `tasks/`,
  though it says it mirrors `loadCalendars()`. Failures of writing are ignored.

## Proofs

TLAPS proves, for every value of the constants and whatever hosts, users,
servers and failures do, what the runs show on instances. Each component has an
inductive invariant `IInv` in a module of its own (`...Inv`), which TLC checked
on the instance of the component's run (those of `CloudCollection` and
`RemoteCalendar` are left out of its configuration, as they take long; name
`IInv` there to see it), and a module of proofs (`...Proofs`) with a lemma for
each action, in which a step deals with each conjunct the action can disturb. The theorems rest on the named assumptions on the constants and on
nothing else; TLC evaluates those assumptions in the runs.

| Module | Theorem | States |
|---|---|---|
| `SyncRunProofs` | `Agreement` | `Spec => []TablesAgree` |
| | `TypeCorrect`, `Exclusion`, `ClaimsReleased`, `DrainBeforeFinish` | `TypeOK`, `EndpointExclusion`, `ClaimsExact`, `OneAnswerPerLease` |
| | `Invariance` | `Spec => []IInv` |
| | `Leases`, `Pauses`, `Verdicts`, `Answers` | `LeasesSound`, `ResumeReachesAsker`, `SkipVerdictFresh`, the action property `NothingDropped` |
| `ReconcileProofs` | `Invariance` | `Spec => []IInv` |
| | `RowsTrue`, `RealConflicts` | `RowsTellTheTruth`, `ConflictsAreReal` |
| | `WritesHaveACause`, `DeletionsAreUsers` | the action properties `EveryWriteHasACause`, `OnlyUsersDelete` |
| | `SuccessIsEquality`, `SourceKept` | the action properties `SuccessMeansEqual`, `ClobberKeepsSource` |
| `ConflictAnswersProofs` | `Invariance` | `Spec => []IInv` |
| | `Durable`, `EditsKept`, `Used` | `AnswersDurable`, the action properties `NoEditLost` and `AnswersUsed` |
| `OperationQueueProofs` | lemmas | each action of the queue keeps `OpInv` |
| `CloudCollectionProofs` | `Invariance`, `QueueKept` | `IInv`, `OpInv` |
| | `TokenCovered`, `Truthful` | `CacheAtToken`, the action property `SuccessTellsTheTruth` |
| `LocalBackendProofs` | `Invariance` | `Spec => []IInv` |
| | `Quiet`, `Fingerprints` | `QuietMeansMeant`, `FingerprintFollowsFiles` |
| | `Promise` | `Spec => Staged!Init /\ [][Staged!Next]_(Staged!vars)` |
| `RemoteCalendarProofs` | `Invariance`, `TypeCorrect`, `QueueKept` | `IInv`, `TypeOK`, `OpInv` |
| | `CacheKeepsUp`, `FetchesTellTheTruth` | `TagsBehindCache`, the action property `FetchTellsTheTruth` |
| `CollectionRuntimeProofs` | `Invariance`, `TypeCorrect` | `IInv`, `TypeOK` |
| | `LeasesFinished`, `Earned` | `LeaseProtocol`, the action property `SuccessIsEarned` |
| | `Accounts` | `~HostsAddWhileApplying => (Spec => []AccountsAgree)` |
| | `Undone` | `~HostsAddWhileApplying => (Spec => FailedApplyIsUndone)` |

**SyncRun.** `OneAnswerPerLease` is the property everything hangs on and is not
inductive: to know that a completion frees the slot of the mapping it names,
the table and the slots must agree (`LeaseTable`); to know that a conflict
signal finds its mapping, it must come before the completion of the same sync
(`ReportsBeforeAnswer`); to know that a run does not start over a lease of the
last one, what may be in flight in each mode must be fixed (`Phases`); and the
set-up of a queue run must be a single question to the control worker
(`SetupAlone`). `TablesAgree` is the conjunction of these with the properties
themselves, and is inductive alone. The second part, `Dispatching`, is inductive
given the first. That a lease never finds the pool full is a matter of counting:
leases and slots are in bijection, and the cap of a run is at most the pool
(`CapsKept`). That only the control slot pauses needs that a run which may pause
has a cap of one and that the one lease is taken on the lowest slot (`OneSlot`),
and that a pause belongs to the sync that runs (`PauseOfTheAsked`). That skip
verdicts are fresh needs that nothing is written before the pre-pass answers
(`SetupClean`).

**Reconcile.** Everything said of a record holds as long as nothing untoward has
happened to it, so `IInv` is a conjunction over the records (`IdInv`) of facts,
each under the marks that void it; a step that concerns one record leaves the
others as they are (`Still`). Between runs `Base` says that a side no user has
changed is as its row says (`Clean`), `Paired` that a row is of one content in
the two encodings, `GoneKnown` that what is missing was deleted by a user or is
gone from both sides. `DiffCases` and `MergeOutcome` reduce the diff, the mode,
the policies, the answers and the mirrors to one fact: an id is left alone, for
one of three reasons, or one side is made equal to the other. From it `Decides`
derives what a plan promises: it is sound for what was fetched (`PlanSound`), it
has a cause (`Caused`, `DeletionCaused`; `CleanSide` says that a clean side is
never written back), and a two-way run has one for each id that differs
(`Covered`). A batch turns plans into written records that are read back
(`WrittenSound`, `UpdSound`, `BackSound`), and `RowsSaved` shows that the new
rows are those of records in step. What ends without saving marks what it
touched, and `Base` of the rest stands. The diff compares hashes only, and all
that is used of them is that they are told apart per side (`HashFacts`).

The proof found a flaw of the model, not of the code: the history variables took
a record with the same edit on both sides for settled after a run of the policy
Skip, which leaves it a conflict, and no instance had that policy. `Settle` now
excepts it, and the run `reconcile` has the policy. Three `CASE` expressions of
the merge whose guards overlapped became chains of `IF` with the same meaning.

**ConflictAnswers.** `AnswersDurable` speaks of the last answered row by
`CHOOSE`; `PendingIsLatest` says the same by comparison, and `AnswersOrdered`
that there is a last one and only one. What an answer does to memory depends on
what the engine knew of its row when it was shown (`IdentityOfRow`).
`AnswersUsed` needs that the first walk of a run has every stored answer at hand
(`AllAtHand`), `NoEditLost` that a run reaches its writes only when each conflict
has an answer to the versions fetched (`WriteReady`).

**OperationQueue.** Of any backend: each operation is queued once and before it
starts (`QueueSound`), the one that runs is the one in flight (`OneAtATime`), and
one that waits is in flight or queued (`NoneForgotten`). Two lemmas on
`MaybeStartNext` and `Settled` carry the actions; the backends that extend the
queue cite them.

**CloudCollection.** While a walk is under way the token it will commit is in the
future, so `CacheAtToken` is not inductive. Three invariants say what a walk owes,
one for each order the servers page in: by item (`ItemWalk`), what was passed is
as it was at the first page or has changed since, what is to come is as it was
at the token; by change (`DeltaWalk`); by offset (`OffsetWalk`), what has not
slipped past was read or is still to come. At the last page nothing is to come,
and each gives the token its rows. `BatchSound` and `Carried` are the accounts of a batch: each
record is to be sent, on its way or settled, in one way.

**LocalBackend.** `StagedSound` says of each component of each file what it will
hold once the batch served now and all later ones are written: what the last
batch that has it brings, or what is due in the file. The merge a batch does
when it starts, a writer that works, fails or stops, a deletion and a push each
keep it; when nothing is left it is `QuietMeansMeant`. `RevisionSound` is about
the two halves of `FingerprintFollowsFiles`: `Faithful` follows a listing and its
records through the looks and reads of a fetch (a file that still has its stamp
holds the record, but for those not read yet), and `Current` follows it through
that fetch, any other fetch and the patches of `applyRecords()` to the revision
(what nobody else has changed is listed as it is, but for the file between its
write and its stat). `Promise` is the safety half of
the refinement: every action of the backend, of its queue and of the writer is
`Submit`, a step or the end of the batch at the head, the destructor, or a
stutter of `StagedBatches`; `WriterSound` and `BatchesNumbered` are what that
needs.

**RemoteCalendar.** `TagsBehindCache` is not inductive because the tag a fetch
stores at its end was read at its beginning, or comes with an answer whose items
are still to be read. The invariant follows the fetch. While the ctag or a
report is asked for, the cache is in step with what the answer will be compared
with, although a write outside the queue may have cleared the stored tag
meanwhile (`CompareSound`). While items are read, what has not changed since the
listing is in the cache, was read, or is still to be asked for (`GotSound`,
`RestSound`, `ListSound`), and what has changed since is newer than every tag
that may be stored (`TimesSound`): so whichever of the three tags wins, the
cache is not behind it. An etag a listing may find equal goes with the content
it is of (`EtagSound`): a bare one never compares equal, which is what makes it
safe that an update stores its etag and not its content. A probe nobody waits
for stages a ctag older than the fetch that runs (`StraySound`). A write that
has arrived and is not answered is of the newest version or of one whose
successor is newer than the token, and the ctag is behind it (`JobSound`,
`DirectSound`), so that putting it into the cache late does no harm, or is
marked; that it is not put there in the middle of a fetch needs that a fetch and
a write never run at once (`UnderWay`), which the queue gives. For
`FetchTellsTheTruth`, each stage that can succeed turns these facts into what is
reported (`FetchStep`: a step goes on, ends badly, or ends well and tells the
truth), and `ResultSound` keeps the report while only a token is asked for; that
nothing else can end a fetch well follows from `OpInv`.

The proof found two windows no budget of the run had reached, and the model now
has them (`Orphans`, `Returning`; both are described under CalDAV above). Both
are in the code and not of the model: the first needs another client and a
server that answers an update without an etag, the second a token request that
outlives its fetch. The pump was rewritten to be reasoned about, as the code has
it: it starts at once as many writes as the window has room for.

**CollectionRuntime.** That a failed topology leaves collections as they were is
a matter of undoing backwards: `UndoableAt` says that the first change the
transaction made of a collection tells whether it was there before, and that one
without a change is as it was; `Reversible` says it of all but `torn`. Each
`Compensate` takes the last change away and keeps that, so that at the end
nothing is left to tell; changes that cannot be undone (`Lasting`) end in a
demand for repair. `BackendsHeld` says when the backends to undo by are still
there, `AccountsKept` what is configured at each point of a transaction, and
`RunKnows` that a run knows every lease it prepared. `Accounts` and `Undone` have
a hypothesis because the code does not guarantee more: that hosts add no account
in the nested loop. What topologies ask for is not restricted: they may create
what exists and change collections at accounts they replace, and mutations may
fail after they were done; the run has topologies of each kind.

The model was changed where it could not be reasoned about, with the same
behaviour: `OperationQueue` takes the first live entry of the queue by its index
instead of filtering the queue, and the constants got the assumptions the proofs
need: finite sets of records and files, special values outside the sets they are
told from (`IdsAssumption`, `FilesAssumption`, `OperationAssumption`), calls of
`startSync()` that are numbered from 1 and delete at most one component of a
family each (`StagingAssumption`, the bound named above), and batches that do one
thing to an item (`BudgetsAssumption`), topologies that are of the type
`Topology` (`TopologiesAssumption`), and budgets of the type `BudgetType`
(`RemoteAssumption`).

Only model-checked, and why: `Converges`, `RunTerminates`, `Returns`,
`OperationsFinish`, `CancelTerminates` and the fairness of
`ImplementsStagedBatches` are liveness, which is out of the prover's reach.
`NothingMissed`, `RegisterKept` and `CalendarKept` of `DecSync` are not proved
yet; the module reaches no recursive operator, so they can be.

## Plan

Done: `SyncRun` with its invariant, proofs and runs; `Reconcile`;
`ConflictAnswers`; `CollectionRuntime`; the backends on disk, on CalDAV servers,
in the clouds and of DecSync, with the refinement of `StagedBatches`; the proofs
about `SyncRun`, `Reconcile`, `ConflictAnswers`, `OperationQueue`, `CloudCollection`,
`LocalBackend`, `RemoteCalendar` and `CollectionRuntime`. Left, in this order:

1. Proofs: `NothingMissed` of `DecSync` (an invariant that ties the sequence
   number an application has noted to the entries it has read), then its
   `RegisterKept`.
2. `BaselineStore`: migrations, aliases with the identity-conflict guard,
   composed with `Reconcile`.
3. `BackendExecutor` composed with `CollectionRuntime`; destruction of the
   engine during a run.
4. Filtered collections.
5. Pure algorithms: pipeline search, generation of mappings.

Not modelled, and why: the codecs of calendars, contacts, tasks, notes and
outlines, field-wise diffing and merging, and the canonicalising stages are
conversions of data, which no property here tells apart, and they are most of
the source by size; widgets, plugin loading, settings and authentication are
calls into other libraries; discovery and the registries are lookups without an
order of events; the journals are files of lines that hosts outside the
repository replay.
