# Formal models of VPSiner

VPSiner is one Rust process that watches a Docker host: it follows the logs of
every container, samples host and container metrics, keeps both in SQLite files
for some weeks, and serves them to a web frontend, live and from history. This
directory holds TLA+ models of the parts whose correctness depends on
interleavings, partial failures and restarts, TLC configurations that check them
on small instances, and TLAPS proofs for every value of the constants.

File names below are relative to the crate's `src/`. `PROJECT.json` lists every
component, run, mutant, hazard and theorem, and maps each definition to the lines
it models.

## 1. The system

| Component | State | Operations | Talks to |
|---|---|---|---|
| Log ingestion, `logs/buffer.rs` | per service: buffered lines, per container the last accepted (ts, hash); a flush worker and its one-slot channel | `push`, `schedule_flush`, `flush_service` (worker and inline), `flush_all` | log tasks (channel), log store, checkpoint table, service registry, flush watcher |
| Container registry and observers, `docker/container_registry.rs`, `docker/mod.rs` | observed containers, the container list and its revision, one-slot update channels, a bounded channel of start and stop events, log tasks | event cycle, debounced updates, reconcile, respawn | Docker API, log channel, sample channel, controls, list stream |
| Docker controls and probe, `docker/mod.rs` | the flag of the connection, whether controls are allowed | probe; start, stop, restart | Docker API, the container list |
| Log store, `logs/store.rs` | one SQLite file per service and ISO week, a cache of open pools, a lock per path | append, query a page over weeks, delete old weeks, close idle pools | log buffer, retention, log API |
| Service dictionary, `metadata/service_registry.rs` over `metadata/mod.rs` | `services` table; cache name/id, touch times; a reclamation lock | `load`, `id_of`, `reclaim_before` | log tasks, sample observer, flushes, retention, metrics reads |
| Checkpoints, `metadata/mod.rs` | `log_checkpoints` table | load, advance, delete old | log buffer, log tasks, retention |
| Metrics collectors and bucketizers, `metrics/collector_*.rs`, `bucketizer.rs`, `rate.rs` | per series the last samples and its idle count; the open 10 s bucket | sample, interpolate, close a bucket, drop a silent container | Docker/host, metrics store, live snapshot |
| Live snapshot, `metrics/snapshot.rs` | the latest batch's points and the samples before them | record a batch, read what is fresh | collectors, snapshot stream |
| Metrics store and roll-ups, `metrics/store.rs`, `rollup.rs`, `downsampling.rs` | 10 s, 1 m, 5 m, 1 h tables; the newest 10 s bucket written | insert, roll up a closed bucket, query, delete old | collectors, bucket watcher, retention, metrics API |
| Retention, `retention.rs` | none of its own | `cleanup_once`: metrics, then log weeks, then checkpoints, then service ids | all stores, the registry |
| Live streams, `api/*_stream.rs`, `logs/flush_watcher.rs`, `metrics/bucket_watcher.rs` | watch channels; per client a cursor, or the list it was sent last | notify, read from the cursor, send | stores, container list, clients |
| Version guard, `db_version.rs` | `versions.json`, the three directories | check, wipe, record | the operator, the stores (by coming first) |
| Start-up and shutdown, `main.rs` | tasks | dictionary, observers, a cleanup, then the collectors and the ingestion; shutdown aborts tasks and closes the stores | everything |
| Configuration, routing, host metrics, Docker output mapping, frontend | no protocol state of their own | | |

**What is hard.** Two flushes of one service can be in flight together. A flush
writes two databases that no transaction spans, so it can be cut between them,
and one of them week by week. Docker replays lines after every reconnect, with
second precision. The dictionary's cache is read without its lock while a cleanup
deletes ids. A cleanup prunes four stores one after the other while rows keep
arriving, and any of its calls may fail. The janitor closes databases that may be
in use, without the lock that deletion and writers share. Update requests are
coalesced, and what they lead to is read before a lock and applied under it.
Live streams read a store on a coalesced notification while it is being written.
A metrics bucket is made from samples that come late, out of order or after a
restart. A start may be cut in the middle of a wipe. `PROJECT.json` "hazards" has
all of them at their lines, with the properties that cover them.

**What makes each component correct.**

- *Ingestion*: of the lines that retention keeps, a persisted checkpoint covers only
  those that are stored; dedup drops only what is stored or held; checkpoints never
  move back; first copies keep Docker's order; a replay adds nothing twice; every
  line lands in the end, and every stored row is announced.
- *Dictionary*: the cache never answers with an id that the table has dropped; an
  id is never reused for another name; the stored watermark trails the real use
  of a service by less than the touch interval.
- *Retention*: no surviving row or checkpoint refers to a dropped id, and none is
  ever read as another service's.
- *Log store*: operations on one path exclude each other; nothing uses a pool of a
  file its path no longer names; each file behaves as if every operation took
  effect at one instant; a page over weeks is the page of their union.
- *Observers*: no change and no start is lost between the channels, and what
  Docker goes on running has its log followed in the end.
- *Container list and controls*: the list, and each client's copy of it, is
  current or about to be; "nothing to do" is answered only when nothing is.
- *Bucketizers*: a row is what the curve through all samples gives, and a bucket
  that can be made is made.
- *Roll-ups*: a coarse row is made from all the 10 s rows of its bucket, after the
  bucket has elapsed, and none lands there later; every bucket the cursor has left
  is rolled up.
- *Streams*: every stored line is delivered once, in order, and in the end, and of
  every bucket the rows, as long as the stream keeps up and rows are stored in the
  order of time.
- *Version guard*: no build runs on another version's database, or on the rest of
  a wipe of its own that was cut; data is lost only by force or on a first run.

## 2. Modules

| Module | Models | Extends |
|---|---|---|
| `LogBuffer` | ingestion of one service, its stores, the log tasks that feed it, crashes | |
| `ServiceRegistry` | the dictionary's table, cache, touches and lock | |
| `ServiceRetention` | the registry composed with those who write under its ids and with the cleanup pass | `ServiceRegistry` |
| `DbVersion` | the version guard over a data directory, build after build | |
| `WeekFiles` | what the log store promises: files with instantaneous operations | |
| `LogStorePools` | the pool cache, path locks, deletion and the janitor; implements `WeekFiles` | |
| `LogPaging` | the paged query over week tables, as operators, and what a page should be | |
| `LogTail` | a client that pages and then tails, against the flushes | `LogPaging` |
| `ContainerObserver` | from Docker's events to the log tasks | |
| `ContainerList` | the container list, its and the services' stream, control commands | |
| `Bucketizer` | one metric's samples to one value per bucket, as operators | |
| `MetricsCollector` | the collectors, their entries and the live snapshot | `Bucketizer` |
| `MetricsRollup` | the metrics tables of one source, their cursor and roll-ups | |
| `MetricsStream` | a metrics stream against the inserts and roll-ups | |
| `MCLogBuffer`, `MCServiceRetention`, `MCDbVersion`, `MCMetricsRollup`, `MCLogTail`, `MCContainerList` | small instances | |
| `IngestionProofs` | theorems about `LogBuffer` and `ContainerObserver` | both |
| `DatabaseProofs` | theorems about `ServiceRegistry`, `ServiceRetention` and `DbVersion` | `ServiceRetention`, `DbVersion` |
| `LogStorePoolsProofs`, `ContainerListProofs`, `MetricsRollupProofs` | theorems about the module each is named for | that module |
| `LogTailProofs` | theorems about `LogPaging` and `LogTail` | `LogTail` |
| `MetricsCurveProofs` | lemmas about `Bucketizer` and the collectors' buffer | `MetricsCollector` |
| `MetricsLiveProofs` | theorems about `MetricsCollector` and `MetricsStream` | `MetricsCurveProofs`, `MetricsStream` |

A definition that a comment calls a mutant is not part of a model: it is an
operation as a plausible slip would have written it, next to the real one.

The modules are joined where components meet. `ServiceRetention` composes the
registry with its users. `LogTail`'s flushes are `LogBuffer`'s commits by week and
announcement; `LogBuffer`'s `Follow` and `StreamEnds` are the tasks that
`ContainerObserver` starts; `ContainerList!Change` promises of an update what
`ContainerObserver!NoChangeIsLost` shows of it, and `ContainerList!Flush` is
`LogBuffer`'s advance of a checkpoint, seen from outside. `LogStorePools` says of
one file what `LogBuffer!CommitWeek` and `LogTail!ReadWeek` take for granted: a
transaction happens at one instant, or not at all.

### LogBuffer

*State.* `docker` is what Docker holds of each container's log; a line is named
by container and position, and its millisecond and content are looked up there
(the hash of the content is taken to be injective). `following` and `pos` are the
log tasks and where each is in its stream. `oldest` is the oldest week of the
retention window, whose start is `Cutoff` (`retention_cutoff_ms`). `ingest` is where the single ingestion
loop is inside `push`. `lines` and `seen` are `ServiceState.lines` and
`.checkpoints`; `worker` and `token` the flush task and its channel of capacity
one; `flush` the two possible callers of `flush_service`, each with the batch,
weeks and checkpoint snapshot it carries. `rows` and `ckpt` are the two
databases, `fresh` the rows stored since the last notification. `overlapped` and
`suffered` are history variables that only properties read.

*Actions.* `Follow` and `StreamEnds` are the log task. It asks Docker for everything
since the checkpoint's second or the cutoff's, whichever is later, and since the
cutoff's without a checkpoint (`SinceMs`, docker/mod.rs:517-528), so lines come again,
and lines older than the cutoff are never asked for. `PushAccept` and
`PushDrop` are `push` up to its first await; `ScheduleFlush` and the inline flush
follow. `WorkerReceives`, `WorkerDebounced`, `WorkerRetires` are the worker's loop.
`Take`, `CommitWeek`, `AppendFails`, `Intern`, `InternFails`, `AdvanceCheckpoint`,
`AdvanceFails`, `Notify` are the awaits of `flush_service` in order; `append`
commits one week after the other in any order (it iterates over a `HashMap`) and
may fail after some of them. `Crash` is any end of the process followed by a
start; a graceful shutdown does the same to this state, because `main.rs` aborts
the ingestion task before its final `flush_all` could run. `WeekPasses`, `DeleteWeek`
and `PruneCheckpoints` are what retention does to this state: time leaves a week
behind, a week's file is deleted, checkpoints older than a cutoff are. Here each may
happen at any time after its week has left the window, also with the cutoff of a pass
that began a week ago, which is more than `cleanup_once` does; the pass itself, in its
order, is `ServiceRetention`'s. A line is `Retained` if it is not older than the
cutoff, and the properties promise nothing of the others.

Services share only the ingestion loop, so one service is modelled. An inline
flush of one service holds up the others; what it waits for is the store, and
`LogStorePools!EveryCallReturns` says that this ends.

### ServiceRegistry and ServiceRetention

*State.* `nameOf`, `lastSeen`, `nextSid` are the `services` table (a column is a
function of the id; `nextSid` is AUTOINCREMENT). `byName` and `touched` are the
cache; `by_id` changes with `by_name` under one write lock, so it is not kept
separately. `lock` is `reclamation_lock`, `caller` the concurrent calls of
`id_of`, each with the clock value it read at its start. `dropped` is what a
reclamation has deleted and not yet forgotten. `lapsed` is history: a touch was
noted in memory and lost in the table, by a failed update or by the process
ending in between. `ServiceRetention` adds `rows` and `checkpoints`, each with
its id, its time and (ghost) the service it was written for, the `cleaner`, and
`pruneFailed`.

*Actions.* `Call` (the lock-free fast path), `FindFresh`, `BeginTouch`,
`TouchStored`/`TouchFails`, `BeginResolve`, `Resolve`/`ResolveFails` are `id_of`;
`ReclaimDelete`, `ReclaimForget`, `ReclaimFails` are `reclaim_before`. `WriteRow`,
`WriteCheckpoint`, `Discard` are what callers do with the id, `RollUp` copies a
row to its bucket's end once that has passed. `BeginCleanup` to `CleanupGivesUp`
are `cleanup_once` call by call, each with its failure; `Restart` reloads the
dictionary and runs a cleanup before the collectors start, as `main.rs` does.

The log databases themselves carry no ids and appear only as the outcome of
`delete_before`. All four resolutions are one set of rows with the widest bucket.

### DbVersion

*State.* `manifest` is `versions.json` (absent, torn, or a build's versions),
`dir` the version that wrote each directory, `half` the version whose wipe left a
directory half deleted. `build`, `force`, `pc`, `todo` are the running process.
*Actions.* `StartFirst`, `StartForced`, `StartCompatible` are the branches of
`evaluate` (a refused start changes nothing); `Wipe` and `WipeCut` are
`remove_dir` in `DbKind::ALL`'s order; `WriteBegins` and `WriteEnds` are
`write_versions`, which truncates and then writes; `Create` is a store creating
its database, `Stop` the end of the process at any point, `DeleteByHand` the
operator. Reading a good manifest may fail; `misread` remembers it.

### WeekFiles and LogStorePools

`WeekFiles` is the promise: `stored` is what each file holds, and `Append`,
`Query`, `Unlink` are single steps between an operation's call and its answer;
`Fail` does nothing but answer. Of a path in `loose` nothing is promised.

*State of LogStorePools.* `file` is the inode a path names and `rows` what each
inode holds: an unlinked file lives on while a pool has it open. `locks` is
`operation_locks`, `entries` the cache and `pool` the `OnceCell` in each entry,
which outlives the entry as long as somebody has a clone. `op` is what each task
is doing, `swept` and `closing` what the janitor has taken out of the cache and
is closing. `split` is history: the paths whose lock object was dropped while a
task waited for it, after which its waiter and a newcomer hold different locks.

*Actions.* `LockPath` and `Acquire` are `lock_path`; `FetchCell`, `OpenDatabase`,
`OpenFails` are `pool`; `Begin`, `BeginFails`, `Finish` the transaction, which
fails on a closed pool and otherwise ends as it began; `Evict`, `EvictEnds`,
`RemoveFile`, `ForgetPath` are `delete_before` for one path; `Sweep`, `CloseEntry`,
`CloseEnds` are the janitor, and `close_all`. An append or a query of several
weeks is a sequence of these. Identities of locks, cells and inodes mean nothing,
so a step takes any one that is free, which keeps TLC's instance small.

### LogPaging and LogTail

`LogPaging` has `week_matches`, the order of the weeks, `push_filters`,
`push_cursor`, the loop that fills a page up to one row more than the limit, and
`as_page`. `ORDER BY` is a choice among the sequences of a set (`InScanOrder`,
`Ascending`), and the loop over the weeks a recursive function whose value at `n` is
the page after `n` weeks (`PageAfter`). `PageIsRight` says of all rows at once what
a page should be, and `PageSoFar` what the loop keeps: the page it has, the weeks
it has still to read and the rows it is after (`Wanted`). A line is its timestamp
and whether it passes the text, level and stream filters.

`LogTail` has a service's `store`, a flush that is `pending` week by week, rows
committed and `unsaid`, and one `client`: a first page, then a stream that
subscribes, reads once at once and then a page per notification, resuming from
its cursor after a `Drop`. `ReadWeek` reads one week, so that commits come between
the weeks of one of the stream's queries. `Load`, the first page, reads all weeks in
one step; the code reads it week by week too (`logs/store.rs`:334-370), and a commit
between two of those weeks is not modelled. `history` keeps why a row may never be shown: it was
committed behind the cursor, or behind the query that was reading.

### ContainerObserver and ContainerList

*ContainerObserver.* `cycle`, `event` are the subscription to Docker's events,
`request` the update channel of one, `updater`, `listed`, `observed`, `sends` the
update worker, `queue` the channel of start and stop events, `observer`, `current`,
`task` the log observer's loop and its tasks. `Reachability` is Docker's and
`Probe` the flag that lags behind it. The history variables say that a change was
`missed` (no stream, no connection, a failed listing) or a start is `unheard`
(the channel was full, or the observer gave up its turn without a connection),
so that only a timer brings it up.

*ContainerList.* The same shape of worker keeps `info`, the listed containers'
states. A client is one of either stream: `/api/stream/containers` sends
differences of that list, `/api/stream/logs` of the services made from it and from
the stored watermarks (`Merged`), which it reads first (`ReadWatermarks`), woken by
two channels. `view` is what the client has put together from what it was sent.
`StartIn`, `StopIn`, `RestartIn` are the commands' decisions on a state and
`Answer` the checks before them; a command runs in the background, and what comes
of it is one of Docker's `Change`s.

### Bucketizer and MetricsCollector

`Bucketizer` has `push` with its capacity and order rule, the boundary values
interpolated from the two buckets that meet, and the gauge, maximum and counter
values of a bucket. A bucket's samples are found by their places in the buffer
(`Places`, `FirstAt`, `LastAt`, `Inside`), a gauge adds up its trapezoids term by
term (`Sums`, `Total`). Values are scaled by a common multiple of the distances
between samples that are interpolated, so that interpolation is exact; the code's
floating point is not modelled. A tick of the clock is the least distance of two
samples. `BufferAssumption` is that the buffer holds more samples than two buckets
have ticks; as the code sizes it for eight buckets at the interval of collection,
this says that a tick is more than a quarter of the interval. Tokio's `interval` makes
up in a burst for rounds that a long stall has held up; samples that come closer than
that, and push the others out, are not modelled.
`MetricsCollector` has one
series' `entry` in the host's or the containers' collector: `Observe` is a batch,
which is recorded, pushed, and then closes the bucket it has left behind;
`Flushed` drops a container that gave nothing twice (`MaxIdleFlushes`). Batches may be late, lack
the container, follow a restart (its counters start anew) or a backward step of
the clock. `closed` and `taken` are history, against which rows are checked.

### MetricsRollup

*State.* Time is counted in 10 s buckets. `raw` is the source's 10 s table and
`coarse` the table of each width; a coarse row carries, instead of averages, the
10 s rows it averages (`of`), so that "from all the rows of its bucket" can be
said. `last` is the bucketizer's `last_raw_bucket_end`, `cursor` the store's
`last_host_ts` or `last_containers_ts`. A roll-up under way has its `closing`
bucket, the `samples` its one select returned and the widths `todo`. `suffered` is
history. The host is a source with one series, the containers one with several.

*Actions.* `Store` is an `observe` that closes a bucket whose rows are inserted:
it moves the cursor and, if that leaves a coarse bucket, reads the rows of the
widest one. `Sample` is an `observe` after which nothing new is stored, failed
inserts included, `StepBack` one whose clock went back. `RollUp` writes one
width, finest first; `RollUpFails` gives the rest up, as the code does without a
retry; `Restart` takes the cursor from the table's newest row. Any subset of the
series may be in a bucket, which is more than the collectors can interpolate.

`slice_by_range` is two binary searches. `PartitionPoints` is every place such a
search may end; on rows in time order there is one, on the rows of several
containers, which come ordered by id, there may be more. `TooSparse` is the
tracker of gaps, `Replaced` the `INSERT OR REPLACE`.

### MetricsStream

`raw` is the 10 s table, `coarse` the table of the stream's resolution if that is a
coarse one, and `table` the one that the stream reads. `Insert`, `RollUp`, `Announce`
are the collector's insert, which announces a bucket with the first row in it, so for a
coarse width before that bucket is rolled up (`Leaves`, `Present`). `Connect` and
`Subscribe` are apart, since the range is parsed before the subscription; `Snapshot` is
the first query, `Wake` takes an announcement and asks from the last point sent up to
it, `SendAppend` sends each series' latest point of the answer.

`StepBack` is the wall clock going back, by any distance. The collector then closes
buckets again from the new time on, and `Insert` may store a row at or before one that
is stored: it moves the cursor back (`metrics/store.rs`:111-120), and nothing announces
it until time has passed the last announced bucket again (`bucket_watcher.rs`:32). Only
a series that has no 10 s row of that time gets one; replacing a row is not modelled.

`smooth` is history: each row came after the one before, and when the stream had dealt
with that; no query failed; the stream did not connect at a time before a row's, and no
bucket ended between its range's end and its subscription.

## 3. Runs

| Run | What it shows |
|---|---|
| `logbuffer` | coverage, dedup, order, bound, replay and monotonicity, with up to two troubles (ended streams, failed calls, restarts) anywhere and a week that leaves the retention window at any time; under fairness every retained line lands and every stored row is announced |
| `logbuffer_notify` (violation) | the flush watcher notifies although a checkpoint was not written |
| `service_retention` | the cache agrees with the table, the watermark's lag, orphans and attribution, with two callers, clean-ups and one failure or restart anywhere |
| `db_version` | no build runs on a stale or half-wiped database; no loss without force |
| `logstore_pools` | one holder per path, no unusable pool, nothing unlinked under an open pool, every call answered, and the refinement of `WeekFiles` |
| `log_tail` | pages are right; a tail shows rows once, in order, skips none that was there to be read, and catches up |
| `container_observer` | no change and no start is lost, and what runs is followed in the end |
| `container_list` | the list and a client's view are current or about to be; a Noop answer is true |
| `metrics_collector` | rows agree with the curve through all samples, none is missed, the snapshot is the latest batch's, with `null` for a rate that could not be measured |
| `metrics_rollup` | what is rolled up is whole and stays whole, and nothing is missed unless a roll-up was lost or the clock stepped back; for the host and for two containers |
| `metrics_slice` (violation) | when two widths close together, a container can miss its row of the finer one, with no failure at all |
| `metrics_stream` | a stream that keeps up sends every row, and does not stay behind, unless a row is stored behind another after a step back of the clock |

**Bounds.** Each is as small as lets the case happen that the properties are about.

- *LogBuffer*: the logs that are tried (`MCLogs`) hold each case: two lines of one
  millisecond, an exact repeat, two containers, lines on both sides of a week's
  end; seconds and weeks last two milliseconds so that these boundaries fall
  between lines. `MaxBuffered = 2` makes both kinds of flush happen and overlap.
  `MaxTroubles` is two for the logs of two lines, which allows a failure followed by a
  restart or by another failure, as the retry paths need, and one for the log of three,
  which is more than the buffer takes. `MaxOldest = 1`: one of the two weeks leaves the
  window, so a log starts on either side of the cutoff, a checkpoint is older or newer
  than it, and a file and a checkpoint go while flushes are under way. That is 620,389
  states.
- *ServiceRetention*: two names, two callers, three ids (so one can be reclaimed
  and its name interned again), a clock of three ticks from an old dictionary,
  one record besides what is rolled up, one trouble. `OpTime` bounds how long a
  call and the write that follows may take; the code's timeouts are seconds
  against an hour's bucket, and `OpTime <= Bucket` is all that is used.
- *DbVersion* is finite: three builds that differ in one and in two databases.
- *LogStorePools*: one path, since paths share only the cache's lock; a writer, a
  reader and retention, and enough locks, cells and inodes that one is always
  free, so that the locks of two generations and a pool of an unlinked file occur.
  A path in `split` is not deleted again, and each writer appends once to a file.
- *LogTail*: two weeks of two milliseconds, three rows in flushes of at most two,
  pages of one row, so that a page boundary falls inside a week, between equal
  timestamps and between weeks.
- *ContainerObserver*, *ContainerList*: one container that starts and stops any
  number of times; a channel of one event, so that it overflows; one service with
  one watermark that is set, pruned and set again; one client that joins either
  stream again and again. The safety properties are proved for any number.
- *MetricsCollector*: buckets of two samples and a clock of eight ticks make four
  buckets, enough for a container to be dropped and come back and for the buffer
  to let samples go; one restart or one step back of at most two.
- *MetricsRollup*: widths of two and four, so that the wide bucket closes with and
  without the narrow one, and six ticks, so that it closes once and a skipped
  bucket still leaves rows behind it; a gap rule of 60 % lets a bucket of two pass
  with its last row alone missing and fail with its first one; two troubles, so
  that a failed roll-up can be followed by a restart, or a restart by a step back.
- *MetricsStream*: the 10 s table or one of width two, two series of which a stream
  is about one or both. `Start = 1` allows a row stored by the process before, and
  `MaxTime = 4` bounds the time that passes: three buckets end, so that a coarse one is
  left behind and announced, and the clock steps back in between, any number of times
  and by any distance. That is 2,115,608 states.

**Fairness.** tokio polls ready tasks, timers fire, and store calls answer or time
out; nothing that the environment may refuse is assumed.

- `logbuffer`: weak fairness of each log task's start, of `push` per container, of the
  worker's wake-ups and of the next step of each flush. `CommitWeek` and `AppendFails`
  are one fair action, so failures are never forced, and they are bounded by
  `MaxTroubles`; retirement, stream ends, crashes and retention are not fair. When an
  *inline* flush fails and the service has no worker, nothing retries until the next
  push: `Stranded` says so, and the liveness properties excuse a run that stays there.
- `logstore_pools`: strong fairness of each operation's steps, because both
  tokio's mutexes and sqlx's pools serve their waiters in order; weak fairness of
  a close under way. Sweeps and calls need not come.
- `log_tail`: weak fairness of the stream's own steps. That flushes are announced
  and clients connect is not assumed: the property holds of a connected client
  with nothing unsaid.
- `container_observer`: weak fairness of the probe, the timers and the two loops;
  `Probe` is fair, so the flag follows Docker in the end. Strong fairness of a
  task's opening: a task that can be opened again and again is not refused each
  time. Docker's reachability is assumed by the property, not by fairness.
- `metrics_stream`: weak fairness of the collector's and the stream's steps; no
  fairness of time, rows or clients.

**What the code does not keep.** `metrics_slice` is a finding of its own: a
container's row is lost without any failure. The properties of the passing runs are stated with
the hypotheses under which they hold, and each hypothesis names something the
code really does:

- a newer flush of a service may persist its checkpoint while an older one is
  still appending (`CoversUnlessOverlapped`); a crash in between loses lines;
- lines older than the retention cutoff are never fetched (docker/mod.rs:522-526, and
  the test at docker/mod.rs:719), and the lines after them move the dedup state and the
  checkpoint past them; a file of theirs may be deleted at any time (`Retained` in
  `CheckpointCoversLanded`, `DedupDropsOnlyHeld`, `FirstCopiesInOrder`,
  `EverythingLands`);
- an inline flush that fails while the service has no flush worker leaves its batch in
  the buffer until another line is pushed (`Stranded`);
- a push after a failed append goes on buffering past the maximum (`BufferBounded`);
- (ts, hash) of a container's last line cannot tell apart the other lines of its
  millisecond, which a reconnect stores again (`ReplayAddsNoDuplicates`);
- a touch is noted in memory before the table is updated, so a failed update
  leaves the watermark behind without bound (`LagBoundedUnlessLapsed`,
  `NoOrphans`);
- ids are reclaimed although pruning the checkpoints has just failed (`NoOrphans`);
- a manifest that is torn or cannot be read counts as none, and the next start
  deletes databases that match (`NoLossUnforced`, `WipeIsResumed`);
- a failed roll-up, or a crash before it, is not made up for (`ClosedAreRolled`);
- deletion drops a path's lock object while somebody may wait for it, so its waiter
  and a newcomer may work side by side (`split` in `OnePerPath`, `loose` in
  `WeekFiles`);
- a tail reads one page per notification, and never shows what is committed behind
  its cursor (`AlwaysCatchesUp`, `NoLineSkipped`);
- a metrics stream that is slow sends one point of several, the point at the very
  start of its range may come too late, and the last point of a service that has
  stopped is sent again with every announcement (`NothingSkipped`);
- after a step back of the clock, a metrics row may be stored at or behind the last
  announced bucket: it is never announced, and a stream never sends it unless a later
  range happens to hold it; a stream whose range ends before the newest row there is
  does not send that row either (`smooth` in `NothingSkipped` and `EveryRowIsSent`);
- retention prunes watermarks and tells nobody, and a failed read of them counts
  as no stored logs: the services' stream sends removals (`unsaid` in
  `ListIsCurrent`);
- `restart` of a container that is `stopping` or `empty` is answered Submitted and
  nothing is sent; `NoopMeansDone` says nothing of Submitted.

**Where docs and comments disagree with the code.**

- `flush_watcher.rs`:43 says that `notify` is called once "append + checkpoint both ok"
  (and :1-2 once lines are "durably persisted"). `flush_service` calls it as well after
  a failed `id_of`, which writes no checkpoint, and after a failed checkpoint
  (`buffer.rs`:236-251). `logbuffer_notify` shows it: `NotifiesOncePersisted` is the
  comment, and fails. `LandedIsAnnounced` is what the code does instead, and what a
  reader of the stream needs: stored rows are announced, with or without a checkpoint.
- `docs/API.md`:16-20 says that on every endpoint a rate is `0` when nothing could be
  measured, so on `/api/metrics/current` (:335) too. The code gives `null` there
  (`rate.rs`:10-14, `snapshot.rs`:81-89 and 114-126), as `docs/API.md`:36, 285 and 444
  have it. `SnapshotIsOfTheLatest` takes the code's side: it asks for no rate without a
  predecessor and over a reset.
- `rollup.rs`:3-4 and its closing instant: the finding of `metrics_slice`.

Every property of a passing run has a mutant in its module: the definition as a
plausible slip would have written it, with which the property fails.

**Refinement.** `LogStorePools!Linearizable` is `WeekFiles!Spec` under the mapping
`Files`: what a path holds is what the inode it names holds (`Stored`), what an
operation is doing is `Doing`, and a path is loose once it is in `split`. An
append takes effect with the commit in `Finish`, a query with its read there, a
deletion with `RemoveFile`; everything else stutters. A commit into the inode of
an unlinked file would be an append that is answered and not stored, so the
refinement fails unless no operation under a path's lock has a pool of another
inode. TLC checks it as a property of the run, and it is proved.

## 4. Proofs

All theorems hold for every value of the constants under the modules' `ASSUME`s:
time order within a log, distinct model values, positive intervals,
`OpTime <= Bucket`, coarse widths that are multiples of one another, a finite set
of containers, and a channel that holds at least one event; for the log queries a
finite set of weeks that holds every timestamp's, and a positive page limit; for the
collectors a scale that distances of less than two buckets divide, a buffer of more
samples than two buckets have ticks, and at least two idle flushes before a
container is dropped (the code's constant is two).

*LogBuffer.* `TypeCorrect`, `CheckpointsCoverLanded`, `DedupLosesNothing`,
`CheckpointsNeverRegress`, `BufferStaysBounded`, `ReplaysAddNothing`,
`StoredInOrder`. The property "a checkpoint covers what landed" is not
inductive: it must be known what a flush carries. `CoverageInv` adds that the
dedup state covers only lines landed or held (`SeenIsKept`), that whatever a log
task has sent is covered or held (`SentIsKept`), that committed weeks of a batch
have landed (`CommittedHasLanded`), that a snapshot covers only lines that have
landed or are in its own batch while it is being appended, and have all landed
afterwards (`SnapshotIsCarried`, `SnapshotHasLanded`), and that no checkpoint is
ahead of the dedup state (`CheckpointsLagSeen`). `SnapshotIsCarried` is what an
overlap breaks, hence the hypothesis. All of this is said of retained lines: what a log
task skips at its start is covered by the checkpoint or lies before the cutoff, a
deleted week holds no retained line, and a cutoff only moves forward, so it exempts
more lines and never fewer (`CutoffGrows`, `DeletedIsOld`, `PrunedIsOld`). Monotonicity needs the types alone. The bound
needs `BufferHasRoom`: outside an inline flush that is about to empty it, the buffer
is below its maximum. A replay adds nothing by `ReplayInv`: an accepted line is in
the buffer, in the uncommitted part of one batch or in the database, and in one of
them only (`LinesAreOnce`), and the dedup state of its container is at or past it
(`SeenIsLatest`), so a line that is sent again is dropped. The order within a
millisecond is `OrderInv`, on top of `CoverageInv`: in a batch being appended, and in
the buffer behind it, whatever its container wrote earlier in that millisecond is
stored or comes before a line (`BatchesInOrder`, `LinesInOrder`), one batch at a time
is appended, and a commit numbers its rows past all the others. A failed batch keeps
this because it goes back in front, and an overlap breaks it.

*ServiceRegistry.* `RegistryHolds`: `RegistryInv` is unique names, cached entries
that are in the table or being dropped, callers whose id is that of their name,
and ids below `nextSid`.

*ServiceRetention.* `CacheNeverStale` and `NeverMisattributed` follow from
`RetentionInv`, which adds that every record's id is attributed to the service it
was written for: its name in the table is that one or none, and it is never
handed out again. `NothingOrphaned` needs `OrphanInv`: `Noted(s, t)` says that id
`s` has a row whose watermark is, or is being brought, less than the touch
interval behind `t`. Every row's id is noted at the start of the row's bucket,
and once a pass has cleaned the metrics, at the cutoff less a bucket; likewise
the checkpoints; a caller's id is noted at its call, which is at most `OpTime`
ago; and so the reclamation cutoff (a bucket and a touch interval earlier) spares
all of them. What is noted of the callers is also `WatermarkTrails`. The hypotheses `~lapsed` and `~pruneFailed` are the two failures above.

*DbVersion.* `GuardTypeCorrect`, `RunsOnItsOwn`, `ResumesWipe`, `LosesOnlyForced`, from
`GuardInv`: a readable manifest is true of every directory there is; a wipe hits
only what is stale; what it left half deleted is not of the wiping version.

*LogStorePools.* `OneAtATime`, `CacheIsUsable`, `UnlinksClosedFiles` and
`StoreIsLinearizable`. `LockInv` is that a lock has one holder and that, on a path
that is not split, whoever holds or awaits a lock has the one in the map: two
holders of a path would hold the same lock. `CellInv` adds that a cell belongs to
one path, whether it is cached, in use or being closed, so the janitor closes only
what it took out of the cache first. `FilesInv` adds `FilesHaveOneName` (two paths
never name an inode) and `PoolIsOnFile` (the pool an operation holds under a path's
lock is open on the file the path names). `Simulation` then takes each step to a step of `WeekFiles` or a stutter:
an operation that commits has the path's inode, a closed or dropped pool changes
no file that is named (`ClosingKeepsFiles`, `NamedIsKept`), and a path that is
split may do as it likes.

*ContainerObserver.* `ObserverTypeCorrect`; `ChangesArriveInTheEnd` from `ChangeInv`: a listing that is
out of date when it is reconciled has another one coming (`StaleListingIsFollowed`).
`StartsArriveInTheEnd` from `StartInv`: what was observed after the log observer
read the observed containers will wake it again (`LateStartIsHeard`).

*ContainerList.* `ListStaysCurrent` and `NoopsAreDone` from `RefreshInv` (as in
ContainerObserver, for the list) and `ViewInv`: the client's view is what the
server believes it has sent, and stale watermarks will be read again
(`ViewIsSent`, `StaleMarksAreFollowed`).

*MetricsRollup.* `TypeCorrect`, `RollsUpWhole`, `RolledUpForGood` and
`LeavesNothingDue`. `RollupInv`: a roll-up under way has read the rows of the widest
bucket the cursor left, and the cursor is a stored bucket. The rest is arithmetic and
search. A bucket's window is the set of instants that fall into it
(`WindowOfBucket`); the window of a wider bucket contains that of a narrower one that
shares an instant (`NestedWindows`, from the assumption on the widths), so the one
select suffices for all of them; and wherever a binary search over rows sorted by
container first may end, it does not part two rows of one container that lie on the
same side of the window (`SliceKeepsTogether`). So whatever is written is whole, for
containers too: what the finding's searches lose are whole containers, never a part
of one. `ForwardInv` says that without a backward step the cursor is the newest row
and everything rolled up ends before it, where no row lands any more; `DueInv` that
what is due is written or is of the bucket being rolled up. It needs the searches to
be exact (`OrderedSlice`), which they are for one series and for the widest width,
whose range is all that was read.

*LogPaging and LogTail.* `PagingIsRight` says of every page, at any cursor, in either
direction and with any time window, that it is the run of matching rows next to its
cursor and says rightly what is beyond it. The loop's invariant is `PageSoFar`: the
page is in scan order, its weeks come before those still to be read, and a wanted row
it lacks is in one of these or lies beyond a full page. It starts with the candidate
weeks (a week that `week_matches` leaves out holds no wanted row), a round keeps it
(the rows of one week come before those of the next, so what is taken of a week goes
behind the page), and at the end it gives the window. That it holds after every
round is an argument about the first round after which it would not, a least natural
number, since the provers cannot be given an induction over an operator.
`TailInOrder`, `TailSkipsNothing` and `TailTypeCorrect` come from `TailInv`, in
which a query under way is such a loop, with commits between its rounds: what is
committed to a week the loop has dealt with is in `passed` (`QueryUnderWay`). It adds
that every line is in the file of its week, without which a page could not be put
together week by week, and that the cursor is the last row received and is stored
(`CursorIsLastShown`).

*MetricsCollector.* `SnapshotIsLatest` from `SnapshotInv`: the snapshot's previous
sample is the last one there was. `RowsAreOfTheCurve`, `BucketsAreNotMissed` and
`CollectorTypeCorrect` from `CollectorInv`: the open bucket is that of the clock;
without a step back the buffer holds the last of all samples (`BufferIsTheLatest`);
buckets that gave nothing are counted for a container only, and the last one gave none
(`IdleGaveNothing`); and what a buffer lacks that is not full was dropped after two
closings without a row, or is too old for the open bucket (`LacksWhatWasDropped`).
The rest is about the curve. A boundary value is interpolated from two samples with
none between them in the buffer, hence none in the history, so it is on the curve
through all samples (`BoundaryIsOfCurve`); between neighbours less than two buckets
apart the curve is straight, and the scale makes its slope a whole number
(`CurveIsStraight`); so is it between the points of a bucket (`PointsStraight`), where
a trapezoid is the sum of its ticks (`AreaOfTrapezoid`), and the partial sums of the
trapezoids agree with those of the ticks at every point (`GaugeIsArea`). A bucket
that could be interpolated from all samples can be from the buffer
(`CompleteIsHeld`), because a full buffer reaches back over two buckets
(`FullIsEnough`), and one that is not full lacks what `LacksWhatWasDropped` says.

*MetricsStream.* `StreamSkipsNothing` and `StreamTypeCorrect` from `StreamInv`: what a
stream that keeps up has yet to send is of one bucket, of which it will be told
(`SmoothStream`). That needs the tables in the order of the cursor
(`RowsFollowTheCursor`), a channel that is behind by no more than the row under way
(`AnnouncedUpToTheCursor`), and the order of buckets: a later row is in the same
bucket, or after its end (`BucketsInOrder`). Those two hold while the stream is smooth:
a step back changes the clock alone (`StepBackKeeps`), and what breaks the order is a
row stored behind another, which ends smoothness.

**Only model-checked**: liveness, which is out of the prover's reach
(`EverythingLands`, `LandedIsAnnounced`, `EveryCallReturns`, `AlwaysCatchesUp`,
`FollowedAgain`, `EveryRowIsSent`). Every safety property of a passing run is proved.
The type invariants of `ContainerObserver`, `DbVersion`, `LogTail`, `MetricsCollector`
and `MetricsStream` are proved and need no run.

## 5. Not modelled

- Docker output mapping, host metrics, configuration, routing and the frontend:
  parsing, I/O and presentation, without state that outlives a call. What they
  produce is an input of the models.
- The stream of live snapshots (`/api/stream/metrics/current`), which
  rereads the current value on every change.
- Of the stores: schemas, migrations, sizes, grouped counts, the columns and
  averages of metrics rows, and the choice of a resolution for a range. SQLite is
  taken to be atomic per statement or transaction and durable once it has answered.
- What the text, level and stream filters of a log query match: a line of the model
  says whether it does.
- Floating point in interpolation and averages.

## 6. What is left

Of the collectors only types and the snapshot are proved, or checked, after a step
back of the clock; the buffer refuses samples until the clock has caught up. A composition of `LogBuffer` with `ContainerObserver` in one state space,
instead of through the properties of one that the other's actions assume, would be
large and add little: they share only `Follow` and `StreamEnds`. Liveness would need
a prover with fairness.
