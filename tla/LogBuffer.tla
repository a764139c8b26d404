------------------------------ MODULE LogBuffer ------------------------------
(***************************************************************************)
(* The ingestion of one service's log lines: the followers that read the   *)
(* containers' logs from Docker (docker/mod.rs), the single ingestion loop *)
(* that pushes the lines into the LogBuffer, the debounced flush worker,   *)
(* the inline flush of a full buffer, and the two stores a flush writes,   *)
(* the log database and the checkpoint table (logs/buffer.rs,              *)
(* logs/store.rs append, metadata/mod.rs advance_log_checkpoint), with what *)
(* retention takes out of both.                                            *)
(*                                                                         *)
(* Services share nothing but the ingestion loop, so one service is        *)
(* modelled, with several containers.  A line is named by its container    *)
(* and its position in that container's Docker log; its timestamp and its  *)
(* content (the hash, taken to be injective) are looked up there.          *)
(***************************************************************************)
EXTENDS Integers, Sequences, FiniteSets

CONSTANTS
  Cid,            \* containers of the service
  Content,        \* contents a line can have (hash_line's values)
  Logs,           \* the Docker logs that are tried: functions from Cid
  MsPerSec,       \* milliseconds per second: Docker's `since` has seconds
  MsPerWeek,      \* milliseconds per log database file
  MaxBuffered,    \* VPSINER_LOG_MAX_BUFFERED_LINES
  MaxTroubles,    \* bound, for each of Logs: streams that end, store calls
                  \* that fail and process exits, together
  MaxOldest       \* bound: weeks that leave the retention window

DockerLine == [ts: Nat, content: Content]

ASSUME ConstantsAssumption ==
  /\ Content # {}
  /\ MsPerSec \in Nat \ {0}
  /\ MsPerWeek \in Nat \ {0}
  /\ MaxBuffered \in Nat \ {0}
  /\ MaxTroubles \in [Logs -> Nat]
  /\ MaxOldest \in Nat

\* A container's log is written in time order; several lines may share a
\* millisecond, and a line may repeat the one before it exactly.
ASSUME LogsAssumption ==
  /\ Logs \subseteq [Cid -> Seq(DockerLine)]
  /\ \A log \in Logs : \A c \in Cid : \A i, j \in DOMAIN log[c] :
        i <= j => log[c][i].ts <= log[c][j].ts

VARIABLES
  docker,      \* what Docker holds of each container's log
  oldest,      \* the oldest week of the retention window
  following,   \* the containers with a live log task
  pos,         \* the next line a container's log task will send
  ingest,      \* where the ingestion loop is in `push`
  lines,       \* ServiceState.lines
  seen,        \* ServiceState.checkpoints: last accepted (ts, hash)
  worker,      \* the flush worker; "none" is flush_tx = None
  token,       \* whether the flush channel (capacity 1) holds a request
  flush,       \* the two possible callers of flush_service
  rows,        \* the rows of the log databases
  nextRow,     \* rowids are handed out in insertion order
  ckpt,        \* the log_checkpoints table
  fresh,       \* lines whose rows landed since the last notify
  overlapped,  \* history: two flushes once had unlanded batches together
  troubles,    \* the bounded troubles so far
  suffered     \* history: which of "failure" and "restart" were among them

vars == <<docker, oldest, following, pos, ingest, lines, seen, worker, token, flush,
          rows, nextRow, ckpt, fresh, overlapped, troubles, suffered>>

--------------------------------------------------------------------------------
DockerLines == {l \in [cid: Cid, idx: Nat \ {0}] : l.idx <= Len(docker[l.cid])}
Ts(l) == docker[l.cid][l.idx].ts
Payload(l) == docker[l.cid][l.idx].content
WeekOf(l) == Ts(l) \div MsPerWeek
LinesIn(s) == {s[i] : i \in DOMAIN s}

\* A checkpoint is a (ts, hash) pair.  A container without one is given a
\* timestamp below every line, which no comparison in the code can tell apart.
NoCheckpoint == [ts |-> -1, content |-> CHOOSE m \in Content : TRUE]
Checkpoint == [ts: Nat \cup {-1}, content: Content]

\* retention_cutoff_ms: the start of the oldest week that is kept.
CutoffOf(w) == w * MsPerWeek
Cutoff == CutoffOf(oldest)

\* log_since_secs: the follower restarts at the checkpoint's second, and never
\* before the retention cutoff, which is also where it starts without one.
SecondOf(ms) == ms - (ms % MsPerSec)
SinceMs(ck) ==
  IF SecondOf(ck.ts) > SecondOf(Cutoff) THEN SecondOf(ck.ts) ELSE SecondOf(Cutoff)
\* The `since` filter of Docker: p is the first line from there on.
\* Mutant: a zero-based position.
ZeroBasedSince(log, ck, p) == p = Cardinality({j \in DOMAIN log : log[j].ts < SinceMs(ck)})
IsFirstSince(log, ck, p) ==
  /\ p >= 1
  /\ \A j \in 1..(p - 1) : log[j].ts < SinceMs(ck)
  /\ p <= Len(log) => log[p].ts >= SinceMs(ck)

\* The two-level dedup check of `push`.
\* Mutant: without the second level, the exact repeat at the boundary.
DroppedIfOlder(l) == Ts(l) < seen[l.cid].ts
Dropped(l) ==
  \/ Ts(l) < seen[l.cid].ts
  \/ Ts(l) = seen[l.cid].ts /\ Payload(l) = seen[l.cid].content

Flusher == {"worker", "inline"}
IdleFlush == [pc |-> "idle", batch |-> <<>>, weeks |-> {}, cks |-> {}]
CidCheckpoint == [cid: Cid, ts: Nat \cup {-1}, content: Content]
FlushState == [pc: {"idle", "take", "append", "intern", "advance"},
               batch: Seq(DockerLines), weeks: SUBSET Nat, cks: SUBSET CidCheckpoint]

\* A trouble of one kind happens, within the bound.
Suffer(kinds) ==
  /\ troubles < MaxTroubles[docker]
  /\ troubles' = troubles + 1
  /\ suffered' = suffered \cup kinds

--------------------------------------------------------------------------------
Init ==
  /\ docker \in Logs
  /\ oldest = 0
  /\ following = {}
  /\ pos = [c \in Cid |-> 1]
  /\ ingest = "recv"
  /\ lines = <<>>
  /\ seen = [c \in Cid |-> NoCheckpoint]
  /\ worker = "none"
  /\ token = FALSE
  /\ flush = [f \in Flusher |-> IdleFlush]
  /\ rows = {}
  /\ nextRow = 1
  /\ ckpt = [c \in Cid |-> NoCheckpoint]
  /\ fresh = {}
  /\ overlapped = FALSE
  /\ troubles = 0
  /\ suffered = {}

--------------------------------------------------------------------------------
(* The Docker side: one log task per observed container. *)

\* The observer spawns the task of a container that has none; the task loads
\* the persisted checkpoint and follows the log from there.
Follow(c) ==
  /\ c \notin following
  /\ following' = following \cup {c}
  /\ \E p \in 0..(Len(docker[c]) + 1) :
        /\ IsFirstSince(docker[c], ckpt[c], p)
        /\ pos' = [pos EXCEPT ![c] = p]
  /\ UNCHANGED <<docker, oldest, ingest, lines, seen, worker, token, flush, rows,
                 nextRow, ckpt, fresh, overlapped, troubles, suffered>>

\* The log stream ends or fails; a later observer cycle spawns a new task.
StreamEnds(c) ==
  /\ c \in following
  /\ following' = following \ {c}
  /\ pos' = [pos EXCEPT ![c] = 1]
  /\ Suffer({})
  /\ UNCHANGED <<docker, oldest, ingest, lines, seen, worker, token, flush, rows,
                 nextRow, ckpt, fresh, overlapped>>

--------------------------------------------------------------------------------
(* The ingestion loop: LogBuffer::push, one call at a time. *)

\* Whether a push that leaves n lines buffered flushes them itself.
\* Mutant: every flush is left to the worker.
NeverInline(n) == FALSE
FlushInline(n) == n >= MaxBuffered

\* Dedup, checkpoint and insertion happen under the service's mutex.  Whether
\* the flush is inline is decided there, and acted on after the unlock.
PushAccept(c) ==
  LET l == [cid |-> c, idx |-> pos[c]] IN
  /\ ingest = "recv"
  /\ c \in following
  /\ pos[c] <= Len(docker[c])
  /\ ~Dropped(l)
  /\ pos' = [pos EXCEPT ![c] = @ + 1]
  /\ seen' = [seen EXCEPT ![c] = [ts |-> Ts(l), content |-> Payload(l)]]
  /\ lines' = Append(lines, l)
  /\ IF FlushInline(Len(lines) + 1)
     THEN /\ ingest' = "flush"
          /\ flush' = [flush EXCEPT !["inline"].pc = "take"]
     ELSE /\ ingest' = "schedule"
          /\ UNCHANGED flush
  /\ UNCHANGED <<docker, oldest, following, worker, token, rows, nextRow, ckpt, fresh,
                 overlapped, troubles, suffered>>

PushDrop(c) ==
  LET l == [cid |-> c, idx |-> pos[c]] IN
  /\ ingest = "recv"
  /\ c \in following
  /\ pos[c] <= Len(docker[c])
  /\ Dropped(l)
  /\ pos' = [pos EXCEPT ![c] = @ + 1]
  /\ UNCHANGED <<docker, oldest, following, ingest, lines, seen, worker, token, flush,
                 rows, nextRow, ckpt, fresh, overlapped, troubles, suffered>>

\* schedule_flush: spawn the worker if there is none, then try_send.
ScheduleFlush ==
  /\ ingest = "schedule"
  /\ ingest' = "recv"
  /\ worker' = IF worker = "none" THEN "waiting" ELSE worker
  /\ token' = TRUE
  /\ UNCHANGED <<docker, oldest, following, pos, lines, seen, flush, rows, nextRow,
                 ckpt, fresh, overlapped, troubles, suffered>>

--------------------------------------------------------------------------------
(* spawn_flush_worker *)

WorkerReceives ==
  /\ worker = "waiting"
  /\ token
  /\ worker' = "debouncing"
  /\ token' = FALSE
  /\ UNCHANGED <<docker, oldest, following, pos, ingest, lines, seen, flush, rows,
                 nextRow, ckpt, fresh, overlapped, troubles, suffered>>

\* The debounce is over: later requests are drained, the flush begins.
WorkerDebounced ==
  /\ worker = "debouncing"
  /\ worker' = "flushing"
  /\ token' = FALSE
  /\ flush' = [flush EXCEPT !["worker"].pc = "take"]
  /\ UNCHANGED <<docker, oldest, following, pos, ingest, lines, seen, rows, nextRow,
                 ckpt, fresh, overlapped, troubles, suffered>>

\* keep_alive elapsed with nothing buffered: the worker retires.
WorkerRetires ==
  /\ worker = "waiting"
  /\ ~token
  /\ lines = <<>>
  /\ worker' = "none"
  /\ UNCHANGED <<docker, oldest, following, pos, ingest, lines, seen, token, flush,
                 rows, nextRow, ckpt, fresh, overlapped, troubles, suffered>>

--------------------------------------------------------------------------------
(* flush_service, called by the worker and by the ingestion loop *)

\* What becomes of a caller when its flush_service returns.
Return(f) ==
  /\ flush' = [flush EXCEPT ![f] = IdleFlush]
  /\ IF f = "worker"
     THEN worker' = "waiting" /\ UNCHANGED ingest
     ELSE ingest' = "recv" /\ UNCHANGED worker

TakeNothing(f) ==
  /\ flush[f].pc = "take"
  /\ lines = <<>>
  /\ Return(f)
  /\ UNCHANGED <<docker, oldest, following, pos, lines, seen, token, rows, nextRow,
                 ckpt, fresh, overlapped, troubles, suffered>>

\* Under the mutex: take the lines and a snapshot of their checkpoints.
Take(f) ==
  /\ flush[f].pc = "take"
  /\ lines # <<>>
  /\ flush' = [flush EXCEPT ![f] =
       [pc    |-> "append",
        batch |-> lines,
        weeks |-> {WeekOf(l) : l \in LinesIn(lines)},
        cks   |-> {[cid |-> c, ts |-> seen[c].ts, content |-> seen[c].content] :
                     c \in {l.cid : l \in LinesIn(lines)}}]]
  /\ lines' = <<>>
  /\ overlapped' = (overlapped \/ \E g \in Flusher \ {f} : flush[g].pc = "append")
  /\ UNCHANGED <<docker, oldest, following, pos, ingest, seen, worker, token, rows,
                 nextRow, ckpt, fresh, troubles, suffered>>

\* Mutant: the first committed week ends the append.
AfterFirstCommit(f, w) == "intern"
AfterCommit(f, w) == IF flush[f].weeks = {w} THEN "intern" ELSE "append"

\* append, one transaction per week file, in the order of a HashMap: any.
CommitWeek(f, w) ==
  LET batch == flush[f].batch
      part == {i \in DOMAIN batch : WeekOf(batch[i]) = w}
  IN
  /\ flush[f].pc = "append"
  /\ w \in flush[f].weeks
  /\ rows' = rows \cup {[line |-> batch[i], id |-> nextRow + i] : i \in part}
  /\ nextRow' = nextRow + Len(batch)
  /\ fresh' = fresh \cup {batch[i] : i \in part}
  /\ flush' = [flush EXCEPT ![f].weeks = @ \ {w},
                            ![f].pc = AfterCommit(f, w)]
  /\ UNCHANGED <<docker, oldest, following, pos, ingest, lines, seen, worker, token,
                 ckpt, overlapped, troubles, suffered>>

\* The failed batch stays in front of the lines that arrived meanwhile.
\* Mutants: it goes behind them; it is forgotten.
RequeuedBehind(f) == lines \o flush[f].batch
RequeuedNothing(f) == lines
Requeued(f) == flush[f].batch \o lines

\* request_service_flush: a request to the worker, if there is one.
\* Mutant: no retry is requested.
NoRetry == token
RetryRequested == token \/ worker # "none"

\* append fails, maybe after some weeks were committed: the whole batch goes
\* back to the buffer.
AppendFails(f) ==
  /\ flush[f].pc = "append"
  /\ lines' = Requeued(f)
  /\ token' = RetryRequested
  /\ Return(f)
  /\ Suffer({"failure"})
  /\ UNCHANGED <<docker, oldest, following, pos, seen, rows, nextRow, ckpt, fresh,
                 overlapped>>

\* services_registry.id_of
Intern(f) ==
  /\ flush[f].pc = "intern"
  /\ flush' = [flush EXCEPT ![f].pc = "advance"]
  /\ UNCHANGED <<docker, oldest, following, pos, ingest, lines, seen, worker, token,
                 rows, nextRow, ckpt, fresh, overlapped, troubles, suffered>>

\* Mutant: id_of fails and nobody is notified.
InternFailsSilently(f) ==
  /\ flush[f].pc = "intern"
  /\ Return(f)
  /\ Suffer({"failure"})
  /\ UNCHANGED <<docker, oldest, following, pos, lines, seen, token, rows, nextRow,
                 ckpt, fresh, overlapped>>

\* id_of fails: notify and return, leaving the checkpoints behind.
InternFails(f) ==
  /\ flush[f].pc = "intern"
  /\ fresh' = {}
  /\ Return(f)
  /\ Suffer({"failure"})
  /\ UNCHANGED <<docker, oldest, following, pos, lines, seen, token, rows, nextRow,
                 ckpt, overlapped>>

\* The upsert of advance_log_checkpoint: only a timestamp as new is written.
\* Mutant: without the WHERE of the ON CONFLICT clause.
UpsertAlways(ck) == [ckpt EXCEPT ![ck.cid] = [ts |-> ck.ts, content |-> ck.content]]
Upsert(ck) ==
  IF ckpt[ck.cid].ts <= ck.ts
  THEN [ckpt EXCEPT ![ck.cid] = [ts |-> ck.ts, content |-> ck.content]]
  ELSE ckpt

AdvanceCheckpoint(f, ck) ==
  /\ flush[f].pc = "advance"
  /\ ck \in flush[f].cks
  /\ ckpt' = Upsert(ck)
  /\ flush' = [flush EXCEPT ![f].cks = @ \ {ck}]
  /\ UNCHANGED <<docker, oldest, following, pos, ingest, lines, seen, worker, token,
                 rows, nextRow, fresh, overlapped, troubles, suffered>>

\* A failed upsert is logged and the next one is tried.
AdvanceFails(f, ck) ==
  /\ flush[f].pc = "advance"
  /\ ck \in flush[f].cks
  /\ flush' = [flush EXCEPT ![f].cks = @ \ {ck}]
  /\ Suffer({"failure"})
  /\ UNCHANGED <<docker, oldest, following, pos, ingest, lines, seen, worker, token,
                 rows, nextRow, ckpt, fresh, overlapped>>

Notify(f) ==
  /\ flush[f].pc = "advance"
  /\ flush[f].cks = {}
  /\ fresh' = {}
  /\ Return(f)
  /\ UNCHANGED <<docker, oldest, following, pos, lines, seen, token, rows, nextRow,
                 ckpt, overlapped, troubles, suffered>>

--------------------------------------------------------------------------------
(* The process dies and starts again: LogBuffer::new preloads the dedup state
   from the checkpoint table, and every log task starts over.  A graceful
   shutdown does the same to this state: async_main aborts the ingestion task,
   so that the flush_all at the end of its loop is not reached. *)
Crash ==
  /\ following' = {}
  /\ pos' = [c \in Cid |-> 1]
  /\ ingest' = "recv"
  /\ lines' = <<>>
  /\ seen' = ckpt
  /\ worker' = "none"
  /\ token' = FALSE
  /\ flush' = [f \in Flusher |-> IdleFlush]
  /\ fresh' = {}
  /\ Suffer({"restart"})
  /\ UNCHANGED <<docker, oldest, rows, nextRow, ckpt, overlapped>>

--------------------------------------------------------------------------------
(* Retention.  Its pass computes the cutoff, deletes one log file after another
   and then the checkpoints (ServiceRetention has the pass as a whole).  Here
   each of these happens at any time after its week has left the window. *)

WeekPasses ==
  /\ oldest < MaxOldest
  /\ oldest' = oldest + 1
  /\ UNCHANGED <<docker, following, pos, ingest, lines, seen, worker, token,
                 flush, rows, nextRow, ckpt, fresh, overlapped, troubles, suffered>>

\* LogStore::delete_before, one file; an append may create it anew.
DeleteWeek(w) ==
  /\ w < oldest
  /\ rows' = {r \in rows : WeekOf(r.line) # w}
  /\ UNCHANGED <<docker, oldest, following, pos, ingest, lines, seen, worker,
                 token, flush, nextRow, ckpt, fresh, overlapped, troubles, suffered>>

\* MetadataStore::delete_before, with the cutoff of a pass that began when the
\* oldest week was w.
PruneCheckpoints(w) ==
  /\ ckpt' = [c \in Cid |-> IF ckpt[c].ts < CutoffOf(w) THEN NoCheckpoint ELSE ckpt[c]]
  /\ UNCHANGED <<docker, oldest, following, pos, ingest, lines, seen, worker,
                 token, flush, rows, nextRow, fresh, overlapped, troubles, suffered>>

--------------------------------------------------------------------------------
FlushStep(f) ==
  \/ TakeNothing(f)
  \/ Take(f)
  \/ \E w \in flush[f].weeks : CommitWeek(f, w)
  \/ AppendFails(f)
  \/ Intern(f)
  \/ InternFails(f)
  \/ \E ck \in flush[f].cks : AdvanceCheckpoint(f, ck)
  \/ \E ck \in flush[f].cks : AdvanceFails(f, ck)
  \/ Notify(f)

Retention ==
  \/ WeekPasses
  \/ \E w \in {WeekOf(r.line) : r \in rows} : DeleteWeek(w)
  \/ \E w \in 1..oldest : PruneCheckpoints(w)

Next ==
  \/ \E c \in Cid : Follow(c)
  \/ \E c \in Cid : StreamEnds(c)
  \/ \E c \in Cid : PushAccept(c)
  \/ \E c \in Cid : PushDrop(c)
  \/ ScheduleFlush
  \/ WorkerReceives
  \/ WorkerDebounced
  \/ WorkerRetires
  \/ \E f \in Flusher : FlushStep(f)
  \/ Crash
  \/ Retention

Spec == Init /\ [][Next]_vars

\* The observer's cycle, the ingestion loop, the worker's task and the store
\* calls all make progress: tokio polls every ready task, and each await has a
\* timeout or an answer.  Nothing forces a failure, a crash or a retirement.
Fairness ==
  /\ \A c \in Cid : WF_vars(Follow(c))
  /\ \A c \in Cid : WF_vars(PushAccept(c) \/ PushDrop(c))
  /\ WF_vars(ScheduleFlush)
  /\ WF_vars(WorkerReceives)
  /\ WF_vars(WorkerDebounced)
  /\ \A f \in Flusher : WF_vars(FlushStep(f))

FairSpec == Spec /\ Fairness

--------------------------------------------------------------------------------
\* Every variable stays within its type.
TypeOK ==
  /\ docker \in Logs
  /\ oldest \in 0..MaxOldest
  /\ following \subseteq Cid
  /\ pos \in [Cid -> Nat \ {0}]
  /\ ingest \in {"recv", "schedule", "flush"}
  /\ lines \in Seq(DockerLines)
  /\ seen \in [Cid -> Checkpoint]
  /\ worker \in {"none", "waiting", "debouncing", "flushing"}
  /\ token \in BOOLEAN
  /\ flush \in [Flusher -> FlushState]
  /\ rows \subseteq [line: DockerLines, id: Nat]
  /\ nextRow \in Nat \ {0}
  /\ ckpt \in [Cid -> Checkpoint]
  /\ fresh \subseteq DockerLines
  /\ overlapped \in BOOLEAN
  /\ troubles \in 0..MaxTroubles[docker]
  /\ suffered \subseteq {"failure", "restart"}

--------------------------------------------------------------------------------
(* What the log database holds of a line: a row with its timestamp and content,
   which is what a reader of the logs sees. *)
Landed(c, i) == \E r \in rows : r.line.cid = c /\ docker[c][r.line.idx] = docker[c][i]

\* A line accepted but not yet stored: buffered, or in a batch being appended.
HeldIn(s, c, i) == \E l \in LinesIn(s) : l.cid = c /\ docker[c][l.idx] = docker[c][i]
Held(c, i) ==
  \/ HeldIn(lines, c, i)
  \/ \E f \in Flusher : flush[f].pc = "append" /\ HeldIn(flush[f].batch, c, i)

\* Whether retention keeps the week of a line.  Of an older line nothing is
\* promised: Docker is not asked for it, and its file may go at any time.
Retained(c, i) == docker[c][i].ts >= Cutoff

\* The retained lines that a checkpoint makes `push` drop for good.
CoveredBy(ck, c) ==
  {i \in DOMAIN docker[c] :
     Retained(c, i) /\ (docker[c][i].ts < ck.ts \/ docker[c][i] = ck)}

NoRestartYet == "restart" \notin suffered
NoFailureYet == "failure" \notin suffered

\* "don't advance checkpoints for data that didn't land" (buffer.rs:231): every
\* line that a persisted checkpoint makes ingestion skip after a restart, and
\* whose week retention keeps, is in the log database.
CheckpointCoversLanded ==
  \A c \in Cid : \A i \in CoveredBy(ckpt[c], c) : Landed(c, i)

\* The same, as long as no inline flush of a full buffer has ever overlapped
\* with the worker's flush: two flushes in flight are what breaks it.
CoversUnlessOverlapped == ~overlapped => CheckpointCoversLanded

\* The in-memory dedup drops a retained line only if its content is stored,
\* buffered or in flight: no failed append, retry, reconnect or id_of error makes
\* push forget a line it has accepted.  (A restart after overlapping flushes may,
\* and lines before the retention cutoff are passed over without being read.)
DedupDropsOnlyHeld ==
  (~overlapped \/ NoRestartYet) =>
     \A c \in Cid : \A i \in CoveredBy(seen[c], c) : Landed(c, i) \/ Held(c, i)

\* A persisted checkpoint never moves back, although two flushes with snapshots
\* of different ages may write the same row in either order.  Only retention takes
\* one away, and only one that lies before the cutoff.
Pruned(c) == ckpt[c].ts < Cutoff /\ ckpt'[c] = NoCheckpoint
CheckpointNeverRegresses ==
  [][\A c \in Cid : ckpt[c].ts <= ckpt'[c].ts \/ Pruned(c)]_ckpt

\* Retained lines of one container that share a millisecond are first stored in
\* the order Docker wrote them, which is the order the log view breaks ties by:
\* a failed batch goes back in front of newer lines.
FirstCopiesInOrder ==
  ~overlapped =>
     \A r \in rows : \A j \in 1..(r.line.idx - 1) :
        LET log == docker[r.line.cid] IN
        Retained(r.line.cid, j) /\ log[j].ts = log[r.line.idx].ts =>
          \E q \in rows : /\ q.line.cid = r.line.cid
                          /\ log[q.line.idx] = log[j]
                          /\ log[j] = log[r.line.idx] \/ q.id < r.id

\* "Per-service buffered log lines allowed before ingestion blocks on a write"
\* (config.rs:316): the buffer stays within the maximum, as long as no append
\* fails.  After a failure it does not: push returns, and buffers the next line.
BufferBounded == NoFailureYet => Len(lines) <= MaxBuffered

\* "safe backfilling without duplicating already persisted lines"
\* (ARCHITECTURE.md:237): no Docker line is stored twice.
NoDuplicateRows == \A q, r \in rows : q.line = r.line => q.id = r.id

DistinctTimes ==
  \A c \in Cid : \A i, j \in DOMAIN docker[c] : i # j => docker[c][i].ts # docker[c][j].ts

\* What holds of it: while nothing has failed and the process has not
\* restarted, reconnecting to a log whose lines have distinct timestamps stores
\* no line twice, however the replay and the flushes interleave.
ReplayAddsNoDuplicates ==
  NoFailureYet /\ NoRestartYet /\ DistinctTimes => NoDuplicateRows

\* Every line that Docker holds and retention keeps is stored in the end, through
\* stream ends, failed store calls and restarts, unless two flushes overlapped,
\* or an inline flush failed while there was no worker to try again: its lines
\* stay in the buffer until another one is pushed.
Stranded == lines # <<>> /\ worker = "none"
EverythingLands ==
  \/ <>(overlapped \/ \A c \in Cid : \A i \in DOMAIN docker[c] :
                         Retained(c, i) => Landed(c, i))
  \/ <>[]Stranded

\* Stored rows are announced to the tail streams, also when the service's id or a
\* checkpoint could not be written after them (buffer.rs:236-251): no flush leaves
\* rows behind that no later notify follows, unless it leaves a part of its batch
\* stranded as well.
LandedIsAnnounced == []<>(fresh = {}) \/ <>[]Stranded

\* "Called after a service's buffered lines are durably persisted (append +
\* checkpoint both ok)" (flush_watcher.rs:43).  The code does not wait for that:
\* it notifies as well after a failed id_of or a failed checkpoint.
NotifiesOncePersisted ==
  [][\A f \in Flusher : InternFails(f) \/ Notify(f) =>
       \A l \in LinesIn(flush[f].batch) :
          Retained(l.cid, l.idx) => ckpt[l.cid].ts >= Ts(l)]_vars

--------------------------------------------------------------------------------
(* The inductive invariant behind CoversUnlessOverlapped and DedupDropsOnlyHeld
   (proved in IngestionProofs). *)
Kept(c, i) == Landed(c, i) \/ Held(c, i)
CoveredBySnapshot(ck) == CoveredBy([ts |-> ck.ts, content |-> ck.content], ck.cid)

\* What the dedup check drops is kept.
SeenIsKept == \A c \in Cid : \A i \in CoveredBy(seen[c], c) : Kept(c, i)

\* What a log task has sent, or skipped when it started, is kept, as far as
\* retention asks for it.
SentIsKept ==
  \A c \in following :
     /\ pos[c] <= Len(docker[c]) + 1
     /\ \A i \in 1..(pos[c] - 1) :
           Retained(c, i) => docker[c][i].ts <= seen[c].ts /\ Kept(c, i)

\* The weeks that an append is done with are in the database.
CommittedHasLanded ==
  \A f \in Flusher : flush[f].pc = "append" =>
     \A l \in LinesIn(flush[f].batch) :
        Retained(l.cid, l.idx) => WeekOf(l) \in flush[f].weeks \/ Landed(l.cid, l.idx)

\* The checkpoints a flush will write cover what is stored or in its own batch,
\* and only what is stored once the batch is.
SnapshotIsCarried ==
  \A f \in Flusher : flush[f].pc = "append" =>
     \A ck \in flush[f].cks : \A i \in CoveredBySnapshot(ck) :
        Landed(ck.cid, i) \/ HeldIn(flush[f].batch, ck.cid, i)
SnapshotHasLanded ==
  \A f \in Flusher : flush[f].pc \in {"intern", "advance"} =>
     \A ck \in flush[f].cks : \A i \in CoveredBySnapshot(ck) : Landed(ck.cid, i)

\* No checkpoint, written or to be written, is ahead of the dedup state.
CheckpointsLagSeen ==
  /\ \A c \in Cid : ckpt[c].ts <= seen[c].ts
  /\ \A f \in Flusher : \A ck \in flush[f].cks : ck.ts <= seen[ck.cid].ts

\* A caller of flush_service does nothing else until it returns.
CallersWait ==
  /\ ingest = "flush" <=> flush["inline"].pc # "idle"
  /\ worker = "flushing" <=> flush["worker"].pc # "idle"

CoverageInv ==
  /\ TypeOK
  /\ CallersWait
  /\ CommittedHasLanded
  /\ CheckpointsLagSeen
  /\ ~overlapped \/ NoRestartYet => SeenIsKept /\ SentIsKept
  /\ ~overlapped => /\ SnapshotIsCarried
                    /\ SnapshotHasLanded
                    /\ CheckpointCoversLanded
--------------------------------------------------------------------------------
(* The inductive invariants behind BufferBounded and ReplayAddsNoDuplicates. *)

\* While no append has failed a push finds room: it waits for the inline flush
\* that empties a full buffer.
BufferHasRoom ==
  NoFailureYet => /\ Len(lines) <= MaxBuffered
                  /\ flush["inline"].pc # "take" => Len(lines) < MaxBuffered

\* The lines an append has still to commit, and those that are stored.
Uncommitted ==
  [f \in Flusher |->
     {l \in LinesIn(flush[f].batch) : flush[f].pc = "append" /\ WeekOf(l) \in flush[f].weeks}]
StoredLines == {r.line : r \in rows}

NoRepeats(s) == \A i, j \in DOMAIN s : s[i] = s[j] => i = j

\* An accepted line is in one place: the buffer, one batch, or the database.
LinesAreOnce ==
  /\ NoRepeats(lines)
  /\ LinesIn(lines) \cap StoredLines = {}
  /\ \A f \in Flusher :
       /\ flush[f].pc = "append" => NoRepeats(flush[f].batch)
       /\ Uncommitted[f] \cap (LinesIn(lines) \cup StoredLines) = {}
       /\ \A g \in Flusher \ {f} : Uncommitted[f] \cap Uncommitted[g] = {}
  /\ NoDuplicateRows

\* The dedup state is at or after every accepted line, and is a line itself.
SeenIsLatest ==
  /\ \A l \in LinesIn(lines) \cup StoredLines : Ts(l) <= seen[l.cid].ts
  /\ \A f \in Flusher : \A l \in Uncommitted[f] : Ts(l) <= seen[l.cid].ts
  /\ \A c \in Cid : seen[c].ts = -1 \/ \E i \in DOMAIN docker[c] : docker[c][i] = seen[c]

ReplayInv == NoFailureYet /\ NoRestartYet /\ DistinctTimes => LinesAreOnce /\ SeenIsLatest

--------------------------------------------------------------------------------
(* The inductive invariant behind FirstCopiesInOrder. *)

\* The earlier lines of a line's container and millisecond that read otherwise.
EarlierTies(l) ==
  {j \in 1..(l.idx - 1) :
     /\ Retained(l.cid, j)
     /\ docker[l.cid][j].ts = Ts(l)
     /\ docker[l.cid][j] # docker[l.cid][l.idx]}
HeldBefore(s, k, j) ==
  \E m \in 1..(k - 1) : s[m].cid = s[k].cid /\ docker[s[k].cid][s[m].idx] = docker[s[k].cid][j]

\* A batch being appended, and the buffer behind it, hold or follow the earlier
\* lines of each millisecond.
BatchesInOrder ==
  \A f \in Flusher : flush[f].pc = "append" =>
     \A k \in DOMAIN flush[f].batch : \A j \in EarlierTies(flush[f].batch[k]) :
        Landed(flush[f].batch[k].cid, j) \/ HeldBefore(flush[f].batch, k, j)
LinesInOrder ==
  \A k \in DOMAIN lines : \A j \in EarlierTies(lines[k]) :
     \/ Landed(lines[k].cid, j)
     \/ HeldBefore(lines, k, j)
     \/ \E f \in Flusher : flush[f].pc = "append" /\ HeldIn(flush[f].batch, lines[k].cid, j)

OneAppends ==
  \A f, g \in Flusher : flush[f].pc = "append" /\ flush[g].pc = "append" => f = g
RowsAreNumbered == \A r \in rows : r.id <= nextRow

OrderInv ==
  RowsAreNumbered /\ (~overlapped => OneAppends /\ BatchesInOrder /\ LinesInOrder /\ FirstCopiesInOrder)
================================================================================
