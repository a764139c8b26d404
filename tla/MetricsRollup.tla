----------------------------- MODULE MetricsRollup -----------------------------
(***************************************************************************)
(* The metrics tables of one source, the host or the containers: the       *)
(* collector closes 10 s buckets and inserts them, and the insert that     *)
(* leaves a coarse bucket behind rolls it up into the 1m, 5m and 1h tables *)
(* (metrics/store.rs, rollup.rs, downsampling.rs, schema.rs).              *)
(*                                                                         *)
(* Time is counted in 10 s buckets.  A row's readings are not modelled; a  *)
(* coarse row carries the 10 s rows it averages instead (`of`).  What a    *)
(* collector can interpolate is left open: it closes a bucket with any of  *)
(* its series, or none.                                                    *)
(***************************************************************************)
EXTENDS Integers, FiniteSets

CONSTANTS
  Sources,     \* the sources that are tried: a source is its set of series,
               \* {1} for the host, container ids otherwise
  Widths,      \* MetricsResolution::COARSE
  MaxGapPct,   \* VPSINER_DOWNSAMPLE_MAX_GAP_PCT
  MaxTime,     \* bound: time ends
  MaxTroubles  \* bound: failed roll-ups, exits and backward clock steps

ASSUME ConstantsAssumption ==
  /\ \A s \in Sources : s \subseteq Nat /\ IsFiniteSet(s)
  /\ Widths \subseteq Nat \ {0}
  /\ IsFiniteSet(Widths)
  /\ MaxGapPct \in 0..100
  /\ MaxTime \in Nat
  /\ MaxTroubles \in Nat

\* 60 s, 300 s and 3600 s nest: "coarser buckets always contain the finer ones".
ASSUME WidthsNest ==
  \A v, w \in Widths : v <= w => \E k \in 1..w : w = k * v

VARIABLES
  source,    \* the series of the source
  raw,       \* the 10s table
  coarse,    \* the table of each coarse width
  now,       \* the wall clock's bucket
  last,      \* last_raw_bucket_end of the collector, or None
  cursor,    \* last_host_ts or last_containers_ts, or None
  closing,   \* the roll-up under way: previous_ts,
  samples,   \*   the 10 s rows it has read
  todo,      \*   and the widths it still has to write
  troubles,  \* the bounded troubles so far
  suffered   \* history: the kinds among them

vars == <<source, raw, coarse, now, last, cursor, closing, samples, todo,
          troubles, suffered>>
collector == <<now, last>>
rolling == <<closing, samples, todo>>

None == 0
Trouble == {"failure", "exit", "step back"}
Row == [ts: Nat, cid: Nat]
CoarseRow == [ts: Nat, cid: Nat, of: SUBSET Nat]

Greatest(S) == CHOOSE x \in S : \A y \in S : y <= x
Least(S) == CHOOSE x \in S : \A y \in S : x <= y

--------------------------------------------------------------------------------
\* Mutant: the bucket that begins at a boundary takes it.
FloorBucketEnd(ts, w) == (ts \div w + 1) * w
BucketEnd(ts, w) == -((-ts) \div w) * w

\* source_range: half open at the start.
Window(end, w) == (end - w + 1)..end

\* resolutions_closed_by
Closed(previous, new) ==
  {w \in Widths : BucketEnd(new, w) # BucketEnd(previous, w)}

\* widest_source_range and the select.  Mutant: the first closed one's range.
NarrowestWidth(closed) == Least(closed)
FetchWidth(closed) == Greatest(closed)
Fetched(table, previous, closed) ==
  LET w == FetchWidth(closed)
  IN {r \in table : r.ts \in Window(BucketEnd(previous, w), w)}

\* The order select_containers returns rows in; a host's rows have one cid.
Before(x, y) == x.cid < y.cid \/ (x.cid = y.cid /\ x.ts < y.ts)

\* What partition_point may return, as the prefix it cuts off: a binary search
\* ends between an element that satisfies the predicate and one that does not.
\* If the satisfying ones do not come first, there may be several such places.
Prefixes(rows) ==
  {{}} \cup {{y \in rows : y = x \/ Before(y, x)} : x \in rows}
PartitionPoints(rows, satisfying) ==
  {prefix \in Prefixes(rows) :
     /\ \A x \in prefix :
          x \in satisfying \/ \E y \in prefix : Before(x, y)
     /\ \A x \in rows \ prefix :
          x \notin satisfying \/ \E y \in rows \ prefix : Before(y, x)}

\* slice_by_range.  Both searches probe the same places, so the first never
\* ends behind the second.
Slices(rows, range) ==
  LET starts == PartitionPoints(rows, {r \in rows : \A t \in range : r.ts < t})
      ends == PartitionPoints(rows, {r \in rows : \E t \in range : r.ts <= t})
  IN UNION {{end \ start : end \in {e \in ends : start \subseteq e}} : start \in starts}

\* GapTracker: some silence, the edges of the bucket included, is too long.
TooSparse(present, end, w) ==
  \E t \in (present \cup {end - w}) \ {end} :
    \A u \in present \cup {end} : u > t => (u - t) * 100 > w * MaxGapPct

\* downsample_host, downsample_container
Aggregate(rows, end, w, c) ==
  [ts |-> end, cid |-> c,
   of |-> {r.ts : r \in {q \in rows : q.cid = c /\ BucketEnd(q.ts, w) = end}}]
Downsample(rows, w) ==
  {point \in {Aggregate(rows, BucketEnd(r.ts, w), w, r.cid) : r \in rows} :
     ~TooSparse(point.of, point.ts, w)}

SameKey(x, y) == x.ts = y.ts /\ x.cid = y.cid

\* INSERT OR REPLACE
Replaced(table, points) ==
  points \cup {r \in table : \A p \in points : ~SameKey(r, p)}

\* select_*_max_ts.  Mutant: a restart forgets the cursor.
NoCursor(table) == None
StoredCursor(table) == IF table = {} THEN None ELSE Greatest({r.ts : r \in table})

\* `advance`: the bucket before, when time moved on.  Mutant: unconditionally.
PreviousAlways(ts) == cursor
PreviousTs(ts) == IF cursor # None /\ ts > cursor THEN cursor ELSE None

--------------------------------------------------------------------------------
Init ==
  /\ source \in Sources
  /\ raw = {}
  /\ coarse = [w \in Widths |-> {}]
  /\ now = 1
  /\ last = None
  /\ cursor = None
  /\ closing = None
  /\ samples = {}
  /\ todo = {}
  /\ troubles = 0
  /\ suffered = {}

Suffers(kind) ==
  /\ troubles < MaxTroubles
  /\ troubles' = troubles + 1
  /\ suffered' = suffered \cup {kind}

\* The collector awaits an insert, so it sees nothing while one is under way.
Idle == todo = {}

\* `observe` reaches the bucket `current` and stores nothing: no bucket closed,
\* nothing in it could be collected, or the insert failed, because of a row
\* with the same key or otherwise, before the cursor moved.
Sample(current) ==
  /\ Idle
  /\ current >= now
  /\ now' = current
  /\ last' = current
  /\ UNCHANGED <<source, raw, coarse, cursor, rolling, troubles, suffered>>

\* The wall clock steps back: `observe` closes nothing.
StepBack(current) ==
  /\ Idle
  /\ current < now
  /\ Suffers("step back")
  /\ now' = current
  /\ last' = current
  /\ UNCHANGED <<source, raw, coarse, cursor, rolling>>

\* `observe` closes the last bucket and its rows are inserted.  The rows
\* of the roll-up are read in the same step, because nothing else
\* writes the source's 10s table.
Store(current, batch) ==
  /\ Idle
  /\ last # None
  /\ current > last
  /\ \A r \in raw : r.ts = last => r.cid \notin batch
  /\ now' = current
  /\ last' = current
  /\ raw' = raw \cup {[ts |-> last, cid |-> c] : c \in batch}
  /\ cursor' = last
  /\ LET previous == PreviousTs(last)
         closed == IF previous = None THEN {} ELSE Closed(previous, last)
     IN /\ todo' = closed
        /\ closing' = IF closed = {} THEN None ELSE previous
        /\ samples' = IF closed = {} THEN {} ELSE Fetched(raw', previous, closed)
  /\ UNCHANGED <<source, coarse, troubles, suffered>>

\* The roll-up of the finest width still to be written.
RollUp ==
  /\ todo # {}
  /\ LET w == Least(todo)
     IN \E slice \in Slices(samples, Window(BucketEnd(closing, w), w)) :
          coarse' = [coarse EXCEPT ![w] = Replaced(@, Downsample(slice, w))]
  /\ todo' = todo \ {Least(todo)}
  /\ closing' = IF todo' = {} THEN None ELSE closing
  /\ samples' = IF todo' = {} THEN {} ELSE samples
  /\ UNCHANGED <<source, raw, collector, cursor, troubles, suffered>>

\* The select or an insert fails: the rest is given up.
RollUpFails ==
  /\ todo # {}
  /\ Suffers("failure")
  /\ todo' = {}
  /\ closing' = None
  /\ samples' = {}
  /\ UNCHANGED <<source, raw, coarse, collector, cursor>>

\* The process exits and starts again; only an exit in the middle of a roll-up
\* is held against it.
Restart ==
  /\ troubles < MaxTroubles
  /\ troubles' = troubles + 1
  /\ suffered' = IF Idle THEN suffered ELSE suffered \cup {"exit"}
  /\ last' = None
  /\ cursor' = StoredCursor(raw)
  /\ todo' = {}
  /\ closing' = None
  /\ samples' = {}
  /\ UNCHANGED <<source, raw, coarse, now>>

Next ==
  \/ \E current \in 1..MaxTime :
       \/ Sample(current)
       \/ StepBack(current)
       \/ \E batch \in (SUBSET source) \ {{}} : Store(current, batch)
  \/ RollUp
  \/ RollUpFails
  \/ Restart

Spec == Init /\ [][Next]_vars

--------------------------------------------------------------------------------
\* Every variable has the shape the code gives it, and a roll-up starts from a
\* bucket before the one the cursor has moved to.
TypeOK ==
  /\ source \in Sources
  /\ raw \subseteq Row
  /\ coarse \in [Widths -> SUBSET CoarseRow]
  /\ now \in Nat
  /\ last \in Nat
  /\ cursor \in Nat
  /\ closing \in Nat
  /\ samples \subseteq raw
  /\ todo \subseteq Widths
  /\ todo # {} => closing # None /\ closing < cursor
  /\ troubles \in 0..MaxTroubles
  /\ suffered \subseteq Trouble

\* What MetricsRollupProofs shows with it: a roll-up under way has read the 10 s
\* rows of the widest bucket that the cursor left, and still writes left ones.
RollupInv ==
  /\ TypeOK
  /\ IsFiniteSet(raw)
  /\ \A r \in raw : r.cid \in source
  /\ cursor # None => \E r \in raw : r.ts = cursor
  /\ todo # {} =>
       /\ todo \subseteq Closed(closing, cursor)
       /\ samples = Fetched(raw, closing, Closed(closing, cursor))

\* What the aggregate of a bucket ought to be: over all its rows.
Whole(end, w, c) == Aggregate(raw, end, w, c)

\* "A coarse bucket is rolled up by the first 10s insert that lands past its
\* closing instant, so the coarse tables only ever hold fully elapsed buckets"
\* (rollup.rs:3): whatever fails and however the clock jumps, a roll-up writes a
\* coarse row, the host's or a container's, from all the rows of its bucket, when
\* a row past it is stored.
WritesWholeElapsedBuckets ==
  [][\A w \in Widths : \A p \in coarse'[w] \ coarse[w] :
         /\ p = Whole(p.ts, w, p.cid)
         /\ \E r \in raw : r.ts > p.ts]_vars

ClockAdvances == "step back" \notin suffered

\* As long as the clock does not step back, a coarse row never falls behind the
\* 10 s rows it stands for, containers included: no row lands in a bucket that
\* was rolled up, across failed roll-ups and restarts.
RolledStaysWhole ==
  ClockAdvances =>
    \A w \in Widths : \A p \in coarse[w] : p = Whole(p.ts, w, p.cid)

\* A bucket that the cursor has left and whose rows pass the gap rule.
Due(w) ==
  {p \in {Whole(BucketEnd(r.ts, w), w, r.cid) : r \in raw} :
     p.ts < BucketEnd(cursor, w) /\ ~TooSparse(p.of, p.ts, w)}

\* Between inserts every such bucket is in its table, restarts included, unless
\* a roll-up failed, was cut by an exit, or the clock stepped back.  Of several
\* containers this holds for the widest table alone.
ClosedAreRolled ==
  Idle /\ suffered = {} =>
    \A w \in Widths : Cardinality(source) = 1 \/ w = Greatest(Widths) =>
      Due(w) \subseteq coarse[w]

\* The same for every width and every container: rollup.rs:3 again.
EveryClosedIsRolled ==
  Idle /\ suffered = {} => \A w \in Widths : Due(w) \subseteq coarse[w]

--------------------------------------------------------------------------------
(* The strengthenings behind RolledStaysWhole and ClosedAreRolled (proved in
   MetricsRollupProofs). *)

\* A clock that does not step back leaves the cursor at the newest row, and every
\* rolled-up bucket before it, where no row is added any more.
CursorIsNewest ==
  /\ \A r \in raw : r.ts \in 1..cursor
  /\ last # None => cursor <= last
  /\ cursor <= now
RolledIsWhole ==
  \A w \in Widths : \A p \in coarse[w] : p.ts < cursor /\ p = Whole(p.ts, w, p.cid)
ForwardInv == ClockAdvances => CursorIsNewest /\ RolledIsWhole

\* What is due is written, or is of the bucket that is being rolled up.
DueInv ==
  suffered = {} =>
    \A w \in Widths : Cardinality(source) = 1 \/ w = Greatest(Widths) =>
      \A p \in Due(w) : p \in coarse[w] \/ (w \in todo /\ p.ts = BucketEnd(closing, w))
================================================================================
