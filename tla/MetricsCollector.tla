---------------------------- MODULE MetricsCollector ----------------------------
(***************************************************************************)
(* The metrics collectors.  A batch of the containers' collector holds the *)
(* sample of the one container looked at, or only those of others; a batch *)
(* of a new bucket closes the one before for every container, and those    *)
(* that gave nothing for a while are dropped.  The host's collector is the *)
(* same with one series, which is never dropped.  Each batch also makes the*)
(* live snapshot.                                                          *)
(***************************************************************************)
EXTENDS Bucketizer

CONSTANTS
  MaxIdleFlushes, \* MAX_IDLE_FLUSHES
  StaleAfter,     \* STALE_INTERVALS collection intervals
  MaxClock,       \* bound: the clock
  MaxStep,        \* bound: how far the clock steps back
  MaxTroubles     \* bound: restarts of the container and steps back

\* no sample, no time, no slope and no row is None
ASSUME CollectorAssumption ==
  /\ StaleAfter \in Nat /\ MaxClock \in Nat /\ MaxStep \in Nat
  /\ None \notin Int
  /\ None \notin [ts : Int, value : Int]
  /\ None \notin [rise : Int, time : Int]
  /\ None \notin [rise : Int \cup {None}, area : Int, peak : Int \cup {None}]
  /\ None \notin Seq([ts : Int, value : Int])

\* Samples are a tick of the clock apart or more.  Two buckets of them and one more
\* fit into the buffer: BUFFERED_BUCKETS is 8, so they may be somewhat more than a
\* quarter of the collection interval apart.  MAX_IDLE_FLUSHES is 2.
ASSUME BufferAssumption == BufferCapacity > 2 * BucketLen /\ MaxIdleFlushes \in Nat \ {0, 1}

VARIABLES
  source,    \* whose collector it is: "host" or "container"
  clock,     \* the clock, at the latest batch
  entry,     \* its bucketizers, and the buckets that gave nothing in a row
  lastEnd,   \* last_raw_bucket_end
  snapshot,  \* the current point and the previous sample of the live snapshot
  rows,      \* the rows that were made, each with the closing it comes from
  closed,    \* history: the buckets closed, with the samples there were
  taken,     \* history: every sample the container gave
  troubles   \* history: restarts of the container and steps back of the clock

collectorVars == <<source, clock, entry, lastEnd, snapshot, rows, closed, taken, troubles>>

Unknown == [known |-> FALSE, samples |-> <<>>, idle |-> 0]
Nothing == [ts |-> None, rate |-> None]

CollectorInit ==
  /\ source \in {"host", "container"}
  /\ clock = 1
  /\ entry = Unknown /\ lastEnd = None
  /\ snapshot = [current |-> Nothing, previous |-> None]
  /\ rows = <<>> /\ closed = <<>>
  /\ taken = <<>>
  /\ troubles = [resets |-> 0, steps |-> 0]

---------------------------------------------------------------------------
(* The snapshot                                                            *)

\* mutant: a counter that starts again counts from zero
OptionalRateFromZero(current, previous) ==
  LET dt == current.ts - previous.ts
  IN IF dt <= 0 THEN None
     ELSE [rise |-> IF current.value < previous.value THEN current.value
                    ELSE current.value - previous.value, time |-> dt]

\* slope between two readings, scaled; None after a reset or without time
OptionalRate(current, previous) ==
  LET dt == current.ts - previous.ts
  IN IF dt <= 0 \/ current.value < previous.value THEN None
     ELSE [rise |-> current.value - previous.value, time |-> dt]

\* the maps are replaced by what the batch has
Recorded(sample) ==
  IF sample = None THEN [current |-> Nothing, previous |-> None]
  ELSE [current  |-> [ts |-> sample.ts,
                      rate |-> IF snapshot.previous = None THEN None
                               ELSE OptionalRate(sample, snapshot.previous)],
        previous |-> sample]

\* what is read of it at a time
CurrentAt(time) ==
  IF snapshot.current.ts # None /\ snapshot.current.ts >= time - StaleAfter
  THEN snapshot.current ELSE Nothing

---------------------------------------------------------------------------
(* The bucketizers                                                         *)

Pushed(sample) ==
  IF sample = None THEN entry
  ELSE [entry EXCEPT !.known = TRUE, !.samples = Push(@, sample)]

\* a container's row needs its CPU counters and the gauge, the host's row the
\* gauges; any other value may be null
Row(samples, end) ==
  LET rise == CounterCollect(samples, end)
      area == GaugeCollect(samples, end)
  IN IF area = None \/ (source = "container" /\ rise = None) THEN None
     ELSE [rise |-> rise, area |-> area, peak |-> MaxCollect(samples, end)]

\* a container that gave nothing is kept for some buckets
Flushed(e, end) ==
  IF ~e.known \/ source = "host" THEN e
  ELSE IF Row(e.samples, end) # None THEN [e EXCEPT !.idle = 0]
  ELSE IF e.idle + 1 < MaxIdleFlushes THEN [e EXCEPT !.idle = @ + 1]
  ELSE Unknown

\* the row of the bucket, with what the history keeps of the closing
Close(e, end, all) ==
  /\ rows' = IF e.known /\ Row(e.samples, end) # None
             THEN Append(rows, [closing |-> Len(closed) + 1, row |-> Row(e.samples, end)])
             ELSE rows
  /\ closed' = Append(closed, [end |-> end, samples |-> all])

---------------------------------------------------------------------------

\* mutant: the bucket is closed before the batch is pushed
ObserveClosesFirst(time, sample) ==
  LET current == RawBucketEnd(time)
      all     == IF sample = None THEN taken ELSE Append(taken, sample)
  IN /\ clock' = time /\ UNCHANGED source
     /\ taken' = all
     /\ snapshot' = Recorded(sample)
     /\ lastEnd' = current
     /\ IF lastEnd # None /\ current > lastEnd
        THEN entry' = Pushed(sample) /\ Close(entry, lastEnd, all)
        ELSE entry' = Pushed(sample) /\ UNCHANGED <<rows, closed>>

\* run_containers: a batch taken at a time, with a sample of the container or
\* only of others; it is recorded and pushed before a bucket is closed
Observe(time, sample) ==
  LET current == RawBucketEnd(time)
      pushed  == Pushed(sample)
      all     == IF sample = None THEN taken ELSE Append(taken, sample)
  IN /\ clock' = time /\ UNCHANGED source
     /\ taken' = all
     /\ snapshot' = Recorded(sample)
     /\ lastEnd' = current
     /\ IF lastEnd # None /\ current > lastEnd
        THEN entry' = Flushed(pushed, lastEnd) /\ Close(pushed, lastEnd, all)
        ELSE entry' = pushed /\ UNCHANGED <<rows, closed>>

LastValue == IF taken = <<>> THEN 0 ELSE Last(taken).value

Rises(time) == {[ts |-> time, value |-> v] : v \in LastValue..(LastValue + 1)}

\* rounds may be left out, and a batch without any sample is not sent
ContainerBatch ==
  /\ source = "container"
  /\ \E time \in (clock + 1)..MaxClock : \E sample \in Rises(time) \cup {None} : Observe(time, sample)
  /\ UNCHANGED troubles

\* rounds may be left out or fail, the sample before anything is recorded
HostBatch ==
  /\ source = "host"
  /\ \E time \in (clock + 1)..MaxClock : \E sample \in Rises(time) : Observe(time, sample)
  /\ UNCHANGED troubles

\* the container or the host has started anew, and its counters with it
BatchAfterRestart ==
  /\ troubles.resets + troubles.steps < MaxTroubles
  /\ LastValue > 0 /\ clock < MaxClock
  /\ Observe(clock + 1, [ts |-> clock + 1, value |-> 0])
  /\ troubles' = [troubles EXCEPT !.resets = @ + 1]

BatchAfterStepBack ==
  /\ troubles.resets + troubles.steps < MaxTroubles
  /\ \E time \in Max({1, clock - MaxStep})..(clock - 1) : Observe(time, [ts |-> time, value |-> LastValue])
  /\ troubles' = [troubles EXCEPT !.steps = @ + 1]

CollectorNext == ContainerBatch \/ HostBatch \/ BatchAfterRestart \/ BatchAfterStepBack

CollectorSpec == CollectorInit /\ [][CollectorNext]_collectorVars

---------------------------------------------------------------------------
(* Properties                                                              *)

\* the curve through all samples, where it is defined
HasCurveAt(all, t) == (\E i \in DOMAIN all : all[i].ts <= t) /\ (\E i \in DOMAIN all : all[i].ts >= t)

CurveAt(all, t) ==
  LET before == all[Max({i \in DOMAIN all : all[i].ts <= t})]
      after  == all[Min({i \in DOMAIN all : all[i].ts >= t})]
  IN IF before.ts = after.ts THEN Scale * before.value ELSE Between(before, after, t)

\* the row is what the curve through all samples gives
RowIsOfCurve(row, all, end) ==
  LET start == end - BucketLen
  IN /\ HasCurveAt(all, start) /\ HasCurveAt(all, end)
     /\ row.rise \in {None, CurveAt(all, end) - CurveAt(all, start)}
     /\ row.area = Total([i \in 1..BucketLen |-> CurveAt(all, start + i - 1) + CurveAt(all, start + i)])
     /\ row.peak = Max({all[j].value : j \in Places(all, Bucket(end))})

\* Whatever the buffer has let go, a row is what the curve through all samples
\* gives: its rise from the bucket's start to its end, the area under it and the
\* highest sample.  So neighbouring rows agree at their common boundary, and no
\* increase of a counter is counted twice or left out between them.
RowsMatchHistory ==
  \A i \in DOMAIN rows :
    LET closing == closed[rows[i].closing]
    IN troubles.steps = 0 => RowIsOfCurve(rows[i].row, closing.samples, closing.end)

HasRow(k) == \E i \in DOMAIN rows : rows[i].closing = k
HasRate(k) == \E i \in DOMAIN rows : rows[i].closing = k /\ rows[i].row.rise # None

\* samples on both sides of both boundaries
Complete(all, end) ==
  /\ \E i \in DOMAIN all : all[i].ts \in Bucket(end - BucketLen)
  /\ \E i \in DOMAIN all : all[i].ts \in Bucket(end)
  /\ \E i \in DOMAIN all : end <= all[i].ts /\ all[i].ts <= end + BucketLen

\* none of them, or between them, is of another life
Rising(all, end) ==
  \A i, j \in DOMAIN all :
    i < j /\ end - 2 * BucketLen < all[i].ts /\ all[j].ts <= end + BucketLen
      => all[i].value <= all[j].value

\* A bucket that could be interpolated when it was closed has its row, and its
\* rate unless counters were reset, except where a container had been dropped
\* for two closings without a row: a sample that is late, missing or of another
\* life costs the buckets it touches and at most the one after them.
NothingMissed ==
  troubles.steps = 0 =>
    \A k \in DOMAIN closed :
      LET all == closed[k].samples
          end == closed[k].end
      IN Complete(all, end) =>
           \/ HasRow(k) /\ (Rising(all, end) => HasRate(k))
           \/ /\ source = "container"
              /\ ~Rising(all, end) \/ (k > 2 /\ ~HasRow(k - 1) /\ ~HasRow(k - 2))

\* What the snapshot shows is the latest batch's, not older than it may be, and
\* its rate, where there is one, is the slope between the container's last two
\* samples: never over a restart or a step back of the clock.  Otherwise it is
\* null, as optional_rate's comment has it ("unknowable rather than zero",
\* rate.rs:10-11); docs/API.md:20, which says `0` for every endpoint, disagrees with
\* the code and with its own lines 36, 285 and 444 here.
SnapshotIsOfTheLatest ==
  \A time \in clock..MaxClock :
    LET shown == CurrentAt(time)
        n == Len(taken)
    IN shown # Nothing =>
         /\ shown.ts = Last(taken).ts /\ time - shown.ts <= StaleAfter
         /\ shown.rate # None =>
              /\ n > 1 /\ taken[n - 1].value <= taken[n].value
              /\ shown.rate = [rise |-> taken[n].value - taken[n - 1].value,
                               time |-> taken[n].ts - taken[n - 1].ts]
              /\ shown.rate.time > 0

---------------------------------------------------------------------------
(* The inductive invariant of SnapshotIsOfTheLatest                        *)

\* The values of the clock, of the history of samples and of the snapshot.
SnapshotTypeOK ==
  /\ clock \in Nat
  /\ taken \in Seq([ts : Int, value : Nat])
  /\ snapshot \in [current  : [ts : Int \cup {None}, rate : [rise : Int, time : Int] \cup {None}],
                   previous : [ts : Int, value : Nat] \cup {None}]

\* The previous sample is the one the current point was made of, the last there was.
PreviousIsTheLast ==
  /\ snapshot.previous = None <=> snapshot.current.ts = None
  /\ snapshot.previous # None =>
       /\ taken # <<>> /\ snapshot.previous = Last(taken)
       /\ snapshot.current.ts = Last(taken).ts

\* A rate is the slope between the last two samples.
RateIsTheSlope ==
  LET n == Len(taken)
  IN snapshot.current.rate # None =>
       /\ snapshot.previous # None
       /\ n > 1 /\ taken[n - 1].value <= taken[n].value
       /\ snapshot.current.rate = [rise |-> taken[n].value - taken[n - 1].value,
                                   time |-> taken[n].ts - taken[n - 1].ts]
       /\ snapshot.current.rate.time > 0

SnapshotInv == SnapshotTypeOK /\ PreviousIsTheLast /\ RateIsTheSlope

---------------------------------------------------------------------------
(* The inductive invariant of RowsMatchHistory and NothingMissed           *)

InTimeOrder(samples) == \A i, j \in DOMAIN samples : i < j => samples[i].ts < samples[j].ts

\* how many samples the buffer does not hold
Lacking == Len(taken) - Len(entry.samples)

Samples == Seq([ts : Nat, value : Nat])
RowValues == [rise : Int \cup {None}, area : Int, peak : Int \cup {None}]

CollectorTypeOK ==
  /\ source \in {"host", "container"} /\ clock \in Nat /\ lastEnd \in Nat \cup {None}
  /\ taken \in Samples
  /\ entry \in [known : BOOLEAN, samples : Samples, idle : Nat] /\ InTimeOrder(entry.samples)
  /\ closed \in Seq([end : Nat, samples : Samples])
  /\ rows \in Seq([closing : Nat, row : RowValues])
  /\ \A i \in DOMAIN rows : rows[i].closing \in DOMAIN closed
  /\ troubles \in [resets : Nat, steps : Nat]

\* The bucket that is open is that of the latest batch.
LastEndIsTheClocks == lastEnd # None => lastEnd = RawBucketEnd(clock)

\* Without a step back samples are taken in time order, and the buffer holds the last.
BufferIsTheLatest ==
  /\ InTimeOrder(taken) /\ \A i \in DOMAIN taken : taken[i].ts <= clock
  /\ taken # <<>> => lastEnd # None
  /\ Lacking >= 0 /\ Len(entry.samples) <= BufferCapacity
  /\ \A i \in DOMAIN entry.samples : entry.samples[i] = taken[Lacking + i]
  /\ entry.known <=> entry.samples # <<>>

\* Buckets that gave nothing are counted, for a container.
IdleGaveNothing == entry.idle > 0 => source = "container" /\ closed # <<>> /\ ~HasRow(Len(closed))

\* What a buffer lacks that is not full was dropped after two closings without a
\* row, or is of no use to the open bucket.
LacksWhatWasDropped ==
  Lacking > 0 /\ Len(entry.samples) < BufferCapacity =>
    /\ source = "container"
    /\ \/ Len(closed) > 1 /\ ~HasRow(Len(closed)) /\ ~HasRow(Len(closed) - 1)
       \/ taken[Lacking].ts <= lastEnd - 2 * BucketLen

CollectorInv ==
  /\ CollectorTypeOK /\ LastEndIsTheClocks /\ IdleGaveNothing
  /\ troubles.steps = 0 => BufferIsTheLatest /\ LacksWhatWasDropped
================================================================================
