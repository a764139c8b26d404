------------------------------- MODULE Bucketizer -------------------------------
(***************************************************************************)
(* How one metric's samples become one value per bucket: a FIFO of samples *)
(* in time order, boundaries interpolated from the neighbouring buckets,   *)
(* gauges as means, counters as slopes, peaks as maxima.  Values are scaled*)
(* so that the interpolation is exact; the code rounds them in the end.    *)
(***************************************************************************)
EXTENDS Integers, Sequences, SequencesExt, FiniteSetsExt

CONSTANTS
  BucketLen,       \* the bucket's length, in clock ticks
  CollectInterval, \* the interval between two samples
  BufferedBuckets, \* BUFFERED_BUCKETS
  Scale,           \* a common multiple of the distances of samples
  None

ASSUME IntervalsAssumption ==
  /\ BucketLen \in Nat \ {0} /\ CollectInterval \in Nat \ {0}
  /\ BufferedBuckets \in Nat /\ Scale \in Nat
  /\ \A d \in 1..(2 * BucketLen - 1) : Scale % d = 0

\* the end of the bucket (end - BucketLen, end] that holds t
RawBucketEnd(t) == ((t + BucketLen - 1) \div BucketLen) * BucketLen

\* the times that fall into it
Bucket(end) == (end - BucketLen + 1)..end

BufferCapacity == Max({(BufferedBuckets * BucketLen) \div CollectInterval, 4})

\* older and duplicate samples are ignored
Push(samples, s) ==
  IF samples # <<>> /\ s.ts <= Last(samples).ts THEN samples
  ELSE LET all == Append(samples, s)
       IN SubSeq(all, Max({1, Len(all) - BufferCapacity + 1}), Len(all))

Places(samples, times) == {i \in DOMAIN samples : samples[i].ts \in times}

\* the first and the last of the samples at those times
FirstAt(samples, times) ==
  LET places == Places(samples, times) IN IF places = {} THEN None ELSE samples[Min(places)]
LastAt(samples, times) ==
  LET places == Places(samples, times) IN IF places = {} THEN None ELSE samples[Max(places)]

\* a line through two samples, at a time between them
Between(left, right, t) ==
  (Scale \div (right.ts - left.ts)) * (left.value * (right.ts - t) + right.value * (t - left.ts))

\* mutant: halfway between the neighbours, wherever the boundary is
BoundaryHalfway(samples, b) ==
  LET exact == FirstAt(samples, {b})
      left  == LastAt(samples, (b - BucketLen + 1)..(b - 1))
      right == FirstAt(samples, (b + 1)..(b + BucketLen))
  IN IF exact # None THEN Scale * exact.value
     ELSE IF left = None \/ right = None THEN None
     ELSE (Scale \div 2) * (left.value + right.value)

\* the value at a boundary, from the two buckets that meet there
Boundary(samples, b) ==
  LET exact == FirstAt(samples, {b})
      left  == LastAt(samples, (b - BucketLen + 1)..(b - 1))
      right == FirstAt(samples, (b + 1)..(b + BucketLen))
  IN IF exact # None THEN Scale * exact.value
     ELSE IF left = None \/ right = None THEN None
     ELSE Between(left, right, b)

\* the samples at those times, which follow one another
Inside(samples, times) ==
  LET places == Places(samples, times)
  IN IF places = {} THEN <<>> ELSE SubSeq(samples, Min(places), Max(places))

\* both boundaries and the samples strictly between them
BucketPoints(samples, end) ==
  LET start  == end - BucketLen
      inside == Inside(samples, (start + 1)..(end - 1))
      Point(t, v) == [ts |-> t, value |-> v]
  IN IF \/ Boundary(samples, start) = None \/ Boundary(samples, end) = None
        \/ Places(samples, Bucket(end)) = {}
     THEN None
     ELSE <<Point(start, Boundary(samples, start))>>
          \o [i \in DOMAIN inside |-> Point(inside[i].ts, Scale * inside[i].value)]
          \o <<Point(end, Boundary(samples, end))>>

\* the sums of the first terms
Sums(terms) ==
  LET sum[n \in 0..Len(terms)] == IF n = 0 THEN 0 ELSE sum[n - 1] + terms[n] IN sum
Total(terms) == Sums(terms)[Len(terms)]

\* twice the trapezoidal integral, of which a gauge's bucket is the mean
GaugeCollect(samples, end) ==
  LET p == BucketPoints(samples, end)
  IN IF p = None THEN None
     ELSE Total([i \in 1..(Len(p) - 1) |-> (p[i].value + p[i + 1].value) * (p[i + 1].ts - p[i].ts)])

MaxCollect(samples, end) ==
  LET within == {samples[i].value : i \in Places(samples, Bucket(end))}
  IN IF within = {} THEN None ELSE Max(within)

\* the samples a counter's bucket depends on must not decrease
CounterCollect(samples, end) ==
  LET before == Places(samples, Bucket(end - BucketLen))
      after  == Places(samples, end..(end + BucketLen))
      p      == BucketPoints(samples, end)
  IN IF before = {} \/ after = {} THEN None
     ELSE IF \/ \E i \in Max(before)..(Min(after) - 1) : samples[i].value > samples[i + 1].value
             \/ p = None
     THEN None
     ELSE Last(p).value - Head(p).value
================================================================================
