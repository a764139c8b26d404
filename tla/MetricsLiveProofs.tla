--------------------------- MODULE MetricsLiveProofs ---------------------------
(***************************************************************************)
(* Proofs about the live side of the metrics, for all series, widths,      *)
(* bucket lengths and bounds: the snapshot that the collectors make of     *)
(* every batch, the rows they make of the samples, the buckets they do not *)
(* miss, and the stream that is told of buckets.                           *)
(***************************************************************************)
EXTENDS MetricsCurveProofs, MetricsStream

---------------------------------------------------------------------------
(* The live snapshot                                                       *)

\* What a batch's snapshot has, from what there was of it and of the samples.
LEMMA RecordedIsTheSlope ==
  ASSUME SnapshotInv, NEW sample \in [ts : Int, value : Nat] \cup {None},
         taken' = (IF sample = None THEN taken ELSE Append(taken, sample)),
         snapshot' = Recorded(sample), clock' \in Nat
  PROVE  SnapshotInv'
<1> DEFINE Sampled == [ts : Int, value : Nat]
<1>1. None \notin Sampled /\ None \notin Int /\ None \notin [rise : Int, time : Int]
  BY CollectorAssumption
<1>2. taken \in Seq(Sampled) /\ Len(taken) \in Nat
  BY DEF SnapshotInv, SnapshotTypeOK
<1>3. CASE sample = None
  <2>1. snapshot' = [current |-> [ts |-> None, rate |-> None], previous |-> None] /\ taken' = taken
    BY <1>3 DEF Recorded, Nothing
  <2> QED BY <2>1, <1>2 DEF SnapshotInv, SnapshotTypeOK, PreviousIsTheLast, RateIsTheSlope
<1>4. CASE sample # None
  <2>1. sample \in Sampled /\ sample.ts \in Int /\ sample.value \in Nat /\ sample.ts # None
    BY <1>1, <1>4
  <2>2. /\ taken' = Append(taken, sample) /\ taken' \in Seq(Sampled)
        /\ Len(taken') = Len(taken) + 1 /\ taken' # <<>>
        /\ Last(taken') = sample /\ taken'[Len(taken')] = sample
    BY <1>2, <1>4, <2>1 DEF Last
  <2>3. PICK rate : rate = IF snapshot.previous = None THEN None
                           ELSE OptionalRate(sample, snapshot.previous)
    OBVIOUS
  <2>4. snapshot' = [current |-> [ts |-> sample.ts, rate |-> rate], previous |-> sample]
    BY <1>4, <2>3 DEF Recorded
  <2>5. rate # None =>
          /\ taken # <<>> /\ sample.ts - Last(taken).ts > 0 /\ Last(taken).value <= sample.value
          /\ rate = [rise |-> sample.value - Last(taken).value, time |-> sample.ts - Last(taken).ts]
    <3> SUFFICES ASSUME rate # None PROVE
          /\ taken # <<>> /\ sample.ts - Last(taken).ts > 0 /\ Last(taken).value <= sample.value
          /\ rate = [rise |-> sample.value - Last(taken).value, time |-> sample.ts - Last(taken).ts]
      OBVIOUS
    <3>1. taken # <<>> /\ snapshot.previous = Last(taken)
      BY <2>3 DEF SnapshotInv, PreviousIsTheLast
    <3>2. Last(taken) \in Sampled
      BY <3>1, <1>2, LastOfSequence
    <3>3. rate = OptionalRate(sample, Last(taken))
      BY <2>3, <3>1
    <3> QED BY <2>1, <3>1, <3>2, <3>3 DEF OptionalRate
  <2>6. rate # None => /\ Len(taken') > 1 /\ taken'[Len(taken') - 1] = Last(taken)
                       /\ Last(taken).ts \in Int /\ Last(taken).value \in Nat
    <3> SUFFICES ASSUME rate # None
                 PROVE  /\ Len(taken') > 1 /\ taken'[Len(taken') - 1] = Last(taken)
                        /\ Last(taken).ts \in Int /\ Last(taken).value \in Nat
      OBVIOUS
    <3>1. Len(taken) \in Nat \ {0} /\ Last(taken) = taken[Len(taken)] /\ Last(taken) \in Sampled
      BY <1>2, <2>5, LastOfSequence
    <3> QED BY <1>2, <2>1, <2>2, <3>1
  <2>7. rate \in [rise : Int, time : Int] \cup {None}
    BY <2>1, <2>5, <2>6
  <2>8. SnapshotTypeOK'
    BY <2>1, <2>2, <2>4, <2>7 DEF SnapshotTypeOK
  <2>9. PreviousIsTheLast'
    BY <1>1, <2>1, <2>2, <2>4 DEF PreviousIsTheLast
  <2>10. RateIsTheSlope'
    <3>1. snapshot'.current.rate = rate /\ snapshot'.previous # None
      BY <1>4, <2>4
    <3>2. rate # None => /\ Len(taken') > 1
                         /\ taken'[Len(taken') - 1].value <= taken'[Len(taken')].value
                         /\ rate = [rise |-> taken'[Len(taken')].value - taken'[Len(taken') - 1].value,
                                     time |-> taken'[Len(taken')].ts - taken'[Len(taken') - 1].ts]
      BY <2>2, <2>5, <2>6
    <3>3. rate # None => rate.time > 0
      BY <2>5
    <3> QED BY <3>1, <3>2, <3>3 DEF RateIsTheSlope
  <2> QED BY <2>8, <2>9, <2>10 DEF SnapshotInv
<1> QED BY <1>3, <1>4

LEMMA SnapshotInit == CollectorInit => SnapshotInv
  BY DEF CollectorInit, SnapshotInv, SnapshotTypeOK, PreviousIsTheLast, RateIsTheSlope, Nothing

LEMMA LastValueIsNatural == SnapshotInv => LastValue \in Nat
<1> SUFFICES ASSUME SnapshotInv, taken # <<>> PROVE Last(taken).value \in Nat
  BY DEF LastValue
<1>1. taken \in Seq([ts : Int, value : Nat])
  BY DEF SnapshotInv, SnapshotTypeOK
<1>2. Last(taken) \in [ts : Int, value : Nat]
  BY <1>1, LastOfSequence
<1> QED BY <1>2

LEMMA ObserveKeeps ==
  ASSUME SnapshotInv, NEW time \in Nat, NEW sample \in [ts : Int, value : Nat] \cup {None},
         Observe(time, sample)
  PROVE  SnapshotInv'
<1>1. /\ taken' = (IF sample = None THEN taken ELSE Append(taken, sample))
      /\ snapshot' = Recorded(sample) /\ clock' = time
  BY DEF Observe
<1> QED BY <1>1, RecordedIsTheSlope

LEMMA SnapshotStep == SnapshotInv /\ [CollectorNext]_collectorVars => SnapshotInv'
<1> SUFFICES ASSUME SnapshotInv, [CollectorNext]_collectorVars PROVE SnapshotInv'
  OBVIOUS
<1>1. LastValue \in Nat /\ clock \in Nat /\ MaxClock \in Nat /\ MaxStep \in Nat
  BY LastValueIsNatural, CollectorAssumption DEF SnapshotInv, SnapshotTypeOK
<1>2. CASE ContainerBatch
  <2>1. PICK time \in (clock + 1)..MaxClock : \E sample \in Rises(time) \cup {None} : Observe(time, sample)
    BY <1>2 DEF ContainerBatch
  <2>2. PICK sample \in Rises(time) \cup {None} : Observe(time, sample)
    BY <2>1
  <2>3. time \in Nat /\ sample \in [ts : Int, value : Nat] \cup {None}
    BY <1>1 DEF Rises
  <2> QED BY <2>2, <2>3, ObserveKeeps
<1>3. CASE HostBatch
  <2>1. PICK time \in (clock + 1)..MaxClock : \E sample \in Rises(time) : Observe(time, sample)
    BY <1>3 DEF HostBatch
  <2>2. PICK sample \in Rises(time) : Observe(time, sample)
    BY <2>1
  <2>3. time \in Nat /\ sample \in [ts : Int, value : Nat] \cup {None}
    BY <1>1 DEF Rises
  <2> QED BY <2>2, <2>3, ObserveKeeps
<1>4. CASE BatchAfterRestart
  <2>1. Observe(clock + 1, [ts |-> clock + 1, value |-> 0])
    BY <1>4 DEF BatchAfterRestart
  <2>2. clock + 1 \in Nat /\ [ts |-> clock + 1, value |-> 0] \in [ts : Int, value : Nat] \cup {None}
    BY <1>1
  <2> QED BY <2>1, <2>2, ObserveKeeps
<1>5. CASE BatchAfterStepBack
  <2>1. PICK time \in Max({1, clock - MaxStep})..(clock - 1) :
          Observe(time, [ts |-> time, value |-> LastValue])
    BY <1>5 DEF BatchAfterStepBack
  <2>2. Max({1, clock - MaxStep}) \in Nat
    <3>1. \E x \in {1, clock - MaxStep} : \A y \in {1, clock - MaxStep} : y <= x
      BY <1>1
    <3>2. Max({1, clock - MaxStep}) \in {1, clock - MaxStep} /\ 1 <= Max({1, clock - MaxStep})
      BY <3>1 DEF Max
    <3> QED BY <1>1, <3>2
  <2>3. time \in Nat /\ [ts |-> time, value |-> LastValue] \in [ts : Int, value : Nat] \cup {None}
    BY <1>1, <2>1, <2>2
  <2> QED BY <2>1, <2>3, ObserveKeeps
<1>6. CASE UNCHANGED collectorVars
  BY <1>6 DEF collectorVars, SnapshotInv, SnapshotTypeOK, PreviousIsTheLast, RateIsTheSlope
<1> QED BY <1>2, <1>3, <1>4, <1>5, <1>6 DEF CollectorNext

LEMMA SnapshotInvImplies == SnapshotInv => SnapshotIsOfTheLatest
<1> SUFFICES ASSUME SnapshotInv, NEW time \in clock..MaxClock, CurrentAt(time) # Nothing
             PROVE  LET shown == CurrentAt(time)
                        n == Len(taken)
                    IN /\ shown.ts = Last(taken).ts /\ time - shown.ts <= StaleAfter
                       /\ shown.rate # None =>
                            /\ n > 1 /\ taken[n - 1].value <= taken[n].value
                            /\ shown.rate = [rise |-> taken[n].value - taken[n - 1].value,
                                             time |-> taken[n].ts - taken[n - 1].ts]
                            /\ shown.rate.time > 0
  BY DEF SnapshotIsOfTheLatest
<1>1. /\ snapshot.current.ts # None /\ snapshot.current.ts >= time - StaleAfter
      /\ CurrentAt(time) = snapshot.current
  BY DEF CurrentAt
<1>2. /\ snapshot.current.ts \in Int /\ clock \in Nat /\ StaleAfter \in Nat
  BY <1>1, CollectorAssumption DEF SnapshotInv, SnapshotTypeOK
<1>3. snapshot.current.ts = Last(taken).ts
  BY <1>1 DEF SnapshotInv, PreviousIsTheLast
<1>4. time - snapshot.current.ts <= StaleAfter
  BY <1>1, <1>2
<1> QED BY <1>1, <1>3, <1>4 DEF SnapshotInv, RateIsTheSlope

\* What the live snapshot shows is the latest batch's, and a rate in it that is
\* not null is the slope between the last two samples (MetricsSnapshotState).
THEOREM SnapshotIsLatest == CollectorSpec => []SnapshotIsOfTheLatest
<1>1. CollectorSpec => []SnapshotInv
  BY SnapshotInit, SnapshotStep, PTL DEF CollectorSpec
<1> QED BY <1>1, SnapshotInvImplies, PTL

---------------------------------------------------------------------------
(* The buckets of the collector                                            *)

\* A raw bucket's end is not before its times, and buckets follow one another.
LEMMA MultiplesApart ==
  ASSUME NEW w \in Nat, NEW q \in Int, NEW r \in Int, q * w < r * w
  PROVE  q * w + w <= r * w
<1>1. q < r
  <2> SUFFICES ASSUME r <= q PROVE FALSE
    OBVIOUS
  <2>1. r * w <= q * w
    BY SMTT(30)
  <2>2. PICK x \in Int, y \in Int : x = q * w /\ y = r * w
    OBVIOUS
  <2> QED BY <2>1, <2>2
<1>2. (q + 1) * w <= r * w
  BY <1>1, SMTT(30)
<1>3. (q + 1) * w = q * w + w
  BY SMTT(30)
<1> QED BY <1>2, <1>3

\* The end of the bucket of a time.
LEMMA RawBucketBounds ==
  ASSUME NEW t \in Nat
  PROVE  /\ RawBucketEnd(t) \in Nat /\ t <= RawBucketEnd(t) /\ RawBucketEnd(t) < t + BucketLen
         /\ \E q \in Int : RawBucketEnd(t) = q * BucketLen
<1>1. PICK w \in Nat \ {0} : w = BucketLen
  BY IntervalsAssumption
<1>2. PICK q \in Int : q = (t + w - 1) \div w
  BY <1>1
<1>3. q * w <= t + w - 1 /\ t + w - 1 < q * w + w
  BY <1>2, SMTT(30)
<1>4. RawBucketEnd(t) = q * w
  BY <1>1, <1>2 DEF RawBucketEnd
<1>5. PICK p \in Int : p = q * w
  OBVIOUS
<1>6. t <= p /\ p < t + w /\ p \in Nat
  BY <1>3, <1>5
<1> QED BY <1>1, <1>4, <1>5, <1>6

\* The bucket of a later time is the same one or comes after it.
LEMMA RawBucketsInOrder ==
  ASSUME NEW t \in Nat, NEW u \in Nat, t <= u
  PROVE  /\ RawBucketEnd(t) <= RawBucketEnd(u)
         /\ RawBucketEnd(t) < RawBucketEnd(u) => RawBucketEnd(t) + BucketLen <= RawBucketEnd(u)
<1>1. PICK w \in Nat \ {0} : w = BucketLen
  BY IntervalsAssumption
<1>2. PICK q \in Int, r \in Int : RawBucketEnd(t) = q * w /\ RawBucketEnd(u) = r * w
  BY <1>1, RawBucketBounds
<1>3. PICK x \in Int, y \in Int : x = q * w /\ y = r * w
  OBVIOUS
<1>4. (x < y => x + w <= y) /\ (y < x => y + w <= x)
  BY <1>1, <1>3, MultiplesApart
<1>5. t <= x /\ y < u + w /\ x < t + w /\ u <= y
  BY <1>1, <1>2, <1>3, RawBucketBounds
<1>6. x <= y
  BY <1>4, <1>5
<1> QED BY <1>1, <1>2, <1>3, <1>4, <1>6

---------------------------------------------------------------------------
(* The collector's buffer                                                  *)

\* what entry, rows and closed are made of
Buffer == [known : BOOLEAN, samples : Samples, idle : Nat]
RowRecord == [closing : Nat, row : RowValues]
Closing == [end : Nat, samples : Samples]

\* The types of the collector, unfolded.
LEMMA CollectorTypes ==
  ASSUME CollectorTypeOK
  PROVE  /\ taken \in Seq(Sample) /\ entry \in Buffer /\ entry.samples \in Seq(Sample)
         /\ Ordered(entry.samples) /\ entry.idle \in Nat
         /\ closed \in Seq(Closing) /\ rows \in Seq(RowRecord)
         /\ \A i \in 1..Len(rows) : rows[i].closing \in 1..Len(closed)
<1>1. taken \in Seq(Sample) /\ entry \in Buffer /\ closed \in Seq(Closing) /\ rows \in Seq(RowRecord)
  BY DEF CollectorTypeOK, Buffer, RowRecord, Closing, Samples, Sample
<1>2. entry.samples \in Seq(Sample) /\ entry.idle \in Nat
  BY <1>1 DEF Buffer, Samples, Sample
<1>3. Ordered(entry.samples)
  BY <1>2 DEF CollectorTypeOK, Ordered
<1>4. \A i \in 1..Len(rows) : rows[i].closing \in 1..Len(closed)
  <2>1. DOMAIN rows = 1..Len(rows) /\ DOMAIN closed = 1..Len(closed)
    BY <1>1
  <2> QED BY <2>1 DEF CollectorTypeOK
<1> QED BY <1>1, <1>2, <1>3, <1>4

\* A buffer holds the last samples of all, but for those it lacks.
Holding(e, all, lacks) ==
  /\ Ordered(all) /\ e.samples \in Seq(Sample) /\ Suffix(e.samples, all, lacks)
  /\ Len(e.samples) <= BufferCapacity /\ (e.known <=> e.samples # <<>>)

\* The invariant says that of the buffer there is.
LEMMA EntryHolds ==
  ASSUME CollectorInv, troubles.steps = 0
  PROVE  Holding(entry, taken, Lacking) /\ Lacking = Len(taken) - Len(entry.samples)
<1>1. CollectorTypeOK /\ BufferIsTheLatest
  BY DEF CollectorInv
<1>2. taken \in Seq(Sample) /\ entry.samples \in Seq(Sample)
  BY <1>1, CollectorTypes
<1>3. Ordered(taken)
  BY <1>1, <1>2 DEF BufferIsTheLatest, Ordered
<1>4. PICK N \in Nat, L \in Nat : N = Len(taken) /\ L = Len(entry.samples)
  BY <1>2
<1>5. Lacking = N - L /\ Lacking \in Nat
  <2>1. Lacking = N - L
    BY <1>4 DEF Lacking
  <2>2. Lacking >= 0
    BY <1>1 DEF BufferIsTheLatest
  <2> QED BY <2>1, <2>2
<1>6. \A i \in 1..L : entry.samples[i] = taken[Lacking + i]
  <2>1. DOMAIN entry.samples = 1..L
    BY <1>2, <1>4
  <2> QED BY <1>1, <2>1 DEF BufferIsTheLatest
<1>7. N = Lacking + L
  BY <1>5
<1>8. Suffix(entry.samples, taken, Lacking)
  BY <1>4, <1>5, <1>6, <1>7 DEF Suffix
<1>9. Len(entry.samples) <= BufferCapacity /\ (entry.known <=> entry.samples # <<>>)
  BY <1>1 DEF BufferIsTheLatest
<1> QED BY <1>2, <1>3, <1>4, <1>5, <1>8, <1>9 DEF Holding

\* A batch's samples, with that of the container.
With(all, sample) == IF sample = None THEN all ELSE Append(all, sample)

\* The types of a batch's buffer.
LEMMA PushedTypes ==
  ASSUME CollectorTypeOK, NEW sample \in Sample \cup {None}, NEW pushed, pushed = Pushed(sample)
  PROVE  /\ pushed \in Buffer /\ Ordered(pushed.samples) /\ pushed.idle = entry.idle
         /\ With(taken, sample) \in Seq(Sample)
         /\ sample = None => pushed = entry
         /\ sample # None => pushed.known /\ pushed.samples # <<>> /\ pushed.samples = Push(entry.samples, sample)
<1>1. /\ taken \in Seq(Sample) /\ entry \in Buffer /\ entry.samples \in Seq(Sample)
      /\ Ordered(entry.samples)
  BY CollectorTypes
<1>2. CASE sample = None
  BY <1>1, <1>2 DEF Pushed, With
<1>3. CASE sample # None
  <2>1. sample \in Sample
    BY <1>3
  <2>2. PICK s : s = Push(entry.samples, sample)
    OBVIOUS
  <2>3. Ordered(s) /\ s # <<>>
    BY <1>1, <2>1, <2>2, PushTypes
  <2>4. s \in Samples
    BY <2>3 DEF Ordered, Samples, Sample
  <2>5. pushed = [entry EXCEPT !.known = TRUE, !.samples = s]
    BY <1>3, <2>2 DEF Pushed
  <2>6. pushed \in Buffer /\ pushed.known /\ pushed.samples = s /\ pushed.idle = entry.idle
    BY <1>1, <2>4, <2>5 DEF Buffer
  <2>7. With(taken, sample) \in Seq(Sample)
    BY <1>1, <1>3, <2>1 DEF With
  <2> QED BY <1>3, <2>2, <2>3, <2>6, <2>7
<1> QED BY <1>2, <1>3

\* What a batch makes of the buffer, when time goes on: it lacks what it lacked,
\* or is full.
Pushes(pushed, all, lacks) ==
  /\ Holding(pushed, all, lacks)
  /\ \/ lacks = Lacking /\ Len(entry.samples) <= Len(pushed.samples)
     \/ Len(pushed.samples) = BufferCapacity

\* The buffer of a later batch holds the last samples again.
LEMMA PushedHolds ==
  ASSUME CollectorInv, troubles.steps = 0, NEW time \in Nat, clock < time,
         NEW sample \in Sample \cup {None}, sample # None => sample.ts = time,
         NEW pushed, pushed = Pushed(sample), NEW all, all = With(taken, sample)
  PROVE  /\ \E lacks \in Nat : Pushes(pushed, all, lacks)
         /\ Len(taken) \in Nat /\ Len(all) \in {Len(taken), Len(taken) + 1}
         /\ \A i \in 1..Len(taken) : all[i] = taken[i]
         /\ \A i \in 1..Len(all) : all[i].ts <= time
         /\ \A i \in 1..(Len(all) - 1) : all[i].ts <= clock
<1>1. CollectorTypeOK /\ BufferIsTheLatest
  BY DEF CollectorInv
<1>2. Holding(entry, taken, Lacking)
  BY EntryHolds
<1>3. PICK n : n = Lacking
  OBVIOUS
<1>4. /\ Ordered(taken) /\ entry.samples \in Seq(Sample) /\ Suffix(entry.samples, taken, n)
      /\ Len(entry.samples) <= BufferCapacity /\ (entry.known <=> entry.samples # <<>>)
  BY <1>2, <1>3 DEF Holding
<1>5. PICK N \in Nat, L \in Nat : N = Len(taken) /\ L = Len(entry.samples)
  BY <1>4, OrderedSamples
<1>6. clock \in Nat /\ \A i \in 1..N : taken[i].ts \in Nat /\ taken[i].ts <= clock
  <2>1. clock \in Nat
    BY <1>1 DEF CollectorTypeOK
  <2>2. DOMAIN taken = 1..N /\ \A i \in 1..N : taken[i].ts \in Nat
    BY <1>4, <1>5, OrderedSamples
  <2> QED BY <1>1, <2>1, <2>2 DEF BufferIsTheLatest
<1>7. n \in Nat
  BY <1>4 DEF Suffix
<1>8. CASE sample = None
  <2>1. all = taken /\ pushed = entry
    BY <1>8 DEF With, Pushed
  <2>2. Pushes(pushed, all, n)
    BY <1>2, <1>3, <1>5, <2>1 DEF Pushes
  <2>3. \A i \in 1..N : all[i].ts <= time
    BY <1>6, <2>1
  <2>4. \A i \in 1..(N - 1) : all[i].ts <= clock
    BY <1>6, <2>1
  <2> QED BY <1>5, <1>7, <2>1, <2>2, <2>3, <2>4
<1>9. CASE sample # None
  <2>1. sample \in Sample /\ sample.ts = time /\ all = Append(taken, sample)
    BY <1>9 DEF With
  <2>2. \A i \in 1..N : taken[i].ts < sample.ts
    BY <1>6, <2>1
  <2>3. /\ Ordered(all) /\ Len(all) = N + 1 /\ all[N + 1] = sample
        /\ \A i \in 1..N : all[i] = taken[i]
    <3>1. /\ Ordered(Append(taken, sample)) /\ Len(Append(taken, sample)) = Len(taken) + 1
          /\ Append(taken, sample)[Len(taken) + 1] = sample
          /\ \A i \in 1..Len(taken) : Append(taken, sample)[i] = taken[i]
      BY <1>4, <1>5, <2>1, <2>2, OrderedAppend
    <3> QED BY <1>5, <2>1, <3>1
  <2>4. PICK s : s = Push(entry.samples, sample)
    OBVIOUS
  <2>5. PICK m \in Nat : /\ Suffix(s, all, m) /\ Len(s) <= BufferCapacity
                         /\ \/ m = n /\ Len(s) = L + 1
                            \/ Len(s) = BufferCapacity
    <3>1. \A i \in 1..Len(taken) : taken[i].ts < sample.ts
      BY <1>5, <2>2
    <3>2. PICK m : StaysLatest(s, entry.samples, Append(taken, sample), n, m)
      BY <1>4, <2>1, <2>4, <3>1, PushSuffix
    <3> QED BY <1>5, <2>1, <3>2 DEF StaysLatest
  <2>6. Ordered(s) /\ s # <<>>
    BY <1>1, <2>1, <2>4, CollectorTypes, PushTypes
  <2>7. pushed.known /\ pushed.samples = s
    BY <1>1, <1>9, <2>4, PushedTypes
  <2>8. Holding(pushed, all, m)
    BY <2>3, <2>5, <2>6, <2>7 DEF Holding, Ordered
  <2>9. \/ m = Lacking /\ Len(entry.samples) <= Len(pushed.samples)
        \/ Len(pushed.samples) = BufferCapacity
    BY <1>3, <1>5, <2>5, <2>7
  <2>10. Pushes(pushed, all, m)
    BY <2>8, <2>9 DEF Pushes
  <2>11. \A i \in 1..(N + 1) : all[i].ts <= time
    <3> SUFFICES ASSUME NEW i \in 1..(N + 1) PROVE all[i].ts <= time
      OBVIOUS
    <3>1. i = N + 1 \/ i \in 1..N
      OBVIOUS
    <3> QED BY <1>6, <2>1, <2>3, <3>1
  <2>12. \A i \in 1..((N + 1) - 1) : all[i].ts <= clock
    BY <1>6, <2>3
  <2> QED BY <1>5, <2>3, <2>5, <2>10, <2>11, <2>12
<1> QED BY <1>8, <1>9

\* A container has been dropped after two closings without a row.
Dropped == /\ source = "container" /\ Len(closed) > 1
           /\ ~HasRow(Len(closed)) /\ ~HasRow(Len(closed) - 1)

\* When a bucket is closed the buffer lacks nothing that counts for it, or what was
\* dropped.
LEMMA LacksNothing ==
  ASSUME CollectorInv, troubles.steps = 0, lastEnd # None,
         NEW pushed, NEW all, NEW lacks \in Nat, Pushes(pushed, all, lacks),
         Len(taken) \in Nat, Len(all) \in {Len(taken), Len(taken) + 1},
         \A i \in 1..Len(taken) : all[i] = taken[i],
         \A i \in 1..(Len(all) - 1) : all[i].ts <= clock
  PROVE  \/ lacks = 0
         \/ lacks \in 1..Len(all) /\ all[lacks].ts <= lastEnd - 2 * BucketLen
         \/ Dropped
<1>1. CollectorTypeOK /\ LastEndIsTheClocks /\ BufferIsTheLatest /\ LacksWhatWasDropped
  BY DEF CollectorInv
<1>2. clock \in Nat /\ lastEnd \in Nat /\ clock <= lastEnd
  <2>1. clock \in Nat /\ lastEnd \in Nat /\ lastEnd = RawBucketEnd(clock)
    BY <1>1 DEF CollectorTypeOK, LastEndIsTheClocks
  <2> QED BY <2>1, RawBucketBounds
<1>3. Holding(pushed, all, lacks)
  BY DEF Pushes
<1>4. /\ Ordered(all) /\ pushed.samples \in Seq(Sample) /\ Suffix(pushed.samples, all, lacks)
      /\ Len(pushed.samples) <= BufferCapacity
  BY <1>3 DEF Holding
<1>5. SUFFICES ASSUME lacks > 0 PROVE \/ lacks \in 1..Len(all) /\ all[lacks].ts <= lastEnd - 2 * BucketLen
                                      \/ Dropped
  OBVIOUS
<1>6. CASE Len(pushed.samples) = BufferCapacity
  <2>1. \A i \in 1..(Len(all) - 1) : all[i].ts <= lastEnd
    <3> SUFFICES ASSUME NEW i \in 1..(Len(all) - 1) PROVE all[i].ts <= lastEnd
      OBVIOUS
    <3>1. i \in 1..Len(all)
      BY <1>4, OrderedSamples
    <3>2. all[i].ts \in Nat /\ all[i].ts <= clock
      BY <1>4, <3>1, OrderedSamples
    <3> QED BY <1>2, <3>2
  <2>2. lastEnd \in Int
    BY <1>2
  <2> QED BY <1>4, <1>5, <1>6, <2>1, <2>2, FullIsEnough
<1>7. CASE Len(pushed.samples) # BufferCapacity
  <2>1. lacks = Lacking /\ Len(entry.samples) <= Len(pushed.samples)
    BY <1>7 DEF Pushes
  <2>2. PICK L \in Nat, M \in Nat, C \in Nat, N \in Nat :
          L = Len(entry.samples) /\ M = Len(pushed.samples) /\ C = BufferCapacity /\ N = Len(taken)
    <3>1. entry.samples \in Seq(Sample)
      BY <1>1, CollectorTypes
    <3>2. Len(entry.samples) \in Nat /\ Len(pushed.samples) \in Nat
      BY <1>4, <3>1
    <3> QED BY <3>2, CapacityIsNatural
  <2>3. Len(entry.samples) < BufferCapacity
    BY <1>4, <1>7, <2>1, <2>2
  <2>4. \/ Dropped
        \/ taken[Lacking].ts <= lastEnd - 2 * BucketLen
    BY <1>1, <1>5, <2>1, <2>3 DEF LacksWhatWasDropped, Dropped
  <2>5. lacks \in 1..N
    <3>1. Lacking = N - L
      BY <2>2 DEF Lacking
    <3> QED BY <1>5, <2>1, <2>2, <3>1
  <2>6. all[lacks] = taken[lacks] /\ lacks \in 1..Len(all)
    BY <2>2, <2>5
  <2> QED BY <2>1, <2>4, <2>6
<1> QED BY <1>6, <1>7

---------------------------------------------------------------------------
(* Closing a bucket                                                        *)

\* the buffer makes a row of the bucket
Makes(e, end) == e.known /\ Row(e.samples, end) # None

\* The histories after a closing: the rows that were there, and the new one.
Closes(e, end, all, k) ==
  /\ k = Len(closed) + 1 /\ closed' \in Seq(Closing) /\ Len(closed') = k
  /\ closed'[k] = [end |-> end, samples |-> all]
  /\ \A j \in 1..Len(closed) : closed'[j] = closed[j]
  /\ rows' \in Seq(RowRecord)
  /\ \A i \in 1..Len(rows') :
       \/ i \in 1..Len(rows) /\ rows'[i] = rows[i]
       \/ Makes(e, end) /\ rows'[i] = [closing |-> k, row |-> Row(e.samples, end)]

\* the new bucket has the row the buffer makes of it, the others have theirs
HasRowsOf(e, end, k) ==
  /\ \A j \in 1..(k - 1) : (HasRow(j)' <=> HasRow(j)) /\ (HasRate(j)' <=> HasRate(j))
  /\ HasRow(k)' <=> Makes(e, end)
  /\ HasRate(k)' <=> Makes(e, end) /\ Row(e.samples, end).rise # None

\* A row has its values.
LEMMA RowTypes ==
  ASSUME NEW samples, Ordered(samples), NEW end \in Int, Row(samples, end) # None
  PROVE  Row(samples, end) \in RowValues
<1>1. samples \in Seq(Sample) /\ Len(samples) \in Nat
  BY OrderedSamples
<1>2. Suffix(samples, samples, 0)
  BY <1>1 DEF Suffix
<1> QED BY <1>1, <1>2, RowFits

\* What closing a bucket does.
LEMMA CloseKeeps ==
  ASSUME CollectorTypeOK, NEW e, Ordered(e.samples), NEW end \in Nat, NEW all \in Seq(Sample),
         Close(e, end, all), NEW k, k = Len(closed) + 1
  PROVE  Closes(e, end, all, k)
<1>1. /\ closed \in Seq(Closing) /\ rows \in Seq(RowRecord)
  BY CollectorTypes
<1>2. PICK K \in Nat, R \in Nat : K = Len(closed) /\ R = Len(rows) /\ k = K + 1
  BY <1>1
<1>3. PICK c : c = [end |-> end, samples |-> all]
  OBVIOUS
<1>4. c \in Closing
  BY <1>3 DEF Closing, Samples, Sample
<1>5. closed' = Append(closed, c)
  BY <1>3 DEF Close
<1>6. /\ closed' \in Seq(Closing) /\ Len(closed') = k /\ closed'[k] = c
      /\ \A j \in 1..K : closed'[j] = closed[j]
  BY <1>1, <1>2, <1>4, <1>5
<1>7. CASE Makes(e, end)
  <2>1. PICK r : r = [closing |-> k, row |-> Row(e.samples, end)]
    OBVIOUS
  <2>2. rows' = Append(rows, r)
    BY <1>7, <1>2, <2>1 DEF Close, Makes
  <2>3. r \in RowRecord
    <3>1. Row(e.samples, end) \in RowValues
      BY <1>7, RowTypes DEF Makes
    <3> QED BY <1>2, <2>1, <3>1 DEF RowRecord
  <2>4. /\ rows' \in Seq(RowRecord) /\ Len(rows') = R + 1 /\ rows'[R + 1] = r
        /\ \A i \in 1..R : rows'[i] = rows[i]
    BY <1>1, <1>2, <2>2, <2>3
  <2>5. \A i \in 1..Len(rows') : (i \in 1..R /\ rows'[i] = rows[i]) \/ rows'[i] = r
    BY <2>4
  <2> QED BY <1>2, <1>3, <1>6, <1>7, <2>1, <2>4, <2>5 DEF Closes
<1>8. CASE ~Makes(e, end)
  <2>1. rows' = rows
    BY <1>8 DEF Close, Makes
  <2> QED BY <1>1, <1>2, <1>3, <1>6, <2>1 DEF Closes
<1> QED BY <1>7, <1>8

\* The rows of the buckets closed before are still theirs.
LEMMA CloseRows ==
  ASSUME CollectorTypeOK, NEW e, NEW end, NEW all, Close(e, end, all), NEW k, k = Len(closed) + 1
  PROVE  HasRowsOf(e, end, k)
<1>1. /\ closed \in Seq(Closing) /\ rows \in Seq(RowRecord)
      /\ \A i \in 1..Len(rows) : rows[i].closing \in 1..Len(closed)
  BY CollectorTypes
<1>2. PICK K \in Nat, R \in Nat : K = Len(closed) /\ R = Len(rows) /\ k = K + 1
  BY <1>1
<1>3. DOMAIN rows = 1..R
  BY <1>1, <1>2
<1>4. ~HasRow(k) /\ ~HasRate(k)
  <2>1. \A i \in 1..R : rows[i].closing # k
    BY <1>1, <1>2
  <2> QED BY <1>3, <2>1 DEF HasRow, HasRate
<1>5. CASE Makes(e, end)
  <2>1. PICK r : r = [closing |-> k, row |-> Row(e.samples, end)]
    OBVIOUS
  <2>2. rows' = Append(rows, r)
    BY <1>5, <1>2, <2>1 DEF Close, Makes
  <2>3. /\ DOMAIN rows' = 1..(R + 1) /\ rows'[R + 1] = r /\ \A i \in 1..R : rows'[i] = rows[i]
    BY <1>1, <1>2, <2>2
  <2>4. r.closing = k /\ r.row.rise = Row(e.samples, end).rise
    BY <2>1
  <2>5. ASSUME NEW j
        PROVE  /\ HasRow(j)' <=> HasRow(j) \/ j = k
               /\ HasRate(j)' <=> HasRate(j) \/ (j = k /\ r.row.rise # None)
    <3>1. HasRow(j)' <=> \E i \in 1..(R + 1) : rows'[i].closing = j
      BY <2>3 DEF HasRow
    <3>2. HasRate(j)' <=> \E i \in 1..(R + 1) : rows'[i].closing = j /\ rows'[i].row.rise # None
      BY <2>3 DEF HasRate
    <3>3. HasRow(j) <=> \E i \in 1..R : rows[i].closing = j
      BY <1>3 DEF HasRow
    <3>4. HasRate(j) <=> \E i \in 1..R : rows[i].closing = j /\ rows[i].row.rise # None
      BY <1>3 DEF HasRate
    <3>5. \A i \in 1..(R + 1) : i \in 1..R \/ i = R + 1
      OBVIOUS
    <3>6. 1..R \subseteq 1..(R + 1) /\ R + 1 \in 1..(R + 1)
      OBVIOUS
    <3>7. HasRow(j)' <=> HasRow(j) \/ j = k
      BY <2>3, <2>4, <3>1, <3>3, <3>5, <3>6
    <3>8. HasRate(j)' <=> HasRate(j) \/ (j = k /\ r.row.rise # None)
      BY <2>3, <2>4, <3>2, <3>4, <3>5, <3>6
    <3> QED BY <3>7, <3>8
  <2>6. \A j \in 1..(k - 1) : j # k
    BY <1>2
  <2> QED BY <1>4, <1>5, <2>4, <2>5, <2>6 DEF HasRowsOf
<1>6. CASE ~Makes(e, end)
  <2>1. rows' = rows
    BY <1>6 DEF Close, Makes
  <2>2. \A j : (HasRow(j)' <=> HasRow(j)) /\ (HasRate(j)' <=> HasRate(j))
    BY <2>1 DEF HasRow, HasRate
  <2> QED BY <1>4, <1>6, <2>2 DEF HasRowsOf
<1> QED BY <1>5, <1>6

---------------------------------------------------------------------------
(* The collector's invariant                                               *)

\* A batch of a time, which in a history without a step back is a later one.
Batch(time, sample) ==
  /\ time \in Nat /\ sample \in Sample \cup {None} /\ (sample # None => sample.ts = time)
  /\ Observe(time, sample)
  /\ troubles' \in [resets : Nat, steps : Nat]
  /\ troubles'.steps = 0 => troubles.steps = 0 /\ clock < time

\* What it does: it closes no bucket, or the open one.
Stays(pushed, current) ==
  /\ lastEnd = None \/ ~(current > lastEnd)
  /\ entry' = pushed /\ rows' = rows /\ closed' = closed
ClosesOne(pushed, current, all) ==
  /\ lastEnd # None /\ current > lastEnd
  /\ entry' = Flushed(pushed, lastEnd) /\ Close(pushed, lastEnd, all)

\* The parts of a batch.
LEMMA BatchIs ==
  ASSUME NEW time, NEW sample, Batch(time, sample),
         NEW pushed, pushed = Pushed(sample), NEW all, all = With(taken, sample)
  PROVE  /\ clock' = time /\ source' = source /\ taken' = all /\ lastEnd' = RawBucketEnd(time)
         /\ Stays(pushed, RawBucketEnd(time)) \/ ClosesOne(pushed, RawBucketEnd(time), all)
<1>1. PICK current : current = RawBucketEnd(time)
  OBVIOUS
<1>2. Observe(time, sample)
  BY DEF Batch
<1>3. /\ clock' = time /\ source' = source /\ taken' = all /\ lastEnd' = current
      /\ IF lastEnd # None /\ current > lastEnd
         THEN entry' = Flushed(pushed, lastEnd) /\ Close(pushed, lastEnd, all)
         ELSE entry' = pushed /\ UNCHANGED <<rows, closed>>
  BY <1>1, <1>2 DEF Observe, With
<1>4. CASE lastEnd # None /\ current > lastEnd
  BY <1>1, <1>3, <1>4 DEF ClosesOne
<1>5. CASE ~(lastEnd # None /\ current > lastEnd)
  BY <1>1, <1>3, <1>5 DEF Stays
<1> QED BY <1>1, <1>3, <1>4, <1>5

\* What a closing makes of a buffer.
LEMMA FlushedIs ==
  ASSUME NEW e \in Buffer, NEW end, NEW f, f = Flushed(e, end), source \in {"host", "container"}
  PROVE  /\ f \in Buffer
         /\ \/ /\ f.samples = e.samples /\ f.known = e.known
               /\ \/ f.idle = e.idle /\ (~e.known \/ source = "host")
                  \/ f.idle = 0 /\ Makes(e, end)
                  \/ f.idle > 0 /\ source = "container" /\ ~Makes(e, end)
            \/ /\ f = Unknown /\ source = "container" /\ ~Makes(e, end) /\ e.idle > 0
<1>1. MaxIdleFlushes \in Nat /\ MaxIdleFlushes >= 2
  BY BufferAssumption
<1>2. e.idle \in Nat /\ e.samples \in Samples /\ e.known \in BOOLEAN
  BY DEF Buffer
<1>3. CASE ~e.known \/ source = "host"
  <2>1. f = e
    BY <1>3 DEF Flushed
  <2> QED BY <1>3, <2>1
<1>4. CASE e.known /\ source # "host" /\ Row(e.samples, end) # None
  <2>1. f = [e EXCEPT !.idle = 0]
    BY <1>4 DEF Flushed
  <2>2. f \in Buffer /\ f.idle = 0 /\ f.samples = e.samples /\ f.known = e.known
    BY <1>2, <2>1 DEF Buffer
  <2> QED BY <1>4, <2>2 DEF Makes
<1>5. CASE e.known /\ source # "host" /\ Row(e.samples, end) = None /\ e.idle + 1 < MaxIdleFlushes
  <2>1. f = [e EXCEPT !.idle = e.idle + 1]
    BY <1>5 DEF Flushed
  <2>2. f \in Buffer /\ f.idle = e.idle + 1 /\ f.samples = e.samples /\ f.known = e.known
    BY <1>2, <2>1 DEF Buffer
  <2> QED BY <1>2, <1>5, <2>2 DEF Makes
<1>6. CASE e.known /\ source # "host" /\ Row(e.samples, end) = None /\ ~(e.idle + 1 < MaxIdleFlushes)
  <2>1. f = Unknown
    BY <1>6 DEF Flushed
  <2>2. Unknown \in Buffer
    <3>1. <<>> \in Samples
      BY DEF Samples
    <3> QED BY <3>1 DEF Unknown, Buffer
  <2>3. e.idle > 0
    BY <1>1, <1>2, <1>6
  <2> QED BY <1>6, <2>1, <2>2, <2>3 DEF Makes
<1> QED BY <1>3, <1>4, <1>5, <1>6

\* A batch keeps the types, and opens the bucket of its time.
LEMMA BatchTypes ==
  ASSUME CollectorInv, NEW time, NEW sample, Batch(time, sample)
  PROVE  CollectorTypeOK' /\ LastEndIsTheClocks'
<1>1. CollectorTypeOK
  BY DEF CollectorInv
<1>2. PICK pushed, all : pushed = Pushed(sample) /\ all = With(taken, sample)
  OBVIOUS
<1>3. time \in Nat /\ sample \in Sample \cup {None} /\ troubles' \in [resets : Nat, steps : Nat]
  BY DEF Batch
<1>4. pushed \in Buffer /\ Ordered(pushed.samples) /\ all \in Seq(Sample)
  BY <1>1, <1>2, <1>3, PushedTypes
<1>5. /\ clock' = time /\ source' = source /\ taken' = all /\ lastEnd' = RawBucketEnd(time)
      /\ Stays(pushed, RawBucketEnd(time)) \/ ClosesOne(pushed, RawBucketEnd(time), all)
  BY <1>2, BatchIs
<1>6. RawBucketEnd(time) \in Nat
  BY <1>3, RawBucketBounds
<1>7. source \in {"host", "container"} /\ lastEnd \in Nat \cup {None}
  BY <1>1 DEF CollectorTypeOK
<1>8. LastEndIsTheClocks'
  BY <1>5 DEF LastEndIsTheClocks
<1>9. /\ entry' \in Buffer /\ Ordered(entry'.samples)
      /\ closed' \in Seq(Closing) /\ rows' \in Seq(RowRecord)
      /\ \A i \in 1..Len(rows') : rows'[i].closing \in 1..Len(closed')
  <2>1. CASE Stays(pushed, RawBucketEnd(time))
    <3>1. entry' = pushed /\ rows' = rows /\ closed' = closed
      BY <2>1 DEF Stays
    <3> QED BY <1>1, <1>4, <3>1, CollectorTypes
  <2>2. CASE ClosesOne(pushed, RawBucketEnd(time), all)
    <3>1. lastEnd \in Nat /\ entry' = Flushed(pushed, lastEnd) /\ Close(pushed, lastEnd, all)
      BY <1>7, <2>2 DEF ClosesOne
    <3>2. PICK K \in Nat, k \in Nat : K = Len(closed) /\ k = K + 1
      <4>1. closed \in Seq(Closing)
        BY <1>1, CollectorTypes
      <4>2. Len(closed) \in Nat
        BY <4>1
      <4> QED BY <4>2
    <3>3. Closes(pushed, lastEnd, all, k)
      BY <1>1, <1>4, <3>1, <3>2, CloseKeeps
    <3>4. /\ closed' \in Seq(Closing) /\ Len(closed') = k /\ rows' \in Seq(RowRecord)
          /\ \A i \in 1..Len(rows') :
               \/ i \in 1..Len(rows) /\ rows'[i] = rows[i]
               \/ rows'[i] = [closing |-> k, row |-> Row(pushed.samples, lastEnd)]
      BY <3>3 DEF Closes
    <3>5. \A i \in 1..Len(rows) : rows[i].closing \in 1..K
      BY <1>1, <3>2, CollectorTypes
    <3>6. \A i \in 1..Len(rows') : rows'[i].closing \in 1..k
      <4> SUFFICES ASSUME NEW i \in 1..Len(rows') PROVE rows'[i].closing \in 1..k
        OBVIOUS
      <4>1. CASE i \in 1..Len(rows) /\ rows'[i] = rows[i]
        BY <3>2, <3>5, <4>1
      <4>2. CASE rows'[i] = [closing |-> k, row |-> Row(pushed.samples, lastEnd)]
        BY <3>2, <4>2
      <4> QED BY <3>4, <4>1, <4>2
    <3>7. entry' \in Buffer /\ (entry'.samples = pushed.samples \/ entry' = Unknown)
      BY <1>4, <1>7, <3>1, FlushedIs
    <3>8. Ordered(Unknown.samples)
      <4>1. Unknown.samples = <<>>
        BY DEF Unknown
      <4>2. <<>> \in Seq(Sample) /\ DOMAIN <<>> = {}
        OBVIOUS
      <4> QED BY <4>1, <4>2 DEF Ordered, InTimeOrder
    <3> QED BY <1>4, <3>4, <3>6, <3>7, <3>8
  <2> QED BY <1>5, <2>1, <2>2
<1>10. CollectorTypeOK'
  <2>1. \A i \in DOMAIN rows' : rows'[i].closing \in DOMAIN closed'
    <3>1. DOMAIN rows' = 1..Len(rows') /\ DOMAIN closed' = 1..Len(closed')
      BY <1>9
    <3> QED BY <1>9, <3>1
  <2>2. InTimeOrder(entry.samples)'
    BY <1>9 DEF Ordered, InTimeOrder
  <2>3. entry' \in [known : BOOLEAN, samples : Samples, idle : Nat] /\ taken' \in Samples
    BY <1>4, <1>5, <1>9 DEF Buffer, Samples, Sample
  <2>4. closed' \in Seq([end : Nat, samples : Samples]) /\ rows' \in Seq([closing : Nat, row : RowValues])
    BY <1>9 DEF Closing, RowRecord
  <2> QED BY <1>3, <1>5, <1>6, <1>7, <2>1, <2>2, <2>3, <2>4 DEF CollectorTypeOK
<1> QED BY <1>8, <1>10

\* A batch counts only buckets that gave nothing.
LEMMA BatchIdle ==
  ASSUME CollectorInv, NEW time, NEW sample, Batch(time, sample)
  PROVE  IdleGaveNothing'
<1>1. CollectorTypeOK /\ IdleGaveNothing
  BY DEF CollectorInv
<1>2. PICK pushed, all : pushed = Pushed(sample) /\ all = With(taken, sample)
  OBVIOUS
<1>3. sample \in Sample \cup {None}
  BY DEF Batch
<1>4. pushed \in Buffer /\ Ordered(pushed.samples) /\ pushed.idle = entry.idle /\ all \in Seq(Sample)
  BY <1>1, <1>2, <1>3, PushedTypes
<1>5. /\ source' = source
      /\ Stays(pushed, RawBucketEnd(time)) \/ ClosesOne(pushed, RawBucketEnd(time), all)
  BY <1>2, BatchIs
<1>6. source \in {"host", "container"} /\ lastEnd \in Nat \cup {None}
  BY <1>1 DEF CollectorTypeOK
<1>7. CASE Stays(pushed, RawBucketEnd(time))
  <2>1. entry' = pushed /\ rows' = rows /\ closed' = closed
    BY <1>7 DEF Stays
  <2>2. HasRow(Len(closed))' <=> HasRow(Len(closed))
    BY <2>1 DEF HasRow
  <2> QED BY <1>1, <1>4, <1>5, <2>1, <2>2 DEF IdleGaveNothing
<1>8. CASE ClosesOne(pushed, RawBucketEnd(time), all)
  <2>1. lastEnd \in Nat /\ entry' = Flushed(pushed, lastEnd) /\ Close(pushed, lastEnd, all)
    BY <1>6, <1>8 DEF ClosesOne
  <2>2. PICK K \in Nat, k \in Nat : K = Len(closed) /\ k = K + 1
    BY <1>1, CollectorTypes
  <2>3. closed' \in Seq(Closing) /\ Len(closed') = k
    <3>1. Closes(pushed, lastEnd, all, k)
      BY <1>1, <1>4, <2>1, <2>2, CloseKeeps
    <3> QED BY <3>1 DEF Closes
  <2>4. HasRow(k)' <=> Makes(pushed, lastEnd)
    <3>1. HasRowsOf(pushed, lastEnd, k)
      BY <1>1, <2>1, <2>2, CloseRows
    <3> QED BY <3>1 DEF HasRowsOf
  <2>5. closed' # <<>>
    BY <2>2, <2>3
  <2>6. HasRow(Len(closed))' <=> Makes(pushed, lastEnd)
    BY <2>3, <2>4
  <2>7. entry'.idle > 0 => source = "container" /\ ~Makes(pushed, lastEnd)
    <3>1. PICK f : f = Flushed(pushed, lastEnd) /\ f = entry'
      BY <2>1
    <3>2. \/ f.idle = pushed.idle /\ (~pushed.known \/ source = "host")
          \/ f.idle = 0 /\ Makes(pushed, lastEnd)
          \/ f.idle > 0 /\ source = "container" /\ ~Makes(pushed, lastEnd)
          \/ f = Unknown
      BY <1>4, <1>6, <3>1, FlushedIs
    <3>3. CASE f.idle = pushed.idle /\ (~pushed.known \/ source = "host")
      <4>1. f.idle > 0 => source = "container" /\ ~pushed.known
        BY <1>1, <1>4, <3>3 DEF IdleGaveNothing
      <4> QED BY <3>1, <4>1 DEF Makes
    <3>4. CASE f = Unknown
      <4>1. ~(f.idle > 0)
        BY <3>4 DEF Unknown
      <4> QED BY <3>1, <4>1
    <3>5. CASE f.idle = 0
      BY <3>1, <3>5
    <3> QED BY <3>1, <3>2, <3>3, <3>4, <3>5
  <2> QED BY <1>5, <2>5, <2>6, <2>7 DEF IdleGaveNothing
<1> QED BY <1>5, <1>7, <1>8

\* The state after a batch, from what it holds.
LEMMA HoldingIsLatest ==
  ASSUME NEW lacks, Holding(entry', taken', lacks), lastEnd' # None,
         \A i \in 1..Len(taken') : taken'[i].ts <= clock'
  PROVE  BufferIsTheLatest' /\ Lacking' = lacks
<1>1. /\ Ordered(taken') /\ entry'.samples \in Seq(Sample) /\ Suffix(entry'.samples, taken', lacks)
      /\ Len(entry'.samples) <= BufferCapacity /\ (entry'.known <=> entry'.samples # <<>>)
  BY DEF Holding
<1>2. PICK N \in Nat, L \in Nat : N = Len(taken') /\ L = Len(entry'.samples)
  BY <1>1, OrderedSamples
<1>3. lacks \in Nat /\ N = lacks + L /\ \A i \in 1..L : entry'.samples[i] = taken'[lacks + i]
  BY <1>1, <1>2 DEF Suffix
<1>4. Lacking' = lacks
  BY <1>2, <1>3 DEF Lacking
<1>5. DOMAIN taken' = 1..N /\ DOMAIN (entry'.samples) = 1..L
  BY <1>1, <1>2
<1>6. InTimeOrder(taken)'
  BY <1>1 DEF Ordered, InTimeOrder
<1>7. \A i \in DOMAIN taken' : taken'[i].ts <= clock'
  BY <1>2, <1>5
<1>8. \A i \in DOMAIN (entry'.samples) : entry'.samples[i] = taken'[Lacking' + i]
  BY <1>3, <1>4, <1>5
<1>9. Lacking' >= 0
  BY <1>3, <1>4
<1> QED BY <1>1, <1>4, <1>6, <1>7, <1>8, <1>9 DEF BufferIsTheLatest

\* A buffer that was dropped lacks everything.
LEMMA UnknownHolds ==
  ASSUME NEW all, Ordered(all)
  PROVE  Holding(Unknown, all, Len(all))
<1>1. Unknown.samples = <<>> /\ Unknown.known = FALSE
  BY DEF Unknown
<1>2. <<>> \in Seq(Sample) /\ Len(<<>>) = 0
  OBVIOUS
<1>3. Suffix(<<>>, all, Len(all))
  <2>1. Len(all) \in Nat
    BY OrderedSamples
  <2> QED BY <1>2, <2>1 DEF Suffix
<1>4. BufferCapacity >= 0
  BY CapacityIsNatural
<1> QED BY <1>1, <1>2, <1>3, <1>4 DEF Holding

\* A later batch keeps the last samples, and lacks only what was dropped.
LEMMA BatchLatest ==
  ASSUME CollectorInv, NEW time, NEW sample, Batch(time, sample), troubles'.steps = 0
  PROVE  BufferIsTheLatest' /\ LacksWhatWasDropped'
<1>1. /\ CollectorTypeOK /\ IdleGaveNothing /\ LastEndIsTheClocks
      /\ troubles.steps = 0 /\ BufferIsTheLatest /\ LacksWhatWasDropped
  BY DEF CollectorInv, Batch
<1>2. PICK pushed, all, current : /\ pushed = Pushed(sample) /\ all = With(taken, sample)
                                  /\ current = RawBucketEnd(time)
  OBVIOUS
<1>3. /\ time \in Nat /\ sample \in Sample \cup {None} /\ (sample # None => sample.ts = time)
      /\ clock < time
  BY DEF Batch
<1>4. /\ pushed \in Buffer /\ Ordered(pushed.samples) /\ pushed.idle = entry.idle /\ all \in Seq(Sample)
      /\ sample # None => pushed.known
  BY <1>1, <1>2, <1>3, PushedTypes
<1>5. /\ clock' = time /\ source' = source /\ taken' = all /\ lastEnd' = current
      /\ Stays(pushed, current) \/ ClosesOne(pushed, current, all)
  BY <1>2, BatchIs
<1>6. source \in {"host", "container"} /\ lastEnd \in Nat \cup {None} /\ clock \in Nat
  BY <1>1 DEF CollectorTypeOK
<1>7. current \in Nat /\ current # None
  BY <1>2, <1>3, RawBucketBounds, CollectorAssumption
<1>8. /\ \E lacks \in Nat : Pushes(pushed, all, lacks)
      /\ Len(taken) \in Nat /\ Len(all) \in {Len(taken), Len(taken) + 1}
      /\ \A i \in 1..Len(taken) : all[i] = taken[i]
      /\ \A i \in 1..Len(all) : all[i].ts <= time
      /\ \A i \in 1..(Len(all) - 1) : all[i].ts <= clock
  BY <1>1, <1>2, <1>3, PushedHolds
<1>9. PICK lacks \in Nat : Pushes(pushed, all, lacks)
  BY <1>8
<1>10. Holding(pushed, all, lacks)
  BY <1>9 DEF Pushes
<1>11. /\ Ordered(all) /\ pushed.samples \in Seq(Sample) /\ Suffix(pushed.samples, all, lacks)
       /\ Len(pushed.samples) <= BufferCapacity /\ (pushed.known <=> pushed.samples # <<>>)
  BY <1>10 DEF Holding
<1>12. PICK B \in Nat : B = BucketLen
  BY IntervalsAssumption
<1>13. lastEnd # None => lastEnd \in Nat /\ lastEnd <= current /\ (lastEnd < current => lastEnd + B <= current)
  <2> SUFFICES ASSUME lastEnd # None
               PROVE  lastEnd \in Nat /\ lastEnd <= current /\ (lastEnd < current => lastEnd + B <= current)
    OBVIOUS
  <2>1. lastEnd = RawBucketEnd(clock) /\ lastEnd \in Nat
    BY <1>1, <1>6 DEF LastEndIsTheClocks
  <2> QED BY <1>2, <1>3, <1>6, <1>12, <2>1, RawBucketsInOrder
\* a buffer that is not full and lacks samples
<1>14. ASSUME lacks > 0, Len(pushed.samples) < BufferCapacity
       PROVE  /\ source = "container" /\ lastEnd # None
              /\ lacks \in 1..Len(all) /\ lacks = Lacking
              /\ Dropped \/ all[lacks].ts <= lastEnd - 2 * BucketLen
  <2>1. PICK L \in Nat, M \in Nat, C \in Nat, N \in Nat :
          L = Len(entry.samples) /\ M = Len(pushed.samples) /\ C = BufferCapacity /\ N = Len(taken)
    <3>1. entry.samples \in Seq(Sample)
      BY <1>1, CollectorTypes
    <3>2. Len(entry.samples) \in Nat /\ Len(pushed.samples) \in Nat
      BY <1>11, <3>1
    <3> QED BY <1>8, <3>2, CapacityIsNatural
  <2>2. lacks = Lacking /\ L <= M
    BY <1>9, <1>14, <2>1 DEF Pushes
  <2>3. Len(entry.samples) < BufferCapacity
    BY <1>14, <2>1, <2>2
  <2>4. source = "container" /\ (Dropped \/ taken[Lacking].ts <= lastEnd - 2 * BucketLen)
    BY <1>1, <1>14, <2>2, <2>3 DEF LacksWhatWasDropped, Dropped
  <2>5. lacks \in 1..N
    <3>1. Lacking = N - L
      BY <2>1 DEF Lacking
    <3> QED BY <1>14, <2>1, <2>2, <3>1
  <2>6. all[lacks] = taken[lacks] /\ lacks \in 1..Len(all)
    BY <1>8, <2>1, <2>5
  <2>7. lastEnd # None
    <3>1. taken # <<>>
      BY <2>1, <2>5
    <3> QED BY <1>1, <3>1 DEF BufferIsTheLatest
  <2> QED BY <2>2, <2>4, <2>6, <2>7
<1>15. CASE Stays(pushed, current)
  <2>1. entry' = pushed /\ rows' = rows /\ closed' = closed /\ (lastEnd = None \/ ~(current > lastEnd))
    BY <1>15 DEF Stays
  <2>2. Holding(entry', taken', lacks)
    BY <1>5, <1>10, <2>1
  <2>3. BufferIsTheLatest' /\ Lacking' = lacks
    BY <1>5, <1>7, <1>8, <2>2, HoldingIsLatest
  <2>4. ASSUME lacks > 0, Len(pushed.samples) < BufferCapacity
        PROVE  LacksWhatWasDropped'
    <3>1. source = "container" /\ lastEnd # None
      BY <1>14, <2>4
    <3>2. lastEnd' = lastEnd
      BY <1>5, <1>7, <1>13, <2>1, <3>1
    <3>3. (HasRow(Len(closed))' <=> HasRow(Len(closed))) /\ (HasRow(Len(closed) - 1)' <=> HasRow(Len(closed) - 1))
      BY <2>1 DEF HasRow
    <3>4. Dropped \/ all[lacks].ts <= lastEnd - 2 * BucketLen
      BY <1>14, <2>4
    <3>5. CASE Dropped
      BY <1>5, <2>1, <3>3, <3>5 DEF Dropped, LacksWhatWasDropped
    <3>6. CASE all[lacks].ts <= lastEnd - 2 * BucketLen
      <4>1. taken'[Lacking'].ts <= lastEnd' - 2 * BucketLen
        BY <1>5, <2>3, <3>2, <3>6
      <4> QED BY <1>5, <3>1, <4>1 DEF LacksWhatWasDropped
    <3> QED BY <3>4, <3>5, <3>6
  <2>5. CASE ~(lacks > 0 /\ Len(pushed.samples) < BufferCapacity)
    BY <2>1, <2>3, <2>5 DEF LacksWhatWasDropped
  <2> QED BY <2>3, <2>4, <2>5
<1>16. CASE ClosesOne(pushed, current, all)
  <2>1. /\ lastEnd \in Nat /\ lastEnd # None /\ current > lastEnd
        /\ entry' = Flushed(pushed, lastEnd) /\ Close(pushed, lastEnd, all)
    BY <1>6, <1>16 DEF ClosesOne
  <2>2. lastEnd + B <= lastEnd' /\ lastEnd' \in Nat
    BY <1>5, <1>7, <1>13, <2>1
  <2>3. PICK K \in Nat, k \in Nat : K = Len(closed) /\ k = K + 1
    BY <1>1, CollectorTypes
  <2>4. closed' \in Seq(Closing) /\ Len(closed') = k
    <3>1. Closes(pushed, lastEnd, all, k)
      BY <1>1, <1>4, <2>1, <2>3, CloseKeeps
    <3> QED BY <3>1 DEF Closes
  <2>5. /\ HasRow(k)' <=> Makes(pushed, lastEnd)
        /\ \A j \in 1..K : HasRow(j)' <=> HasRow(j)
    <3>1. HasRowsOf(pushed, lastEnd, k)
      BY <1>1, <2>1, <2>3, CloseRows
    <3>2. k - 1 = K
      BY <2>3
    <3> QED BY <3>1, <3>2 DEF HasRowsOf
  \* two closings without a row
  <2>6. ASSUME K > 0, ~HasRow(K), ~Makes(pushed, lastEnd), source = "container"
        PROVE  LacksWhatWasDropped'
    <3>1. Len(closed') > 1 /\ Len(closed') - 1 = K /\ K \in 1..K
      BY <2>3, <2>4, <2>6
    <3>2. ~HasRow(k)' /\ ~HasRow(K)'
      BY <2>5, <2>6, <3>1
    <3>3. ~HasRow(Len(closed))' /\ ~HasRow(Len(closed) - 1)'
      BY <2>4, <3>1, <3>2
    <3> QED BY <1>5, <2>6, <3>1, <3>3 DEF LacksWhatWasDropped
  <2>7. PICK f : f = Flushed(pushed, lastEnd) /\ f = entry'
    BY <2>1
  <2>8. \/ /\ f.samples = pushed.samples /\ f.known = pushed.known
           /\ \/ ~pushed.known \/ source = "host"
              \/ Makes(pushed, lastEnd)
              \/ source = "container" /\ ~Makes(pushed, lastEnd)
        \/ f = Unknown /\ source = "container" /\ ~Makes(pushed, lastEnd) /\ pushed.idle > 0
    BY <1>4, <1>6, <2>7, FlushedIs
  <2>9. CASE f.samples = pushed.samples /\ f.known = pushed.known
    <3>1. Holding(entry', taken', lacks)
      BY <1>5, <1>10, <2>7, <2>9 DEF Holding
    <3>2. BufferIsTheLatest' /\ Lacking' = lacks
      BY <1>5, <1>7, <1>8, <3>1, HoldingIsLatest
    <3>3. ASSUME lacks > 0, Len(pushed.samples) < BufferCapacity
          PROVE  LacksWhatWasDropped'
      <4>1. source = "container" /\ lacks \in 1..Len(all)
        BY <1>14, <3>3
      <4>2. PICK x \in Nat : x = all[lacks].ts
        BY <1>11, <4>1, OrderedSamples
      <4>3. Dropped \/ x <= lastEnd - 2 * BucketLen
        BY <1>14, <3>3, <4>2
      <4>4. ASSUME x <= lastEnd - B PROVE LacksWhatWasDropped'
        <5>1. x <= lastEnd' - 2 * BucketLen
          <6>1. PICK e \in Nat, d \in Nat : e = lastEnd' /\ d = lastEnd
            BY <2>1, <2>2
          <6>2. x <= d - B /\ d + B <= e
            BY <2>2, <4>4, <6>1
          <6>3. x <= e - 2 * B
            BY <6>2
          <6> QED BY <1>12, <6>1, <6>3
        <5>2. taken'[Lacking'].ts <= lastEnd' - 2 * BucketLen
          BY <1>5, <3>2, <4>2, <5>1
        <5> QED BY <1>5, <4>1, <5>2 DEF LacksWhatWasDropped
      <4>5. CASE Makes(pushed, lastEnd)
        <5>1. BucketPoints(pushed.samples, lastEnd) # None
          <6>1. PICK row : row = Row(pushed.samples, lastEnd) /\ row # None
            BY <4>5 DEF Makes
          <6> QED BY <1>11, <2>1, <6>1, RowFits
        <5>2. Boundary(pushed.samples, lastEnd - BucketLen) # None
          BY <5>1 DEF BucketPoints
        <5>3. lastEnd - BucketLen \in Int
          BY <1>12, <2>1
        <5>4. NearSamples(pushed.samples, lastEnd - BucketLen)
          BY <1>11, <5>2, <5>3, BoundaryIsNear
        <5>5. PICK i \in 1..Len(pushed.samples) : pushed.samples[i].ts <= lastEnd - BucketLen
          BY <5>4 DEF NearSamples
        <5>6. lacks + i \in 1..Len(all) /\ pushed.samples[i] = all[lacks + i]
          BY <1>11, SuffixOfOrdered
        <5>7. lacks < lacks + i
          BY <1>4
        <5>8. all[lacks].ts < all[lacks + i].ts /\ all[lacks + i].ts \in Nat
          BY <1>11, <4>1, <5>6, <5>7, OrderedSamples
        <5>9. x <= lastEnd - B
          BY <1>12, <2>1, <4>2, <5>5, <5>6, <5>8
        <5> QED BY <4>4, <5>9
      <4>6. CASE ~Makes(pushed, lastEnd) /\ Dropped
        <5>1. K > 0 /\ ~HasRow(K)
          BY <2>3, <4>6 DEF Dropped
        <5> QED BY <2>6, <4>1, <4>6, <5>1
      <4>7. CASE x <= lastEnd - 2 * BucketLen
        <5>1. x <= lastEnd - B
          BY <1>12, <2>1, <4>7
        <5> QED BY <4>4, <5>1
      <4> QED BY <4>3, <4>5, <4>6, <4>7
    <3>4. CASE ~(lacks > 0 /\ Len(pushed.samples) < BufferCapacity)
      BY <2>7, <2>9, <3>2, <3>4 DEF LacksWhatWasDropped
    <3> QED BY <3>2, <3>3, <3>4
  <2>10. CASE f = Unknown /\ source = "container" /\ ~Makes(pushed, lastEnd) /\ pushed.idle > 0
    <3>1. Holding(entry', taken', Len(all))
      BY <1>5, <1>11, <2>7, <2>10, UnknownHolds
    <3>2. BufferIsTheLatest'
      BY <1>5, <1>7, <1>8, <3>1, HoldingIsLatest
    <3>3. K > 0 /\ ~HasRow(K)
      <4>1. closed # <<>> /\ ~HasRow(Len(closed)) /\ closed \in Seq(Closing)
        BY <1>1, <1>4, <2>10, CollectorTypes DEF IdleGaveNothing
      <4> QED BY <2>3, <4>1
    <3> QED BY <2>6, <2>10, <3>2, <3>3
  <2> QED BY <2>8, <2>9, <2>10
<1> QED BY <1>5, <1>15, <1>16

\* Initially there is nothing to hold.
LEMMA StartKeeps == CollectorInit => CollectorInv /\ RowsMatchHistory /\ NothingMissed
<1> SUFFICES ASSUME CollectorInit PROVE CollectorInv /\ RowsMatchHistory /\ NothingMissed
  OBVIOUS
<1>1. /\ source \in {"host", "container"} /\ clock = 1 /\ lastEnd = None
      /\ entry = [known |-> FALSE, samples |-> <<>>, idle |-> 0]
      /\ rows = <<>> /\ closed = <<>> /\ taken = <<>> /\ troubles = [resets |-> 0, steps |-> 0]
  BY DEF CollectorInit, Unknown
<1>2. entry.samples = <<>> /\ entry.known = FALSE /\ entry.idle = 0
  BY <1>1
<1>3. <<>> \in Samples /\ DOMAIN <<>> = {} /\ Len(<<>>) = 0
  BY DEF Samples
<1>4. CollectorTypeOK
  <2>1. <<>> \in Seq([end : Nat, samples : Samples])
    OBVIOUS
  <2>2. <<>> \in Seq([closing : Nat, row : RowValues])
    OBVIOUS
  <2>3. InTimeOrder(<<>>)
    BY <1>3 DEF InTimeOrder
  <2> QED BY <1>1, <1>2, <1>3, <2>1, <2>2, <2>3 DEF CollectorTypeOK
<1>5. LastEndIsTheClocks /\ IdleGaveNothing
  BY <1>1, <1>2 DEF LastEndIsTheClocks, IdleGaveNothing
<1>6. Lacking = 0
  BY <1>1, <1>2, <1>3 DEF Lacking
<1>7. BufferIsTheLatest
  <2>1. InTimeOrder(taken)
    BY <1>1, <1>3 DEF InTimeOrder
  <2>2. Len(entry.samples) <= BufferCapacity
    BY <1>2, <1>3, CapacityIsNatural
  <2> QED BY <1>1, <1>2, <1>3, <1>6, <2>1, <2>2 DEF BufferIsTheLatest
<1>8. LacksWhatWasDropped
  BY <1>6 DEF LacksWhatWasDropped
<1>9. RowsMatchHistory /\ NothingMissed
  BY <1>1, <1>3 DEF RowsMatchHistory, NothingMissed
<1> QED BY <1>4, <1>5, <1>7, <1>8, <1>9 DEF CollectorInv

\* Every step is a batch.
LEMMA StepIsBatch ==
  ASSUME CollectorTypeOK, CollectorNext
  PROVE  \E time, sample : Batch(time, sample)
<1>1. /\ clock \in Nat /\ MaxClock \in Nat /\ MaxStep \in Nat
      /\ troubles \in [resets : Nat, steps : Nat]
  BY CollectorAssumption DEF CollectorTypeOK
<1>2. LastValue \in Nat
  <2>1. taken \in Seq(Sample)
    BY CollectorTypes
  <2>2. CASE taken = <<>>
    BY <2>2 DEF LastValue
  <2>3. CASE taken # <<>>
    <3>1. Last(taken) \in Sample
      BY <2>1, <2>3, LastOfSequence
    <3> QED BY <2>3, <3>1, SampleIsNotNone DEF LastValue
  <2> QED BY <2>2, <2>3
<1>3. ASSUME NEW time \in Nat, clock < time, NEW sample \in Rises(time) \cup {None},
             Observe(time, sample), UNCHANGED troubles
      PROVE  Batch(time, sample)
  <2>1. sample \in Sample \cup {None} /\ (sample # None => sample.ts = time)
    BY <1>2 DEF Rises, Sample
  <2> QED BY <1>1, <1>3, <2>1 DEF Batch
<1>4. CASE ContainerBatch
  <2>1. PICK time \in (clock + 1)..MaxClock : \E sample \in Rises(time) \cup {None} : Observe(time, sample)
    BY <1>4 DEF ContainerBatch
  <2>2. PICK sample \in Rises(time) \cup {None} : Observe(time, sample)
    BY <2>1
  <2>3. time \in Nat /\ clock < time
    BY <1>1
  <2>4. UNCHANGED troubles
    BY <1>4 DEF ContainerBatch
  <2>5. Batch(time, sample)
    BY <1>3, <2>2, <2>3, <2>4
  <2> QED BY <2>5
<1>5. CASE HostBatch
  <2>1. PICK time \in (clock + 1)..MaxClock : \E sample \in Rises(time) : Observe(time, sample)
    BY <1>5 DEF HostBatch
  <2>2. PICK sample \in Rises(time) \cup {None} : Observe(time, sample)
    BY <2>1
  <2>3. time \in Nat /\ clock < time
    BY <1>1
  <2>4. UNCHANGED troubles
    BY <1>5 DEF HostBatch
  <2>5. Batch(time, sample)
    BY <1>3, <2>2, <2>3, <2>4
  <2> QED BY <2>5
<1>6. CASE BatchAfterRestart
  <2>1. PICK time \in Nat : time = clock + 1
    BY <1>1
  <2>2. PICK sample \in Sample : sample = [ts |-> time, value |-> 0]
    BY <2>1 DEF Sample
  <2>3. Observe(time, sample) /\ troubles' = [troubles EXCEPT !.resets = troubles.resets + 1]
    BY <1>6, <2>1, <2>2 DEF BatchAfterRestart
  <2>4. troubles' \in [resets : Nat, steps : Nat] /\ troubles'.steps = troubles.steps
    BY <1>1, <2>3
  <2>5. sample.ts = time /\ clock < time
    BY <1>1, <2>1, <2>2
  <2>6. Batch(time, sample)
    BY <2>3, <2>4, <2>5 DEF Batch
  <2> QED BY <2>6
<1>7. CASE BatchAfterStepBack
  <2>1. PICK time \in Max({1, clock - MaxStep})..(clock - 1) :
          Observe(time, [ts |-> time, value |-> LastValue])
    BY <1>7 DEF BatchAfterStepBack
  <2>2. Max({1, clock - MaxStep}) \in Nat
    <3>1. \E x \in {1, clock - MaxStep} : \A y \in {1, clock - MaxStep} : y <= x
      BY <1>1
    <3>2. Max({1, clock - MaxStep}) \in {1, clock - MaxStep} /\ 1 <= Max({1, clock - MaxStep})
      BY <3>1 DEF Max
    <3> QED BY <1>1, <3>2
  <2>3. time \in Nat
    BY <1>1, <2>1, <2>2
  <2>4. PICK sample \in Sample : sample = [ts |-> time, value |-> LastValue]
    BY <1>2, <2>3 DEF Sample
  <2>5. Observe(time, sample) /\ sample.ts = time
    BY <2>1, <2>4
  <2>6. troubles' = [troubles EXCEPT !.steps = troubles.steps + 1]
    BY <1>7 DEF BatchAfterStepBack
  <2>7. troubles' \in [resets : Nat, steps : Nat] /\ troubles'.steps # 0
    BY <1>1, <2>6
  <2>8. Batch(time, sample)
    BY <2>3, <2>5, <2>7 DEF Batch
  <2> QED BY <2>8
<1> QED BY <1>4, <1>5, <1>6, <1>7 DEF CollectorNext

\* The row of a batch is of the curve through the samples that were there, as the
\* rows before it are of theirs.
LEMMA BatchRows ==
  ASSUME CollectorInv, RowsMatchHistory, NEW time, NEW sample, Batch(time, sample)
  PROVE  RowsMatchHistory'
<1>1. CollectorTypeOK
  BY DEF CollectorInv
<1>2. PICK pushed, all, current : /\ pushed = Pushed(sample) /\ all = With(taken, sample)
                                  /\ current = RawBucketEnd(time)
  OBVIOUS
<1>3. /\ time \in Nat /\ sample \in Sample \cup {None} /\ (sample # None => sample.ts = time)
      /\ troubles'.steps = 0 => troubles.steps = 0 /\ clock < time
  BY DEF Batch
<1>4. /\ pushed \in Buffer /\ Ordered(pushed.samples) /\ all \in Seq(Sample)
  BY <1>1, <1>2, <1>3, PushedTypes
<1>5. /\ taken' = all
      /\ Stays(pushed, current) \/ ClosesOne(pushed, current, all)
  BY <1>2, BatchIs
<1>6. lastEnd \in Nat \cup {None}
  BY <1>1 DEF CollectorTypeOK
<1>7. CASE Stays(pushed, current)
  <2>1. rows' = rows /\ closed' = closed
    BY <1>7 DEF Stays
  <2> QED BY <1>3, <2>1 DEF RowsMatchHistory
<1>8. CASE ClosesOne(pushed, current, all)
  <2>1. lastEnd \in Nat /\ lastEnd # None /\ Close(pushed, lastEnd, all)
    BY <1>6, <1>8 DEF ClosesOne
  <2>2. PICK K \in Nat, k \in Nat : K = Len(closed) /\ k = K + 1
    BY <1>1, CollectorTypes
  <2>3. Closes(pushed, lastEnd, all, k)
    BY <1>1, <1>4, <2>1, <2>2, CloseKeeps
  <2>4. /\ closed'[k] = [end |-> lastEnd, samples |-> all]
        /\ \A j \in 1..K : closed'[j] = closed[j]
        /\ rows' \in Seq(RowRecord)
        /\ \A i \in 1..Len(rows') :
             \/ i \in 1..Len(rows) /\ rows'[i] = rows[i]
             \/ /\ Makes(pushed, lastEnd)
                /\ rows'[i] = [closing |-> k, row |-> Row(pushed.samples, lastEnd)]
    BY <2>2, <2>3 DEF Closes
  <2>5. SUFFICES ASSUME NEW i \in 1..Len(rows'), troubles'.steps = 0
                 PROVE  RowIsOfCurve(rows'[i].row, closed'[rows'[i].closing].samples, closed'[rows'[i].closing].end)
    <3>1. DOMAIN rows' = 1..Len(rows')
      BY <2>4
    <3> QED BY <3>1 DEF RowsMatchHistory
  <2>6. CASE i \in 1..Len(rows) /\ rows'[i] = rows[i]
    <3>1. rows[i].closing \in 1..K /\ DOMAIN rows = 1..Len(rows)
      BY <1>1, <2>2, <2>6, CollectorTypes
    <3>2. RowIsOfCurve(rows[i].row, closed[rows[i].closing].samples, closed[rows[i].closing].end)
      BY <1>3, <2>5, <2>6, <3>1 DEF RowsMatchHistory
    <3> QED BY <2>4, <2>6, <3>1, <3>2
  <2>7. CASE /\ Makes(pushed, lastEnd)
             /\ rows'[i] = [closing |-> k, row |-> Row(pushed.samples, lastEnd)]
    <3>1. PICK row : row = Row(pushed.samples, lastEnd) /\ row # None
      BY <2>7 DEF Makes
    <3>2. PICK lacks \in Nat : Pushes(pushed, all, lacks)
      BY <1>2, <1>3, <2>5, PushedHolds
    <3>3. Ordered(all) /\ pushed.samples \in Seq(Sample) /\ Suffix(pushed.samples, all, lacks)
      BY <3>2 DEF Pushes, Holding
    <3>4. RowIsOfCurve(row, all, lastEnd)
      BY <2>1, <3>1, <3>3, RowFits
    <3>5. /\ rows'[i].row = row /\ rows'[i].closing = k
          /\ closed'[k].samples = all /\ closed'[k].end = lastEnd
      BY <2>4, <2>7, <3>1
    <3> QED BY <3>4, <3>5
  <2> QED BY <2>4, <2>6, <2>7
<1> QED BY <1>5, <1>7, <1>8

\* A bucket that could be interpolated has its row.
LEMMA RowIsThere ==
  ASSUME NEW all, Ordered(all), NEW e, e.samples \in Seq(Sample), NEW lacks \in Nat,
         Suffix(e.samples, all, lacks), e.known <=> e.samples # <<>>,
         NEW end \in Int, lacks = 0 \/ (lacks \in 1..Len(all) /\ all[lacks].ts <= end - 2 * BucketLen),
         Complete(all, end), source = "container" => Rising(all, end)
  PROVE  /\ Makes(e, end)
         /\ Rising(all, end) => Row(e.samples, end).rise # None
<1>1. Holds(e.samples, end)
  BY CompleteIsHeld
<1>2. e.known
  <2>1. PICK i \in 1..Len(e.samples) : TRUE
    BY <1>1 DEF Holds
  <2>2. e.samples # <<>>
    BY <2>1
  <2> QED BY <2>2
<1>3. PICK rise, area : rise = CounterCollect(e.samples, end) /\ area = GaugeCollect(e.samples, end)
  OBVIOUS
<1>4. area # None
  BY <1>1, <1>3, AreaIsThere
<1>5. Rising(all, end) => rise # None
  BY <1>1, <1>3, RateIsThere
<1>6. Row(e.samples, end) = [rise |-> rise, area |-> area, peak |-> MaxCollect(e.samples, end)]
  BY <1>3, <1>4, <1>5 DEF Row
<1>7. Row(e.samples, end) # None
  <2> SUFFICES ASSUME Row(e.samples, end) = None PROVE FALSE
    OBVIOUS
  <2>1. GaugeCollect(e.samples, end) \in Int
    <3>1. BucketPoints(e.samples, end) # None
      BY <1>1, AreaIsThere
    <3>2. PICK p : p = BucketPoints(e.samples, end) /\ p # None
      BY <3>1
    <3>3. PICK start \in Int : start = end - BucketLen
      BY IntervalsAssumption
    <3>4. GaugeCollect(e.samples, end) = Total(CurveSteps(all, start)) /\ GaugeCollect(e.samples, end) \in Int
      BY <3>2, <3>3, GaugeIsArea
    <3> QED BY <3>4
  <2>2. rise \in Int \cup {None}
    <3>1. PICK start \in Int : start = end - BucketLen
      BY IntervalsAssumption
    <3>2. rise # None => rise = CurveAt(all, end) - CurveAt(all, start) /\ rise \in Int
      BY <1>3, <3>1, RiseIsOfCurve
    <3> QED BY <3>2
  <2>3. MaxCollect(e.samples, end) \in Int
    BY <1>1, AreaIsThere, PeakIsOfSamples
  <2>4. Row(e.samples, end) \in RowValues
    BY <1>3, <1>6, <2>1, <2>2, <2>3 DEF RowValues
  <2> QED BY <2>4, CollectorAssumption DEF RowValues
<1>8. Row(e.samples, end).rise = rise
  BY <1>6
<1> QED BY <1>2, <1>5, <1>7, <1>8 DEF Makes

\* A bucket that is closed has its row, if it is complete.
LEMMA BatchMissed ==
  ASSUME CollectorInv, NothingMissed, NEW time, NEW sample, Batch(time, sample)
  PROVE  NothingMissed'
<1>1. CollectorTypeOK
  BY DEF CollectorInv
<1>2. PICK pushed, all, current : /\ pushed = Pushed(sample) /\ all = With(taken, sample)
                                  /\ current = RawBucketEnd(time)
  OBVIOUS
<1>3. /\ time \in Nat /\ sample \in Sample \cup {None} /\ (sample # None => sample.ts = time)
      /\ troubles'.steps = 0 => troubles.steps = 0 /\ clock < time
  BY DEF Batch
<1>4. /\ pushed \in Buffer /\ Ordered(pushed.samples) /\ all \in Seq(Sample)
  BY <1>1, <1>2, <1>3, PushedTypes
<1>5. /\ taken' = all /\ source' = source
      /\ Stays(pushed, current) \/ ClosesOne(pushed, current, all)
  BY <1>2, BatchIs
<1>6. lastEnd \in Nat \cup {None} /\ source \in {"host", "container"}
  BY <1>1 DEF CollectorTypeOK
<1>7. CASE Stays(pushed, current)
  <2>1. rows' = rows /\ closed' = closed
    BY <1>7 DEF Stays
  <2>2. \A k : (HasRow(k)' <=> HasRow(k)) /\ (HasRate(k)' <=> HasRate(k))
    BY <2>1 DEF HasRow, HasRate
  <2> QED BY <1>3, <1>5, <2>1, <2>2 DEF NothingMissed
<1>8. CASE ClosesOne(pushed, current, all)
  <2>1. lastEnd \in Nat /\ lastEnd # None /\ Close(pushed, lastEnd, all)
    BY <1>6, <1>8 DEF ClosesOne
  <2>2. PICK K \in Nat, k \in Nat : K = Len(closed) /\ k = K + 1
    BY <1>1, CollectorTypes
  <2>3. /\ closed' \in Seq(Closing) /\ Len(closed') = k
        /\ closed'[k] = [end |-> lastEnd, samples |-> all]
        /\ \A j \in 1..K : closed'[j] = closed[j]
    <3>1. Closes(pushed, lastEnd, all, k)
      BY <1>1, <1>4, <2>1, <2>2, CloseKeeps
    <3> QED BY <2>2, <3>1 DEF Closes
  <2>4. /\ \A j \in 1..K : (HasRow(j)' <=> HasRow(j)) /\ (HasRate(j)' <=> HasRate(j))
        /\ HasRow(k)' <=> Makes(pushed, lastEnd)
        /\ HasRate(k)' <=> Makes(pushed, lastEnd) /\ Row(pushed.samples, lastEnd).rise # None
    <3>1. HasRowsOf(pushed, lastEnd, k)
      BY <1>1, <2>1, <2>2, CloseRows
    <3>2. k - 1 = K
      BY <2>2
    <3> QED BY <3>1, <3>2 DEF HasRowsOf
  <2> DEFINE Kept(j) ==
        LET samples == closed'[j].samples
            end == closed'[j].end
        IN Complete(samples, end) =>
             \/ HasRow(j)' /\ (Rising(samples, end) => HasRate(j)')
             \/ /\ source' = "container"
                /\ ~Rising(samples, end) \/ (j > 2 /\ ~HasRow(j - 1)' /\ ~HasRow(j - 2)')
  <2>5. SUFFICES ASSUME troubles'.steps = 0, NEW j \in 1..k PROVE Kept(j)
    <3>1. DOMAIN closed' = 1..k
      BY <2>3
    <3> QED BY <3>1 DEF NothingMissed
  <2>6. troubles.steps = 0 /\ clock < time
    BY <1>3, <2>5
  <2>7. CASE j \in 1..K
    <3>1. DOMAIN closed = 1..K
      BY <1>1, <2>2, CollectorTypes
    <3>2. LET samples == closed[j].samples
              end == closed[j].end
          IN Complete(samples, end) =>
               \/ HasRow(j) /\ (Rising(samples, end) => HasRate(j))
               \/ /\ source = "container"
                  /\ ~Rising(samples, end) \/ (j > 2 /\ ~HasRow(j - 1) /\ ~HasRow(j - 2))
      BY <2>6, <2>7, <3>1 DEF NothingMissed
    <3>3. closed'[j] = closed[j] /\ (HasRow(j)' <=> HasRow(j)) /\ (HasRate(j)' <=> HasRate(j))
      BY <2>3, <2>4, <2>7
    <3>4. ASSUME j > 2
          PROVE  (HasRow(j - 1)' <=> HasRow(j - 1)) /\ (HasRow(j - 2)' <=> HasRow(j - 2))
      <4>1. j - 1 \in 1..K /\ j - 2 \in 1..K
        BY <2>7, <3>4
      <4> QED BY <2>4, <4>1
    <3> QED BY <1>5, <3>2, <3>3, <3>4
  <2>8. CASE j = k
    <3>1. /\ \E lacks \in Nat : Pushes(pushed, all, lacks)
          /\ Len(taken) \in Nat /\ Len(all) \in {Len(taken), Len(taken) + 1}
          /\ \A i \in 1..Len(taken) : all[i] = taken[i]
          /\ \A i \in 1..(Len(all) - 1) : all[i].ts <= clock
      BY <1>2, <1>3, <2>6, PushedHolds
    <3>2. PICK lacks \in Nat : Pushes(pushed, all, lacks)
      BY <3>1
    <3>3. /\ Ordered(all) /\ pushed.samples \in Seq(Sample) /\ Suffix(pushed.samples, all, lacks)
          /\ (pushed.known <=> pushed.samples # <<>>)
      BY <3>2 DEF Pushes, Holding
    <3>4. \/ lacks = 0
          \/ lacks \in 1..Len(all) /\ all[lacks].ts <= lastEnd - 2 * BucketLen
          \/ Dropped
      BY <2>1, <2>6, <3>1, <3>2, LacksNothing
    <3>5. closed'[j].samples = all /\ closed'[j].end = lastEnd
      BY <2>3, <2>8
    <3>6. CASE Dropped
      <4>1. source = "container" /\ K > 1 /\ ~HasRow(K) /\ ~HasRow(K - 1)
        BY <2>2, <3>6 DEF Dropped
      <4>2. K \in 1..K /\ K - 1 \in 1..K /\ k - 1 = K /\ k - 2 = K - 1 /\ k > 2
        BY <2>2, <4>1
      <4>3. ~HasRow(K)' /\ ~HasRow(K - 1)'
        BY <2>4, <4>1, <4>2
      <4>4. ~HasRow(j - 1)' /\ ~HasRow(j - 2)' /\ j > 2
        BY <2>8, <4>2, <4>3
      <4> QED BY <1>5, <4>1, <4>4
    <3>7. CASE lacks = 0 \/ (lacks \in 1..Len(all) /\ all[lacks].ts <= lastEnd - 2 * BucketLen)
      <4>1. ASSUME Complete(all, lastEnd), source = "container" => Rising(all, lastEnd)
            PROVE  HasRow(k)' /\ (Rising(all, lastEnd) => HasRate(k)')
        <5>1. lastEnd \in Int
          BY <2>1
        <5>2. /\ Makes(pushed, lastEnd)
              /\ Rising(all, lastEnd) => Row(pushed.samples, lastEnd).rise # None
          BY <3>3, <3>7, <4>1, <5>1, RowIsThere
        <5> QED BY <2>4, <5>2
      <4> QED BY <1>5, <2>8, <3>5, <4>1
    <3> QED BY <3>4, <3>6, <3>7
  <2> HIDE DEF Kept
  <2> QED BY <2>2, <2>7, <2>8
<1> QED BY <1>5, <1>7, <1>8

\* Every step keeps the invariant and what it implies.
LEMMA CollectorStep ==
  CollectorInv /\ RowsMatchHistory /\ NothingMissed /\ [CollectorNext]_collectorVars
    => CollectorInv' /\ RowsMatchHistory' /\ NothingMissed'
<1> SUFFICES ASSUME CollectorInv, RowsMatchHistory, NothingMissed, [CollectorNext]_collectorVars
             PROVE  CollectorInv' /\ RowsMatchHistory' /\ NothingMissed'
  OBVIOUS
<1>1. CASE CollectorNext
  <2>1. CollectorTypeOK
    BY DEF CollectorInv
  <2>2. PICK time, sample : Batch(time, sample)
    BY <1>1, <2>1, StepIsBatch
  <2>3. CollectorTypeOK' /\ LastEndIsTheClocks'
    BY <2>2, BatchTypes
  <2>4. IdleGaveNothing'
    BY <2>2, BatchIdle
  <2>5. troubles'.steps = 0 => BufferIsTheLatest' /\ LacksWhatWasDropped'
    BY <2>2, BatchLatest
  <2>6. CollectorInv'
    BY <2>3, <2>4, <2>5 DEF CollectorInv
  <2>7. RowsMatchHistory'
    BY <2>2, BatchRows
  <2>8. NothingMissed'
    BY <2>2, BatchMissed
  <2> QED BY <2>6, <2>7, <2>8
<1>2. CASE UNCHANGED collectorVars
  <2>1. /\ source' = source /\ clock' = clock /\ entry' = entry /\ lastEnd' = lastEnd /\ rows' = rows
        /\ closed' = closed /\ taken' = taken /\ troubles' = troubles
    BY <1>2 DEF collectorVars
  <2>2. Lacking' = Lacking /\ \A k : (HasRow(k)' <=> HasRow(k)) /\ (HasRate(k)' <=> HasRate(k))
    BY <2>1 DEF Lacking, HasRow, HasRate
  <2>3. CollectorTypeOK'
    BY <2>1 DEF CollectorInv, CollectorTypeOK
  <2>4. LastEndIsTheClocks' /\ IdleGaveNothing'
    BY <2>1, <2>2 DEF CollectorInv, LastEndIsTheClocks, IdleGaveNothing
  <2>5. troubles'.steps = 0 => BufferIsTheLatest' /\ LacksWhatWasDropped'
    BY <2>1, <2>2 DEF CollectorInv, BufferIsTheLatest, LacksWhatWasDropped
  <2>6. RowsMatchHistory'
    BY <2>1 DEF RowsMatchHistory
  <2>7. NothingMissed'
    BY <2>1, <2>2 DEF NothingMissed
  <2> QED BY <2>3, <2>4, <2>5, <2>6, <2>7 DEF CollectorInv
<1> QED BY <1>1, <1>2

\* The collectors keep all three.
LEMMA CollectorInvariant == CollectorSpec => [](CollectorInv /\ RowsMatchHistory /\ NothingMissed)
  BY StartKeeps, CollectorStep, PTL DEF CollectorSpec

\* The variables of the collectors keep their types, whatever clock, restarts and
\* silent rounds do: buffers in time order, rows of buckets that were closed
\* (ContainerMetricsCollector, HostMetricsCollector, BucketBuffer).
THEOREM CollectorTypeCorrect == CollectorSpec => []CollectorTypeOK
<1>1. CollectorInv => CollectorTypeOK
  BY DEF CollectorInv
<1> QED BY <1>1, CollectorInvariant, PTL

\* Whatever the buffer has let go, and whatever clock, restarts and silent rounds
\* do, a row has what the curve through all samples has in its bucket
\* (GaugeBucketizer, CounterBucketizer, MaxBucketizer).
THEOREM RowsAreOfTheCurve == CollectorSpec => []RowsMatchHistory
  BY CollectorInvariant, PTL

\* A bucket with samples around its boundaries gets its row when it is closed, and
\* its rate unless counters were reset, but for a container dropped two closings
\* before (flush_bucket, flush_containers).
THEOREM BucketsAreNotMissed == CollectorSpec => []NothingMissed
  BY CollectorInvariant, PTL

---------------------------------------------------------------------------
(* The buckets of a width                                                  *)

\* A bucket's end is its width's first multiple that is not before the row.
LEMMA BucketEndBounds ==
  ASSUME width \in Nat \ {0}, NEW t \in Nat
  PROVE  /\ BucketEnd(t) \in Nat /\ t <= BucketEnd(t)
         /\ \E m \in Int : BucketEnd(t) = m * width
         /\ \A m \in Int : t <= m * width => BucketEnd(t) <= m * width
<1>1. PICK w \in Nat \ {0} : w = width
  OBVIOUS
<1>2. PICK q \in Int : q = (t + w - 1) \div w
  BY <1>1
<1>3. q * w <= t + w - 1 /\ t + w - 1 < q * w + w
  BY <1>2, SMTT(30)
<1>4. BucketEnd(t) = q * w
  BY <1>1, <1>2 DEF BucketEnd
<1>5. PICK p \in Int : p = q * w
  OBVIOUS
<1>6. t <= p /\ p <= t + w - 1
  BY <1>3, <1>5
<1>7. ASSUME NEW m \in Int, t <= m * w PROVE p <= m * w
  <2>1. SUFFICES ASSUME m * w < p PROVE FALSE
    BY <1>5
  <2>2. m < q
    BY <2>1, <1>5, SMTT(30)
  <2>3. (m + 1) * w <= q * w
    BY <2>2, SMTT(30)
  <2>4. (m + 1) * w = m * w + w
    BY SMTT(30)
  <2>5. PICK k \in Int : k = m * w
    OBVIOUS
  <2> QED BY <2>3, <2>4, <2>5, <1>5, <1>6, <1>7
<1>8. BucketEnd(t) = p /\ p \in Nat /\ t <= p
  BY <1>4, <1>5, <1>6
<1>9. \E m \in Int : BucketEnd(t) = m * width
  BY <1>1, <1>4
<1> QED BY <1>1, <1>7, <1>8, <1>9

\* So a later row is in the same bucket, or in one after its end.
LEMMA BucketsInOrder ==
  ASSUME width \in Nat \ {0}, NEW t \in Nat, NEW u \in Nat, t < u
  PROVE  /\ BucketEnd(t) <= BucketEnd(u)
         /\ BucketEnd(t) # BucketEnd(u) => BucketEnd(t) < u
<1>1. PICK m \in Int, n \in Int : BucketEnd(t) = m * width /\ BucketEnd(u) = n * width
  BY BucketEndBounds
<1>2. PICK a \in Nat, b \in Nat : a = BucketEnd(t) /\ b = BucketEnd(u) /\ t <= a /\ u <= b
  BY BucketEndBounds
<1>3. a <= b
  <2>1. t <= n * width
    BY <1>1, <1>2
  <2>2. BucketEnd(t) <= n * width
    BY <2>1, BucketEndBounds
  <2> QED BY <1>1, <1>2, <2>2
<1>4. ASSUME u <= a PROVE b <= a
  <2>1. u <= m * width
    BY <1>1, <1>2, <1>4
  <2>2. BucketEnd(u) <= m * width
    BY <2>1, BucketEndBounds
  <2> QED BY <1>1, <1>2, <2>2
<1> QED BY <1>2, <1>3, <1>4

LEMMA NarrowBuckets ==
  ASSUME width = 1, NEW t \in Nat
  PROVE  BucketEnd(t) = t
<1>1. (t + 1 - 1) \div 1 = t
  OBVIOUS
<1> QED BY <1>1 DEF BucketEnd

---------------------------------------------------------------------------
(* The stream's invariant: initially, and as time passes                   *)

LEMMA StreamTypes ==
  ASSUME TypeOK
  PROVE  /\ width \in Nat \ {0} /\ now \in Nat /\ Elapsed \in Nat /\ now <= Elapsed /\ cursor \in Nat /\ announced \in Nat
         /\ collector.at \in {"idle", "rolling"} /\ collector.ts \in Nat
         /\ \A r \in table \cup collector.todo : r \in Rows /\ r.ts \in Nat /\ r.ts \in 1..Elapsed
         /\ stream.since \in Nat /\ stream.from \in Nat /\ stream.to \in Nat
         /\ stream.seen \in Nat /\ stream.lastSent \in Nat
         /\ BucketEnd(cursor) \in Nat /\ cursor <= BucketEnd(cursor)
<1>1. width \in Nat \ {0} /\ Elapsed \in Nat /\ now <= Elapsed /\ cursor \in Nat
  BY ConstantsAssumption DEF TypeOK, Elapsed
<1>2. BucketEnd(cursor) \in Nat /\ cursor <= BucketEnd(cursor)
  BY <1>1, BucketEndBounds
<1>3. \A r \in table \cup collector.todo : r \in Rows
  BY DEF TypeOK, table
<1>4. \A r \in Rows : r.ts \in Nat /\ r.ts \in 1..Elapsed
  BY <1>1 DEF Rows
<1> QED BY <1>1, <1>2, <1>3, <1>4 DEF TypeOK

LEMMA StreamInit == Init => StreamInv
<1> SUFFICES ASSUME Init PROVE StreamInv
  OBVIOUS
<1>1. PICK some \in SUBSET Series \ {{}} :
        /\ raw = [ts : 1..cursor, series : some]
        /\ coarse = IF width = 1 THEN {}
                    ELSE [ts : {e \in 1..Start : e % width = 0 /\ e < cursor}, series : some]
  BY DEF Init
<1>2. /\ now = Start /\ Start \in Nat /\ width \in {1, Width} /\ cursor \in 0..Start
      /\ Elapsed = Start /\ back = 0 /\ lastClosed = Start
  BY ConstantsAssumption DEF Init, Elapsed
<1>3. /\ raw \subseteq [ts : 1..cursor, series : Series]
      /\ coarse \subseteq [ts : 1..cursor, series : Series]
  <2>1. some \subseteq Series /\ raw = [ts : 1..cursor, series : some]
    BY <1>1
  <2>2. PICK times : times \subseteq 1..cursor /\ coarse \subseteq [ts : times, series : some]
    <3>1. {e \in 1..Start : e % width = 0 /\ e < cursor} \subseteq 1..cursor
      BY <1>2
    <3> QED BY <1>1, <3>1
  <2> QED BY <2>1, <2>2
<1>4. TypeOK
  BY <1>2, <1>3 DEF Init, TypeOK, Rows, Idle, Away
<1>5. RowsFollowTheCursor
  BY <1>1, <1>2, <1>3 DEF Init, RowsFollowTheCursor, Idle, table
<1>6. AnnouncedUpToTheCursor
  BY <1>4, StreamTypes DEF Init, AnnouncedUpToTheCursor
<1>7. StreamFollows /\ SmoothStream
  BY DEF Init, StreamFollows, SmoothStream, Away
<1> QED BY <1>4, <1>5, <1>6, <1>7 DEF StreamInv

\* What is said of the tables and of the channel is of these variables only.
LEMMA TablesKept ==
  ASSUME UNCHANGED <<width, table, cursor, collector, announced>>,
         RowsFollowTheCursor, AnnouncedUpToTheCursor
  PROVE  /\ RowsFollowTheCursor' /\ AnnouncedUpToTheCursor'
         /\ Unannounced' = Unannounced
  BY DEF RowsFollowTheCursor, AnnouncedUpToTheCursor, Unannounced, BucketEnd

LEMMA TickKeeps ==
  ASSUME StreamInv, Tick
  PROVE  StreamInv'
<1>1. /\ now' = now + 1 /\ smooth' = (smooth /\ stream.at # "parsed")
      /\ UNCHANGED <<back, lastClosed, width, raw, coarse, table, cursor, collector, announced, stream, sent>>
  BY DEF Tick, tables, table
<1>2. TypeOK /\ StreamFollows /\ (smooth => RowsFollowTheCursor /\ AnnouncedUpToTheCursor /\ SmoothStream)
  BY DEF StreamInv
<1>3. TypeOK'
  <2>1. Rows \subseteq Rows' /\ 0..Elapsed \subseteq 0..Elapsed' /\ now' \in Nat
    BY <1>1, <1>2 DEF TypeOK, Rows, Elapsed
  <2>2. SUBSET Rows \subseteq SUBSET Rows'
    BY <2>1
  <2> QED BY <1>1, <1>2, <2>1, <2>2 DEF TypeOK
<1>4. smooth' => RowsFollowTheCursor' /\ AnnouncedUpToTheCursor' /\ Unannounced' = Unannounced
  BY <1>1, <1>2, TablesKept
<1>5. StreamFollows'
  BY <1>1, <1>2 DEF StreamFollows
<1>6. smooth' => SmoothStream'
  <2> SUFFICES ASSUME smooth' PROVE SmoothStream'
    OBVIOUS
  <2>1. Due' = Due /\ Coming' = Coming
    BY <1>1, <1>4 DEF Due, Coming
  <2>2. After(stream.to)' = After(stream.to) /\ After(stream.lastSent)' = After(stream.lastSent)
    BY <1>1, <2>1 DEF After
  <2>3. OneComing(After(stream.to))' = OneComing(After(stream.to))
    BY <2>1, <2>2 DEF OneComing
  <2>4. OneComing(After(stream.lastSent))' = OneComing(After(stream.lastSent))
    BY <2>1, <2>2 DEF OneComing
  <2> QED BY <1>1, <1>2, <2>1, <2>2, <2>3, <2>4 DEF SmoothStream
<1> QED BY <1>3, <1>4, <1>5, <1>6 DEF StreamInv

\* The rows stay where they are, even those of times that are to come again.
LEMMA StepBackKeeps ==
  ASSUME StreamInv, StepBack
  PROVE  StreamInv'
<1>1. PICK time \in 0..(now - 1) : now' = time /\ back' = back + (now - time) /\ lastClosed' = time
  BY DEF StepBack
<1>2. UNCHANGED <<width, raw, coarse, table, cursor, collector, announced, stream, sent, smooth>>
  BY DEF StepBack, tables, table
<1>3. TypeOK /\ StreamFollows /\ (smooth => RowsFollowTheCursor /\ AnnouncedUpToTheCursor /\ SmoothStream)
  BY DEF StreamInv
<1>4. /\ now \in Nat /\ back \in Nat /\ now' \in Nat /\ back' \in Nat /\ now' < now
      /\ Elapsed' = Elapsed
  BY <1>1, <1>3 DEF TypeOK, Elapsed
<1>5. TypeOK'
  <2>1. Rows' = Rows
    BY <1>4 DEF Rows
  <2> QED BY <1>1, <1>2, <1>3, <1>4, <2>1 DEF TypeOK
<1>6. smooth' => RowsFollowTheCursor' /\ AnnouncedUpToTheCursor' /\ Unannounced' = Unannounced
  BY <1>2, <1>3, TablesKept
<1>7. StreamFollows'
  BY <1>2, <1>3 DEF StreamFollows
<1>8. smooth' => SmoothStream'
  <2> SUFFICES ASSUME smooth' PROVE SmoothStream'
    OBVIOUS
  <2>1. SmoothStream
    BY <1>2, <1>3
  <2>2. Due' = Due /\ Coming' = Coming
    BY <1>2, <1>6 DEF Due, Coming
  <2>3. After(stream.to)' = After(stream.to) /\ After(stream.lastSent)' = After(stream.lastSent)
    BY <1>2, <2>2 DEF After
  <2>4. /\ OneComing(After(stream.to))' = OneComing(After(stream.to))
        /\ OneComing(After(stream.lastSent))' = OneComing(After(stream.lastSent))
    BY <2>2, <2>3 DEF OneComing
  <2>5. stream.at = "parsed" => cursor <= stream.to /\ now' <= stream.to
    <3>1. stream.to \in Nat
      BY <1>3, StreamTypes
    <3> QED BY <1>4, <2>1, <3>1 DEF SmoothStream
  <2> QED BY <1>2, <2>1, <2>2, <2>3, <2>4, <2>5 DEF SmoothStream
<1> QED BY <1>5, <1>6, <1>7, <1>8 DEF StreamInv

---------------------------------------------------------------------------
(* The collector's steps                                                   *)

\* The row is the latest, in the open bucket; a bucket left behind is before it.
LEMMA InsertFollows ==
  ASSUME TypeOK, RowsFollowTheCursor, AnnouncedUpToTheCursor, collector.at = "idle",
         NEW ts \in 1..Elapsed, cursor < ts, NEW some \in SUBSET Series, NEW whole \in SUBSET Series,
         whole # {} => width # 1 /\ cursor # 0 /\ BucketEnd(ts) # BucketEnd(cursor),
         cursor' = ts, UNCHANGED <<width, announced>>,
         table' = (IF width = 1 THEN table \cup [ts : {ts}, series : some] ELSE table),
         collector' = [at |-> "rolling", ts |-> ts, todo |-> [ts : {BucketEnd(cursor)}, series : whole]]
  PROVE  /\ RowsFollowTheCursor' /\ AnnouncedUpToTheCursor'
         /\ width = 1 => Unannounced'
<1>1. TypeOK /\ RowsFollowTheCursor /\ AnnouncedUpToTheCursor
  OBVIOUS
<1>2. /\ width \in Nat \ {0} /\ now \in Nat /\ cursor \in Nat /\ announced \in Nat
      /\ ts \in Nat /\ cursor < ts
      /\ announced <= BucketEnd(cursor) /\ cursor <= BucketEnd(cursor) /\ BucketEnd(cursor) \in Nat
  BY <1>1, StreamTypes DEF AnnouncedUpToTheCursor
<1>3. PICK b \in Nat, e \in Nat :
        b = BucketEnd(cursor) /\ e = BucketEnd(ts) /\ ts <= e /\ b <= e /\ (b # e => b < ts)
  BY <1>2, BucketEndBounds, BucketsInOrder
<1>4. \A r \in table : r \in Rows /\ r.ts \in Nat /\ r.ts <= cursor
  BY <1>1, <1>2, StreamTypes DEF RowsFollowTheCursor
<1>5. \A q \in collector'.todo : q.ts = b /\ q.series \in Series /\ q = [ts |-> b, series |-> q.series]
                                /\ whole # {} /\ width # 1
  BY <1>3
<1>6. whole # {} => b < ts /\ announced < e
  BY <1>2, <1>3
<1>7. width = 1 => announced < e
  BY <1>2, <1>3, NarrowBuckets
<1>9. \A r \in table' : r.ts \in Nat /\ (r \in table \/ (width = 1 /\ r.ts = ts))
  BY <1>2, <1>4
<1>11. Unannounced' <=> announced < e
  BY <1>3 DEF Unannounced, BucketEnd
<1>12. RowsFollowTheCursor'
  <2>1. width' = 1 => collector'.todo = {} /\ \A r \in table' : r.ts <= cursor'
    <3> SUFFICES ASSUME width = 1
                 PROVE  collector'.todo = {} /\ \A r \in table' : r.ts <= cursor'
      OBVIOUS
    <3>1. collector'.todo = {}
      BY <1>5
    <3>2. \A r \in table' : r.ts <= cursor'
      BY <1>2, <1>4, <1>9
    <3> QED BY <3>1, <3>2
  <2>2. width' # 1 => \A r \in table' \cup collector'.todo : r.ts < cursor'
    BY <1>1, <1>2, <1>4, <1>5, <1>6, <1>9
  <2>3. \A r \in table', q \in collector'.todo : r.ts < q.ts
    <3> SUFFICES ASSUME NEW r \in table', NEW q \in collector'.todo PROVE r.ts < q.ts
      OBVIOUS
    <3>1. q.ts = b /\ width # 1 /\ r \in table
      BY <1>5, <1>9
    <3>2. r.ts < cursor /\ r.ts \in Nat
      BY <1>1, <1>4, <3>1 DEF RowsFollowTheCursor
    <3> QED BY <1>2, <1>3, <3>1, <3>2
  <2>4. collector'.at = "rolling" /\ collector'.ts = cursor'
    OBVIOUS
  <2>5. collector'.todo # {} => announced < e
    BY <1>5, <1>6
  <2>6. \A r, q \in collector'.todo : r.ts = q.ts
    BY <1>5
  <2>7. collector'.at = "rolling" /\ (width' = 1 \/ collector'.todo # {}) => Unannounced'
    BY <1>7, <1>11, <2>5
  <2> QED BY <2>1, <2>2, <2>3, <2>4, <2>6, <2>7 DEF RowsFollowTheCursor
<1>13. AnnouncedUpToTheCursor'
  <2>1. announced' <= BucketEnd(cursor)'
    <3>1. announced <= e /\ BucketEnd(cursor)' = e
      BY <1>2, <1>3 DEF BucketEnd
    <3> QED BY <3>1
  <2>2. ASSUME ~Unannounced', announced' # 0, NEW r \in table' PROVE r.ts <= announced'
    <3>1. r \in table /\ e <= announced
      BY <1>2, <1>3, <1>7, <1>9, <1>11, <2>2
    <3> QED BY <1>2, <1>3, <1>4, <3>1
  <2> QED BY <2>1, <2>2 DEF AnnouncedUpToTheCursor
<1> QED BY <1>7, <1>11, <1>12, <1>13

LEMMA InsertKeeps ==
  ASSUME StreamInv, Insert
  PROVE  StreamInv'
<1>1. PICK ts \in (lastClosed + 1)..now, some \in SUBSET Series \ {{}} :
        /\ \A series \in some : [ts |-> ts, series |-> series] \notin raw
        /\ raw' = raw \cup [ts : {ts}, series : some]
        /\ lastClosed' = ts /\ cursor' = ts
        /\ \E whole \in SUBSET (IF Leaves(ts) THEN Present ELSE {}) :
             collector' = [at |-> "rolling", ts |-> ts,
                           todo |-> [ts : {BucketEnd(cursor)}, series : whole]]
        /\ smooth' = (smooth /\ IsPrompt /\ cursor < ts)
  BY DEF Insert
<1>2. PICK whole \in SUBSET (IF Leaves(ts) THEN Present ELSE {}) :
        collector' = [at |-> "rolling", ts |-> ts,
                      todo |-> [ts : {BucketEnd(cursor)}, series : whole]]
  BY <1>1
<1>3. /\ collector.at = "idle"
      /\ UNCHANGED <<now, back, width, coarse, announced, stream, sent>>
  BY DEF Insert
<1>4. TypeOK /\ StreamFollows /\ (smooth => RowsFollowTheCursor /\ AnnouncedUpToTheCursor /\ SmoothStream)
  BY DEF StreamInv
<1>5. /\ some \subseteq Series /\ cursor' = ts
      /\ table' = (IF width = 1 THEN table \cup [ts : {ts}, series : some] ELSE table)
  BY <1>1, <1>3 DEF table
<1>6. ts \in 1..Elapsed /\ lastClosed' \in Nat
  BY <1>1, <1>4 DEF TypeOK, Elapsed
<1>7. whole \subseteq Series /\ (whole # {} => Leaves(ts))
  <2>1. Present \subseteq Series
    BY <1>4 DEF Present, TypeOK, Rows
  <2> QED BY <1>2, <2>1
<1>8. whole # {} => /\ width # 1 /\ cursor # 0 /\ BucketEnd(ts) # BucketEnd(cursor)
                    /\ BucketEnd(cursor) \in 1..Elapsed
  <2> SUFFICES ASSUME whole # {}
               PROVE  /\ width # 1 /\ cursor # 0 /\ BucketEnd(ts) # BucketEnd(cursor)
                      /\ BucketEnd(cursor) \in 1..Elapsed
    OBVIOUS
  <2>1. width # 1 /\ cursor # 0 /\ BucketEnd(ts) # BucketEnd(cursor) /\ cursor < ts
    BY <1>7 DEF Leaves
  <2>2. /\ width \in Nat \ {0} /\ cursor \in Nat /\ ts \in Nat /\ Elapsed \in Nat /\ ts <= Elapsed
        /\ BucketEnd(cursor) \in Nat /\ cursor <= BucketEnd(cursor)
    BY <1>4, <1>6, StreamTypes
  <2>3. PICK b \in Nat, e \in Nat : b = BucketEnd(cursor) /\ e = BucketEnd(ts) /\ b < ts
    <3>1. \A m \in Int : ts <= m * width => BucketEnd(ts) <= m * width
      BY <2>2, BucketEndBounds
    <3>2. PICK m \in Int : BucketEnd(cursor) = m * width
      BY <2>2, BucketEndBounds
    <3>3. BucketEnd(ts) \in Nat /\ BucketEnd(cursor) < BucketEnd(ts)
      BY <2>1, <2>2, BucketEndBounds, BucketsInOrder
    <3>4. ~(ts <= BucketEnd(cursor))
      BY <2>2, <3>1, <3>2, <3>3
    <3> QED BY <2>2, <3>3, <3>4
  <2> QED BY <2>1, <2>2, <2>3
<1>9. Rows' = Rows /\ Elapsed' = Elapsed
  BY <1>3 DEF Rows, Elapsed
<1>10. TypeOK'
  <2>1. raw' \subseteq Rows
    <3>1. [ts : {ts}, series : some] \subseteq Rows
      BY <1>5, <1>6 DEF Rows
    <3> QED BY <1>1, <1>4, <3>1 DEF TypeOK
  <2>2. [ts : {BucketEnd(cursor)}, series : whole] \subseteq Rows
    BY <1>7, <1>8 DEF Rows
  <2>3. collector' \in [at : {"idle", "rolling"}, ts : 0..Elapsed, todo : SUBSET Rows]
    BY <1>2, <1>6, <2>2
  <2>4. smooth' \in BOOLEAN
    BY <1>1
  <2>5. cursor' \in 0..Elapsed
    BY <1>5, <1>6
  <2> QED BY <1>3, <1>4, <1>6, <1>9, <2>1, <2>3, <2>4, <2>5 DEF TypeOK
<1>11. smooth' => /\ smooth /\ IsPrompt /\ cursor < ts
                  /\ RowsFollowTheCursor' /\ AnnouncedUpToTheCursor' /\ (width = 1 => Unannounced')
  BY <1>1, <1>2, <1>3, <1>4, <1>5, <1>6, <1>7, <1>8, InsertFollows
<1>12. \A r \in table' : r \in table \/ (r.ts = ts /\ width = 1)
  BY <1>5
<1>13. StreamFollows'
  <2>1. table \subseteq table'
    BY <1>5
  <2> QED BY <1>3, <1>4, <2>1 DEF StreamFollows
<1>14. smooth' => SmoothStream'
  <2> SUFFICES ASSUME smooth' PROVE SmoothStream'
    OBVIOUS
  <2>1. /\ SmoothStream /\ IsPrompt /\ RowsFollowTheCursor /\ AnnouncedUpToTheCursor
        /\ RowsFollowTheCursor' /\ (width = 1 => Unannounced')
    BY <1>4, <1>11
  <2>2. /\ ts \in Nat /\ cursor < ts /\ cursor \in Nat /\ announced \in Nat
        /\ stream.to \in Nat /\ stream.lastSent \in Nat /\ stream.since \in Nat
        /\ \A r \in table : r.ts \in Nat /\ r.ts <= cursor
    BY <1>4, <1>6, <1>11, <2>1, StreamTypes DEF RowsFollowTheCursor
  <2>3. stream.at \in {"initial", "waiting", "querying"} => ~Coming
    BY <1>3, <2>1 DEF IsPrompt, Coming, Unannounced
  <2>4. /\ Due \subseteq Due'
        /\ \A r \in Due' \ Due : r.ts = ts /\ width = 1 /\ stream.since < ts
    BY <1>3, <1>5, <1>12 DEF Due
  <2>5. ASSUME NEW time \in Nat, After(time) = {}
        PROVE  \A r \in {q \in Due' : time < q.ts} : r.ts = ts /\ width = 1
    BY <2>4, <2>5 DEF After
  <2>6. stream.at = "initial" => OneComing(After(stream.to))'
    BY <1>3, <2>1, <2>2, <2>3, <2>5 DEF SmoothStream, OneComing, After, Coming
  <2>7. stream.at = "waiting" => OneComing(After(stream.lastSent))'
    BY <1>3, <2>1, <2>2, <2>3, <2>5 DEF SmoothStream, OneComing, After, Coming
  <2>8. stream.at = "querying" => OneComing(After(stream.to))'
    BY <1>3, <2>1, <2>2, <2>3, <2>5 DEF SmoothStream, OneComing, After, Coming
  <2>9. width # 1 => Due' = Due
    BY <2>4
  <2>10. collector'.todo # {} => width # 1
    BY <1>3, <2>1 DEF RowsFollowTheCursor
  <2>11. stream.at = "initial" => (collector'.todo # {} => After(stream.to)' = {})
    BY <1>3, <2>1, <2>3, <2>9, <2>10 DEF SmoothStream, OneComing, After
  <2>12. stream.at = "waiting" => (collector'.todo # {} => After(stream.lastSent)' = {})
    BY <1>3, <2>1, <2>3, <2>9, <2>10 DEF SmoothStream, OneComing, After
  <2>13. stream.at = "querying" =>
           \A r, q \in After(stream.lastSent)' \ After(stream.to)' : r.ts = q.ts
    <3> SUFFICES ASSUME stream.at = "querying",
                        NEW r \in After(stream.lastSent)' \ After(stream.to)',
                        NEW q \in After(stream.lastSent)' \ After(stream.to)'
                 PROVE  r.ts = q.ts
      OBVIOUS
    <3>1. width = 1 /\ stream.to <= announced
      BY <1>4, <2>1 DEF IsPrompt, StreamFollows
    <3>2. announced <= cursor
      BY <1>4, <2>1, <2>2, <3>1, NarrowBuckets DEF AnnouncedUpToTheCursor
    <3>3. \A p \in After(stream.lastSent)' \ After(stream.to)' :
             p \in After(stream.lastSent) \ After(stream.to)
      <4> SUFFICES ASSUME NEW p \in After(stream.lastSent)' \ After(stream.to)'
                   PROVE  p \in After(stream.lastSent) \ After(stream.to)
        OBVIOUS
      <4>1. p \in Due' /\ stream.lastSent < p.ts /\ ~(stream.to < p.ts)
        BY <1>3 DEF After
      <4>2. p.ts # ts
        BY <2>2, <3>1, <3>2, <4>1
      <4>3. p \in Due
        BY <2>4, <4>1, <4>2
      <4> QED BY <4>1, <4>3 DEF After
    <3> QED BY <2>1, <3>3 DEF SmoothStream
  <2>14. stream.at \in {"waiting", "querying"} => Due' \ After(stream.lastSent)' \subseteq sent
    <3> SUFFICES ASSUME stream.at \in {"waiting", "querying"},
                        NEW r \in Due' \ After(stream.lastSent)'
                 PROVE  r \in sent
      OBVIOUS
    <3>1. r \in Due' /\ ~(stream.lastSent < r.ts)
      BY <1>3 DEF After
    <3>2. stream.lastSent <= stream.since \/ stream.lastSent <= cursor
      BY <1>4, <2>2 DEF StreamFollows
    <3>3. r \in Due
      BY <2>2, <2>4, <3>1, <3>2
    <3> QED BY <2>1, <3>1, <3>3 DEF SmoothStream, After
  <2>15. stream.at \in {"initial", "waiting", "querying"} =>
           stream.seen = announced /\ (stream.at = "querying" => width = 1)
    BY <2>1 DEF IsPrompt
  <2>16. stream.at = "parsed" => cursor' <= stream.to /\ now <= stream.to
    <3>1. ts <= now /\ now \in Nat
      BY <1>1, <1>4 DEF TypeOK
    <3> QED BY <1>5, <2>1, <2>2, <3>1 DEF SmoothStream
  <2>17. stream' = stream /\ sent' = sent /\ announced' = announced /\ width' = width /\ now' = now
    BY <1>3
  <2> QED BY <2>6, <2>7, <2>8, <2>11, <2>12, <2>13, <2>14, <2>15, <2>16, <2>17 DEF SmoothStream
<1> QED BY <1>10, <1>11, <1>13, <1>14 DEF StreamInv

\* The rows written are after those of the table and of a bucket yet to be
\* announced, and a smooth stream has nothing else to come.
LEMMA RollUpKeeps ==
  ASSUME StreamInv, RollUp
  PROVE  StreamInv'
<1>1. /\ collector.at = "rolling" /\ collector.todo # {}
      /\ coarse' = coarse \cup collector.todo
      /\ collector' = [collector EXCEPT !.todo = {}]
      /\ UNCHANGED <<now, back, lastClosed, width, raw, cursor, announced, stream, sent, smooth>>
  BY DEF RollUp
<1>2. TypeOK /\ StreamFollows /\ (smooth => RowsFollowTheCursor /\ AnnouncedUpToTheCursor /\ SmoothStream)
  BY DEF StreamInv
<1>3. collector' = [at |-> "rolling", ts |-> collector.ts, todo |-> {}]
  BY <1>1, <1>2 DEF TypeOK
<1>4. TypeOK'
  <2>1. Rows' = Rows /\ Elapsed' = Elapsed
    BY <1>1 DEF Rows, Elapsed
  <2>2. collector' \in [at : {"idle", "rolling"}, ts : 0..Elapsed, todo : SUBSET Rows]
    BY <1>1, <1>2, <1>3 DEF TypeOK
  <2>3. coarse' \subseteq Rows
    BY <1>1, <1>2 DEF TypeOK
  <2> QED BY <1>1, <1>2, <2>1, <2>2, <2>3 DEF TypeOK
<1>5. smooth' => /\ SmoothStream /\ RowsFollowTheCursor /\ AnnouncedUpToTheCursor
                 /\ width # 1 /\ Unannounced /\ Unannounced'
                 /\ table' = table \cup collector.todo
  <2> SUFFICES ASSUME smooth'
               PROVE  /\ width # 1 /\ Unannounced /\ Unannounced'
                      /\ table' = table \cup collector.todo
    BY <1>1, <1>2
  <2>1. width # 1 /\ Unannounced
    BY <1>1, <1>2 DEF RowsFollowTheCursor
  <2>2. table' = table \cup collector.todo
    BY <1>1, <2>1 DEF table
  <2>3. Unannounced'
    BY <1>1, <1>3, <2>1 DEF Unannounced, BucketEnd
  <2> QED BY <2>1, <2>2, <2>3
<1>6. smooth' => RowsFollowTheCursor'
  <2> SUFFICES ASSUME smooth' PROVE RowsFollowTheCursor'
    OBVIOUS
  <2>1. width' # 1 => \A r \in table' \cup collector'.todo : r.ts < cursor'
    BY <1>1, <1>3, <1>5 DEF RowsFollowTheCursor
  <2>2. /\ collector'.ts = cursor' /\ collector'.at = "rolling" /\ collector'.todo = {}
        /\ width' # 1
    BY <1>1, <1>3, <1>5 DEF RowsFollowTheCursor
  <2> QED BY <1>5, <2>1, <2>2 DEF RowsFollowTheCursor
<1>7. smooth' => AnnouncedUpToTheCursor'
  BY <1>1, <1>5 DEF AnnouncedUpToTheCursor, BucketEnd
<1>8. StreamFollows'
  <2>1. table \subseteq table'
    BY <1>1 DEF table
  <2> QED BY <1>1, <1>2, <2>1 DEF StreamFollows
<1>9. smooth' => SmoothStream'
  <2> SUFFICES ASSUME smooth' PROVE SmoothStream'
    OBVIOUS
  <2>1. /\ SmoothStream /\ RowsFollowTheCursor
        /\ width # 1 /\ Unannounced /\ Unannounced' /\ table' = table \cup collector.todo
    BY <1>5
  <2>2. PICK q : q \in collector.todo
    BY <1>1
  <2>3. /\ q.ts \in Nat /\ \A r \in collector.todo : r.ts = q.ts
        /\ \A r \in table : r.ts \in Nat /\ r.ts < q.ts
        /\ stream.lastSent \in Nat /\ stream.since \in Nat /\ stream.to \in Nat
    BY <1>2, <2>1, <2>2, StreamTypes DEF RowsFollowTheCursor
  <2>4. /\ Due \subseteq Due'
        /\ \A r \in Due' \ Due : r.ts = q.ts /\ stream.since < q.ts
    BY <1>1, <2>1, <2>3 DEF Due
  <2>5. Coming'
    BY <2>1 DEF Coming
  <2>6. stream.at # "querying"
    BY <1>1, <2>1 DEF SmoothStream
  <2>7. stream.at = "initial" => OneComing(After(stream.to))'
    <3> SUFFICES ASSUME stream.at = "initial" PROVE OneComing(After(stream.to))'
      OBVIOUS
    <3>1. After(stream.to) = {}
      BY <1>1, <2>1 DEF SmoothStream
    <3>2. \A r \in After(stream.to)' : r.ts = q.ts
      BY <1>1, <2>4, <3>1 DEF After
    <3> QED BY <2>5, <3>2 DEF OneComing
  <2>8. stream.at = "waiting" => OneComing(After(stream.lastSent))'
    <3> SUFFICES ASSUME stream.at = "waiting" PROVE OneComing(After(stream.lastSent))'
      OBVIOUS
    <3>1. After(stream.lastSent) = {}
      BY <1>1, <2>1 DEF SmoothStream
    <3>2. \A r \in After(stream.lastSent)' : r.ts = q.ts
      BY <1>1, <2>4, <3>1 DEF After
    <3> QED BY <2>5, <3>2 DEF OneComing
  <2>9. stream.at = "waiting" => Due' \ After(stream.lastSent)' \subseteq sent
    <3> SUFFICES ASSUME stream.at = "waiting", NEW r \in Due' \ After(stream.lastSent)'
                 PROVE  r \in sent
      OBVIOUS
    <3>1. r \in Due' /\ ~(stream.lastSent < r.ts)
      BY <1>1 DEF After
    <3>2. stream.lastSent <= stream.since \/ stream.lastSent < q.ts
      BY <1>2, <2>3 DEF StreamFollows
    <3>3. r \in Due
      BY <2>3, <2>4, <3>1, <3>2
    <3> QED BY <2>1, <3>1, <3>3 DEF SmoothStream, After
  <2>10. /\ stream.at = "parsed" => cursor <= stream.to /\ now <= stream.to
         /\ stream.at \in {"initial", "waiting", "querying"} => stream.seen = announced
    BY <1>1, <2>1 DEF SmoothStream
  <2>11. /\ stream' = stream /\ sent' = sent /\ announced' = announced /\ width' = width /\ now' = now /\ cursor' = cursor
         /\ collector'.todo = {}
    BY <1>1, <1>3
  <2> QED BY <2>6, <2>7, <2>8, <2>9, <2>10, <2>11 DEF SmoothStream
<1> QED BY <1>4, <1>6, <1>7, <1>8, <1>9 DEF StreamInv

\* The bucket of the row under way is announced, or was before.
LEMMA AnnounceKeeps ==
  ASSUME StreamInv, Announce
  PROVE  StreamInv'
<1>1. /\ collector.at = "rolling" /\ collector.todo = {}
      /\ collector' = [at |-> "idle", ts |-> 0, todo |-> {}]
      /\ announced' = Max({announced, BucketEnd(collector.ts)})
      /\ UNCHANGED <<now, back, lastClosed, width, raw, coarse, table, cursor, stream, sent, smooth>>
  BY DEF Announce, tables, table, Idle
<1>2. TypeOK /\ StreamFollows /\ (smooth => RowsFollowTheCursor /\ AnnouncedUpToTheCursor /\ SmoothStream)
  BY DEF StreamInv
<1>3. /\ width \in Nat \ {0} /\ cursor \in Nat /\ announced \in Nat /\ collector.ts \in Nat
      /\ cursor <= BucketEnd(cursor) /\ BucketEnd(cursor) \in Nat /\ BucketEnd(collector.ts) \in Nat
  BY <1>2, StreamTypes, BucketEndBounds
<1>4. /\ announced' \in Nat /\ announced <= announced'
      /\ announced <= BucketEnd(collector.ts) => announced' = BucketEnd(collector.ts)
  <2>1. PICK e \in Nat : e = BucketEnd(collector.ts)
    BY <1>3
  <2>2. {announced, e} \subseteq 0..(announced + e) /\ {announced, e} # {}
    BY <1>3, <2>1
  <2>3. /\ Max({announced, e}) \in {announced, e}
        /\ e <= Max({announced, e}) /\ announced <= Max({announced, e})
    BY <1>3, <2>2, MaxOfBounded
  <2>4. announced' = Max({announced, e})
    BY <1>1, <2>1
  <2>5. announced <= e => Max({announced, e}) = e
    BY <1>3, <2>1, <2>3
  <2> QED BY <1>3, <2>1, <2>3, <2>4, <2>5
<1>5. TypeOK'
  <2>1. Rows' = Rows /\ Elapsed' = Elapsed
    BY <1>1 DEF Rows, Elapsed
  <2>2. collector' \in [at : {"idle", "rolling"}, ts : 0..Elapsed', todo : SUBSET Rows']
    BY <1>1, <1>2, <2>1, StreamTypes
  <2> QED BY <1>1, <1>2, <1>3, <1>4, <2>1, <2>2 DEF TypeOK
<1>6. ~Unannounced'
  BY <1>1 DEF Unannounced
<1>7. smooth' => /\ SmoothStream /\ RowsFollowTheCursor /\ announced <= BucketEnd(cursor)
                 /\ announced' = BucketEnd(cursor)
  <2> SUFFICES ASSUME smooth'
               PROVE  /\ SmoothStream /\ RowsFollowTheCursor /\ announced <= BucketEnd(cursor)
                      /\ announced' = BucketEnd(cursor)
    OBVIOUS
  <2>1. /\ SmoothStream /\ RowsFollowTheCursor /\ announced <= BucketEnd(cursor)
        /\ collector.ts = cursor
    BY <1>1, <1>2 DEF RowsFollowTheCursor, AnnouncedUpToTheCursor
  <2> QED BY <1>4, <2>1
<1>8. smooth' => RowsFollowTheCursor'
  BY <1>1, <1>7 DEF RowsFollowTheCursor
<1>9. smooth' => AnnouncedUpToTheCursor'
  <2> SUFFICES ASSUME smooth' PROVE AnnouncedUpToTheCursor'
    OBVIOUS
  <2>1. announced' <= BucketEnd(cursor)'
    <3>1. BucketEnd(cursor)' = BucketEnd(cursor)
      BY <1>1 DEF BucketEnd
    <3> QED BY <1>3, <1>7, <3>1
  <2>2. \A r \in table : r.ts \in Nat /\ r.ts <= cursor
    BY <1>2, <1>3, <1>7, StreamTypes DEF RowsFollowTheCursor
  <2>3. \A r \in table' : r.ts <= announced'
    BY <1>1, <1>3, <1>7, <2>2
  <2> QED BY <2>1, <2>3 DEF AnnouncedUpToTheCursor
<1>10. StreamFollows'
  <2>1. stream.seen \in Nat /\ stream.to \in Nat
    BY <1>2, StreamTypes
  <2> QED BY <1>1, <1>2, <1>3, <1>4, <2>1 DEF StreamFollows
<1>11. smooth' => SmoothStream'
  <2> SUFFICES ASSUME smooth' PROVE SmoothStream'
    OBVIOUS
  <2>1. SmoothStream /\ announced <= BucketEnd(cursor) /\ announced' = BucketEnd(cursor)
        /\ collector.ts = cursor
    BY <1>1, <1>7 DEF RowsFollowTheCursor
  <2>2. Due' = Due
    BY <1>1 DEF Due
  <2>3. stream.at \in {"initial", "waiting", "querying"} => (Coming => Coming')
    <3> SUFFICES ASSUME stream.at \in {"initial", "waiting", "querying"}, Coming PROVE Coming'
      OBVIOUS
    <3>1. stream.seen = announced
      BY <1>1, <2>1 DEF SmoothStream
    <3>2. announced < BucketEnd(cursor)
      BY <1>3, <2>1, <3>1 DEF Coming, Unannounced
    <3> QED BY <1>1, <1>3, <2>1, <3>1, <3>2 DEF Coming
  <2>4. ASSUME NEW points, stream.at \in {"initial", "waiting", "querying"}, OneComing(points)
        PROVE  points # {} => Coming' /\ \A r, q \in points : r.ts = q.ts
    BY <2>3, <2>4 DEF OneComing
  <2>5. /\ stream.at = "initial" => OneComing(After(stream.to))'
        /\ stream.at = "waiting" => OneComing(After(stream.lastSent))'
        /\ stream.at = "querying" => OneComing(After(stream.to))'
    <3>1. After(stream.to)' = After(stream.to) /\ After(stream.lastSent)' = After(stream.lastSent)
      BY <1>1, <2>2 DEF After
    <3>2. /\ stream.at = "initial" => OneComing(After(stream.to))
          /\ stream.at = "waiting" => OneComing(After(stream.lastSent))
          /\ stream.at = "querying" => OneComing(After(stream.to))
      BY <2>1 DEF SmoothStream
    <3>3. /\ stream.at \in {"initial", "querying"} => OneComing(After(stream.to))'
          /\ stream.at = "waiting" => OneComing(After(stream.lastSent))'
      BY <2>4, <3>1, <3>2 DEF OneComing
    <3> QED BY <3>3
  <2> QED BY <1>1, <2>1, <2>2, <2>5 DEF SmoothStream, After
<1> QED BY <1>5, <1>8, <1>9, <1>10, <1>11 DEF StreamInv

---------------------------------------------------------------------------
(* The stream's steps                                                      *)

LEMMA ConnectKeeps ==
  ASSUME StreamInv, Connect
  PROVE  StreamInv'
<1>1. PICK from \in 1..now, watched \in Watched :
        stream' = [Away EXCEPT !.at = "parsed", !.watched = watched,
                               !.since = from, !.from = from, !.to = now]
  BY DEF Connect
<1>2. /\ UNCHANGED <<now, back, lastClosed, width, raw, coarse, table, cursor, collector, announced, sent>>
      /\ smooth' = (smooth /\ cursor <= now)
  BY DEF Connect, tables, table
<1>3. TypeOK /\ (smooth => RowsFollowTheCursor /\ AnnouncedUpToTheCursor)
  BY DEF StreamInv
<1>4. stream' = [at |-> "parsed", watched |-> watched, since |-> from, from |-> from,
                 to |-> now, seen |-> 0, lastSent |-> 0]
  BY <1>1 DEF Away
<1>5. TypeOK'
  <2>1. /\ Rows' = Rows /\ Elapsed' = Elapsed
        /\ now \in Nat /\ from \in 0..Elapsed /\ from \in Nat /\ watched \in SUBSET Series
    BY <1>2, <1>3, ConstantsAssumption DEF Rows, TypeOK, Elapsed
  <2>2. stream' \in [at : {"none", "parsed", "initial", "waiting", "querying"},
                     watched : SUBSET Series, since : 0..Elapsed, from : Nat, to : Nat,
                     seen : Nat, lastSent : Nat]
    BY <1>4, <2>1
  <2> QED BY <1>2, <1>3, <2>1, <2>2 DEF TypeOK
<1>6. smooth' => RowsFollowTheCursor' /\ AnnouncedUpToTheCursor'
  BY <1>2, <1>3, TablesKept
<1>7. StreamFollows'
  BY <1>2, <1>3, <1>4, StreamTypes DEF StreamFollows
<1>8. smooth' => SmoothStream'
  <2>1. now <= now
    BY <1>3 DEF TypeOK
  <2> QED BY <1>2, <1>4, <2>1 DEF SmoothStream
<1> QED BY <1>5, <1>6, <1>7, <1>8 DEF StreamInv

LEMMA SubscribeKeeps ==
  ASSUME StreamInv, Subscribe
  PROVE  StreamInv'
<1>1. /\ stream.at = "parsed"
      /\ stream' = [stream EXCEPT !.at = "initial", !.seen = announced]
      /\ UNCHANGED <<now, back, lastClosed, width, raw, coarse, table, cursor, collector, announced, sent, smooth>>
  BY DEF Subscribe, tables, table
<1>2. TypeOK /\ StreamFollows /\ (smooth => RowsFollowTheCursor /\ AnnouncedUpToTheCursor /\ SmoothStream)
  BY DEF StreamInv
<1>3. /\ stream' \in [at : {"none", "parsed", "initial", "waiting", "querying"},
                      watched : SUBSET Series, since : 0..Elapsed, from : Nat, to : Nat,
                      seen : Nat, lastSent : Nat]
      /\ stream'.at = "initial" /\ stream'.seen = announced /\ stream'.to = stream.to
      /\ stream'.from = stream.from /\ stream'.since = stream.since
      /\ stream'.watched = stream.watched
  BY <1>1, <1>2 DEF TypeOK
<1>4. TypeOK'
  <2>1. Rows' = Rows /\ Elapsed' = Elapsed
    BY <1>1 DEF Rows, Elapsed
  <2> QED BY <1>1, <1>2, <1>3, <2>1 DEF TypeOK
<1>5. smooth' => RowsFollowTheCursor' /\ AnnouncedUpToTheCursor'
  BY <1>1, <1>2, TablesKept
<1>6. StreamFollows'
  BY <1>1, <1>2, <1>3, StreamTypes DEF StreamFollows
<1>7. smooth' => SmoothStream'
  <2> SUFFICES ASSUME smooth' PROVE SmoothStream'
    OBVIOUS
  <2>1. cursor <= stream.to /\ RowsFollowTheCursor
    BY <1>1, <1>2 DEF SmoothStream
  <2>2. /\ cursor \in Nat /\ stream.to \in Nat
        /\ \A r \in table : r.ts \in Nat /\ r.ts <= cursor
    BY <1>2, <2>1, StreamTypes DEF RowsFollowTheCursor
  <2>3. After(stream.to)' = {}
    BY <1>1, <1>3, <2>1, <2>2 DEF After, Due
  <2> QED BY <1>1, <1>3, <2>3 DEF SmoothStream, OneComing
<1> QED BY <1>4, <1>5, <1>6, <1>7 DEF StreamInv

\* The points of a query that has not failed, and the latest of them.
LEMMA QueriedPoints ==
  ASSUME TypeOK, NEW ok \in BOOLEAN, NEW points, points = Queried(ok)
  PROVE  /\ points \subseteq table /\ points \subseteq Rows
         /\ \A r \in points : r.series \in stream.watched /\ stream.from <= r.ts /\ r.ts <= stream.to
         /\ ok => \A r \in table : r.series \in stream.watched /\ stream.from <= r.ts /\ r.ts <= stream.to
                                   => r \in points
         /\ points # {} => /\ Latest(points) \in Nat
                           /\ \E r \in points : r.ts = Latest(points)
                           /\ \A r \in points : r.ts <= Latest(points)
<1>1. points \subseteq table
  BY DEF Queried, Select
<1>2. /\ \A r \in points : r.series \in stream.watched /\ stream.from <= r.ts /\ r.ts <= stream.to
      /\ ok => \A r \in table : r.series \in stream.watched /\ stream.from <= r.ts /\ r.ts <= stream.to
                                => r \in points
  BY DEF Queried, Select
<1>3. points # {} => /\ Latest(points) \in Nat
                     /\ \E r \in points : r.ts = Latest(points)
                     /\ \A r \in points : r.ts <= Latest(points)
  <2> SUFFICES ASSUME points # {}
               PROVE  /\ Latest(points) \in Nat
                      /\ \E r \in points : r.ts = Latest(points)
                      /\ \A r \in points : r.ts <= Latest(points)
    OBVIOUS
  <2>1. PICK times : times = {r.ts : r \in points}
    OBVIOUS
  <2>2. Elapsed \in Nat /\ times \subseteq 0..Elapsed /\ times # {}
    BY <1>1, <2>1, StreamTypes
  <2>3. Max(times) \in times /\ \A y \in times : y <= Max(times)
    BY <2>2, MaxOfBounded
  <2>4. Latest(points) = Max(times)
    BY <2>1 DEF Latest
  <2>5. Max(times) \in Nat
    <3>1. \A t \in times : t \in Nat
      BY <2>2
    <3> QED BY <2>3, <3>1
  <2>6. (\E r \in points : r.ts = Max(times)) /\ \A r \in points : r.ts \in times
    BY <2>1, <2>3
  <2> QED BY <2>3, <2>4, <2>5, <2>6
<1>4. points \subseteq Rows
  BY <1>1, StreamTypes
<1> QED BY <1>1, <1>2, <1>3, <1>4

LEMMA SnapshotKeeps ==
  ASSUME StreamInv, Snapshot
  PROVE  StreamInv'
<1>1. PICK ok \in BOOLEAN :
        /\ stream' = Waiting(IF Queried(ok) = {} THEN stream.from ELSE Latest(Queried(ok)))
        /\ sent' = Queried(ok) /\ smooth' = (smooth /\ ok)
  BY DEF Snapshot
<1>2. PICK points : points = Queried(ok)
  OBVIOUS
<1>3. PICK last : last = IF points = {} THEN stream.from ELSE Latest(points)
  OBVIOUS
<1>4. /\ stream.at = "initial"
      /\ UNCHANGED <<now, back, lastClosed, width, raw, coarse, table, cursor, collector, announced>>
      /\ stream' = Waiting(last) /\ sent' = points /\ smooth' = (smooth /\ ok)
  BY <1>1, <1>2, <1>3 DEF Snapshot, tables, table
<1>5. TypeOK /\ StreamFollows /\ (smooth => RowsFollowTheCursor /\ AnnouncedUpToTheCursor /\ SmoothStream)
  BY DEF StreamInv
<1>6. /\ last \in Nat /\ stream.from = stream.since /\ stream.since \in Nat /\ stream.to \in Nat
      /\ \A r \in table : r.ts \in Nat
  BY <1>2, <1>3, <1>4, <1>5, QueriedPoints, StreamTypes DEF StreamFollows
<1>7. /\ stream' \in [at : {"none", "parsed", "initial", "waiting", "querying"},
                      watched : SUBSET Series, since : 0..Elapsed, from : Nat, to : Nat,
                      seen : Nat, lastSent : Nat]
      /\ stream'.at = "waiting" /\ stream'.lastSent = last /\ stream'.seen = stream.seen
      /\ stream'.since = stream.since /\ stream'.watched = stream.watched
  BY <1>4, <1>5, <1>6 DEF TypeOK, Waiting
<1>8. TypeOK'
  <2>1. Rows' = Rows /\ Elapsed' = Elapsed
    BY <1>4 DEF Rows, Elapsed
  <2>2. points \subseteq Rows
    BY <1>2, <1>5, QueriedPoints
  <2> QED BY <1>4, <1>5, <1>7, <2>1, <2>2 DEF TypeOK
<1>9. smooth' => RowsFollowTheCursor' /\ AnnouncedUpToTheCursor' /\ Unannounced' = Unannounced
  BY <1>4, <1>5, TablesKept
<1>10. StreamFollows'
  <2>1. last <= stream.since \/ \E r \in table : r.ts = last
    BY <1>2, <1>3, <1>5, <1>6, QueriedPoints
  <2> QED BY <1>4, <1>5, <1>7, <2>1 DEF StreamFollows
<1>11. smooth' => SmoothStream'
  <2> SUFFICES ASSUME smooth' PROVE SmoothStream'
    OBVIOUS
  <2>1. SmoothStream /\ ok
    BY <1>4, <1>5
  <2>2. /\ \A r \in points : stream.from <= r.ts /\ r.ts <= stream.to /\ r \in table
        /\ \A r \in Due : r.ts <= stream.to => r \in points
    <3>1. \A r \in points : r \in table /\ stream.from <= r.ts /\ r.ts <= stream.to
      BY <1>2, <1>5, QueriedPoints
    <3>2. ASSUME NEW r \in Due, r.ts <= stream.to PROVE r \in points
      <4>1. r \in table /\ r.series \in stream.watched /\ stream.since < r.ts
        BY DEF Due
      <4>2. stream.from <= r.ts
        BY <1>6, <4>1
      <4> QED BY <1>2, <1>5, <2>1, <3>2, <4>1, <4>2, QueriedPoints
    <3> QED BY <3>1, <3>2
  <2>3. Due' = Due /\ Coming' = Coming
    BY <1>4, <1>7, <1>9 DEF Due, Coming
  <2>4. \A r \in Due : last < r.ts => stream.to < r.ts
    <3> SUFFICES ASSUME NEW r \in Due, last < r.ts, ~(stream.to < r.ts) PROVE FALSE
      OBVIOUS
    <3>1. r \in points
      BY <1>6, <2>2 DEF Due
    <3>2. r.ts <= last
      BY <1>2, <1>3, <1>5, <3>1, QueriedPoints
    <3> QED BY <1>6, <3>2 DEF Due
  <2>5. After(stream.lastSent)' \subseteq After(stream.to)
    BY <1>7, <2>3, <2>4 DEF After
  <2>6. OneComing(After(stream.to)) /\ (collector.todo # {} => After(stream.to) = {})
    BY <1>4, <2>1 DEF SmoothStream
  <2>7. OneComing(After(stream.lastSent))'
    BY <2>3, <2>5, <2>6 DEF OneComing
  <2>8. collector.todo # {} => After(stream.lastSent)' = {}
    BY <2>5, <2>6
  <2>9. Due' \ After(stream.lastSent)' \subseteq sent'
    <3> SUFFICES ASSUME NEW r \in Due, ~(last < r.ts) PROVE r \in points
      BY <1>4, <1>7, <2>3 DEF After
    <3>1. r \in table /\ r.ts \in Nat /\ stream.since < r.ts
      BY <1>6 DEF Due
    <3>2. last <= stream.to \/ last = stream.since
      BY <1>2, <1>3, <1>5, <1>6, <2>2, QueriedPoints
    <3> QED BY <1>6, <2>2, <3>1, <3>2
  <2>10. stream'.at = "waiting" /\ UNCHANGED collector /\ (collector.at = "rolling" => stream.seen = announced)
    BY <1>4, <1>7, <2>1 DEF SmoothStream
  <2> QED BY <1>4, <1>7, <2>7, <2>8, <2>9, <2>10 DEF SmoothStream
<1> QED BY <1>8, <1>9, <1>10, <1>11 DEF StreamInv

\* All that was to come is up to the bucket announced, or was sent.
LEMMA WakeKeeps ==
  ASSUME StreamInv, Wake
  PROVE  StreamInv'
<1>1. /\ stream.at = "waiting" /\ stream.seen # announced
      /\ UNCHANGED <<now, back, lastClosed, width, raw, coarse, table, cursor, collector, announced, sent, smooth>>
      /\ stream' = IF announced <= stream.lastSent THEN [stream EXCEPT !.seen = announced]
                   ELSE [stream EXCEPT !.seen = announced, !.at = "querying",
                                       !.from = stream.lastSent, !.to = announced]
  BY DEF Wake, tables, table
<1>2. TypeOK /\ StreamFollows /\ (smooth => RowsFollowTheCursor /\ AnnouncedUpToTheCursor /\ SmoothStream)
  BY DEF StreamInv
<1>3. /\ announced \in Nat /\ stream.seen \in Nat /\ stream.lastSent \in Nat /\ stream.seen <= announced
      /\ \A r \in table : r.ts \in Nat
  BY <1>2, StreamTypes DEF StreamFollows
<1>4. /\ stream' \in [at : {"none", "parsed", "initial", "waiting", "querying"},
                      watched : SUBSET Series, since : 0..Elapsed, from : Nat, to : Nat,
                      seen : Nat, lastSent : Nat]
      /\ stream'.seen = announced /\ stream'.lastSent = stream.lastSent
      /\ stream'.since = stream.since /\ stream'.watched = stream.watched
      /\ \/ announced <= stream.lastSent /\ stream'.at = "waiting"
         \/ stream'.at = "querying" /\ stream'.from = stream.lastSent /\ stream'.to = announced
  <2>1. CASE announced <= stream.lastSent
    BY <1>1, <1>2, <1>3, <2>1 DEF TypeOK
  <2>2. CASE ~(announced <= stream.lastSent)
    BY <1>1, <1>2, <1>3, <2>2 DEF TypeOK
  <2> QED BY <2>1, <2>2
<1>5. TypeOK'
  <2>1. Rows' = Rows /\ Elapsed' = Elapsed
    BY <1>1 DEF Rows, Elapsed
  <2> QED BY <1>1, <1>2, <1>4, <2>1 DEF TypeOK
<1>6. smooth' => RowsFollowTheCursor' /\ AnnouncedUpToTheCursor' /\ Unannounced' = Unannounced
  BY <1>1, <1>2, TablesKept
<1>7. StreamFollows'
  BY <1>1, <1>2, <1>3, <1>4 DEF StreamFollows
<1>8. smooth' => SmoothStream'
  <2> SUFFICES ASSUME smooth' PROVE SmoothStream'
    OBVIOUS
  <2>1. SmoothStream
    BY <1>1, <1>2
  <2>2. collector.at # "rolling" /\ announced # 0
    BY <1>1, <1>3, <2>1 DEF SmoothStream
  <2>3. \A r \in table : r.ts <= announced
    BY <1>1, <1>2, <2>2 DEF AnnouncedUpToTheCursor, Unannounced
  <2>4. Due' = Due /\ \A r \in Due : ~(announced < r.ts)
    BY <1>1, <1>3, <1>4, <2>3 DEF Due
  <2>5. CASE announced <= stream.lastSent /\ stream'.at = "waiting"
    <3>1. \A r \in Due : ~(stream.lastSent < r.ts)
      BY <1>3, <2>3, <2>5 DEF Due
    <3>2. After(stream.lastSent)' = {} /\ After(stream.lastSent) = {}
      BY <1>4, <2>4, <3>1 DEF After
    <3> QED BY <1>1, <2>1, <2>2, <2>4, <2>5, <3>2 DEF SmoothStream, OneComing
  <2>6. CASE stream'.at = "querying" /\ stream'.to = announced
    <3>1. After(stream.to)' = {}
      BY <2>4, <2>6 DEF After
    <3>2. After(stream.lastSent)' = After(stream.lastSent)
      BY <1>4, <2>4 DEF After
    <3>3. \A r, q \in After(stream.lastSent) : r.ts = q.ts
      BY <1>1, <2>1 DEF SmoothStream, OneComing
    <3>4. OneComing(After(stream.to))'
      BY <3>1 DEF OneComing
    <3> QED BY <1>1, <2>1, <2>2, <2>4, <2>6, <3>2, <3>3, <3>4 DEF SmoothStream
  <2> QED BY <1>4, <2>5, <2>6
<1> QED BY <1>5, <1>6, <1>7, <1>8 DEF StreamInv

\* Of each series only the latest point is sent, but there is no more than one.
LEMMA SendAppendKeeps ==
  ASSUME StreamInv, SendAppend
  PROVE  StreamInv'
<1>1. PICK ok \in BOOLEAN :
        LET points == Queried(ok)
            last == {r \in points : \A q \in points : q.series = r.series => q.ts <= r.ts}
        IN /\ stream' = Waiting(IF points = {} THEN stream.lastSent ELSE Latest(points))
           /\ sent' = sent \cup last
           /\ smooth' = (smooth /\ ok)
  BY DEF SendAppend
<1>2. PICK points : points = Queried(ok)
  OBVIOUS
<1>3. PICK lastSent : lastSent = IF points = {} THEN stream.lastSent ELSE Latest(points)
  OBVIOUS
<1>4. PICK last :
        last = {r \in points : \A q \in points : q.series = r.series => q.ts <= r.ts}
  OBVIOUS
<1>5. /\ stream.at = "querying"
      /\ UNCHANGED <<now, back, lastClosed, width, raw, coarse, table, cursor, collector, announced>>
      /\ stream' = Waiting(lastSent) /\ sent' = sent \cup last /\ smooth' = (smooth /\ ok)
  BY <1>1, <1>2, <1>3, <1>4 DEF SendAppend, tables, table
<1>6. TypeOK /\ StreamFollows /\ (smooth => RowsFollowTheCursor /\ AnnouncedUpToTheCursor /\ SmoothStream)
  BY DEF StreamInv
<1>7. /\ stream.from = stream.lastSent /\ stream.lastSent \in Nat /\ stream.since \in Nat
      /\ stream.to \in Nat /\ \A r \in table : r.ts \in Nat
  BY <1>5, <1>6, StreamTypes DEF StreamFollows
<1>8. \A r \in points : /\ r \in table /\ r \in Rows /\ r.series \in stream.watched
                         /\ stream.lastSent <= r.ts /\ r.ts <= stream.to
  BY <1>2, <1>6, <1>7, QueriedPoints
<1>9. /\ lastSent \in Nat
      /\ points # {} => (\E r \in points : r.ts = lastSent) /\ \A r \in points : r.ts <= lastSent
      /\ points = {} => lastSent = stream.lastSent
  BY <1>2, <1>3, <1>6, <1>7, QueriedPoints
<1>10. /\ stream' \in [at : {"none", "parsed", "initial", "waiting", "querying"},
                       watched : SUBSET Series, since : 0..Elapsed, from : Nat, to : Nat,
                       seen : Nat, lastSent : Nat]
       /\ stream'.at = "waiting" /\ stream'.lastSent = lastSent /\ stream'.seen = stream.seen
       /\ stream'.since = stream.since /\ stream'.watched = stream.watched
  BY <1>5, <1>6, <1>9 DEF TypeOK, Waiting
<1>11. TypeOK'
  <2>1. Rows' = Rows /\ Elapsed' = Elapsed
    BY <1>5 DEF Rows, Elapsed
  <2>2. last \subseteq Rows
    BY <1>4, <1>8
  <2> QED BY <1>5, <1>6, <1>10, <2>1, <2>2 DEF TypeOK
<1>12. smooth' => RowsFollowTheCursor' /\ AnnouncedUpToTheCursor' /\ Unannounced' = Unannounced
  BY <1>5, <1>6, TablesKept
<1>13. StreamFollows'
  <2>1. lastSent <= stream.since \/ \E r \in table : r.ts = lastSent
    BY <1>5, <1>6, <1>8, <1>9 DEF StreamFollows
  <2> QED BY <1>5, <1>6, <1>10, <2>1 DEF StreamFollows
<1>14. smooth' => SmoothStream'
  <2> SUFFICES ASSUME smooth' PROVE SmoothStream'
    OBVIOUS
  <2>1. SmoothStream /\ ok
    BY <1>5, <1>6
  <2>2. \A r \in table : r.series \in stream.watched /\ stream.lastSent <= r.ts /\ r.ts <= stream.to
                        => r \in points
    BY <1>2, <1>6, <1>7, <2>1, QueriedPoints
  <2>3. Due' = Due /\ Coming' = Coming
    BY <1>5, <1>10, <1>12 DEF Due, Coming
  <2>4. \A r \in Due : r \in table /\ r.series \in stream.watched /\ r.ts \in Nat /\ stream.since < r.ts
    BY <1>7 DEF Due
  <2>5. stream.lastSent <= lastSent
    BY <1>7, <1>8, <1>9
  <2>6. \A r \in Due : lastSent < r.ts => stream.to < r.ts
    <3> SUFFICES ASSUME NEW r \in Due, lastSent < r.ts, ~(stream.to < r.ts) PROVE FALSE
      OBVIOUS
    <3>1. r \in points
      BY <1>7, <1>9, <2>2, <2>4, <2>5
    <3> QED BY <1>9, <2>4, <3>1
  <2>7. After(stream.lastSent)' \subseteq After(stream.to)
    BY <1>10, <2>3, <2>6 DEF After
  <2>8. OneComing(After(stream.lastSent))'
    <3>1. OneComing(After(stream.to))
      BY <1>5, <2>1 DEF SmoothStream
    <3> QED BY <2>3, <2>7, <3>1 DEF OneComing
  <2>9. collector.at # "rolling" \/ (width = 1 /\ stream.seen = announced)
    BY <1>5, <2>1 DEF SmoothStream
  <2>10. collector.todo = {}
    BY <1>5, <1>6, <2>9 DEF RowsFollowTheCursor, TypeOK
  <2>11. Due' \ After(stream.lastSent)' \subseteq sent'
    <3> SUFFICES ASSUME NEW r \in Due, ~(lastSent < r.ts) PROVE r \in sent \cup last
      BY <1>5, <1>10, <2>3 DEF After
    <3>1. CASE ~(stream.lastSent < r.ts)
      BY <1>5, <2>1, <3>1 DEF SmoothStream, After
    <3>2. CASE stream.lastSent < r.ts
      <4>1. points # {} /\ r.ts <= lastSent /\ r.ts <= stream.to
        BY <1>7, <1>8, <1>9, <2>4, <3>2
      <4>2. r \in points
        BY <1>7, <2>2, <2>4, <3>2, <4>1
      <4>3. ASSUME NEW q \in points, q.series = r.series PROVE q.ts <= r.ts
        <5> SUFFICES ASSUME r.ts < q.ts PROVE FALSE
          BY <1>7, <1>8, <2>4
        <5>1. q \in Due /\ stream.lastSent < q.ts /\ ~(stream.to < q.ts)
          BY <1>7, <1>8, <2>4, <3>2 DEF Due
        <5>2. /\ q \in After(stream.lastSent) \ After(stream.to)
              /\ r \in After(stream.lastSent) \ After(stream.to)
          BY <1>7, <2>4, <3>2, <4>1, <5>1 DEF After
        <5>3. q.ts = r.ts
          BY <1>5, <2>1, <5>2 DEF SmoothStream
        <5> QED BY <2>4, <5>3
      <4> QED BY <1>4, <4>2, <4>3
    <3> QED BY <3>1, <3>2
  <2>12. collector.at = "rolling" => stream.seen = announced
    BY <2>9
  <2> QED BY <1>5, <1>10, <2>8, <2>10, <2>11, <2>12 DEF SmoothStream
<1> QED BY <1>11, <1>12, <1>13, <1>14 DEF StreamInv

LEMMA StreamStep == StreamInv /\ [Next]_vars => StreamInv'
<1> SUFFICES ASSUME StreamInv, [Next]_vars PROVE StreamInv'
  OBVIOUS
<1>1. CASE UNCHANGED vars
  <2>1. /\ UNCHANGED <<now, back, lastClosed, width, raw, coarse, table, cursor, collector, announced>>
        /\ UNCHANGED <<stream, sent, smooth>>
    BY <1>1 DEF vars, table
  <2>2. TypeOK' /\ StreamFollows'
    BY <2>1 DEF StreamInv, TypeOK, StreamFollows, Rows, Elapsed
  <2>3. smooth => RowsFollowTheCursor' /\ AnnouncedUpToTheCursor' /\ Unannounced' = Unannounced
    BY <2>1, TablesKept DEF StreamInv
  <2>4. smooth => SmoothStream'
    BY <2>1, <2>3 DEF StreamInv, SmoothStream, OneComing, After, Due, Coming
  <2> QED BY <2>1, <2>2, <2>3, <2>4 DEF StreamInv
<1> QED BY <1>1, TickKeeps, StepBackKeeps, InsertKeeps, RollUpKeeps, AnnounceKeeps, ConnectKeeps, SubscribeKeeps,
           SnapshotKeeps, WakeKeeps, SendAppendKeeps DEF Next

LEMMA StreamInvImplies == StreamInv => NothingSkipped
<1> SUFFICES ASSUME StreamInv, smooth, stream.at = "waiting", NEW r \in Due,
                    r.ts <= stream.lastSent \/ (collector.at = "idle" /\ stream.seen = announced)
             PROVE  r \in sent
  BY DEF NothingSkipped
<1>1. TypeOK /\ SmoothStream
  BY DEF StreamInv
<1>2. r.ts \in Nat /\ stream.lastSent \in Nat
  BY <1>1, StreamTypes DEF Due
<1>3. r \notin After(stream.lastSent)
  <2>1. CASE r.ts <= stream.lastSent
    BY <1>2, <2>1 DEF After
  <2>2. CASE collector.at = "idle" /\ stream.seen = announced
    <3>1. ~Coming
      BY <2>2 DEF Coming, Unannounced
    <3> QED BY <1>1, <3>1 DEF SmoothStream, OneComing
  <2> QED BY <2>1, <2>2
<1> QED BY <1>1, <1>3 DEF SmoothStream

LEMMA StreamInvariant == Spec => []StreamInv
  BY StreamInit, StreamStep, PTL DEF Spec

\* The tables, the channel and the stream keep their types (MetricsStore,
\* BucketWatcher, the metrics SSE handlers).
THEOREM StreamTypeCorrect == Spec => []TypeOK
<1>1. StreamInv => TypeOK
  BY DEF StreamInv
<1> QED BY <1>1, StreamInvariant, PTL

\* A metrics stream that keeps up skips no row and has sent everything when
\* nothing is under way, as long as every row is stored after the one before: not
\* so where the clock has stepped back and a row is stored behind another, or the
\* stream connects before the time of a row (the metrics SSE handlers,
\* BucketWatcher, insert_host and insert_containers).
THEOREM StreamSkipsNothing == Spec => []NothingSkipped
  BY StreamInvariant, StreamInvImplies, PTL
================================================================================
