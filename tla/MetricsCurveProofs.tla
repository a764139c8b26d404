--------------------------- MODULE MetricsCurveProofs ---------------------------
(***************************************************************************)
(* Lemmas about what the bucketizers compute, for all bucket lengths,      *)
(* intervals and samples: of a buffer with the last samples the boundaries,*)
(* areas, rises and peaks of a bucket are those of the curve through all   *)
(* samples, and they are there when the bucket is complete.                *)
(***************************************************************************)
EXTENDS MetricsCollector, FiniteSetTheorems, SequenceTheorems, WellFoundedInduction, TLAPS

---------------------------------------------------------------------------
(* Least, greatest and last elements                                       *)

\* A non-empty set of naturals has a least element.
LEMMA NatHasLeast ==
  ASSUME NEW S, S \subseteq Nat, S # {}
  PROVE  \E x \in S : \A y \in S : x <= y
<1> DEFINE R == OpToRel(<, Nat)
<1>1. \A a, b \in Nat : a < b => <<a, b>> \in R
  BY DEF OpToRel
<1>2. IsWellFoundedOn(R, Nat)
  BY NatLessThanWellFounded
<1> HIDE DEF R
<1>3. PICK x \in S : \A y \in S : ~ (<<y, x>> \in R)
  BY <1>2, WFMin
<1>4. ASSUME NEW y \in S PROVE x <= y
  <2>1. x \in Nat /\ y \in Nat
    OBVIOUS
  <2>2. ~(y < x)
    BY <2>1, <1>1, <1>3, Zenon
  <2> QED BY <2>1, <2>2
<1> QED BY <1>4

\* Naturals up to a bound have a greatest one.
LEMMA MaxOfBounded ==
  ASSUME NEW n \in Nat, NEW S, S \subseteq 0..n, S # {}
  PROVE  Max(S) \in S /\ \A y \in S : y <= Max(S)
<1> DEFINE D == {n - x : x \in S}
<1>1. D \subseteq Nat /\ D # {}
  OBVIOUS
<1>2. PICK d \in D : \A e \in D : d <= e
  <2> HIDE DEF D
  <2> QED BY <1>1, NatHasLeast
<1>3. PICK x \in S : d = n - x
  BY <1>2
<1>4. \A y \in S : n - x <= n - y
  BY <1>2, <1>3
<1>5. \A y \in S : y <= x
  BY <1>4
<1>6. \E m \in S : \A y \in S : y <= m
  BY <1>5
<1> QED BY <1>6 DEF Max

\* The last element of a sequence.
LEMMA LastOfSequence ==
  ASSUME NEW S, NEW s \in Seq(S), s # <<>>
  PROVE  Len(s) \in Nat \ {0} /\ Last(s) = s[Len(s)] /\ Last(s) \in S
<1>1. Len(s) \in Nat \ {0}
  OBVIOUS
<1> QED BY <1>1 DEF Last

---------------------------------------------------------------------------
(* Samples in time order, and the curve through them                       *)

\* a sample, of a time and with a value
Sample == [ts : Nat, value : Nat]

\* The least element of naturals.
LEMMA MinOfNaturals ==
  ASSUME NEW S, S \subseteq Nat, S # {}
  PROVE  Min(S) \in S /\ \A y \in S : Min(S) <= y
<1>1. \E x \in S : \A y \in S : x <= y
  BY NatHasLeast
<1> QED BY <1>1 DEF Min

\* A sample is a sample.
LEMMA SampleIsNotNone == ASSUME NEW s \in Sample PROVE s # None /\ s.ts \in Nat /\ s.value \in Nat
<1>1. s \in [ts : Int, value : Int]
  BY DEF Sample
<1> QED BY <1>1, CollectorAssumption DEF Sample

\* What FirstAt and LastAt give.
LEMMA FirstAtIs ==
  ASSUME NEW samples \in Seq(Sample), NEW times, NEW first, first = FirstAt(samples, times)
  PROVE  IF \E i \in 1..Len(samples) : samples[i].ts \in times
         THEN \E i \in 1..Len(samples) :
                /\ first = samples[i] /\ first \in Sample /\ first # None /\ first.ts \in times
                /\ \A j \in 1..Len(samples) : samples[j].ts \in times => i <= j
         ELSE first = None
<1>1. PICK N \in Nat : N = Len(samples)
  OBVIOUS
<1>2. PICK places : places = Places(samples, times)
  OBVIOUS
<1>3. places = {i \in 1..N : samples[i].ts \in times}
  BY <1>1, <1>2 DEF Places
<1>4. CASE places = {}
  <2>1. first = None
    BY <1>2, <1>4 DEF FirstAt
  <2> QED BY <1>1, <1>3, <1>4, <2>1
<1>5. CASE places # {}
  <2>1. first = samples[Min(places)]
    BY <1>2, <1>5 DEF FirstAt
  <2>2. places \subseteq Nat
    BY <1>3
  <2>3. PICK i : i = Min(places)
    OBVIOUS
  <2>4. i \in places /\ \A j \in places : i <= j
    BY <1>5, <2>2, <2>3, MinOfNaturals
  <2>5. i \in 1..N /\ first = samples[i] /\ samples[i].ts \in times
    BY <1>3, <2>1, <2>3, <2>4
  <2>6. first \in Sample /\ first # None
    BY <1>1, <2>5, SampleIsNotNone, ElementOfSeq
  <2>7. \A j \in 1..N : samples[j].ts \in times => i <= j
    BY <1>3, <2>4
  <2> QED BY <1>1, <2>5, <2>6, <2>7
<1> QED BY <1>4, <1>5

\* The same of the last.
LEMMA LastAtIs ==
  ASSUME NEW samples \in Seq(Sample), NEW times, NEW last, last = LastAt(samples, times)
  PROVE  IF \E i \in 1..Len(samples) : samples[i].ts \in times
         THEN \E i \in 1..Len(samples) :
                /\ last = samples[i] /\ last \in Sample /\ last # None /\ last.ts \in times
                /\ \A j \in 1..Len(samples) : samples[j].ts \in times => j <= i
         ELSE last = None
<1>1. PICK N \in Nat : N = Len(samples)
  OBVIOUS
<1>2. PICK places : places = Places(samples, times)
  OBVIOUS
<1>3. places = {i \in 1..N : samples[i].ts \in times}
  BY <1>1, <1>2 DEF Places
<1>4. CASE places = {}
  <2>1. last = None
    BY <1>2, <1>4 DEF LastAt
  <2> QED BY <1>1, <1>3, <1>4, <2>1
<1>5. CASE places # {}
  <2>1. last = samples[Max(places)]
    BY <1>2, <1>5 DEF LastAt
  <2>2. places \subseteq 0..N
    BY <1>3
  <2>3. PICK i : i = Max(places)
    OBVIOUS
  <2>4. i \in places /\ \A j \in places : j <= i
    BY <1>5, <2>2, <2>3, MaxOfBounded
  <2>5. i \in 1..N /\ last = samples[i] /\ samples[i].ts \in times
    BY <1>3, <2>1, <2>3, <2>4
  <2>6. last \in Sample /\ last # None
    BY <1>1, <2>5, SampleIsNotNone, ElementOfSeq
  <2>7. \A j \in 1..N : samples[j].ts \in times => j <= i
    BY <1>3, <2>4
  <2> QED BY <1>1, <2>5, <2>6, <2>7
<1> QED BY <1>4, <1>5

\* Samples in time order, each later than all before it.
Ordered(samples) == samples \in Seq(Sample) /\ InTimeOrder(samples)

\* What is known of samples in time order.
LEMMA OrderedSamples ==
  ASSUME NEW samples, Ordered(samples)
  PROVE  /\ samples \in Seq(Sample) /\ Len(samples) \in Nat /\ DOMAIN samples = 1..Len(samples)
         /\ \A i \in 1..Len(samples) : samples[i] \in Sample /\ samples[i].ts \in Nat /\ samples[i].value \in Nat
         /\ \A i, j \in 1..Len(samples) : i < j => samples[i].ts < samples[j].ts
         /\ \A i, j \in 1..Len(samples) : samples[i].ts <= samples[j].ts => i <= j
<1>1. samples \in Seq(Sample) /\ Len(samples) \in Nat /\ DOMAIN samples = 1..Len(samples)
  BY DEF Ordered
<1>2. \A i \in 1..Len(samples) : samples[i] \in Sample /\ samples[i].ts \in Nat /\ samples[i].value \in Nat
  BY <1>1, SampleIsNotNone, ElementOfSeq
<1>3. \A i, j \in 1..Len(samples) : i < j => samples[i].ts < samples[j].ts
  BY <1>1 DEF Ordered, InTimeOrder
<1>4. \A i, j \in 1..Len(samples) : samples[i].ts <= samples[j].ts => i <= j
  BY <1>1, <1>2, <1>3
<1> QED BY <1>1, <1>2, <1>3, <1>4

\* The neighbours of a time from which the curve is drawn.
LEMMA CurveNeighbours ==
  ASSUME NEW all, Ordered(all), NEW t \in Int,
         NEW i \in 1..Len(all), NEW j \in 1..Len(all), all[i].ts <= t, t <= all[j].ts,
         i = j \/ j = i + 1, all[i].ts = t \/ all[j].ts = t => i = j
  PROVE  /\ HasCurveAt(all, t)
         /\ CurveAt(all, t) = IF all[i].ts = all[j].ts THEN Scale * all[i].value
                              ELSE Between(all[i], all[j], t)
<1>1. PICK N \in Nat : N = Len(all)
  BY OrderedSamples
<1>2. /\ DOMAIN all = 1..N /\ i \in 1..N /\ j \in 1..N
      /\ \A k \in 1..N : all[k].ts \in Nat
      /\ \A k, l \in 1..N : k < l => all[k].ts < all[l].ts
  BY <1>1, OrderedSamples
<1>3. PICK S, T : S = {k \in 1..N : all[k].ts <= t} /\ T = {k \in 1..N : all[k].ts >= t}
  OBVIOUS
<1>4. i \in S /\ j \in T
  BY <1>2, <1>3
<1>5. \A k \in S : k <= i
  <2> SUFFICES ASSUME NEW k \in 1..N, k > i, all[k].ts <= t PROVE FALSE
    BY <1>2, <1>3
  <2>1. CASE k = j
    <3>1. all[j].ts \in Nat /\ all[j].ts = t
      BY <2>1, <1>2
    <3> QED BY <2>1, <3>1
  <2>2. CASE k # j
    <3>1. j < k
      BY <2>2, <1>2
    <3> QED BY <3>1, <1>2
  <2> QED BY <2>1, <2>2
<1>6. \A k \in T : j <= k
  <2> SUFFICES ASSUME NEW k \in 1..N, k < j, all[k].ts >= t PROVE FALSE
    BY <1>2, <1>3
  <2>1. CASE k = i
    <3>1. all[i].ts \in Nat /\ all[i].ts = t
      BY <2>1, <1>2
    <3> QED BY <2>1, <3>1
  <2>2. CASE k # i
    <3>1. k < i
      BY <2>2, <1>2
    <3> QED BY <3>1, <1>2
  <2> QED BY <2>1, <2>2
<1>7. Max(S) = i
  <2>1. S \subseteq 0..N /\ S # {}
    BY <1>3, <1>4
  <2>2. Max(S) \in S /\ \A y \in S : y <= Max(S)
    BY <2>1, MaxOfBounded
  <2>3. Max(S) \in 1..N
    BY <1>3, <2>2
  <2> QED BY <1>2, <1>4, <1>5, <2>2, <2>3
<1>8. Min(T) = j
  <2>1. T \subseteq Nat /\ T # {}
    BY <1>3, <1>4
  <2>2. Min(T) \in T /\ \A y \in T : Min(T) <= y
    BY <2>1, MinOfNaturals
  <2>3. Min(T) \in 1..N
    BY <1>3, <2>2
  <2> QED BY <1>2, <1>4, <1>6, <2>2, <2>3
<1>9. CurveAt(all, t) = IF all[Max(S)].ts = all[Min(T)].ts THEN Scale * all[Max(S)].value
                        ELSE Between(all[Max(S)], all[Min(T)], t)
  BY <1>2, <1>3 DEF CurveAt
<1>10. HasCurveAt(all, t)
  BY <1>2 DEF HasCurveAt
<1> QED BY <1>7, <1>8, <1>9, <1>10

\* The curve goes through every sample.
LEMMA CurveAtSample ==
  ASSUME NEW all, Ordered(all), NEW i \in 1..Len(all)
  PROVE  HasCurveAt(all, all[i].ts) /\ CurveAt(all, all[i].ts) = Scale * all[i].value
<1>1. all[i].ts \in Int /\ all[i].ts <= all[i].ts
  BY OrderedSamples
<1> QED BY <1>1, CurveNeighbours

\* Between two samples that follow one another it is the line through them.
LEMMA CurveBetween ==
  ASSUME NEW all, Ordered(all), NEW i \in 1..Len(all), i + 1 \in 1..Len(all),
         NEW t \in Int, all[i].ts < t, t < all[i + 1].ts
  PROVE  HasCurveAt(all, t) /\ CurveAt(all, t) = Between(all[i], all[i + 1], t)
<1>1. PICK j \in 1..Len(all) : j = i + 1
  OBVIOUS
<1>2. all[i].ts \in Nat /\ all[j].ts \in Nat /\ Len(all) \in Nat
  BY OrderedSamples
<1>3. all[i].ts <= t /\ t <= all[j].ts /\ all[i].ts # t /\ all[j].ts # t /\ all[i].ts # all[j].ts
  BY <1>1, <1>2
<1> QED BY <1>1, <1>3, CurveNeighbours

\* What divides without rest.
LEMMA ExactDivision ==
  ASSUME NEW s \in Nat, NEW d \in Nat \ {0}, s % d = 0
  PROVE  s \div d \in Int /\ (s \div d) * d = s
<1>1. d * (s \div d) = s
  BY SMTT(30)
<1> QED BY <1>1

\* between two points, as Between has it and as a value and a slope
IsLine(q, v, w, l, r, t) ==
  q * (v * (r - t) + w * (t - l)) = (q * (r - l)) * v + (q * (w - v)) * (t - l)
\* a slope times its distance is the rise
Multiplies(q, v, w, d) == (q * (w - v)) * d = (q * d) * w - (q * d) * v

\* The line of Between rises by the same every tick.
LEMMA LineThroughTwo ==
  ASSUME NEW q \in Int, NEW v \in Int, NEW w \in Int, NEW l \in Int, NEW r \in Int, NEW t \in Int
  PROVE  IsLine(q, v, w, l, r, t)
  BY DEF IsLine

\* So much it has risen in the end.
LEMMA RiseOfLine ==
  ASSUME NEW q \in Int, NEW v \in Int, NEW w \in Int, NEW d \in Int
  PROVE  Multiplies(q, v, w, d)
  BY DEF Multiplies

\* Between neighbouring samples the curve is straight, when their distance divides
\* the scale.
LEMMA CurveIsStraight ==
  ASSUME NEW all, Ordered(all), NEW i \in 1..Len(all), i + 1 \in 1..Len(all),
         all[i + 1].ts - all[i].ts <= 2 * BucketLen - 1
  PROVE  \E k \in Int : \A t \in all[i].ts..all[i + 1].ts :
           CurveAt(all, t) = Scale * all[i].value + k * (t - all[i].ts)
<1>1. PICK j \in 1..Len(all) : j = i + 1
  OBVIOUS
<1>2. PICK l \in Nat, r \in Nat, v \in Nat, w \in Nat :
        l = all[i].ts /\ r = all[j].ts /\ v = all[i].value /\ w = all[j].value
  BY OrderedSamples
<1>3. l < r
  BY <1>1, <1>2, OrderedSamples
<1>4. PICK d \in Nat \ {0} : d = r - l
  BY <1>2, <1>3
<1>5. PICK q \in Int : q = Scale \div d /\ q * d = Scale
  <2>1. Scale % d = 0 /\ Scale \in Nat
    BY <1>1, <1>2, <1>4, IntervalsAssumption
  <2> QED BY <2>1, ExactDivision
<1>6. PICK k \in Int : k = q * (w - v)
  <2>1. PICK x \in Int : x = w - v
    OBVIOUS
  <2>2. q * x \in Int
    OBVIOUS
  <2> QED BY <2>1, <2>2
<1> l \in Int /\ r \in Int /\ v \in Int /\ w \in Int /\ d \in Int /\ Scale \in Int
  BY <1>4, IntervalsAssumption
<1>7. ASSUME NEW t \in all[i].ts..all[j].ts
      PROVE  CurveAt(all, t) = Scale * all[i].value + k * (t - all[i].ts)
  <2>1. t \in Int /\ l <= t /\ t <= r
    BY <1>2
  <2>2. q * (v * (r - t) + w * (t - l)) = Scale * v + k * (t - l)
    <3>1. IsLine(q, v, w, l, r, t)
      BY <2>1, LineThroughTwo
    <3>2. q * (v * (r - t) + w * (t - l)) = (q * (r - l)) * v + (q * (w - v)) * (t - l)
      BY <3>1 DEF IsLine
    <3> QED BY <1>4, <1>5, <1>6, <3>2
  <2>3. CASE t = l
    <3>1. CurveAt(all, t) = Scale * v
      BY <1>2, <2>3, CurveAtSample
    <3>2. k * (t - l) = 0
      <4>1. t - l = 0
        BY <2>1, <2>3
      <4>2. k * 0 = 0
        OBVIOUS
      <4> QED BY <4>1, <4>2
    <3>3. PICK x \in Int : x = Scale * v
      BY IntervalsAssumption
    <3> QED BY <1>2, <3>1, <3>2, <3>3
  <2>4. CASE t = r
    <3>1. CurveAt(all, t) = Scale * w
      BY <1>2, <2>4, CurveAtSample
    <3>2. k * (t - l) = Scale * w - Scale * v
      <4>1. Multiplies(q, v, w, d)
        BY RiseOfLine
      <4>2. (q * (w - v)) * d = (q * d) * w - (q * d) * v
        BY <4>1 DEF Multiplies
      <4> QED BY <1>4, <1>5, <1>6, <2>4, <4>2
    <3>3. PICK x \in Int, y \in Int : x = Scale * w /\ y = Scale * v
      OBVIOUS
    <3>4. x = y + k * (t - l)
      BY <3>2, <3>3
    <3> QED BY <1>2, <3>1, <3>3, <3>4
  <2>5. CASE l < t /\ t < r
    <3>1. CurveAt(all, t) = Between(all[i], all[j], t)
      BY <1>1, <1>2, <2>1, <2>5, CurveBetween
    <3>2. CurveAt(all, t) = q * (v * (r - t) + w * (t - l))
      BY <1>2, <1>4, <1>5, <3>1 DEF Between
    <3> QED BY <1>2, <2>2, <3>2
  <2> QED BY <2>1, <2>3, <2>4, <2>5
<1> QED BY <1>1, <1>7

---------------------------------------------------------------------------
(* Boundaries                                                              *)

\* The last samples of all, without the first n.
Suffix(samples, all, n) ==
  /\ n \in Nat /\ Len(all) = n + Len(samples)
  /\ \A i \in 1..Len(samples) : samples[i] = all[n + i]

\* The samples of a suffix are those of the whole, some places on.
LEMMA SuffixOfOrdered ==
  ASSUME NEW all, Ordered(all), NEW samples \in Seq(Sample), NEW n, Suffix(samples, all, n)
  PROVE  /\ Ordered(samples) /\ n \in Nat /\ Len(samples) \in Nat /\ Len(all) = n + Len(samples)
         /\ \A i \in 1..Len(samples) : n + i \in 1..Len(all) /\ samples[i] = all[n + i]
         /\ \A j \in 1..Len(all) : j > n => j - n \in 1..Len(samples) /\ samples[j - n] = all[j]
<1>1. PICK N \in Nat, L \in Nat : N = Len(all) /\ L = Len(samples)
  BY OrderedSamples
<1>2. n \in Nat /\ N = n + L /\ \A i \in 1..L : samples[i] = all[n + i]
  BY <1>1 DEF Suffix
<1>3. \A i, j \in 1..N : i < j => all[i].ts < all[j].ts
  BY <1>1, OrderedSamples
<1>4. \A i \in 1..L : n + i \in 1..N
  BY <1>1, <1>2
<1>5. ASSUME NEW i \in 1..L, NEW j \in 1..L, i < j PROVE samples[i].ts < samples[j].ts
  <2>1. n + i < n + j
    BY <1>2, <1>5
  <2> QED BY <1>2, <1>3, <1>4, <2>1
<1>6. Ordered(samples)
  <2>1. DOMAIN samples = 1..L
    BY <1>1
  <2> QED BY <1>5, <2>1 DEF Ordered, InTimeOrder
<1>7. ASSUME NEW j \in 1..N, j > n PROVE j - n \in 1..L /\ samples[j - n] = all[j]
  <2>1. PICK i \in 1..L : i = j - n
    BY <1>2, <1>7
  <2>2. n + i = j
    BY <1>2, <2>1
  <2> QED BY <1>2, <2>1, <2>2
<1> QED BY <1>1, <1>2, <1>4, <1>6, <1>7

\* A time at a sample, or between two of which each is in the bucket next to it.
AtSample(samples, b, i) == i \in 1..Len(samples) /\ samples[i].ts = b
InGap(samples, b, i) ==
  /\ i \in 1..Len(samples) /\ i + 1 \in 1..Len(samples)
  /\ b - BucketLen < samples[i].ts /\ samples[i].ts < b
  /\ b < samples[i + 1].ts /\ samples[i + 1].ts <= b + BucketLen

\* What the interpolation finds.
LEMMA BoundaryCases ==
  ASSUME NEW samples, Ordered(samples), NEW b \in Int
  PROVE  \/ \E i : AtSample(samples, b, i) /\ Boundary(samples, b) = Scale * samples[i].value
         \/ /\ ~\E i : AtSample(samples, b, i)
            /\ \E i : InGap(samples, b, i)
                        /\ Boundary(samples, b) = Between(samples[i], samples[i + 1], b)
         \/ /\ Boundary(samples, b) = None
            /\ ~\E i : AtSample(samples, b, i)
            /\ \/ ~\E i \in 1..Len(samples) : b - BucketLen < samples[i].ts /\ samples[i].ts < b
               \/ ~\E i \in 1..Len(samples) : b < samples[i].ts /\ samples[i].ts <= b + BucketLen
<1>1. PICK B \in Nat \ {0} : B = BucketLen
  BY IntervalsAssumption
<1>2. PICK N \in Nat : N = Len(samples)
  BY OrderedSamples
<1>3. /\ samples \in Seq(Sample)
      /\ \A i \in 1..N : samples[i].ts \in Nat
      /\ \A i, j \in 1..N : i < j => samples[i].ts < samples[j].ts
  BY <1>2, OrderedSamples
<1>4. PICK before, after : before = (b - BucketLen + 1)..(b - 1) /\ after = (b + 1)..(b + BucketLen)
  OBVIOUS
<1>5. PICK exact, left, right :
        /\ exact = FirstAt(samples, {b})
        /\ left = LastAt(samples, before) /\ right = FirstAt(samples, after)
  OBVIOUS
<1>6. Boundary(samples, b) = IF exact # None THEN Scale * exact.value
                             ELSE IF left = None \/ right = None THEN None
                             ELSE Between(left, right, b)
  BY <1>4, <1>5 DEF Boundary
<1>7. CASE \E i \in 1..N : samples[i].ts \in {b}
  <2>1. PICK i \in 1..N : exact = samples[i] /\ exact # None /\ exact.ts \in {b}
    BY <1>2, <1>3, <1>5, <1>7, FirstAtIs
  <2>2. AtSample(samples, b, i) /\ Boundary(samples, b) = Scale * samples[i].value
    BY <1>2, <1>6, <2>1 DEF AtSample
  <2> QED BY <2>2
<1>8. CASE ~\E i \in 1..N : samples[i].ts \in {b}
  <2>1. exact = None
    BY <1>2, <1>3, <1>5, <1>8, FirstAtIs
  <2>2. \A i \in 1..N : samples[i].ts # b
    BY <1>8
  <2>3. ~\E i : AtSample(samples, b, i)
    BY <1>2, <2>2 DEF AtSample
  <2>4. \A i \in 1..N : samples[i].ts \in before
                          <=> b - BucketLen < samples[i].ts /\ samples[i].ts < b
    BY <1>1, <1>3, <1>4
  <2>5. \A i \in 1..N : samples[i].ts \in after
                          <=> b < samples[i].ts /\ samples[i].ts <= b + BucketLen
    BY <1>1, <1>3, <1>4
  <2>6. CASE ~\E i \in 1..N : samples[i].ts \in before
    <3>1. left = None
      BY <1>2, <1>3, <1>5, <2>6, LastAtIs
    <3> QED BY <1>2, <1>6, <2>1, <2>3, <2>4, <2>6, <3>1
  <2>7. CASE ~\E i \in 1..N : samples[i].ts \in after
    <3>1. right = None
      BY <1>2, <1>3, <1>5, <2>7, FirstAtIs
    <3> QED BY <1>2, <1>6, <2>1, <2>3, <2>5, <2>7, <3>1
  <2>8. CASE /\ \E i \in 1..N : samples[i].ts \in before
             /\ \E i \in 1..N : samples[i].ts \in after
    <3>1. PICK i \in 1..N :
            /\ left = samples[i] /\ left # None /\ left.ts \in before
            /\ \A j \in 1..N : samples[j].ts \in before => j <= i
      <4>1. \E i \in 1..Len(samples) :
              /\ left = samples[i] /\ left \in Sample /\ left # None
              /\ left.ts \in before
              /\ \A j \in 1..Len(samples) : samples[j].ts \in before => j <= i
        <5>1. \E i \in 1..Len(samples) : samples[i].ts \in before
          BY <1>2, <2>8
        <5> QED BY <1>3, <1>5, <5>1, LastAtIs
      <4> QED BY <1>2, <4>1
    <3>2. PICK j \in 1..N :
            /\ right = samples[j] /\ right # None /\ right.ts \in after
            /\ \A k \in 1..N : samples[k].ts \in after => j <= k
      <4>1. \E j \in 1..Len(samples) :
              /\ right = samples[j] /\ right \in Sample /\ right # None
              /\ right.ts \in after
              /\ \A k \in 1..Len(samples) : samples[k].ts \in after => j <= k
        <5>1. \E k \in 1..Len(samples) : samples[k].ts \in after
          BY <1>2, <2>8
        <5> QED BY <1>3, <1>5, <5>1, FirstAtIs
      <4> QED BY <1>2, <4>1
    <3>3. /\ b - BucketLen < samples[i].ts /\ samples[i].ts < b
          /\ b < samples[j].ts /\ samples[j].ts <= b + BucketLen
      BY <2>4, <2>5, <3>1, <3>2
    <3>4. i < j
      <4> SUFFICES ASSUME j <= i PROVE FALSE
        OBVIOUS
      <4>1. samples[j].ts <= samples[i].ts
        BY <1>3
      <4>2. samples[i].ts \in Nat /\ samples[j].ts \in Nat
        BY <1>3
      <4> QED BY <3>3, <4>1, <4>2
    <3>5. j = i + 1
      <4> SUFFICES ASSUME j # i + 1 PROVE FALSE
        OBVIOUS
      <4>1. PICK k \in 1..N : k = i + 1 /\ i < k /\ k < j
        BY <3>4
      <4>2. /\ samples[i].ts \in Nat /\ samples[j].ts \in Nat /\ samples[k].ts \in Nat
            /\ samples[i].ts < samples[k].ts /\ samples[k].ts < samples[j].ts
        BY <1>3, <4>1
      <4>3. samples[k].ts # b
        BY <2>2
      <4>4. CASE samples[k].ts < b
        <5>1. samples[k].ts \in before
          BY <1>1, <3>3, <4>2, <4>4, <2>4
        <5> QED BY <3>1, <4>1, <5>1
      <4>5. CASE b < samples[k].ts
        <5>1. samples[k].ts \in after
          BY <1>1, <3>3, <4>2, <4>5, <2>5
        <5> QED BY <3>2, <4>1, <5>1
      <4> QED BY <4>2, <4>3, <4>4, <4>5
    <3>6. InGap(samples, b, i)
      BY <1>2, <3>3, <3>5 DEF InGap
    <3>7. Boundary(samples, b) = Between(samples[i], samples[i + 1], b)
      BY <1>6, <2>1, <3>1, <3>2, <3>5
    <3> QED BY <2>3, <3>6, <3>7
  <2> QED BY <2>6, <2>7, <2>8
<1> QED BY <1>7, <1>8

\* What is interpolated of the buffer is on the curve through all samples: the
\* buffer lacks none between those it is interpolated from.
LEMMA BoundaryIsOfCurve ==
  ASSUME NEW all, Ordered(all), NEW samples \in Seq(Sample), NEW n, Suffix(samples, all, n),
         NEW b \in Int, Boundary(samples, b) # None
  PROVE  /\ \E i : AtSample(samples, b, i) \/ InGap(samples, b, i)
         /\ HasCurveAt(all, b) /\ Boundary(samples, b) = CurveAt(all, b)
<1>1. PICK N \in Nat, L \in Nat : N = Len(all) /\ L = Len(samples)
  BY OrderedSamples
<1>2. /\ Ordered(samples) /\ n \in Nat
      /\ \A i \in 1..L : n + i \in 1..N /\ samples[i] = all[n + i]
  BY <1>1, SuffixOfOrdered
<1>3. CASE \E i : AtSample(samples, b, i) /\ Boundary(samples, b) = Scale * samples[i].value
  <2>1. PICK i : AtSample(samples, b, i) /\ Boundary(samples, b) = Scale * samples[i].value
    BY <1>3
  <2>2. i \in 1..L /\ samples[i].ts = b
    BY <1>1, <2>1 DEF AtSample
  <2>3. PICK j \in 1..N : j = n + i /\ all[j].ts = b /\ Scale * all[j].value = Boundary(samples, b)
    BY <1>2, <2>1, <2>2
  <2>4. HasCurveAt(all, all[j].ts) /\ CurveAt(all, all[j].ts) = Scale * all[j].value
    BY <1>1, <2>3, CurveAtSample
  <2> QED BY <2>1, <2>3, <2>4
<1>4. CASE \E i : InGap(samples, b, i) /\ Boundary(samples, b) = Between(samples[i], samples[i + 1], b)
  <2>1. PICK i : InGap(samples, b, i) /\ Boundary(samples, b) = Between(samples[i], samples[i + 1], b)
    BY <1>4
  <2>2. i \in 1..L /\ i + 1 \in 1..L /\ samples[i].ts < b /\ b < samples[i + 1].ts
    BY <1>1, <2>1 DEF InGap
  <2>3. PICK j \in 1..N : j = n + i
    BY <1>2, <2>2
  <2>4. j + 1 = n + (i + 1)
    BY <1>2, <2>2, <2>3
  <2>5. j + 1 \in 1..N /\ samples[i] = all[j] /\ samples[i + 1] = all[j + 1]
    BY <1>2, <2>2, <2>3, <2>4
  <2>6. HasCurveAt(all, b) /\ CurveAt(all, b) = Between(all[j], all[j + 1], b)
    BY <1>1, <2>2, <2>5, CurveBetween
  <2> QED BY <2>1, <2>5, <2>6
<1> QED BY <1>2, <1>3, <1>4, BoundaryCases

\* With samples near a boundary, on both sides, there is a value of it.
LEMMA BoundaryIsThere ==
  ASSUME NEW samples, Ordered(samples), NEW b \in Int,
         NEW i \in 1..Len(samples), NEW j \in 1..Len(samples),
         b - BucketLen < samples[i].ts, samples[i].ts <= b,
         b <= samples[j].ts, samples[j].ts <= b + BucketLen
  PROVE  Boundary(samples, b) # None /\ Boundary(samples, b) \in Int
<1>1. PICK N \in Nat : N = Len(samples)
  BY OrderedSamples
<1>2. \A k \in 1..N : samples[k].ts \in Nat /\ samples[k].value \in Nat
  BY <1>1, OrderedSamples
<1>3. Scale \in Nat /\ BucketLen \in Nat \ {0} /\ None \notin Int
  BY IntervalsAssumption, CollectorAssumption
<1>4. SUFFICES Boundary(samples, b) \in Int
  BY <1>3
<1>5. CASE \E k : AtSample(samples, b, k) /\ Boundary(samples, b) = Scale * samples[k].value
  <2>1. PICK k : AtSample(samples, b, k) /\ Boundary(samples, b) = Scale * samples[k].value
    BY <1>5
  <2>2. PICK v \in Nat : v = samples[k].value
    BY <1>1, <1>2, <2>1 DEF AtSample
  <2> QED BY <1>3, <2>1, <2>2
<1>6. CASE \E k : InGap(samples, b, k) /\ Boundary(samples, b) = Between(samples[k], samples[k + 1], b)
  <2>1. PICK k : InGap(samples, b, k) /\ Boundary(samples, b) = Between(samples[k], samples[k + 1], b)
    BY <1>6
  <2>2. k \in 1..N /\ k + 1 \in 1..N /\ samples[k].ts < b /\ b < samples[k + 1].ts
    BY <1>1, <2>1 DEF InGap
  <2>3. PICK m \in 1..N : m = k + 1
    BY <2>2
  <2>4. PICK l \in Nat, r \in Nat, v \in Nat, w \in Nat :
          l = samples[k].ts /\ r = samples[m].ts /\ v = samples[k].value /\ w = samples[m].value
    BY <1>2, <2>2
  <2>5. l < r
    BY <2>2, <2>3, <2>4
  <2>6. PICK q \in Int : q = Scale \div (r - l)
    <3>1. r - l \in Nat \ {0}
      BY <2>5
    <3> QED BY <1>3, <3>1
  <2>7. Boundary(samples, b) = q * (v * (r - b) + w * (b - l))
    BY <2>1, <2>3, <2>4, <2>6 DEF Between
  <2>8. PICK x \in Int, y \in Int : x = v * (r - b) /\ y = w * (b - l)
    OBVIOUS
  <2> QED BY <2>7, <2>8
<1>7. CASE /\ ~\E k : AtSample(samples, b, k)
           /\ \/ ~\E k \in 1..N : b - BucketLen < samples[k].ts /\ samples[k].ts < b
              \/ ~\E k \in 1..N : b < samples[k].ts /\ samples[k].ts <= b + BucketLen
  <2>1. samples[i].ts # b /\ samples[j].ts # b
    BY <1>7 DEF AtSample
  <2>2. samples[i].ts \in Nat /\ samples[j].ts \in Nat
    BY <1>1, <1>2
  <2>3. samples[i].ts < b /\ b < samples[j].ts
    BY <2>1, <2>2
  <2> QED BY <1>1, <1>7, <2>3
<1> QED BY <1>1, <1>5, <1>6, <1>7, BoundaryCases

\* A function of the first naturals is a sequence.
LEMMA FunctionIsSequence ==
  ASSUME NEW n \in Nat, NEW S, NEW f \in [1..n -> S]
  PROVE  f \in Seq(S) /\ Len(f) = n
  OBVIOUS

\* what is meant by the sums of the first terms
SumsUp(terms, sum, n) == sum[0] = 0 /\ \A i \in 1..n : sum[i] = sum[i - 1] + terms[i]

\* The sums are what their definition says.
LEMMA SumsWork ==
  ASSUME NEW terms, NEW N \in Nat, Len(terms) = N, NEW sum, sum = Sums(terms)
  PROVE  SumsUp(terms, sum, N) /\ Total(terms) = sum[N]
<1> DEFINE Works(g, k) == /\ g = [n \in 0..k |-> g[n]] /\ g[0] = 0
                          /\ \A n \in 1..k : g[n] = g[n - 1] + terms[n]
           Bad == {k \in Nat : ~\E g : Works(g, k)}
<1>1. Bad = {}
  <2> SUFFICES ASSUME Bad # {} PROVE FALSE
    OBVIOUS
  <2>1. PICK k \in Bad : \A m \in Bad : k <= m
    <3>1. Bad \subseteq Nat
      OBVIOUS
    <3> HIDE DEF Bad
    <3> QED BY <3>1, NatHasLeast
  <2>2. k \in Nat /\ ~\E g : Works(g, k)
    OBVIOUS
  <2>3. CASE k = 0
    <3>1. Works([n \in 0..0 |-> 0], 0)
      OBVIOUS
    <3> QED BY <2>2, <2>3, <3>1
  <2>4. CASE k # 0
    <3>1. k - 1 \in Nat /\ k - 1 \notin Bad
      <4> HIDE DEF Bad
      <4> QED BY <2>1, <2>2, <2>4
    <3>2. PICK g : Works(g, k - 1)
      BY <3>1
    <3>3. PICK h : h = [n \in 0..k |-> IF n = k THEN g[k - 1] + terms[k] ELSE g[n]]
      OBVIOUS
    <3>4. h = [n \in 0..k |-> h[n]] /\ h[0] = 0
      BY <2>2, <2>4, <3>2, <3>3
    <3>5. ASSUME NEW n \in 1..k PROVE h[n] = h[n - 1] + terms[n]
      <4>1. n - 1 \in 0..(k - 1) /\ h[n - 1] = g[n - 1]
        BY <2>2, <3>3
      <4>2. CASE n = k
        BY <3>3, <4>1, <4>2
      <4>3. CASE n # k
        <5>1. n \in 1..(k - 1) /\ h[n] = g[n]
          BY <2>2, <3>3, <4>3
        <5>2. g[n] = g[n - 1] + terms[n]
          BY <3>2, <5>1
        <5> QED BY <4>1, <5>1, <5>2
      <4> QED BY <4>2, <4>3
    <3>6. Works(h, k)
      BY <3>4, <3>5
    <3> QED BY <2>2, <3>6
  <2> QED BY <2>3, <2>4
<1>2. PICK g : Works(g, N)
  BY <1>1
<1>3. g = [n \in 0..N |-> IF n = 0 THEN 0 ELSE g[n - 1] + terms[n]]
  <2>1. ASSUME NEW n \in 0..N PROVE g[n] = IF n = 0 THEN 0 ELSE g[n - 1] + terms[n]
    <3>1. CASE n = 0
      BY <1>2, <3>1
    <3>2. CASE n # 0
      <4>1. n \in 1..N
        BY <3>2
      <4> QED BY <1>2, <3>2, <4>1
    <3> QED BY <3>1, <3>2
  <2> QED BY <1>2, <2>1
<1>4. sum = [n \in 0..N |-> IF n = 0 THEN 0 ELSE sum[n - 1] + terms[n]]
  BY <1>3 DEF Sums
<1> QED BY <1>4 DEF Total, SumsUp

---------------------------------------------------------------------------
(* The area under the curve                                                *)

\* u adds up twice the area under f, step by step.
AddsUp(u, f, n) == \A x \in 1..n : u[x] = u[x - 1] + (f[x - 1] + f[x])

\* From p to q the function rises evenly.
Even(f, p, q, k) == f[p] \in Int /\ \A x \in p..q : f[x] = f[p] + k * (x - p)

\* a trapezoid and the tick after it are a trapezoid
TrapezoidGrows(v, k, y) ==
  (2 * v + k * y) * y + ((v + k * y) + (v + k * (y + 1))) = (2 * v + k * (y + 1)) * (y + 1)

\* A trapezoid and the next tick.
LEMMA NextTrapezoid == ASSUME NEW v \in Int, NEW k \in Int, NEW y \in Int PROVE TrapezoidGrows(v, k, y)
  BY DEF TrapezoidGrows

\* Where the function rises evenly, the ticks add up to the trapezoid.
LEMMA AreaOfTrapezoid ==
  ASSUME NEW n \in Nat, NEW f, NEW u, AddsUp(u, f, n),
         NEW p \in 0..n, NEW q \in 0..n, p <= q, NEW k \in Int, Even(f, p, q, k), u[p] \in Int
  PROVE  f[q] \in Int /\ u[q] = u[p] + (f[p] + f[q]) * (q - p) /\ u[q] \in Int
<1>1. PICK v \in Int, a \in Int : v = f[p] /\ a = u[p]
  BY DEF Even
<1>2. \A x \in p..q : f[x] = v + k * (x - p)
  BY <1>1 DEF Even
<1> DEFINE Good(y) == u[p + y] = a + (2 * v + k * y) * y
           Bad == {y \in 0..(q - p) : ~Good(y)}
<1>3. Good(0)
  BY <1>1
<1>4. ASSUME NEW y \in 0..(q - p - 1), Good(y) PROVE Good(y + 1)
  <2>1. PICK x \in Nat : x = p + y + 1 /\ x \in 1..n /\ x - 1 = p + y /\ x \in p..q /\ x - 1 \in p..q
    OBVIOUS
  <2>2. u[x] = u[x - 1] + (f[x - 1] + f[x])
    BY <2>1 DEF AddsUp
  <2>3. f[x - 1] = v + k * y /\ f[x] = v + k * (y + 1)
    <3>1. (x - 1) - p = y /\ x - p = y + 1
      BY <2>1
    <3> QED BY <1>2, <2>1, <3>1
  <2>4. TrapezoidGrows(v, k, y)
    BY NextTrapezoid
  <2>5. PICK c \in Int, d \in Int, e \in Int, g \in Int :
          /\ c = (2 * v + k * y) * y /\ d = v + k * y /\ e = v + k * (y + 1)
          /\ g = (2 * v + k * (y + 1)) * (y + 1)
    OBVIOUS
  <2>6. c + (d + e) = g
    BY <2>4, <2>5 DEF TrapezoidGrows
  <2>7. u[x] = a + g
    BY <1>4, <2>1, <2>2, <2>3, <2>5, <2>6
  <2>8. p + (y + 1) = x
    BY <2>1
  <2> QED BY <2>5, <2>7, <2>8
<1>5. Bad = {}
  <2> SUFFICES ASSUME Bad # {} PROVE FALSE
    OBVIOUS
  <2>1. PICK y \in Bad : \A z \in Bad : y <= z
    <3>1. Bad \subseteq Nat
      OBVIOUS
    <3> HIDE DEF Bad
    <3> QED BY <3>1, NatHasLeast
  <2>2. y \in 0..(q - p) /\ ~Good(y)
    OBVIOUS
  <2>3. y # 0
    BY <1>3, <2>2
  <2>4. PICK z \in 0..(q - p - 1) : y = z + 1
    BY <2>2, <2>3
  <2>5. z \notin Bad
    <3> HIDE DEF Bad
    <3> QED BY <2>1, <2>4
  <2>6. Good(z)
    <3>1. z \in 0..(q - p)
      OBVIOUS
    <3> HIDE DEF Good
    <3> QED BY <2>5, <3>1
  <2>7. Good(z + 1)
    BY <1>4, <2>6
  <2> QED BY <2>2, <2>4, <2>7
<1>6. PICK y \in Nat : y = q - p
  OBVIOUS
<1>7. Good(y)
  BY <1>5, <1>6
<1>8. u[q] = a + (2 * v + k * y) * y /\ f[q] = v + k * y
  <2>1. p + y = q /\ q \in p..q
    BY <1>6
  <2> QED BY <1>2, <1>6, <1>7, <2>1
<1>9. PICK w \in Int : w = k * y
  BY <1>6
<1>10. PICK z \in Int : z = (v + (v + w)) * y
  BY <1>6, <1>9
<1>11. (2 * v + w) * y = z
  BY <1>10
<1> QED BY <1>1, <1>6, <1>8, <1>9, <1>10, <1>11

---------------------------------------------------------------------------
(* The points of a bucket                                                  *)

\* When no sample is between two times, neighbours are on both sides of them.
LEMMA NeighboursSpan ==
  ASSUME NEW samples, Ordered(samples), NEW a \in Int, NEW c \in Int, a < c,
         NEW i \in 1..Len(samples), NEW j \in 1..Len(samples),
         samples[i].ts <= a, c <= samples[j].ts,
         \A k \in 1..Len(samples) : ~(a < samples[k].ts /\ samples[k].ts < c)
  PROVE  \E g \in 1..Len(samples) :
           /\ g + 1 \in 1..Len(samples) /\ samples[g].ts <= a /\ c <= samples[g + 1].ts
           /\ samples[i].ts <= samples[g].ts /\ samples[g + 1].ts <= samples[j].ts
<1>1. PICK N \in Nat : N = Len(samples)
  BY OrderedSamples
<1>2. /\ i \in 1..N /\ j \in 1..N
      /\ \A k \in 1..N : samples[k].ts \in Nat
      /\ \A k, l \in 1..N : k < l => samples[k].ts < samples[l].ts
  BY <1>1, OrderedSamples
<1>3. PICK S : S = {k \in 1..N : samples[k].ts <= a}
  OBVIOUS
<1>4. S \subseteq 0..N /\ S # {}
  BY <1>2, <1>3
<1>5. PICK g : g = Max(S)
  OBVIOUS
<1>6. g \in S /\ \A k \in S : k <= g
  BY <1>4, <1>5, MaxOfBounded
<1>7. g \in 1..N /\ samples[g].ts <= a /\ i <= g
  BY <1>2, <1>3, <1>6
<1>8. g < j
  <2> SUFFICES ASSUME j <= g PROVE FALSE
    BY <1>2, <1>7
  <2>1. samples[j].ts <= samples[g].ts
    BY <1>2, <1>7
  <2>2. samples[j].ts \in Nat /\ samples[g].ts \in Nat
    BY <1>2, <1>7
  <2> QED BY <1>7, <2>1, <2>2
<1>9. PICK h \in 1..N : h = g + 1
  BY <1>2, <1>7, <1>8
<1>10. samples[h].ts \in Nat /\ a < samples[h].ts
  <2>1. h \notin S
    BY <1>6, <1>7, <1>9
  <2> QED BY <1>2, <1>3, <2>1
<1>11. c <= samples[h].ts
  BY <1>1, <1>10
<1>12. samples[i].ts <= samples[g].ts
  BY <1>2, <1>7
<1>13. samples[h].ts <= samples[j].ts
  <2>1. h <= j
    BY <1>2, <1>7, <1>8, <1>9
  <2> QED BY <1>2, <2>1
<1> QED BY <1>1, <1>7, <1>9, <1>11, <1>12, <1>13

\* The curve is straight from one time to another.
Straight(all, a, c) ==
  /\ CurveAt(all, a) \in Int
  /\ \E k \in Int : \A t \in a..c : CurveAt(all, t) = CurveAt(all, a) + k * (t - a)

\* a rise to one time, and on to another
Apart(k, t, a, l) == k * (t - l) = k * (a - l) + k * (t - a)

\* A rise is the sum of its parts.
LEMMA TimesApart ==
  ASSUME NEW k \in Int, NEW t \in Int, NEW a \in Int, NEW l \in Int PROVE Apart(k, t, a, l)
  BY DEF Apart

\* The curve is straight between two times with no sample between them and
\* samples around them that are less than two buckets apart.
LEMMA SegmentIsStraight ==
  ASSUME NEW all, Ordered(all), NEW samples \in Seq(Sample), NEW n, Suffix(samples, all, n),
         NEW a \in Int, NEW c \in Int, a < c,
         NEW i \in 1..Len(samples), NEW j \in 1..Len(samples),
         samples[i].ts <= a, c <= samples[j].ts,
         \A k \in 1..Len(samples) : ~(a < samples[k].ts /\ samples[k].ts < c),
         samples[j].ts - samples[i].ts <= 2 * BucketLen - 1
  PROVE  Straight(all, a, c)
<1>1. PICK N \in Nat, L \in Nat : N = Len(all) /\ L = Len(samples)
  BY OrderedSamples
<1>2. /\ Ordered(samples) /\ n \in Nat
      /\ \A k \in 1..L : n + k \in 1..N /\ samples[k] = all[n + k]
      /\ \A k \in 1..L : samples[k].ts \in Nat
      /\ \A k \in 1..N : all[k].ts \in Nat /\ all[k].value \in Nat
      /\ i \in 1..L /\ j \in 1..L
  <2>1. /\ Ordered(samples) /\ n \in Nat
        /\ \A k \in 1..L : n + k \in 1..N /\ samples[k] = all[n + k]
    <3>1. Ordered(samples) /\ n \in Nat
      BY SuffixOfOrdered
    <3>2. \A k \in 1..Len(samples) : n + k \in 1..Len(all) /\ samples[k] = all[n + k]
      BY SuffixOfOrdered
    <3> QED BY <1>1, <3>1, <3>2
  <2>2. \A k \in 1..L : samples[k].ts \in Nat
    BY <1>1, <2>1, OrderedSamples
  <2>3. \A k \in 1..N : all[k].ts \in Nat /\ all[k].value \in Nat
    BY <1>1, OrderedSamples
  <2> QED BY <1>1, <2>1, <2>2, <2>3
<1>3. PICK g \in 1..L :
        /\ g + 1 \in 1..L /\ samples[g].ts <= a /\ c <= samples[g + 1].ts
        /\ samples[i].ts <= samples[g].ts /\ samples[g + 1].ts <= samples[j].ts
  BY <1>1, <1>2, NeighboursSpan
<1>4. PICK h \in 1..N, m \in 1..N : h = n + g /\ m = n + (g + 1)
  BY <1>2, <1>3
<1>5. h + 1 = m /\ samples[g] = all[h] /\ samples[g + 1] = all[m]
  BY <1>2, <1>3, <1>4
<1>6. PICK l \in Nat, r \in Nat : l = all[h].ts /\ r = all[m].ts
  BY <1>2
<1>7. l <= a /\ c <= r /\ r - l <= 2 * BucketLen - 1
  <2>1. PICK x \in Nat, y \in Nat : x = samples[i].ts /\ y = samples[j].ts
    BY <1>2
  <2>2. x <= l /\ r <= y /\ y - x <= 2 * BucketLen - 1
    BY <1>3, <1>5, <1>6, <2>1
  <2>3. l <= a /\ c <= r
    BY <1>3, <1>5, <1>6
  <2> QED BY <2>2, <2>3, IntervalsAssumption
<1>8. PICK k \in Int : \A t \in all[h].ts..all[h + 1].ts :
                         CurveAt(all, t) = Scale * all[h].value + k * (t - all[h].ts)
  BY <1>1, <1>5, <1>6, <1>7, CurveIsStraight
<1>9. PICK s \in Int : s = Scale * all[h].value
  <2>1. PICK v \in Nat : v = all[h].value
    BY <1>2
  <2>2. Scale * v \in Int
    BY IntervalsAssumption
  <2> QED BY <2>1, <2>2
<1>10. \A t \in l..r : CurveAt(all, t) = s + k * (t - l)
  BY <1>5, <1>6, <1>8, <1>9
<1>11. CurveAt(all, a) = s + k * (a - l)
  BY <1>7, <1>10
<1>12. CurveAt(all, a) \in Int
  <2>1. PICK x \in Int : x = k * (a - l)
    OBVIOUS
  <2> QED BY <1>11, <2>1
<1>13. ASSUME NEW t \in a..c PROVE CurveAt(all, t) = CurveAt(all, a) + k * (t - a)
  <2>1. CurveAt(all, t) = s + k * (t - l)
    <3>1. t \in l..r
      BY <1>7
    <3> QED BY <1>10, <3>1
  <2>2. Apart(k, t, a, l)
    BY TimesApart
  <2>3. PICK x \in Int, y \in Int, z \in Int : x = k * (t - l) /\ y = k * (a - l) /\ z = k * (t - a)
    OBVIOUS
  <2>4. x = y + z
    BY <2>2, <2>3 DEF Apart
  <2> QED BY <1>11, <2>1, <2>3, <2>4
<1> QED BY <1>12, <1>13 DEF Straight

\* The samples in a bucket, without its end.
Strictly(samples, s, e) == Inside(samples, (s + 1)..(e - 1))

\* they are m samples from lo on
IsStrictly(samples, s, e, inside, lo, m) ==
  /\ Len(inside) = m /\ inside \in Seq(Sample)
  /\ \A i \in 1..m : lo + i - 1 \in 1..Len(samples) /\ inside[i] = samples[lo + i - 1]
  /\ \A k \in 1..Len(samples) : s < samples[k].ts /\ samples[k].ts < e <=> k \in lo..(lo + m - 1)

\* The samples between two times follow one another, and are all there are.
LEMMA InsideIs ==
  ASSUME NEW samples, Ordered(samples), NEW s \in Int, NEW e \in Int,
         NEW inside, inside = Strictly(samples, s, e)
  PROVE  \E lo \in Nat \ {0}, m \in Nat : IsStrictly(samples, s, e, inside, lo, m)
<1>1. PICK N \in Nat : N = Len(samples)
  BY OrderedSamples
<1>2. /\ samples \in Seq(Sample) /\ DOMAIN samples = 1..N
      /\ \A k \in 1..N : samples[k] \in Sample /\ samples[k].ts \in Nat
      /\ \A k, l \in 1..N : k < l => samples[k].ts < samples[l].ts
  BY <1>1, OrderedSamples
<1>3. PICK places : places = Places(samples, (s + 1)..(e - 1))
  OBVIOUS
<1>4. \A k : k \in places <=> k \in 1..N /\ s < samples[k].ts /\ samples[k].ts < e
  <2>1. places = {k \in 1..N : samples[k].ts \in (s + 1)..(e - 1)}
    BY <1>2, <1>3 DEF Places
  <2>2. \A k \in 1..N : samples[k].ts \in (s + 1)..(e - 1) <=> s < samples[k].ts /\ samples[k].ts < e
    BY <1>2
  <2> QED BY <2>1, <2>2
<1>5. CASE places = {}
  <2>1. inside = <<>>
    BY <1>3, <1>5 DEF Inside, Strictly
  <2>2. inside \in Seq(Sample) /\ Len(inside) = 0
    <3>1. <<>> \in Seq(Sample) /\ Len(<<>>) = 0
      OBVIOUS
    <3> QED BY <2>1, <3>1
  <2>3. \A k \in 1..N : ~(s < samples[k].ts /\ samples[k].ts < e)
    BY <1>4, <1>5
  <2>4. IsStrictly(samples, s, e, inside, 1, 0)
    BY <1>1, <2>2, <2>3 DEF IsStrictly
  <2> QED BY <2>4
<1>6. CASE places # {}
  <2>1. places \subseteq 0..N /\ places \subseteq Nat
    BY <1>4
  <2>2. PICK lo, hi : lo = Min(places) /\ hi = Max(places)
    OBVIOUS
  <2>3. lo \in places /\ hi \in places /\ \A k \in places : lo <= k /\ k <= hi
    BY <1>6, <2>1, <2>2, MinOfNaturals, MaxOfBounded
  <2>4. lo \in 1..N /\ hi \in 1..N /\ lo <= hi
    BY <1>4, <2>3
  <2>5. inside = SubSeq(samples, lo, hi)
    BY <1>3, <1>6, <2>2 DEF Inside, Strictly
  <2>6. PICK m \in Nat : m = hi - lo + 1 /\ lo + m - 1 = hi
    BY <2>4
  <2>7. /\ inside \in Seq(Sample) /\ Len(inside) = m
        /\ \A i \in 1..m : lo + i - 1 \in 1..N /\ inside[i] = samples[lo + i - 1]
    <3>1. \A k \in lo..hi : k \in 1..N /\ samples[k] \in Sample
      BY <1>2, <2>4
    <3>2. lo \in Nat /\ hi \in Nat /\ lo <= hi + 1
      BY <2>4
    <3>3. inside \in Seq(Sample) /\ Len(inside) = m /\ \A i \in 1..m : inside[i] = samples[lo + i - 1]
      BY <2>5, <2>6, <3>1, <3>2, SubSeqProperties
    <3>4. \A i \in 1..m : lo + i - 1 \in 1..N
      BY <2>4, <2>6
    <3> QED BY <3>3, <3>4
  <2>8. ASSUME NEW k \in lo..hi PROVE k \in places
    <3>1. k \in 1..N /\ s < samples[lo].ts /\ samples[hi].ts < e
      BY <1>4, <2>3, <2>4
    <3>2. samples[lo].ts <= samples[k].ts /\ samples[k].ts <= samples[hi].ts
      BY <1>2, <2>4, <3>1
    <3>3. samples[lo].ts \in Nat /\ samples[k].ts \in Nat /\ samples[hi].ts \in Nat
      BY <1>2, <2>4, <3>1
    <3> QED BY <1>4, <3>1, <3>2, <3>3
  <2>9. \A k \in 1..N : s < samples[k].ts /\ samples[k].ts < e <=> k \in lo..(lo + m - 1)
    BY <1>4, <2>3, <2>4, <2>6, <2>8
  <2>10. lo \in Nat \ {0}
    BY <2>4
  <2>11. IsStrictly(samples, s, e, inside, lo, m)
    BY <1>1, <2>7, <2>9 DEF IsStrictly
  <2> QED BY <2>10, <2>11
<1> QED BY <1>5, <1>6

\* The points of a bucket: its boundaries and the samples between them.
PointsAre(samples, end, p, n, lo) ==
  /\ Len(p) = n /\ p \in Seq([ts : Int, value : Int])
  /\ p[1] = [ts |-> end - BucketLen, value |-> Boundary(samples, end - BucketLen)]
  /\ p[n] = [ts |-> end, value |-> Boundary(samples, end)]
  /\ \A i \in 2..(n - 1) :
       /\ lo + i - 2 \in 1..Len(samples)
       /\ p[i] = [ts |-> samples[lo + i - 2].ts, value |-> Scale * samples[lo + i - 2].value]
  /\ \A k \in 1..Len(samples) :
       end - BucketLen < samples[k].ts /\ samples[k].ts < end <=> k \in lo..(lo + n - 3)

\* What the points of a bucket are.
LEMMA PointsOfBucket ==
  ASSUME NEW samples, Ordered(samples), NEW end \in Int,
         Boundary(samples, end - BucketLen) \in Int, Boundary(samples, end) \in Int,
         NEW p, p = BucketPoints(samples, end), Places(samples, Bucket(end)) # {}
  PROVE  /\ \E n \in Nat \ {0, 1}, lo \in Nat \ {0} : PointsAre(samples, end, p, n, lo)
         /\ \E k \in 1..Len(samples) : end - BucketLen < samples[k].ts /\ samples[k].ts <= end
<1>1. PICK N \in Nat, B \in Nat \ {0}, start \in Int :
        N = Len(samples) /\ B = BucketLen /\ start = end - BucketLen
  BY OrderedSamples, IntervalsAssumption
<1>2. DOMAIN samples = 1..N /\ \A k \in 1..N : samples[k].ts \in Nat /\ samples[k].value \in Nat
  BY <1>1, OrderedSamples
<1>3. PICK inside, first, last :
        /\ inside = Strictly(samples, start, end)
        /\ first = [ts |-> start, value |-> Boundary(samples, start)]
        /\ last = [ts |-> end, value |-> Boundary(samples, end)]
  OBVIOUS
<1>4. PICK middle : middle = [i \in DOMAIN inside |-> [ts |-> inside[i].ts, value |-> Scale * inside[i].value]]
  OBVIOUS
<1>5. p = <<first>> \o middle \o <<last>> /\ Places(samples, Bucket(end)) # {}
  <2>1. Boundary(samples, start) # None /\ Boundary(samples, end) # None
    BY <1>1, CollectorAssumption
  <2> QED BY <1>1, <1>3, <1>4, <2>1 DEF BucketPoints, Strictly
<1>6. PICK lo \in Nat \ {0}, m \in Nat :
        /\ Len(inside) = m /\ inside \in Seq(Sample)
        /\ \A i \in 1..m : lo + i - 1 \in 1..N /\ inside[i] = samples[lo + i - 1]
        /\ \A k \in 1..N : start < samples[k].ts /\ samples[k].ts < end <=> k \in lo..(lo + m - 1)
  <2>1. inside = Strictly(samples, start, end)
    BY <1>3
  <2>2. PICK lo \in Nat \ {0}, m \in Nat : IsStrictly(samples, start, end, inside, lo, m)
    BY <2>1, InsideIs
  <2>3. /\ Len(inside) = m /\ inside \in Seq(Sample)
        /\ \A i \in 1..m : lo + i - 1 \in 1..N /\ inside[i] = samples[lo + i - 1]
        /\ \A k \in 1..N : start < samples[k].ts /\ samples[k].ts < end <=> k \in lo..(lo + m - 1)
    BY <1>1, <2>2 DEF IsStrictly
  <2> QED BY <2>3
<1>7. /\ middle \in Seq([ts : Int, value : Int]) /\ Len(middle) = m
      /\ \A i \in 1..m : middle[i] = [ts |-> inside[i].ts, value |-> Scale * inside[i].value]
  <2>1. DOMAIN inside = 1..m
    BY <1>6
  <2>2. ASSUME NEW i \in 1..m
        PROVE  [ts |-> inside[i].ts, value |-> Scale * inside[i].value] \in [ts : Int, value : Int]
    <3>1. inside[i] \in Sample
      BY <1>6, <2>1, ElementOfSeq
    <3>2. PICK v \in Nat : v = inside[i].value /\ inside[i].ts \in Nat
      BY <3>1, SampleIsNotNone
    <3>3. Scale * v \in Int
      BY <3>2, IntervalsAssumption
    <3> QED BY <3>2, <3>3
  <2>3. middle \in [1..m -> [ts : Int, value : Int]]
    BY <1>4, <2>1, <2>2
  <2>4. \A i \in 1..m : middle[i] = [ts |-> inside[i].ts, value |-> Scale * inside[i].value]
    BY <1>4, <2>1
  <2>5. middle \in Seq([ts : Int, value : Int]) /\ Len(middle) = m
    BY <2>3, FunctionIsSequence
  <2> QED BY <2>4, <2>5
<1>8. first \in [ts : Int, value : Int] /\ last \in [ts : Int, value : Int]
  BY <1>1, <1>3
<1>9. PICK n \in Nat \ {0, 1} : n = m + 2
  BY <1>6
<1>10. /\ p \in Seq([ts : Int, value : Int]) /\ Len(p) = n /\ p[1] = first /\ p[n] = last
       /\ \A i \in 2..(n - 1) : p[i] = middle[i - 1]
  BY <1>5, <1>7, <1>8, <1>9
<1>11. ASSUME NEW i \in 2..(n - 1)
       PROVE  /\ lo + i - 2 \in 1..N
              /\ p[i] = [ts |-> samples[lo + i - 2].ts, value |-> Scale * samples[lo + i - 2].value]
  <2>1. PICK k \in 1..m : k = i - 1 /\ lo + k - 1 = lo + i - 2
    BY <1>9
  <2>2. lo + k - 1 \in 1..N /\ inside[k] = samples[lo + k - 1]
    BY <1>6
  <2>3. p[i] = middle[k] /\ middle[k] = [ts |-> inside[k].ts, value |-> Scale * inside[k].value]
    BY <1>7, <1>10, <2>1
  <2> QED BY <2>1, <2>2, <2>3
<1>12. lo + m - 1 = lo + n - 3
  BY <1>9
<1>13. PointsAre(samples, end, p, n, lo)
  BY <1>1, <1>3, <1>6, <1>10, <1>11, <1>12 DEF PointsAre
<1>14. \E k \in 1..N : start < samples[k].ts /\ samples[k].ts <= end
  <2>1. PICK k \in 1..N : samples[k].ts \in (end - BucketLen + 1)..end
    BY <1>2, <1>5 DEF Places, Bucket
  <2> QED BY <1>1, <1>2, <2>1
<1> QED BY <1>1, <1>13, <1>14

\* The setting of the lemmas that follow: a buffer that holds the last samples of
\* all, and the points of a bucket of it.
PointsGiven(all, samples, drop, end, p, n, lo) ==
  /\ Ordered(all) /\ samples \in Seq(Sample) /\ Suffix(samples, all, drop)
  /\ end \in Int /\ n \in Nat \ {0, 1} /\ lo \in Nat \ {0}
  /\ PointsAre(samples, end, p, n, lo)

\* Both ends of the bucket are on the curve, near samples.
NearSamples(samples, b) ==
  \E i, j \in 1..Len(samples) :
    /\ b - BucketLen < samples[i].ts /\ samples[i].ts <= b
    /\ b <= samples[j].ts /\ samples[j].ts <= b + BucketLen

\* A boundary that has a value has samples near it, and is on the curve.
LEMMA BoundaryIsNear ==
  ASSUME NEW all, Ordered(all), NEW samples \in Seq(Sample), NEW drop, Suffix(samples, all, drop),
         NEW b \in Int, Boundary(samples, b) # None
  PROVE  /\ NearSamples(samples, b) /\ HasCurveAt(all, b)
         /\ Boundary(samples, b) = CurveAt(all, b) /\ Boundary(samples, b) \in Int
<1>1. PICK L \in Nat, B \in Nat \ {0} : L = Len(samples) /\ B = BucketLen
  BY IntervalsAssumption
<1>2. Ordered(samples)
  BY SuffixOfOrdered
<1>3. /\ \E i : AtSample(samples, b, i) \/ InGap(samples, b, i)
      /\ HasCurveAt(all, b) /\ Boundary(samples, b) = CurveAt(all, b)
  BY BoundaryIsOfCurve
<1>4. PICK i : AtSample(samples, b, i) \/ InGap(samples, b, i)
  BY <1>3
<1>5. PICK x \in 1..L, y \in 1..L :
        /\ b - BucketLen < samples[x].ts /\ samples[x].ts <= b
        /\ b <= samples[y].ts /\ samples[y].ts <= b + BucketLen
  <2>1. CASE AtSample(samples, b, i)
    <3>1. i \in 1..L /\ samples[i].ts = b
      BY <1>1, <2>1 DEF AtSample
    <3> QED BY <1>1, <3>1
  <2>2. CASE InGap(samples, b, i)
    <3>1. PICK x \in 1..L, y \in 1..L :
            /\ x = i /\ y = i + 1
            /\ b - BucketLen < samples[x].ts /\ samples[x].ts < b
            /\ b < samples[y].ts /\ samples[y].ts <= b + BucketLen
      BY <1>1, <2>2 DEF InGap
    <3>2. samples[x].ts \in Nat /\ samples[y].ts \in Nat
      BY <1>1, <1>2, OrderedSamples
    <3> QED BY <3>1, <3>2
  <2> QED BY <1>4, <2>1, <2>2
<1>6. NearSamples(samples, b)
  BY <1>1, <1>5 DEF NearSamples
<1>7. Boundary(samples, b) \in Int
  BY <1>1, <1>2, <1>5, BoundaryIsThere
<1> QED BY <1>3, <1>6, <1>7

\* A bucket with points is such a setting.
LEMMA PointsAreGiven ==
  ASSUME NEW all, Ordered(all), NEW samples \in Seq(Sample), NEW drop, Suffix(samples, all, drop),
         NEW end \in Int, NEW p, p = BucketPoints(samples, end), p # None
  PROVE  /\ Boundary(samples, end - BucketLen) # None /\ Boundary(samples, end) # None
         /\ \E n \in Nat \ {0, 1}, lo \in Nat \ {0} : PointsGiven(all, samples, drop, end, p, n, lo)
         /\ \E k \in 1..Len(samples) : end - BucketLen < samples[k].ts /\ samples[k].ts <= end
<1>1. PICK start \in Int : start = end - BucketLen
  BY IntervalsAssumption
<1>2. /\ Boundary(samples, start) # None /\ Boundary(samples, end) # None
      /\ Places(samples, Bucket(end)) # {}
  BY <1>1 DEF BucketPoints
<1>3. Boundary(samples, start) \in Int
  BY <1>2, BoundaryIsNear
<1>4. Boundary(samples, end) \in Int
  BY <1>2, BoundaryIsNear
<1>5. Ordered(samples)
  BY SuffixOfOrdered
<1>6. /\ \E n \in Nat \ {0, 1}, lo \in Nat \ {0} : PointsAre(samples, end, p, n, lo)
      /\ \E k \in 1..Len(samples) : end - BucketLen < samples[k].ts /\ samples[k].ts <= end
  BY <1>1, <1>2, <1>3, <1>4, <1>5, PointsOfBucket
<1>7. PICK n \in Nat \ {0, 1}, lo \in Nat \ {0} : PointsAre(samples, end, p, n, lo)
  BY <1>6
<1>8. PointsGiven(all, samples, drop, end, p, n, lo)
  BY <1>7 DEF PointsGiven
<1> QED BY <1>1, <1>2, <1>6, <1>8

\* Each point is on the curve.
LEMMA PointIsOfCurve ==
  ASSUME NEW all, NEW samples, NEW drop, NEW end, NEW p, NEW n, NEW lo,
         PointsGiven(all, samples, drop, end, p, n, lo),
         Boundary(samples, end - BucketLen) # None, Boundary(samples, end) # None,
         NEW i \in 1..n
  PROVE  /\ p[i].ts \in (end - BucketLen)..end /\ p[i].value \in Int
         /\ p[i].value = CurveAt(all, p[i].ts)
         /\ i = 1 => p[i].ts = end - BucketLen
         /\ i = n => p[i].ts = end
         /\ i > 1 => end - BucketLen < p[i].ts
         /\ i < n => p[i].ts < end
         /\ i > 1 /\ i < n => lo + i - 2 \in 1..Len(samples) /\ p[i].ts = samples[lo + i - 2].ts
<1>1. PICK B \in Nat \ {0}, L \in Nat, e \in Int, start \in Int :
        B = BucketLen /\ L = Len(samples) /\ e = end /\ start = end - B
  BY IntervalsAssumption DEF PointsGiven
<1>2. /\ Ordered(all) /\ samples \in Seq(Sample) /\ Suffix(samples, all, drop)
      /\ n \in Nat \ {0, 1} /\ lo \in Nat \ {0}
      /\ PointsAre(samples, end, p, n, lo)
  BY DEF PointsGiven
<1>3. CASE i = 1
  <2>1. p[i] = [ts |-> start, value |-> Boundary(samples, start)]
    BY <1>1, <1>2, <1>3 DEF PointsAre
  <2>2. Boundary(samples, start) = CurveAt(all, start) /\ Boundary(samples, start) \in Int
    BY <1>1, <1>2, BoundaryIsNear
  <2> QED BY <1>1, <1>2, <1>3, <2>1, <2>2
<1>4. CASE i = n
  <2>1. p[i] = [ts |-> end, value |-> Boundary(samples, end)]
    BY <1>2, <1>4 DEF PointsAre
  <2>2. Boundary(samples, end) = CurveAt(all, end) /\ Boundary(samples, end) \in Int
    BY <1>1, <1>2, BoundaryIsNear
  <2> QED BY <1>1, <1>2, <1>4, <2>1, <2>2
<1>5. CASE i # 1 /\ i # n
  <2>1. i \in 2..(n - 1) /\ i > 1 /\ i < n
    BY <1>2, <1>5
  <2>2. PICK k \in 1..L : /\ k = lo + i - 2
                          /\ p[i] = [ts |-> samples[k].ts, value |-> Scale * samples[k].value]
    BY <1>1, <1>2, <2>1 DEF PointsAre
  <2>3. start < samples[k].ts /\ samples[k].ts < end
    <3>1. k \in lo..(lo + n - 3)
      BY <1>2, <2>1, <2>2
    <3> QED BY <1>1, <1>2, <3>1 DEF PointsAre
  <2>4. /\ Ordered(samples) /\ drop + k \in 1..Len(all) /\ samples[k] = all[drop + k]
    <3>1. Ordered(samples) /\ \A x \in 1..Len(samples) : drop + x \in 1..Len(all) /\ samples[x] = all[drop + x]
      BY <1>2, SuffixOfOrdered
    <3> QED BY <1>1, <3>1
  <2>5. CurveAt(all, samples[k].ts) = Scale * samples[k].value
    <3>1. CurveAt(all, all[drop + k].ts) = Scale * all[drop + k].value
      BY <1>2, <2>4, CurveAtSample
    <3> QED BY <2>4, <3>1
  <2>6. PICK t \in Nat, v \in Nat : t = samples[k].ts /\ v = samples[k].value
    BY <1>1, <2>4, OrderedSamples
  <2>7. Scale * v \in Int
    BY IntervalsAssumption
  <2> QED BY <1>1, <2>1, <2>2, <2>3, <2>5, <2>6, <2>7
<1> QED BY <1>3, <1>4, <1>5

\* Between two points that follow one another there is no sample, and there are
\* samples on both sides less than two buckets apart.
LEMMA PointsStraight ==
  ASSUME NEW all, NEW samples, NEW drop, NEW end, NEW p, NEW n, NEW lo,
         PointsGiven(all, samples, drop, end, p, n, lo),
         Boundary(samples, end - BucketLen) # None, Boundary(samples, end) # None,
         \E k \in 1..Len(samples) : end - BucketLen < samples[k].ts /\ samples[k].ts <= end,
         NEW i \in 1..(n - 1)
  PROVE  p[i].ts < p[i + 1].ts /\ Straight(all, p[i].ts, p[i + 1].ts)
<1>1. PICK B \in Nat \ {0}, e \in Int, start \in Int :
        B = BucketLen /\ e = end /\ start = end - B
  BY IntervalsAssumption DEF PointsGiven
<1>2. /\ Ordered(all) /\ samples \in Seq(Sample) /\ Suffix(samples, all, drop)
      /\ n \in Nat \ {0, 1} /\ lo \in Nat \ {0}
      /\ PointsAre(samples, end, p, n, lo) /\ Ordered(samples)
  BY SuffixOfOrdered DEF PointsGiven
<1>3. PICK L \in Nat : L = Len(samples)
  BY <1>2
<1>4. /\ \A k \in 1..L : samples[k].ts \in Nat
      /\ \A k, l \in 1..L : k < l => samples[k].ts < samples[l].ts
      /\ \A k, l \in 1..L : samples[k].ts <= samples[l].ts => k <= l
  BY <1>2, <1>3, OrderedSamples
<1>5. PICK h \in 1..n : h = i + 1
  BY <1>2
<1>6. i \in 1..n /\ i < n /\ h > 1 /\ (h < n \/ h = n) /\ (i = 1 \/ i > 1)
  BY <1>2, <1>5
<1>7. /\ p[i].ts \in start..e /\ p[i].ts < e
      /\ i = 1 => p[i].ts = start
      /\ i > 1 => start < p[i].ts /\ lo + i - 2 \in 1..L /\ p[i].ts = samples[lo + i - 2].ts
  <2>1. /\ p[i].ts \in (end - BucketLen)..end
        /\ i = 1 => p[i].ts = end - BucketLen
        /\ i > 1 => end - BucketLen < p[i].ts
        /\ i < n => p[i].ts < end
        /\ i > 1 /\ i < n => lo + i - 2 \in 1..Len(samples) /\ p[i].ts = samples[lo + i - 2].ts
    BY <1>6, PointIsOfCurve
  <2> QED BY <1>1, <1>3, <1>6, <2>1
<1>8. /\ p[h].ts \in start..e /\ start < p[h].ts
      /\ h = n => p[h].ts = e
      /\ h < n => p[h].ts < e /\ lo + i - 1 \in 1..L /\ p[h].ts = samples[lo + i - 1].ts
  <2>1. /\ p[h].ts \in (end - BucketLen)..end
        /\ h = n => p[h].ts = end
        /\ h > 1 => end - BucketLen < p[h].ts
        /\ h < n => p[h].ts < end
        /\ h > 1 /\ h < n => lo + h - 2 \in 1..Len(samples) /\ p[h].ts = samples[lo + h - 2].ts
    BY PointIsOfCurve
  <2>2. lo + h - 2 = lo + i - 1
    BY <1>2, <1>5
  <2> QED BY <1>1, <1>3, <1>6, <2>1, <2>2
<1>9. PICK a \in Int, c \in Int : a = p[i].ts /\ c = p[h].ts
  BY <1>7, <1>8
<1>10. start <= a /\ c <= e /\ (i > 1 => start < a)
  BY <1>1, <1>7, <1>8, <1>9
<1>11. a < c
  <2>1. CASE i = 1
    BY <1>7, <1>8, <1>9, <2>1
  <2>2. CASE h = n
    BY <1>7, <1>8, <1>9, <2>2
  <2>3. CASE i > 1 /\ h < n
    <3>1. lo + i - 2 < lo + i - 1
      BY <1>2
    <3> QED BY <1>4, <1>7, <1>8, <1>9, <2>3, <3>1
  <2> QED BY <1>6, <2>1, <2>2, <2>3
<1>12. \A k \in 1..L : start < samples[k].ts /\ samples[k].ts < e <=> k \in lo..(lo + n - 3)
  BY <1>1, <1>2, <1>3 DEF PointsAre
<1>13. ASSUME NEW k \in 1..L, a < samples[k].ts, samples[k].ts < c PROVE FALSE
  <2>1. samples[k].ts \in Nat
    BY <1>4
  <2>2. start < samples[k].ts /\ samples[k].ts < e
    BY <1>1, <1>9, <1>10, <1>13, <2>1
  <2>3. k \in lo..(lo + n - 3)
    BY <1>12, <2>2
  <2>4. k >= lo + i - 1
    <3>1. CASE i = 1
      BY <1>2, <2>3, <3>1
    <3>2. CASE i > 1
      <4>1. PICK m \in 1..L : m = lo + i - 2 /\ samples[m].ts = a
        BY <1>7, <1>9, <3>2
      <4>2. m < k
        <5>1. ~(samples[k].ts <= samples[m].ts)
          BY <1>13, <2>1, <4>1
        <5>2. m = k \/ m < k \/ k < m
          OBVIOUS
        <5>3. samples[k].ts <= samples[k].ts
          BY <2>1
        <5>4. k < m => samples[k].ts <= samples[m].ts
          <6>1. samples[m].ts \in Nat
            BY <1>4
          <6> QED BY <1>4, <2>1, <6>1
        <5> QED BY <5>1, <5>2, <5>3, <5>4
      <4> QED BY <1>2, <4>1, <4>2
    <3> QED BY <1>6, <3>1, <3>2
  <2>5. k <= lo + i - 2
    <3>1. CASE h = n
      BY <1>2, <1>5, <2>3, <3>1
    <3>2. CASE h < n
      <4>1. PICK m \in 1..L : m = lo + i - 1 /\ samples[m].ts = c
        BY <1>8, <1>9, <3>2
      <4>2. samples[k].ts <= samples[m].ts /\ samples[k].ts # samples[m].ts
        BY <1>13, <2>1, <4>1
      <4>3. k <= m /\ k # m
        BY <1>4, <4>2
      <4> QED BY <1>2, <4>1, <4>3
    <3> QED BY <1>6, <3>1, <3>2
  <2> QED BY <1>2, <2>4, <2>5
<1>14. PICK x \in 1..L : samples[x].ts <= a /\ start - B < samples[x].ts /\ (i > 1 => start < samples[x].ts)
  <2>1. CASE i = 1
    <3>1. PICK k \in 1..L : start - BucketLen < samples[k].ts /\ samples[k].ts <= start
      <4>1. NearSamples(samples, end - BucketLen)
        <5>1. end - BucketLen \in Int
          BY <1>1
        <5> QED BY <1>2, <5>1, BoundaryIsNear
      <4> QED BY <1>1, <1>3, <4>1 DEF NearSamples
    <3> QED BY <1>1, <1>7, <1>9, <2>1, <3>1
  <2>2. CASE i > 1
    <3>1. PICK m \in 1..L : m = lo + i - 2 /\ samples[m].ts = a
      BY <1>7, <1>9, <2>2
    <3> QED BY <1>7, <1>9, <2>2, <3>1
  <2> QED BY <1>6, <2>1, <2>2
<1>15. PICK y \in 1..L : c <= samples[y].ts /\ samples[y].ts <= e + B /\ (i = 1 => samples[y].ts <= e)
  <2>1. CASE h < n
    <3>1. PICK m \in 1..L : m = lo + i - 1 /\ samples[m].ts = c
      BY <1>8, <1>9, <2>1
    <3>2. c <= e /\ c <= e + B /\ c <= c
      BY <1>1, <1>10
    <3> QED BY <3>1, <3>2
  <2>2. CASE h = n /\ i > 1
    <3>1. PICK k \in 1..L : e <= samples[k].ts /\ samples[k].ts <= e + BucketLen
      <4>1. NearSamples(samples, end)
        BY <1>1, <1>2, BoundaryIsNear
      <4> QED BY <1>1, <1>3, <4>1 DEF NearSamples
    <3> QED BY <1>1, <1>8, <1>9, <2>2, <3>1
  <2>3. CASE h = n /\ i = 1
    <3>1. PICK k \in 1..L : start < samples[k].ts /\ samples[k].ts <= e
      BY <1>1, <1>3
    <3>2. k \notin lo..(lo + n - 3)
      BY <1>2, <1>5, <2>3
    <3>3. samples[k].ts = e
      BY <1>4, <1>12, <3>1, <3>2
    <3> QED BY <1>8, <1>9, <2>3, <3>3
  <2> QED BY <1>6, <2>1, <2>2, <2>3
<1>16. samples[y].ts - samples[x].ts <= 2 * BucketLen - 1
  <2>1. samples[x].ts \in Nat /\ samples[y].ts \in Nat
    BY <1>4
  <2>2. PICK r \in Nat, s \in Nat : r = samples[y].ts /\ s = samples[x].ts
    BY <2>1
  <2>3. CASE i = 1
    <3>1. r <= e /\ start - B < s
      BY <1>14, <1>15, <2>2, <2>3
    <3>2. r - s <= 2 * B - 1
      BY <1>1, <3>1
    <3> QED BY <1>1, <2>2, <3>2
  <2>4. CASE i > 1
    <3>1. r <= e + B /\ start < s
      BY <1>14, <1>15, <2>2, <2>4
    <3>2. r - s <= 2 * B - 1
      BY <1>1, <3>1
    <3> QED BY <1>1, <2>2, <3>2
  <2> QED BY <1>6, <2>3, <2>4
<1>17. Straight(all, a, c)
  BY <1>2, <1>3, <1>11, <1>13, <1>14, <1>15, <1>16, SegmentIsStraight
<1> QED BY <1>5, <1>9, <1>11, <1>17

---------------------------------------------------------------------------
(* What the bucketizers make of them                                       *)

\* twice the area under the curve in a bucket, tick by tick
CurveSteps(all, start) == [i \in 1..BucketLen |-> CurveAt(all, start + i - 1) + CurveAt(all, start + i)]

\* The trapezoids of a bucket's points have the area under the curve.
LEMMA GaugeIsArea ==
  ASSUME NEW all, Ordered(all), NEW samples \in Seq(Sample), NEW drop, Suffix(samples, all, drop),
         NEW end \in Int, NEW start \in Int, start = end - BucketLen,
         NEW p, p = BucketPoints(samples, end), p # None
  PROVE  GaugeCollect(samples, end) = Total(CurveSteps(all, start)) /\ GaugeCollect(samples, end) \in Int
<1>1. PICK B \in Nat \ {0} : B = BucketLen
  BY IntervalsAssumption
<1>2. Boundary(samples, end - BucketLen) # None /\ Boundary(samples, end) # None
  BY PointsAreGiven
<1>3. PICK n \in Nat \ {0, 1}, lo \in Nat \ {0} : PointsGiven(all, samples, drop, end, p, n, lo)
  <2>1. \E n \in Nat \ {0, 1}, lo \in Nat \ {0} : PointsGiven(all, samples, drop, end, p, n, lo)
    BY PointsAreGiven
  <2> QED BY <2>1
<1>4. Len(p) = n
  BY <1>3 DEF PointsGiven, PointsAre
<1>5. ASSUME NEW i \in 1..n
      PROVE  /\ p[i].ts \in start..end /\ p[i].value \in Int /\ p[i].value = CurveAt(all, p[i].ts)
             /\ i = 1 => p[i].ts = start
             /\ i = n => p[i].ts = end
  <2>1. /\ p[i].ts \in (end - BucketLen)..end /\ p[i].value \in Int
        /\ p[i].value = CurveAt(all, p[i].ts)
        /\ i = 1 => p[i].ts = end - BucketLen
        /\ i = n => p[i].ts = end
    BY <1>2, <1>3, PointIsOfCurve
  <2> QED BY <2>1
<1>6. ASSUME NEW i \in 1..(n - 1)
      PROVE  p[i].ts < p[i + 1].ts /\ Straight(all, p[i].ts, p[i + 1].ts)
  <2>1. \E k \in 1..Len(samples) : end - BucketLen < samples[k].ts /\ samples[k].ts <= end
    BY PointsAreGiven
  <2>2. p[i].ts < p[i + 1].ts /\ Straight(all, p[i].ts, p[i + 1].ts)
    BY <1>2, <1>3, <2>1, PointsStraight
  <2> QED BY <2>2
<1>7. PICK terms : terms = [i \in 1..(n - 1) |-> (p[i].value + p[i + 1].value) * (p[i + 1].ts - p[i].ts)]
  OBVIOUS
<1>8. PICK steps : steps = CurveSteps(all, start)
  OBVIOUS
<1>9. Len(terms) = n - 1 /\ Len(steps) = B
  <2>1. terms \in [1..(n - 1) -> {terms[i] : i \in 1..(n - 1)}]
    BY <1>7
  <2>2. steps \in [1..B -> {steps[i] : i \in 1..B}]
    BY <1>1, <1>8 DEF CurveSteps
  <2>3. n - 1 \in Nat
    OBVIOUS
  <2>4. Len(terms) = n - 1
    BY <2>1, <2>3, FunctionIsSequence
  <2>5. Len(steps) = B
    BY <2>2, FunctionIsSequence
  <2> QED BY <2>4, <2>5
<1>10. PICK s, u : s = Sums(terms) /\ u = Sums(steps)
  OBVIOUS
<1>11. /\ s[0] = 0 /\ (\A i \in 1..(n - 1) : s[i] = s[i - 1] + terms[i]) /\ Total(terms) = s[n - 1]
  <2>1. n - 1 \in Nat
    OBVIOUS
  <2>2. SumsUp(terms, s, n - 1) /\ Total(terms) = s[n - 1]
    BY <1>9, <1>10, <2>1, SumsWork
  <2> QED BY <2>2 DEF SumsUp
<1>12. u[0] = 0 /\ (\A x \in 1..B : u[x] = u[x - 1] + steps[x]) /\ Total(steps) = u[B]
  <2>1. SumsUp(steps, u, B) /\ Total(steps) = u[B]
    BY <1>9, <1>10, SumsWork
  <2> QED BY <2>1 DEF SumsUp
<1>13. PICK f : f = [x \in 0..B |-> CurveAt(all, start + x)]
  OBVIOUS
<1>14. AddsUp(u, f, B)
  <2>1. ASSUME NEW x \in 1..B PROVE steps[x] = f[x - 1] + f[x]
    <3>1. steps[x] = CurveAt(all, start + x - 1) + CurveAt(all, start + x)
      BY <1>1, <1>8 DEF CurveSteps
    <3>2. x - 1 \in 0..B /\ x \in 0..B /\ start + (x - 1) = start + x - 1
      OBVIOUS
    <3>3. f[x - 1] = CurveAt(all, start + (x - 1)) /\ f[x] = CurveAt(all, start + x)
      BY <1>13, <3>2
    <3> QED BY <3>1, <3>2, <3>3
  <2> QED BY <1>12, <2>1 DEF AddsUp
<1> DEFINE Good(i) == s[i - 1] \in Int /\ s[i - 1] = u[p[i].ts - start]
           Bad == {i \in 1..n : ~Good(i)}
<1>15. Good(1)
  <2>1. p[1].ts = start
    BY <1>5
  <2> QED BY <1>11, <1>12, <2>1
<1>16. ASSUME NEW i \in 1..(n - 1), Good(i) PROVE Good(i + 1)
  <2>1. PICK h \in 1..n : h = i + 1 /\ h - 1 = i
    OBVIOUS
  <2>2. i \in 1..n
    OBVIOUS
  <2>3. PICK a \in start..end, c \in start..end : a = p[i].ts /\ c = p[h].ts
    BY <1>5, <2>2
  <2>4. PICK v \in Int, w \in Int : v = p[i].value /\ w = p[h].value
    BY <1>5, <2>2
  <2>5. v = CurveAt(all, a) /\ w = CurveAt(all, c)
    BY <1>5, <2>2, <2>3, <2>4
  <2>6. a < c /\ Straight(all, a, c)
    BY <1>6, <2>1, <2>3
  <2>7. PICK P \in 0..B, Q \in 0..B : P = a - start /\ Q = c - start
    BY <1>1
  <2>8. P <= Q /\ Q - P = c - a /\ start + P = a /\ start + Q = c
    <3>1. a \in Int /\ c \in Int /\ P \in Int /\ Q \in Int
      OBVIOUS
    <3>2. start + P = a /\ start + Q = c
      BY <2>7, <3>1
    <3>3. Q - P = c - a
      BY <2>7, <3>1
    <3>4. a < c
      BY <2>6
    <3>5. P <= Q
      BY <3>1, <3>3, <3>4
    <3> QED BY <3>2, <3>3, <3>5
  <2>9. f[P] = v /\ f[Q] = w
    BY <1>13, <2>5, <2>8
  <2>10. PICK k \in Int : \A t \in a..c : CurveAt(all, t) = CurveAt(all, a) + k * (t - a)
    BY <2>6 DEF Straight
  <2>11. Even(f, P, Q, k)
    <3>1. ASSUME NEW x \in P..Q PROVE f[x] = f[P] + k * (x - P)
      <4>1. PICK t \in a..c : t = start + x /\ t - a = x - P
        <5>1. x \in Int /\ P <= x /\ x <= Q
          OBVIOUS
        <5>2. start + x \in a..c /\ (start + x) - a = x - P
          BY <2>7, <5>1
        <5> QED BY <5>2
      <4>2. x \in 0..B
        BY <2>7
      <4>3. f[x] = CurveAt(all, t)
        BY <1>13, <4>1, <4>2
      <4>4. CurveAt(all, t) = v + k * (t - a)
        BY <2>5, <2>10
      <4> QED BY <2>9, <4>1, <4>3, <4>4
    <3>2. f[P] \in Int
      BY <2>9
    <3> QED BY <3>1, <3>2 DEF Even
  <2>12. u[P] = s[i - 1] /\ u[P] \in Int
    BY <1>16, <2>3, <2>7
  <2>13. u[Q] = u[P] + (f[P] + f[Q]) * (Q - P) /\ u[Q] \in Int
    BY <1>14, <2>8, <2>11, <2>12, AreaOfTrapezoid
  <2>14. s[i] = s[i - 1] + (v + w) * (c - a)
    <3>1. terms[i] = (v + w) * (c - a)
      BY <1>7, <2>1, <2>3, <2>4
    <3> QED BY <1>11, <3>1
  <2>15. u[Q] = s[i]
    BY <2>8, <2>9, <2>12, <2>13, <2>14
  <2>16. p[i + 1].ts - start = Q /\ (i + 1) - 1 = i
    BY <2>1, <2>3, <2>7
  <2> QED BY <2>13, <2>15, <2>16
<1>17. Bad = {}
  <2> SUFFICES ASSUME Bad # {} PROVE FALSE
    OBVIOUS
  <2>1. PICK i \in Bad : \A j \in Bad : i <= j
    <3>1. Bad \subseteq Nat
      OBVIOUS
    <3> HIDE DEF Bad
    <3> QED BY <3>1, NatHasLeast
  <2>2. i \in 1..n /\ ~Good(i)
    OBVIOUS
  <2>3. i # 1
    BY <1>15, <2>2
  <2>4. PICK j \in 1..(n - 1) : i = j + 1
    BY <2>2, <2>3
  <2>5. j \notin Bad
    <3> HIDE DEF Bad
    <3> QED BY <2>1, <2>4
  <2>6. Good(j)
    <3>1. j \in 1..n
      OBVIOUS
    <3> HIDE DEF Good
    <3> QED BY <2>5, <3>1
  <2>7. Good(j + 1)
    BY <1>16, <2>6
  <2> QED BY <2>2, <2>4, <2>7
<1>18. Good(n)
  <2>1. n \in 1..n
    OBVIOUS
  <2> HIDE DEF Good
  <2> QED BY <1>17, <2>1
<1>19. s[n - 1] = u[B] /\ s[n - 1] \in Int
  <2>1. p[n].ts = end
    BY <1>5
  <2>2. p[n].ts - start = B
    BY <1>1, <2>1
  <2> QED BY <1>18, <2>2
<1>20. GaugeCollect(samples, end) = Total(terms)
  BY <1>4, <1>7 DEF GaugeCollect
<1> QED BY <1>8, <1>11, <1>12, <1>19, <1>20

\* A counter's bucket is the rise of the curve.
LEMMA RiseIsOfCurve ==
  ASSUME NEW all, Ordered(all), NEW samples \in Seq(Sample), NEW drop, Suffix(samples, all, drop),
         NEW end \in Int, NEW start \in Int, start = end - BucketLen,
         NEW rise, rise = CounterCollect(samples, end), rise # None
  PROVE  rise = CurveAt(all, end) - CurveAt(all, start) /\ rise \in Int
<1>1. PICK p : p = BucketPoints(samples, end)
  OBVIOUS
<1>2. p # None /\ rise = Last(p).value - Head(p).value
  BY <1>1 DEF CounterCollect
<1>3. /\ Boundary(samples, end - BucketLen) # None /\ Boundary(samples, end) # None
      /\ \E n \in Nat \ {0, 1}, lo \in Nat \ {0} : PointsGiven(all, samples, drop, end, p, n, lo)
  BY <1>1, <1>2, PointsAreGiven
<1>4. PICK n \in Nat \ {0, 1}, lo \in Nat \ {0} : PointsGiven(all, samples, drop, end, p, n, lo)
  BY <1>3
<1>5. Len(p) = n /\ p \in Seq([ts : Int, value : Int])
  BY <1>4 DEF PointsGiven, PointsAre
<1>6. Last(p) = p[n] /\ Head(p) = p[1]
  <2>1. p # <<>>
    BY <1>5
  <2>2. Last(p) = p[n]
    BY <1>5, <2>1, LastOfSequence
  <2> QED BY <1>5, <2>1, <2>2
<1>7. 1 \in 1..n /\ n \in 1..n
  OBVIOUS
<1>8. p[1].value = CurveAt(all, start) /\ p[1].value \in Int
  <2>1. p[1].value \in Int /\ p[1].value = CurveAt(all, p[1].ts) /\ p[1].ts = end - BucketLen
    BY <1>3, <1>4, <1>7, PointIsOfCurve
  <2> QED BY <2>1
<1>9. p[n].value = CurveAt(all, end) /\ p[n].value \in Int
  <2>1. p[n].value \in Int /\ p[n].value = CurveAt(all, p[n].ts) /\ p[n].ts = end
    BY <1>3, <1>4, <1>7, PointIsOfCurve
  <2> QED BY <2>1
<1> QED BY <1>2, <1>6, <1>8, <1>9

\* The values of samples have a greatest one.
LEMMA ValuesAreBounded ==
  ASSUME NEW s \in Seq(Sample)
  PROVE  \E b \in Nat : \A i \in 1..Len(s) : s[i].value <= b
<1>1. PICK N \in Nat : N = Len(s)
  OBVIOUS
<1>2. \A i \in 1..N : s[i].value \in Nat
  <2> SUFFICES ASSUME NEW i \in 1..N PROVE s[i].value \in Nat
    OBVIOUS
  <2>1. s[i] \in Sample
    BY <1>1, ElementOfSeq
  <2> QED BY <2>1, SampleIsNotNone
<1> DEFINE Bounded(n) == \E b \in Nat : \A i \in 1..n : s[i].value <= b
           Bad == {n \in 0..N : ~Bounded(n)}
<1>3. Bounded(0)
  <2>1. \A i \in 1..0 : s[i].value <= 0
    OBVIOUS
  <2> QED BY <2>1
<1>4. ASSUME NEW n \in 1..N, Bounded(n - 1) PROVE Bounded(n)
  <2>1. PICK b \in Nat : \A i \in 1..(n - 1) : s[i].value <= b
    BY <1>4
  <2>2. PICK v \in Nat : v = s[n].value
    BY <1>2
  <2>3. PICK c \in Nat : b <= c /\ v <= c
    <3>1. b + v \in Nat /\ b <= b + v /\ v <= b + v
      OBVIOUS
    <3> QED BY <3>1
  <2>4. ASSUME NEW i \in 1..n PROVE s[i].value <= c
    <3>1. i = n \/ i \in 1..(n - 1)
      OBVIOUS
    <3>2. s[i].value \in Nat
      BY <1>2
    <3> QED BY <2>1, <2>2, <2>3, <3>1, <3>2
  <2> QED BY <2>4
<1>5. Bad = {}
  <2> SUFFICES ASSUME Bad # {} PROVE FALSE
    OBVIOUS
  <2>1. PICK n \in Bad : \A m \in Bad : n <= m
    <3>1. Bad \subseteq Nat
      OBVIOUS
    <3> HIDE DEF Bad
    <3> QED BY <3>1, NatHasLeast
  <2>2. n \in 0..N /\ ~Bounded(n)
    OBVIOUS
  <2>3. n # 0
    BY <1>3, <2>2
  <2>4. n \in 1..N /\ n - 1 \in 0..N
    BY <2>2, <2>3
  <2>5. n - 1 \notin Bad
    <3> HIDE DEF Bad
    <3> QED BY <2>1, <2>4
  <2>6. Bounded(n - 1)
    BY <2>4, <2>5
  <2> QED BY <1>4, <2>2, <2>4, <2>6
<1>6. N \in 0..N
  OBVIOUS
<1>7. Bounded(N)
  <2> HIDE DEF Bounded
  <2> QED BY <1>5, <1>6
<1> QED BY <1>1, <1>7

\* The peak of the buffer's bucket is that of all samples: the buffer holds one
\* before the bucket.
LEMMA PeakIsOfSamples ==
  ASSUME NEW all, Ordered(all), NEW samples \in Seq(Sample), NEW drop, Suffix(samples, all, drop),
         NEW end \in Int, BucketPoints(samples, end) # None
  PROVE  /\ MaxCollect(samples, end) = Max({all[j].value : j \in Places(all, Bucket(end))})
         /\ MaxCollect(samples, end) \in Int
<1>1. PICK N \in Nat, L \in Nat, B \in Nat \ {0}, start \in Int :
        N = Len(all) /\ L = Len(samples) /\ B = BucketLen /\ start = end - B
  BY OrderedSamples, IntervalsAssumption
<1>2. /\ Ordered(samples) /\ drop \in Nat /\ N = drop + L
      /\ \A i \in 1..L : drop + i \in 1..N /\ samples[i] = all[drop + i]
      /\ \A j \in 1..N : j > drop => j - drop \in 1..L /\ samples[j - drop] = all[j]
  <2>1. Ordered(samples) /\ drop \in Nat /\ Len(all) = drop + Len(samples)
    BY SuffixOfOrdered
  <2>2. \A i \in 1..Len(samples) : drop + i \in 1..Len(all) /\ samples[i] = all[drop + i]
    BY SuffixOfOrdered
  <2>3. \A j \in 1..Len(all) : j > drop => j - drop \in 1..Len(samples) /\ samples[j - drop] = all[j]
    BY SuffixOfOrdered
  <2> QED BY <1>1, <2>1, <2>2, <2>3
<1>3. /\ DOMAIN all = 1..N /\ \A j \in 1..N : all[j].ts \in Nat /\ all[j].value \in Nat
      /\ \A i, j \in 1..N : i < j => all[i].ts < all[j].ts
  BY <1>1, OrderedSamples
<1>4. DOMAIN samples = 1..L
  BY <1>1, <1>2, OrderedSamples
<1>5. Boundary(samples, start) # None /\ Places(samples, Bucket(end)) # {}
  BY <1>1 DEF BucketPoints
<1>6. NearSamples(samples, start)
  BY <1>5, BoundaryIsNear
<1>7. PICK k \in 1..L : samples[k].ts <= start
  BY <1>1, <1>6 DEF NearSamples
<1>8. PICK P, Q : P = Places(samples, Bucket(end)) /\ Q = Places(all, Bucket(end))
  OBVIOUS
<1>9. P = {i \in 1..L : samples[i].ts \in Bucket(end)} /\ Q = {j \in 1..N : all[j].ts \in Bucket(end)}
  BY <1>3, <1>4, <1>8 DEF Places
<1>10. PICK V : V = {samples[i].value : i \in P}
  OBVIOUS
<1>11. V = {all[j].value : j \in Q}
  <2>1. ASSUME NEW i \in P PROVE \E j \in Q : samples[i].value = all[j].value
    <3>1. i \in 1..L /\ samples[i].ts \in Bucket(end)
      BY <1>9
    <3>2. drop + i \in 1..N /\ samples[i] = all[drop + i]
      BY <1>2, <3>1
    <3>3. drop + i \in Q
      BY <1>9, <3>1, <3>2
    <3> QED BY <3>2, <3>3
  <2>2. ASSUME NEW j \in Q PROVE \E i \in P : samples[i].value = all[j].value
    <3>1. j \in 1..N /\ all[j].ts \in Bucket(end)
      BY <1>9
    <3>2. all[j].ts > start
      <4>1. all[j].ts \in (end - BucketLen + 1)..end
        BY <3>1 DEF Bucket
      <4>2. all[j].ts \in Nat
        BY <1>3, <3>1
      <4> QED BY <1>1, <4>1, <4>2
    <3>3. j > drop
      <4> SUFFICES ASSUME j <= drop PROVE FALSE
        BY <1>2, <3>1
      <4>1. drop + k \in 1..N /\ samples[k] = all[drop + k] /\ j < drop + k
        BY <1>2, <3>1
      <4>2. all[j].ts < all[drop + k].ts /\ all[j].ts \in Nat /\ all[drop + k].ts \in Nat
        BY <1>3, <3>1, <4>1
      <4>3. all[drop + k].ts <= start
        BY <1>7, <4>1
      <4> QED BY <3>2, <4>2, <4>3
    <3>4. j - drop \in 1..L /\ samples[j - drop] = all[j]
      BY <1>2, <3>1, <3>3
    <3>5. j - drop \in P
      BY <1>9, <3>1, <3>4
    <3> QED BY <3>4, <3>5
  <2> QED BY <1>10, <2>1, <2>2
<1>12. V # {}
  BY <1>5, <1>8, <1>10
<1>13. MaxCollect(samples, end) = Max(V)
  BY <1>8, <1>10, <1>12 DEF MaxCollect
<1>14. Max(V) \in Int
  <2>1. PICK b \in Nat : \A i \in 1..L : samples[i].value <= b
    BY <1>1, ValuesAreBounded
  <2>2. \A i \in 1..L : samples[i].value \in Nat
    BY <1>1, <1>2, OrderedSamples
  <2>3. V \subseteq 0..b
    BY <1>9, <1>10, <2>1, <2>2
  <2>4. PICK m : m = Max(V)
    OBVIOUS
  <2>5. m \in V
    BY <1>12, <2>3, <2>4, MaxOfBounded
  <2>6. m \in Int
    BY <2>3, <2>5
  <2> QED BY <2>4, <2>6
<1> QED BY <1>8, <1>11, <1>13, <1>14

\* A row is of the curve through all samples.
LEMMA RowFits ==
  ASSUME NEW all, Ordered(all), NEW samples \in Seq(Sample), NEW drop, Suffix(samples, all, drop),
         NEW end \in Int, NEW row, row = Row(samples, end), row # None
  PROVE  row \in RowValues /\ RowIsOfCurve(row, all, end) /\ BucketPoints(samples, end) # None
<1>1. PICK start \in Int : start = end - BucketLen
  BY IntervalsAssumption
<1>2. PICK rise, area, peak :
        /\ rise = CounterCollect(samples, end) /\ area = GaugeCollect(samples, end)
        /\ peak = MaxCollect(samples, end)
  OBVIOUS
<1>3. area # None /\ row = [rise |-> rise, area |-> area, peak |-> peak]
  BY <1>2 DEF Row
<1>4. PICK p : p = BucketPoints(samples, end) /\ p # None
  BY <1>2, <1>3 DEF GaugeCollect
<1>5. HasCurveAt(all, start) /\ HasCurveAt(all, end)
  <2>1. Boundary(samples, start) # None /\ Boundary(samples, end) # None
    BY <1>1, <1>4, PointsAreGiven
  <2> QED BY <2>1, BoundaryIsNear
<1>6. rise \in {None, CurveAt(all, end) - CurveAt(all, start)} /\ rise \in Int \cup {None}
  BY <1>1, <1>2, RiseIsOfCurve
<1>7. area = Total(CurveSteps(all, start)) /\ area \in Int
  BY <1>1, <1>2, <1>4, GaugeIsArea
<1>8. peak = Max({all[j].value : j \in Places(all, Bucket(end))}) /\ peak \in Int
  BY <1>2, <1>4, PeakIsOfSamples
<1>9. row \in RowValues
  BY <1>3, <1>6, <1>7, <1>8 DEF RowValues
<1>10. row.rise = rise /\ row.area = area /\ row.peak = peak
  BY <1>3
<1>11. area = Total([i \in 1..BucketLen |-> CurveAt(all, start + i - 1) + CurveAt(all, start + i)])
  BY <1>7 DEF CurveSteps
<1>12. RowIsOfCurve(row, all, end)
  BY <1>1, <1>5, <1>6, <1>8, <1>10, <1>11 DEF RowIsOfCurve
<1> QED BY <1>4, <1>9, <1>12

---------------------------------------------------------------------------
(* Complete buckets                                                        *)

\* Samples later than those the buffer lacks are in it.
LEMMA LaterIsHeld ==
  ASSUME NEW all, Ordered(all), NEW samples \in Seq(Sample), NEW drop, Suffix(samples, all, drop),
         NEW t \in Int, drop = 0 \/ (drop \in 1..Len(all) /\ all[drop].ts <= t),
         NEW j \in 1..Len(all), t < all[j].ts
  PROVE  \E i \in 1..Len(samples) : i = j - drop /\ samples[i] = all[j]
<1>1. /\ drop \in Nat
      /\ j > drop => j - drop \in 1..Len(samples) /\ samples[j - drop] = all[j]
  BY SuffixOfOrdered
<1>2. j > drop
  <2>1. CASE drop = 0
    BY <2>1
  <2>2. CASE drop \in 1..Len(all) /\ all[drop].ts <= t
    <3> SUFFICES ASSUME j <= drop PROVE FALSE
      BY <1>1
    <3>1. \A x, y \in 1..Len(all) : x < y => all[x].ts < all[y].ts
      BY OrderedSamples
    <3>2. all[j].ts <= all[drop].ts
      <4>1. CASE j = drop
        <5>1. all[drop].ts \in Nat
          BY <2>2, OrderedSamples
        <5> QED BY <4>1, <5>1
      <4>2. CASE j < drop
        <5>1. all[j].ts \in Nat /\ all[drop].ts \in Nat
          BY <2>2, OrderedSamples
        <5>2. all[j].ts < all[drop].ts
          BY <2>2, <3>1, <4>2
        <5> QED BY <5>1, <5>2
      <4> QED BY <1>1, <4>1, <4>2
    <3>3. all[j].ts \in Nat /\ all[drop].ts \in Nat
      BY <2>2, OrderedSamples
    <3> QED BY <2>2, <3>2, <3>3
  <2> QED BY <2>1, <2>2
<1> QED BY <1>1, <1>2

\* A buffer with what a complete bucket needs.
Holds(samples, end) ==
  \E i, j, k \in 1..Len(samples) :
    /\ end - 2 * BucketLen < samples[i].ts /\ samples[i].ts <= end - BucketLen
    /\ end - BucketLen < samples[j].ts /\ samples[j].ts <= end
    /\ end <= samples[k].ts /\ samples[k].ts <= end + BucketLen

\* Of a complete bucket the buffer holds the samples that make it complete.
LEMMA CompleteIsHeld ==
  ASSUME NEW all, Ordered(all), NEW samples \in Seq(Sample), NEW drop, Suffix(samples, all, drop),
         NEW end \in Int, drop = 0 \/ (drop \in 1..Len(all) /\ all[drop].ts <= end - 2 * BucketLen),
         Complete(all, end)
  PROVE  Holds(samples, end)
<1>1. PICK B \in Nat \ {0}, t \in Int : B = BucketLen /\ t = end - 2 * BucketLen
  BY IntervalsAssumption
<1>2. DOMAIN all = 1..Len(all) /\ \A j \in 1..Len(all) : all[j].ts \in Nat
  BY OrderedSamples
<1>3. PICK i \in 1..Len(all), j \in 1..Len(all), k \in 1..Len(all) :
        /\ all[i].ts \in Bucket(end - BucketLen) /\ all[j].ts \in Bucket(end)
        /\ end <= all[k].ts /\ all[k].ts <= end + BucketLen
  BY <1>2 DEF Complete
<1>4. PICK x \in Nat, y \in Nat, z \in Nat : x = all[i].ts /\ y = all[j].ts /\ z = all[k].ts
  BY <1>2
<1>5. /\ t < x /\ x <= end - BucketLen
      /\ end - BucketLen < y /\ y <= end
      /\ end <= z /\ z <= end + BucketLen
  <2>1. x \in ((end - B) - B + 1)..(end - B) /\ y \in (end - B + 1)..end
    BY <1>1, <1>3, <1>4 DEF Bucket
  <2> QED BY <1>1, <1>3, <1>4, <2>1
<1>6. t < y /\ t < z
  BY <1>1, <1>5
<1>7. drop = 0 \/ (drop \in 1..Len(all) /\ all[drop].ts <= t)
  BY <1>1
<1>8. PICK f \in 1..Len(samples) : samples[f] = all[i]
  BY <1>4, <1>5, <1>7, LaterIsHeld
<1>9. PICK g \in 1..Len(samples) : samples[g] = all[j]
  BY <1>4, <1>6, <1>7, LaterIsHeld
<1>10. PICK h \in 1..Len(samples) : samples[h] = all[k]
  BY <1>4, <1>6, <1>7, LaterIsHeld
<1> QED BY <1>1, <1>4, <1>5, <1>8, <1>9, <1>10 DEF Holds

\* So it has points, an area and a rise.
LEMMA AreaIsThere ==
  ASSUME NEW all, Ordered(all), NEW samples \in Seq(Sample), NEW drop, Suffix(samples, all, drop),
         NEW end \in Int, Holds(samples, end)
  PROVE  /\ GaugeCollect(samples, end) # None /\ BucketPoints(samples, end) # None
         /\ Last(BucketPoints(samples, end)).value - Head(BucketPoints(samples, end)).value \in Int
<1>1. PICK B \in Nat \ {0}, start \in Int : B = BucketLen /\ start = end - BucketLen
  BY IntervalsAssumption
<1>2. Ordered(samples)
  BY SuffixOfOrdered
<1>3. DOMAIN samples = 1..Len(samples) /\ \A j \in 1..Len(samples) : samples[j].ts \in Nat
  BY <1>2, OrderedSamples
<1>4. PICK i \in 1..Len(samples), j \in 1..Len(samples), k \in 1..Len(samples) :
        /\ end - 2 * BucketLen < samples[i].ts /\ samples[i].ts <= end - BucketLen
        /\ end - BucketLen < samples[j].ts /\ samples[j].ts <= end
        /\ end <= samples[k].ts /\ samples[k].ts <= end + BucketLen
  BY DEF Holds
<1>5. Boundary(samples, start) \in Int
  <2>1. /\ start - BucketLen < samples[i].ts /\ samples[i].ts <= start
        /\ start <= samples[j].ts /\ samples[j].ts <= start + BucketLen
    BY <1>1, <1>3, <1>4
  <2> QED BY <1>2, <2>1, BoundaryIsThere
<1>6. Boundary(samples, end) \in Int
  BY <1>2, <1>4, BoundaryIsThere
<1>7. Places(samples, Bucket(end)) # {}
  <2>1. samples[j].ts \in (end - BucketLen + 1)..end
    BY <1>1, <1>3, <1>4
  <2> QED BY <1>3, <2>1 DEF Places, Bucket
<1>8. PICK p : p = BucketPoints(samples, end)
  OBVIOUS
<1>9. PICK n \in Nat \ {0, 1}, lo \in Nat \ {0} : PointsAre(samples, end, p, n, lo)
  BY <1>1, <1>2, <1>5, <1>6, <1>7, <1>8, PointsOfBucket
<1>10. Len(p) = n /\ p \in Seq([ts : Int, value : Int])
  BY <1>9 DEF PointsAre
<1>11. p # None
  BY <1>10, CollectorAssumption
<1>12. GaugeCollect(samples, end) \in Int
  <2>1. GaugeCollect(samples, end) = Total(CurveSteps(all, start)) /\ GaugeCollect(samples, end) \in Int
    <3>1. start = end - BucketLen /\ p = BucketPoints(samples, end) /\ p # None
      BY <1>1, <1>8, <1>11
    <3> QED BY <3>1, GaugeIsArea
  <2> QED BY <2>1
<1>13. GaugeCollect(samples, end) # None
  BY <1>12, CollectorAssumption
<1>14. Last(p).value \in Int /\ Head(p).value \in Int
  <2>1. p # <<>>
    BY <1>10
  <2>2. Last(p) \in [ts : Int, value : Int]
    BY <1>10, <2>1, LastOfSequence
  <2>3. Head(p) \in [ts : Int, value : Int]
    <3>1. Head(p) = p[1] /\ 1 \in 1..Len(p)
      BY <1>10
    <3>2. p[1] \in [ts : Int, value : Int]
      BY <1>10, <3>1, ElementOfSeq
    <3> QED BY <3>1, <3>2
  <2> QED BY <2>2, <2>3
<1>15. Last(p).value - Head(p).value \in Int
  BY <1>14
<1> QED BY <1>8, <1>11, <1>13, <1>15

\* And a rate, when no counter was reset around it.
LEMMA RateIsThere ==
  ASSUME NEW all, Ordered(all), NEW samples \in Seq(Sample), NEW drop, Suffix(samples, all, drop),
         NEW end \in Int, Holds(samples, end), Rising(all, end)
  PROVE  CounterCollect(samples, end) # None
<1>1. PICK B \in Nat \ {0}, L \in Nat, N \in Nat : B = BucketLen /\ L = Len(samples) /\ N = Len(all)
  <2>1. Len(samples) \in Nat /\ Len(all) \in Nat
    BY OrderedSamples
  <2> QED BY <2>1, IntervalsAssumption
<1>2. Ordered(samples) /\ drop \in Nat /\ \A i \in 1..Len(samples) : drop + i \in 1..Len(all) /\ samples[i] = all[drop + i]
  BY SuffixOfOrdered
<1>3. /\ DOMAIN samples = 1..L /\ \A j \in 1..L : samples[j].ts \in Nat
      /\ \A i, j \in 1..L : i < j => samples[i].ts < samples[j].ts
  BY <1>1, <1>2, OrderedSamples
<1>4. PICK i \in 1..L, j \in 1..L, k \in 1..L :
        /\ end - 2 * B < samples[i].ts /\ samples[i].ts <= end - B
        /\ end - B < samples[j].ts /\ samples[j].ts <= end
        /\ end <= samples[k].ts /\ samples[k].ts <= end + B
  BY <1>1 DEF Holds
<1>5. PICK before, after : /\ before = Places(samples, Bucket(end - BucketLen))
                           /\ after = Places(samples, end..(end + BucketLen))
  OBVIOUS
<1>6. /\ before = {x \in 1..L : samples[x].ts \in ((end - B) - B + 1)..(end - B)}
      /\ after = {x \in 1..L : samples[x].ts \in end..(end + B)}
  BY <1>1, <1>3, <1>5 DEF Places, Bucket
<1>7. i \in before /\ k \in after
  BY <1>3, <1>4, <1>6
<1>8. PICK x, y : x = Max(before) /\ y = Min(after)
  OBVIOUS
<1>9. x \in before /\ y \in after
  <2>1. before \subseteq 0..L /\ after \subseteq Nat
    BY <1>6
  <2> QED BY <1>7, <1>8, <2>1, MinOfNaturals, MaxOfBounded
<1>10. x \in 1..L /\ y \in 1..L /\ end - 2 * B < samples[x].ts /\ samples[y].ts <= end + B
  BY <1>3, <1>6, <1>9
<1>11. ASSUME NEW c \in x..(y - 1) PROVE ~(samples[c].value > samples[c + 1].value)
  <2>1. x \in Nat /\ y \in Nat /\ c \in Int /\ x <= c /\ c <= y - 1 /\ 1 <= x /\ y <= L
    BY <1>10
  <2>2. c + 1 \in 1..L /\ c \in 1..L /\ c < c + 1 /\ c + 1 <= y
    BY <2>1
  <2>3. PICK d \in 1..L : d = c + 1 /\ c \in 1..L /\ x <= c /\ c < d /\ d <= y
    BY <2>1, <2>2
  <2>4. samples[x].ts <= samples[c].ts /\ samples[d].ts <= samples[y].ts
    <3>1. x = c \/ x < c
      BY <1>10, <2>3
    <3>2. d = y \/ d < y
      BY <1>10, <2>3
    <3>3. \A z \in 1..L : samples[z].ts <= samples[z].ts
      BY <1>3
    <3>4. \A v, w \in 1..L : v < w => samples[v].ts <= samples[w].ts
      BY <1>3
    <3> QED BY <1>10, <2>3, <3>1, <3>2, <3>3, <3>4
  <2>5. end - 2 * B < samples[c].ts /\ samples[d].ts <= end + B
    <3>1. samples[x].ts \in Nat /\ samples[c].ts \in Nat /\ samples[d].ts \in Nat /\ samples[y].ts \in Nat
      BY <1>3, <1>10, <2>3
    <3>2. PICK t \in Nat, u \in Nat, v \in Nat, w \in Nat :
            t = samples[x].ts /\ u = samples[c].ts /\ v = samples[d].ts /\ w = samples[y].ts
      BY <3>1
    <3>3. end - 2 * B < t /\ w <= end + B /\ t <= u /\ v <= w
      BY <1>10, <2>4, <3>2
    <3>4. end - 2 * B < u /\ v <= end + B
      BY <3>3
    <3> QED BY <3>2, <3>4
  <2>6. PICK f \in 1..N, g \in 1..N : /\ f = drop + c /\ g = drop + d /\ f < g
                                      /\ samples[c] = all[f] /\ samples[d] = all[g]
    BY <1>1, <1>2, <2>3
  <2>7. all[f].value <= all[g].value
    <3>1. DOMAIN all = 1..N
      BY <1>1, OrderedSamples
    <3> QED BY <1>1, <2>5, <2>6, <3>1 DEF Rising
  <2>8. all[f].value \in Nat /\ all[g].value \in Nat
    BY <1>1, OrderedSamples
  <2> QED BY <2>3, <2>6, <2>7, <2>8
<1>12. PICK p : p = BucketPoints(samples, end)
  OBVIOUS
<1>13. p # None /\ Last(p).value - Head(p).value \in Int
  BY <1>12, AreaIsThere
<1>14. CounterCollect(samples, end) = Last(p).value - Head(p).value
  <2>1. before # {} /\ after # {}
    BY <1>7
  <2>2. ~\E c \in Max(before)..(Min(after) - 1) : samples[c].value > samples[c + 1].value
    BY <1>8, <1>11
  <2> QED BY <1>5, <1>12, <1>13, <2>1, <2>2 DEF CounterCollect
<1> QED BY <1>13, <1>14, CollectorAssumption

---------------------------------------------------------------------------
(* The buffer                                                              *)

\* Samples are a tick apart or more.
LEMMA TicksApart ==
  ASSUME NEW all, Ordered(all), NEW i \in 1..Len(all), NEW j \in 1..Len(all), i <= j
  PROVE  all[i].ts + (j - i) <= all[j].ts
<1>1. PICK N \in Nat : N = Len(all)
  BY OrderedSamples
<1>2. /\ \A k \in 1..N : all[k].ts \in Nat
      /\ \A k, l \in 1..N : k < l => all[k].ts < all[l].ts
  BY <1>1, OrderedSamples
<1> DEFINE Apart2(k) == all[i].ts + (k - i) <= all[k].ts
           Bad == {k \in i..j : ~Apart2(k)}
<1> SUFFICES ASSUME Bad # {} PROVE FALSE
  <2>1. j \in i..j
    BY <1>1
  <2> QED BY <2>1
<1>3. PICK k \in Bad : \A l \in Bad : k <= l
  <2>1. Bad \subseteq Nat
    BY <1>1
  <2> HIDE DEF Bad
  <2> QED BY <2>1, NatHasLeast
<1>4. k \in i..j /\ k \in 1..N /\ ~Apart2(k)
  BY <1>1
<1>5. k # i
  <2>1. Apart2(i)
    BY <1>1, <1>2
  <2> QED BY <1>4, <2>1
<1>6. PICK l \in 1..N : l = k - 1 /\ l \in i..j
  BY <1>1, <1>4, <1>5
<1>7. Apart2(l)
  <2>1. l \notin Bad
    <3> HIDE DEF Bad
    <3> QED BY <1>3, <1>4, <1>6
  <2> QED BY <1>6, <2>1
<1>8. PICK x \in Nat, y \in Nat, z \in Nat : x = all[i].ts /\ y = all[l].ts /\ z = all[k].ts
  BY <1>1, <1>2, <1>4
<1>9. y < z
  BY <1>2, <1>4, <1>6, <1>8
<1>10. x + (l - i) <= y /\ ~(x + (k - i) <= z)
  BY <1>4, <1>7, <1>8
<1> QED BY <1>1, <1>4, <1>6, <1>9, <1>10

\* The buffer holds more than two buckets.
LEMMA CapacityIsNatural == BufferCapacity \in Nat /\ BufferCapacity > 2 * BucketLen
<1>1. PICK q \in Nat : q = (BufferedBuckets * BucketLen) \div CollectInterval
  <2>1. PICK x \in Nat, d \in Nat \ {0} : x = BufferedBuckets * BucketLen /\ d = CollectInterval
    BY IntervalsAssumption
  <2>2. x \div d \in Nat
    OBVIOUS
  <2> QED BY <2>1, <2>2
<1>2. PICK S : S = {q, 4}
  OBVIOUS
<1>3. S \subseteq 0..(q + 4) /\ S # {} /\ q + 4 \in Nat
  BY <1>2
<1>4. PICK m : m = Max(S)
  OBVIOUS
<1>5. m \in S
  BY <1>3, <1>4, MaxOfBounded
<1>6. BufferCapacity = m
  BY <1>1, <1>2, <1>4 DEF BufferCapacity
<1> QED BY <1>2, <1>5, <1>6, BufferAssumption

\* What a later sample makes of a buffer: it is appended, and the first are dropped
\* that are too many.
IsPushed(pushed, samples, s, f) ==
  /\ pushed \in Seq(Sample) /\ f \in 1..(Len(samples) + 1) /\ Len(pushed) = Len(samples) + 2 - f
  /\ \A i \in 1..Len(pushed) : /\ f + i - 1 \in 1..(Len(samples) + 1)
                               /\ pushed[i] = Append(samples, s)[f + i - 1]
  /\ \/ f = 1 /\ Len(samples) + 1 <= BufferCapacity
     \/ f = Len(samples) + 2 - BufferCapacity /\ Len(samples) + 1 > BufferCapacity

\* A sample that is not late is appended.
LEMMA PushAppends ==
  ASSUME NEW samples \in Seq(Sample), NEW s \in Sample,
         samples = <<>> \/ ~(s.ts <= Last(samples).ts),
         NEW pushed, pushed = Push(samples, s)
  PROVE  \E f : IsPushed(pushed, samples, s, f)
<1>1. PICK L \in Nat, C \in Nat : L = Len(samples) /\ C = BufferCapacity /\ C > 2
  BY CapacityIsNatural, IntervalsAssumption
<1>2. PICK all : all = Append(samples, s)
  OBVIOUS
<1>3. all \in Seq(Sample) /\ Len(all) = L + 1
  BY <1>1, <1>2
<1>4. PICK S, f : S = {1, L + 1 - C + 1} /\ f = Max(S)
  OBVIOUS
<1>5. pushed = SubSeq(all, f, L + 1)
  <2>1. pushed = SubSeq(Append(samples, s),
                        Max({1, Len(Append(samples, s)) - BufferCapacity + 1}), Len(Append(samples, s)))
    BY Zenon DEF Push
  <2>2. {1, Len(all) - BufferCapacity + 1} = S
    BY <1>1, <1>3, <1>4
  <2>3. pushed = SubSeq(all, Max(S), Len(all))
    BY <1>2, <2>1, <2>2
  <2> QED BY <1>3, <1>4, <2>3
<1>6. \/ f = 1 /\ L + 1 <= C
      \/ f = L + 2 - C /\ L + 1 > C
  <2>1. CASE L + 1 <= C
    <3>1. 1 \in S /\ \A y \in S : y \in Int /\ y <= 1
      BY <1>1, <1>4, <2>1
    <3>2. \A x \in S : (\A y \in S : y <= x) => x = 1
      BY <1>1, <1>4, <2>1
    <3>3. \E x \in S : \A y \in S : y <= x
      BY <3>1
    <3>4. f \in S /\ \A y \in S : y <= f
      BY <1>4, <3>3 DEF Max
    <3> QED BY <2>1, <3>2, <3>4
  <2>2. CASE L + 1 > C
    <3>1. S \subseteq 0..(L + 1) /\ S # {} /\ L + 1 \in Nat
      BY <1>1, <1>4, <2>2
    <3>2. f \in S /\ \A y \in S : y <= f
      BY <1>4, <3>1, MaxOfBounded
    <3>3. f = L + 2 - C
      BY <1>1, <1>4, <2>2, <3>2
    <3> QED BY <2>2, <3>3
  <2> QED BY <1>1, <2>1, <2>2
<1>7. f \in 1..(L + 1)
  BY <1>1, <1>6
<1>8. \A i \in f..(L + 1) : i \in 1..(L + 1) /\ all[i] \in Sample
  <2> SUFFICES ASSUME NEW i \in f..(L + 1) PROVE i \in 1..(L + 1) /\ all[i] \in Sample
    OBVIOUS
  <2>1. i \in 1..Len(all)
    BY <1>3, <1>7
  <2> QED BY <1>3, <2>1, ElementOfSeq
<1>9. /\ pushed \in Seq(Sample) /\ Len(pushed) = L + 1 - f + 1
      /\ \A i \in 1..(L + 1 - f + 1) : pushed[i] = all[f + i - 1]
  <2>1. f \in Nat /\ L + 1 \in Nat /\ f <= (L + 1) + 1 /\ \A i \in f..(L + 1) : all[i] \in Sample
    BY <1>7, <1>8
  <2> QED BY <1>5, <2>1, SubSeqProperties
<1>10. \A i \in 1..(L + 2 - f) : f + i - 1 \in 1..(L + 1)
  BY <1>7
<1>11. L + 1 - f + 1 = L + 2 - f
  BY <1>7
<1> QED BY <1>1, <1>2, <1>6, <1>7, <1>9, <1>10, <1>11 DEF IsPushed

\* A later sample comes after all others.
LEMMA OrderedAppend ==
  ASSUME NEW all, Ordered(all), NEW s \in Sample, \A i \in 1..Len(all) : all[i].ts < s.ts
  PROVE  /\ Ordered(Append(all, s)) /\ Len(Append(all, s)) = Len(all) + 1
         /\ Append(all, s)[Len(all) + 1] = s
         /\ \A i \in 1..Len(all) : Append(all, s)[i] = all[i]
<1>1. PICK N \in Nat : N = Len(all)
  BY OrderedSamples
<1>2. PICK more : more = Append(all, s)
  OBVIOUS
<1>3. /\ all \in Seq(Sample)
      /\ \A i, j \in 1..N : i < j => all[i].ts < all[j].ts
  BY <1>1, OrderedSamples
<1>4. more \in Seq(Sample) /\ Len(more) = N + 1 /\ more[N + 1] = s /\ \A i \in 1..N : more[i] = all[i]
  BY <1>1, <1>2, <1>3
<1>5. ASSUME NEW i \in 1..(N + 1), NEW j \in 1..(N + 1), i < j PROVE more[i].ts < more[j].ts
  <2>1. i \in 1..N /\ more[i] = all[i]
    BY <1>4, <1>5
  <2>2. CASE j = N + 1
    BY <1>1, <1>4, <2>1, <2>2
  <2>3. CASE j # N + 1
    <3>1. j \in 1..N
      BY <2>3
    <3> QED BY <1>3, <1>4, <1>5, <2>1, <3>1
  <2> QED BY <2>2, <2>3
<1>6. Ordered(more)
  <2>1. DOMAIN more = 1..(N + 1)
    BY <1>4
  <2> QED BY <1>4, <1>5, <2>1 DEF Ordered, InTimeOrder
<1> QED BY <1>1, <1>2, <1>4, <1>6

\* A buffer stays in time order, whatever is pushed.
LEMMA PushTypes ==
  ASSUME NEW samples, Ordered(samples), NEW s \in Sample, NEW pushed, pushed = Push(samples, s)
  PROVE  Ordered(pushed) /\ pushed # <<>>
<1>1. samples \in Seq(Sample)
  BY DEF Ordered
<1>2. CASE samples # <<>> /\ s.ts <= Last(samples).ts
  <2>1. pushed = samples
    BY <1>2 DEF Push
  <2> QED BY <1>2, <2>1
<1>3. CASE samples = <<>> \/ ~(s.ts <= Last(samples).ts)
  <2>1. PICK f : IsPushed(pushed, samples, s, f)
    BY <1>1, <1>3, PushAppends
  <2>2. PICK L \in Nat : L = Len(samples)
    BY <1>1
  <2>3. s.ts \in Nat
    BY SampleIsNotNone
  <2>4. \A i \in 1..L : samples[i].ts < s.ts
    <3> SUFFICES ASSUME NEW i \in 1..L PROVE samples[i].ts < s.ts
      OBVIOUS
    <3>1. samples # <<>>
      BY <1>1, <2>2
    <3>2. Last(samples) = samples[L]
      BY <1>1, <2>2, <3>1, LastOfSequence
    <3>3. L \in 1..L /\ (i < L \/ i = L)
      OBVIOUS
    <3>4. samples[i].ts \in Nat /\ samples[L].ts \in Nat /\ (i < L => samples[i].ts < samples[L].ts)
      BY <2>2, <3>3, OrderedSamples
    <3> QED BY <1>3, <2>3, <3>1, <3>2, <3>3, <3>4
  <2>5. PICK more : more = Append(samples, s)
    OBVIOUS
  <2>6. Ordered(more) /\ Len(more) = L + 1
    BY <2>2, <2>4, <2>5, OrderedAppend
  <2>7. \A i, j \in 1..(L + 1) : i < j => more[i].ts < more[j].ts
    BY <2>6, OrderedSamples
  <2>8. /\ pushed \in Seq(Sample) /\ f \in 1..(L + 1) /\ Len(pushed) = L + 2 - f
        /\ \A i \in 1..Len(pushed) : f + i - 1 \in 1..(L + 1) /\ pushed[i] = more[f + i - 1]
    BY <2>1, <2>2, <2>5 DEF IsPushed
  <2>9. PICK M \in Nat \ {0} : M = Len(pushed)
    BY <2>8
  <2>10. ASSUME NEW i \in 1..M, NEW j \in 1..M, i < j PROVE pushed[i].ts < pushed[j].ts
    <3>1. PICK x \in 1..(L + 1), y \in 1..(L + 1) :
            x = f + i - 1 /\ y = f + j - 1 /\ pushed[i] = more[x] /\ pushed[j] = more[y]
      BY <2>8, <2>9
    <3>2. x < y
      BY <2>8, <2>10, <3>1
    <3> QED BY <2>7, <3>1, <3>2
  <2>11. DOMAIN pushed = 1..M /\ pushed # <<>>
    BY <2>8, <2>9
  <2> QED BY <2>8, <2>10, <2>11 DEF Ordered, InTimeOrder
<1> QED BY <1>2, <1>3

\* It holds the last of all samples: those it held and one, or as many as it may.
StaysLatest(pushed, samples, all, n, m) ==
  /\ m \in Nat /\ Suffix(pushed, all, m) /\ Len(pushed) <= BufferCapacity
  /\ \/ m = n /\ Len(pushed) = Len(samples) + 1
     \/ Len(pushed) = BufferCapacity

\* A buffer that holds the last samples goes on holding them.
LEMMA PushSuffix ==
  ASSUME NEW all, Ordered(all), NEW samples \in Seq(Sample), NEW n, Suffix(samples, all, n),
         NEW s \in Sample, \A i \in 1..Len(all) : all[i].ts < s.ts,
         Len(samples) <= BufferCapacity,
         NEW pushed, pushed = Push(samples, s)
  PROVE  \E m : StaysLatest(pushed, samples, Append(all, s), n, m)
<1>1. PICK N \in Nat, L \in Nat, C \in Nat :
        N = Len(all) /\ L = Len(samples) /\ C = BufferCapacity /\ L <= C
  BY OrderedSamples, CapacityIsNatural
<1>2. n \in Nat /\ N = n + L /\ \A i \in 1..L : samples[i] = all[n + i]
  BY <1>1 DEF Suffix
<1>3. samples = <<>> \/ ~(s.ts <= Last(samples).ts)
  <2> SUFFICES ASSUME samples # <<>> PROVE ~(s.ts <= Last(samples).ts)
    OBVIOUS
  <2>1. L \in 1..L /\ Last(samples) = samples[L]
    BY <1>1, LastOfSequence
  <2>2. n + L \in 1..N /\ samples[L] = all[n + L]
    BY <1>1, <1>2, <2>1
  <2>3. all[n + L].ts < s.ts /\ all[n + L].ts \in Nat /\ s.ts \in Nat
    BY <1>1, <2>2, OrderedSamples, SampleIsNotNone
  <2> QED BY <2>1, <2>2, <2>3
<1>4. PICK f : IsPushed(pushed, samples, s, f)
  BY <1>3, PushAppends
<1>5. /\ pushed \in Seq(Sample) /\ f \in 1..(L + 1) /\ Len(pushed) = L + 2 - f
      /\ \A i \in 1..Len(pushed) : f + i - 1 \in 1..(L + 1) /\ pushed[i] = Append(samples, s)[f + i - 1]
      /\ \/ f = 1 /\ L + 1 <= C
         \/ f = L + 2 - C /\ L + 1 > C
  BY <1>1, <1>4 DEF IsPushed
<1>6. PICK m \in Nat, M \in Nat : m = n + f - 1 /\ M = Len(pushed) /\ M = L + 2 - f
  BY <1>2, <1>5
<1>7. PICK more : more = Append(all, s)
  OBVIOUS
<1>8. Len(more) = N + 1 /\ more[N + 1] = s /\ \A i \in 1..N : more[i] = all[i]
  <2>1. all \in Seq(Sample)
    BY OrderedSamples
  <2> QED BY <1>1, <1>7, <2>1
<1>9. ASSUME NEW i \in 1..M PROVE pushed[i] = more[m + i]
  <2>1. PICK x \in 1..(L + 1) : x = f + i - 1 /\ pushed[i] = Append(samples, s)[x]
    BY <1>5, <1>6
  <2>2. m + i = n + x
    BY <1>2, <1>5, <1>6, <2>1
  <2>3. CASE x \in 1..L
    <3>1. Append(samples, s)[x] = samples[x]
      BY <1>1, <2>3
    <3>2. n + x \in 1..N /\ samples[x] = all[n + x]
      BY <1>2, <2>3
    <3> QED BY <1>8, <2>1, <2>2, <3>1, <3>2
  <2>4. CASE x = L + 1
    <3>1. Append(samples, s)[x] = s
      BY <1>1, <2>4
    <3>2. n + x = N + 1
      BY <1>2, <2>4
    <3> QED BY <1>8, <2>1, <2>2, <3>1, <3>2
  <2> QED BY <2>3, <2>4
<1>10. Len(more) = m + M
  BY <1>2, <1>5, <1>6, <1>8
<1>11. Suffix(pushed, more, m)
  BY <1>6, <1>9, <1>10 DEF Suffix
<1>12. M <= C /\ ((m = n /\ M = L + 1) \/ M = C)
  BY <1>1, <1>2, <1>5, <1>6
<1>13. StaysLatest(pushed, samples, more, n, m)
  BY <1>1, <1>6, <1>11, <1>12 DEF StaysLatest
<1> QED BY <1>7, <1>13

\* Of a full buffer the samples that are lacking are of no use.
LEMMA FullIsEnough ==
  ASSUME NEW all, Ordered(all), NEW samples \in Seq(Sample), NEW n, Suffix(samples, all, n),
         Len(samples) = BufferCapacity, n > 0,
         NEW end \in Int, \A i \in 1..(Len(all) - 1) : all[i].ts <= end
  PROVE  n \in 1..Len(all) /\ all[n].ts <= end - 2 * BucketLen
<1>1. PICK N \in Nat, C \in Nat, B \in Nat : N = Len(all) /\ C = BufferCapacity /\ B = BucketLen
  BY OrderedSamples, CapacityIsNatural, IntervalsAssumption
<1>2. C > 2 * B
  BY <1>1, CapacityIsNatural
<1>3. n \in Nat /\ N = n + C
  BY <1>1 DEF Suffix
<1>4. PICK l \in 1..N : l = N - 1 /\ n \in 1..N /\ n <= l /\ l - n = C - 1
  BY <1>1, <1>2, <1>3
<1>5. all[n].ts + (l - n) <= all[l].ts
  BY <1>1, <1>4, TicksApart
<1>6. PICK x \in Nat, y \in Nat : x = all[n].ts /\ y = all[l].ts
  BY <1>1, <1>4, OrderedSamples
<1>7. y <= end
  BY <1>1, <1>4, <1>6
<1>8. x + (C - 1) <= y
  BY <1>4, <1>5, <1>6
<1>9. x <= end - 2 * B
  BY <1>1, <1>2, <1>7, <1>8
<1> QED BY <1>1, <1>4, <1>6, <1>9

================================================================================
