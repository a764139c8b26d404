-------------------------- MODULE MetricsRollupProofs --------------------------
(***************************************************************************)
(* Proofs about the roll-ups, for all sources, widths, gap rules and       *)
(* bounds.                                                                 *)
(***************************************************************************)
EXTENDS MetricsRollup, FiniteSetTheorems, WellFoundedInduction, TLAPS

\* A non-empty set of naturals has a least element.
LEMMA NatHasLeast ==
  ASSUME NEW S, S \subseteq Nat, S # {}
  PROVE  \E x \in S : \A y \in S : x <= y
<1> DEFINE R == OpToRel(<, Nat)
<1>1. \A a, b \in Nat : a < b => <<a, b>> \in R
  BY DEF OpToRel
<1>2. IsWellFoundedOn(R, Nat)
  BY NatLessThanWellFounded
<1> HIDE DEF R
<1>3. PICK x \in S : \A y \in S : ~ (<<y, x>> \in R)
  BY <1>2, WFMin
<1>4. ASSUME NEW y \in S PROVE x <= y
  <2>1. x \in Nat /\ y \in Nat
    OBVIOUS
  <2>2. ~(y < x)
    BY <2>1, <1>1, <1>3, Zenon
  <2> QED BY <2>1, <2>2
<1> QED BY <1>4

\* A non-empty finite set has an element where an integer function is largest:
\* the smallest subset without one could spare an element.
LEMMA FiniteHasLast ==
  ASSUME NEW S, IsFiniteSet(S), S # {}, NEW f, \A x \in S : f[x] \in Int
  PROVE  \E x \in S : \A y \in S : f[y] <= f[x]
<1> DEFINE HasLast(X) == \E x \in X : \A y \in X : f[y] <= f[x]
           Bad == {X \in SUBSET S : X # {} /\ ~HasLast(X)}
           Sizes == {Cardinality(X) : X \in Bad}
<1>1. SUFFICES ASSUME Bad # {} PROVE FALSE
  BY <1>1
<1>2. \A X \in SUBSET S : IsFiniteSet(X) /\ Cardinality(X) \in Nat
  BY FS_Subset, FS_CardinalityType
<1>3. PICK n \in Sizes : \A m \in Sizes : n <= m
  <2>1. Sizes \subseteq Nat /\ Sizes # {}
    BY <1>1, <1>2
  <2> HIDE DEF Sizes
  <2> QED BY <2>1, NatHasLeast
<1>4. PICK X \in Bad : Cardinality(X) = n
  BY <1>3
<1>5. PICK x : x \in X
  BY <1>4
<1>6. Cardinality(X \ {x}) = n - 1 /\ n \in Nat
  BY <1>2, <1>4, <1>5, FS_RemoveElement
<1>7. X \ {x} \notin Bad
  <2>1. X \ {x} \in Bad => n - 1 \in Sizes
    BY <1>6
  <2> HIDE DEF Bad, Sizes
  <2> QED BY <1>3, <1>6, <2>1
<1>8. CASE X \ {x} = {}
  <2>1. X = {x} /\ f[x] \in Int
    BY <1>8, <1>5, <1>4
  <2> QED BY <2>1, <1>4
<1>9. CASE X \ {x} # {}
  <2>1. PICK z \in X \ {x} : \A y \in X \ {x} : f[y] <= f[z]
    BY <1>7, <1>9, <1>4
  <2>2. \A y \in X : f[y] \in Int
    BY <1>4
  <2>3. CASE f[x] <= f[z]
    BY <2>1, <2>3, <1>4
  <2>4. CASE f[z] <= f[x]
    <3>1. \A y \in X : f[y] <= f[x]
      BY <2>1, <2>2, <2>4, <1>5
    <3> QED BY <3>1, <1>5, <1>4
  <2> QED BY <2>1, <2>2, <2>3, <2>4, <1>5
<1> QED BY <1>8, <1>9

\* A finite set of integers has a greatest element.
LEMMA GreatestOf ==
  ASSUME NEW S, IsFiniteSet(S), S # {}, S \subseteq Int
  PROVE  Greatest(S) \in S /\ \A y \in S : y <= Greatest(S)
<1> DEFINE f == [x \in S |-> x]
<1>1. \E x \in S : \A y \in S : f[y] <= f[x]
  <2>1. \A x \in S : f[x] \in Int
    OBVIOUS
  <2> HIDE DEF f
  <2> QED BY <2>1, FiniteHasLast
<1> QED BY <1>1 DEF Greatest

\* A set of naturals has a least element that Least picks.
LEMMA LeastOf ==
  ASSUME NEW S, S \subseteq Nat, S # {}
  PROVE  Least(S) \in S /\ \A y \in S : Least(S) <= y
BY NatHasLeast DEF Least

\* A finite set of rows has a latest one.
LEMMA LatestRow ==
  ASSUME NEW S, IsFiniteSet(S), S # {}, S \subseteq Row
  PROVE  \E x \in S : \A y \in S : y.ts <= x.ts
<1> DEFINE f == [r \in S |-> r.ts]
<1>1. \E x \in S : \A y \in S : f[y] <= f[x]
  <2>1. \A x \in S : f[x] \in Int
    BY DEF Row
  <2> HIDE DEF f
  <2> QED BY <2>1, FiniteHasLast
<1> QED BY <1>1

\* A restart finds the newest stored bucket.
LEMMA StoredCursorTyping ==
  ASSUME NEW S, IsFiniteSet(S), S \subseteq Row
  PROVE  /\ StoredCursor(S) \in Nat
         /\ StoredCursor(S) # None => \E r \in S : r.ts = StoredCursor(S)
<1>1. CASE S = {}
  BY <1>1 DEF StoredCursor, None
<1>2. CASE S # {}
  <2> DEFINE T == {r.ts : r \in S}
  <2>1. \E m \in T : \A y \in T : y <= m
    BY <1>2, LatestRow
  <2>2. Greatest(T) \in T
    BY <2>1 DEF Greatest
  <2> QED BY <1>2, <2>2 DEF StoredCursor, Row
<1> QED BY <1>1, <1>2

--------------------------------------------------------------------------------
\* A bucket's end is a multiple of its width, less than a width past the row.
LEMMA BucketEndBounds ==
  ASSUME NEW t \in Nat, NEW w \in Nat \ {0}
  PROVE  /\ BucketEnd(t, w) \in Nat /\ t <= BucketEnd(t, w) /\ BucketEnd(t, w) < t + w
         /\ \E m \in Int : BucketEnd(t, w) = m * w
<1>1. PICK q \in Int : q = (-t) \div w
  OBVIOUS
<1>2. q * w <= -t /\ -t < q * w + w
  BY <1>1, SMTT(30)
<1>3. PICK p \in Int : p = q * w
  OBVIOUS
<1>4. BucketEnd(t, w) = -p
  BY <1>1, <1>3 DEF BucketEnd
<1>5. -p = (-q) * w /\ -q \in Int
  BY <1>3
<1>6. \E m \in Int : BucketEnd(t, w) = m * w
  BY <1>4, <1>5, Zenon
<1>7. -p \in Nat /\ t <= -p /\ -p < t + w
  BY <1>2, <1>3
<1> QED BY <1>4, <1>6, <1>7

\* Multiples of a width are at least a width apart.
LEMMA MultiplesApart ==
  ASSUME NEW w \in Nat \ {0}, NEW m \in Int, NEW n \in Int, m * w < n * w
  PROVE  m * w + w <= n * w
<1>1. m < n
  BY SMTT(30)
<1>2. m + 1 <= n
  BY <1>1
<1>3. (m + 1) * w <= n * w
  BY <1>2, SMTT(30)
<1>4. (m + 1) * w = m * w + w
  BY SMTT(30)
<1> QED BY <1>3, <1>4

\* A row is in the bucket whose window it lies in.
LEMMA BucketEndUnique ==
  ASSUME NEW t \in Nat, NEW w \in Nat \ {0}, NEW m \in Int,
         t <= m * w, m * w < t + w
  PROVE  BucketEnd(t, w) = m * w
<1>1. PICK n \in Int : BucketEnd(t, w) = n * w
  BY BucketEndBounds
<1>2. PICK a \in Int, b \in Int : a = m * w /\ b = n * w
  OBVIOUS
<1>3. t <= b /\ b < t + w
  BY <1>1, <1>2, BucketEndBounds
<1>4. a < b => a + w <= b
  BY <1>2, MultiplesApart
<1>5. b < a => b + w <= a
  BY <1>2, MultiplesApart
<1> QED BY <1>1, <1>2, <1>3, <1>4, <1>5

\* The window of a bucket is the set of the instants that fall into it.
LEMMA WindowOfBucket ==
  ASSUME NEW t \in Nat, NEW w \in Nat \ {0}, NEW u \in Nat
  PROVE  u \in Window(BucketEnd(t, w), w) <=> BucketEnd(u, w) = BucketEnd(t, w)
<1>1. PICK m \in Int : BucketEnd(t, w) = m * w
  BY BucketEndBounds
<1>2. PICK e \in Nat : e = BucketEnd(t, w)
  BY BucketEndBounds
<1>3. u \in Window(e, w) => u <= e /\ e < u + w
  BY DEF Window
<1>4. u \in Window(e, w) => BucketEnd(u, w) = e
  BY <1>1, <1>2, <1>3, BucketEndUnique
<1>5. BucketEnd(u, w) = e => u \in Window(e, w)
  <2>1. u <= BucketEnd(u, w) /\ BucketEnd(u, w) < u + w
    BY BucketEndBounds
  <2> QED BY <2>1 DEF Window
<1> QED BY <1>2, <1>4, <1>5

\* A bucket ends at the first multiple of its width that is not before the row.
LEMMA BucketEndLeast ==
  ASSUME NEW t \in Nat, NEW w \in Nat \ {0}, NEW m \in Int, t <= m * w
  PROVE  BucketEnd(t, w) <= m * w
<1>1. PICK n \in Int : BucketEnd(t, w) = n * w
  BY BucketEndBounds
<1>2. PICK a \in Int, b \in Int : a = m * w /\ b = n * w
  OBVIOUS
<1>3. a < b => a + w <= b
  BY <1>2, MultiplesApart
<1>4. b < t + w
  BY <1>1, <1>2, BucketEndBounds
<1> QED BY <1>1, <1>2, <1>3, <1>4

\* So a later row is in the same bucket or in a later one.
LEMMA BucketEndMonotone ==
  ASSUME NEW t \in Nat, NEW u \in Nat, NEW w \in Nat \ {0}, t <= u
  PROVE  BucketEnd(t, w) <= BucketEnd(u, w)
<1>1. PICK n \in Int : BucketEnd(u, w) = n * w
  BY BucketEndBounds
<1>2. u <= n * w /\ n * w \in Int
  BY <1>1, BucketEndBounds
<1> QED BY <1>1, <1>2, BucketEndLeast

\* The rows of a bucket are all before another bucket, all in it, or all after it.
LEMMA BucketOnOneSide ==
  ASSUME NEW t \in Nat, NEW u \in Nat, NEW v \in Nat, NEW w \in Nat \ {0},
         BucketEnd(t, w) = BucketEnd(u, w)
  PROVE  /\ t <= BucketEnd(v, w) => u <= BucketEnd(v, w)
         /\ t < BucketEnd(v, w) - w + 1 => u < BucketEnd(v, w) - w + 1
<1>1. PICK m \in Int : BucketEnd(v, w) = m * w
  BY BucketEndBounds
<1>2. PICK a \in Int, b \in Int : a = m * w /\ b = BucketEnd(t, w)
  BY BucketEndBounds
<1>3. a - w = (m - 1) * w /\ m - 1 \in Int
  BY <1>2, SMTT(30)
<1>4. u <= b
  BY <1>2, BucketEndBounds
<1>5. t <= a => b <= a
  BY <1>2, BucketEndLeast
<1>6. t <= a - w => b <= a - w
  BY <1>2, <1>3, BucketEndLeast
<1> QED BY <1>1, <1>2, <1>4, <1>5, <1>6

\* Nested widths: the bucket of the wider one contains that of the narrower.
LEMMA NestedWindows ==
  ASSUME NEW t \in Nat, NEW v \in Widths, NEW w \in Widths, v <= w
  PROVE  Window(BucketEnd(t, v), v) \subseteq Window(BucketEnd(t, w), w)
<1>1. v \in Nat \ {0} /\ w \in Nat \ {0}
  BY ConstantsAssumption
<1>2. PICK k \in 1..w : w = k * v
  BY WidthsNest
<1>3. PICK m \in Int : BucketEnd(t, v) = m * v
  BY <1>1, BucketEndBounds
<1>4. PICK n \in Int : BucketEnd(t, w) = n * w
  BY <1>1, BucketEndBounds
<1>5. /\ n * w = (n * k) * v /\ n * k \in Int
      /\ n * w - w = (n * k - k) * v /\ n * k - k \in Int
  BY <1>1, <1>2, SMTT(30)
<1>6. PICK a \in Int, b \in Int : a = m * v /\ b = n * w
  BY <1>1
<1>7. t <= a /\ a < t + v /\ t <= b /\ b < t + w
  BY <1>1, <1>3, <1>4, <1>6, BucketEndBounds
<1>8. b < a => b + v <= a
  BY <1>1, <1>5, <1>6, MultiplesApart
<1>9. b - w < a => (b - w) + v <= a
  BY <1>1, <1>5, <1>6, MultiplesApart
<1>10. a <= b /\ b - w <= a - v
  BY <1>1, <1>7, <1>8, <1>9
<1> QED BY <1>1, <1>3, <1>4, <1>6, <1>10 DEF Window

--------------------------------------------------------------------------------
\* Rows have a first one in the order of the select.
LEMMA FirstRow ==
  ASSUME NEW S, S \subseteq Row, S # {}
  PROVE  \E x \in S : \A y \in S : ~Before(y, x)
<1> DEFINE C == {r.cid : r \in S}
<1>1. PICK c \in C : \A d \in C : c <= d
  <2>1. C \subseteq Nat /\ C # {}
    BY DEF Row
  <2> HIDE DEF C
  <2> QED BY <2>1, NatHasLeast
<1> DEFINE T == {r.ts : r \in {q \in S : q.cid = c}}
<1>2. PICK t \in T : \A u \in T : t <= u
  <2>1. T \subseteq Nat /\ T # {}
    BY <1>1 DEF Row
  <2> HIDE DEF T
  <2> QED BY <2>1, NatHasLeast
<1>3. PICK x \in S : x.cid = c /\ x.ts = t
  BY <1>2
<1>4. ASSUME NEW y \in S PROVE ~Before(y, x)
  <2>1. c <= y.cid /\ (y.cid = c => t <= y.ts)
    BY <1>1, <1>2
  <2>2. y.cid \in Nat /\ y.ts \in Nat /\ c \in Nat /\ t \in Nat
    BY <1>3 DEF Row
  <2> QED BY <1>3, <2>1, <2>2 DEF Before
<1> QED BY <1>4

\* Where a search ends: the last row before it satisfies the predicate and the
\* first row after it does not.
LEMMA PartitionEdges ==
  ASSUME NEW rows, rows \subseteq Row, NEW sat, NEW prefix \in PartitionPoints(rows, sat)
  PROVE  /\ prefix \subseteq rows
         /\ prefix # {} => \E m \in prefix : /\ m \in sat
                                             /\ prefix = {y \in rows : y = m \/ Before(y, m)}
         /\ rows \ prefix # {} => \E n \in rows \ prefix :
              n \notin sat /\ \A y \in rows \ prefix : ~Before(y, n)
<1>1. prefix \in Prefixes(rows) /\ prefix \subseteq rows
  BY DEF PartitionPoints, Prefixes
<1>2. ASSUME prefix # {}
      PROVE  \E m \in prefix : m \in sat /\ prefix = {y \in rows : y = m \/ Before(y, m)}
  <2>1. PICK m \in rows : prefix = {y \in rows : y = m \/ Before(y, m)}
    BY <1>1, <1>2 DEF Prefixes
  <2>2. m \in prefix /\ \A y \in prefix : ~Before(m, y)
    BY <2>1 DEF Before, Row
  <2>3. m \in sat
    BY <2>2 DEF PartitionPoints
  <2> QED BY <2>1, <2>2, <2>3
<1>3. ASSUME rows \ prefix # {}
      PROVE  \E n \in rows \ prefix : n \notin sat /\ \A y \in rows \ prefix : ~Before(y, n)
  <2>1. rows \ prefix \subseteq Row
    OBVIOUS
  <2>2. PICK n \in rows \ prefix : \A y \in rows \ prefix : ~Before(y, n)
    BY <1>3, <2>1, FirstRow
  <2>3. n \notin sat
    BY <2>2 DEF PartitionPoints
  <2> QED BY <2>2, <2>3
<1> QED BY <1>1, <1>2, <1>3

\* If the rows that satisfy the predicate come first, the search ends behind them.
LEMMA OrderedPartition ==
  ASSUME NEW rows, rows \subseteq Row, NEW sat, sat \subseteq rows,
         \A x \in sat, y \in rows : Before(y, x) => y \in sat,
         NEW prefix \in PartitionPoints(rows, sat)
  PROVE  prefix = sat
<1>1. prefix \subseteq sat
  <2> SUFFICES ASSUME NEW y \in prefix PROVE y \in sat
    OBVIOUS
  <2>1. PICK m \in prefix : m \in sat /\ prefix = {z \in rows : z = m \/ Before(z, m)}
    BY PartitionEdges
  <2> QED BY <2>1
<1>2. SUFFICES ASSUME NEW x \in sat, x \notin prefix PROVE FALSE
  BY <1>1
<1>3. PICK n \in rows \ prefix : n \notin sat /\ \A y \in rows \ prefix : ~Before(y, n)
  BY <1>2, PartitionEdges
<1>4. ~Before(x, n) /\ ~Before(n, x) /\ x # n
  BY <1>2, <1>3
<1>5. x = n
  <2>1. x \in [ts: Nat, cid: Nat] /\ n \in [ts: Nat, cid: Nat]
    BY <1>3 DEF Row
  <2>2. x.ts = n.ts /\ x.cid = n.cid
    BY <1>4, <2>1 DEF Before
  <2> QED BY <2>1, <2>2
<1> QED BY <1>4, <1>5

\* Of one series, or of rows that are all in the range, slice_by_range cuts out
\* the rows of the range and no others.
LEMMA OrderedSlice ==
  ASSUME NEW rows, rows \subseteq Row, NEW lo \in Int, NEW hi \in Int, lo <= hi,
         \/ \A x, y \in rows : x.cid = y.cid
         \/ \A x \in rows : x.ts \in lo..hi,
         NEW slice \in Slices(rows, lo..hi)
  PROVE  slice = {r \in rows : r.ts \in lo..hi}
<1> DEFINE sooner == {r \in rows : \A t \in lo..hi : r.ts < t}
           within == {r \in rows : \E t \in lo..hi : r.ts <= t}
<1>1. PICK start \in PartitionPoints(rows, sooner), end \in PartitionPoints(rows, within) :
        slice = end \ start
  BY DEF Slices
<1>2. \A r \in rows : r.ts \in Int /\ r.cid \in Int
  BY DEF Row
<1>3. sooner = {r \in rows : r.ts < lo}
  BY <1>2
<1>4. within = {r \in rows : r.ts <= hi}
  BY <1>2
<1> HIDE DEF sooner, within
<1>5. \A x, y \in rows : Before(y, x) =>
        (x \in sooner => y \in sooner) /\ (x \in within => y \in within)
  BY <1>2, <1>3, <1>4 DEF Before
<1>6. start = sooner
  BY <1>1, <1>3, <1>5, OrderedPartition
<1>7. end = within
  BY <1>1, <1>4, <1>5, OrderedPartition
<1> QED BY <1>1, <1>2, <1>3, <1>4, <1>6, <1>7

\* Of any rows, a search does not part two of a series that agree on an early
\* predicate.
LEMMA PartitionKeepsTogether ==
  ASSUME NEW rows, rows \subseteq Row, NEW sat,
         \A x, y \in rows : x.cid = y.cid /\ y.ts <= x.ts /\ x \in sat => y \in sat,
         NEW prefix \in PartitionPoints(rows, sat),
         NEW x \in rows, NEW y \in rows, x.cid = y.cid, x \in sat <=> y \in sat,
         x \in prefix
  PROVE  y \in prefix
<1> SUFFICES ASSUME y \notin prefix PROVE FALSE
  OBVIOUS
<1>1. PICK m \in prefix : m \in sat /\ prefix = {z \in rows : z = m \/ Before(z, m)}
  BY PartitionEdges
<1>2. PICK n \in rows \ prefix : n \notin sat /\ \A z \in rows \ prefix : ~Before(z, n)
  BY PartitionEdges
<1>3. x = m \/ Before(x, m)
  BY <1>1
<1>4. ~Before(n, m) /\ ~Before(y, m) /\ ~Before(y, n)
  BY <1>1, <1>2
<1>5. \A z \in {x, y, m, n} : z.ts \in Nat /\ z.cid \in Nat /\ z \in rows
  BY <1>1, <1>2, PartitionEdges DEF Row
<1>6. m.cid = x.cid /\ n.cid = x.cid /\ x.ts <= m.ts /\ n.ts <= y.ts
  BY <1>3, <1>4, <1>5 DEF Before
<1>7. x \in sat /\ y \notin sat
  BY <1>1, <1>2, <1>5, <1>6
<1> QED BY <1>7

\* So a slice holds all the rows of a series that lie on the same side of the
\* range, or none of them.
LEMMA SliceKeepsTogether ==
  ASSUME NEW rows, rows \subseteq Row, NEW lo \in Int, NEW hi \in Int, lo <= hi,
         NEW slice \in Slices(rows, lo..hi),
         NEW x \in slice, NEW y \in rows, x.cid = y.cid,
         x.ts < lo <=> y.ts < lo, x.ts <= hi <=> y.ts <= hi
  PROVE  y \in slice
<1> DEFINE sooner == {r \in rows : \A t \in lo..hi : r.ts < t}
           within == {r \in rows : \E t \in lo..hi : r.ts <= t}
<1>1. PICK start \in PartitionPoints(rows, sooner), end \in PartitionPoints(rows, within) :
        slice = end \ start
  BY DEF Slices
<1>2. \A r \in rows : r.ts \in Int
  BY DEF Row
<1>3. sooner = {r \in rows : r.ts < lo}
  BY <1>2
<1>4. within = {r \in rows : r.ts <= hi}
  BY <1>2
<1> HIDE DEF sooner, within
<1>5. x \in rows
  BY <1>1, PartitionEdges
<1>6. y \in end
  <2>1. \A a, b \in rows : a.cid = b.cid /\ b.ts <= a.ts /\ a \in within => b \in within
    BY <1>2, <1>4
  <2>2. x \in within <=> y \in within
    BY <1>4, <1>5
  <2> QED BY <1>1, <1>5, <2>1, <2>2, PartitionKeepsTogether
<1>7. y \notin start
  <2>1. \A a, b \in rows : a.cid = b.cid /\ b.ts <= a.ts /\ a \in sooner => b \in sooner
    BY <1>2, <1>3
  <2>2. y \in sooner <=> x \in sooner
    BY <1>3, <1>5
  <2> QED BY <1>1, <1>5, <2>1, <2>2, PartitionKeepsTogether
<1> QED BY <1>1, <1>6, <1>7

\* A roll-up reads stored rows only.
LEMMA SlicesOfRows ==
  ASSUME NEW rows, NEW range, NEW slice \in Slices(rows, range)
  PROVE  slice \subseteq rows
BY DEF Slices, PartitionPoints, Prefixes

\* What it makes of them are rows of a coarse table.
LEMMA DownsampleTyping ==
  ASSUME NEW rows, rows \subseteq Row, NEW w \in Nat \ {0}
  PROVE  Downsample(rows, w) \subseteq CoarseRow
<1>1. SUFFICES ASSUME NEW r \in rows
               PROVE Aggregate(rows, BucketEnd(r.ts, w), w, r.cid) \in CoarseRow
  BY DEF Downsample
<1>2. BucketEnd(r.ts, w) \in Nat /\ r.cid \in Nat
  BY BucketEndBounds DEF Row
<1>3. {q.ts : q \in {p \in rows : p.cid = r.cid /\ BucketEnd(p.ts, w) = BucketEnd(r.ts, w)}}
        \in SUBSET Nat
  BY DEF Row
<1> QED BY <1>2, <1>3 DEF Aggregate, CoarseRow

--------------------------------------------------------------------------------
\* A new collector has nothing under way.
LEMMA RollupInvInit == Init => RollupInv
<1> SUFFICES ASSUME Init PROVE RollupInv
  OBVIOUS
<1>1. TypeOK
  BY ConstantsAssumption DEF Init, TypeOK, None
<1>2. IsFiniteSet(raw)
  BY FS_EmptySet DEF Init
<1> QED BY <1>1, <1>2 DEF Init, RollupInv

\* An insert adds finitely many rows of the source's series.
LEMMA StoredRows ==
  ASSUME NEW S, IsFiniteSet(S), S \subseteq Nat, NEW t \in Nat
  PROVE  LET R == {[ts |-> t, cid |-> c] : c \in S}
         IN  IsFiniteSet(R) /\ R \subseteq Row
<1> DEFINE R == {[ts |-> t, cid |-> c] : c \in S}
           f == [c \in S |-> [ts |-> t, cid |-> c]]
<1>1. f \in Surjection(S, R)
  BY DEF Surjection
<1> HIDE DEF f
<1>2. IsFiniteSet(R)
  <2> HIDE DEF R
  <2> QED BY <1>1, FS_Surjection
<1>3. R \subseteq Row
  BY DEF Row
<1> QED BY <1>2, <1>3

\* Every step keeps the invariant.
LEMMA RollupInvStep == RollupInv /\ [Next]_vars => RollupInv'
<1> SUFFICES ASSUME RollupInv, [Next]_vars PROVE RollupInv'
  OBVIOUS
<1> USE DEF None
<1>1. TypeOK /\ IsFiniteSet(raw) /\ Widths \subseteq Nat \ {0}
  BY ConstantsAssumption DEF RollupInv
<1>2. ASSUME NEW current \in 1..MaxTime, Sample(current) PROVE RollupInv'
  <2>1. current \in Nat
    BY ConstantsAssumption
  <2> QED BY <1>2, <2>1 DEF RollupInv, TypeOK, Sample, Idle, rolling
<1>3. ASSUME NEW current \in 1..MaxTime, StepBack(current) PROVE RollupInv'
  <2>1. current \in Nat
    BY ConstantsAssumption
  <2>2. troubles' \in 0..MaxTroubles /\ suffered' \subseteq Trouble
    <3>1. troubles' \in 0..MaxTroubles
      <4>1. troubles \in 0..MaxTroubles /\ troubles < MaxTroubles /\ troubles' = troubles + 1
        BY <1>1, <1>3 DEF TypeOK, StepBack, Suffers
      <4> QED BY <4>1, ConstantsAssumption
    <3>2. suffered' \subseteq Trouble
      BY <1>1, <1>3 DEF TypeOK, StepBack, Suffers, Trouble
    <3> QED BY <3>1, <3>2
  <2> QED BY <1>3, <2>1, <2>2 DEF RollupInv, TypeOK, StepBack, Idle, rolling
<1>4. ASSUME NEW current \in 1..MaxTime, NEW batch \in (SUBSET source) \ {{}},
             Store(current, batch)
      PROVE  RollupInv'
  <2> DEFINE new == {[ts |-> last, cid |-> c] : c \in batch}
             previous == PreviousTs(last)
             closed == IF previous = None THEN {} ELSE Closed(previous, last)
  <2>1. current \in Nat /\ last \in Nat \ {0} /\ source \in Sources
    BY <1>1, <1>4, ConstantsAssumption DEF TypeOK, Store
  <2>2. batch \subseteq Nat /\ IsFiniteSet(batch) /\ batch \subseteq source
    BY <2>1, ConstantsAssumption, FS_Subset
  <2>3. IsFiniteSet(new) /\ new \subseteq Row
    BY <2>1, <2>2, StoredRows
  <2>4. \E r \in new : r.ts = last
    <3>1. PICK c : c \in batch
      BY <1>4
    <3>2. [ts |-> last, cid |-> c] \in new
      BY <3>1
    <3> HIDE DEF new
    <3> QED BY <3>2
  <2>5. \A r \in new : r.cid \in source
    BY <2>2
  <2>6. raw' = raw \cup new /\ cursor' = last /\ todo' = closed
    BY <1>4 DEF Store
  <2>7. previous \in Nat /\ (previous # None => previous < last)
    BY <1>1, <2>1 DEF PreviousTs, TypeOK
  <2>8. closed \subseteq Widths /\ (closed # {} => closed = Closed(previous, last))
    BY DEF Closed
  <2>9. /\ closing' = IF closed = {} THEN None ELSE previous
        /\ samples' = IF closed = {} THEN {} ELSE Fetched(raw', previous, closed)
    BY <1>4 DEF Store
  <2>10. closed # {} => previous # None
    OBVIOUS
  <2> HIDE DEF new, previous, closed
  <2>11. IsFiniteSet(raw') /\ raw' \subseteq Row
    BY <1>1, <2>3, <2>6, FS_Union DEF TypeOK
  <2>12. \A r \in raw' : r.cid \in source'
    BY <1>4, <2>5, <2>6 DEF RollupInv, Store
  <2>13. \E r \in raw' : r.ts = cursor'
    BY <2>4, <2>6
  <2>14. samples' \subseteq raw'
    BY <2>9 DEF Fetched
  <2>15. closed # {} => /\ closed = Closed(previous, last)
                        /\ closing' = previous /\ closing' # None /\ closing' < cursor'
                        /\ samples' = Fetched(raw', previous, closed)
    BY <2>6, <2>7, <2>8, <2>9, <2>10
  <2>16. TypeOK'
    <3>1. closing' \in Nat /\ cursor' \in Nat /\ todo' \subseteq Widths
      BY <2>1, <2>6, <2>7, <2>8, <2>9
    <3> QED BY <1>1, <1>4, <2>1, <2>6, <2>11, <2>14, <2>15, <3>1 DEF TypeOK, Store
  <2>17. todo' # {} => /\ todo' \subseteq Closed(closing', cursor')
                       /\ samples' = Fetched(raw', closing', Closed(closing', cursor'))
    BY <2>6, <2>15
  <2> QED BY <2>11, <2>12, <2>13, <2>16, <2>17 DEF RollupInv
<1>5. CASE RollUp
  <2> DEFINE w == Least(todo)
  <2>1. w \in todo /\ w \in Widths /\ w \in Nat \ {0}
    BY <1>1, <1>5, LeastOf DEF TypeOK, RollUp
  <2>2. PICK slice \in Slices(samples, Window(BucketEnd(closing, w), w)) :
          coarse' = [coarse EXCEPT ![w] = Replaced(@, Downsample(slice, w))]
    BY <1>5 DEF RollUp
  <2>3. slice \subseteq Row
    BY <1>1, SlicesOfRows DEF TypeOK
  <2>4. Downsample(slice, w) \subseteq CoarseRow
    BY <2>1, <2>3, DownsampleTyping
  <2>5. coarse' \in [Widths -> SUBSET CoarseRow]
    <3>1. Replaced(coarse[w], Downsample(slice, w)) \subseteq CoarseRow
      BY <1>1, <2>1, <2>4 DEF Replaced, TypeOK
    <3> HIDE DEF w
    <3> QED BY <1>1, <2>1, <2>2, <3>1 DEF TypeOK
  <2>6. /\ todo' \subseteq todo
        /\ closing' = IF todo' = {} THEN None ELSE closing
        /\ samples' = IF todo' = {} THEN {} ELSE samples
        /\ UNCHANGED <<source, raw, now, last, cursor, troubles, suffered>>
    BY <1>5 DEF RollUp, collector
  <2> HIDE DEF w
  <2>7. TypeOK'
    BY <1>1, <2>5, <2>6 DEF TypeOK
  <2>8. todo' # {} => closing' = closing /\ samples' = samples /\ todo # {}
    BY <2>6
  <2> QED BY <2>6, <2>7, <2>8 DEF RollupInv
<1>6. CASE RollUpFails
  <2>1. troubles' \in 0..MaxTroubles /\ suffered' \subseteq Trouble
    <3>1. troubles' \in 0..MaxTroubles
      BY <1>1, <1>6, ConstantsAssumption DEF TypeOK, RollUpFails, Suffers
    <3>2. suffered' \subseteq Trouble
      BY <1>1, <1>6 DEF TypeOK, RollUpFails, Suffers, Trouble
    <3> QED BY <3>1, <3>2
  <2> QED BY <1>6, <2>1 DEF RollupInv, TypeOK, RollUpFails, collector
<1>7. CASE Restart
  <2>1. troubles' \in 0..MaxTroubles /\ suffered' \subseteq Trouble
    <3>1. troubles' \in 0..MaxTroubles
      BY <1>1, <1>7, ConstantsAssumption DEF TypeOK, Restart
    <3>2. suffered' \subseteq Trouble
      BY <1>1, <1>7 DEF TypeOK, Restart, Trouble
    <3> QED BY <3>1, <3>2
  <2>2. cursor' \in Nat /\ (cursor' # None => \E r \in raw : r.ts = cursor')
    BY <1>1, <1>7, StoredCursorTyping DEF TypeOK, Restart
  <2> QED BY <1>7, <2>1, <2>2 DEF RollupInv, TypeOK, Restart
<1>8. CASE UNCHANGED vars
  BY <1>8 DEF RollupInv, TypeOK, vars, collector, rolling, Fetched, Closed
<1> QED BY <1>2, <1>3, <1>4, <1>5, <1>6, <1>7, <1>8 DEF Next

\* The invariant holds throughout.
LEMMA RollupInvAlways == Spec => []RollupInv
<1>1. Init => RollupInv
  BY RollupInvInit
<1>2. RollupInv /\ [Next]_vars => RollupInv'
  BY RollupInvStep
<1> QED BY <1>1, <1>2, PTL DEF Spec

\* Every variable keeps the shape the code gives it, for all sources, widths
\* and gap rules, whatever the clock does and whatever fails.
THEOREM TypeCorrect == Spec => []TypeOK
<1>1. RollupInv => TypeOK
  BY DEF RollupInv
<1> QED BY <1>1, RollupInvAlways, PTL

--------------------------------------------------------------------------------
\* A bucket that the cursor has left ends before it.
LEMMA ClosedIsBefore ==
  ASSUME NEW t \in Nat, NEW u \in Nat, NEW w \in Nat \ {0}, t <= u,
         BucketEnd(u, w) # BucketEnd(t, w)
  PROVE  BucketEnd(t, w) < u
<1>1. PICK m \in Int : BucketEnd(t, w) = m * w
  BY BucketEndBounds
<1>2. PICK a \in Int : a = m * w
  OBVIOUS
<1>3. t <= a /\ a < t + w
  BY <1>1, <1>2, BucketEndBounds
<1>4. ASSUME u <= a PROVE FALSE
  <2>1. u <= m * w /\ m * w < u + w
    BY <1>2, <1>3, <1>4
  <2>2. BucketEnd(u, w) = m * w
    BY <2>1, BucketEndUnique
  <2> QED BY <1>1, <2>2
<1> QED BY <1>1, <1>2, <1>4

\* What a roll-up under way has to do with: the widest bucket that was closed.
LEMMA WidestClosed ==
  ASSUME RollupInv, NEW w \in todo
  PROVE  \E v \in Closed(closing, cursor) :
           /\ w <= v /\ v = Greatest(Closed(closing, cursor))
           /\ samples = {r \in raw : r.ts \in Window(BucketEnd(closing, v), v)}
<1> DEFINE C == Closed(closing, cursor)
<1>1. C \subseteq Widths /\ Widths \subseteq Nat /\ w \in C /\ samples = Fetched(raw, closing, C)
  BY ConstantsAssumption DEF RollupInv, Closed
<1>2. C \subseteq Int /\ C # {} /\ IsFiniteSet(C)
  <2>1. Widths \subseteq Int /\ IsFiniteSet(Widths)
    BY ConstantsAssumption
  <2> HIDE DEF C
  <2>2. IsFiniteSet(C)
    BY <1>1, <2>1, FS_Subset
  <2> QED BY <1>1, <2>1, <2>2
<1> HIDE DEF C
<1>3. Greatest(C) \in C /\ w <= Greatest(C)
  BY <1>1, <1>2, GreatestOf
<1> QED BY <1>1, <1>3 DEF Fetched, FetchWidth, C

\* A roll-up makes whole rows of buckets that have elapsed: no search parts the
\* rows of a bucket, and what was read holds all of them.
LEMMA RollUpWritesWhole ==
  ASSUME RollupInv, NEW w \in todo,
         NEW slice \in Slices(samples, Window(BucketEnd(closing, w), w)),
         NEW p \in Downsample(slice, w)
  PROVE  p = Whole(p.ts, w, p.cid) /\ p.ts < cursor
<1>1. /\ raw \subseteq Row /\ samples \subseteq raw
      /\ closing \in Nat /\ cursor \in Nat /\ w \in Widths /\ w \in Nat \ {0}
      /\ closing < cursor
  BY ConstantsAssumption DEF RollupInv, TypeOK
<1>2. PICK v \in Closed(closing, cursor) :
        w <= v /\ samples = {r \in raw : r.ts \in Window(BucketEnd(closing, v), v)}
  BY WidestClosed
<1>3. v \in Widths /\ v \in Nat \ {0} /\ BucketEnd(cursor, v) # BucketEnd(closing, v)
  BY ConstantsAssumption DEF Closed
<1>4. PICK x \in slice : p = Aggregate(slice, BucketEnd(x.ts, w), w, x.cid)
  BY DEF Downsample
<1>5. x \in samples /\ x.ts \in Nat
  BY <1>1, SlicesOfRows DEF Row
<1>6. PICK end \in Nat : end = BucketEnd(x.ts, w)
  BY <1>1, <1>5, BucketEndBounds
<1>7. Window(end, w) \subseteq Window(BucketEnd(closing, v), v)
  <2>1. BucketEnd(x.ts, v) = BucketEnd(closing, v)
    BY <1>1, <1>2, <1>3, <1>5, WindowOfBucket
  <2> QED BY <1>1, <1>2, <1>3, <1>5, <1>6, <2>1, NestedWindows
<1>8. ASSUME NEW y \in raw, y.cid = x.cid, BucketEnd(y.ts, w) = end
      PROVE  y \in slice
  <2>1. y.ts \in Nat
    BY <1>1 DEF Row
  <2>2. y \in samples
    <3>1. y.ts \in Window(end, w)
      BY <1>1, <1>5, <1>6, <1>8, <2>1, WindowOfBucket
    <3> QED BY <1>2, <1>7, <3>1
  <2>3. PICK hi \in Int : hi = BucketEnd(closing, w)
    BY <1>1, BucketEndBounds
  <2>4. /\ x.ts < hi - w + 1 <=> y.ts < hi - w + 1
        /\ x.ts <= hi <=> y.ts <= hi
    BY <1>1, <1>5, <1>6, <1>8, <2>1, <2>3, BucketOnOneSide
  <2>5. samples \subseteq Row /\ hi - w + 1 \in Int /\ hi - w + 1 <= hi
    BY <1>1, <2>3
  <2>6. slice \in Slices(samples, (hi - w + 1)..hi)
    BY <2>3 DEF Window
  <2> QED BY <1>8, <2>2, <2>3, <2>4, <2>5, <2>6, SliceKeepsTogether
<1>9. p.ts = end /\ p.cid = x.cid
  BY <1>4, <1>6 DEF Aggregate
<1>10. p = Whole(p.ts, w, p.cid)
  <2>1. slice \subseteq raw
    BY <1>1, SlicesOfRows
  <2>2. {q \in slice : q.cid = x.cid /\ BucketEnd(q.ts, w) = end}
          = {q \in raw : q.cid = x.cid /\ BucketEnd(q.ts, w) = end}
    BY <1>8, <2>1
  <2> QED BY <1>4, <1>6, <1>9, <2>2, Zenon DEF Whole, Aggregate
<1>11. end < cursor
  <2>1. end \in Window(end, w)
    BY <1>1 DEF Window
  <2>2. end <= BucketEnd(closing, v) /\ BucketEnd(closing, v) \in Nat
    BY <1>1, <1>3, <1>7, <2>1, BucketEndBounds DEF Window
  <2>3. BucketEnd(closing, v) < cursor
    BY <1>1, <1>3, ClosedIsBefore
  <2> QED BY <1>1, <2>2, <2>3
<1> QED BY <1>9, <1>10, <1>11

\* The width a roll-up step writes, and what it writes.
LEMMA RollUpWrites ==
  ASSUME RollupInv, RollUp
  PROVE  \E w \in todo : \E slice \in Slices(samples, Window(BucketEnd(closing, w), w)) :
           /\ coarse' = [coarse EXCEPT ![w] = Replaced(@, Downsample(slice, w))]
           /\ todo' = todo \ {w}
<1>1. Least(todo) \in todo
  BY LeastOf, ConstantsAssumption DEF RollUp, RollupInv, TypeOK
<1> QED BY <1>1 DEF RollUp

\* For every gap rule, every nesting set of widths and every run of samples,
\* failures, restarts and clock jumps, a roll-up, of the host or of containers, only
\* ever writes a coarse row from all the rows of its bucket, and only once a row
\* past it is stored.
THEOREM RollsUpWhole == Spec => WritesWholeElapsedBuckets
<1> DEFINE Writes ==
             \A w \in Widths : \A p \in coarse'[w] \ coarse[w] :
               /\ p = Whole(p.ts, w, p.cid)
               /\ \E r \in raw : r.ts > p.ts
<1>1. RollupInv /\ [Next]_vars => [Writes]_vars
  <2> SUFFICES ASSUME RollupInv, Next PROVE Writes
    OBVIOUS
  <2>1. CASE UNCHANGED coarse
    BY <2>1
  <2>2. CASE RollUp
    <3>0. PICK v \in todo : \E slice \in Slices(samples, Window(BucketEnd(closing, v), v)) :
            coarse' = [coarse EXCEPT ![v] = Replaced(@, Downsample(slice, v))]
      BY <2>2, RollUpWrites
    <3>1. PICK slice \in Slices(samples, Window(BucketEnd(closing, v), v)) :
            coarse' = [coarse EXCEPT ![v] = Replaced(@, Downsample(slice, v))]
      BY <3>0
    <3> SUFFICES ASSUME NEW w \in Widths, NEW p \in coarse'[w] \ coarse[w]
                 PROVE  p = Whole(p.ts, w, p.cid) /\ \E r \in raw : r.ts > p.ts
      OBVIOUS
    <3>2. w = v /\ p \in Downsample(slice, v)
      BY <3>1 DEF Replaced, RollupInv, TypeOK
    <3>3. p = Whole(p.ts, w, p.cid) /\ p.ts < cursor
      BY <3>1, <3>2, RollUpWritesWhole
    <3>4. \E r \in raw : r.ts = cursor
      BY DEF RollupInv, TypeOK, None
    <3> QED BY <3>3, <3>4
  <2>3. Next => RollUp \/ UNCHANGED coarse
    BY DEF Next, Sample, StepBack, Store, RollUpFails, Restart
  <2> QED BY <2>1, <2>2, <2>3
<1> QED BY <1>1, RollupInvAlways, PTL DEF Spec, WritesWholeElapsedBuckets
--------------------------------------------------------------------------------
(* What stays rolled up while the clock does not step back. *)

\* Troubles are remembered.
LEMMA TroublesStay == [Next]_vars => suffered \subseteq suffered' /\ (ClockAdvances' => ClockAdvances)
<1>1. [Next]_vars => suffered \subseteq suffered'
  BY DEF Next, Sample, StepBack, Store, RollUp, RollUpFails, Restart, Suffers, vars
<1> QED BY <1>1 DEF ClockAdvances

\* Newer rows do not change the whole of a bucket that ends before them.
LEMMA WholeStays ==
  ASSUME RollupInv, NEW rows, raw \subseteq rows, NEW t \in Nat,
         \A r \in rows \ raw : r.ts = t,
         NEW w \in Widths, NEW end \in Nat, end < t
  PROVE  \A c : Aggregate(rows, end, w, c) = Whole(end, w, c)
<1>1. w \in Nat \ {0}
  BY ConstantsAssumption
<1>2. BucketEnd(t, w) # end
  BY <1>1, BucketEndBounds
<1> SUFFICES ASSUME NEW c PROVE Aggregate(rows, end, w, c) = Whole(end, w, c)
  OBVIOUS
<1>3. {q \in rows : q.cid = c /\ BucketEnd(q.ts, w) = end}
        = {q \in raw : q.cid = c /\ BucketEnd(q.ts, w) = end}
  BY <1>2
<1> QED BY <1>3, Zenon DEF Whole, Aggregate

\* While the clock has not stepped back, a restart finds the cursor it had.
LEMMA RestartFindsCursor ==
  ASSUME RollupInv, \A r \in raw : r.ts \in 1..cursor
  PROVE  StoredCursor(raw) = cursor
<1>1. raw \subseteq Row /\ cursor \in Nat /\ (cursor # None => \E r \in raw : r.ts = cursor)
  BY DEF RollupInv, TypeOK
<1>2. CASE raw = {}
  BY <1>1, <1>2 DEF StoredCursor
<1>3. CASE raw # {}
  <2> DEFINE T == {r.ts : r \in raw}
  <2>1. T \subseteq 1..cursor /\ T # {}
    BY <1>3
  <2>2. cursor \in T
    <3>1. cursor # None
      BY <1>1, <2>1 DEF None
    <3> QED BY <1>1, <3>1
  <2> HIDE DEF T
  <2>3. \A y \in T : y <= cursor
    BY <2>1
  <2>4. \A x \in T : (\A y \in T : y <= x) => x = cursor
    BY <1>1, <2>1, <2>2
  <2>5. Greatest(T) = cursor
    BY <2>2, <2>3, <2>4, Zenon DEF Greatest
  <2> QED BY <1>3, <2>5 DEF StoredCursor, T
<1> QED BY <1>2, <1>3

\* ForwardInv survives every step.
LEMMA ForwardInvStep == RollupInv /\ ForwardInv /\ [Next]_vars => ForwardInv'
<1> SUFFICES ASSUME RollupInv, ForwardInv, [Next]_vars, ClockAdvances'
             PROVE  CursorIsNewest' /\ RolledIsWhole'
  BY DEF ForwardInv
<1>1. CursorIsNewest /\ RolledIsWhole
  BY TroublesStay DEF ForwardInv
<1>2. /\ raw \subseteq Row /\ cursor \in Nat /\ now \in Nat /\ last \in Nat
      /\ coarse \in [Widths -> SUBSET CoarseRow] /\ MaxTime \in Nat
  BY ConstantsAssumption DEF RollupInv, TypeOK
<1>3. ASSUME UNCHANGED <<raw, coarse, cursor>> PROVE RolledIsWhole'
  BY <1>1, <1>3 DEF RolledIsWhole, Whole
<1>4. ASSUME NEW current \in 1..MaxTime, Sample(current)
      PROVE  CursorIsNewest' /\ RolledIsWhole'
  <2>1. /\ raw' = raw /\ coarse' = coarse /\ cursor' = cursor /\ now' = current
        /\ last' = current /\ now <= current /\ current \in Nat
    BY <1>2, <1>4 DEF Sample
  <2> QED BY <1>1, <1>2, <1>3, <2>1 DEF CursorIsNewest
<1>5. ASSUME NEW current \in 1..MaxTime, StepBack(current) PROVE FALSE
  BY <1>5 DEF StepBack, Suffers, ClockAdvances
<1>6. ASSUME NEW current \in 1..MaxTime, NEW batch \in (SUBSET source) \ {{}},
             Store(current, batch)
      PROVE  CursorIsNewest' /\ RolledIsWhole'
  <2> DEFINE new == {[ts |-> last, cid |-> c] : c \in batch}
  <2>1. /\ raw' = raw \cup new /\ coarse' = coarse /\ cursor' = last
        /\ now' = current /\ last' = current /\ last < current /\ last \in 1..last
        /\ current \in Nat /\ last # None
    BY <1>2, <1>6 DEF Store, None
  <2>2. cursor <= last
    BY <1>1, <2>1 DEF CursorIsNewest
  <2>3. \A r \in new : r.ts = last
    OBVIOUS
  <2> HIDE DEF new
  <2>4. \A r \in raw' : r.ts \in 1..cursor'
    BY <1>1, <1>2, <2>1, <2>2, <2>3 DEF CursorIsNewest
  <2>5. CursorIsNewest'
    BY <1>2, <2>1, <2>4 DEF CursorIsNewest
  <2>6. ASSUME NEW w \in Widths, NEW p \in coarse[w]
        PROVE  p.ts < last /\ p = Aggregate(raw', p.ts, w, p.cid)
    <3>1. p.ts < cursor /\ p = Whole(p.ts, w, p.cid) /\ p.ts \in Nat
      BY <1>1, <1>2 DEF RolledIsWhole, CoarseRow
    <3>2. p.ts < last
      BY <1>2, <2>2, <3>1
    <3>3. raw \subseteq raw' /\ \A r \in raw' \ raw : r.ts = last
      BY <2>1, <2>3
    <3>4. Aggregate(raw', p.ts, w, p.cid) = Whole(p.ts, w, p.cid)
      BY <1>2, <3>1, <3>2, <3>3, WholeStays
    <3> QED BY <3>1, <3>2, <3>4
  <2> QED BY <2>1, <2>5, <2>6 DEF RolledIsWhole, Whole
<1>7. CASE RollUp
  <2>1. UNCHANGED <<raw, now, last, cursor>>
    BY <1>7 DEF RollUp, collector
  <2>2. PICK v \in todo : \E slice \in Slices(samples, Window(BucketEnd(closing, v), v)) :
          coarse' = [coarse EXCEPT ![v] = Replaced(@, Downsample(slice, v))]
    BY <1>7, RollUpWrites
  <2>3. PICK slice \in Slices(samples, Window(BucketEnd(closing, v), v)) :
          coarse' = [coarse EXCEPT ![v] = Replaced(@, Downsample(slice, v))]
    BY <2>2
  <2>4. ASSUME NEW w \in Widths, NEW p \in coarse'[w]
        PROVE  p.ts < cursor /\ p = Whole(p.ts, w, p.cid)
    <3>1. CASE p \in coarse[w]
      BY <1>1, <3>1 DEF RolledIsWhole
    <3>2. CASE p \notin coarse[w]
      <4>1. w = v /\ p \in Downsample(slice, v)
        BY <1>2, <2>3, <3>2 DEF Replaced
      <4> QED BY <4>1, RollUpWritesWhole
    <3> QED BY <3>1, <3>2
  <2>5. RolledIsWhole'
    BY <2>1, <2>4 DEF RolledIsWhole, Whole
  <2> QED BY <1>1, <2>1, <2>5 DEF CursorIsNewest
<1>8. CASE RollUpFails
  BY <1>1, <1>3, <1>8 DEF RollUpFails, collector, CursorIsNewest
<1>9. CASE Restart
  <2>1. cursor' = cursor /\ last' = None /\ UNCHANGED <<raw, coarse, now>>
    BY <1>1, <1>9, RestartFindsCursor DEF Restart, CursorIsNewest
  <2> QED BY <1>1, <1>3, <2>1 DEF CursorIsNewest
<1>10. CASE UNCHANGED vars
  BY <1>1, <1>3, <1>10 DEF vars, CursorIsNewest
<1> QED BY <1>4, <1>5, <1>6, <1>7, <1>8, <1>9, <1>10 DEF Next

\* As long as the clock does not step back, a coarse row, the host's or a
\* container's, never falls behind the 10 s rows it stands for.
THEOREM RolledUpForGood == Spec => []RolledStaysWhole
<1>1. Init => ForwardInv
  BY DEF Init, ForwardInv, CursorIsNewest, RolledIsWhole, None
<1>2. RollupInv /\ ForwardInv /\ [Next]_vars => ForwardInv'
  BY ForwardInvStep
<1>3. ForwardInv => RolledStaysWhole
  BY DEF ForwardInv, RolledIsWhole, RolledStaysWhole
<1> QED BY <1>1, <1>2, <1>3, RollupInvAlways, PTL DEF Spec

\* The searches are exact for one series and for the widest width: the slice is
\* the rows of the bucket.
LEMMA SliceIsBucket ==
  ASSUME RollupInv, NEW w \in todo, Cardinality(source) = 1 \/ w = Greatest(Widths),
         NEW slice \in Slices(samples, Window(BucketEnd(closing, w), w))
  PROVE  slice = {r \in raw : BucketEnd(r.ts, w) = BucketEnd(closing, w)}
<1>1. /\ raw \subseteq Row /\ samples \subseteq raw /\ closing \in Nat
      /\ w \in Widths /\ Widths \subseteq Nat \ {0} /\ w \in Nat \ {0}
  BY ConstantsAssumption DEF RollupInv, TypeOK
<1>2. PICK end \in Nat : end = BucketEnd(closing, w)
  BY <1>1, BucketEndBounds
<1>3. PICK v \in Closed(closing, cursor) :
        w <= v /\ samples = {r \in raw : r.ts \in Window(BucketEnd(closing, v), v)}
  BY WidestClosed
<1>4. v \in Widths /\ v \in Nat
  BY <1>1 DEF Closed
<1>5. \A r \in raw : r.ts \in Window(end, w) => r \in samples
  BY <1>1, <1>2, <1>3, <1>4, NestedWindows
<1>6. \/ \A x, y \in samples : x.cid = y.cid
      \/ \A x \in samples : x.ts \in Window(end, w)
  <2>1. CASE Cardinality(source) = 1
    <3>1. IsFiniteSet(source)
      BY ConstantsAssumption DEF RollupInv, TypeOK
    <3>2. PICK c : source = {c}
      BY <2>1, <3>1, FS_Singleton
    <3> QED BY <1>1, <3>2 DEF RollupInv
  <2>2. CASE w = Greatest(Widths)
    <3>1. v <= w
      <4>1. Widths \subseteq Int /\ IsFiniteSet(Widths) /\ Widths # {}
        BY <1>1, ConstantsAssumption
      <4>2. \A y \in Widths : y <= Greatest(Widths)
        BY <4>1, GreatestOf
      <4> QED BY <1>4, <2>2, <4>2
    <3> QED BY <1>1, <1>2, <1>3, <1>4, <3>1
  <2> QED BY <2>1, <2>2
<1>7. slice = {r \in samples : r.ts \in Window(end, w)}
  <2>1. samples \subseteq Row /\ end - w + 1 \in Int /\ end \in Int /\ end - w + 1 <= end
    BY <1>1, <1>2
  <2> QED BY <1>2, <1>6, <2>1, OrderedSlice DEF Window
<1>8. \A r \in raw : r.ts \in Window(end, w) <=> BucketEnd(r.ts, w) = end
  BY <1>1, <1>2, WindowOfBucket DEF Row
<1> QED BY <1>1, <1>2, <1>5, <1>7, <1>8

\* DueInv survives every step.
LEMMA DueInvStep ==
  RollupInv /\ ForwardInv /\ DueInv /\ [Next]_vars => DueInv'
<1> SUFFICES ASSUME RollupInv, ForwardInv, DueInv, [Next]_vars, suffered' = {},
                    NEW w \in Widths, Cardinality(source') = 1 \/ w = Greatest(Widths),
                    NEW p \in Due(w)'
             PROVE  p \in coarse'[w] \/ (w \in todo' /\ p.ts = BucketEnd(closing', w))
  BY DEF DueInv
<1>1. suffered = {} /\ CursorIsNewest /\ RolledIsWhole
  BY TroublesStay DEF ForwardInv, ClockAdvances
<1>2. /\ raw \subseteq Row /\ cursor \in Nat /\ last \in Nat /\ closing \in Nat
      /\ coarse \in [Widths -> SUBSET CoarseRow] /\ w \in Nat \ {0}
  BY ConstantsAssumption DEF RollupInv, TypeOK
<1>3. source' = source
  BY DEF Next, Sample, StepBack, Store, RollUp, RollUpFails, Restart, vars
<1>4. \A q \in Due(w) : q \in coarse[w] \/ (w \in todo /\ q.ts = BucketEnd(closing, w))
  BY <1>1, <1>3 DEF DueInv
<1>5. PICK r \in raw' : /\ p = Aggregate(raw', BucketEnd(r.ts, w), w, r.cid)
                        /\ p.ts < BucketEnd(cursor', w)
                        /\ ~TooSparse(p.of, p.ts, w)
  BY DEF Due, Whole
<1>6. p.ts = BucketEnd(r.ts, w) /\ p.cid = r.cid
  BY <1>5 DEF Aggregate
<1>7. ASSUME raw' = raw, cursor' = cursor PROVE p \in Due(w)
  BY <1>5, <1>6, <1>7 DEF Due, Whole
<1>8. ASSUME UNCHANGED <<raw, cursor, coarse, todo, closing>>
      PROVE  p \in coarse'[w] \/ (w \in todo' /\ p.ts = BucketEnd(closing', w))
  BY <1>4, <1>7, <1>8
<1>9. ASSUME NEW current \in 1..MaxTime, NEW batch \in (SUBSET source) \ {{}},
             Store(current, batch)
      PROVE  p \in coarse'[w] \/ (w \in todo' /\ p.ts = BucketEnd(closing', w))
  <2> DEFINE new == {[ts |-> last, cid |-> c] : c \in batch}
  <2>1. /\ raw' = raw \cup new /\ coarse' = coarse /\ cursor' = last /\ todo = {}
        /\ last # None
    BY <1>9 DEF Store, Idle
  <2>2. cursor <= last
    BY <1>1, <2>1 DEF CursorIsNewest
  <2>3. \A q \in new : q.ts = last
    OBVIOUS
  <2> HIDE DEF new
  <2>4. r \in raw /\ r.ts \in 1..cursor
    <3>1. BucketEnd(last, w) \in Nat /\ BucketEnd(r.ts, w) < BucketEnd(last, w)
      BY <1>2, <1>5, <1>6, <2>1, BucketEndBounds
    <3>2. r \notin new
      BY <2>3, <3>1
    <3>3. r \in raw
      BY <2>1, <3>2
    <3> QED BY <1>1, <3>3 DEF CursorIsNewest
  <2>5. PICK end \in Nat : end = p.ts /\ end < last
    <3>1. r.ts \in Nat /\ r.ts <= last
      BY <1>2, <2>2, <2>4
    <3>2. BucketEnd(r.ts, w) \in Nat /\ BucketEnd(last, w) \in Nat
      BY <1>2, <3>1, BucketEndBounds
    <3>3. BucketEnd(r.ts, w) # BucketEnd(last, w)
      BY <1>5, <1>6, <2>1, <3>2
    <3>4. BucketEnd(r.ts, w) < last
      BY <1>2, <3>1, <3>3, ClosedIsBefore
    <3> QED BY <1>6, <3>2, <3>4
  <2>6. p = Whole(end, w, r.cid)
    <3>1. raw \subseteq raw' /\ \A q \in raw' \ raw : q.ts = last
      BY <2>1, <2>3
    <3>2. Aggregate(raw', end, w, r.cid) = Whole(end, w, r.cid)
      BY <1>2, <2>5, <3>1, WholeStays
    <3> QED BY <1>5, <1>6, <2>5, <3>2
  <2>7. end <= BucketEnd(cursor, w) /\ BucketEnd(cursor, w) \in Nat
    <3>1. r.ts \in Nat /\ r.ts <= cursor
      BY <1>2, <2>4
    <3>2. BucketEnd(r.ts, w) <= BucketEnd(cursor, w)
      BY <1>2, <3>1, BucketEndMonotone
    <3> QED BY <1>2, <1>6, <2>5, <3>2, BucketEndBounds
  <2>8. CASE end < BucketEnd(cursor, w)
    <3>1. p \in Due(w)
      BY <1>5, <1>6, <2>4, <2>5, <2>6, <2>8 DEF Due
    <3> QED BY <1>4, <2>1, <3>1
  <2>9. CASE end = BucketEnd(cursor, w)
    <3>0. BucketEnd(last, w) \in Nat
      BY <1>2, BucketEndBounds
    <3>1. BucketEnd(last, w) # BucketEnd(cursor, w) /\ cursor # None
      BY <1>2, <1>5, <2>1, <2>4, <2>5, <2>9, <3>0 DEF None
    <3>2. PreviousTs(last) = cursor
      BY <1>2, <2>2, <3>1 DEF PreviousTs
    <3>3. w \in Closed(cursor, last)
      BY <3>1 DEF Closed
    <3>4. todo' = Closed(cursor, last) /\ closing' = cursor
      BY <1>9, <3>1, <3>2, <3>3 DEF Store
    <3> QED BY <2>5, <2>9, <3>3, <3>4
  <2> QED BY <2>5, <2>7, <2>8, <2>9
<1>10. CASE RollUp
  <2>1. raw' = raw /\ cursor' = cursor /\ (todo' # {} => closing' = closing)
    BY <1>10 DEF RollUp
  <2>2. p \in Due(w)
    BY <1>7, <2>1
  <2>3. PICK v \in todo : \E slice \in Slices(samples, Window(BucketEnd(closing, v), v)) :
          /\ coarse' = [coarse EXCEPT ![v] = Replaced(@, Downsample(slice, v))]
          /\ todo' = todo \ {v}
    BY <1>10, RollUpWrites
  <2>4. PICK slice \in Slices(samples, Window(BucketEnd(closing, v), v)) :
          coarse' = [coarse EXCEPT ![v] = Replaced(@, Downsample(slice, v))]
    BY <2>3
  <2>5. CASE w # v
    BY <1>2, <1>4, <2>1, <2>2, <2>3, <2>4, <2>5
  <2>6. CASE w = v /\ p \in coarse[w]
    <3>1. p = Whole(p.ts, w, p.cid)
      BY <1>1, <2>6 DEF RolledIsWhole
    <3>2. ASSUME NEW q \in Downsample(slice, w), SameKey(p, q) PROVE p = q
      BY <2>4, <2>6, <3>1, <3>2, RollUpWritesWhole DEF SameKey
    <3>3. coarse'[w] = Replaced(coarse[w], Downsample(slice, w))
      BY <1>2, <2>4, <2>6
    <3> QED BY <2>6, <3>2, <3>3 DEF Replaced
  <2>7. CASE w = v /\ p.ts = BucketEnd(closing, w)
    <3>1. slice = {q \in raw : BucketEnd(q.ts, w) = BucketEnd(closing, w)}
      BY <1>3, <2>4, <2>7, SliceIsBucket
    <3>2. r \in slice
      BY <1>5, <1>6, <2>1, <2>7, <3>1
    <3>3. {q \in slice : q.cid = r.cid /\ BucketEnd(q.ts, w) = BucketEnd(r.ts, w)}
            = {q \in raw : q.cid = r.cid /\ BucketEnd(q.ts, w) = BucketEnd(r.ts, w)}
      BY <1>6, <2>7, <3>1
    <3>4. p = Aggregate(slice, BucketEnd(r.ts, w), w, r.cid)
      BY <1>5, <2>1, <3>3, Zenon DEF Aggregate
    <3>5. p \in Downsample(slice, w)
      BY <1>5, <3>2, <3>4 DEF Downsample
    <3> QED BY <1>2, <2>4, <2>7, <3>5 DEF Replaced
  <2> QED BY <1>4, <2>2, <2>5, <2>6, <2>7
<1>11. CASE RollUpFails
  BY <1>11 DEF RollUpFails, Suffers
<1>12. CASE Restart
  <2>1. cursor' = cursor /\ UNCHANGED <<raw, coarse>>
    BY <1>1, <1>12, RestartFindsCursor DEF Restart, CursorIsNewest
  <2>2. todo = {}
    BY <1>12 DEF Restart, Idle
  <2> QED BY <1>4, <1>7, <2>1, <2>2
<1>13. ASSUME NEW current \in 1..MaxTime, Sample(current)
       PROVE  UNCHANGED <<raw, cursor, coarse, todo, closing>>
  BY <1>13 DEF Sample, rolling
<1>14. ASSUME NEW current \in 1..MaxTime, StepBack(current)
       PROVE  UNCHANGED <<raw, cursor, coarse, todo, closing>>
  BY <1>14 DEF StepBack, rolling
<1>15. CASE UNCHANGED vars
  BY <1>8, <1>15 DEF vars
<1> QED BY <1>8, <1>9, <1>10, <1>11, <1>12, <1>13, <1>14, <1>15 DEF Next

\* Between inserts, every bucket that the cursor has left is in its table, of
\* the host at every width and of containers at the widest, while nothing failed,
\* no exit cut a roll-up and the clock did not step back.
THEOREM LeavesNothingDue == Spec => []ClosedAreRolled
<1>1. Init => ForwardInv /\ DueInv
  BY DEF Init, ForwardInv, CursorIsNewest, RolledIsWhole, DueInv, Due, None
<1>2. RollupInv /\ ForwardInv /\ [Next]_vars => ForwardInv'
  BY ForwardInvStep
<1>3. RollupInv /\ ForwardInv /\ DueInv /\ [Next]_vars => DueInv'
  BY DueInvStep
<1>4. DueInv => ClosedAreRolled
  BY DEF DueInv, ClosedAreRolled, Idle
<1> QED BY <1>1, <1>2, <1>3, <1>4, RollupInvAlways, PTL DEF Spec
================================================================================
