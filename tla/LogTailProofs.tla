----------------------------- MODULE LogTailProofs -----------------------------
(***************************************************************************)
(* Proofs about the pages of the logs and the tail stream, for all weeks,  *)
(* page limits, times and bounds: what the loop over the weeks collects,   *)
(* that a page is the run of rows next to its cursor, and that a client    *)
(* that pages and follows sees the rows in order and skips none.           *)
(***************************************************************************)
EXTENDS LogTail, SequenceTheorems, FiniteSetTheorems, WellFoundedInduction, TLAPS

---------------------------------------------------------------------------
(* Finite sets in order                                                    *)

\* A non-empty set of naturals has a least element.
LEMMA NatHasLeast ==
  ASSUME NEW S, S \subseteq Nat, S # {}
  PROVE  \E x \in S : \A y \in S : x <= y
<1> DEFINE R == OpToRel(<, Nat)
<1>1. \A a, b \in Nat : a < b => <<a, b>> \in R
  BY DEF OpToRel
<1>2. IsWellFoundedOn(R, Nat)
  BY NatLessThanWellFounded
<1> HIDE DEF R
<1>3. PICK x \in S : \A y \in S : ~ (<<y, x>> \in R)
  BY <1>2, WFMin
<1>4. ASSUME NEW y \in S PROVE x <= y
  <2>1. x \in Nat /\ y \in Nat
    OBVIOUS
  <2>2. ~(y < x)
    BY <2>1, <1>1, <1>3, Zenon
  <2> QED BY <2>1, <2>2
<1> QED BY <1>4

\* A family of finite sets that is not empty has a smallest one.
LEMMA SmallestOf ==
  ASSUME NEW S, IsFiniteSet(S), NEW F, F \subseteq SUBSET S, F # {}
  PROVE  \E X \in F : \A Y \in F : Cardinality(X) <= Cardinality(Y)
<1> DEFINE Sizes == {Cardinality(X) : X \in F}
<1>1. \A X \in F : Cardinality(X) \in Nat
  BY FS_Subset, FS_CardinalityType
<1>2. Sizes \subseteq Nat /\ Sizes # {}
  BY <1>1
<1>3. PICK n \in Sizes : \A m \in Sizes : n <= m
  <2> HIDE DEF Sizes
  <2> QED BY <1>2, NatHasLeast
<1>4. PICK X \in F : Cardinality(X) = n
  BY <1>3
<1> QED BY <1>3, <1>4

\* R orders the set totally.
Orders(R, S) ==
  /\ \A x, y \in S : x # y => <<x, y>> \in R \/ <<y, x>> \in R
  /\ \A x, y, z \in S : <<x, y>> \in R /\ <<y, z>> \in R => <<x, z>> \in R

\* A finite set that is ordered has a last element.
LEMMA OrderedHasLast ==
  ASSUME NEW S, IsFiniteSet(S), S # {}, NEW R, Orders(R, S)
  PROVE  \E x \in S : \A y \in S : y # x => <<y, x>> \in R
<1> DEFINE HasLast(X) == \E x \in X : \A y \in X : y # x => <<y, x>> \in R
           Bad == {X \in SUBSET S : X # {} /\ ~HasLast(X)}
<1>1. SUFFICES ASSUME Bad # {} PROVE FALSE
  BY <1>1
<1>2. PICK X \in Bad : \A Y \in Bad : Cardinality(X) <= Cardinality(Y)
  <2> HIDE DEF HasLast
  <2>1. Bad \subseteq SUBSET S
    OBVIOUS
  <2> HIDE DEF Bad
  <2> QED BY <1>1, <2>1, SmallestOf
<1>3. PICK x : x \in X
  BY <1>2
<1>4. Cardinality(X \ {x}) = Cardinality(X) - 1 /\ Cardinality(X) \in Nat
  BY <1>2, <1>3, FS_Subset, FS_CardinalityType, FS_RemoveElement
<1>5. X \ {x} \notin Bad
  <2> HIDE DEF Bad
  <2> QED BY <1>2, <1>4
<1>6. CASE X \ {x} = {}
  BY <1>2, <1>3, <1>6
<1>7. CASE X \ {x} # {}
  <2>1. PICK z \in X \ {x} : \A y \in X \ {x} : y # z => <<y, z>> \in R
    BY <1>2, <1>5, <1>7
  <2>2. x \in S /\ z \in S /\ X \subseteq S
    BY <1>2, <1>3
  <2>3. CASE <<x, z>> \in R
    BY <1>2, <2>1, <2>3
  <2>4. CASE <<z, x>> \in R
    <3>1. \A y \in X : y # x => <<y, x>> \in R
      BY <2>1, <2>2, <2>4 DEF Orders
    <3> QED BY <1>2, <1>3, <3>1
  <2> QED BY <2>1, <2>2, <2>3, <2>4 DEF Orders
<1> QED BY <1>6, <1>7

\* So it has a sequence in order.
LEMMA OrderedHasSequence ==
  ASSUME NEW S, IsFiniteSet(S), NEW R, Orders(R, S)
  PROVE  \E seq \in SetToSeqs(S) : \A i, j \in DOMAIN seq : i < j => <<seq[i], seq[j]>> \in R
<1> DEFINE Sorted(X) == \E seq \in SetToSeqs(X) :
                          \A i, j \in DOMAIN seq : i < j => <<seq[i], seq[j]>> \in R
           Bad == {X \in SUBSET S : ~Sorted(X)}
<1>1. SUFFICES ASSUME Bad # {} PROVE FALSE
  BY <1>1
<1>2. PICK X \in Bad : \A Y \in Bad : Cardinality(X) <= Cardinality(Y)
  <2>1. Bad \subseteq SUBSET S
    OBVIOUS
  <2> HIDE DEF Bad
  <2> QED BY <1>1, <2>1, SmallestOf
<1>3. X \subseteq S /\ IsFiniteSet(X) /\ ~Sorted(X)
  BY <1>2, FS_Subset
<1>4. PICK n \in Nat : n = Cardinality(X)
  BY <1>3, FS_CardinalityType
<1>5. CASE X = {}
  <2>1. n = 0
    BY <1>4, <1>5, FS_EmptySet
  <2>2. <<>> \in SetToSeqs(X) /\ DOMAIN <<>> = {}
    BY <1>4, <1>5, <2>1 DEF SetToSeqs
  <2>3. Sorted(X)
    BY <2>2
  <2> QED BY <1>3, <2>3
<1>6. CASE X # {}
  <2>1. PICK m \in X : \A y \in X : y # m => <<y, m>> \in R
    <3>1. Orders(R, X)
      BY <1>3 DEF Orders
    <3> QED BY <1>3, <1>6, <3>1, OrderedHasLast
  <2>2. n # 0 /\ Cardinality(X \ {m}) = n - 1
    BY <1>3, <1>4, <1>6, <2>1, FS_EmptySet, FS_RemoveElement
  <2>3. X \ {m} \notin Bad
    <3> HIDE DEF Bad
    <3> QED BY <1>2, <1>4, <2>2
  <2>4. PICK seq \in SetToSeqs(X \ {m}) : \A i, j \in DOMAIN seq : i < j => <<seq[i], seq[j]>> \in R
    BY <1>3, <2>3
  <2>5. /\ seq \in [1..(n - 1) -> X \ {m}]
        /\ \A i, j \in 1..(n - 1) : i # j => seq[i] # seq[j]
    BY <2>2, <2>4 DEF SetToSeqs
  <2> DEFINE longer == [i \in 1..n |-> IF i = n THEN m ELSE seq[i]]
  <2>6. longer \in [1..n -> X] /\ \A i, j \in 1..n : i # j => longer[i] # longer[j]
    BY <2>1, <2>2, <2>5
  <2>7. longer \in SetToSeqs(X)
    BY <1>4, <2>6 DEF SetToSeqs
  <2>8. \A i, j \in DOMAIN longer : i < j => <<longer[i], longer[j]>> \in R
    <3> SUFFICES ASSUME NEW i \in 1..n, NEW j \in 1..n, i < j
                 PROVE  <<longer[i], longer[j]>> \in R
      OBVIOUS
    <3>1. i \in 1..(n - 1) /\ longer[i] = seq[i] /\ seq[i] \in X \ {m}
      BY <2>5
    <3>2. CASE j = n
      BY <2>1, <3>1, <3>2
    <3>3. CASE j # n
      BY <2>4, <2>5, <3>1, <3>3
    <3> QED BY <3>2, <3>3
  <2> HIDE DEF longer
  <2> QED BY <1>3, <2>7, <2>8
<1> QED BY <1>5, <1>6

\* A sequence of a set's elements, each once.
LEMMA SequenceOfSet ==
  ASSUME NEW S, IsFiniteSet(S), NEW seq \in SetToSeqs(S)
  PROVE  /\ seq \in Seq(S) /\ Len(seq) = Cardinality(S) /\ DOMAIN seq = 1..Len(seq)
         /\ Range(seq) = S
<1>1. PICK n \in Nat : n = Cardinality(S)
  BY FS_CardinalityType
<1>2. seq \in [1..n -> S] /\ \A i, j \in 1..n : i # j => seq[i] # seq[j]
  BY <1>1 DEF SetToSeqs
<1>3. seq \in Seq(S) /\ Len(seq) = n
  BY <1>2
<1>4. seq \in Injection(1..n, S)
  BY <1>2 DEF Injection, IsInjective
<1>5. IsFiniteSet(1..n) /\ Cardinality(1..n) = n
  BY FS_Interval
<1>6. seq \in Surjection(1..n, S)
  BY <1>1, <1>4, <1>5, FS_Injection
<1>7. Range(seq) = S
  BY <1>2, <1>6 DEF Surjection, Range
<1> QED BY <1>1, <1>2, <1>3, <1>7

---------------------------------------------------------------------------
(* Weeks and rows                                                          *)

\* a row with its week's cursor
StoredRow == {r \in [ts : Nat, week : Week, id : Nat] : WeekOf(r.ts) = r.week}

\* the tables of the weeks, each with lines of its week only
Stores == {st \in [Week -> Seq([ts : Nat, hit : BOOLEAN])] :
             \A w \in Week : \A i \in 1..Len(st[w]) : WeekOf(st[w][i].ts) = w}

Filters == [from : Nat \cup {None}, to : Nat \cup {None}]
Directions == {"backward", "forward"}

\* A week's lines are of its milliseconds.
LEMMA WeekBounds ==
  ASSUME NEW t \in Nat, NEW w \in Nat, WeekOf(t) = w
  PROVE  WeekStart(w) \in Nat /\ WeekStart(w) <= t /\ t < WeekStart(w) + WeekLen
<1>1. PICK l \in Nat \ {0} : l = WeekLen
  BY PagingAssumption
<1>2. w = t \div l
  BY <1>1 DEF WeekOf
<1>3. w * l <= t /\ t < w * l + l
  BY <1>2, SMTT(30)
<1>4. w * l \in Nat
  OBVIOUS
<1> QED BY <1>1, <1>3, <1>4 DEF WeekStart

\* An earlier week's lines are earlier.
LEMMA WeeksInOrder ==
  ASSUME NEW t \in Nat, NEW u \in Nat, NEW v \in Nat, NEW w \in Nat,
         WeekOf(t) = v, WeekOf(u) = w, v < w
  PROVE  t < u
<1>1. PICK l \in Nat \ {0} : l = WeekLen
  BY PagingAssumption
<1>2. (v + 1) * l <= w * l
  <2>1. v + 1 <= w
    OBVIOUS
  <2> QED BY <2>1, SMTT(30)
<1>3. (v + 1) * l = v * l + l
  BY SMTT(30)
<1>4. t < v * l + l /\ w * l <= u
  BY <1>1, WeekBounds DEF WeekStart
<1>5. PICK a \in Nat, b \in Nat : a = v * l /\ b = w * l
  OBVIOUS
<1> QED BY <1>2, <1>3, <1>4, <1>5

\* The rows of all weeks are ordered totally by time and id.
LEMMA BeforeOrders ==
  ASSUME NEW r \in StoredRow, NEW s \in StoredRow
  PROVE  /\ ~Before(r, r)
         /\ Before(r, s) => ~Before(s, r) /\ r # s
         /\ r # s => Before(r, s) \/ Before(s, r)
         /\ \A q \in StoredRow : Before(r, s) /\ Before(s, q) => Before(r, q)
         /\ r.week < s.week => Before(r, s)
<1>1. /\ r.ts \in Nat /\ r.id \in Nat /\ r.week \in Nat /\ WeekOf(r.ts) = r.week
      /\ s.ts \in Nat /\ s.id \in Nat /\ s.week \in Nat /\ WeekOf(s.ts) = s.week
  BY PagingAssumption DEF StoredRow
<1>2. r # s => Before(r, s) \/ Before(s, r)
  <2> SUFFICES ASSUME r.ts = s.ts, r.id = s.id PROVE r = s
    BY <1>1 DEF Before
  <2>1. r.week = s.week
    BY <1>1
  <2>2. /\ r = [ts |-> r.ts, week |-> r.week, id |-> r.id]
        /\ s = [ts |-> s.ts, week |-> s.week, id |-> s.id]
    BY DEF StoredRow
  <2> QED BY <2>1, <2>2
<1>3. \A q \in StoredRow : Before(r, s) /\ Before(s, q) => Before(r, q)
  <2> SUFFICES ASSUME NEW q \in StoredRow, Before(r, s), Before(s, q) PROVE Before(r, q)
    OBVIOUS
  <2>1. q.ts \in Nat /\ q.id \in Nat
    BY DEF StoredRow
  <2> QED BY <1>1, <2>1 DEF Before
<1>4. r.week < s.week => Before(r, s)
  BY <1>1, WeeksInOrder DEF Before
<1>5. ~Before(r, r) /\ (Before(r, s) => ~Before(s, r) /\ r # s)
  BY <1>1 DEF Before
<1> QED BY <1>2, <1>3, <1>4, <1>5

\* So is the scan in either direction.
LEMMA AheadOrders ==
  ASSUME NEW r \in StoredRow, NEW s \in StoredRow, NEW direction
  PROVE  /\ ~Ahead(r, r, direction)
         /\ Ahead(r, s, direction) => ~Ahead(s, r, direction) /\ r # s
         /\ r # s => Ahead(r, s, direction) \/ Ahead(s, r, direction)
         /\ \A q \in StoredRow : Ahead(r, s, direction) /\ Ahead(s, q, direction)
                                => Ahead(r, q, direction)
         /\ AheadWeek(r.week, s.week, direction) => Ahead(r, s, direction)
<1>1. CASE direction = "forward"
  BY <1>1, BeforeOrders DEF Ahead, AheadWeek
<1>2. CASE direction # "forward"
  <2>1. \A q \in StoredRow : Before(q, s) /\ Before(s, r) => Before(q, r)
    BY BeforeOrders
  <2> QED BY <1>2, <2>1, BeforeOrders DEF Ahead, AheadWeek
<1> QED BY <1>1, <1>2

\* The rows of a week are finitely many and of the week.
LEMMA RowsOfWeek ==
  ASSUME NEW st \in Stores, NEW w \in Week
  PROVE  /\ RowsOf(st, w) \subseteq StoredRow /\ IsFiniteSet(RowsOf(st, w))
         /\ Hits(st, w) \subseteq StoredRow /\ IsFiniteSet(Hits(st, w))
         /\ \A r \in RowsOf(st, w) : r.week = w /\ r.id \in 1..Len(st[w]) /\ r.ts = st[w][r.id].ts
<1>1. PICK n \in Nat : n = Len(st[w])
  <2>1. st[w] \in Seq([ts : Nat, hit : BOOLEAN])
    BY DEF Stores
  <2>2. Len(st[w]) \in Nat
    BY <2>1, LenProperties
  <2> QED BY <2>2
<1>2. PICK f : f = [i \in 1..n |-> [ts |-> st[w][i].ts, week |-> w, id |-> i]]
  OBVIOUS
<1>3. \A i \in 1..n : st[w][i].ts \in Nat /\ WeekOf(st[w][i].ts) = w
  <2> SUFFICES ASSUME NEW i \in 1..n PROVE st[w][i].ts \in Nat /\ WeekOf(st[w][i].ts) = w
    OBVIOUS
  <2>1. st[w] \in Seq([ts : Nat, hit : BOOLEAN])
    BY DEF Stores
  <2>2. st[w][i] \in [ts : Nat, hit : BOOLEAN]
    BY <1>1, <2>1, ElementOfSeq
  <2>3. WeekOf(st[w][i].ts) = w
    BY <1>1 DEF Stores
  <2> QED BY <2>2, <2>3
<1>4. \A i \in 1..n : f[i] = [ts |-> st[w][i].ts, week |-> w, id |-> i] /\ f[i] \in StoredRow
  BY <1>2, <1>3 DEF StoredRow
<1>5. RowsOf(st, w) = {f[i] : i \in 1..n}
  BY <1>1, <1>2 DEF RowsOf
<1>6. f \in Surjection(1..n, RowsOf(st, w))
  BY <1>2, <1>5 DEF Surjection
<1>7. IsFiniteSet(RowsOf(st, w))
  BY <1>6, FS_Interval, FS_Surjection
<1>8. Hits(st, w) \subseteq RowsOf(st, w)
  BY DEF Hits
<1>9. IsFiniteSet(Hits(st, w))
  BY <1>7, <1>8, FS_Subset
<1>10. \A r \in RowsOf(st, w) : /\ r \in StoredRow /\ r.week = w
                                /\ r.id \in 1..n /\ r.ts = st[w][r.id].ts
  <2> SUFFICES ASSUME NEW r \in RowsOf(st, w)
               PROVE  r \in StoredRow /\ r.week = w /\ r.id \in 1..n /\ r.ts = st[w][r.id].ts
    OBVIOUS
  <2>1. PICK i \in 1..n : r = f[i]
    BY <1>5
  <2>2. r = [ts |-> st[w][i].ts, week |-> w, id |-> i] /\ r \in StoredRow
    BY <1>4, <2>1
  <2> QED BY <2>2
<1> QED BY <1>1, <1>7, <1>8, <1>9, <1>10

LEMMA MatchingRowsFinite ==
  ASSUME NEW st \in Stores, NEW filter
  PROVE  /\ MatchingRows(st, filter) \subseteq StoredRow
         /\ IsFiniteSet(MatchingRows(st, filter))
         /\ \A r \in MatchingRows(st, filter) : r.week \in Week /\ r \in Hits(st, r.week)
<1>1. DOMAIN st = Week
  BY DEF Stores
<1>2. PICK f : f = [w \in Week |-> Hits(st, w)]
  OBVIOUS
<1>3. PICK all : all = {f[w] : w \in Week}
  OBVIOUS
<1>4. IsFiniteSet(all) /\ \A X \in all : IsFiniteSet(X)
  <2>1. f \in Surjection(Week, all)
    BY <1>2, <1>3 DEF Surjection
  <2>2. IsFiniteSet(all)
    BY <2>1, PagingAssumption, FS_Surjection
  <2> QED BY <1>2, <1>3, <2>2, RowsOfWeek
<1>5. MatchingRows(st, filter) \subseteq UNION all
  BY <1>1, <1>2, <1>3 DEF MatchingRows
<1>6. IsFiniteSet(MatchingRows(st, filter))
  BY <1>4, <1>5, FS_UNION, FS_Subset
<1>7. \A r \in MatchingRows(st, filter) : r \in StoredRow /\ r.week \in Week /\ r \in Hits(st, r.week)
  <2> SUFFICES ASSUME NEW r \in MatchingRows(st, filter)
               PROVE  r \in StoredRow /\ r.week \in Week /\ r \in Hits(st, r.week)
    OBVIOUS
  <2>1. PICK w \in Week : r \in Hits(st, w)
    BY <1>1 DEF MatchingRows
  <2>2. r \in RowsOf(st, w)
    BY <2>1 DEF Hits
  <2> QED BY <2>1, <2>2, RowsOfWeek
<1> QED BY <1>6, <1>7

---------------------------------------------------------------------------
(* The query's parts                                                       *)

\* The condition on the cursor is the order of the scan.
LEMMA BeyondIsAhead ==
  ASSUME NEW r \in StoredRow, NEW cursor \in StoredRow \cup {None}, NEW direction \in Directions
  PROVE  Beyond(r, cursor, direction) <=> cursor = None \/ Ahead(cursor, r, direction)
<1>1. CASE cursor = None
  BY <1>1 DEF Beyond
<1>2. CASE cursor # None
  <2>1. cursor \in StoredRow
    BY <1>2
  <2>2. /\ r.ts \in Nat /\ r.id \in Nat /\ WeekOf(r.ts) = r.week
        /\ cursor.ts \in Nat /\ cursor.id \in Nat /\ WeekOf(cursor.ts) = cursor.week
    BY <2>1 DEF StoredRow
  <2>3. r.ts = cursor.ts => r.week = cursor.week
    BY <2>2
  <2>4. CASE direction = "forward"
    BY <1>2, <2>2, <2>3, <2>4 DEF Beyond, Ahead, Before, Later, Earlier
  <2>5. CASE direction # "forward"
    BY <1>2, <2>2, <2>3, <2>5 DEF Beyond, Ahead, Before, Later, Earlier
  <2> QED BY <2>4, <2>5
<1> QED BY <1>1, <1>2

\* The rows of a query in the order of the scan.
LEMMA InScanOrderWorks ==
  ASSUME NEW rows, rows \subseteq StoredRow, IsFiniteSet(rows), NEW direction,
         NEW seq, seq = InScanOrder(rows, direction)
  PROVE  /\ seq \in Seq(rows) /\ DOMAIN seq = 1..Len(seq) /\ Range(seq) = rows
         /\ \A i, j \in 1..Len(seq) : i < j => Ahead(seq[i], seq[j], direction)
<1> DEFINE R == {p \in rows \X rows : Ahead(p[1], p[2], direction)}
<1>1. \A x, y \in rows : <<x, y>> \in R <=> Ahead(x, y, direction)
  OBVIOUS
<1>2. Orders(R, rows)
  <2> HIDE DEF R
  <2>1. \A x, y \in rows : x # y => <<x, y>> \in R \/ <<y, x>> \in R
    BY <1>1, AheadOrders
  <2>2. ASSUME NEW x \in rows, NEW y \in rows, NEW z \in rows, <<x, y>> \in R, <<y, z>> \in R
        PROVE  <<x, z>> \in R
    <3>1. x \in StoredRow /\ y \in StoredRow /\ z \in StoredRow
      OBVIOUS
    <3>2. Ahead(x, z, direction)
      BY <1>1, <2>2, <3>1, AheadOrders
    <3> QED BY <1>1, <3>2
  <2> QED BY <2>1, <2>2 DEF Orders
<1> HIDE DEF R
<1>3. \A x, y : Ahead(x, y, direction)
                  <=> IF direction = "forward" THEN Earlier(x, y) ELSE Later(x, y)
  BY DEF Ahead, Earlier, Later, Before
<1>4. PICK found \in SetToSeqs(rows) :
        \A i, j \in DOMAIN found : i < j => <<found[i], found[j]>> \in R
  BY <1>2, OrderedHasSequence
<1>5. \A i, j \in DOMAIN found :
        i < j => IF direction = "forward" THEN Earlier(found[i], found[j]) ELSE Later(found[i], found[j])
  <2>1. \A i \in DOMAIN found : found[i] \in rows
    BY SequenceOfSet, ElementOfSeq
  <2> QED BY <1>1, <1>3, <1>4, <2>1
<1>6. /\ seq \in SetToSeqs(rows)
      /\ \A i, j \in DOMAIN seq :
           i < j => IF direction = "forward" THEN Earlier(seq[i], seq[j]) ELSE Later(seq[i], seq[j])
  BY <1>5 DEF InScanOrder
<1>7. /\ seq \in Seq(rows) /\ DOMAIN seq = 1..Len(seq) /\ Range(seq) = rows
  BY <1>6, SequenceOfSet
<1> QED BY <1>3, <1>6, <1>7

\* Numbers in ascending order.
LEMMA AscendingWorks ==
  ASSUME NEW numbers, numbers \subseteq Int, IsFiniteSet(numbers),
         NEW seq, seq = Ascending(numbers)
  PROVE  /\ seq \in Seq(numbers) /\ DOMAIN seq = 1..Len(seq) /\ Range(seq) = numbers
         /\ \A i, j \in 1..Len(seq) : i < j => seq[i] < seq[j]
<1> DEFINE R == {p \in numbers \X numbers : p[1] < p[2]}
<1>1. \A x, y \in numbers : <<x, y>> \in R <=> x < y
  OBVIOUS
<1>2. Orders(R, numbers)
  <2> HIDE DEF R
  <2> QED BY <1>1 DEF Orders
<1> HIDE DEF R
<1>3. PICK found \in SetToSeqs(numbers) :
        \A i, j \in DOMAIN found : i < j => <<found[i], found[j]>> \in R
  BY <1>2, OrderedHasSequence
<1>4. \A i, j \in DOMAIN found : i < j => found[i] < found[j]
  <2>1. \A i \in DOMAIN found : found[i] \in numbers
    BY SequenceOfSet, ElementOfSeq
  <2> QED BY <1>1, <1>3, <2>1
<1>5. seq \in SetToSeqs(numbers) /\ \A i, j \in DOMAIN seq : i < j => seq[i] < seq[j]
  BY <1>4 DEF Ascending
<1>6. /\ seq \in Seq(numbers) /\ DOMAIN seq = 1..Len(seq) /\ Range(seq) = numbers
  BY <1>5, SequenceOfSet
<1> QED BY <1>5, <1>6

\* The reverse of a sequence, element by element.
LEMMA ReverseWorks ==
  ASSUME NEW S, NEW seq \in Seq(S)
  PROVE  /\ Reverse(seq) \in Seq(S) /\ Len(Reverse(seq)) = Len(seq)
         /\ Range(Reverse(seq)) = Range(seq)
         /\ \A i \in 1..Len(seq) : Reverse(seq)[i] = seq[Len(seq) - i + 1]
<1>1. PICK n \in Nat : n = Len(seq)
  BY LenProperties
<1>2. \A i \in 1..n : seq[i] \in S
  BY <1>1, ElementOfSeq
<1>3. Reverse(seq) = [i \in 1..n |-> seq[n - i + 1]]
  BY <1>1 DEF Reverse
<1>4. \A i \in 1..n : n - i + 1 \in 1..n
  OBVIOUS
<1>5. Reverse(seq) \in Seq(S) /\ Len(Reverse(seq)) = n
  BY <1>2, <1>3, <1>4
<1>6. Range(Reverse(seq)) = Range(seq)
  <2>1. DOMAIN seq = 1..n /\ DOMAIN Reverse(seq) = 1..n
    BY <1>1, <1>3, LenProperties
  <2>2. \A i \in 1..n : seq[i] = Reverse(seq)[n - i + 1]
    BY <1>3, <1>4
  <2> QED BY <1>3, <1>4, <2>1, <2>2 DEF Range
<1> QED BY <1>1, <1>3, <1>5, <1>6

\* The weeks to be read, in the order of the scan.
LEMMA CandidatesWork ==
  ASSUME NEW files, files \subseteq Week, NEW filter, NEW cursor, NEW direction,
         NEW weeks, weeks = Candidates(files, filter, cursor, direction)
  PROVE  /\ weeks \in Seq(Week)
         /\ \A w : w \in Range(weeks) <=> w \in files /\ WeekMatches(w, filter, cursor, direction)
         /\ \A i, j \in 1..Len(weeks) : i < j => AheadWeek(weeks[i], weeks[j], direction)
<1>1. PICK selected : selected = {w \in files : WeekMatches(w, filter, cursor, direction)}
  OBVIOUS
<1>2. PICK seq : seq = Ascending(selected)
  OBVIOUS
<1>3. selected \subseteq Week /\ IsFiniteSet(selected) /\ selected \subseteq Int
  <2>1. selected \subseteq Week /\ selected \in SUBSET Week
    BY <1>1
  <2>2. IsFiniteSet(selected)
    BY <2>1, PagingAssumption, FS_Subset
  <2>3. selected \subseteq Int
    BY <2>1, PagingAssumption
  <2> QED BY <2>1, <2>2, <2>3
<1>4. /\ seq \in Seq(selected) /\ Range(seq) = selected /\ Len(seq) \in Nat
      /\ \A i, j \in 1..Len(seq) : i < j => seq[i] < seq[j]
  BY <1>2, <1>3, AscendingWorks, LenProperties
<1>5. seq \in Seq(Week)
  BY <1>3, <1>4, SeqMonotonic
<1>6. weeks = IF direction = "forward" THEN seq ELSE Reverse(seq)
  BY <1>1, <1>2 DEF Candidates
<1>7. CASE direction = "forward"
  BY <1>1, <1>4, <1>5, <1>6, <1>7 DEF AheadWeek
<1>8. CASE direction # "forward"
  <2>1. weeks = Reverse(seq)
    BY <1>6, <1>8
  <2>2. /\ weeks \in Seq(Week) /\ Range(weeks) = selected /\ Len(weeks) = Len(seq)
        /\ \A i \in 1..Len(seq) : weeks[i] = seq[Len(seq) - i + 1]
    BY <1>4, <1>5, <2>1, ReverseWorks
  <2>3. ASSUME NEW i \in 1..Len(weeks), NEW j \in 1..Len(weeks), i < j
        PROVE  weeks[j] < weeks[i]
    <3>1. PICK n \in Nat : n = Len(seq)
      BY <1>4
    <3>2. n - i + 1 \in 1..n /\ n - j + 1 \in 1..n /\ n - j + 1 < n - i + 1
      BY <2>2, <2>3, <3>1
    <3> QED BY <1>4, <2>2, <3>1, <3>2
  <2> QED BY <1>1, <1>8, <2>2, <2>3 DEF AheadWeek
<1> QED BY <1>7, <1>8

\* The first elements of a sequence.
LEMMA FirstNWorks ==
  ASSUME NEW S, NEW seq \in Seq(S), NEW n \in Nat, NEW part, part = FirstN(seq, n)
  PROVE  /\ part \in Seq(S)
         /\ Len(part) = (IF n < Len(seq) THEN n ELSE Len(seq))
         /\ \A i \in 1..Len(part) : part[i] = seq[i]
<1>1. PICK l \in Nat : l = Len(seq)
  BY LenProperties
<1>2. PICK m \in Nat : m = (IF n < l THEN n ELSE l)
  OBVIOUS
<1>3. part = SubSeq(seq, 1, m)
  BY <1>1, <1>2 DEF FirstN
<1>4. \A i \in 1..m : seq[i] \in S
  BY <1>1, <1>2, ElementOfSeq
<1>5. /\ part \in Seq(S) /\ Len(part) = (IF 1 <= m THEN m - 1 + 1 ELSE 0)
      /\ \A i \in 1..(m - 1 + 1) : part[i] = seq[1 + i - 1]
  BY <1>3, <1>4, SubSeqProperties
<1>6. Len(part) = m /\ m - 1 + 1 = m
  BY <1>5
<1>7. \A i \in 1..m : part[i] = seq[i]
  BY <1>5, <1>6
<1> QED BY <1>1, <1>2, <1>5, <1>6, <1>7

---------------------------------------------------------------------------
(* The loop over the weeks                                                 *)

LEMMA TargetIsPositive == Target \in Nat /\ Target = PageLimit + 1 /\ PageLimit \in Nat \ {0}
  BY PagingAssumption DEF Target

LEMMA WantedRows ==
  ASSUME NEW st \in Stores, NEW filter, NEW cursor, NEW direction
  PROVE  /\ Wanted(st, filter, cursor, direction) \subseteq StoredRow
         /\ IsFiniteSet(Wanted(st, filter, cursor, direction))
<1>1. Wanted(st, filter, cursor, direction) \subseteq MatchingRows(st, filter)
  BY DEF Wanted
<1> QED BY <1>1, MatchingRowsFinite, FS_Subset

\* What a week's query returns.
LEMMA FoundInWeek ==
  ASSUME NEW st \in Stores, NEW w \in Week, NEW filter,
         NEW cursor \in StoredRow \cup {None}, NEW direction \in Directions,
         NEW found, found = {r \in Hits(st, w) : Within(r, filter) /\ Beyond(r, cursor, direction)}
  PROVE  /\ found = {r \in Wanted(st, filter, cursor, direction) : r.week = w}
         /\ found \subseteq StoredRow /\ IsFiniteSet(found)
<1>1. Hits(st, w) \subseteq StoredRow /\ IsFiniteSet(Hits(st, w)) /\ \A r \in Hits(st, w) : r.week = w
  BY RowsOfWeek DEF Hits
<1>2. found \subseteq StoredRow /\ IsFiniteSet(found)
  BY <1>1, FS_Subset
<1>3. DOMAIN st = Week
  BY DEF Stores
<1>4. ASSUME NEW r \in found PROVE r \in Wanted(st, filter, cursor, direction) /\ r.week = w
  BY <1>1, <1>3, BeyondIsAhead DEF Wanted, MatchingRows
<1>5. ASSUME NEW r \in Wanted(st, filter, cursor, direction), r.week = w PROVE r \in found
  <2>1. r \in MatchingRows(st, filter) /\ (cursor = None \/ Ahead(cursor, r, direction))
    BY DEF Wanted
  <2>2. r \in StoredRow /\ r \in Hits(st, w) /\ Within(r, filter)
    BY <1>5, <2>1, MatchingRowsFinite DEF MatchingRows
  <2> QED BY <2>1, <2>2, BeyondIsAhead
<1> QED BY <1>2, <1>4, <1>5

\* A round of the loop keeps its invariant.
LEMMA TakeWeekKeeps ==
  ASSUME NEW st \in Stores, NEW filter,
         NEW cursor \in StoredRow \cup {None}, NEW direction \in Directions,
         NEW weeks \in Seq(Week), weeks # <<>>,
         NEW page \in Seq(StoredRow), NEW passed, Len(page) < Target,
         PageSoFar(st, filter, cursor, direction, weeks, page, passed),
         NEW next, next = TakeWeek(page, st, Head(weeks), filter, cursor, direction)
  PROVE  /\ next \in Seq(StoredRow)
         /\ PageSoFar(st, filter, cursor, direction, Tail(weeks), next, passed)
<1>1. PICK w \in Week : w = Head(weeks) /\ w = weeks[1]
  BY HeadTailProperties
<1>2. PICK found : found = {r \in Hits(st, w) : Within(r, filter) /\ Beyond(r, cursor, direction)}
  OBVIOUS
<1>3. PICK wanted : wanted = Wanted(st, filter, cursor, direction)
  OBVIOUS
<1>4. /\ found = {r \in wanted : r.week = w} /\ wanted \subseteq StoredRow
      /\ found \subseteq StoredRow /\ IsFiniteSet(found)
  <2>1. found = {r \in Wanted(st, filter, cursor, direction) : r.week = w}
    BY <1>2, FoundInWeek
  <2>2. wanted \subseteq StoredRow /\ IsFiniteSet(wanted)
    BY <1>3, WantedRows
  <2>3. found \subseteq wanted /\ found = {r \in wanted : r.week = w}
    BY <1>3, <2>1
  <2> QED BY <2>2, <2>3, FS_Subset
<1>5. PICK scan : scan = InScanOrder(found, direction)
  OBVIOUS
<1>6. /\ scan \in Seq(found) /\ DOMAIN scan = 1..Len(scan) /\ Range(scan) = found
      /\ \A i, j \in 1..Len(scan) : i < j => Ahead(scan[i], scan[j], direction)
  BY <1>4, <1>5, InScanOrderWorks
<1>7. PICK l \in Nat : l = Len(page)
  BY LenProperties
<1>8. PICK k \in Nat \ {0} : k = Target - Len(page) /\ l + k = Target
  <2>1. PICK t \in Nat : t = Target
    BY TargetIsPositive
  <2>2. t - l \in Nat \ {0} /\ l + (t - l) = t
    BY <1>7, <2>1
  <2> QED BY <1>7, <2>1, <2>2
<1>9. PICK part : part = FirstN(scan, k)
  OBVIOUS
<1>10. PICK n \in Nat : n = Len(scan)
  BY <1>6, LenProperties
<1>11. PICK m \in Nat : m = (IF k < n THEN k ELSE n)
  OBVIOUS
<1>12. /\ part \in Seq(found) /\ Len(part) = m /\ \A i \in 1..m : part[i] = scan[i]
  <2>1. /\ part \in Seq(found)
        /\ Len(part) = (IF k < Len(scan) THEN k ELSE Len(scan))
        /\ \A i \in 1..Len(part) : part[i] = scan[i]
    BY <1>6, <1>9, FirstNWorks
  <2>2. Len(part) = m
    BY <1>10, <1>11, <2>1
  <2> QED BY <2>1, <2>2
<1>13. part \in Seq(StoredRow) /\ \A i \in 1..m : part[i] \in found
  BY <1>4, <1>12, SeqMonotonic, ElementOfSeq
<1>14. next = page \o part
  BY <1>1, <1>2, <1>5, <1>8, <1>9 DEF TakeWeek
<1>15. /\ next \in Seq(StoredRow) /\ Len(next) = l + m
       /\ \A i \in 1..l : next[i] = page[i]
       /\ \A i \in (l + 1)..(l + m) : next[i] = part[i - l]
  <2>1. /\ next \in Seq(StoredRow) /\ Len(next) = Len(page) + Len(part)
        /\ \A i \in 1..(Len(page) + Len(part)) :
             next[i] = IF i <= Len(page) THEN page[i] ELSE part[i - Len(page)]
    BY <1>13, <1>14, ConcatProperties
  <2>2. \A i \in 1..(l + m) : next[i] = IF i <= l THEN page[i] ELSE part[i - l]
    BY <1>7, <1>12, <2>1
  <2>3. \A i \in 1..l : i \in 1..(l + m) /\ i <= l
    OBVIOUS
  <2>4. \A i \in (l + 1)..(l + m) : i \in 1..(l + m) /\ ~(i <= l)
    OBVIOUS
  <2>5. next \in Seq(StoredRow) /\ Len(next) = l + m
    BY <1>7, <1>12, <2>1
  <2>6. \A i \in 1..l : next[i] = page[i]
    BY <2>2, <2>3
  <2>7. \A i \in (l + 1)..(l + m) : next[i] = part[i - l]
    BY <2>2, <2>4
  <2> QED BY <2>5, <2>6, <2>7
<1>16. PICK rest \in Seq(Week), u \in Nat : rest = Tail(weeks) /\ u = Len(rest)
  BY HeadTailProperties, LenProperties
<1>17. Len(weeks) = u + 1 /\ \A i \in 1..u : rest[i] = weeks[i + 1]
  <2>1. Len(Tail(weeks)) = Len(weeks) - 1 /\ Len(weeks) \in Nat
    BY HeadTailProperties, LenProperties
  <2>2. \A i \in 1..Len(Tail(weeks)) : Tail(weeks)[i] = weeks[i + 1]
    BY HeadTailProperties
  <2> QED BY <1>16, <2>1, <2>2
<1>18. /\ \A i, j \in 1..l : i < j => Ahead(page[i], page[j], direction)
       /\ \A i \in 1..l : page[i] \in wanted /\ page[i] \in StoredRow
       /\ \A i, j \in 1..(u + 1) : i < j => AheadWeek(weeks[i], weeks[j], direction)
       /\ \A i \in 1..l, j \in 1..(u + 1) : AheadWeek(page[i].week, weeks[j], direction)
  <2>1. \A i \in 1..l : page[i] \in Range(page) /\ page[i] \in StoredRow
    BY <1>7, ElementOfSeq, LenProperties DEF Range
  <2> QED BY <1>3, <1>7, <1>17, <2>1 DEF PageSoFar
<1>19. \A i \in 1..m : part[i] \in wanted /\ part[i] \in StoredRow /\ part[i].week = w
  BY <1>4, <1>13
<1>20. \A i \in 1..l, r \in StoredRow : r.week = w => Ahead(page[i], r, direction)
  <2> SUFFICES ASSUME NEW i \in 1..l, NEW r \in StoredRow, r.week = w
               PROVE  Ahead(page[i], r, direction)
    OBVIOUS
  <2>1. AheadWeek(page[i].week, r.week, direction) /\ page[i] \in StoredRow
    BY <1>1, <1>18
  <2> QED BY <2>1, AheadOrders
<1>21. \A i, j \in 1..(l + m) : i < j => Ahead(next[i], next[j], direction)
  <2> SUFFICES ASSUME NEW i \in 1..(l + m), NEW j \in 1..(l + m), i < j
               PROVE  Ahead(next[i], next[j], direction)
    OBVIOUS
  <2>1. CASE j <= l
    <3>1. i \in 1..l /\ j \in 1..l /\ next[i] = page[i] /\ next[j] = page[j]
      BY <1>15, <2>1
    <3> QED BY <1>18, <3>1
  <2>2. CASE i <= l /\ l < j
    <3>1. next[i] = page[i] /\ i \in 1..l /\ j - l \in 1..m /\ next[j] = part[j - l]
      BY <1>15, <2>2
    <3> QED BY <1>19, <1>20, <3>1
  <2>3. CASE l < i
    <3>1. PICK a \in 1..m, b \in 1..m : a = i - l /\ b = j - l /\ a < b
      BY <2>3
    <3>2. next[i] = part[a] /\ next[j] = part[b]
      BY <1>15, <2>3, <3>1
    <3>3. part[a] = scan[a] /\ part[b] = scan[b] /\ a \in 1..n /\ b \in 1..n
      BY <1>11, <1>12, <3>1
    <3> QED BY <1>6, <1>10, <3>1, <3>2, <3>3
  <2> QED BY <2>1, <2>2, <2>3
<1>22. \A i \in 1..(l + m) : next[i] \in wanted
                          /\ \A j \in 1..u : AheadWeek(next[i].week, rest[j], direction)
  <2> SUFFICES ASSUME NEW i \in 1..(l + m)
               PROVE  next[i] \in wanted /\ \A j \in 1..u : AheadWeek(next[i].week, rest[j], direction)
    OBVIOUS
  <2>1. CASE i <= l
    <3>1. next[i] = page[i] /\ i \in 1..l
      BY <1>15, <2>1
    <3>2. \A j \in 1..u : j + 1 \in 1..(u + 1)
      OBVIOUS
    <3> QED BY <1>17, <1>18, <3>1, <3>2
  <2>2. CASE l < i
    <3>1. next[i] = part[i - l] /\ i - l \in 1..m
      BY <1>15, <2>2
    <3>2. next[i] \in wanted /\ next[i].week = w
      BY <1>19, <3>1
    <3>3. \A j \in 1..u : 1 \in 1..(u + 1) /\ j + 1 \in 1..(u + 1) /\ 1 < j + 1
      OBVIOUS
    <3> QED BY <1>1, <1>17, <1>18, <3>2, <3>3
  <2> QED BY <2>1, <2>2
<1>23. \A i, j \in 1..u : i < j => AheadWeek(rest[i], rest[j], direction)
  <2>1. \A i, j \in 1..u : i < j => i + 1 \in 1..(u + 1) /\ j + 1 \in 1..(u + 1) /\ i + 1 < j + 1
    OBVIOUS
  <2> QED BY <1>17, <1>18, <2>1
<1>24. Range(next) = {next[i] : i \in 1..(l + m)}
  BY <1>15, LenProperties DEF Range
<1>25. ASSUME NEW r \in wanted
       PROVE  \/ r \in Range(next) \cup passed
              \/ r.week \in Range(rest)
              \/ l + m = Target /\ \A i \in 1..(l + m) : Ahead(next[i], r, direction)
  <2>1. r \in StoredRow
    BY <1>4
  <2>2. \/ r \in Range(page) \cup passed
        \/ r.week \in Range(weeks)
    BY <1>3, <1>7, <1>8 DEF PageSoFar
  <2>3. CASE r \in Range(page)
    <3>1. PICK i \in 1..l : r = page[i]
      BY <1>7, <2>3, LenProperties DEF Range
    <3> QED BY <1>15, <1>24, <3>1
  <2>4. CASE r.week \in Range(weeks) /\ r.week # w
    <3>1. PICK j \in 1..(u + 1) : r.week = weeks[j]
      BY <1>17, <2>4, LenProperties DEF Range
    <3>2. j - 1 \in 1..u /\ rest[j - 1] = weeks[j]
      BY <1>1, <1>17, <2>4, <3>1
    <3> QED BY <1>16, <3>1, <3>2, LenProperties DEF Range
  <2>5. CASE r.week = w
    <3>1. PICK b \in 1..n : r = scan[b]
      BY <1>4, <1>6, <1>10, <2>5 DEF Range
    <3>2. CASE b <= m
      <4>1. l + b \in 1..(l + m) /\ next[l + b] = part[b] /\ part[b] = r
        <5>1. b \in 1..m /\ l + b \in (l + 1)..(l + m) /\ l + b \in 1..(l + m) /\ (l + b) - l = b
          BY <3>2
        <5>2. next[l + b] = part[b]
          BY <1>15, <5>1
        <5> QED BY <1>12, <3>1, <5>1, <5>2
      <4> QED BY <1>24, <4>1
    <3>3. CASE m < b
      <4>1. m = k /\ l + m = Target
        BY <1>8, <1>11, <3>3
      <4>2. ASSUME NEW i \in 1..(l + m) PROVE Ahead(next[i], r, direction)
        <5>1. CASE i <= l
          BY <1>15, <1>20, <2>1, <2>5, <5>1
        <5>2. CASE l < i
          <6>1. PICK a \in 1..m : a = i - l
            BY <5>2
          <6>2. next[i] = part[a] /\ part[a] = scan[a] /\ a \in 1..n /\ a < b
            BY <1>11, <1>12, <1>15, <3>3, <5>2, <6>1
          <6> QED BY <1>6, <1>10, <3>1, <6>2
        <5> QED BY <5>1, <5>2
      <4> QED BY <4>1, <4>2
    <3> QED BY <3>2, <3>3
  <2> QED BY <2>2, <2>3, <2>4, <2>5
<1>26. l + m <= Target
  BY <1>8, <1>11
<1>27. Range(next) \subseteq wanted
  BY <1>22, <1>24
<1> QED BY <1>3, <1>15, <1>16, <1>21, <1>22, <1>23, <1>25, <1>26, <1>27 DEF PageSoFar

\* A round that finds the page full only leaves a week out.
LEMMA SkipWeekKeeps ==
  ASSUME NEW st \in Stores, NEW filter,
         NEW cursor \in StoredRow \cup {None}, NEW direction \in Directions,
         NEW weeks \in Seq(Week), weeks # <<>>,
         NEW page \in Seq(StoredRow), NEW passed, Len(page) >= Target,
         PageSoFar(st, filter, cursor, direction, weeks, page, passed)
  PROVE  PageSoFar(st, filter, cursor, direction, Tail(weeks), page, passed)
<1>1. PICK w \in Week : w = weeks[1]
  BY HeadTailProperties
<1>2. PICK wanted : wanted = Wanted(st, filter, cursor, direction)
  OBVIOUS
<1>3. PICK l \in Nat : l = Len(page)
  BY LenProperties
<1>4. l = Target
  BY <1>3, TargetIsPositive DEF PageSoFar
<1>5. PICK rest \in Seq(Week), u \in Nat : rest = Tail(weeks) /\ u = Len(rest)
  BY HeadTailProperties, LenProperties
<1>6. Len(weeks) = u + 1 /\ \A i \in 1..u : rest[i] = weeks[i + 1]
  <2>1. Len(Tail(weeks)) = Len(weeks) - 1 /\ Len(weeks) \in Nat
    BY HeadTailProperties, LenProperties
  <2>2. \A i \in 1..Len(Tail(weeks)) : Tail(weeks)[i] = weeks[i + 1]
    BY HeadTailProperties
  <2> QED BY <1>5, <2>1, <2>2
<1>7. /\ \A i, j \in 1..(u + 1) : i < j => AheadWeek(weeks[i], weeks[j], direction)
      /\ \A i \in 1..l, j \in 1..(u + 1) : AheadWeek(page[i].week, weeks[j], direction)
  BY <1>3, <1>6 DEF PageSoFar
<1>8. \A i, j \in 1..u : i < j => AheadWeek(rest[i], rest[j], direction)
  <2>1. \A i, j \in 1..u : i < j => i + 1 \in 1..(u + 1) /\ j + 1 \in 1..(u + 1) /\ i + 1 < j + 1
    OBVIOUS
  <2> QED BY <1>6, <1>7, <2>1
<1>9. \A i \in 1..l, j \in 1..u : AheadWeek(page[i].week, rest[j], direction)
  <2>1. \A j \in 1..u : j + 1 \in 1..(u + 1)
    OBVIOUS
  <2> QED BY <1>6, <1>7, <2>1
<1>10. ASSUME NEW r \in wanted
       PROVE  \/ r \in Range(page) \cup passed
              \/ r.week \in Range(rest)
              \/ l = Target /\ \A i \in 1..l : Ahead(page[i], r, direction)
  <2>1. \/ r \in Range(page) \cup passed
        \/ r.week \in Range(weeks)
        \/ l = Target /\ \A i \in 1..l : Ahead(page[i], r, direction)
    BY <1>2, <1>3 DEF PageSoFar
  <2>2. CASE r.week \in Range(weeks)
    <3>1. PICK j \in 1..(u + 1) : r.week = weeks[j]
      BY <1>6, <2>2, LenProperties DEF Range
    <3>2. ASSUME NEW i \in 1..l PROVE Ahead(page[i], r, direction)
      <4>1. page[i] \in StoredRow /\ r \in StoredRow
        BY <1>2, <1>3, ElementOfSeq, WantedRows
      <4>2. AheadWeek(page[i].week, r.week, direction)
        BY <1>7, <3>1
      <4> QED BY <4>1, <4>2, AheadOrders
    <3> QED BY <1>4, <3>2
  <2> QED BY <2>1, <2>2
<1> QED BY <1>2, <1>3, <1>5, <1>8, <1>9, <1>10 DEF PageSoFar

\* A row that is wanted is in a week that the query visits.
LEMMA WantedWeekMatches ==
  ASSUME NEW r \in StoredRow, NEW filter \in Filters, Within(r, filter),
         NEW cursor \in StoredRow \cup {None}, NEW direction \in Directions,
         cursor = None \/ Ahead(cursor, r, direction)
  PROVE  WeekMatches(r.week, filter, cursor, direction)
<1>1. r.ts \in Nat /\ r.week \in Nat /\ WeekOf(r.ts) = r.week
  BY PagingAssumption DEF StoredRow
<1>2. PICK start \in Nat, l \in Nat :
        start = WeekStart(r.week) /\ l = WeekLen /\ start <= r.ts /\ r.ts < start + l
  BY <1>1, WeekBounds, PagingAssumption
<1>3. filter.to = None \/ filter.to >= start
  <2>1. filter.to \in Nat \cup {None}
    BY DEF Filters
  <2> QED BY <1>1, <1>2, <2>1 DEF Within
<1>4. filter.from = None \/ filter.from < start + l
  <2>1. filter.from \in Nat \cup {None}
    BY DEF Filters
  <2> QED BY <1>1, <1>2, <2>1 DEF Within
<1>5. cursor = None \/ (IF direction = "forward" THEN start + l > cursor.ts ELSE start <= cursor.ts)
  <2> SUFFICES ASSUME cursor # None
               PROVE  IF direction = "forward" THEN start + l > cursor.ts ELSE start <= cursor.ts
    OBVIOUS
  <2>1. cursor.ts \in Nat
    BY DEF StoredRow
  <2>2. IF direction = "forward" THEN cursor.ts <= r.ts ELSE r.ts <= cursor.ts
    BY <1>1, <2>1 DEF Ahead, Before
  <2> QED BY <1>1, <1>2, <2>1, <2>2
<1> QED BY <1>2, <1>3, <1>4, <1>5 DEF WeekMatches

\* When the week files have been listed, all that is wanted is to be read.
LEMMA QueryStarts ==
  ASSUME NEW st \in Stores, NEW filter \in Filters,
         NEW cursor \in StoredRow \cup {None}, NEW direction \in Directions,
         NEW weeks, weeks = Candidates({w \in Week : st[w] # <<>>}, filter, cursor, direction)
  PROVE  weeks \in Seq(Week) /\ PageSoFar(st, filter, cursor, direction, weeks, <<>>, {})
<1>1. PICK files : files = {w \in Week : st[w] # <<>>}
  OBVIOUS
<1>2. /\ weeks \in Seq(Week)
      /\ \A w : w \in Range(weeks) <=> w \in files /\ WeekMatches(w, filter, cursor, direction)
      /\ \A i, j \in 1..Len(weeks) : i < j => AheadWeek(weeks[i], weeks[j], direction)
  <2>1. files \subseteq Week /\ weeks = Candidates(files, filter, cursor, direction)
    BY <1>1
  <2>2. weeks \in Seq(Week)
    BY <2>1, CandidatesWork
  <2>3. \A w : w \in Range(weeks) <=> w \in files /\ WeekMatches(w, filter, cursor, direction)
    BY <2>1, CandidatesWork
  <2>4. \A i, j \in 1..Len(weeks) : i < j => AheadWeek(weeks[i], weeks[j], direction)
    BY <2>1, CandidatesWork
  <2> QED BY <2>2, <2>3, <2>4
<1>3. ASSUME NEW r \in Wanted(st, filter, cursor, direction) PROVE r.week \in Range(weeks)
  <2>1. /\ r \in MatchingRows(st, filter) /\ (cursor = None \/ Ahead(cursor, r, direction))
        /\ Within(r, filter)
    BY DEF Wanted, MatchingRows
  <2>2. r \in StoredRow /\ r.week \in Week /\ r \in RowsOf(st, r.week)
    BY <2>1, MatchingRowsFinite DEF Hits
  <2>3. r.id \in 1..Len(st[r.week])
    BY <2>2, RowsOfWeek
  <2>4. st[r.week] # <<>>
    BY <2>3
  <2>5. WeekMatches(r.week, filter, cursor, direction)
    BY <2>1, <2>2, WantedWeekMatches
  <2> QED BY <1>1, <1>2, <2>2, <2>4, <2>5
<1>4. Len(<<>>) = 0 /\ 0 <= Target /\ Range(<<>>) = {} /\ 1..0 = {}
  BY TargetIsPositive DEF Range
<1> QED BY <1>2, <1>3, <1>4 DEF PageSoFar

\* The pages after the rounds of the loop, each of the one before.
LEMMA PageAfterWorks ==
  ASSUME NEW st, NEW filter, NEW cursor, NEW direction, NEW weeks \in Seq(Week),
         NEW page, page = PageAfter(st, filter, cursor, direction, weeks)
  PROVE  /\ page[0] = <<>>
         /\ \A n \in 1..Len(weeks) :
              page[n] = IF Len(page[n - 1]) >= Target THEN page[n - 1]
                        ELSE TakeWeek(page[n - 1], st, weeks[n], filter, cursor, direction)
<1> DEFINE Round(p, n) == IF Len(p) >= Target THEN p
                          ELSE TakeWeek(p, st, weeks[n], filter, cursor, direction)
           Works(g, k) == /\ g = [n \in 0..k |-> g[n]] /\ g[0] = <<>>
                          /\ \A n \in 1..k : g[n] = Round(g[n - 1], n)
           Bad == {k \in Nat : ~\E g : Works(g, k)}
<1>1. Bad = {}
  <2> SUFFICES ASSUME Bad # {} PROVE FALSE
    OBVIOUS
  <2>1. PICK k \in Bad : \A m \in Bad : k <= m
    <3>1. Bad \subseteq Nat
      OBVIOUS
    <3> HIDE DEF Bad
    <3> QED BY <3>1, NatHasLeast
  <2>2. k \in Nat /\ ~\E g : Works(g, k)
    OBVIOUS
  <2> HIDE DEF Round
  <2>3. CASE k = 0
    <3>1. Works([n \in 0..0 |-> <<>>], 0)
      OBVIOUS
    <3> QED BY <2>2, <2>3, <3>1
  <2>4. CASE k # 0
    <3>1. k - 1 \in Nat /\ k - 1 \notin Bad
      <4> HIDE DEF Bad
      <4> QED BY <2>1, <2>2, <2>4
    <3>2. PICK g : Works(g, k - 1)
      BY <3>1
    <3>3. PICK h : h = [n \in 0..k |-> IF n = k THEN Round(g[k - 1], k) ELSE g[n]]
      OBVIOUS
    <3>4. h = [n \in 0..k |-> h[n]] /\ h[0] = <<>>
      BY <2>2, <2>4, <3>2, <3>3
    <3>5. ASSUME NEW n \in 1..k PROVE h[n] = Round(h[n - 1], n)
      <4>1. n - 1 \in 0..(k - 1) /\ h[n - 1] = g[n - 1]
        BY <2>2, <3>3
      <4>2. CASE n = k
        BY <3>3, <4>1, <4>2
      <4>3. CASE n # k
        <5>1. n \in 1..(k - 1) /\ h[n] = g[n]
          BY <2>2, <3>3, <4>3
        <5>2. g[n] = Round(g[n - 1], n)
          BY <3>2, <5>1
        <5> QED BY <4>1, <5>1, <5>2
      <4> QED BY <4>2, <4>3
    <3>6. Works(h, k)
      BY <3>4, <3>5
    <3> QED BY <2>2, <3>6
  <2> QED BY <2>3, <2>4
<1>2. PICK N \in Nat : N = Len(weeks)
  BY LenProperties
<1>3. PICK g : Works(g, N)
  BY <1>1, <1>2
<1>4. g = [n \in 0..N |-> IF n = 0 THEN <<>> ELSE Round(g[n - 1], n)]
  <2> HIDE DEF Round
  <2>1. \A n \in 0..N : g[n] = IF n = 0 THEN <<>> ELSE Round(g[n - 1], n)
    BY <1>3
  <2> QED BY <1>3, <2>1
<1>5. page = [n \in 0..N |-> IF n = 0 THEN <<>> ELSE Round(page[n - 1], n)]
  BY <1>2, <1>4 DEF PageAfter
<1> QED BY <1>2, <1>5

\* The whole loop: all that is wanted, up to a full page.
LEMMA QueryPage ==
  ASSUME NEW st \in Stores, NEW filter \in Filters,
         NEW cursor \in StoredRow \cup {None}, NEW direction \in Directions,
         NEW weeks, weeks = Candidates({w \in Week : st[w] # <<>>}, filter, cursor, direction),
         NEW page, page = PageAfter(st, filter, cursor, direction, weeks)[Len(weeks)]
  PROVE  page \in Seq(StoredRow) /\ PageSoFar(st, filter, cursor, direction, <<>>, page, {})
<1>1. weeks \in Seq(Week) /\ PageSoFar(st, filter, cursor, direction, weeks, <<>>, {})
  BY QueryStarts
<1>2. PICK N \in Nat : N = Len(weeks)
  BY <1>1, LenProperties
<1>3. PICK pages : pages = PageAfter(st, filter, cursor, direction, weeks)
  OBVIOUS
<1>4. /\ pages[0] = <<>>
      /\ \A n \in 1..N :
           pages[n] = IF Len(pages[n - 1]) >= Target THEN pages[n - 1]
                      ELSE TakeWeek(pages[n - 1], st, weeks[n], filter, cursor, direction)
  <2>1. pages[0] = <<>>
    BY <1>1, <1>3, PageAfterWorks
  <2>2. \A n \in 1..Len(weeks) :
          pages[n] = IF Len(pages[n - 1]) >= Target THEN pages[n - 1]
                     ELSE TakeWeek(pages[n - 1], st, weeks[n], filter, cursor, direction)
    BY <1>1, <1>3, PageAfterWorks
  <2> QED BY <1>2, <2>1, <2>2
<1> DEFINE Good(n) == /\ pages[n] \in Seq(StoredRow)
                      /\ PageSoFar(st, filter, cursor, direction,
                                   SubSeq(weeks, n + 1, N), pages[n], {})
           Bad == {n \in 0..N : ~Good(n)}
<1>5. Good(0)
  <2>1. SubSeq(weeks, 0 + 1, N) = weeks
    BY <1>1, <1>2, SubSeqFull
  <2>2. <<>> \in Seq(StoredRow)
    OBVIOUS
  <2> QED BY <1>1, <1>4, <2>1, <2>2
<1>6. ASSUME NEW n \in 1..N, Good(n - 1) PROVE Good(n)
  <2>1. PICK left : left = SubSeq(weeks, n, N)
    OBVIOUS
  <2>2. /\ left \in Seq(Week) /\ left # <<>>
        /\ Head(left) = weeks[n] /\ Tail(left) = SubSeq(weeks, n + 1, N)
    <3>1. n \in Nat /\ n <= N /\ 1 <= n
      BY <1>2
    <3>2. \A i \in n..N : weeks[i] \in Week
      BY <1>1, <1>2, <3>1, ElementOfSeq
    <3>3. left \in Seq(Week) /\ Len(left) = N - n + 1 /\ left[1] = weeks[n]
      BY <1>2, <2>1, <3>1, <3>2, SubSeqProperties
    <3>4. left # <<>>
      BY <3>1, <3>3, EmptySeq
    <3>5. Head(left) = weeks[n] /\ Tail(left) = SubSeq(weeks, n + 1, N)
      BY <1>1, <1>2, <2>1, <3>1, HeadTailOfSubSeq
    <3> QED BY <3>3, <3>4, <3>5
  <2>3. PICK p \in Seq(StoredRow) :
          p = pages[n - 1] /\ PageSoFar(st, filter, cursor, direction, left, p, {})
    <3>1. n - 1 + 1 = n
      OBVIOUS
    <3> QED BY <1>6, <2>1, <3>1
  <2> HIDE DEF Good
  <2>4. Len(p) \in Nat /\ Target \in Nat
    BY TargetIsPositive, LenProperties
  <2>5. CASE Len(p) >= Target
    <3>1. pages[n] = p
      BY <1>4, <2>3, <2>5
    <3>2. PageSoFar(st, filter, cursor, direction, Tail(left), p, {})
      BY <2>2, <2>3, <2>5, SkipWeekKeeps
    <3> QED BY <2>2, <3>1, <3>2 DEF Good
  <2>6. CASE ~(Len(p) >= Target)
    <3>1. pages[n] = TakeWeek(p, st, Head(left), filter, cursor, direction)
      BY <1>4, <2>2, <2>3, <2>6
    <3>2. Len(p) < Target
      BY <2>4, <2>6
    <3>3. /\ pages[n] \in Seq(StoredRow)
          /\ PageSoFar(st, filter, cursor, direction, Tail(left), pages[n], {})
      BY <2>2, <2>3, <3>1, <3>2, TakeWeekKeeps
    <3> QED BY <2>2, <3>3 DEF Good
  <2> QED BY <2>5, <2>6
<1>7. Bad = {}
  <2> SUFFICES ASSUME Bad # {} PROVE FALSE
    OBVIOUS
  <2>1. PICK k \in Bad : \A m \in Bad : k <= m
    <3>1. Bad \subseteq Nat
      OBVIOUS
    <3> HIDE DEF Bad
    <3> QED BY <3>1, NatHasLeast
  <2>2. k \in 0..N /\ ~Good(k)
    OBVIOUS
  <2>3. k # 0
    BY <1>5, <2>2
  <2>4. k \in 1..N /\ k - 1 \in 0..N /\ k - 1 < k
    BY <2>2, <2>3
  <2>5. k - 1 \notin Bad
    <3> HIDE DEF Bad
    <3> QED BY <2>1, <2>4
  <2>6. Good(k - 1)
    <3> HIDE DEF Good
    <3> QED BY <2>4, <2>5
  <2> HIDE DEF Good
  <2> QED BY <1>6, <2>2, <2>4, <2>6
<1>8. Good(N)
  <2> HIDE DEF Good
  <2>1. N \in 0..N
    OBVIOUS
  <2> QED BY <1>7, <2>1
<1>9. SubSeq(weeks, N + 1, N) = <<>>
  BY SubSeqEmpty
<1> QED BY <1>2, <1>3, <1>8, <1>9

---------------------------------------------------------------------------
(* The page that is sent                                                   *)

\* A sequence over a set is one over any set that holds its elements.
LEMMA SequenceOver ==
  ASSUME NEW S, NEW U, NEW seq \in Seq(S), Range(seq) \subseteq U
  PROVE  seq \in Seq(U)
<1>1. PICK n \in Nat : n = Len(seq)
  BY LenProperties
<1>2. DOMAIN seq = 1..n
  BY <1>1, LenProperties
<1>3. \A i \in 1..n : seq[i] \in U
  BY <1>2 DEF Range
<1>4. SubSeq(seq, 1, n) \in Seq(U)
  BY <1>3, SubSeqProperties
<1>5. SubSeq(seq, 1, n) = seq
  BY <1>1, SubSeqFull
<1> QED BY <1>4, <1>5

\* Rows in order have a first and a last one.
LEMMA FirstAndLast ==
  ASSUME NEW items \in Seq(StoredRow), items # <<>>,
         \A i, j \in 1..Len(items) : i < j => Before(items[i], items[j])
  PROVE  /\ Head(items) \in Range(items) /\ Last(items) \in Range(items)
         /\ Head(items) = items[1] /\ Last(items) = items[Len(items)]
         /\ \A s \in Range(items) : s \in StoredRow
                                    /\ (s = Head(items) \/ Before(Head(items), s))
                                    /\ (s = Last(items) \/ Before(s, Last(items)))
<1>1. PICK n \in Nat \ {0} : n = Len(items)
  BY EmptySeq
<1>2. DOMAIN items = 1..n /\ 1 \in 1..n /\ n \in 1..n
  BY <1>1, LenProperties
<1>3. Head(items) = items[1] /\ Last(items) = items[n]
  BY <1>1, HeadTailProperties DEF Last
<1>4. ASSUME NEW s \in Range(items)
      PROVE  /\ s \in StoredRow
             /\ s = items[1] \/ Before(items[1], s)
             /\ s = items[n] \/ Before(s, items[n])
  <2>1. PICK i \in 1..n : s = items[i]
    BY <1>2 DEF Range
  <2>2. (i = 1 \/ 1 < i) /\ (i = n \/ i < n)
    OBVIOUS
  <2>3. s \in StoredRow
    BY <1>1, <2>1, ElementOfSeq
  <2> QED BY <1>1, <1>2, <2>1, <2>2, <2>3
<1> QED BY <1>1, <1>2, <1>3, <1>4 DEF Range

\* The page in time order, without the surplus row.
LEMMA ItemsWork ==
  ASSUME NEW direction \in Directions, NEW page \in Seq(StoredRow),
         \A i, j \in 1..Len(page) : i < j => Ahead(page[i], page[j], direction),
         NEW items, items = Items(page, direction)
  PROVE  /\ items \in Seq(StoredRow)
         /\ Len(items) = (IF PageLimit < Len(page) THEN PageLimit ELSE Len(page))
         /\ Range(items) = {page[i] : i \in 1..Len(items)}
         /\ \A i, j \in 1..Len(items) : i < j => Before(items[i], items[j])
<1>1. PICK l \in Nat : l = Len(page)
  BY LenProperties
<1>2. PICK part : part = FirstN(page, PageLimit)
  OBVIOUS
<1>3. PICK n \in Nat : n = (IF PageLimit < l THEN PageLimit ELSE l) /\ n <= l
  BY TargetIsPositive
<1>4. part \in Seq(StoredRow) /\ Len(part) = n /\ \A i \in 1..n : part[i] = page[i]
  <2>1. /\ part \in Seq(StoredRow)
        /\ Len(part) = (IF PageLimit < Len(page) THEN PageLimit ELSE Len(page))
        /\ \A i \in 1..Len(part) : part[i] = page[i]
    BY <1>2, TargetIsPositive, FirstNWorks
  <2> QED BY <1>1, <1>3, <2>1
<1>5. Range(part) = {page[i] : i \in 1..n}
  BY <1>4, LenProperties DEF Range
<1>6. \A i, j \in 1..n : i < j => Ahead(part[i], part[j], direction)
  <2>1. \A i \in 1..n : i \in 1..l
    BY <1>3
  <2> QED BY <1>1, <1>4, <2>1
<1>7. CASE direction # "backward"
  <2>1. items = part /\ direction = "forward"
    BY <1>2, <1>7 DEF Items, Directions
  <2> QED BY <1>1, <1>3, <1>4, <1>5, <1>6, <2>1 DEF Ahead
<1>8. CASE direction = "backward"
  <2>1. items = Reverse(part)
    BY <1>2, <1>8 DEF Items
  <2>2. /\ items \in Seq(StoredRow) /\ Len(items) = n /\ Range(items) = Range(part)
        /\ \A i \in 1..n : items[i] = part[n - i + 1]
    BY <1>4, <2>1, ReverseWorks
  <2>3. \A i, j \in 1..n : i < j => Before(items[i], items[j])
    <3> SUFFICES ASSUME NEW i \in 1..n, NEW j \in 1..n, i < j PROVE Before(items[i], items[j])
      OBVIOUS
    <3>1. n - i + 1 \in 1..n /\ n - j + 1 \in 1..n /\ n - j + 1 < n - i + 1
      OBVIOUS
    <3>2. Ahead(part[n - j + 1], part[n - i + 1], direction)
      BY <1>6, <3>1
    <3> QED BY <1>8, <2>2, <3>2 DEF Ahead
  <2> QED BY <1>1, <1>3, <1>5, <2>2, <2>3
<1> QED BY <1>7, <1>8

\* a query that has read all its weeks, or enough of them for its page
QueryEnded(st, filter, cursor, direction, page, passed) ==
  /\ st \in Stores /\ cursor \in StoredRow \cup {None} /\ direction \in Directions
  /\ page \in Seq(StoredRow)
  /\ \E weeks \in Seq(Week) :
       /\ PageSoFar(st, filter, cursor, direction, weeks, page, passed)
       /\ weeks = <<>> \/ ~(Len(page) < Target)

\* A query that has ended: its items are the wanted rows the scan comes to
\* first, but for those committed behind it, and a surplus row shows that there
\* are more.
LEMMA PageDone ==
  ASSUME NEW st, NEW filter, NEW cursor, NEW direction, NEW page, NEW passed,
         QueryEnded(st, filter, cursor, direction, page, passed),
         NEW items, items = Items(page, direction)
  PROVE  /\ items \in Seq(StoredRow)
         /\ Len(items) = (IF PageLimit < Len(page) THEN PageLimit ELSE Len(page))
         /\ \A i, j \in 1..Len(items) : i < j => Before(items[i], items[j])
         /\ Range(items) \subseteq Wanted(st, filter, cursor, direction)
         /\ \A r \in Wanted(st, filter, cursor, direction) :
              \/ r \in Range(items) \cup passed
              \/ /\ PageLimit < Len(page)
                 /\ \A s \in Range(items) : Ahead(s, r, direction)
         /\ PageLimit < Len(page) =>
              \E r \in Wanted(st, filter, cursor, direction) :
                \A s \in Range(items) : Ahead(s, r, direction)
<1>a. /\ st \in Stores /\ cursor \in StoredRow \cup {None} /\ direction \in Directions
      /\ page \in Seq(StoredRow)
  BY DEF QueryEnded
<1>b. PICK weeks \in Seq(Week) :
        /\ PageSoFar(st, filter, cursor, direction, weeks, page, passed)
        /\ weeks = <<>> \/ ~(Len(page) < Target)
  BY DEF QueryEnded
<1>1. PICK l \in Nat : l = Len(page)
  BY <1>a, LenProperties
<1>2. PICK wanted : wanted = Wanted(st, filter, cursor, direction)
  OBVIOUS
<1>3. PICK n \in Nat : n = (IF PageLimit < l THEN PageLimit ELSE l)
  BY TargetIsPositive
<1>4. /\ \A i, j \in 1..l : i < j => Ahead(page[i], page[j], direction)
      /\ \A i \in 1..l : page[i] \in wanted
      /\ l <= Target
  <2>1. \A i \in 1..l : page[i] \in Range(page)
    BY <1>a, <1>b, <1>1, LenProperties DEF Range
  <2> QED BY <1>a, <1>b, <1>1, <1>2, <2>1 DEF PageSoFar
<1>5. /\ items \in Seq(StoredRow) /\ Len(items) = n
      /\ Range(items) = {page[i] : i \in 1..n}
      /\ \A i, j \in 1..n : i < j => Before(items[i], items[j])
  <2>1. \A i, j \in 1..Len(page) : i < j => Ahead(page[i], page[j], direction)
    BY <1>1, <1>4
  <2>2. items \in Seq(StoredRow)
        /\ Len(items) = (IF PageLimit < Len(page) THEN PageLimit ELSE Len(page))
    BY <1>a, <2>1, ItemsWork
  <2>3. Range(items) = {page[i] : i \in 1..Len(items)}
    BY <1>a, <2>1, ItemsWork
  <2>4. \A i, j \in 1..Len(items) : i < j => Before(items[i], items[j])
    BY <1>a, <2>1, ItemsWork
  <2> QED BY <1>1, <1>3, <2>2, <2>3, <2>4
<1>6. \A i \in 1..n : i \in 1..l
  BY <1>3, TargetIsPositive
<1>7. PageLimit < l => l = Target /\ n = PageLimit /\ l \in 1..l /\ \A i \in 1..n : i < l
  BY <1>3, <1>4, TargetIsPositive
<1>8. Range(items) \subseteq wanted
  BY <1>4, <1>5, <1>6
<1>9. ASSUME PageLimit < l
      PROVE  page[l] \in wanted /\ \A s \in Range(items) : Ahead(s, page[l], direction)
  BY <1>4, <1>5, <1>6, <1>7, <1>9
<1>10. ASSUME NEW r \in wanted
       PROVE  \/ r \in Range(items) \cup passed
              \/ PageLimit < l /\ \A s \in Range(items) : Ahead(s, r, direction)
  <2>1. \/ r \in Range(page) \cup passed
        \/ l = Target /\ \A i \in 1..l : Ahead(page[i], r, direction)
    <3>1. \/ r \in Range(page) \cup passed
          \/ r.week \in Range(weeks)
          \/ l = Target /\ \A i \in 1..l : Ahead(page[i], r, direction)
      BY <1>a, <1>b, <1>1, <1>2 DEF PageSoFar
    <3>2. ASSUME r.week \in Range(weeks)
          PROVE  l = Target /\ \A i \in 1..l : Ahead(page[i], r, direction)
      <4>1. PICK j \in 1..Len(weeks) : r.week = weeks[j]
        BY <1>a, <1>b, <3>2, LenProperties DEF Range
      <4>2. weeks # <<>>
        BY <4>1, EmptySeq
      <4>3. l = Target
        BY <1>a, <1>b, <1>1, <1>4, <4>2, TargetIsPositive
      <4>4. ASSUME NEW i \in 1..l PROVE Ahead(page[i], r, direction)
        <5>1. AheadWeek(page[i].week, r.week, direction)
          BY <1>a, <1>b, <1>1, <4>1 DEF PageSoFar
        <5>2. page[i] \in StoredRow /\ r \in StoredRow
          BY <1>a, <1>b, <1>1, <1>2, ElementOfSeq, WantedRows
        <5> QED BY <1>a, <1>b, <5>1, <5>2, AheadOrders
      <4> QED BY <4>3, <4>4
    <3> QED BY <3>1, <3>2
  <2>2. CASE r \in passed
    BY <2>2
  <2>3. CASE r \in Range(page)
    <3>1. PICK i \in 1..l : r = page[i]
      BY <1>a, <1>b, <1>1, <2>3, LenProperties DEF Range
    <3>2. CASE i <= n
      BY <1>5, <3>1, <3>2
    <3>3. CASE n < i
      <4>1. PageLimit < l /\ i = l
        BY <1>a, <1>b, <1>3, <1>4, <1>7, <3>3, TargetIsPositive
      <4> QED BY <1>9, <3>1, <4>1
    <3> QED BY <3>2, <3>3
  <2>4. CASE l = Target /\ \A i \in 1..l : Ahead(page[i], r, direction)
    <3>1. PageLimit < l
      BY <1>a, <1>b, <2>4, TargetIsPositive
    <3> QED BY <1>5, <1>6, <2>4, <3>1
  <2> QED BY <2>1, <2>2, <2>3, <2>4
<1> QED BY <1>1, <1>2, <1>3, <1>5, <1>8, <1>9, <1>10

\* The page with its cursors.
LEMMA AsPageWorks ==
  ASSUME NEW page, NEW before, NEW after,
         NEW direction, direction = (IF after # None THEN "forward" ELSE "backward"),
         NEW items, items = Items(page, direction),
         NEW answer, answer = AsPage(page, before, after)
  PROVE  answer.items = items /\ answer.newer = IF items = <<>> THEN after ELSE Last(items)
<1>1. CASE items = <<>>
  <2>1. answer = [items |-> <<>>, older |-> None, newer |-> after,
                  hasOlder |-> FALSE, hasNewer |-> FALSE]
    BY <1>1 DEF AsPage
  <2> QED BY <1>1, <2>1
<1>2. CASE items # <<>>
  <2>1. PICK a, b : answer = [items |-> items, older |-> Head(items), newer |-> Last(items),
                              hasOlder |-> a, hasNewer |-> b]
    BY <1>2 DEF AsPage
  <2> QED BY <1>2, <2>1
<1> QED BY <1>1, <1>2

\* A page after a row says that there are older rows, and one before a row, or of
\* the newest, that there are older ones if it has a surplus row.
LEMMA AsPageForward ==
  ASSUME NEW page, NEW before, NEW after, after # None,
         NEW items, items = Items(page, "forward"), items # <<>>,
         NEW answer, answer = AsPage(page, before, after)
  PROVE  answer.hasOlder /\ (answer.hasNewer <=> Len(page) > PageLimit)
<1>1. answer = [items |-> items, older |-> Head(items), newer |-> Last(items),
                hasOlder |-> TRUE, hasNewer |-> Len(page) > PageLimit]
  BY DEF AsPage
<1>2. answer.hasOlder = TRUE /\ answer.hasNewer = (Len(page) > PageLimit)
  BY <1>1
<1> QED BY <1>2

LEMMA AsPageBackward ==
  ASSUME NEW page, NEW before, NEW after, after = None,
         NEW items, items = Items(page, "backward"), items # <<>>,
         NEW answer, answer = AsPage(page, before, after)
  PROVE  (answer.hasOlder <=> Len(page) > PageLimit) /\ (answer.hasNewer <=> before # None)
<1>1. answer = [items |-> items, older |-> Head(items), newer |-> Last(items),
                hasOlder |-> Len(page) > PageLimit, hasNewer |-> before # None]
  BY DEF AsPage
<1>2. answer.hasOlder = (Len(page) > PageLimit) /\ answer.hasNewer = (before # None)
  BY <1>1
<1> QED BY <1>2

\* The whole query: a page of all that is wanted, up to a full page.
LEMMA QueryWorks ==
  ASSUME NEW st \in Stores, NEW filter \in Filters,
         NEW before \in StoredRow \cup {None}, NEW after \in StoredRow \cup {None},
         NEW direction, direction = (IF after # None THEN "forward" ELSE "backward"),
         NEW cursor, cursor = (IF after # None THEN after ELSE before)
  PROVE  \E page \in Seq(StoredRow) :
           /\ Query(st, filter, before, after) = AsPage(page, before, after)
           /\ PageSoFar(st, filter, cursor, direction, <<>>, page, {})
<1>1. PICK weeks : weeks = Candidates({w \in Week : st[w] # <<>>}, filter, cursor, direction)
  OBVIOUS
<1>2. PICK page : page = PageAfter(st, filter, cursor, direction, weeks)[Len(weeks)]
  OBVIOUS
<1>3. direction \in Directions /\ cursor \in StoredRow \cup {None}
  BY DEF Directions
<1>4. page \in Seq(StoredRow) /\ PageSoFar(st, filter, cursor, direction, <<>>, page, {})
  BY <1>1, <1>2, <1>3, QueryPage
<1>5. DOMAIN st = Week
  BY DEF Stores
<1>6. Query(st, filter, before, after) = AsPage(page, before, after)
  BY <1>1, <1>2, <1>5 DEF Query
<1> QED BY <1>4, <1>6

---------------------------------------------------------------------------
(* Lines and their weeks                                                   *)

LEMMA NoFilterIsAFilter == NoFilter \in Filters /\ \A r : Within(r, NoFilter)
  BY DEF NoFilter, Filters, Within

LEMMA NoneIsNoRow == None \notin StoredRow
<1>1. StoredRow \subseteq [ts : Nat, week : Week, id : Nat]
  BY DEF StoredRow
<1> QED BY <1>1, PagingAssumption

\* The lines of a batch for a week.
LEMMA LinesOfWork ==
  ASSUME NEW n \in Nat, NEW batch \in [1..n -> Lines], NEW w, NEW lines, lines = LinesOf(batch, w)
  PROVE  lines \in Seq(Lines) /\ \A i \in 1..Len(lines) : WeekOf(lines[i].ts) = w
<1>1. PICK numbers : numbers = {i \in 1..n : WeekOf(batch[i].ts) = w}
  OBVIOUS
<1>2. numbers \subseteq Int /\ IsFiniteSet(numbers)
  <2>1. numbers \subseteq 1..n /\ numbers \in SUBSET (1..n)
    BY <1>1
  <2>2. IsFiniteSet(1..n)
    BY FS_Interval
  <2>3. IsFiniteSet(numbers)
    BY <2>1, <2>2, FS_Subset
  <2> QED BY <2>1, <2>3
<1>3. PICK places : places = Ascending(numbers)
  OBVIOUS
<1>4. places \in Seq(numbers) /\ DOMAIN places = 1..Len(places)
  BY <1>2, <1>3, AscendingWorks
<1>5. PICK m \in Nat : m = Len(places)
  BY <1>4, LenProperties
<1>6. lines = [k \in 1..m |-> batch[places[k]]]
  <2>1. DOMAIN batch = 1..n
    OBVIOUS
  <2> QED BY <1>1, <1>3, <1>4, <1>5, <2>1 DEF LinesOf
<1>7. \A k \in 1..m : places[k] \in numbers
  BY <1>4, <1>5, ElementOfSeq
<1>8. \A k \in 1..m : batch[places[k]] \in Lines /\ WeekOf(batch[places[k]].ts) = w
  BY <1>1, <1>7
<1>9. lines \in Seq(Lines) /\ Len(lines) = m
  BY <1>6, <1>8
<1> QED BY <1>6, <1>8, <1>9

\* lines of a week
LinesOfWeek(lines, w) ==
  /\ lines \in Seq([ts : Nat, hit : BOOLEAN])
  /\ \A i \in 1..Len(lines) : WeekOf(lines[i].ts) = w

\* the tables after a week's commit, and its rows that match
Committed(st, w, lines) == [st EXCEPT ![w] = @ \o lines]
NewRows(st, st2, w) == {r \in RowsOf(st2, w) : r.id > Len(st[w]) /\ st2[w][r.id].hit}

\* A week's commit adds its rows to those there were.
LEMMA CommittedRows ==
  ASSUME NEW st \in Stores, NEW w \in Week, NEW lines, LinesOfWeek(lines, w),
         NEW st2, st2 = Committed(st, w, lines), NEW new, new = NewRows(st, st2, w)
  PROVE  /\ st2 \in Stores
         /\ MatchingRows(st2, NoFilter) = MatchingRows(st, NoFilter) \cup new
         /\ \A r \in new : r.week = w
<1> DEFINE Line == [ts : Nat, hit : BOOLEAN]
<1>0. lines \in Seq(Line) /\ \A i \in 1..Len(lines) : WeekOf(lines[i].ts) = w
  BY DEF LinesOfWeek
<1>1. /\ st \in [Week -> Seq(Line)]
      /\ \A v \in Week : \A i \in 1..Len(st[v]) : WeekOf(st[v][i].ts) = v
  BY DEF Stores
<1>2. st[w] \in Seq(Line)
  BY <1>1
<1>3. PICK n \in Nat, m \in Nat : n = Len(st[w]) /\ m = Len(lines)
  BY <1>0, <1>2, LenProperties
<1>4. /\ st2[w] = st[w] \o lines /\ st2 \in [Week -> Seq(Line)]
      /\ \A v \in Week : v # w => st2[v] = st[v]
  <2>1. st[w] \o lines \in Seq(Line)
    BY <1>0, <1>2, ConcatProperties
  <2> QED BY <1>1, <2>1 DEF Committed
<1>5. /\ Len(st2[w]) = n + m
      /\ \A i \in 1..n : st2[w][i] = st[w][i]
      /\ \A i \in (n + 1)..(n + m) : st2[w][i] = lines[i - n]
  <2>1. /\ Len(st[w] \o lines) = Len(st[w]) + Len(lines)
        /\ \A i \in 1..(Len(st[w]) + Len(lines)) :
             (st[w] \o lines)[i] = IF i <= Len(st[w]) THEN st[w][i] ELSE lines[i - Len(st[w])]
    BY <1>0, <1>2, ConcatProperties
  <2>2. \A i \in 1..(n + m) : st2[w][i] = IF i <= n THEN st[w][i] ELSE lines[i - n]
    BY <1>3, <1>4, <2>1
  <2> QED BY <1>3, <1>4, <2>1, <2>2
<1>6. \A v \in Week : \A i \in 1..Len(st2[v]) : WeekOf(st2[v][i].ts) = v
  <2> SUFFICES ASSUME NEW v \in Week, NEW i \in 1..Len(st2[v]) PROVE WeekOf(st2[v][i].ts) = v
    OBVIOUS
  <2>1. CASE v # w
    BY <1>1, <1>4, <2>1
  <2>2. CASE v = w /\ i <= n
    <3>1. i \in 1..n /\ st2[v][i] = st[w][i]
      BY <1>5, <2>2
    <3> QED BY <1>1, <1>3, <2>2, <3>1
  <2>3. CASE v = w /\ n < i
    <3>1. i \in (n + 1)..(n + m) /\ i - n \in 1..m
      BY <1>5, <2>3
    <3>2. st2[v][i] = lines[i - n] /\ i - n \in 1..Len(lines)
      BY <1>3, <1>5, <2>3, <3>1
    <3>3. WeekOf(lines[i - n].ts) = w
      BY <1>0, <3>2
    <3> QED BY <2>3, <3>2, <3>3
  <2>4. v # w \/ (v = w /\ i <= n) \/ (v = w /\ n < i)
    BY <1>5
  <2> QED BY <2>1, <2>2, <2>3, <2>4
<1>7. st2 \in Stores
  BY <1>4, <1>6 DEF Stores
<1> DEFINE At(s, v, i) == [ts |-> s[v][i].ts, week |-> v, id |-> i]
<1>8. ASSUME NEW s \in Stores
      PROVE  \A r : r \in MatchingRows(s, NoFilter)
                    <=> \E v \in Week : \E i \in 1..Len(s[v]) : r = At(s, v, i) /\ s[v][i].hit
  <2>1. DOMAIN s = Week
    BY DEF Stores
  <2>2. \A v : \A r : r \in RowsOf(s, v) <=> \E i \in 1..Len(s[v]) : r = At(s, v, i)
    BY DEF RowsOf
  <2>3. \A v, i : At(s, v, i).id = i
    OBVIOUS
  <2> HIDE DEF At
  <2>4. \A v : \A r : r \in Hits(s, v)
                      <=> \E i \in 1..Len(s[v]) : r = At(s, v, i) /\ s[v][i].hit
    BY <2>2, <2>3 DEF Hits
  <2>5. \A r : r \in MatchingRows(s, NoFilter) <=> \E v \in Week : r \in Hits(s, v)
    BY <2>1, NoFilterIsAFilter DEF MatchingRows
  <2> QED BY <2>4, <2>5
<1>9. \A r : r \in new <=> \E i \in (n + 1)..(n + m) : r = At(st2, w, i) /\ st2[w][i].hit
  <2>1. \A r : r \in RowsOf(st2, w) <=> \E i \in 1..(n + m) : r = At(st2, w, i)
    BY <1>5 DEF RowsOf
  <2>2. \A i : At(st2, w, i).id = i
    OBVIOUS
  <2> HIDE DEF At
  <2>3. ASSUME NEW r \in new PROVE \E i \in (n + 1)..(n + m) : r = At(st2, w, i) /\ st2[w][i].hit
    <3>1. PICK i \in 1..(n + m) : r = At(st2, w, i)
      BY <2>1 DEF NewRows
    <3>2. i > n /\ st2[w][i].hit
      BY <1>3, <2>2, <3>1 DEF NewRows
    <3>3. i \in (n + 1)..(n + m)
      BY <3>2
    <3> QED BY <3>1, <3>2, <3>3
  <2>4. ASSUME NEW r, NEW i \in (n + 1)..(n + m), r = At(st2, w, i), st2[w][i].hit PROVE r \in new
    <3>1. i \in 1..(n + m) /\ i > n
      OBVIOUS
    <3>2. r \in RowsOf(st2, w) /\ r.id = i
      BY <2>1, <2>2, <2>4, <3>1
    <3> QED BY <1>3, <2>4, <3>1, <3>2 DEF NewRows
  <2> QED BY <2>3, <2>4
<1>10. \A r \in new : r.week = w
  <2>1. \A r \in new : r \in RowsOf(st2, w)
    BY DEF NewRows
  <2> QED BY <1>7, <2>1, RowsOfWeek
<1>11. ASSUME NEW r \in MatchingRows(st, NoFilter) PROVE r \in MatchingRows(st2, NoFilter)
  <2>1. PICK v \in Week, i \in Nat : i \in 1..Len(st[v]) /\ r = At(st, v, i) /\ st[v][i].hit
    BY <1>8
  <2>2. i \in 1..Len(st2[v]) /\ st2[v][i] = st[v][i]
    <3>1. CASE v # w
      BY <1>4, <2>1, <3>1
    <3>2. CASE v = w
      BY <1>3, <1>5, <2>1, <3>2
    <3> QED BY <3>1, <3>2
  <2>3. r = At(st2, v, i) /\ st2[v][i].hit
    BY <2>1, <2>2
  <2> HIDE DEF At
  <2> QED BY <1>7, <1>8, <2>2, <2>3
<1>12. ASSUME NEW r \in new PROVE r \in MatchingRows(st2, NoFilter)
  <2>1. PICK i \in (n + 1)..(n + m) : r = At(st2, w, i) /\ st2[w][i].hit
    BY <1>9
  <2>2. i \in 1..Len(st2[w])
    BY <1>5
  <2> HIDE DEF At
  <2> QED BY <1>7, <1>8, <2>1, <2>2
<1>13. ASSUME NEW r \in MatchingRows(st2, NoFilter)
       PROVE  r \in MatchingRows(st, NoFilter) \cup new
  <2>1. PICK v \in Week, i \in Nat : i \in 1..Len(st2[v]) /\ r = At(st2, v, i) /\ st2[v][i].hit
    <3> HIDE DEF At
    <3>1. \E v \in Week : \E i \in 1..Len(st2[v]) : r = At(st2, v, i) /\ st2[v][i].hit
      BY <1>7, <1>8
    <3> QED BY <3>1
  <2>2. CASE v = w /\ n < i
    <3>1. i \in (n + 1)..(n + m)
      BY <1>5, <2>1, <2>2
    <3> HIDE DEF At
    <3> QED BY <1>9, <2>1, <2>2, <3>1
  <2>3. CASE ~(v = w /\ n < i)
    <3>1. i \in 1..Len(st[v]) /\ st2[v][i] = st[v][i]
      BY <1>3, <1>4, <1>5, <2>1, <2>3
    <3>2. r = At(st, v, i) /\ st[v][i].hit
      BY <2>1, <3>1
    <3> HIDE DEF At
    <3> QED BY <1>8, <3>1, <3>2
  <2> QED BY <2>2, <2>3
<1> QED BY <1>7, <1>10, <1>11, <1>12, <1>13

---------------------------------------------------------------------------
(* The state                                                               *)

\* The tables hold lines of their weeks, so the rows are rows of the model.
LEMMA StoreIsSound ==
  ASSUME TypeOK, InOwnWeek
  PROVE  store \in Stores /\ MatchingRows(store, NoFilter) \subseteq Row
<1>1. Lines \subseteq [ts : Nat, hit : BOOLEAN] /\ store \in [Week -> Seq(Lines)]
  <2>1. 0..MaxTs \subseteq Nat
    BY TailAssumption
  <2> QED BY <2>1 DEF Lines, TypeOK
<1>2. ASSUME NEW w \in Week PROVE store[w] \in Seq([ts : Nat, hit : BOOLEAN])
  <2>1. store[w] \in Seq(Lines)
    BY <1>1
  <2> QED BY <1>1, <2>1, SeqMonotonic
<1>3. store \in [Week -> Seq([ts : Nat, hit : BOOLEAN])]
  BY <1>1, <1>2
<1>4. store \in Stores
  BY <1>3 DEF Stores, InOwnWeek
<1>5. ASSUME NEW r \in MatchingRows(store, NoFilter) PROVE r \in Row
  <2>1. r \in StoredRow /\ r.week \in Week /\ r \in RowsOf(store, r.week)
    BY <1>4, MatchingRowsFinite DEF Hits
  <2>2. r.id \in 1..Len(store[r.week]) /\ r.ts = store[r.week][r.id].ts
    BY <1>4, <2>1, RowsOfWeek
  <2>3. store[r.week][r.id] \in Lines
    BY <1>1, <2>1, <2>2, ElementOfSeq
  <2>4. r.ts \in 0..MaxTs /\ r.id \in Nat \ {0}
    BY <2>2, <2>3 DEF Lines
  <2> QED BY <2>1, <2>4 DEF Row, StoredRow
<1> QED BY <1>4, <1>5

\* What the invariant says of the parts of the state.
LEMMA InvariantFacts ==
  ASSUME TailInv
  PROVE  /\ store \in Stores /\ MatchingRows(store, NoFilter) \subseteq Row \cap StoredRow
         /\ shown \in Seq(StoredRow) /\ client.page \in Seq(StoredRow) /\ client.weeks \in Seq(Week)
         /\ client.cursor \in StoredRow \cup {None}
         /\ client.cursor = None <=> shown = <<>>
         /\ shown # <<>> => client.cursor = Last(shown)
<1>1. /\ store \in Stores /\ MatchingRows(store, NoFilter) \subseteq Row
      /\ MatchingRows(store, NoFilter) \subseteq StoredRow
  BY StoreIsSound, MatchingRowsFinite DEF TailInv
<1>2. shown \in Seq(Row) /\ client.page \in Seq(Row) /\ client.weeks \in Seq(Week)
  BY DEF TailInv, TypeOK
<1>3. shown \in Seq(StoredRow)
  <2>1. Range(shown) \subseteq StoredRow
    BY <1>1 DEF TailInv, CursorIsLastShown
  <2> QED BY <1>2, <2>1, SequenceOver
<1>4. client.page \in Seq(StoredRow)
  <2>1. CASE client.state = "reading"
    <3>1. Range(client.page) \subseteq Wanted(store, NoFilter, client.cursor, client.direction)
      BY <2>1 DEF TailInv, QueryUnderWay, PageSoFar
    <3>2. Range(client.page) \subseteq StoredRow
      BY <1>1, <3>1, WantedRows
    <3> QED BY <1>2, <3>2, SequenceOver
  <2>2. CASE client.state # "reading"
    <3>1. client.page = <<>>
      BY <2>2 DEF TailInv, QueryUnderWay
    <3> QED BY <3>1, EmptySeq
  <2> QED BY <2>1, <2>2
<1>5. IF shown = <<>> THEN client.cursor = None ELSE client.cursor = Last(shown)
  BY DEF TailInv, CursorIsLastShown
<1>6. shown # <<>> => Last(shown) \in StoredRow /\ Last(shown) # None
  <2> SUFFICES ASSUME shown # <<>> PROVE Last(shown) \in StoredRow /\ Last(shown) # None
    OBVIOUS
  <2>1. Len(shown) \in 1..Len(shown)
    BY <1>3, EmptySeq
  <2>2. Last(shown) \in StoredRow
    BY <1>3, <2>1, ElementOfSeq DEF Last
  <2> QED BY <2>2, NoneIsNoRow
<1> QED BY <1>1, <1>2, <1>3, <1>4, <1>5, <1>6

\* the late rows, after a page that ends with the row
LateUpTo(late, passed, row) == late \cup {q \in passed : Before(q, row)}

\* a query of the client that has ended, with a page of rows
PageEnds(direction, weeks, page, passed, items) ==
  /\ direction = IF client.cursor = None THEN "backward" ELSE "forward"
  /\ weeks \in Seq(Week) /\ page \in Seq(StoredRow)
  /\ PageSoFar(store, NoFilter, client.cursor, direction, weeks, page, passed)
  /\ weeks = <<>> \/ ~(Len(page) < Target)
  /\ items = Items(page, direction) /\ items # <<>>

\* what the client has with it, which is right
Shows(items, seen, late) ==
  /\ items \in Seq(StoredRow) /\ Last(items) \in Row
  /\ seen \in Seq(Row) /\ seen # <<>> /\ Last(seen) = Last(items)
  /\ Range(seen) \subseteq MatchingRows(store, NoFilter)
  /\ \A i, j \in 1..Len(seen) : i < j => Before(seen[i], seen[j])
  /\ \A r \in MatchingRows(store, NoFilter) :
       ~Before(r, Head(seen)) /\ ~Before(Last(items), r) => r \in Range(seen) \cup late

\* What the client has after a page that is not empty.
LEMMA PageIsShown ==
  ASSUME TailInv, NEW direction, NEW weeks, NEW page, NEW passed, NEW items,
         PageEnds(direction, weeks, page, passed, items),
         NEW seen, seen = shown \o items
  PROVE  Shows(items, seen, LateUpTo(history.late, passed, Last(items)))
<1>0. /\ direction = IF client.cursor = None THEN "backward" ELSE "forward"
      /\ weeks \in Seq(Week) /\ page \in Seq(StoredRow)
      /\ PageSoFar(store, NoFilter, client.cursor, direction, weeks, page, passed)
      /\ weeks = <<>> \/ ~(Len(page) < Target)
      /\ items = Items(page, direction) /\ items # <<>>
  BY DEF PageEnds
<1>1. PICK cursor : cursor = client.cursor
  OBVIOUS
<1>2. PICK all : all = MatchingRows(store, NoFilter)
  OBVIOUS
<1>3. PICK wanted : wanted = Wanted(store, NoFilter, cursor, direction)
  OBVIOUS
<1>4. /\ store \in Stores /\ all \subseteq Row /\ all \subseteq StoredRow /\ shown \in Seq(StoredRow)
      /\ cursor \in StoredRow \cup {None} /\ (cursor = None <=> shown = <<>>)
      /\ shown # <<>> => cursor = Last(shown)
  BY <1>1, <1>2, InvariantFacts
<1>5. direction \in Directions
  BY <1>0 DEF Directions
<1>6. /\ wanted \subseteq all /\ wanted \subseteq StoredRow
      /\ \A r \in all : r \in wanted <=> cursor = None \/ Before(cursor, r)
  <2>1. wanted = {r \in all : cursor = None \/ Ahead(cursor, r, direction)}
    BY <1>2, <1>3 DEF Wanted
  <2>2. \A r : cursor # None => (Ahead(cursor, r, direction) <=> Before(cursor, r))
    BY <1>0, <1>1 DEF Ahead
  <2> QED BY <1>4, <2>1, <2>2
<1>7. /\ items \in Seq(StoredRow)
      /\ \A i, j \in 1..Len(items) : i < j => Before(items[i], items[j])
      /\ Range(items) \subseteq wanted
      /\ \A r \in wanted : r \in Range(items) \cup passed \/ \A s \in Range(items) : Ahead(s, r, direction)
  <2>1. QueryEnded(store, NoFilter, cursor, direction, page, passed)
    BY <1>0, <1>1, <1>4, <1>5 DEF QueryEnded
  <2>2. items \in Seq(StoredRow)
    BY <1>0, <2>1, PageDone
  <2>3. \A i, j \in 1..Len(items) : i < j => Before(items[i], items[j])
    BY <1>0, <2>1, PageDone
  <2>4. Range(items) \subseteq wanted
    BY <1>0, <1>3, <2>1, PageDone
  <2>5. \A r \in wanted : r \in Range(items) \cup passed \/ \A s \in Range(items) : Ahead(s, r, direction)
    BY <1>0, <1>3, <2>1, PageDone
  <2> QED BY <2>2, <2>3, <2>4, <2>5
<1>8. /\ Head(items) \in Range(items) /\ Last(items) \in Range(items)
      /\ Head(items) = items[1] /\ Last(items) = items[Len(items)]
      /\ \A s \in Range(items) : s \in StoredRow
                                 /\ (s = Head(items) \/ Before(Head(items), s))
                                 /\ (s = Last(items) \/ Before(s, Last(items)))
  BY <1>0, <1>7, FirstAndLast
<1>9. PICK n \in Nat, m \in Nat \ {0} : n = Len(shown) /\ m = Len(items)
  BY <1>0, <1>4, <1>7, EmptySeq, LenProperties
<1>10. /\ seen \in Seq(StoredRow) /\ Len(seen) = n + m
       /\ \A i \in 1..n : seen[i] = shown[i]
       /\ \A i \in (n + 1)..(n + m) : seen[i] = items[i - n]
  <2>1. /\ seen \in Seq(StoredRow) /\ Len(seen) = Len(shown) + Len(items)
        /\ \A i \in 1..(Len(shown) + Len(items)) :
             seen[i] = IF i <= Len(shown) THEN shown[i] ELSE items[i - Len(shown)]
    BY <1>4, <1>7, ConcatProperties
  <2>2. \A i \in 1..(n + m) : seen[i] = IF i <= n THEN shown[i] ELSE items[i - n]
    BY <1>9, <2>1
  <2> QED BY <1>9, <2>1, <2>2
<1>11. Range(seen) = Range(shown) \cup Range(items)
  BY <1>4, <1>7, RangeConcatenation
<1>12. Range(seen) \subseteq all /\ seen \in Seq(Row) /\ Last(items) \in Row
  <2>1. Range(shown) \subseteq all
    BY <1>2 DEF TailInv, CursorIsLastShown
  <2>2. Range(seen) \subseteq all /\ Range(seen) \subseteq Row
    BY <1>4, <1>6, <1>7, <1>11, <2>1
  <2>3. seen \in Seq(Row)
    BY <1>10, <2>2, SequenceOver
  <2> QED BY <1>4, <1>6, <1>7, <1>8, <2>2, <2>3
<1>13. seen # <<>> /\ Last(seen) = Last(items) /\ Head(seen) = seen[1]
  <2>1. seen # <<>>
    BY <1>9, <1>10
  <2>2. n + m \in (n + 1)..(n + m) /\ (n + m) - n = m
    OBVIOUS
  <2>3. Last(seen) = Last(items)
    BY <1>8, <1>9, <1>10, <2>2 DEF Last
  <2> QED BY <1>10, <2>1, <2>3, HeadTailProperties
<1>14. \A i \in 1..n : shown[i] \in StoredRow /\ (shown[i] = cursor \/ Before(shown[i], cursor))
  <2> SUFFICES ASSUME NEW i \in 1..n
               PROVE  shown[i] \in StoredRow /\ (shown[i] = cursor \/ Before(shown[i], cursor))
    OBVIOUS
  <2>1. shown # <<>>
    BY <1>9
  <2>2. shown[i] \in Range(shown)
    BY <1>4, <1>9, LenProperties DEF Range
  <2>3. \A j, k \in 1..Len(shown) : j < k => Before(shown[j], shown[k])
    BY DEF TailInv, ShownInOrder
  <2> QED BY <1>4, <2>1, <2>2, <2>3, FirstAndLast
<1>15. \A i, j \in 1..(n + m) : i < j => Before(seen[i], seen[j])
  <2> SUFFICES ASSUME NEW i \in 1..(n + m), NEW j \in 1..(n + m), i < j
               PROVE  Before(seen[i], seen[j])
    OBVIOUS
  <2>1. CASE j <= n
    <3>1. i \in 1..n /\ j \in 1..n
      BY <2>1
    <3> QED BY <1>9, <1>10, <3>1 DEF TailInv, ShownInOrder
  <2>2. CASE i <= n /\ n < j
    <3>1. i \in 1..n /\ seen[i] = shown[i]
      BY <1>10, <2>2
    <3>2. j - n \in 1..m /\ seen[j] = items[j - n]
      BY <1>10, <2>2
    <3>3. seen[j] \in Range(items)
      BY <1>7, <1>9, <3>2, LenProperties DEF Range
    <3>4. shown # <<>>
      BY <1>9, <3>1
    <3>5. seen[j] \in StoredRow /\ Before(cursor, seen[j]) /\ cursor \in StoredRow
      BY <1>4, <1>6, <1>7, <3>3, <3>4
    <3> QED BY <1>14, <3>1, <3>5, BeforeOrders
  <2>3. CASE n < i
    <3>1. PICK a \in 1..m, b \in 1..m : a = i - n /\ b = j - n /\ a < b
      BY <2>3
    <3>2. i \in (n + 1)..(n + m) /\ j \in (n + 1)..(n + m)
      BY <2>3
    <3>3. seen[i] = items[a] /\ seen[j] = items[b]
      BY <1>10, <3>1, <3>2
    <3> QED BY <1>7, <1>9, <3>1, <3>3
  <2>4. j <= n \/ (i <= n /\ n < j) \/ n < i
    OBVIOUS
  <2> QED BY <2>1, <2>2, <2>3, <2>4
<1>16. ASSUME NEW r \in all, ~Before(r, Head(seen)), ~Before(Last(items), r)
       PROVE  r \in Range(seen) \cup LateUpTo(history.late, passed, Last(items))
  <2>1. r \in StoredRow /\ Last(items) \in StoredRow /\ Head(items) \in StoredRow
    BY <1>4, <1>8
  <2>2. CASE r \in wanted
    <3>1. CASE r \in Range(items)
      BY <1>11, <3>1
    <3>2. CASE r \in passed
      <4>1. r = Last(items) \/ Before(r, Last(items))
        BY <1>16, <2>1, BeforeOrders
      <4> QED BY <1>8, <1>11, <3>2, <4>1 DEF LateUpTo
    <3>3. CASE \A s \in Range(items) : Ahead(s, r, direction)
      <4>1. CASE direction = "forward"
        BY <1>8, <1>16, <3>3, <4>1 DEF Ahead
      <4>2. CASE direction # "forward"
        <5>1. shown = <<>>
          BY <1>0, <1>1, <1>4, <4>2
        <5>2. Head(seen) = Head(items)
          <6>1. n = 0
            BY <1>9, <5>1
          <6>2. 1 \in (n + 1)..(n + m) /\ 1 - n = 1
            BY <6>1
          <6> QED BY <1>8, <1>10, <1>13, <6>2
        <5>3. Before(r, Head(items))
          BY <1>8, <3>3, <4>2 DEF Ahead
        <5> QED BY <1>16, <5>2, <5>3
      <4> QED BY <4>1, <4>2
    <3> QED BY <1>7, <2>2, <3>1, <3>2, <3>3
  <2>3. CASE r \notin wanted
    <3>1. cursor # None /\ ~Before(cursor, r)
      BY <1>6, <2>3
    <3>2. Head(seen) = Head(shown)
      <4>1. shown # <<>>
        BY <1>4, <3>1
      <4>2. n # 0
        BY <1>4, <1>9, <4>1, EmptySeq
      <4>3. Head(shown) = shown[1] /\ 1 \in 1..n
        BY <1>4, <4>1, <4>2, HeadTailProperties
      <4> QED BY <1>10, <1>13, <4>3
    <3>3. r \in Range(shown) \cup history.late
      BY <1>1, <1>2, <1>16, <3>1, <3>2 DEF TailInv, NoLineSkipped
    <3> QED BY <1>11, <3>3 DEF LateUpTo
  <2> QED BY <2>2, <2>3
<1>17. \A i, j \in 1..Len(seen) : i < j => Before(seen[i], seen[j])
  BY <1>10, <1>15
<1>18. \A r \in MatchingRows(store, NoFilter) :
         ~Before(r, Head(seen)) /\ ~Before(Last(items), r)
           => r \in Range(seen) \cup LateUpTo(history.late, passed, Last(items))
  BY <1>2, <1>16
<1>19. Range(seen) \subseteq MatchingRows(store, NoFilter)
  BY <1>2, <1>12
<1> QED BY <1>7, <1>12, <1>13, <1>17, <1>18, <1>19 DEF Shows

---------------------------------------------------------------------------
(* The invariant                                                           *)

LEMMA TailInit == Init => TailInv
<1> SUFFICES ASSUME Init PROVE TailInv
  OBVIOUS
<1>1. \A w \in Week : store[w] = <<>> /\ pending[w] = <<>>
  BY DEF Init, NoLines
<1>2. TypeOK
  <2>1. <<>> \in Seq(Lines) /\ <<>> \in Seq(Week) /\ <<>> \in Seq(Row)
    OBVIOUS
  <2>2. store \in [Week -> Seq(Lines)] /\ pending \in [Week -> Seq(Lines)]
    BY <2>1 DEF Init, NoLines
  <2>3. client \in [state : {"new", "off", "waiting", "reading"}, cursor : Row \cup {None},
                    first : BOOLEAN, unseen : BOOLEAN, direction : {"backward", "forward"},
                    weeks : Seq(Week), page : Seq(Row)]
    BY <2>1 DEF Init
  <2> QED BY <2>1, <2>2, <2>3 DEF Init, TypeOK
<1>3. InOwnWeek
  <2>1. \A w \in Week : 1..Len(store[w]) = {} /\ 1..Len(pending[w]) = {}
    BY <1>1
  <2> QED BY <2>1 DEF InOwnWeek
<1>4. CursorIsLastShown /\ QueryUnderWay /\ ShownInOrder /\ NoLineSkipped
  <2>1. shown = <<>> /\ client.cursor = None /\ client.state = "new" /\ client.page = <<>>
        /\ history.passed = {} /\ Range(<<>>) = {} /\ 1..Len(<<>>) = {}
    BY DEF Init, Range
  <2>2. CursorIsLastShown
    BY <2>1 DEF CursorIsLastShown
  <2>3. QueryUnderWay
    BY <2>1 DEF QueryUnderWay
  <2>4. ShownInOrder
    BY <2>1 DEF ShownInOrder
  <2>5. NoLineSkipped
    BY <2>1 DEF NoLineSkipped
  <2> QED BY <2>2, <2>3, <2>4, <2>5
<1> QED BY <1>2, <1>3, <1>4 DEF TailInv

\* Steps that change neither the rows nor what the client has.
LEMMA SameRows ==
  ASSUME TailInv, store' = store, shown' = shown, client'.cursor = client.cursor,
         history'.late = history.late, client'.state = "new" => client.state = "new"
  PROVE  CursorIsLastShown' /\ ShownInOrder' /\ NoLineSkipped'
<1>1. CursorIsLastShown'
  BY DEF TailInv, CursorIsLastShown
<1>2. ShownInOrder'
  BY DEF TailInv, ShownInOrder
<1>3. NoLineSkipped'
  BY DEF TailInv, NoLineSkipped
<1> QED BY <1>1, <1>2, <1>3

LEMMA FlushKeeps == TailInv /\ Flush => TailInv'
<1> SUFFICES ASSUME TailInv, Flush PROVE TailInv'
  OBVIOUS
<1>1. UNCHANGED <<store, unsaid, client, shown, history>> /\ flushing' = TRUE
  BY DEF Flush
<1>2. pending' \in [Week -> Seq(Lines)]
      /\ \A w \in Week : \A i \in 1..Len(pending'[w]) : WeekOf(pending'[w][i].ts) = w
  <2>1. PICK n \in 1..MaxBatch :
          \E batch \in [1..n -> Lines] : pending' = [w \in Week |-> LinesOf(batch, w)]
    BY DEF Flush
  <2>2. PICK batch \in [1..n -> Lines] : pending' = [w \in Week |-> LinesOf(batch, w)]
    BY <2>1
  <2>3. n \in Nat
    BY TailAssumption
  <2>4. \A w \in Week : /\ LinesOf(batch, w) \in Seq(Lines)
                        /\ \A i \in 1..Len(LinesOf(batch, w)) : WeekOf(LinesOf(batch, w)[i].ts) = w
    BY <2>3, LinesOfWork
  <2> QED BY <2>2, <2>4
<1>3. TypeOK'
  BY <1>1, <1>2 DEF TailInv, TypeOK
<1>4. InOwnWeek'
  BY <1>1, <1>2 DEF TailInv, InOwnWeek
<1>5. QueryUnderWay'
  BY <1>1 DEF TailInv, QueryUnderWay
<1> QED BY <1>1, <1>3, <1>4, <1>5, SameRows DEF TailInv

LEMMA NotifyKeeps == TailInv /\ Notify => TailInv'
<1> SUFFICES ASSUME TailInv, Notify PROVE TailInv'
  OBVIOUS
<1>1. /\ UNCHANGED <<store, pending, shown, history>>
      /\ flushing' = FALSE /\ unsaid' = {}
      /\ client' = [client EXCEPT !.unseen = Connected]
  BY DEF Notify
<1>2. TypeOK'
  <2>1. Connected \in BOOLEAN
    BY DEF Connected
  <2>2. client' \in [state : {"new", "off", "waiting", "reading"}, cursor : Row \cup {None},
                     first : BOOLEAN, unseen : BOOLEAN, direction : {"backward", "forward"},
                     weeks : Seq(Week), page : Seq(Row)]
    BY <1>1, <2>1 DEF TailInv, TypeOK
  <2> QED BY <1>1, <2>2 DEF TailInv, TypeOK
<1>3. /\ client'.state = client.state /\ client'.cursor = client.cursor
      /\ client'.direction = client.direction /\ client'.weeks = client.weeks
      /\ client'.page = client.page
  BY <1>1 DEF TailInv, TypeOK
<1>4. InOwnWeek'
  BY <1>1 DEF TailInv, InOwnWeek
<1>5. QueryUnderWay'
  BY <1>1, <1>3 DEF TailInv, QueryUnderWay
<1> QED BY <1>1, <1>2, <1>3, <1>4, <1>5, SameRows DEF TailInv

LEMMA FlushFailsKeeps == TailInv /\ FlushFails => TailInv'
<1> SUFFICES ASSUME TailInv, FlushFails PROVE TailInv'
  OBVIOUS
<1>1. UNCHANGED <<store, unsaid, client, shown, history>> /\ flushing' = FALSE /\ pending' = NoLines
  BY DEF FlushFails
<1>2. \A w \in Week : pending'[w] = <<>> /\ 1..Len(pending'[w]) = {}
  BY <1>1 DEF NoLines
<1>3. pending' \in [Week -> Seq(Lines)]
  BY <1>1 DEF NoLines
<1>4. TypeOK'
  BY <1>1, <1>3 DEF TailInv, TypeOK
<1>5. InOwnWeek'
  BY <1>1, <1>2 DEF TailInv, InOwnWeek
<1>6. QueryUnderWay'
  BY <1>1 DEF TailInv, QueryUnderWay
<1> QED BY <1>1, <1>4, <1>5, <1>6, SameRows DEF TailInv

\* A week's commit: its rows are ahead of the query, or passed, or late.
LEMMA CommitKeeps ==
  ASSUME TailInv, NEW w \in Week, CommitWeek(w)
  PROVE  TailInv'
<1>1. /\ store' = [store EXCEPT ![w] = @ \o pending[w]]
      /\ pending' = [pending EXCEPT ![w] = <<>>]
      /\ UNCHANGED <<flushing, client, shown>>
  BY DEF CommitWeek
<1>2. PICK new : new = {r \in RowsOf(store', w) : r.id > Len(store[w]) /\ store'[w][r.id].hit}
  OBVIOUS
<1>3. PICK behind : behind = {r \in new : client.cursor # None /\ Before(r, client.cursor)}
  OBVIOUS
<1>4. /\ unsaid' = unsaid \cup new
      /\ history' = [history EXCEPT
           !.late = @ \cup behind,
           !.passed = IF client.state = "reading" /\ w \notin Range(client.weeks)
                      THEN @ \cup new ELSE @]
  BY <1>2, <1>3 DEF CommitWeek
<1>5. /\ store \in Stores /\ client.cursor \in StoredRow \cup {None}
      /\ client.cursor = None <=> shown = <<>>
      /\ shown \in Seq(StoredRow)
      /\ shown # <<>> => client.cursor = Last(shown)
      /\ client.weeks \in Seq(Week) /\ client.page \in Seq(StoredRow)
  BY InvariantFacts
<1>6. /\ store \in [Week -> Seq(Lines)] /\ pending \in [Week -> Seq(Lines)]
      /\ history \in [late : SUBSET Row, passed : SUBSET Row, excused : BOOLEAN]
      /\ flushing \in BOOLEAN /\ unsaid \subseteq Row
  BY DEF TailInv, TypeOK
<1>7. /\ store' \in [Week -> Seq(Lines)] /\ pending' \in [Week -> Seq(Lines)]
      /\ store'[w] = store[w] \o pending[w]
      /\ \A v \in Week : v # w => store'[v] = store[v]
      /\ \A v \in Week : pending'[v] = IF v = w THEN <<>> ELSE pending[v]
  <2>1. store[w] \o pending[w] \in Seq(Lines) /\ <<>> \in Seq(Lines)
    BY <1>6, ConcatProperties
  <2> QED BY <1>1, <1>6, <2>1
<1>8. /\ store' \in Stores /\ \A r \in new : r.week = w
      /\ MatchingRows(store', NoFilter) = MatchingRows(store, NoFilter) \cup new
  <2>1. Lines \subseteq [ts : Nat, hit : BOOLEAN]
    <3>1. 0..MaxTs \subseteq Nat
      BY TailAssumption
    <3> QED BY <3>1 DEF Lines
  <2>2. PICK lines : lines = pending[w]
    OBVIOUS
  <2>3. lines \in Seq(Lines)
    BY <1>6, <2>2
  <2>4. lines \in Seq([ts : Nat, hit : BOOLEAN])
    BY <2>1, <2>3, SeqMonotonic
  <2>5. LinesOfWeek(lines, w)
    BY <2>2, <2>4 DEF TailInv, InOwnWeek, LinesOfWeek
  <2>6. PICK st2 : st2 = store' /\ st2 = Committed(store, w, lines)
    BY <1>1, <2>2 DEF Committed
  <2>7. new = NewRows(store, st2, w)
    BY <1>2, <2>6 DEF NewRows
  <2>8. st2 \in Stores
    BY <1>5, <2>5, <2>6, <2>7, CommittedRows
  <2>9. MatchingRows(st2, NoFilter) = MatchingRows(store, NoFilter) \cup new
    BY <1>5, <2>5, <2>6, <2>7, CommittedRows
  <2>10. \A r \in new : r.week = w
    BY <1>5, <2>5, <2>6, <2>7, CommittedRows
  <2> QED BY <2>6, <2>8, <2>9, <2>10
<1>9. InOwnWeek'
  <2>1. \A v \in Week : \A i \in 1..Len(store'[v]) : WeekOf(store'[v][i].ts) = v
    BY <1>8 DEF Stores
  <2>2. \A v \in Week : \A i \in 1..Len(pending'[v]) : WeekOf(pending'[v][i].ts) = v
    <3> SUFFICES ASSUME NEW v \in Week, NEW i \in 1..Len(pending'[v])
                 PROVE  WeekOf(pending'[v][i].ts) = v
      OBVIOUS
    <3>1. v # w
      BY <1>7
    <3> QED BY <1>7, <3>1 DEF TailInv, InOwnWeek
  <2> QED BY <2>1, <2>2 DEF InOwnWeek
<1>10. new \subseteq Row /\ new \subseteq StoredRow
  <2>1. new \subseteq StoredRow
    BY <1>2, <1>8, RowsOfWeek
  <2>2. ASSUME NEW r \in new PROVE r \in Row
    <3>1. r.week = w /\ r.id \in 1..Len(store'[w]) /\ r.ts = store'[w][r.id].ts
      BY <1>2, <1>8, RowsOfWeek
    <3>2. store'[w] \in Seq(Lines)
      BY <1>7
    <3>3. store'[w][r.id] \in Lines
      BY <3>1, <3>2, ElementOfSeq
    <3>4. r.ts \in 0..MaxTs /\ r.id \in Nat \ {0}
      BY <3>1, <3>3 DEF Lines
    <3> QED BY <2>1, <3>1, <3>4 DEF Row, StoredRow
  <2> QED BY <2>1, <2>2
<1>11. /\ history'.late = history.late \cup behind
       /\ history'.passed = (IF client.state = "reading" /\ w \notin Range(client.weeks)
                             THEN history.passed \cup new ELSE history.passed)
       /\ history' \in [late : SUBSET Row, passed : SUBSET Row, excused : BOOLEAN]
  <2>1. behind \subseteq Row
    BY <1>3, <1>10
  <2> QED BY <1>4, <1>6, <1>10, <2>1
<1>12. TypeOK'
  BY <1>1, <1>4, <1>6, <1>7, <1>10, <1>11 DEF TailInv, TypeOK
<1>13. CursorIsLastShown'
  BY <1>1, <1>8 DEF TailInv, CursorIsLastShown
<1>14. ShownInOrder'
  BY <1>1 DEF TailInv, ShownInOrder
<1>15. NoLineSkipped'
  <2> SUFFICES ASSUME client.cursor # None, NEW r \in MatchingRows(store', NoFilter),
                      ~Before(r, Head(shown)), ~Before(client.cursor, r)
               PROVE  r \in Range(shown) \cup history'.late
    BY <1>1 DEF NoLineSkipped
  <2>1. CASE r \in MatchingRows(store, NoFilter)
    BY <1>11, <2>1 DEF TailInv, NoLineSkipped
  <2>2. CASE r \in new
    <3>1. r \in StoredRow /\ client.cursor \in StoredRow
      BY <1>5, <1>10, <2>2
    <3>2. r = client.cursor \/ Before(r, client.cursor)
      BY <3>1, BeforeOrders
    <3>3. CASE r = client.cursor
      <4>1. shown # <<>> /\ r = shown[Len(shown)]
        BY <1>5, <3>3 DEF Last
      <4>2. Len(shown) \in DOMAIN shown
        BY <1>5, <4>1, EmptySeq, LenProperties
      <4> QED BY <4>1, <4>2 DEF Range
    <3>4. CASE Before(r, client.cursor)
      BY <1>3, <1>11, <2>2, <3>4
    <3> QED BY <3>2, <3>3, <3>4
  <2> QED BY <1>8, <2>1, <2>2
<1>16. QueryUnderWay'
  <2>1. CASE client.state # "reading"
    BY <1>1, <1>11, <2>1 DEF TailInv, QueryUnderWay
  <2>2. CASE client.state = "reading"
    <3>1. PICK cursor, direction, weeks, page, passed :
            /\ cursor = client.cursor /\ direction = client.direction
            /\ weeks = client.weeks /\ page = client.page /\ passed = history.passed
      OBVIOUS
    <3>2. PageSoFar(store, NoFilter, cursor, direction, weeks, page, passed)
      BY <2>2, <3>1 DEF TailInv, QueryUnderWay
    <3>3. \A r : r \in Wanted(store', NoFilter, cursor, direction)
                 => r \in Wanted(store, NoFilter, cursor, direction) \/ r \in new
      BY <1>8 DEF Wanted
    <3>4. Wanted(store, NoFilter, cursor, direction) \subseteq Wanted(store', NoFilter, cursor, direction)
      BY <1>8 DEF Wanted
    <3>5. passed \subseteq history'.passed
      BY <1>11, <3>1
    <3>6. \A r \in new : r.week \in Range(weeks) \/ r \in history'.passed
      BY <1>8, <1>11, <2>2, <3>1
    <3>7. \A r \in Wanted(store', NoFilter, cursor, direction) :
            \/ r \in Range(page) \cup history'.passed
            \/ r.week \in Range(weeks)
            \/ Len(page) = Target /\ \A i \in 1..Len(page) : Ahead(page[i], r, direction)
      <4> SUFFICES ASSUME NEW r \in Wanted(store', NoFilter, cursor, direction)
                   PROVE  \/ r \in Range(page) \cup history'.passed
                          \/ r.week \in Range(weeks)
                          \/ Len(page) = Target /\ \A i \in 1..Len(page) : Ahead(page[i], r, direction)
        OBVIOUS
      <4>1. CASE r \in new
        BY <3>6, <4>1
      <4>2. CASE r \in Wanted(store, NoFilter, cursor, direction)
        <5>1. \/ r \in Range(page) \cup passed
              \/ r.week \in Range(weeks)
              \/ Len(page) = Target /\ \A i \in 1..Len(page) : Ahead(page[i], r, direction)
          BY <3>2, <4>2 DEF PageSoFar
        <5> QED BY <3>5, <5>1
      <4> QED BY <3>3, <4>1, <4>2
    <3>8. PageSoFar(store', NoFilter, cursor, direction, weeks, page, history'.passed)
      BY <3>2, <3>4, <3>7 DEF PageSoFar
    <3>9. client.direction = IF client.cursor = None THEN "backward" ELSE "forward"
      BY <2>2 DEF TailInv, QueryUnderWay
    <3> QED BY <1>1, <2>2, <3>1, <3>8, <3>9 DEF QueryUnderWay
  <2> QED BY <2>1, <2>2
<1> QED BY <1>9, <1>12, <1>13, <1>14, <1>15, <1>16 DEF TailInv

\* The client's record, field by field.
ClientTypeOK(c) ==
  c \in [state : {"new", "off", "waiting", "reading"}, cursor : Row \cup {None},
         first : BOOLEAN, unseen : BOOLEAN, direction : {"backward", "forward"},
         weeks : Seq(Week), page : Seq(Row)]

LEMMA OpenTailKeeps == TailInv /\ OpenTail => TailInv'
<1> SUFFICES ASSUME TailInv, OpenTail PROVE TailInv'
  OBVIOUS
<1>1. /\ UNCHANGED <<store, pending, flushing, unsaid, shown, history>> /\ client.state = "off"
      /\ client' = [client EXCEPT !.state = "waiting", !.first = TRUE, !.unseen = FALSE]
  BY DEF OpenTail
<1>2. ClientTypeOK(client)
  BY DEF TailInv, TypeOK, ClientTypeOK
<1>3. /\ client'.state = "waiting" /\ client'.cursor = client.cursor
      /\ client'.page = client.page /\ ClientTypeOK(client')
  BY <1>1, <1>2 DEF ClientTypeOK
<1>4. TypeOK'
  BY <1>1, <1>3 DEF TailInv, TypeOK, ClientTypeOK
<1>5. InOwnWeek'
  BY <1>1 DEF TailInv, InOwnWeek
<1>6. QueryUnderWay'
  BY <1>1, <1>3 DEF TailInv, QueryUnderWay
<1> QED BY <1>1, <1>3, <1>4, <1>5, <1>6, SameRows DEF TailInv

LEMMA DropKeeps == TailInv /\ Drop => TailInv'
<1> SUFFICES ASSUME TailInv, Drop PROVE TailInv'
  OBVIOUS
<1>1. /\ UNCHANGED <<store, pending, flushing, unsaid, shown>>
      /\ client' = [client EXCEPT !.state = "off", !.first = FALSE, !.unseen = FALSE,
                                  !.weeks = <<>>, !.page = <<>>]
      /\ history' = [history EXCEPT !.passed = {}]
  BY DEF Drop
<1>2. ClientTypeOK(client) /\ history \in [late : SUBSET Row, passed : SUBSET Row, excused : BOOLEAN]
  BY DEF TailInv, TypeOK, ClientTypeOK
<1>3. /\ client'.state = "off" /\ client'.cursor = client.cursor
      /\ client'.page = <<>> /\ ClientTypeOK(client')
  <2>1. <<>> \in Seq(Week) /\ <<>> \in Seq(Row)
    OBVIOUS
  <2> QED BY <1>1, <1>2, <2>1 DEF ClientTypeOK
<1>4. /\ history'.late = history.late /\ history'.passed = {}
      /\ history' \in [late : SUBSET Row, passed : SUBSET Row, excused : BOOLEAN]
  BY <1>1, <1>2
<1>5. TypeOK'
  BY <1>1, <1>3, <1>4 DEF TailInv, TypeOK, ClientTypeOK
<1>6. InOwnWeek'
  BY <1>1 DEF TailInv, InOwnWeek
<1>7. QueryUnderWay'
  BY <1>3, <1>4 DEF QueryUnderWay
<1> QED BY <1>1, <1>3, <1>4, <1>5, <1>6, <1>7, SameRows DEF TailInv

\* The listing of the week files: all that is wanted is to be read.
LEMMA StartQueryKeeps == TailInv /\ StartQuery => TailInv'
<1> SUFFICES ASSUME TailInv, StartQuery PROVE TailInv'
  OBVIOUS
<1>1. PICK direction : direction = IF client.cursor = None THEN "backward" ELSE "forward"
  OBVIOUS
<1>2. PICK weeks : weeks = Candidates(Files, NoFilter, client.cursor, direction)
  OBVIOUS
<1>3. PICK unseen : unseen = IF client.first THEN client.unseen ELSE FALSE
  OBVIOUS
<1>4. /\ UNCHANGED <<store, pending, flushing, unsaid, shown, history>> /\ client.state = "waiting"
      /\ client' = [client EXCEPT !.state = "reading", !.first = FALSE, !.unseen = unseen,
                                  !.direction = direction, !.weeks = weeks]
  BY <1>1, <1>2, <1>3 DEF StartQuery
<1>5. ClientTypeOK(client) /\ store \in Stores /\ client.cursor \in StoredRow \cup {None}
  BY InvariantFacts DEF TailInv, TypeOK, ClientTypeOK
<1>6. direction \in Directions /\ direction \in {"backward", "forward"}
  BY <1>1 DEF Directions
<1>7. weeks \in Seq(Week)
      /\ PageSoFar(store, NoFilter, client.cursor, direction, weeks, <<>>, {})
  BY <1>2, <1>5, <1>6, NoFilterIsAFilter, QueryStarts DEF Files
<1>8. client.page = <<>> /\ history.passed = {}
  BY <1>4 DEF TailInv, QueryUnderWay
<1>9. /\ client'.state = "reading" /\ client'.cursor = client.cursor
      /\ client'.direction = direction /\ client'.weeks = weeks /\ client'.page = <<>>
  BY <1>4, <1>5, <1>8 DEF ClientTypeOK
<1>10. ClientTypeOK(client')
  <2>1. unseen \in BOOLEAN
    BY <1>3, <1>5 DEF ClientTypeOK
  <2> QED BY <1>4, <1>5, <1>6, <1>7, <2>1 DEF ClientTypeOK
<1>11. TypeOK'
  BY <1>4, <1>10 DEF TailInv, TypeOK, ClientTypeOK
<1>12. InOwnWeek'
  BY <1>4 DEF TailInv, InOwnWeek
<1>13. QueryUnderWay'
  BY <1>1, <1>4, <1>7, <1>8, <1>9 DEF QueryUnderWay
<1> QED BY <1>4, <1>9, <1>11, <1>12, <1>13, SameRows DEF TailInv

\* A week's query: its rows are on the page, or after a full one.
LEMMA ReadWeekKeeps == TailInv /\ ReadWeek => TailInv'
<1> SUFFICES ASSUME TailInv, ReadWeek PROVE TailInv'
  OBVIOUS
<1>1. PICK next : next = TakeWeek(client.page, store, Head(client.weeks), NoFilter,
                                  client.cursor, client.direction)
  OBVIOUS
<1>2. /\ UNCHANGED <<store, pending, flushing, unsaid, shown, history>>
      /\ client.state = "reading" /\ client.weeks # <<>> /\ Len(client.page) < Target
      /\ client' = [client EXCEPT !.weeks = Tail(@), !.page = next]
  BY <1>1 DEF ReadWeek, Reading
<1>3. PICK cursor, direction, weeks, page, passed :
        /\ cursor = client.cursor /\ direction = client.direction
        /\ weeks = client.weeks /\ page = client.page /\ passed = history.passed
  OBVIOUS
<1>4. /\ ClientTypeOK(client) /\ store \in Stores /\ cursor \in StoredRow \cup {None}
      /\ weeks \in Seq(Week) /\ page \in Seq(StoredRow)
      /\ MatchingRows(store, NoFilter) \subseteq Row
  BY <1>3, InvariantFacts DEF TailInv, TypeOK, ClientTypeOK
<1>5. /\ direction \in Directions
      /\ direction = IF cursor = None THEN "backward" ELSE "forward"
      /\ PageSoFar(store, NoFilter, cursor, direction, weeks, page, passed)
  BY <1>2, <1>3 DEF TailInv, QueryUnderWay, Directions
<1>6. /\ next \in Seq(StoredRow)
      /\ PageSoFar(store, NoFilter, cursor, direction, Tail(weeks), next, passed)
  <2>1. weeks # <<>> /\ Len(page) < Target
        /\ next = TakeWeek(page, store, Head(weeks), NoFilter, cursor, direction)
    BY <1>1, <1>2, <1>3
  <2> QED BY <1>4, <1>5, <2>1, TakeWeekKeeps
<1>7. next \in Seq(Row)
  <2>1. Range(next) \subseteq Wanted(store, NoFilter, cursor, direction)
    BY <1>6 DEF PageSoFar
  <2>2. Range(next) \subseteq Row
    BY <1>4, <2>1 DEF Wanted
  <2> QED BY <1>6, <2>2, SequenceOver
<1>8. Tail(weeks) \in Seq(Week)
  BY <1>2, <1>3, <1>4, HeadTailProperties
<1>9. /\ client'.state = "reading" /\ client'.cursor = cursor /\ client'.direction = direction
      /\ client'.weeks = Tail(weeks) /\ client'.page = next
  BY <1>2, <1>3, <1>4 DEF ClientTypeOK
<1>10. ClientTypeOK(client')
  BY <1>2, <1>3, <1>4, <1>7, <1>8 DEF ClientTypeOK
<1>11. TypeOK'
  BY <1>2, <1>10 DEF TailInv, TypeOK, ClientTypeOK
<1>12. InOwnWeek'
  BY <1>2 DEF TailInv, InOwnWeek
<1>13. QueryUnderWay'
  BY <1>2, <1>3, <1>5, <1>6, <1>9 DEF QueryUnderWay
<1> QED BY <1>2, <1>3, <1>9, <1>11, <1>12, <1>13, SameRows DEF TailInv

LEMMA QueryFailsKeeps == TailInv /\ QueryFails => TailInv'
<1> SUFFICES ASSUME TailInv, QueryFails PROVE TailInv'
  OBVIOUS
<1>1. /\ UNCHANGED <<store, pending, flushing, unsaid, shown>>
      /\ client' = [client EXCEPT !.state = "waiting", !.cursor = client.cursor,
                                  !.weeks = <<>>, !.page = <<>>]
      /\ history' = [history EXCEPT !.passed = {}, !.excused = TRUE]
  BY DEF QueryFails, Waiting
<1>2. ClientTypeOK(client) /\ history \in [late : SUBSET Row, passed : SUBSET Row, excused : BOOLEAN]
  BY DEF TailInv, TypeOK, ClientTypeOK
<1>3. /\ client'.state = "waiting" /\ client'.cursor = client.cursor
      /\ client'.page = <<>> /\ ClientTypeOK(client')
  <2>1. <<>> \in Seq(Week) /\ <<>> \in Seq(Row)
    OBVIOUS
  <2> QED BY <1>1, <1>2, <2>1 DEF ClientTypeOK
<1>4. /\ history'.late = history.late /\ history'.passed = {}
      /\ history' \in [late : SUBSET Row, passed : SUBSET Row, excused : BOOLEAN]
  BY <1>1, <1>2
<1>5. TypeOK'
  BY <1>1, <1>3, <1>4 DEF TailInv, TypeOK, ClientTypeOK
<1>6. InOwnWeek'
  BY <1>1 DEF TailInv, InOwnWeek
<1>7. QueryUnderWay'
  BY <1>3, <1>4 DEF QueryUnderWay
<1> QED BY <1>1, <1>3, <1>4, <1>5, <1>6, <1>7, SameRows DEF TailInv

\* The first page, which is read at once.
LEMMA LoadKeeps == TailInv /\ Load => TailInv'
<1> SUFFICES ASSUME TailInv, Load PROVE TailInv'
  OBVIOUS
<1>1. PICK answer : answer = Query(store, NoFilter, None, None)
  OBVIOUS
<1>2. /\ UNCHANGED <<store, pending, flushing, unsaid, history>> /\ client.state = "new"
      /\ client' = [client EXCEPT !.state = "off", !.cursor = answer.newer]
      /\ shown' = answer.items
  BY <1>1 DEF Load
<1>3. /\ ClientTypeOK(client) /\ store \in Stores
      /\ shown = <<>> /\ client.cursor = None /\ client.page = <<>> /\ history.passed = {}
  BY <1>2, InvariantFacts DEF TailInv, TypeOK, ClientTypeOK, CursorIsLastShown, QueryUnderWay
<1>4. PICK page \in Seq(StoredRow) :
        /\ answer = AsPage(page, None, None)
        /\ PageSoFar(store, NoFilter, None, "backward", <<>>, page, {})
  BY <1>1, <1>3, NoFilterIsAFilter, QueryWorks
<1>5. PICK items : items = Items(page, "backward")
  OBVIOUS
<1>6. answer.items = items /\ answer.newer = IF items = <<>> THEN None ELSE Last(items)
  <2>1. "backward" = (IF None # None THEN "forward" ELSE "backward")
    OBVIOUS
  <2>2. answer.items = items
    BY <1>4, <1>5, <2>1, AsPageWorks
  <2>3. answer.newer = IF items = <<>> THEN None ELSE Last(items)
    BY <1>4, <1>5, <2>1, AsPageWorks
  <2> QED BY <2>2, <2>3
<1>7. client'.state = "off" /\ client'.cursor = answer.newer /\ client'.page = <<>>
  BY <1>2, <1>3 DEF ClientTypeOK
<1>8. InOwnWeek'
  BY <1>2 DEF TailInv, InOwnWeek
<1>9. QueryUnderWay'
  BY <1>2, <1>3, <1>7 DEF QueryUnderWay
<1>10. CASE items = <<>>
  <2>1. shown' = shown /\ client'.cursor = client.cursor
    BY <1>2, <1>3, <1>6, <1>7, <1>10
  <2>2. ClientTypeOK(client')
    BY <1>2, <1>3, <1>7, <2>1 DEF ClientTypeOK
  <2>3. TypeOK'
    BY <1>2, <2>1, <2>2 DEF TailInv, TypeOK, ClientTypeOK
  <2> QED BY <1>2, <1>7, <1>8, <1>9, <2>1, <2>3, SameRows DEF TailInv
<1>11. CASE items # <<>>
  <2>1. PICK passed : passed = {} /\ PageSoFar(store, NoFilter, None, "backward", <<>>, page, passed)
    BY <1>4
  <2>2. PageEnds("backward", <<>>, page, passed, items)
    <3>1. <<>> \in Seq(Week)
      OBVIOUS
    <3> QED BY <1>3, <1>5, <1>11, <2>1, <3>1 DEF PageEnds
  <2>3. PICK seen : seen = shown \o items
    OBVIOUS
  <2>4. PICK late : late = LateUpTo(history.late, passed, Last(items)) /\ late = history.late
    BY <2>1 DEF LateUpTo
  <2>5. Shows(items, seen, late)
    BY <2>2, <2>3, <2>4, PageIsShown
  <2>6. /\ items \in Seq(StoredRow) /\ Last(items) \in Row
        /\ seen \in Seq(Row) /\ seen # <<>> /\ Last(seen) = Last(items)
        /\ Range(seen) \subseteq MatchingRows(store, NoFilter)
    BY <2>5 DEF Shows
  <2>7. seen = items
    BY <1>3, <2>3, <2>6, ConcatEmptySeq
  <2>8. shown' = seen /\ client'.cursor = Last(seen)
    BY <1>2, <1>6, <1>7, <1>11, <2>6, <2>7
  <2>9. ClientTypeOK(client')
    BY <1>2, <1>3, <1>7, <2>6, <2>8 DEF ClientTypeOK
  <2>10. TypeOK'
    BY <1>2, <2>6, <2>8, <2>9 DEF TailInv, TypeOK, ClientTypeOK
  <2>11. CursorIsLastShown'
    BY <1>2, <1>7, <2>6, <2>8 DEF CursorIsLastShown
  <2>12. ShownInOrder'
    BY <2>5, <2>8 DEF ShownInOrder, Shows
  <2>13. NoLineSkipped'
    BY <1>2, <2>4, <2>5, <2>6, <2>8 DEF NoLineSkipped, Shows
  <2> QED BY <1>8, <1>9, <2>10, <2>11, <2>12, <2>13 DEF TailInv
<1> QED BY <1>10, <1>11

\* The end of a query, whose page is sent unless it is empty.
LEMMA AnswerKeeps == TailInv /\ Answer => TailInv'
<1> SUFFICES ASSUME TailInv, Answer PROVE TailInv'
  OBVIOUS
<1>1. PICK cursor, direction, weeks, page, passed :
        /\ cursor = client.cursor /\ direction = client.direction
        /\ weeks = client.weeks /\ page = client.page /\ passed = history.passed
  OBVIOUS
<1>2. PICK answer : answer = AsPage(page, None, IF direction = "forward" THEN cursor ELSE None)
  OBVIOUS
<1>3. PICK beyond \in BOOLEAN : beyond = (Len(page) > PageLimit)
  <2>1. CASE Len(page) > PageLimit
    <3>1. TRUE = (Len(page) > PageLimit)
      BY <2>1
    <3> QED BY <3>1
  <2>2. CASE ~(Len(page) > PageLimit)
    <3>1. FALSE = (Len(page) > PageLimit)
      BY <2>2
    <3> QED BY <3>1
  <2> QED BY <2>1, <2>2
<1>4. PICK late : late = IF answer.items = <<>> THEN history.late
                         ELSE history.late \cup {r \in passed : Before(r, answer.newer)}
  OBVIOUS
<1>5. PICK new : new = IF answer.items = <<>> THEN cursor ELSE answer.newer
  OBVIOUS
<1>6. /\ UNCHANGED <<store, pending, flushing, unsaid>>
      /\ client.state = "reading" /\ ~Reading
      /\ shown' = shown \o answer.items
      /\ client' = [client EXCEPT !.state = "waiting", !.cursor = new, !.weeks = <<>>, !.page = <<>>]
      /\ history' = [late |-> late, passed |-> {}, excused |-> beyond]
  BY <1>1, <1>2, <1>3, <1>4, <1>5 DEF Answer, Waiting
<1>7. /\ ClientTypeOK(client) /\ cursor \in StoredRow \cup {None}
      /\ weeks \in Seq(Week) /\ page \in Seq(StoredRow) /\ shown \in Seq(StoredRow)
      /\ history \in [late : SUBSET Row, passed : SUBSET Row, excused : BOOLEAN]
  BY <1>1, InvariantFacts DEF TailInv, TypeOK, ClientTypeOK
<1>8. /\ direction = IF cursor = None THEN "backward" ELSE "forward"
      /\ PageSoFar(store, NoFilter, cursor, direction, weeks, page, passed)
  BY <1>1, <1>6 DEF TailInv, QueryUnderWay
<1>9. weeks = <<>> \/ ~(Len(page) < Target)
  BY <1>1, <1>6 DEF Reading
<1>10. PICK items : items = Items(page, direction)
  OBVIOUS
<1>11. answer.items = items /\ answer.newer = IF items = <<>> THEN cursor ELSE Last(items)
  <2>1. (IF direction = "forward" THEN cursor ELSE None) = cursor
    BY <1>8
  <2>2. answer = AsPage(page, None, cursor)
    BY <1>2, <2>1
  <2>3. direction = (IF cursor # None THEN "forward" ELSE "backward")
    BY <1>8
  <2>4. answer.items = items
    BY <1>10, <2>2, <2>3, AsPageWorks
  <2>5. answer.newer = IF items = <<>> THEN cursor ELSE Last(items)
    BY <1>10, <2>2, <2>3, AsPageWorks
  <2> QED BY <2>4, <2>5
<1>12. /\ client'.state = "waiting" /\ client'.cursor = new /\ client'.page = <<>>
       /\ history'.late = late /\ history'.passed = {}
  BY <1>6, <1>7 DEF ClientTypeOK
<1>13. InOwnWeek'
  BY <1>6 DEF TailInv, InOwnWeek
<1>14. QueryUnderWay'
  BY <1>12 DEF QueryUnderWay
<1>15. ASSUME new \in Row \cup {None}, shown' \in Seq(Row), late \subseteq Row PROVE TypeOK'
  <2>1. <<>> \in Seq(Week) /\ <<>> \in Seq(Row)
    OBVIOUS
  <2>2. ClientTypeOK(client')
    BY <1>6, <1>7, <1>15, <2>1 DEF ClientTypeOK
  <2>3. history' \in [late : SUBSET Row, passed : SUBSET Row, excused : BOOLEAN]
    BY <1>3, <1>6, <1>15
  <2> QED BY <1>6, <1>15, <2>2, <2>3 DEF TailInv, TypeOK, ClientTypeOK
<1>16. CASE items = <<>>
  <2>1. shown' = shown
    BY <1>6, <1>7, <1>11, <1>16, ConcatEmptySeq
  <2>2. new = client.cursor /\ late = history.late
    BY <1>1, <1>4, <1>5, <1>11, <1>16
  <2>3. TypeOK'
    BY <1>7, <1>15, <2>1, <2>2 DEF TailInv, TypeOK
  <2> QED BY <1>6, <1>12, <1>13, <1>14, <2>1, <2>2, <2>3, SameRows DEF TailInv
<1>17. CASE items # <<>>
  <2>1. PageEnds(direction, weeks, page, passed, items)
    BY <1>1, <1>7, <1>8, <1>9, <1>10, <1>17 DEF PageEnds
  <2>2. late = LateUpTo(history.late, passed, Last(items)) /\ late \subseteq Row
    <3>1. late = LateUpTo(history.late, passed, Last(items))
      BY <1>4, <1>11, <1>17 DEF LateUpTo
    <3> QED BY <1>1, <1>7, <3>1 DEF LateUpTo
  <2>3. PICK seen : seen = shown \o items
    OBVIOUS
  <2>4. Shows(items, seen, late)
    BY <2>1, <2>2, <2>3, PageIsShown
  <2>5. /\ Last(items) \in Row
        /\ seen \in Seq(Row) /\ seen # <<>> /\ Last(seen) = Last(items)
        /\ Range(seen) \subseteq MatchingRows(store, NoFilter)
    BY <2>4 DEF Shows
  <2>6. shown' = seen /\ new = Last(seen)
    BY <1>5, <1>6, <1>11, <1>17, <2>3, <2>5
  <2>7. TypeOK'
    BY <1>15, <2>2, <2>5, <2>6
  <2>8. CursorIsLastShown'
    BY <1>6, <1>12, <2>5, <2>6 DEF CursorIsLastShown
  <2>9. ShownInOrder'
    BY <2>4, <2>6 DEF ShownInOrder, Shows
  <2>10. NoLineSkipped'
    BY <1>6, <1>12, <2>4, <2>5, <2>6 DEF NoLineSkipped, Shows
  <2> QED BY <1>13, <1>14, <2>7, <2>8, <2>9, <2>10 DEF TailInv
<1> QED BY <1>16, <1>17

LEMMA TailStep == TailInv /\ [Next]_vars => TailInv'
<1> SUFFICES ASSUME TailInv, [Next]_vars PROVE TailInv'
  OBVIOUS
<1>1. CASE Flush
  BY <1>1, FlushKeeps
<1>2. CASE Notify
  BY <1>2, NotifyKeeps
<1>3. CASE FlushFails
  BY <1>3, FlushFailsKeeps
<1>4. ASSUME NEW w \in Week, CommitWeek(w) PROVE TailInv'
  BY <1>4, CommitKeeps
<1>5. CASE Load
  BY <1>5, LoadKeeps
<1>6. CASE OpenTail
  BY <1>6, OpenTailKeeps
<1>7. CASE Drop
  BY <1>7, DropKeeps
<1>8. CASE StartQuery
  BY <1>8, StartQueryKeeps
<1>9. CASE ReadWeek
  BY <1>9, ReadWeekKeeps
<1>10. CASE Answer
  BY <1>10, AnswerKeeps
<1>11. CASE QueryFails
  BY <1>11, QueryFailsKeeps
<1>12. CASE UNCHANGED vars
  <2>1. UNCHANGED <<store, pending, flushing, unsaid, client, shown, history>>
    BY <1>12 DEF vars
  <2>2. TypeOK' /\ InOwnWeek'
    BY <2>1 DEF TailInv, TypeOK, InOwnWeek
  <2>3. QueryUnderWay'
    BY <2>1 DEF TailInv, QueryUnderWay
  <2> QED BY <2>1, <2>2, <2>3, SameRows DEF TailInv
<1> QED BY <1>1, <1>2, <1>3, <1>4, <1>5, <1>6, <1>7, <1>8, <1>9, <1>10, <1>11, <1>12
        DEF Next, Reads

THEOREM TailInvariant == Spec => []TailInv
<1> QED BY TailInit, TailStep, PTL DEF Spec

\* The state of the store, of the flushes, of the client and of the history is
\* of its type, in LogStore::append, query and the tail stream.
THEOREM TailTypeCorrect == Spec => []TypeOK
<1>1. TailInv => TypeOK
  BY DEF TailInv
<1> QED BY <1>1, TailInvariant, PTL

\* The client sees every row at most once and in time order, whatever the flushes
\* commit while its queries read (tail_events and SqliteLogStore::query).
THEOREM TailInOrder == Spec => []ShownInOrder
<1>1. TailInv => ShownInOrder
  BY DEF TailInv
<1> QED BY <1>1, TailInvariant, PTL

\* Between its first row and its cursor the client has every row but those that
\* were committed behind it (tail_events and SqliteLogStore::query).
THEOREM TailSkipsNothing == Spec => []NoLineSkipped
<1>1. TailInv => NoLineSkipped
  BY DEF TailInv
<1> QED BY <1>1, TailInvariant, PTL

---------------------------------------------------------------------------
(* Paging                                                                  *)

\* Rows in order are as many as their sequence is long.
LEMMA OrderedLength ==
  ASSUME NEW items \in Seq(StoredRow),
         \A i, j \in 1..Len(items) : i < j => Before(items[i], items[j])
  PROVE  Len(items) = Cardinality(Range(items)) /\ IsFiniteSet(Range(items))
<1>1. PICK n \in Nat : n = Len(items)
  BY LenProperties
<1>2. PICK chosen : chosen = Range(items)
  OBVIOUS
<1>3. DOMAIN items = 1..n /\ items \in [1..n -> StoredRow]
  BY <1>1, LenProperties
<1>4. items \in [1..n -> chosen] /\ \A s \in chosen : \E i \in 1..n : items[i] = s
  BY <1>2, <1>3 DEF Range
<1>5. \A i, j \in 1..n : items[i] = items[j] => i = j
  <2> SUFFICES ASSUME NEW i \in 1..n, NEW j \in 1..n, i # j PROVE items[i] # items[j]
    OBVIOUS
  <2>1. items[i] \in StoredRow /\ items[j] \in StoredRow
    BY <1>3
  <2>2. i < j \/ j < i
    OBVIOUS
  <2>3. Before(items[i], items[j]) \/ Before(items[j], items[i])
    BY <1>1, <2>2
  <2> QED BY <2>1, <2>3, BeforeOrders
<1>6. items \in Bijection(1..n, chosen)
  BY <1>3, <1>4, <1>5 DEF Bijection, Injection, Surjection, IsInjective
<1>7. IsFiniteSet(1..n) /\ Cardinality(1..n) = n /\ ExistsBijection(1..n, chosen)
  <2>1. IsFiniteSet(1..n) /\ Cardinality(1..n) = n
    BY FS_Interval
  <2> QED BY <1>6, <2>1 DEF ExistsBijection
<1> QED BY <1>1, <1>2, <1>7, FS_Bijection

\* A page is the run of matching rows next to its cursor, and it says rightly
\* whether there are more on either side.
LEMMA QueryIsRight ==
  ASSUME NEW st \in Stores, NEW filter \in Filters,
         NEW before \in MatchingRows(st, filter) \cup {None},
         NEW after \in MatchingRows(st, filter) \cup {None},
         before = None \/ after = None
  PROVE  PageIsRight(st, filter, before, after)
<1>1. PICK direction, cursor, answer :
        /\ direction = IF after # None THEN "forward" ELSE "backward"
        /\ cursor = IF after # None THEN after ELSE before
        /\ answer = Query(st, filter, before, after)
  OBVIOUS
<1>2. PICK all : all = MatchingRows(st, filter) /\ all \subseteq StoredRow
  BY MatchingRowsFinite
<1>3. /\ before \in all \cup {None} /\ after \in all \cup {None}
      /\ before \in StoredRow \cup {None} /\ after \in StoredRow \cup {None}
      /\ cursor \in StoredRow \cup {None} /\ direction \in Directions
  BY <1>1, <1>2 DEF Directions
<1>4. PICK page \in Seq(StoredRow) :
        /\ answer = AsPage(page, before, after)
        /\ PageSoFar(st, filter, cursor, direction, <<>>, page, {})
  BY <1>1, <1>3, QueryWorks
<1>5. PICK items : items = Items(page, direction)
  OBVIOUS
<1>6. PICK side : side = {r \in all : (before # None => Before(r, before))
                                      /\ (after # None => Before(after, r))}
  OBVIOUS
<1>7. /\ side = Wanted(st, filter, cursor, direction) /\ IsFiniteSet(side)
      /\ side \subseteq all /\ side \subseteq StoredRow
  <2>1. Wanted(st, filter, cursor, direction) = {r \in all : cursor = None \/ Ahead(cursor, r, direction)}
    BY <1>2 DEF Wanted
  <2>2. \A r : (cursor = None \/ Ahead(cursor, r, direction))
               <=> (before # None => Before(r, before)) /\ (after # None => Before(after, r))
    BY <1>1 DEF Ahead
  <2>3. side = Wanted(st, filter, cursor, direction)
    BY <1>6, <2>1, <2>2
  <2> QED BY <1>2, <1>3, <1>6, <2>3, WantedRows
<1>8. PICK more \in BOOLEAN : more <=> PageLimit < Len(page)
  OBVIOUS
<1>9. PICK n \in Nat : n = Len(items) /\ n = (IF more THEN PageLimit ELSE Len(page)) /\ n <= PageLimit
  <2>1. \A i, j \in 1..Len(page) : i < j => Ahead(page[i], page[j], direction)
    BY <1>4 DEF PageSoFar
  <2>2. Len(items) = (IF PageLimit < Len(page) THEN PageLimit ELSE Len(page))
    BY <1>3, <1>4, <1>5, <2>1, ItemsWork
  <2> QED BY <1>8, <2>2, TargetIsPositive, LenProperties
<1>10. /\ items \in Seq(StoredRow)
       /\ \A i, j \in 1..Len(items) : i < j => Before(items[i], items[j])
       /\ Range(items) \subseteq side
       /\ \A r \in side \ Range(items) : more /\ \A s \in Range(items) : Ahead(s, r, direction)
       /\ more => \E r \in side : \A s \in Range(items) : Ahead(s, r, direction)
  <2>1. PICK none : none = {} /\ QueryEnded(st, filter, cursor, direction, page, none)
    <3>1. <<>> \in Seq(Week)
      OBVIOUS
    <3> QED BY <1>3, <1>4, <3>1 DEF QueryEnded
  <2>2. items \in Seq(StoredRow)
    BY <1>5, <2>1, PageDone
  <2>3. \A i, j \in 1..Len(items) : i < j => Before(items[i], items[j])
    BY <1>5, <2>1, PageDone
  <2>4. Range(items) \subseteq side
    BY <1>5, <1>7, <2>1, PageDone
  <2>5. \A r \in side \ Range(items) : more /\ \A s \in Range(items) : Ahead(s, r, direction)
    <3>1. \A r \in Wanted(st, filter, cursor, direction) :
            \/ r \in Range(items) \cup none
            \/ PageLimit < Len(page) /\ \A s \in Range(items) : Ahead(s, r, direction)
      BY <1>5, <2>1, PageDone
    <3> QED BY <1>7, <1>8, <2>1, <3>1
  <2>6. more => \E r \in side : \A s \in Range(items) : Ahead(s, r, direction)
    <3>1. PageLimit < Len(page) =>
            \E r \in Wanted(st, filter, cursor, direction) :
              \A s \in Range(items) : Ahead(s, r, direction)
      BY <1>5, <2>1, PageDone
    <3> QED BY <1>7, <1>8, <3>1
  <2> QED BY <2>2, <2>3, <2>4, <2>5, <2>6
<1>11. PICK chosen : chosen = Range(items) /\ n = Cardinality(chosen) /\ IsFiniteSet(chosen)
  BY <1>9, <1>10, OrderedLength
<1>12. n = IF Cardinality(side) < PageLimit THEN Cardinality(side) ELSE PageLimit
  <2>1. Cardinality(side) \in Nat
    BY <1>7, FS_CardinalityType
  <2>2. CASE more
    <3>1. chosen \in SUBSET side
      BY <1>10, <1>11
    <3>2. Cardinality(chosen) <= Cardinality(side)
      BY <1>7, <3>1, FS_Subset
    <3> QED BY <1>9, <1>11, <2>1, <2>2, <3>2
  <2>3. CASE ~more
    <3>1. chosen = side
      BY <1>10, <1>11, <2>3
    <3> QED BY <1>9, <1>11, <2>1, <3>1
  <2> QED BY <2>2, <2>3
<1>13. \A r \in side \ chosen, s \in chosen : IF after # None THEN Before(s, r) ELSE Before(r, s)
  BY <1>1, <1>10, <1>11 DEF Ahead
<1>14. IsWindow(items, side, after)
  BY <1>9, <1>10, <1>11, <1>12, <1>13 DEF IsWindow
<1>15. answer.items = items
  BY <1>1, <1>4, <1>5, AsPageWorks
<1>16. ASSUME items # <<>>
       PROVE  /\ (answer.hasOlder <=> \E r \in all : Before(r, Head(items)))
              /\ (answer.hasNewer <=> \E r \in all : Before(Last(items), r))
  <2>1. /\ Head(items) \in chosen /\ Last(items) \in chosen
        /\ \A s \in chosen : s \in StoredRow
                             /\ (s = Head(items) \/ Before(Head(items), s))
                             /\ (s = Last(items) \/ Before(s, Last(items)))
    BY <1>10, <1>11, <1>16, FirstAndLast
  <2>2. PICK first \in side, last \in side :
          /\ first = Head(items) /\ last = Last(items) /\ first \in StoredRow /\ last \in StoredRow
    BY <1>10, <1>11, <2>1
  <2>3. \A r \in chosen : ~Before(r, first) /\ ~Before(last, r)
    BY <2>1, <2>2, BeforeOrders
  <2>4. CASE after # None
    <3>1. answer.hasOlder /\ (answer.hasNewer <=> Len(page) > PageLimit)
      BY <1>1, <1>4, <1>5, <1>16, <2>4, AsPageForward
    <3>2. after \in all /\ Before(after, first)
      BY <1>3, <1>6, <2>2, <2>4
    <3>3. \E r \in all : Before(r, Head(items))
      BY <2>2, <3>2
    <3>4. more => \E r \in all : Before(last, r)
      BY <1>1, <1>7, <1>10, <1>11, <2>1, <2>2, <2>4 DEF Ahead
    <3>5. ASSUME NEW r \in all, Before(last, r) PROVE more
      <4>1. r \in StoredRow /\ after \in StoredRow /\ before = None /\ Before(after, last)
        BY <1>2, <1>3, <1>6, <2>2, <2>4
      <4>2. Before(after, r)
        BY <2>2, <3>5, <4>1, BeforeOrders
      <4>3. r \in side \ chosen
        BY <1>6, <2>3, <3>5, <4>1, <4>2
      <4> QED BY <1>10, <1>11, <4>3
    <3>6. more <=> \E r \in all : Before(Last(items), r)
      BY <2>2, <3>4, <3>5
    <3>7. more <=> Len(page) > PageLimit
      BY <1>8, TargetIsPositive, LenProperties
    <3> QED BY <3>1, <3>3, <3>6, <3>7
  <2>5. CASE after = None
    <3>1. (answer.hasOlder <=> Len(page) > PageLimit) /\ (answer.hasNewer <=> before # None)
      BY <1>1, <1>4, <1>5, <1>16, <2>5, AsPageBackward
    <3>2. more => \E r \in all : Before(r, first)
      BY <1>1, <1>7, <1>10, <1>11, <2>1, <2>2, <2>5 DEF Ahead
    <3>3. ASSUME NEW r \in all, Before(r, first) PROVE more
      <4>1. r \in StoredRow /\ (before # None => before \in StoredRow /\ Before(first, before))
        BY <1>2, <1>3, <1>6, <2>2
      <4>2. before # None => Before(r, before)
        BY <2>2, <3>3, <4>1, BeforeOrders
      <4>3. r \in side \ chosen
        BY <1>6, <2>3, <2>5, <3>3, <4>2
      <4> QED BY <1>10, <1>11, <4>3
    <3>4. more <=> \E r \in all : Before(r, Head(items))
      BY <2>2, <3>2, <3>3
    <3>5. more <=> Len(page) > PageLimit
      BY <1>8, TargetIsPositive, LenProperties
    <3>6. before # None => \E r \in all : Before(Last(items), r)
      BY <1>3, <1>6, <2>2
    <3>7. ASSUME NEW r \in all, Before(last, r) PROVE before # None
      <4> SUFFICES ASSUME before = None PROVE FALSE
        OBVIOUS
      <4>1. r \in side \ chosen
        BY <1>6, <2>3, <2>5, <3>7
      <4>2. Before(r, last) /\ r \in StoredRow
        BY <1>1, <1>2, <1>10, <1>11, <2>1, <2>2, <2>5, <4>1 DEF Ahead
      <4> QED BY <2>2, <3>7, <4>2, BeforeOrders
    <3>8. before # None <=> \E r \in all : Before(Last(items), r)
      BY <2>2, <3>6, <3>7
    <3> QED BY <3>1, <3>4, <3>5, <3>8
  <2> QED BY <2>4, <2>5
<1>17. IsWindow(answer.items, side, after)
  BY <1>14, <1>15
<1>18. answer.items # <<>> =>
         /\ (answer.hasOlder <=> \E r \in all : Before(r, Head(answer.items)))
         /\ (answer.hasNewer <=> \E r \in all : Before(Last(answer.items), r))
  BY <1>15, <1>16
<1> QED BY <1>1, <1>2, <1>6, <1>17, <1>18 DEF PageIsRight

\* In every state of the store, every page from any of its rows, or of the newest,
\* in either direction and with any time window, is the run of rows next to its
\* cursor (SqliteLogStore::query).
THEOREM PagingIsRight == Spec => []PagesAreRight
<1>1. TailInv => PagesAreRight
  <2> SUFFICES ASSUME TailInv, NEW from \in {None} \cup 0..MaxTs, NEW to \in {None} \cup 0..MaxTs,
                      NEW filter, filter = [from |-> from, to |-> to]
               PROVE  /\ PageIsRight(store, filter, None, None)
                      /\ \A r \in MatchingRows(store, filter) :
                           PageIsRight(store, filter, r, None) /\ PageIsRight(store, filter, None, r)
    BY DEF PagesAreRight
  <2>1. store \in Stores
    BY InvariantFacts
  <2>2. filter \in Filters
    BY TailAssumption DEF Filters
  <2> QED BY <2>1, <2>2, QueryIsRight
<1> QED BY <1>1, TailInvariant, PTL
================================================================================
