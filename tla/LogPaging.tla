------------------------------- MODULE LogPaging -------------------------------
(***************************************************************************)
(* SqliteLogStore::query as an operator of the stored rows: the weeks it   *)
(* visits, the rows it takes from each, the page and its cursors.  A line  *)
(* is its timestamp, counted from the start of week 0, and whether it      *)
(* matches the text, level and stream filters; its id is its place in the  *)
(* week's table.                                                           *)
(***************************************************************************)
EXTENDS Integers, Sequences, SequencesExt

CONSTANTS
  WeekLen,    \* WEEK_MS
  Week,       \* the weeks there are, numbered from the epoch
  PageLimit,  \* the limit of a page, after clamping
  None

ASSUME PagingAssumption ==
  /\ WeekLen \in Nat \ {0} /\ PageLimit \in Nat \ {0}
  /\ Week \subseteq Nat /\ IsFiniteSet(Week)
  /\ None \notin Int /\ None \notin [ts : Nat, week : Week, id : Nat]

WeekOf(ts) == ts \div WeekLen
WeekStart(week) == week * WeekLen

\* the stored rows of a service, each with its cursor's fields
RowsOf(store, week) ==
  {[ts |-> store[week][i].ts, week |-> week, id |-> i] : i \in 1..Len(store[week])}
Hits(store, week) == {r \in RowsOf(store, week) : store[week][r.id].hit}

Earlier(r, s) == r.ts < s.ts \/ (r.ts = s.ts /\ r.id < s.id)
Later(r, s) == Earlier(s, r)

\* ORDER BY ts, id
InScanOrder(rows, direction) ==
  CHOOSE seq \in SetToSeqs(rows) :
    \A i, j \in DOMAIN seq :
      i < j => IF direction = "forward" THEN Earlier(seq[i], seq[j]) ELSE Later(seq[i], seq[j])

\* numbers in ascending order
Ascending(numbers) ==
  CHOOSE seq \in SetToSeqs(numbers) : \A i, j \in DOMAIN seq : i < j => seq[i] < seq[j]

\* week_matches: may the week hold a row the scan is after?
WeekMatches(week, filter, cursor, direction) ==
  LET start == WeekStart(week)
      end == start + WeekLen
  IN /\ filter.to = None \/ filter.to >= start
     /\ filter.from = None \/ filter.from < end
     /\ cursor = None
          \/ (IF direction = "forward" THEN end > cursor.ts ELSE start <= cursor.ts)

\* read_week_files and ordered_candidates
Candidates(files, filter, cursor, direction) ==
  LET selected == Ascending({w \in files : WeekMatches(w, filter, cursor, direction)})
  IN IF direction = "forward" THEN selected ELSE Reverse(selected)

\* push_filters; the line's own filters are in the rows already
Within(r, filter) ==
  (filter.from = None \/ r.ts >= filter.from) /\ (filter.to = None \/ r.ts <= filter.to)

\* mutant: the cursor's own row comes again
BeyondInclusive(r, cursor, direction) ==
  cursor = None
    \/ (IF direction = "forward" THEN r.ts >= cursor.ts ELSE r.ts <= cursor.ts)

\* mutant: a timestamp is taken for a cursor
BeyondTs(r, cursor, direction) ==
  cursor = None \/ (IF direction = "forward" THEN r.ts > cursor.ts ELSE r.ts < cursor.ts)

\* push_cursor: only the cursor's own week needs the id
Beyond(r, cursor, direction) ==
  \/ cursor = None
  \/ r.week # cursor.week /\ (IF direction = "forward" THEN r.ts >= cursor.ts ELSE r.ts <= cursor.ts)
  \/ r.week = cursor.week /\ (IF direction = "forward" THEN Later(r, cursor) ELSE Earlier(r, cursor))

FirstN(seq, n) == SubSeq(seq, 1, IF n < Len(seq) THEN n ELSE Len(seq))

\* one row more than the page, to know whether there is more
Target == PageLimit + 1

\* what the loop over the weeks adds to the page from one of them
TakeWeek(page, store, week, filter, cursor, direction) ==
  page \o FirstN(InScanOrder({r \in Hits(store, week) : Within(r, filter)
                                                         /\ Beyond(r, cursor, direction)},
                             direction),
                 Target - Len(page))

\* mutant: the surplus row is cut off after the page was put into time order
ItemsReversedFirst(page, direction) ==
  FirstN(IF direction = "backward" THEN Reverse(page) ELSE page, PageLimit)

\* the page in time order, without the surplus row
Items(page, direction) ==
  LET items == FirstN(page, PageLimit)
  IN IF direction = "backward" THEN Reverse(items) ELSE items

\* an `after` page that ran dry echoes its cursor
AsPage(page, before, after) ==
  LET direction == IF after # None THEN "forward" ELSE "backward"
      items == Items(page, direction)
      beyond == Len(page) > PageLimit
  IN IF items = <<>>
     THEN [items |-> <<>>, older |-> None, newer |-> after, hasOlder |-> FALSE, hasNewer |-> FALSE]
     ELSE [items |-> items, older |-> Head(items), newer |-> Last(items),
           hasOlder |-> IF direction = "forward" THEN after # None ELSE beyond,
           hasNewer |-> IF direction = "forward" THEN beyond ELSE before # None]

\* the page after each round of the loop over the weeks
PageAfter(store, filter, cursor, direction, weeks) ==
  LET page[n \in 0..Len(weeks)] ==
        IF n = 0 THEN <<>>
        ELSE IF Len(page[n - 1]) >= Target THEN page[n - 1]
        ELSE TakeWeek(page[n - 1], store, weeks[n], filter, cursor, direction)
  IN page

\* the whole query, when nothing is written meanwhile
Query(store, filter, before, after) ==
  LET direction == IF after # None THEN "forward" ELSE "backward"
      cursor == IF after # None THEN after ELSE before
      weeks == Candidates({w \in DOMAIN store : store[w] # <<>>}, filter, cursor, direction)
  IN AsPage(PageAfter(store, filter, cursor, direction, weeks)[Len(weeks)], before, after)

NoFilter == [from |-> None, to |-> None]

---------------------------------------------------------------------------
(* What a page should be, said of all the rows at once                      *)

MatchingRows(store, filter) ==
  {r \in UNION {Hits(store, w) : w \in DOMAIN store} : Within(r, filter)}

Before(r, s) == r.ts < s.ts \/ (r.ts = s.ts /\ r.id < s.id)

\* The rows next to the cursor on the side asked for, at most a page of them.
IsWindow(items, rows, after) ==
  LET chosen == Range(items)
  IN /\ Len(items) = Cardinality(chosen)
     /\ \A i, j \in 1..Len(items) : i < j => Before(items[i], items[j])
     /\ chosen \subseteq rows
     /\ Len(items) = IF Cardinality(rows) < PageLimit THEN Cardinality(rows) ELSE PageLimit
     /\ \A r \in rows \ chosen, s \in chosen : IF after # None THEN Before(s, r) ELSE Before(r, s)

PageIsRight(store, filter, before, after) ==
  LET page == Query(store, filter, before, after)
      all == MatchingRows(store, filter)
      side == {r \in all : (before # None => Before(r, before)) /\ (after # None => Before(after, r))}
  IN /\ IsWindow(page.items, side, after)
     /\ page.items # <<>> =>
          /\ (page.hasOlder <=> \E r \in all : Before(r, Head(page.items)))
          /\ (page.hasNewer <=> \E r \in all : Before(Last(page.items), r))

---------------------------------------------------------------------------
(* The invariant of the loop over the weeks                                 *)

\* Of two rows, or of two weeks, the one that the scan comes to first.
Ahead(r, s, direction) == IF direction = "forward" THEN Before(r, s) ELSE Before(s, r)
AheadWeek(v, w, direction) == IF direction = "forward" THEN v < w ELSE w < v

\* the rows a query is after, were there no limit
Wanted(store, filter, cursor, direction) ==
  {r \in MatchingRows(store, filter) : cursor = None \/ Ahead(cursor, r, direction)}

\* The page is of wanted rows, in the order of the scan and before the weeks to
\* be read; a wanted row it lacks is in one of these, or after a full page, or
\* was committed to a week that is not read any more.
PageSoFar(store, filter, cursor, direction, weeks, page, passed) ==
  /\ \A i, j \in 1..Len(page) : i < j => Ahead(page[i], page[j], direction)
  /\ Range(page) \subseteq Wanted(store, filter, cursor, direction)
  /\ Len(page) <= Target
  /\ \A i, j \in 1..Len(weeks) : i < j => AheadWeek(weeks[i], weeks[j], direction)
  /\ \A i \in 1..Len(page), j \in 1..Len(weeks) : AheadWeek(page[i].week, weeks[j], direction)
  /\ \A r \in Wanted(store, filter, cursor, direction) :
       \/ r \in Range(page) \cup passed
       \/ r.week \in Range(weeks)
       \/ Len(page) = Target /\ \A i \in 1..Len(page) : Ahead(page[i], r, direction)
================================================================================
