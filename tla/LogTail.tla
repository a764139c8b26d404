-------------------------------- MODULE LogTail --------------------------------
(***************************************************************************)
(* A client that follows a service's logs: a first page over REST, then    *)
(* the tail stream, which reads a page for every flush it is told of.  The *)
(* flushes commit week by week and the queries read week by week, so they  *)
(* pass each other.                                                        *)
(***************************************************************************)
EXTENDS LogPaging

CONSTANTS
  MaxTs,     \* bound: lines are stamped 0..MaxTs
  MaxBatch,  \* bound: lines of a flush
  MaxRows    \* bound: rows that are ever stored

ASSUME TailAssumption ==
  /\ MaxTs \in Nat /\ MaxBatch \in Nat /\ MaxRows \in Nat
  /\ \A ts \in 0..MaxTs : WeekOf(ts) \in Week

VARIABLES
  store,    \* week -> its rows, in the order of their ids
  pending,  \* week -> the lines the flush under way has not committed yet
  flushing, \* a flush is under way
  unsaid,   \* rows committed and not announced
  client,   \* the client's connection and the server's state for it
  shown,    \* the rows the client has received, in the order it did
  history   \* what explains a row the client does not get

vars == <<store, pending, flushing, unsaid, client, shown, history>>

Lines == [ts : 0..MaxTs, hit : BOOLEAN]
NoLines == [w \in Week |-> <<>>]
Files == {w \in Week : store[w] # <<>>}

Init ==
  /\ store = NoLines /\ pending = NoLines
  /\ flushing = FALSE /\ unsaid = {}
  /\ client = [state |-> "new", cursor |-> None, first |-> FALSE, unseen |-> FALSE,
               direction |-> "backward", weeks |-> <<>>, page |-> <<>>]
  /\ shown = <<>>
  /\ history = [late |-> {}, passed |-> {}, excused |-> FALSE]

Connected == client.state \in {"waiting", "reading"}

---------------------------------------------------------------------------
(* The flushes of the service                                              *)

CountRows == FoldSet(LAMBDA w, n : n + Len(store[w]) + Len(pending[w]), 0, Week)

\* append groups the batch by week
LinesOf(batch, week) ==
  LET places == Ascending({i \in DOMAIN batch : WeekOf(batch[i].ts) = week})
  IN [n \in DOMAIN places |-> batch[places[n]]]

Flush ==
  /\ ~flushing
  /\ \E n \in 1..MaxBatch :
       /\ CountRows + n <= MaxRows
       /\ \E batch \in [1..n -> Lines] :
            pending' = [w \in Week |-> LinesOf(batch, w)]
  /\ flushing' = TRUE
  /\ UNCHANGED <<store, unsaid, client, shown, history>>

\* one transaction per week, in the order of a HashMap
CommitWeek(w) ==
  /\ pending[w] # <<>>
  /\ store' = [store EXCEPT ![w] = @ \o pending[w]]
  /\ pending' = [pending EXCEPT ![w] = <<>>]
  /\ LET new == {r \in RowsOf(store', w) : r.id > Len(store[w]) /\ store'[w][r.id].hit}
         behind == {r \in new : client.cursor # None /\ Before(r, client.cursor)}
     IN /\ unsaid' = unsaid \cup new
        /\ history' = [history EXCEPT
             !.late = @ \cup behind,
             !.passed = IF client.state = "reading" /\ w \notin Range(client.weeks)
                        THEN @ \cup new ELSE @]
  /\ UNCHANGED <<flushing, client, shown>>

\* mutant: the channel is made anew, and its receivers are not told
NotifyNewChannel ==
  /\ flushing /\ pending = NoLines
  /\ flushing' = FALSE
  /\ unsaid' = {}
  /\ UNCHANGED <<store, pending, client, shown, history>>

\* LogFlushWatcher::notify, after the whole batch
Notify ==
  /\ flushing /\ pending = NoLines
  /\ flushing' = FALSE
  /\ unsaid' = {}
  /\ client' = [client EXCEPT !.unseen = Connected]
  /\ UNCHANGED <<store, pending, shown, history>>

\* The rest of the batch is requeued: its lines are part of some later flush,
\* and nobody is told of the weeks that were committed.
FlushFails ==
  /\ pending # NoLines
  /\ pending' = NoLines /\ flushing' = FALSE
  /\ UNCHANGED <<store, unsaid, client, shown, history>>

---------------------------------------------------------------------------
(* The client                                                              *)

\* loadLogs: the newest page
Load ==
  /\ client.state = "new"
  /\ LET page == Query(store, NoFilter, None, None)
     IN /\ client' = [client EXCEPT !.state = "off", !.cursor = page.newer]
        /\ shown' = page.items
  /\ UNCHANGED <<store, pending, flushing, unsaid, history>>

\* the stream subscribes before it reads anything, and reads once at once
OpenTail ==
  /\ client.state = "off"
  /\ client' = [client EXCEPT !.state = "waiting", !.first = TRUE, !.unseen = FALSE]
  /\ UNCHANGED <<store, pending, flushing, unsaid, shown, history>>

\* the connection breaks, and the client will resume from its last cursor
Drop ==
  /\ Connected
  /\ client' = [client EXCEPT !.state = "off", !.first = FALSE, !.unseen = FALSE,
                              !.weeks = <<>>, !.page = <<>>]
  /\ history' = [history EXCEPT !.passed = {}]
  /\ UNCHANGED <<store, pending, flushing, unsaid, shown>>

\* a notification, or several, and then the listing of the week files
StartQuery ==
  /\ client.state = "waiting"
  /\ client.first \/ client.unseen
  /\ LET direction == IF client.cursor = None THEN "backward" ELSE "forward"
     IN client' = [client EXCEPT
          !.state = "reading", !.first = FALSE,
          !.unseen = IF client.first THEN @ ELSE FALSE,
          !.direction = direction,
          !.weeks = Candidates(Files, NoFilter, client.cursor, direction)]
  /\ UNCHANGED <<store, pending, flushing, unsaid, shown, history>>

Reading == client.state = "reading" /\ client.weeks # <<>> /\ Len(client.page) < Target

ReadWeek ==
  /\ Reading
  /\ client' = [client EXCEPT
       !.weeks = Tail(@),
       !.page = TakeWeek(@, store, Head(client.weeks), NoFilter, client.cursor, client.direction)]
  /\ UNCHANGED <<store, pending, flushing, unsaid, shown, history>>

Waiting(cursor) ==
  client' = [client EXCEPT !.state = "waiting", !.cursor = cursor, !.weeks = <<>>, !.page = <<>>]

\* an empty page is not sent
Answer ==
  /\ client.state = "reading" /\ ~Reading
  /\ LET page == AsPage(client.page, None,
                        IF client.direction = "forward" THEN client.cursor ELSE None)
         beyond == Len(client.page) > PageLimit
     IN /\ shown' = shown \o page.items
        /\ Waiting(IF page.items = <<>> THEN client.cursor ELSE page.newer)
        /\ history' = [late |-> IF page.items = <<>> THEN history.late
                                ELSE history.late \cup {r \in history.passed : Before(r, page.newer)},
                       passed |-> {}, excused |-> beyond]
  /\ UNCHANGED <<store, pending, flushing, unsaid>>

\* the notification is spent all the same
QueryFails ==
  /\ client.state = "reading"
  /\ Waiting(client.cursor)
  /\ history' = [history EXCEPT !.passed = {}, !.excused = TRUE]
  /\ UNCHANGED <<store, pending, flushing, unsaid, shown>>

---------------------------------------------------------------------------
Reads == StartQuery \/ ReadWeek \/ Answer

Next ==
  \/ Flush \/ Notify \/ FlushFails \/ (\E w \in Week : CommitWeek(w))
  \/ Load \/ OpenTail \/ Drop \/ Reads \/ QueryFails

Spec == Init /\ [][Next]_vars

\* the stream's task goes on
LiveSpec == Spec /\ WF_vars(Reads)

---------------------------------------------------------------------------
(* Properties                                                              *)

\* Every page, from any row in either direction and with any time window, is
\* the run of matching rows next to its cursor, in time order, and it says
\* rightly whether there are older and newer ones: so paging visits every row
\* exactly once.
PagesAreRight ==
  client.state = "new" =>
    \A from, to \in {None} \cup 0..MaxTs :
      LET filter == [from |-> from, to |-> to]
      IN /\ PageIsRight(store, filter, None, None)
         /\ \A r \in MatchingRows(store, filter) :
              PageIsRight(store, filter, r, None) /\ PageIsRight(store, filter, None, r)

\* The client sees every row at most once, in time order, through reconnects,
\* failed queries, and flushes that commit while its query is reading.
ShownInOrder == \A i, j \in 1..Len(shown) : i < j => Before(shown[i], shown[j])

\* What lies between the client's first row and its cursor it has received,
\* unless it was committed when the cursor, or the query's reading, was past it.
NoLineSkipped ==
  client.cursor # None =>
    \A r \in MatchingRows(store, NoFilter) :
      ~Before(r, Head(shown)) /\ ~Before(client.cursor, r)
        => r \in Range(shown) \cup history.late

\* the client has every committed row from its first one on
CaughtUp ==
  \A r \in MatchingRows(store, NoFilter) :
    r \in Range(shown) \cup history.late \/ (shown # <<>> /\ Before(r, Head(shown)))

\* No wake-up is lost: a connected client catches up again and again, as long as
\* flushes are announced and its queries neither fail nor find more than a page.
AlwaysCatchesUp ==
  []<>(~Connected \/ unsaid # {} \/ history.excused \/ CaughtUp)

---------------------------------------------------------------------------
(* The inductive invariant of ShownInOrder and NoLineSkipped                *)

Row == [ts : 0..MaxTs, week : Week, id : Nat \ {0}]

TypeOK ==
  /\ store \in [Week -> Seq(Lines)] /\ pending \in [Week -> Seq(Lines)]
  /\ flushing \in BOOLEAN /\ unsaid \subseteq Row
  /\ client \in [state : {"new", "off", "waiting", "reading"}, cursor : Row \cup {None},
                 first : BOOLEAN, unseen : BOOLEAN, direction : {"backward", "forward"},
                 weeks : Seq(Week), page : Seq(Row)]
  /\ shown \in Seq(Row)
  /\ history \in [late : SUBSET Row, passed : SUBSET Row, excused : BOOLEAN]

\* Every line is in the file of its week.
InOwnWeek ==
  \A w \in Week :
    /\ \A i \in 1..Len(store[w]) : WeekOf(store[w][i].ts) = w
    /\ \A i \in 1..Len(pending[w]) : WeekOf(pending[w][i].ts) = w

\* The cursor is the last row received, and what was received is stored.
CursorIsLastShown ==
  /\ Range(shown) \subseteq MatchingRows(store, NoFilter)
  /\ IF shown = <<>> THEN client.cursor = None ELSE client.cursor = Last(shown)
  /\ client.state = "new" => shown = <<>>

\* A query under way has dealt with all the weeks but those it will read.
QueryUnderWay ==
  IF client.state = "reading"
  THEN /\ client.direction = IF client.cursor = None THEN "backward" ELSE "forward"
       /\ PageSoFar(store, NoFilter, client.cursor, client.direction, client.weeks,
                    client.page, history.passed)
  ELSE client.page = <<>> /\ history.passed = {}

TailInv ==
  TypeOK /\ InOwnWeek /\ CursorIsLastShown /\ QueryUnderWay /\ ShownInOrder /\ NoLineSkipped
================================================================================
