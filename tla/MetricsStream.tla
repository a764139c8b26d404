----------------------------- MODULE MetricsStream -----------------------------
(***************************************************************************)
(* The metrics streams: the collector inserts a row of every series a      *)
(* bucket has, rolls up the coarse bucket that it leaves behind and then   *)
(* announces both resolutions' buckets; a stream takes the announcement up *)
(* and sends, of what is stored since the point it sent last, each series' *)
(* latest.  The host's stream has one series, the containers' stream all   *)
(* services, a service's stream some of them.  Time is counted in buckets. *)
(* The wall clock may step back, and a row is then stored behind one that  *)
(* was announced: it is not announced and need not ever be sent.           *)
(***************************************************************************)
EXTENDS Integers, FiniteSetsExt

CONSTANTS
  Series,   \* the series of a source
  Watched,  \* those that a stream may be about
  Width,    \* of a coarse bucket
  Start,    \* the process starts at this time
  MaxTime   \* bound: time ends

ASSUME ConstantsAssumption ==
  /\ Watched \subseteq SUBSET Series
  /\ Width \in Nat \ {0, 1}
  /\ Start \in Nat /\ MaxTime \in Nat

VARIABLES
  now,        \* the clock: this bucket and those before it have ended
  back,       \* how far it has stepped back in all
  lastClosed, \* the collector closes only buckets after this one
  width,      \* the resolution: 1 is 10 s
  raw,        \* the 10 s table
  coarse,     \* the resolution's table, of a coarse one
  cursor,     \* last_host_ts or last_containers_ts
  collector,  \* the insert under way and the rows its roll-up has to write
  announced,  \* last_bucket_end of the resolution's channel
  stream,     \* the stream: its series, where it is, the range it asks for
  sent,       \* the points the client was sent
  smooth      \* history: each row was after the one before, and inserted when
              \* the stream had dealt with that; no query of it failed, it did
              \* not connect at a time before a row's, and no bucket ended
              \* between its range's end and its subscription

vars == <<now, back, lastClosed, width, raw, coarse, cursor, collector, announced, stream, sent, smooth>>
tables == <<width, raw, coarse, cursor>>

\* host_table, container_table
table == IF width = 1 THEN raw ELSE coarse

BucketEnd(ts) == ((ts + width - 1) \div width) * width

\* the time since the process started, and Start
Elapsed == now + back

Idle == [at |-> "idle", ts |-> 0, todo |-> {}]
Away == [at |-> "none", watched |-> {}, since |-> 0, from |-> 0, to |-> 0, seen |-> 0, lastSent |-> 0]

\* select_host, select_containers: from a time to a time, both included
Select(watched, from, to) == {r \in table : r.series \in watched /\ from <= r.ts /\ r.ts <= to}

Latest(points) == Max({r.ts : r \in points})

\* some rows are stored before the process starts
Init ==
  /\ now = Start /\ back = 0 /\ lastClosed = now /\ width \in {1, Width}
  /\ cursor \in 0..now
  /\ \E some \in SUBSET Series \ {{}} :
       /\ raw = [ts : 1..cursor, series : some]
       /\ coarse = IF width = 1 THEN {}
                   ELSE [ts : {e \in 1..Start : e % width = 0 /\ e < cursor}, series : some]
  /\ collector = Idle /\ announced = 0
  /\ stream = Away /\ sent = {}
  /\ smooth = TRUE

---------------------------------------------------------------------------
(* The collector                                                           *)

Tick ==
  /\ Elapsed < MaxTime
  /\ now' = now + 1
  /\ smooth' = (smooth /\ stream.at # "parsed")
  /\ UNCHANGED <<back, lastClosed, tables, collector, announced, stream, sent>>

\* The wall clock steps back: buckets from there on are closed again.
StepBack ==
  /\ \E time \in 0..(now - 1) : now' = time /\ back' = back + (now - time) /\ lastClosed' = time
  /\ UNCHANGED <<tables, collector, announced, stream, sent, smooth>>

\* the stream has no announcement left to take up; at a coarse resolution a
\* query under way may already see what is announced next
IsPrompt ==
  \/ stream.at \in {"none", "parsed"}
  \/ stream.seen = announced /\ (stream.at = "querying" => width = 1)

\* `advance`: time moves on out of the cursor's coarse bucket
Leaves(ts) == width # 1 /\ cursor # 0 /\ cursor < ts /\ BucketEnd(ts) # BucketEnd(cursor)

\* the series with 10 s rows in the cursor's coarse bucket
Present == {r.series : r \in {q \in raw : BucketEnd(q.ts) = BucketEnd(cursor)}}

\* insert_host, insert_containers: some series, none with a row of it, have a
\* row of a bucket that has ended, which is before the last one inserted if the
\* clock has stepped back; a coarse bucket left behind gets a row of the series
\* that are not too sparse in it, and none if the roll-up fails
Insert ==
  /\ collector.at = "idle"
  /\ \E ts \in (lastClosed + 1)..now, some \in SUBSET Series \ {{}} :
       /\ \A series \in some : [ts |-> ts, series |-> series] \notin raw
       /\ raw' = raw \cup [ts : {ts}, series : some]
       /\ lastClosed' = ts /\ cursor' = ts
       /\ \E whole \in SUBSET (IF Leaves(ts) THEN Present ELSE {}) :
            collector' = [at |-> "rolling", ts |-> ts,
                          todo |-> [ts : {BucketEnd(cursor)}, series : whole]]
       /\ smooth' = (smooth /\ IsPrompt /\ cursor < ts)
  /\ UNCHANGED <<now, back, width, coarse, announced, stream, sent>>

\* one transaction
RollUp ==
  /\ collector.at = "rolling" /\ collector.todo # {}
  /\ coarse' = coarse \cup collector.todo
  /\ collector' = [collector EXCEPT !.todo = {}]
  /\ UNCHANGED <<now, back, lastClosed, width, raw, cursor, announced, stream, sent, smooth>>

\* mutant: a bucket is noted and its channel's receivers are not told
NoteOnly ==
  /\ collector.at = "rolling" /\ collector.todo = {}
  /\ collector' = Idle
  /\ UNCHANGED <<now, back, lastClosed, tables, announced, stream, sent, smooth>>

\* observe_sample: a bucket is announced by the first row in it
Announce ==
  /\ collector.at = "rolling" /\ collector.todo = {}
  /\ collector' = Idle
  /\ announced' = Max({announced, BucketEnd(collector.ts)})
  /\ UNCHANGED <<now, back, lastClosed, tables, stream, sent, smooth>>

---------------------------------------------------------------------------
(* A stream                                                                *)

\* MetricsStreamQuery::parse
Connect ==
  /\ stream.at = "none"
  /\ \E from \in 1..now, watched \in Watched :
       stream' = [Away EXCEPT !.at = "parsed", !.watched = watched,
                              !.since = from, !.from = from, !.to = now]
  /\ smooth' = (smooth /\ cursor <= now)
  /\ UNCHANGED <<now, back, lastClosed, tables, collector, announced, sent>>

Subscribe ==
  /\ stream.at = "parsed"
  /\ stream' = [stream EXCEPT !.at = "initial", !.seen = announced]
  /\ UNCHANGED <<now, back, lastClosed, tables, collector, announced, sent, smooth>>

\* the points of the query, or none of them if it failed
Queried(ok) == IF ok THEN Select(stream.watched, stream.from, stream.to) ELSE {}

Waiting(last) == [stream EXCEPT !.at = "waiting", !.from = 0, !.to = 0, !.lastSent = last]

\* mutant: the stream subscribes when it starts to wait
SnapshotThenSubscribe ==
  /\ stream.at = "initial"
  /\ \E ok \in BOOLEAN :
       LET points == Queried(ok)
       IN /\ stream' = [Waiting(IF points = {} THEN stream.from ELSE Latest(points))
                          EXCEPT !.seen = announced]
          /\ sent' = points
          /\ smooth' = (smooth /\ ok)
  /\ UNCHANGED <<now, back, lastClosed, tables, collector, announced>>

Snapshot ==
  /\ stream.at = "initial"
  /\ \E ok \in BOOLEAN :
       LET points == Queried(ok)
       IN /\ stream' = Waiting(IF points = {} THEN stream.from ELSE Latest(points))
          /\ sent' = points
          /\ smooth' = (smooth /\ ok)
  /\ UNCHANGED <<now, back, lastClosed, tables, collector, announced>>

\* the channel has changed
Wake ==
  /\ stream.at = "waiting" /\ stream.seen # announced
  /\ stream' = IF announced <= stream.lastSent THEN [stream EXCEPT !.seen = announced]
               ELSE [stream EXCEPT !.seen = announced, !.at = "querying",
                                   !.from = stream.lastSent, !.to = announced]
  /\ UNCHANGED <<now, back, lastClosed, tables, collector, announced, sent, smooth>>

\* each series' last point; cross_section_by_service
SendAppend ==
  /\ stream.at = "querying"
  /\ \E ok \in BOOLEAN :
       LET points == Queried(ok)
           last == {r \in points : \A q \in points : q.series = r.series => q.ts <= r.ts}
       IN /\ stream' = Waiting(IF points = {} THEN stream.lastSent ELSE Latest(points))
          /\ sent' = sent \cup last
          /\ smooth' = (smooth /\ ok)
  /\ UNCHANGED <<now, back, lastClosed, tables, collector, announced>>

Next ==
  \/ Tick \/ StepBack \/ Insert \/ RollUp \/ Announce
  \/ Connect \/ Subscribe \/ Snapshot \/ Wake \/ SendAppend

Spec == Init /\ [][Next]_vars

\* The collector's and the stream's tasks are run; time, samples and clients
\* need not come.
FairSpec ==
  Spec /\ WF_vars(RollUp) /\ WF_vars(Announce) /\ WF_vars(Subscribe) /\ WF_vars(Snapshot)
       /\ WF_vars(Wake) /\ WF_vars(SendAppend)

---------------------------------------------------------------------------
(* Properties                                                              *)

\* the rows the stream is to send: one at its very start may come too late
Due == {r \in table : r.series \in stream.watched /\ stream.since < r.ts}

\* A stream that dealt with each announcement before the next row, and whose
\* queries did not fail, has sent every row of its series after its start up to
\* the last point it sent, and when nothing is under way every row stored at all,
\* although it sends only the latest points of a query, a coarse bucket is
\* announced before it is rolled up, and rows are inserted and rolled up while
\* the stream is set up.  A step back of the clock does it no harm as such; it
\* does once a row is stored behind another, of which the stream is not told, and
\* to a stream whose range ends before the rows there are.
NothingSkipped ==
  smooth /\ stream.at = "waiting" =>
    \A r \in Due :
      r.ts <= stream.lastSent \/ (collector.at = "idle" /\ stream.seen = announced) => r \in sent

\* And it does not stay behind: once connected it comes to have sent everything
\* stored that it is about, unless it was not prompt, a query failed, or a row was
\* stored behind another after the clock had stepped back.
EveryRowIsSent == (stream.at # "none" /\ smooth) ~> (Due \subseteq sent \/ ~smooth)

---------------------------------------------------------------------------
(* The inductive invariant of NothingSkipped                               *)

Rows == [ts : 1..Elapsed, series : Series]

TypeOK ==
  /\ now \in Nat /\ back \in Nat /\ lastClosed \in Nat /\ width \in {1, Width}
  /\ cursor \in 0..Elapsed
  /\ raw \subseteq Rows /\ coarse \subseteq Rows
  /\ collector \in [at : {"idle", "rolling"}, ts : 0..Elapsed, todo : SUBSET Rows]
  /\ announced \in Nat
  /\ stream \in [at : {"none", "parsed", "initial", "waiting", "querying"},
                 watched : SUBSET Series, since : 0..Elapsed, from : Nat, to : Nat,
                 seen : Nat, lastSent : Nat]
  /\ sent \subseteq Rows /\ smooth \in BOOLEAN

\* The bucket of the row just inserted is yet to be announced.
Unannounced == collector.at = "rolling" /\ announced < BucketEnd(collector.ts)

\* There is, or there will be, an announcement that the stream has not taken up.
Coming == stream.seen # announced \/ Unannounced

\* While the stream is smooth, rows are stored in the order of time, those of a
\* coarse table before those to be written, and what was rolled up last is yet to
\* be announced.
RowsFollowTheCursor ==
  /\ width = 1 => collector.todo = {} /\ \A r \in table : r.ts <= cursor
  /\ width # 1 => \A r \in table \cup collector.todo : r.ts < cursor
  /\ \A r \in table, q \in collector.todo : r.ts < q.ts
  /\ \A r, q \in collector.todo : r.ts = q.ts
  /\ collector.at = "idle" => collector.todo = {}
  /\ collector.at = "rolling" => collector.ts = cursor
  /\ collector.at = "rolling" /\ (width = 1 \/ collector.todo # {}) => Unannounced

\* The channel is then behind by the row under way at most, but for rows of the
\* process before.
AnnouncedUpToTheCursor ==
  /\ announced <= BucketEnd(cursor)
  /\ announced # 0 /\ ~Unannounced => \A r \in table : r.ts <= announced

\* What the stream has seen was announced, and the last point it sent is a row's.
StreamFollows ==
  /\ stream.at \in {"parsed", "initial"} => stream.from = stream.since
  /\ stream.seen <= announced
  /\ stream.at = "querying" => stream.from = stream.lastSent /\ stream.to <= announced
  /\ stream.at \in {"waiting", "querying"} =>
       stream.lastSent <= stream.since \/ \E r \in table : r.ts = stream.lastSent

\* at most one bucket's rows, of which the stream will be told
OneComing(points) == points # {} => Coming /\ \A r, q \in points : r.ts = q.ts

After(time) == {r \in Due : time < r.ts}

\* What a smooth stream has yet to send is one bucket's, and announced to it.
SmoothStream ==
  /\ stream.at = "parsed" => cursor <= stream.to /\ now <= stream.to
  /\ stream.at \in {"initial", "waiting", "querying"} /\ collector.at = "rolling" =>
       stream.seen = announced /\ (stream.at = "querying" => width = 1)
  /\ stream.at = "initial" =>
       /\ OneComing(After(stream.to))
       /\ collector.todo # {} => After(stream.to) = {}
  /\ stream.at = "waiting" =>
       /\ OneComing(After(stream.lastSent))
       /\ collector.todo # {} => After(stream.lastSent) = {}
  /\ stream.at = "querying" =>
       /\ OneComing(After(stream.to))
       /\ \A r, q \in After(stream.lastSent) \ After(stream.to) : r.ts = q.ts
  /\ stream.at \in {"waiting", "querying"} => Due \ After(stream.lastSent) \subseteq sent

StreamInv ==
  /\ TypeOK /\ StreamFollows
  /\ smooth => RowsFollowTheCursor /\ AnnouncedUpToTheCursor /\ SmoothStream
================================================================================
