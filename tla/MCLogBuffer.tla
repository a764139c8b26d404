----------------------------- MODULE MCLogBuffer -----------------------------
(* Small instances of LogBuffer for TLC. *)
EXTENDS LogBuffer

MCCid == {"c1", "c2"}
MCContent == {"a", "b"}

Line(ts, content) == [ts |-> ts, content |-> content]

\* Weeks and seconds are two milliseconds long.  Two lines in a millisecond; two
\* containers over two weeks; a line repeated within a millisecond.
TwoLines ==
  {[c1 |-> <<Line(0, "a"), Line(0, "b")>>, c2 |-> <<>>],
   [c1 |-> <<Line(0, "a")>>, c2 |-> <<Line(2, "a")>>],
   [c1 |-> <<Line(1, "a"), Line(1, "a")>>, c2 |-> <<>>]}

\* One container with distinct timestamps over two weeks, and more lines than the
\* buffer takes.
MCLogs ==
  TwoLines \cup {[c1 |-> <<Line(0, "a"), Line(1, "b"), Line(3, "b")>>, c2 |-> <<>>]}

MCMaxTroubles == [log \in MCLogs |-> IF log \in TwoLines THEN 2 ELSE 1]

==============================================================================
