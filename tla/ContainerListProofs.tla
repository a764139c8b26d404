-------------------------- MODULE ContainerListProofs --------------------------
(***************************************************************************)
(* Proofs about the container list and its streams, for any containers,    *)
(* services, and states that Docker takes containers through.              *)
(***************************************************************************)
EXTENDS ContainerList, TLAPS

IsList(f) == f = [c \in DOMAIN f |-> f[c]]

\* the shapes the steps need: lists are functions, the stream's state a record
ListsOK ==
  /\ IsList(info) /\ IsList(listed) /\ IsList(client.sent)
  /\ client = [state |-> client.state, stream |-> client.stream, sent |-> client.sent,
               unseen |-> client.unseen, marks |-> client.marks]
  /\ client.stream \in {"containers", "services"}

\* the container list is current, or a refresh comes
RefreshInv == (info = Listing \/ RefreshComes) /\ StaleListingIsFollowed

\* a client's view is what it should have, or a difference comes
ViewInv ==
  /\ client.state \in {"waiting", "reading"} => view = Current \/ DiffComes
  /\ ViewIsSent
  /\ StaleMarksAreFollowed
  /\ client.marks # None => client.stream = "services" /\ client.state \in {"initial", "reading"}

\* Applying the difference between two lists to the first gives the second:
\* what diff_containers leaves out the client has already.
LEMMA DiffIsApplied ==
  ASSUME NEW old, NEW current, IsList(old), IsList(current)
  PROVE  Applied(old, Diff(old, current), current) = current
<1> DEFINE diff == Diff(old, current)
<1>1. /\ diff.added = {c \in DOMAIN current : c \notin DOMAIN old}
      /\ diff.updated = {c \in DOMAIN current \cap DOMAIN old : current[c] # old[c]}
      /\ diff.removed = DOMAIN old \ DOMAIN current
  BY DEF Diff
<1> HIDE DEF diff
<1>2. ((DOMAIN old) \ diff.removed) \cup diff.added = DOMAIN current
  BY <1>1
<1>3. \A c \in DOMAIN current :
        (IF c \in diff.added \cup diff.updated THEN current[c] ELSE old[c]) = current[c]
  BY <1>1
<1>4. Applied(old, diff, current) = [c \in DOMAIN current |-> current[c]]
  BY <1>2, <1>3 DEF Applied
<1> QED BY <1>4 DEF IsList, diff

LEMMA ListsInit == Init => ListsOK
BY DEF Init, ListsOK, IsList, Empty, NoClient

LEMMA ListsStep == ListsOK /\ [Next]_vars => ListsOK'
<1> SUFFICES ASSUME ListsOK, [Next]_vars PROVE ListsOK'
  OBVIOUS
<1> USE DEF ListsOK, IsList, Listing, Empty, NoClient
<1>1. CASE Probe
  BY <1>1 DEF Probe, engine, refresh, logs, clients
<1>2. CASE ObservedUpdated
  BY <1>2 DEF ObservedUpdated, engine, refresh, logs, clients
<1>3. CASE ObservedUpdateFails
  BY <1>3 DEF ObservedUpdateFails, engine, refresh, logs, clients
<1>4. CASE Tick
  BY <1>4 DEF Tick, engine, refresh, logs, clients
<1>5. CASE Receive
  BY <1>5 DEF Receive, engine, refresh, logs, clients
<1>6. CASE Drain
  BY <1>6 DEF Drain, engine, refresh, logs, clients
<1>7. CASE List
  BY <1>7 DEF List, engine, refresh, logs, clients
<1>8. CASE ListFails
  BY <1>8 DEF ListFails, engine, refresh, logs, clients
<1>9. CASE Write
  BY <1>9 DEF Write, engine, refresh, logs, clients
<1>10. CASE Announce
  BY <1>10 DEF Announce, Unseen, Receivers, engine, refresh, logs, clients
<1>11. CASE Subscribe
  BY <1>11 DEF Subscribe, engine, refresh, logs, clients
<1>12. CASE Snapshot
  BY <1>12 DEF Snapshot, Sends, engine, refresh, logs, clients
<1>13. CASE Wake
  BY <1>13 DEF Wake, Wakes, engine, refresh, logs, clients
<1>14. CASE SendDiff
  BY <1>14 DEF SendDiff, Sends, engine, refresh, logs, clients
<1>15. CASE SubscribeServices
  BY <1>15 DEF SubscribeServices, engine, refresh, logs, clients
<1>16. CASE ReadWatermarks
  BY <1>16 DEF ReadWatermarks, engine, refresh, logs, clients
<1>17. CASE ServicesSnapshot
  BY <1>17 DEF ServicesSnapshot, Sends, Merged, engine, refresh, logs, clients
<1>18. CASE WakeServices
  BY <1>18 DEF WakeServices, Wakes, engine, refresh, logs, clients
<1>19. CASE SendServicesDiff
  BY <1>19 DEF SendServicesDiff, Sends, Merged, engine, refresh, logs, clients
<1>20. CASE Disconnect
  BY <1>20 DEF Disconnect, engine, refresh, logs, clients
<1>21. ASSUME NEW s \in Service, Flush(s) PROVE ListsOK'
  BY <1>21 DEF Flush, engine, refresh, logs, clients
<1>22. ASSUME NEW s \in Service, Notify(s) PROVE ListsOK'
  BY <1>22 DEF Notify, Unseen, Receivers, engine, refresh, logs, clients
<1>23. ASSUME NEW s \in Service, Prune(s) PROVE ListsOK'
  BY <1>23 DEF Prune, engine, refresh, logs, clients
<1>24. ASSUME NEW c \in Container, NEW s \in Reported \cup {Gone}, Change(c, s) PROVE ListsOK'
  BY <1>24 DEF Change, engine, refresh, logs, clients
<1>25. CASE UNCHANGED vars
  BY <1>25 DEF vars, engine, refresh, logs, clients
<1> QED
  BY <1>1, <1>2, <1>3, <1>4, <1>5, <1>6, <1>7, <1>8, <1>9, <1>10, <1>11, <1>12,
     <1>13, <1>14, <1>15, <1>16, <1>17, <1>18, <1>19, <1>20, <1>21, <1>22, <1>23, <1>24, <1>25 DEF Next

LEMMA RefreshInit == Init => RefreshInv
BY DEF Init, RefreshInv, RefreshComes, StaleListingIsFollowed

LEMMA RefreshStep == RefreshInv /\ [Next]_vars => RefreshInv'
<1> SUFFICES ASSUME RefreshInv, [Next]_vars PROVE RefreshInv'
  OBVIOUS
<1> USE DEF RefreshInv, RefreshComes, StaleListingIsFollowed
<1>1. CASE Probe
  BY <1>1 DEF Probe, engine, refresh, logs, clients, Listing
<1>2. CASE ObservedUpdated
  BY <1>2 DEF ObservedUpdated, engine, refresh, logs, clients, Listing
<1>3. CASE ObservedUpdateFails
  BY <1>3 DEF ObservedUpdateFails, engine, refresh, logs, clients, Listing
<1>4. CASE Tick
  BY <1>4 DEF Tick, engine, refresh, logs, clients, Listing
<1>5. CASE Receive
  BY <1>5 DEF Receive, engine, refresh, logs, clients, Listing
<1>6. CASE Drain
  BY <1>6 DEF Drain, engine, refresh, logs, clients, Listing
<1>7. CASE List
  BY <1>7 DEF List, engine, refresh, logs, clients, Listing
<1>8. CASE ListFails
  BY <1>8 DEF ListFails, engine, refresh, logs, clients, Listing
<1>9. CASE Write
  BY <1>9 DEF Write, engine, refresh, logs, clients, Listing
<1>10. CASE Announce
  BY <1>10 DEF Announce, engine, refresh, logs, clients, Listing
<1>11. CASE Subscribe
  BY <1>11 DEF Subscribe, engine, refresh, logs, clients, Listing
<1>12. CASE Snapshot
  BY <1>12 DEF Snapshot, Sends, engine, refresh, logs, clients, Listing
<1>13. CASE Wake
  BY <1>13 DEF Wake, Wakes, engine, refresh, logs, clients, Listing
<1>14. CASE SendDiff
  BY <1>14 DEF SendDiff, Sends, engine, refresh, logs, clients, Listing
<1>15. CASE SubscribeServices
  BY <1>15 DEF SubscribeServices, engine, refresh, logs, clients, Listing
<1>16. CASE ReadWatermarks
  BY <1>16 DEF ReadWatermarks, engine, refresh, logs, clients, Listing
<1>17. CASE ServicesSnapshot
  BY <1>17 DEF ServicesSnapshot, Sends, engine, refresh, logs, clients, Listing
<1>18. CASE WakeServices
  BY <1>18 DEF WakeServices, Wakes, engine, refresh, logs, clients, Listing
<1>19. CASE SendServicesDiff
  BY <1>19 DEF SendServicesDiff, Sends, engine, refresh, logs, clients, Listing
<1>20. CASE Disconnect
  BY <1>20 DEF Disconnect, engine, refresh, logs, clients, Listing
<1>21. ASSUME NEW s \in Service, Flush(s) PROVE RefreshInv'
  BY <1>21 DEF Flush, engine, refresh, logs, clients, Listing
<1>22. ASSUME NEW s \in Service, Notify(s) PROVE RefreshInv'
  BY <1>22 DEF Notify, Unseen, Receivers, engine, refresh, logs, clients, Listing
<1>23. ASSUME NEW s \in Service, Prune(s) PROVE RefreshInv'
  BY <1>23 DEF Prune, engine, refresh, logs, clients, Listing
<1>24. ASSUME NEW c \in Container, NEW s \in Reported \cup {Gone}, Change(c, s) PROVE RefreshInv'
  BY <1>24 DEF Change, engine, refresh, logs, clients, Listing
<1>25. CASE UNCHANGED vars
  BY <1>25 DEF vars, engine, refresh, logs, clients, Listing
<1> QED
  BY <1>1, <1>2, <1>3, <1>4, <1>5, <1>6, <1>7, <1>8, <1>9, <1>10, <1>11, <1>12,
     <1>13, <1>14, <1>15, <1>16, <1>17, <1>18, <1>19, <1>20, <1>21, <1>22, <1>23, <1>24, <1>25 DEF Next

LEMMA ViewInit == Init => ViewInv
BY DEF Init, ViewInv, ViewIsSent, StaleMarksAreFollowed, NoClient

LEMMA ViewStep == ListsOK /\ ViewInv /\ [Next]_vars => ViewInv'
<1> SUFFICES ASSUME ListsOK, ViewInv, [Next]_vars PROVE ViewInv'
  OBVIOUS
<1> USE DEF ListsOK, ViewInv, ViewIsSent, DiffComes, StaleMarksAreFollowed, NoClient
<1>1. CASE Probe
  BY <1>1 DEF Probe, engine, refresh, logs, clients, Current, Merged
<1>2. CASE ObservedUpdated
  BY <1>2 DEF ObservedUpdated, engine, refresh, logs, clients, Current, Merged
<1>3. CASE ObservedUpdateFails
  BY <1>3 DEF ObservedUpdateFails, engine, refresh, logs, clients, Current, Merged
<1>4. CASE Tick
  BY <1>4 DEF Tick, engine, refresh, logs, clients, Current, Merged
<1>5. CASE Receive
  BY <1>5 DEF Receive, engine, refresh, logs, clients, Current, Merged
<1>6. CASE Drain
  BY <1>6 DEF Drain, engine, refresh, logs, clients, Current, Merged
<1>7. CASE List
  BY <1>7 DEF List, engine, refresh, logs, clients, Current, Merged
<1>8. CASE ListFails
  BY <1>8 DEF ListFails, engine, refresh, logs, clients, Current, Merged
<1>9. CASE Write
  BY <1>9 DEF Write, engine, refresh, logs, clients, Current, Merged
<1>10. CASE Announce
  BY <1>10 DEF Announce, Unseen, Receivers, engine, refresh, logs, clients, Current, Merged
<1>11. CASE Subscribe
  BY <1>11 DEF Subscribe, engine, refresh, logs, clients, Current, Merged
<1>12. CASE Snapshot
  BY <1>12 DEF Snapshot, Sends, engine, refresh, logs, clients, Current, Merged
<1>13. CASE Wake
  BY <1>13 DEF Wake, Wakes, engine, refresh, logs, clients, Current, Merged
<1>14. CASE SendDiff
  <2>1. /\ client.state = "reading" /\ client'.sent = info /\ view = client.sent
        /\ view' = Applied(view, Diff(client.sent, info), info)
        /\ client'.state = "waiting" /\ client'.stream = client.stream
        /\ client'.unseen = client.unseen /\ client'.marks = None
        /\ UNCHANGED <<info, worker, stored, flushed, unsaid>>
    BY <1>14 DEF Sends, SendDiff, engine, refresh, logs, clients
  <2>2. IsList(info)
    BY DEF Merged, IsList
  <2>3. view' = info
    BY <2>1, <2>2, DiffIsApplied
  <2> QED BY <1>14, <2>1, <2>3 DEF SendDiff, Current
<1>15. CASE SubscribeServices
  BY <1>15 DEF SubscribeServices, engine, refresh, logs, clients, Current, Merged
<1>16. CASE ReadWatermarks
  BY <1>16 DEF ReadWatermarks, engine, refresh, logs, clients, Current, Merged
<1>17. CASE ServicesSnapshot
  <2>1. /\ client'.sent = Merged(client.marks) /\ view' = client'.sent
        /\ client'.state = "waiting" /\ client'.stream = "services" /\ client.stream = "services"
        /\ client'.unseen = client.unseen /\ client'.marks = None /\ client.marks # None
        /\ UNCHANGED <<info, worker, stored, flushed, unsaid>>
    BY <1>17 DEF ServicesSnapshot, Sends, engine, refresh, logs, clients
  <2>2. client.marks = stored \/ DiffComes
    BY <2>1
  <2>3. client.marks = stored => view' = Current'
    BY <2>1 DEF Current, Merged
  <2> QED BY <2>1, <2>2, <2>3
<1>18. CASE WakeServices
  BY <1>18 DEF WakeServices, Wakes, engine, refresh, logs, clients, Current, Merged
<1>19. CASE SendServicesDiff
  <2>1. /\ client.state = "reading" /\ client'.sent = Merged(client.marks) /\ view = client.sent
        /\ view' = Applied(view, Diff(client.sent, Merged(client.marks)), Merged(client.marks))
        /\ client'.state = "waiting" /\ client'.stream = client.stream
        /\ client'.unseen = client.unseen /\ client'.marks = None
        /\ UNCHANGED <<info, worker, stored, flushed, unsaid>>
    BY <1>19 DEF Sends, SendServicesDiff, engine, refresh, logs, clients
  <2>2. IsList(Merged(client.marks))
    BY DEF Merged, IsList
  <2>3. view' = Merged(client.marks)
    BY <2>1, <2>2, DiffIsApplied
  <2>4. Current' = Merged(stored)
    BY <1>19, <2>1 DEF SendServicesDiff, Current, Merged
  <2> QED BY <1>19, <2>1, <2>3, <2>4 DEF SendServicesDiff
<1>20. CASE Disconnect
  BY <1>20 DEF Disconnect, engine, refresh, logs, clients, Current, Merged
<1>21. ASSUME NEW s \in Service, Flush(s) PROVE ViewInv'
  BY <1>21 DEF Flush, engine, refresh, logs, clients, Current, Merged
<1>22. ASSUME NEW s \in Service, Notify(s) PROVE ViewInv'
  BY <1>22 DEF Notify, Unseen, Receivers, engine, refresh, logs, clients, Current, Merged
<1>23. ASSUME NEW s \in Service, Prune(s) PROVE ViewInv'
  BY <1>23 DEF Prune, engine, refresh, logs, clients, Current, Merged
<1>24. ASSUME NEW c \in Container, NEW s \in Reported \cup {Gone}, Change(c, s) PROVE ViewInv'
  BY <1>24 DEF Change, engine, refresh, logs, clients, Current, Merged
<1>25. CASE UNCHANGED vars
  BY <1>25 DEF vars, engine, refresh, logs, clients, Current, Merged
<1> QED
  BY <1>1, <1>2, <1>3, <1>4, <1>5, <1>6, <1>7, <1>8, <1>9, <1>10, <1>11, <1>12,
     <1>13, <1>14, <1>15, <1>16, <1>17, <1>18, <1>19, <1>20, <1>21, <1>22, <1>23, <1>24, <1>25 DEF Next

\* The list is Docker's and a client's view is the list, or the services as they
\* are, or a refresh, a revision or a notification is on its way, for any
\* containers and services: nothing is lost between the coalesced channels, the
\* worker and the streams.
THEOREM ListStaysCurrent == Spec => []ListIsCurrent
<1>1. Init => ListsOK /\ RefreshInv /\ ViewInv
  BY ListsInit, RefreshInit, ViewInit
<1>2. ListsOK /\ RefreshInv /\ ViewInv /\ [Next]_vars => (ListsOK /\ RefreshInv /\ ViewInv)'
  BY ListsStep, RefreshStep, ViewStep
<1>3. RefreshInv /\ ViewInv => ListIsCurrent
  BY DEF RefreshInv, ViewInv, ListIsCurrent
<1> QED BY <1>1, <1>2, <1>3, PTL DEF Spec

\* A decision that nothing need be done is taken on a state that is as asked.
LEMMA NoopDecision ==
  ASSUME NEW kind \in {"start", "stop", "restart"}, NEW s, Decision(kind, s) = "noop"
  PROVE  \/ kind = "start" /\ s = "running"
         \/ kind = "stop" /\ s \in {"created", "exited"}
<1>1. CASE kind = "start"
  BY <1>1 DEF Decision, StartIn
<1>2. CASE kind = "stop"
  BY <1>2 DEF Decision, StopIn
<1>3. CASE kind = "restart"
  BY <1>3 DEF Decision, RestartIn
<1> QED BY <1>1, <1>2, <1>3

\* A Noop answer leaves the container as asked when Docker was not changed under
\* the list, for any containers and states.
THEOREM NoopsAreDone == Spec => []NoopMeansDone
<1>1. Init => RefreshInv
  BY RefreshInit
<1>2. RefreshInv /\ [Next]_vars => RefreshInv'
  BY RefreshStep
<1>3. RefreshInv => NoopMeansDone
  <2>1. ASSUME RefreshInv, ~RefreshComes, NEW c \in Container,
               NEW kind \in {"start", "stop", "restart"}, Answer(kind, c, TRUE) = "noop"
        PROVE  \/ kind = "start" /\ docker[c] = "running"
               \/ kind = "stop" /\ docker[c] \in {"created", "exited"}
    <3>1. c \in DOMAIN info /\ Decision(kind, info[c]) = "noop"
      BY <2>1 DEF Answer
    <3>2. info[c] = docker[c]
      BY <2>1, <3>1 DEF RefreshInv, Listing
    <3> QED BY <3>1, <3>2, NoopDecision
  <2> QED BY <2>1 DEF NoopMeansDone
<1> QED BY <1>1, <1>2, <1>3, PTL DEF Spec
================================================================================
