--------------------------- MODULE ContainerObserver ---------------------------
(***************************************************************************)
(* How a container that Docker starts comes to have its log followed: the  *)
(* event stream asks for an update, a worker lists what runs and reconciles*)
(* it with what is observed, start and stop events go through a bounded    *)
(* channel to the log observer, and that spawns the log tasks.  Docker may *)
(* become unreachable and its streams may break at any time.               *)
(***************************************************************************)
EXTENDS Naturals, FiniteSets, Sequences, SequencesExt, FiniteSetsExt

CONSTANTS
  Container,
  EventCap   \* capacity of the channel of start and stop events

ASSUME EventCapAssumption == EventCap \in Nat \ {0}
ASSUME ContainerAssumption == IsFiniteSet(Container)

VARIABLES
  running,   \* the containers Docker runs
  reachable, \* Docker answers within the request timeout
  connected, \* the flag the probe keeps
  cycle,     \* run_containers_observer_cycle
  event,     \* Docker has sent an event that was not read yet
  request,   \* the update channel, of capacity one
  updater,   \* the update worker
  listed,    \* what its listing returned
  observed,  \* observed_containers
  sends,     \* the start and stop events it has still to send
  queue,     \* the channel of those events
  observer,  \* the log observer's loop
  current,   \* the observed containers it has read
  task,      \* its log tasks, by container
  missed,    \* history: a change that nothing will bring up before the next tick
  unheard    \* history: a start the log observer will learn of by its timer

registry == <<cycle, event, request, updater, listed, observed, sends>>
logs == <<observer, current, task>>
observerVars == <<running, reachable, connected, registry, queue, logs, missed, unheard>>

TaskState == {"none", "starting", "following", "ending", "finished"}

ObserverInit ==
  /\ running \in SUBSET Container
  /\ reachable \in BOOLEAN /\ connected = TRUE  \* "optimistic until the first probe"
  /\ cycle = "off" /\ event = FALSE /\ request = FALSE
  /\ updater = "idle" /\ listed = {} /\ observed = {} /\ sends = <<>>
  /\ queue = <<>>
  /\ observer = "waiting" /\ current = {} /\ task = [c \in Container |-> "none"]
  /\ missed = TRUE /\ unheard = {}

---------------------------------------------------------------------------
(* Docker                                                                  *)

\* Docker reports a start or a stop to whoever is subscribed, and ends the
\* logs of what stops
Change(c) ==
  /\ running' = SymDiff(running, {c})
  /\ event' = (event \/ cycle = "subscribed")
  /\ missed' = (missed \/ cycle # "subscribed")
  /\ task' = [task EXCEPT ![c] = IF c \in running /\ @ = "following" THEN "ending" ELSE @]
  /\ UNCHANGED <<reachable, connected, cycle, request, updater, listed, observed, sends,
                 queue, observer, current, unheard>>

Reachability ==
  /\ reachable' = ~reachable
  /\ UNCHANGED <<running, connected, registry, queue, logs, missed, unheard>>

Probe ==
  /\ connected' = reachable
  /\ UNCHANGED <<running, reachable, registry, queue, logs, missed, unheard>>

---------------------------------------------------------------------------
(* The event stream                                                        *)

CycleBegins ==
  /\ cycle = "off" /\ connected
  /\ cycle' = "on"
  /\ request' = TRUE
  /\ UNCHANGED <<running, reachable, connected, event, updater, listed, observed, sends,
                 queue, logs, missed, unheard>>

\* the stream is opened by its first poll, after the update was asked for
Subscribe ==
  /\ cycle = "on" /\ reachable
  /\ cycle' = "subscribed"
  /\ UNCHANGED <<running, reachable, connected, event, request, updater, listed, observed,
                 sends, queue, logs, missed, unheard>>

Tick ==
  /\ cycle # "off"
  /\ request' = TRUE
  /\ UNCHANGED <<running, reachable, connected, cycle, event, updater, listed, observed,
                 sends, queue, logs, missed, unheard>>

DeliverEvent ==
  /\ event /\ reachable
  /\ event' = FALSE
  /\ request' = TRUE
  /\ UNCHANGED <<running, reachable, connected, cycle, updater, listed, observed, sends,
                 queue, logs, missed, unheard>>

\* the stream ends or fails, and with it what it still held
CycleBreaks ==
  /\ cycle # "off"
  /\ cycle' = "off"
  /\ event' = FALSE
  /\ missed' = (missed \/ event)
  /\ UNCHANGED <<running, reachable, connected, request, updater, listed, observed, sends,
                 queue, logs, unheard>>

---------------------------------------------------------------------------
(* The update worker                                                       *)

Receive ==
  /\ updater = "idle" /\ request
  /\ request' = FALSE
  /\ updater' = "debounce"
  /\ UNCHANGED <<running, reachable, connected, cycle, event, listed, observed, sends,
                 queue, logs, missed, unheard>>

\* the requests of the debounce time are one update, which is skipped without
\* a connection
Drain ==
  /\ updater = "debounce"
  /\ request' = FALSE
  /\ updater' = IF connected THEN "listing" ELSE "idle"
  /\ missed' = (missed \/ ~connected)
  /\ UNCHANGED <<running, reachable, connected, cycle, event, listed, observed, sends,
                 queue, logs, unheard>>

List ==
  /\ updater = "listing" /\ reachable
  /\ updater' = "reconciling"
  /\ listed' = running
  /\ missed' = FALSE
  /\ UNCHANGED <<running, reachable, connected, cycle, event, request, observed, sends,
                 queue, logs, unheard>>

ListFails ==
  /\ updater = "listing" /\ ~reachable
  /\ updater' = "idle"
  /\ missed' = TRUE
  /\ UNCHANGED <<running, reachable, connected, cycle, event, request, listed, observed,
                 sends, queue, logs, unheard>>

Times(n, action) == [i \in 1..n |-> action]

\* under the write lock; starts are sent before stops
Reconcile ==
  /\ updater = "reconciling"
  /\ observed' = listed
  /\ sends' = Times(Cardinality(listed \ observed), "start")
              \o Times(Cardinality(observed \ listed), "stop")
  /\ updater' = "announcing"
  /\ listed' = {}
  /\ UNCHANGED <<running, reachable, connected, cycle, event, request, queue, logs, missed,
                 unheard>>

\* try_send: an event that does not fit is dropped
Announce ==
  /\ sends # <<>>
  /\ sends' = Tail(sends)
  /\ IF Len(queue) < EventCap
     THEN queue' = Append(queue, Head(sends)) /\ UNCHANGED unheard
     ELSE /\ unheard' = IF Head(sends) = "start" THEN observed ELSE unheard
          /\ UNCHANGED queue
  /\ UNCHANGED <<running, reachable, connected, cycle, event, request, updater, listed,
                 observed, logs, missed>>

\* mutant: requests that came during the update count as done with it
AnnouncedThenDrained ==
  /\ updater = "announcing" /\ sends = <<>>
  /\ updater' = "idle"
  /\ request' = FALSE
  /\ UNCHANGED <<running, reachable, connected, cycle, event, listed, observed, sends,
                 queue, logs, missed, unheard>>

\* then it asks for an update of the container list, see ContainerList
Announced ==
  /\ updater = "announcing" /\ sends = <<>>
  /\ updater' = "idle"
  /\ UNCHANGED <<running, reachable, connected, cycle, event, request, listed, observed,
                 sends, queue, logs, missed, unheard>>

---------------------------------------------------------------------------
(* The log observer and its tasks                                          *)

\* one start event wakes it; stop events are read and passed over
TakeEvent ==
  /\ observer = "waiting" /\ queue # <<>>
  /\ queue' = Tail(queue)
  /\ observer' = IF Head(queue) = "start" THEN "awake" ELSE "waiting"
  /\ UNCHANGED <<running, reachable, connected, registry, current, task, missed, unheard>>

WakeOnTimer ==
  /\ observer = "waiting"
  /\ observer' = "awake"
  /\ UNCHANGED <<running, reachable, connected, registry, queue, current, task, missed,
                 unheard>>

\* without a connection it waits again, whatever woke it
Look ==
  /\ observer = "awake"
  /\ IF connected
     THEN observer' = "respawning" /\ current' = observed /\ unheard' = {}
     ELSE observer' = "waiting" /\ unheard' = observed /\ UNCHANGED current
  /\ UNCHANGED <<running, reachable, connected, registry, queue, task, missed>>

\* mutant: a task that has finished still counts as the container's
RespawnKeepsFinished ==
  /\ observer = "respawning"
  /\ task' = [c \in Container |->
                IF task[c] = "none" /\ c \in current THEN "starting" ELSE task[c]]
  /\ observer' = "waiting" /\ current' = {}
  /\ UNCHANGED <<running, reachable, connected, registry, queue, missed, unheard>>

\* mutant: events of what is respawned anyway are thrown away
RespawnDrainsQueue ==
  /\ observer = "respawning"
  /\ task' = [c \in Container |->
                IF task[c] \notin {"none", "finished"} THEN task[c]
                ELSE IF c \in current THEN "starting" ELSE "none"]
  /\ observer' = "waiting" /\ current' = {} /\ queue' = <<>>
  /\ UNCHANGED <<running, reachable, connected, registry, missed, unheard>>

\* finished tasks are forgotten, and what is observed without a task gets one
Respawn ==
  /\ observer = "respawning"
  /\ LET kept == {c \in Container : task[c] \notin {"none", "finished"}}
     IN task' = [c \in Container |->
                   IF c \in kept THEN task[c]
                   ELSE IF c \in current THEN "starting" ELSE "none"]
  /\ observer' = "waiting" /\ current' = {}
  /\ UNCHANGED <<running, reachable, connected, registry, queue, missed, unheard>>

\* the log of a container that has stopped ends after what it holds
TaskOpens(c) ==
  /\ task[c] = "starting" /\ reachable
  /\ task' = [task EXCEPT ![c] = IF c \in running THEN "following" ELSE "ending"]
  /\ UNCHANGED <<running, reachable, connected, registry, queue, observer, current,
                 missed, unheard>>

\* the service id, the checkpoint or the stream cannot be had
TaskFails(c) ==
  /\ task[c] = "starting"
  /\ task' = [task EXCEPT ![c] = "finished"]
  /\ UNCHANGED <<running, reachable, connected, registry, queue, observer, current,
                 missed, unheard>>

TaskEnds(c) ==
  /\ task[c] = "ending" \/ (task[c] = "following" /\ ~reachable)
  /\ task' = [task EXCEPT ![c] = "finished"]
  /\ UNCHANGED <<running, reachable, connected, registry, queue, observer, current,
                 missed, unheard>>

---------------------------------------------------------------------------

ObserverNext ==
  \/ Reachability \/ Probe
  \/ CycleBegins \/ Subscribe \/ Tick \/ DeliverEvent \/ CycleBreaks
  \/ Receive \/ Drain \/ List \/ ListFails \/ Reconcile \/ Announce \/ Announced
  \/ TakeEvent \/ WakeOnTimer \/ Look \/ Respawn
  \/ \E c \in Container : Change(c) \/ TaskOpens(c) \/ TaskFails(c) \/ TaskEnds(c)

ObserverSpec == ObserverInit /\ [][ObserverNext]_observerVars

\* Timers fire, workers run on, a stream that has ended is noticed; a task
\* that can be opened again and again is not refused each time.
ObserverFairness ==
  /\ WF_observerVars(Probe) /\ WF_observerVars(CycleBegins) /\ WF_observerVars(Tick)
  /\ WF_observerVars(Receive) /\ WF_observerVars(Drain)
  /\ WF_observerVars(List \/ ListFails)
  /\ WF_observerVars(Reconcile) /\ WF_observerVars(Announce \/ Announced)
  /\ WF_observerVars(WakeOnTimer \/ TakeEvent) /\ WF_observerVars(Look)
  /\ WF_observerVars(Respawn)
  /\ \A c \in Container : SF_observerVars(TaskOpens(c)) /\ WF_observerVars(TaskEnds(c))

ObserverLiveSpec == ObserverSpec /\ ObserverFairness

---------------------------------------------------------------------------
(* Properties                                                              *)

\* Each variable keeps its shape; the updater has events to send only while it
\* announces, and the channel holds no more than its capacity.
ObserverTypeOK ==
  /\ running \in SUBSET Container /\ observed \in SUBSET Container
  /\ reachable \in BOOLEAN /\ connected \in BOOLEAN
  /\ cycle \in {"off", "on", "subscribed"}
  /\ event \in BOOLEAN /\ (event => cycle = "subscribed")
  /\ request \in BOOLEAN
  /\ updater \in {"idle", "debounce", "listing", "reconciling", "announcing"}
  /\ listed \in SUBSET Container /\ current \in SUBSET Container
  /\ sends \in Seq({"start", "stop"}) /\ (sends # <<>> => updater = "announcing")
  /\ queue \in Seq({"start", "stop"}) /\ Len(queue) <= EventCap
  /\ observer \in {"waiting", "awake", "respawning"}
  /\ task \in [Container -> TaskState]
  /\ missed \in BOOLEAN /\ unheard \in SUBSET Container

\* A change that reached the event stream is never lost between the coalesced
\* requests and the listing: as long as the observed containers are not those
\* that run, an update is on its way, or the stream was down, or an update was
\* skipped or failed.
NoChangeIsLost ==
  \/ observed = running
  \/ missed \/ event \/ request
  \/ updater \in {"debounce", "listing"}
  \/ updater = "reconciling" /\ listed = running

\* the log observer will wake for it: on an event, or known to the history
StartIsHeard(c) == c \in unheard \/ "start" \in ToSet(queue) \cup ToSet(sends)

\* An observed container without a log task has its wake-up before it, unless
\* the channel was full or the observer gave up its turn for want of a
\* connection: it was inserted before its start event was sent.
NoStartIsLost ==
  \A c \in observed :
    task[c] = "none" =>
      StartIsHeard(c) \/ observer = "awake" \/ (observer = "respawning" /\ c \in current)

\* Of a listing that is out of date another one will follow, so that what it
\* makes of the observed containers does not matter.
StaleListingIsFollowed ==
  updater = "reconciling" => listed = running \/ missed \/ event \/ request

\* What was observed after the log observer read the observed containers will
\* wake it again.
LateStartIsHeard ==
  observer = "respawning" => \A c \in observed \ current : StartIsHeard(c)

\* What Docker goes on running is followed in the end, although events were
\* dropped, streams broke and tasks failed before.
FollowedAgain ==
  \A c \in Container :
    <>[](reachable /\ c \in running) => <>[](task[c] = "following")
================================================================================
