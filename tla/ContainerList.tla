----------------------------- MODULE ContainerList -----------------------------
(***************************************************************************)
(* The container list: a worker refreshes it from Docker, revisions are    *)
(* announced to the clients of /api/stream/containers, which get a         *)
(* snapshot and then differences, and control commands are decided on it.  *)
(* The clients of /api/stream/logs get the services in the same way, which *)
(* are made from that list and from the watermarks of the stored logs.     *)
(***************************************************************************)
EXTENDS Naturals, FiniteSets, Functions

CONSTANTS
  Container,
  Reported,  \* the states that Docker takes its containers through
  Gone,      \* no such container
  Service,
  ServiceOf, \* the service of each container
  MaxMark,   \* bound: watermarks are 1..MaxMark
  None       \* no watermark, or none read yet

\* model/containers.rs
ContainerState == {"created", "restarting", "running", "removing", "paused", "exited",
                   "dead", "stopping", "empty"}

ASSUME ReportedAssumption ==
  /\ Reported \subseteq ContainerState
  /\ Gone \notin ContainerState
  /\ ServiceOf \in [Container -> Service]
  /\ MaxMark \in Nat \ {0}

VARIABLES
  docker,    \* container -> its state
  connected, \* the flag the probe keeps
  due,       \* an update of the observed containers is to follow a change
  request,   \* the channel of the info worker, of capacity one
  worker,    \* the info worker
  listed,    \* what its listing returned
  info,      \* containers_info: the states of the containers it lists
  stored,    \* list_service_log_watermarks: the latest checkpoint of each service
  flushed,   \* services whose flush is about to notify
  client,    \* a client of one of the streams: the server's state for it
  view,      \* the list the client has put together
  missed,    \* history: a change that no refresh follows before the next tick
  unsaid     \* history: watermarks were pruned, or not read, since the last good read

engine == <<docker, connected>>
refresh == <<due, request, worker, listed, info>>
logs == <<stored, flushed>>
clients == <<client, view, unsaid>>
vars == <<engine, refresh, logs, clients, missed>>

\* a list is a function on the containers, or the services, it has
Empty == [c \in {} |-> Gone]

Listing == [c \in {x \in Container : docker[x] # Gone} |-> docker[c]]

NoMarks == [s \in Service |-> None]

\* resolve_watermarks and merge_services: a service has stored lines, or a
\* container, and is live if one of its containers runs
Merged(marks) ==
  LET Of(s) == {c \in DOMAIN info : ServiceOf[c] = s}
  IN [s \in {x \in Service : marks[x] # None \/ Of(x) # {}} |->
        [last |-> marks[s], live |-> \E c \in Of(s) : info[c] = "running"]]

\* the receivers a stream waits on
Receivers(stream) == IF stream = "containers" THEN {"list"} ELSE {"list", "flush"}

NoClient ==
  [state |-> "new", stream |-> "containers", sent |-> Empty, unseen |-> {}, marks |-> None]

Init ==
  /\ docker \in [Container -> Reported \cup {Gone}]
  /\ connected = TRUE  \* "optimistic until the first probe"
  /\ due = FALSE /\ request = FALSE
  /\ worker = "idle" /\ listed = Empty /\ info = Empty
  /\ stored \in [Service -> {None, 1}] /\ flushed = {}
  /\ client = NoClient
  /\ view = Empty
  /\ missed = TRUE /\ unsaid = FALSE

---------------------------------------------------------------------------
(* Docker, its probe, and the updates of the observed containers           *)

\* A change is followed by an update of the observed containers, or missed:
\* ContainerObserver!NoChangeIsLost
Change(c, s) ==
  /\ docker[c] # s
  /\ docker' = [docker EXCEPT ![c] = s]
  /\ \/ due' = TRUE /\ UNCHANGED missed
     \/ missed' = TRUE /\ UNCHANGED due
  /\ UNCHANGED <<connected, request, worker, listed, info, logs, clients>>

\* Docker answers its probe, and other requests, or does not
Probe ==
  /\ connected' \in BOOLEAN
  /\ UNCHANGED <<docker, refresh, logs, clients, missed>>

\* the end of update_observed_containers_now
ObservedUpdated ==
  /\ due
  /\ due' = FALSE
  /\ request' = TRUE
  /\ UNCHANGED <<engine, worker, listed, info, logs, clients, missed>>

ObservedUpdateFails ==
  /\ due
  /\ due' = FALSE
  /\ missed' = TRUE
  /\ UNCHANGED <<engine, request, worker, listed, info, logs, clients>>

---------------------------------------------------------------------------
(* The info worker                                                         *)

Tick ==
  /\ request' = TRUE
  /\ UNCHANGED <<engine, due, worker, listed, info, logs, clients, missed>>

Receive ==
  /\ worker = "idle" /\ request
  /\ request' = FALSE
  /\ worker' = "debounce"
  /\ UNCHANGED <<engine, due, listed, info, logs, clients, missed>>

Drain ==
  /\ worker = "debounce"
  /\ request' = FALSE
  /\ worker' = IF connected THEN "listing" ELSE "idle"
  /\ missed' = (missed \/ ~connected)
  /\ UNCHANGED <<engine, due, listed, info, logs, clients>>

List ==
  /\ worker = "listing"
  /\ worker' = "writing"
  /\ listed' = Listing
  /\ missed' = FALSE
  /\ UNCHANGED <<engine, due, request, info, logs, clients>>

ListFails ==
  /\ worker = "listing"
  /\ worker' = "idle"
  /\ missed' = TRUE
  /\ UNCHANGED <<engine, due, request, listed, info, logs, clients>>

Write ==
  /\ worker = "writing"
  /\ info' = listed
  /\ worker' = "announcing"
  /\ listed' = Empty
  /\ UNCHANGED <<engine, due, request, logs, clients, missed>>

\* the receivers of a channel have not seen its new value
Unseen(channel) ==
  client' = [client EXCEPT !.unseen = IF client.state = "new" THEN @
                                      ELSE @ \cup ({channel} \cap Receivers(client.stream))]

\* the revision
Announce ==
  /\ worker = "announcing"
  /\ Unseen("list")
  /\ worker' = "idle"
  /\ UNCHANGED <<engine, due, request, listed, info, logs, view, missed, unsaid>>

---------------------------------------------------------------------------
(* The stored logs                                                         *)

\* A flush moves the service's checkpoints on, or fails to, and notifies then:
\* LogBuffer!AdvanceCheckpoint, AdvanceFails
Flush(s) ==
  /\ \/ \E mark \in {m \in 1..MaxMark : stored[s] = None \/ m > stored[s]} :
          stored' = [stored EXCEPT ![s] = mark]
     \/ UNCHANGED stored
  /\ flushed' = flushed \cup {s}
  /\ UNCHANGED <<engine, refresh, clients, missed>>

Notify(s) ==
  /\ s \in flushed
  /\ flushed' = flushed \ {s}
  /\ Unseen("flush")
  /\ UNCHANGED <<engine, refresh, stored, view, missed, unsaid>>

\* retention tells nobody
Prune(s) ==
  /\ stored[s] # None
  /\ stored' = [stored EXCEPT ![s] = None]
  /\ unsaid' = TRUE
  /\ UNCHANGED <<engine, refresh, flushed, client, view, missed>>

---------------------------------------------------------------------------
(* A client of a stream                                                    *)

\* mutant: what is no longer listed is not looked for
DiffOfListed(sent, current) ==
  [added   |-> {c \in DOMAIN current : c \notin DOMAIN sent},
   updated |-> {c \in DOMAIN current \cap DOMAIN sent : current[c] # sent[c]},
   removed |-> {}]

\* what the server sends of a list, after it has sent another one
Diff(sent, current) ==
  [added   |-> {c \in DOMAIN current : c \notin DOMAIN sent},
   updated |-> {c \in DOMAIN current \cap DOMAIN sent : current[c] # sent[c]},
   removed |-> DOMAIN sent \ DOMAIN current]

\* what the client makes of it
Applied(old, diff, current) ==
  [c \in ((DOMAIN old) \ diff.removed) \cup diff.added |->
     IF c \in diff.added \cup diff.updated THEN current[c] ELSE old[c]]

\* the receivers are made before anything is read
Subscribe ==
  /\ client.state = "new"
  /\ client' = [NoClient EXCEPT !.state = "initial"]
  /\ UNCHANGED <<engine, refresh, logs, view, missed, unsaid>>

SubscribeServices ==
  /\ client.state = "new"
  /\ client' = [NoClient EXCEPT !.state = "initial", !.stream = "services"]
  /\ UNCHANGED <<engine, refresh, logs, view, missed, unsaid>>

\* the first half of current_groups, which takes a failed query for no logs
ReadWatermarks ==
  /\ client.stream = "services" /\ client.state \in {"initial", "reading"}
  /\ client.marks = None
  /\ \/ client' = [client EXCEPT !.marks = stored] /\ unsaid' = FALSE
     \/ client' = [client EXCEPT !.marks = NoMarks] /\ unsaid' = TRUE
  /\ UNCHANGED <<engine, refresh, logs, view, missed>>

\* a client is sent what it lacks; an empty difference is not sent
Sends(state, list) ==
  /\ client.state = state
  /\ client' = [client EXCEPT !.state = "waiting", !.sent = list, !.marks = None]
  /\ view' = IF state = "initial" THEN list ELSE Applied(view, Diff(client.sent, list), list)
  /\ UNCHANGED <<engine, refresh, logs, missed, unsaid>>

Snapshot == client.stream = "containers" /\ Sends("initial", info)

SendDiff == client.stream = "containers" /\ Sends("reading", info)

ServicesSnapshot ==
  client.stream = "services" /\ client.marks # None /\ Sends("initial", Merged(client.marks))

SendServicesDiff ==
  client.stream = "services" /\ client.marks # None /\ Sends("reading", Merged(client.marks))

Wakes(channel) ==
  /\ client.state = "waiting" /\ channel \in client.unseen
  /\ client' = [client EXCEPT !.state = "reading", !.unseen = @ \ {channel}]
  /\ UNCHANGED <<engine, refresh, logs, view, missed, unsaid>>

\* changed(), and borrow_and_update before the list is read
Wake == client.stream = "containers" /\ Wakes("list")

\* one of the two channels has changed; the other one stays unseen
WakeServices == client.stream = "services" /\ \E channel \in client.unseen : Wakes(channel)

Disconnect ==
  /\ client.state # "new"
  /\ client' = NoClient
  /\ view' = Empty
  /\ UNCHANGED <<engine, refresh, logs, missed, unsaid>>

---------------------------------------------------------------------------
(* Control commands: they are answered from the cached list, and sent in   *)
(* the background; what becomes of the container is one of its Changes. A  *)
(* container of an unknown state is an error and left out                  *)

\* what start_container, stop_container and restart_container do in a state
StartIn(s) ==
  CASE s = "running" -> "noop"
    [] s \in {"removing", "dead", "restarting"} -> "conflict"
    [] OTHER -> "start"

\* mutant: a container between two runs counts as stopped
StopInPause(s) ==
  CASE s \in {"created", "exited", "restarting"} -> "noop"
    [] s \in {"removing", "dead"} -> "conflict"
    [] OTHER -> "stop"

StopIn(s) ==
  CASE s \in {"created", "exited"} -> "noop"
    [] s \in {"removing", "dead"} -> "conflict"
    [] OTHER -> "stop"

\* in the last states nothing is sent, and the answer is Submitted
RestartIn(s) ==
  CASE s \in {"created", "exited"} -> "start"
    [] s \in {"running", "paused"} -> "restart"
    [] s \in {"removing", "dead", "restarting"} -> "conflict"
    [] OTHER -> "nothing"

Decision(kind, s) ==
  CASE kind = "start" -> StartIn(s) [] kind = "stop" -> StopIn(s)
    [] kind = "restart" -> RestartIn(s)

\* whether Docker lets itself be controlled is fixed by configuration, or found
\* by the probe with a write that must fail: either is tried
Answer(kind, c, controls) ==
  IF ~connected THEN "unreachable"
  ELSE IF ~controls THEN "forbidden"
  ELSE IF c \notin DOMAIN info THEN "notfound"
  ELSE Decision(kind, info[c])

---------------------------------------------------------------------------

Next ==
  \/ Probe \/ ObservedUpdated \/ ObservedUpdateFails
  \/ Tick \/ Receive \/ Drain \/ List \/ ListFails \/ Write \/ Announce
  \/ \E s \in Service : Flush(s) \/ Notify(s) \/ Prune(s)
  \/ Subscribe \/ Snapshot \/ Wake \/ SendDiff
  \/ SubscribeServices \/ ReadWatermarks \/ ServicesSnapshot \/ WakeServices \/ SendServicesDiff
  \/ Disconnect
  \/ \E c \in Container, s \in Reported \cup {Gone} : Change(c, s)

Spec == Init /\ [][Next]_vars

---------------------------------------------------------------------------
(* Properties                                                              *)

RefreshComes ==
  \/ missed \/ due \/ request
  \/ worker \in {"debounce", "listing"}
  \/ worker = "writing" /\ listed = Listing

\* what a client of the stream should have
Current == IF client.stream = "containers" THEN info ELSE Merged(stored)

DiffComes ==
  \/ client.unseen # {} \/ client.state = "reading" \/ worker = "announcing"
  \/ client.stream = "services" /\ (flushed # {} \/ unsaid)

\* Of a listing that is out of date another one will follow.
StaleListingIsFollowed == worker = "writing" /\ listed # Listing => missed \/ due \/ request

\* What a client has put together is what the server believes it was sent.
ViewIsSent == client.state \in {"waiting", "reading"} => view = client.sent

\* After watermarks that are out of date others will be read.
StaleMarksAreFollowed ==
  client.marks \notin {None, stored} => "flush" \in client.unseen \/ flushed # {} \/ unsaid

\* The list is Docker's, and a client's view is the list, or the services as
\* they are, unless a refresh and a revision or a flush's notification are still
\* on their way (or the change was missed, or retention pruned the watermarks):
\* no request, revision, notification or difference is lost between the
\* coalesced channels, the worker and the streams.
ListIsCurrent ==
  /\ info = Listing \/ RefreshComes
  /\ client.state \in {"waiting", "reading"} => view = Current \/ DiffComes

\* The promise of docs/API.md, "start means make this container running": a
\* Noop answer leaves the container as asked, when Docker was not changed
\* under the list.
NoopMeansDone ==
  ~RefreshComes =>
    \A c \in Container :
      /\ Answer("start", c, TRUE) = "noop" => docker[c] = "running"
      /\ Answer("stop", c, TRUE) = "noop" => docker[c] \in {"created", "exited"}
      /\ Answer("restart", c, TRUE) # "noop"
================================================================================
