--------------------------- MODULE ServiceRegistry ---------------------------
(***************************************************************************)
(* The dictionary of service names: the `services` table of metadata.db    *)
(* (metadata/mod.rs) and the in-memory registry in front of it             *)
(* (metadata/service_registry.rs), called by the log tasks, the sample     *)
(* observer and the log flushes to turn a name into an id, and by          *)
(* retention to drop the ids that nobody has used for long.                *)
(*                                                                         *)
(* by_name and by_id always change together under one write lock, so one   *)
(* of them is kept.  A column of the table is a function of the sid.       *)
(***************************************************************************)
EXTENDS Integers, FiniteSets

CONSTANTS
  Name,           \* service names
  NoName,         \* the name of an id that has no row
  Caller,         \* concurrent callers of id_of
  Retention,      \* the cleanup pass, as a holder of the lock
  Free,           \* the holder of a lock that is free
  TouchInterval,  \* TOUCH_INTERVAL_MS, also MAX_WATERMARK_LAG_MS
  OpTime,         \* bound: a call and what it writes take at most this long
  Start,          \* when the process starts, over a dictionary seen at 0
  MaxSid,         \* bound on the ids the table hands out
  MaxTime,        \* bound on the clock
  MaxTroubles     \* bound: store calls that fail and process exits, together

ASSUME RegistryAssumption ==
  /\ NoName \notin Name
  /\ Retention \notin Caller
  /\ Free \notin Caller \cup {Retention}
  /\ TouchInterval \in Nat \ {0}
  /\ OpTime \in Nat
  /\ Start \in Nat
  /\ MaxSid \in Nat
  /\ MaxTime \in Nat
  /\ MaxTroubles \in Nat

Sid == 1..MaxSid
NoSid == 0
Never == -1

VARIABLES
  now,        \* the wall clock
  nameOf,     \* services.name, NoName for an id without a row
  lastSeen,   \* services.last_seen_ms
  nextSid,    \* AUTOINCREMENT: ids are never handed out twice
  byName,     \* Inner.by_name, NoSid for a name that is not cached
  touched,    \* Inner.touched_ms, Never for an id without an entry
  lock,       \* reclamation_lock: who holds it
  caller,     \* the callers of id_of
  dropped,    \* what reclaim_before has deleted and not yet forgotten
  lapsed,     \* history: a touch was noted in memory and lost in the table
  troubles    \* the bounded troubles so far

registryVars == <<now, nameOf, lastSeen, nextSid, byName, touched, lock, caller,
                  dropped, lapsed, troubles>>

--------------------------------------------------------------------------------
Interned == {s \in Sid : nameOf[s] # NoName}
IdleCall == [pc |-> "idle", name |-> NoName, at |-> 0, sid |-> NoSid]
CallState == [pc: {"idle", "waiting", "touching", "resolving", "got"},
              name: Name \cup {NoName}, at: Nat, sid: Sid \cup {NoSid}]

Suffer == troubles < MaxTroubles /\ troubles' = troubles + 1

\* fresh_cached_id, for a caller that read the clock at `at`.
Fresh(n, at) ==
  /\ byName[n] # NoSid
  /\ touched[byName[n]] # Never
  /\ at - touched[byName[n]] < TouchInterval

\* `load` reads the whole dictionary.
Loaded(n) ==
  IF \E s \in Interned : nameOf[s] = n
  THEN CHOOSE s \in Interned : nameOf[s] = n ELSE NoSid

\* The process starts over the dictionary that earlier ones have left.
RegistryInit ==
  /\ now = Start
  /\ nextSid \in 1..(MaxSid + 1)
  /\ nameOf \in [Sid -> Name \cup {NoName}]
  /\ \A s \in Sid : nameOf[s] # NoName <=> s < nextSid
  /\ \A s, q \in Interned : nameOf[s] = nameOf[q] => s = q
  /\ lastSeen = [s \in Sid |-> 0]
  /\ byName = [n \in Name |-> Loaded(n)]
  /\ touched = [s \in Sid |-> Never]
  /\ lock = Free
  /\ caller = [k \in Caller |-> IdleCall]
  /\ dropped = {}
  /\ lapsed = FALSE
  /\ troubles = 0

--------------------------------------------------------------------------------
(* id_of *)

\* The clock is read once, and a fresh id is returned without the lock.
Call(k, n) ==
  /\ caller[k].pc = "idle"
  /\ caller' = [caller EXCEPT ![k] =
       IF Fresh(n, now) THEN [pc |-> "got", name |-> n, at |-> now, sid |-> byName[n]]
       ELSE [pc |-> "waiting", name |-> n, at |-> now, sid |-> NoSid]]
  /\ UNCHANGED <<now, nameOf, lastSeen, nextSid, byName, touched, lock, dropped,
                 lapsed, troubles>>

\* The lock is free, and another caller has refreshed the id meanwhile.
FindFresh(k) ==
  LET c == caller[k] IN
  /\ c.pc = "waiting"
  /\ lock = Free
  /\ Fresh(c.name, c.at)
  /\ caller' = [caller EXCEPT ![k].pc = "got", ![k].sid = byName[c.name]]
  /\ UNCHANGED <<now, nameOf, lastSeen, nextSid, byName, touched, lock, dropped,
                 lapsed, troubles>>

\* The id is cached and stale: touched_ms is written before the table is.
BeginTouch(k) ==
  LET c == caller[k] IN
  /\ c.pc = "waiting"
  /\ lock = Free
  /\ byName[c.name] # NoSid
  /\ ~Fresh(c.name, c.at)
  /\ lock' = k
  /\ touched' = [touched EXCEPT ![byName[c.name]] = c.at]
  /\ caller' = [caller EXCEPT ![k].pc = "touching", ![k].sid = byName[c.name]]
  /\ UNCHANGED <<now, nameOf, lastSeen, nextSid, byName, dropped, lapsed, troubles>>

\* touch_service: a watermark only moves forward.
\* Mutant: the statement matches no row.
SeenUnchanged(s, at) == lastSeen
SeenAt(s, at) ==
  IF s \in Interned /\ lastSeen[s] < at THEN [lastSeen EXCEPT ![s] = at] ELSE lastSeen

TouchStored(k) ==
  LET c == caller[k] IN
  /\ c.pc = "touching"
  /\ lastSeen' = SeenAt(c.sid, c.at)
  /\ lock' = Free
  /\ caller' = [caller EXCEPT ![k].pc = "got"]
  /\ UNCHANGED <<now, nameOf, nextSid, byName, touched, dropped, lapsed, troubles>>

\* The update fails, and so does the call; touched_ms keeps the entry.
TouchFails(k) ==
  /\ caller[k].pc = "touching"
  /\ lock' = Free
  /\ caller' = [caller EXCEPT ![k] = IdleCall]
  /\ lapsed' = TRUE
  /\ Suffer
  /\ UNCHANGED <<now, nameOf, lastSeen, nextSid, byName, touched, dropped>>

BeginResolve(k) ==
  LET c == caller[k] IN
  /\ c.pc = "waiting"
  /\ lock = Free
  /\ byName[c.name] = NoSid
  /\ lock' = k
  /\ caller' = [caller EXCEPT ![k].pc = "resolving"]
  /\ UNCHANGED <<now, nameOf, lastSeen, nextSid, byName, touched, dropped,
                 lapsed, troubles>>

\* The id an insert is given.  Mutant: without AUTOINCREMENT, SQLite takes the
\* one after the largest in the table.
AfterLargest == 1 + Cardinality({s \in Sid : \E q \in Interned : s <= q})
NewSid == nextSid

\* resolve_service: insert, or raise the watermark of the row there is.
Resolve(k) ==
  LET c == caller[k] IN
  /\ c.pc = "resolving"
  /\ NewSid \in Sid
  /\ \E s \in Sid :
        /\ IF \E q \in Interned : nameOf[q] = c.name THEN nameOf[s] = c.name ELSE s = NewSid
        /\ nextSid' = IF s \in Interned THEN nextSid ELSE nextSid + 1
        /\ nameOf' = [nameOf EXCEPT ![s] = c.name]
        /\ lastSeen' = [lastSeen EXCEPT ![s] =
                          IF s \in Interned /\ c.at <= @ THEN @ ELSE c.at]
        /\ byName' = [byName EXCEPT ![c.name] = s]
        /\ touched' = [touched EXCEPT ![s] = c.at]
        /\ caller' = [caller EXCEPT ![k].pc = "got", ![k].sid = s]
  /\ lock' = Free
  /\ UNCHANGED <<now, dropped, lapsed, troubles>>

ResolveFails(k) ==
  /\ caller[k].pc = "resolving"
  /\ lock' = Free
  /\ caller' = [caller EXCEPT ![k] = IdleCall]
  /\ Suffer
  /\ UNCHANGED <<now, nameOf, lastSeen, nextSid, byName, touched, dropped, lapsed>>

\* The caller has used the id.
Use(k) ==
  /\ caller[k].pc = "got"
  /\ caller' = [caller EXCEPT ![k] = IdleCall]
  /\ UNCHANGED <<now, nameOf, lastSeen, nextSid, byName, touched, lock, dropped,
                 lapsed, troubles>>

--------------------------------------------------------------------------------
(* reclaim_before *)

\* Under the lock: the stale rows are deleted from the table.
ReclaimDelete(cutoff) ==
  LET stale == {s \in Interned : lastSeen[s] < cutoff} IN
  /\ lock = Free
  /\ lock' = Retention
  /\ dropped' = stale
  /\ nameOf' = [s \in Sid |-> IF s \in stale THEN NoName ELSE nameOf[s]]
  /\ UNCHANGED <<now, lastSeen, nextSid, byName, touched, caller, lapsed, troubles>>

\* Then their cached names and touches are forgotten, and the lock released.
\* Mutant: the names stay cached.
KeepCached(n) == byName[n]
CachedAfter(n) == IF byName[n] \in dropped THEN NoSid ELSE byName[n]

ReclaimForget ==
  /\ lock = Retention
  /\ byName' = [n \in Name |-> CachedAfter(n)]
  /\ touched' = [s \in Sid |-> IF s \in dropped THEN Never ELSE touched[s]]
  /\ dropped' = {}
  /\ lock' = Free
  /\ UNCHANGED <<now, nameOf, lastSeen, nextSid, caller, lapsed, troubles>>

ReclaimFails ==
  /\ lock = Free
  /\ Suffer
  /\ UNCHANGED <<now, nameOf, lastSeen, nextSid, byName, touched, lock, caller,
                 dropped, lapsed>>

--------------------------------------------------------------------------------
\* The process ends and starts again, with the dictionary and nothing else.
RegistryRestart ==
  /\ byName' = [n \in Name |-> Loaded(n)]
  /\ touched' = [s \in Sid |-> Never]
  /\ lock' = Free
  /\ caller' = [k \in Caller |-> IdleCall]
  /\ dropped' = {}
  /\ lapsed' = (lapsed \/ \E k \in Caller : caller[k].pc = "touching")
  /\ Suffer
  /\ UNCHANGED <<now, nameOf, lastSeen, nextSid>>

\* Time passes, but no call outlives OpTime: store calls have timeouts.
Tick ==
  /\ now < MaxTime
  /\ \A k \in Caller : caller[k].pc # "idle" => now < caller[k].at + OpTime
  /\ now' = now + 1
  /\ UNCHANGED <<nameOf, lastSeen, nextSid, byName, touched, lock, caller, dropped,
                 lapsed, troubles>>

IdOfStep(k) ==
  \/ \E n \in Name : Call(k, n)
  \/ FindFresh(k)
  \/ BeginTouch(k)
  \/ TouchStored(k)
  \/ TouchFails(k)
  \/ BeginResolve(k)
  \/ Resolve(k)
  \/ ResolveFails(k)

RegistryNext ==
  \/ \E k \in Caller : IdOfStep(k) \/ Use(k)
  \/ \E cutoff \in Int : ReclaimDelete(cutoff)
  \/ ReclaimForget
  \/ ReclaimFails
  \/ RegistryRestart
  \/ Tick

RegistrySpec == RegistryInit /\ [][RegistryNext]_registryVars

--------------------------------------------------------------------------------
\* Every variable stays within its type.
RegistryTypeOK ==
  /\ now \in Nat
  /\ nameOf \in [Sid -> Name \cup {NoName}]
  /\ lastSeen \in [Sid -> Nat]
  /\ nextSid \in 1..(MaxSid + 1)
  /\ byName \in [Name -> Sid \cup {NoSid}]
  /\ touched \in [Sid -> Nat \cup {Never}]
  /\ lock \in Caller \cup {Retention, Free}
  /\ caller \in [Caller -> CallState]
  /\ dropped \subseteq Sid
  /\ lapsed \in BOOLEAN
  /\ troubles \in 0..MaxTroubles

\* "atomically with resolution" (service_registry.rs:90): whenever nobody is in
\* the middle of a reclamation, an id that the cache answers with is in the
\* table under that name, so no caller is handed a dropped id.
CacheMatchesTable ==
  lock # Retention =>
     \A n \in Name : byName[n] # NoSid => nameOf[byName[n]] = n

\* "Upper bound on how far last_seen_ms can trail a service's real activity"
\* (service_registry.rs:39): a caller that holds an id called id_of less than
\* the touch interval after the watermark in the table, or the row is gone.
WatermarkLagBounded ==
  \A k \in Caller : LET c == caller[k] IN
     c.pc = "got" /\ c.sid \in Interned => c.at - lastSeen[c.sid] < TouchInterval

\* The bound holds while every touch that was noted also reached the table.
LagBoundedUnlessLapsed ==
  ~lapsed /\ (\A k \in Caller : caller[k].pc # "touching") => WatermarkLagBounded

--------------------------------------------------------------------------------
(* The inductive invariant behind CacheMatchesTable and NoMisattribution
   (proved in DatabaseProofs). *)

\* A record kept under id s for service n is read as n's, or as nobody's.
Attributed(s, n) ==
  /\ s < nextSid
  /\ nameOf[s] \in {n, NoName}
  /\ \A m \in Name : byName[m] = s => m = n

\* The table: its ids have been handed out, and its names are unique.
TableInv ==
  /\ \A s \in Interned : s < nextSid
  /\ \A s, q \in Interned : nameOf[s] = nameOf[q] => s = q

\* The cache: an entry is in the table, or in what is being forgotten.
CacheInv ==
  /\ \A n \in Name : byName[n] # NoSid => nameOf[byName[n]] = n \/ byName[n] \in dropped
  /\ \A n \in Name : byName[n] # NoSid => Attributed(byName[n], n)
  /\ lock # Retention => dropped = {}

\* The callers: who is in the critical section holds the lock, and an id that
\* was found is the one of the name it was asked for.
CallInv ==
  \A k \in Caller : LET c == caller[k] IN
     /\ c.pc # "idle" => c.name \in Name
     /\ c.pc \in {"touching", "resolving"} => lock = k
     /\ c.pc \in {"touching", "got"} => c.sid \in Sid /\ Attributed(c.sid, c.name)

RegistryInv == RegistryTypeOK /\ TableInv /\ CacheInv /\ CallInv
================================================================================
