----------------------------- MODULE LogStorePools -----------------------------
(***************************************************************************)
(* SqliteLogStore's cache of open week databases: appends, queries and     *)
(* deletions under one lock per path, and the janitor, which closes pools  *)
(* without any of those locks.  An append or a query of several weeks is a *)
(* sequence of these operations.                                           *)
(***************************************************************************)
EXTENDS Naturals

CONSTANTS
  Path,   \* week database files
  Writer, Reader,  \* flushes that append, requests that query
  Retention,       \* the one task that deletes
  Lock, Cell, Inode,  \* identities, handed out when not in use
  Nil

ASSUME NilAssumption ==
  Nil \notin Lock \cup Cell \cup Inode \cup [inode : Inode, closed : BOOLEAN]

Op == Writer \cup Reader \cup {Retention}

VARIABLES
  file,     \* the inode a path names, or Nil
  rows,     \* the committed appends an inode holds, each known by its task
  locks,    \* operation_locks
  entries,  \* the cell of each cached path, or Nil
  pool,     \* what a cell holds: Nil until it is opened
  op,       \* the operation of each task
  swept,    \* cells the janitor has taken out of the cache and not closed yet
  closing,  \* the one of them whose close() the janitor awaits, or Nil
  split     \* history: paths whose lock was dropped while somebody waited for it

vars == <<file, rows, locks, entries, pool, op, swept, closing, split>>

Kind == {"append", "query", "delete"}
Idle(answer) == [pc |-> "idle", answer |-> answer]
Failed == [state |-> "idle"]
Ok == [state |-> "ok"]
Read(read) == [state |-> "read", rows |-> read]

Busy(o) == op[o].pc # "idle"
\* the statements of an operation that runs with the guard of lock_path
Holding == {"locked", "pooled", "open", "tx", "evicting", "unlinking", "forgetting"}
Holds(o) == op[o].pc \in Holding
LockOf(o) == IF op[o].pc \in Holding \cup {"waiting"} THEN op[o].lock ELSE Nil
CellOf(o) == IF op[o].pc \in {"pooled", "open", "tx", "evicting"} THEN op[o].cell ELSE Nil
\* a connection of the cell's pool is out: pools have one
InUse(c) == \E o \in Op : op[o].pc = "tx" /\ op[o].cell = c

Stored(p) == IF file[p] = Nil THEN {} ELSE rows[file[p]]

\* identities mean nothing, so one that is free stands for all of them
OneOf(S) == IF S = {} THEN {} ELSE {CHOOSE x \in S : TRUE}
FreshLock == OneOf(Lock \ ({locks[p] : p \in Path} \cup {LockOf(o) : o \in Op}))
FreshCell ==
  OneOf(Cell \ ({entries[p] : p \in Path} \cup {CellOf(o) : o \in Op} \cup swept \cup {closing}))
FreshInode ==
  OneOf(Inode \ ({file[p] : p \in Path}
                  \cup {pool[c].inode : c \in {d \in Cell : pool[d] # Nil}}))

Init ==
  /\ file = [p \in Path |-> Nil]
  /\ rows = [i \in Inode |-> {}]
  /\ locks = [p \in Path |-> Nil]
  /\ entries = [p \in Path |-> Nil]
  /\ pool = [c \in Cell |-> Nil]
  /\ op = [o \in Op |-> Idle(Failed)]
  /\ swept = {} /\ closing = Nil /\ split = {}

\* a pool nobody refers to is dropped and its connection closed, and an inode
\* without a name or an open pool is freed
Referenced == {entries'[p] : p \in Path} \cup {CellOf(o)' : o \in Op} \cup swept' \cup {closing'}
OpenOrNamed(i) ==
  (\E p \in Path : file'[p] = i) \/ (\E c \in Cell : pool'[c] # Nil /\ pool'[c].inode = i)
Dropping(pools, contents) ==
  /\ pool' = [c \in Cell |-> IF c \in Referenced THEN pools[c] ELSE Nil]
  /\ rows' = [i \in Inode |-> IF OpenOrNamed(i) THEN contents[i] ELSE {}]

Goes(o, pc) == op' = [op EXCEPT ![o].pc = pc]
\* the guard is dropped when the operation returns
Returns(o, answer) == op' = [op EXCEPT ![o] = Idle(answer)]

---------------------------------------------------------------------------
(* append, query and delete_before                                         *)

\* Both a query and a deletion come to a path from a directory listing.  A
\* task appends once to each file.  As a bound, a path whose lock was dropped
\* under a waiter, of which nothing is promised any more, is not deleted again.
Call(o, kind) ==
  /\ ~Busy(o)
  /\ \E p \in Path :
       /\ kind # "append" => file[p] # Nil
       /\ kind = "append" => o \notin Stored(p)
       /\ kind = "delete" => p \notin split
       /\ op' = [op EXCEPT ![o] = [pc |-> "called", kind |-> kind, path |-> p,
                                   lock |-> Nil, cell |-> Nil]]
  /\ UNCHANGED <<file, rows, locks, entries, pool, swept, closing, split>>

Append == \E o \in Writer : Call(o, "append")
Query == \E o \in Reader : Call(o, "query")
DeleteBefore == Call(Retention, "delete")

\* mutant: every operation puts a lock of its own into the map
LockPathAnew(o) ==
  /\ op[o].pc = "called"
  /\ \E l \in FreshLock :
       /\ locks' = [locks EXCEPT ![op[o].path] = l]
       /\ op' = [op EXCEPT ![o].pc = "waiting", ![o].lock = l]
  /\ UNCHANGED <<file, rows, entries, pool, swept, closing, split>>

\* lock_path takes the path's lock object out of the map, or puts one there
LockPath(o) ==
  /\ op[o].pc = "called"
  /\ LET p == op[o].path
     IN \E l \in (IF locks[p] # Nil THEN {locks[p]} ELSE FreshLock) :
          /\ locks' = [locks EXCEPT ![p] = l]
          /\ op' = [op EXCEPT ![o].pc = "waiting", ![o].lock = l]
  /\ UNCHANGED <<file, rows, entries, pool, swept, closing, split>>

\* mutant: the guard is not awaited
AcquireAtOnce(o) ==
  /\ op[o].pc = "waiting"
  /\ Goes(o, "locked")
  /\ UNCHANGED <<file, rows, locks, entries, pool, swept, closing, split>>

Acquire(o) ==
  /\ op[o].pc = "waiting"
  /\ \A q \in Op : Holds(q) => op[q].lock # op[o].lock
  /\ Goes(o, "locked")
  /\ UNCHANGED <<file, rows, locks, entries, pool, swept, closing, split>>

\* the part of pool() under the lock of the cache
FetchCell(o) ==
  /\ op[o].pc = "locked" /\ op[o].kind # "delete"
  /\ LET p == op[o].path
     IN \E c \in (IF entries[p] # Nil THEN {entries[p]} ELSE FreshCell) :
          /\ entries' = [entries EXCEPT ![p] = c]
          /\ op' = [op EXCEPT ![o].pc = "pooled", ![o].cell = c]
  /\ UNCHANGED <<file, rows, locks, pool, swept, closing, split>>

\* opening creates the file when there is none
Create(p, i) ==
  /\ i \in (IF file[p] # Nil THEN {file[p]} ELSE FreshInode)
  /\ file' = [file EXCEPT ![p] = i]

OpenDatabase(o) ==
  /\ op[o].pc = "pooled"
  /\ LET c == op[o].cell
     IN IF pool[c] # Nil
        THEN UNCHANGED <<file, pool>>
        ELSE \E i \in Inode :
               /\ Create(op[o].path, i)
               /\ pool' = [pool EXCEPT ![c] = [inode |-> i, closed |-> FALSE]]
  /\ Goes(o, "open")
  /\ UNCHANGED <<rows, locks, entries, swept, closing, split>>

\* the cell stays in the cache, not opened, and the next operation tries again
OpenFails(o) ==
  /\ op[o].pc = "pooled" /\ pool[op[o].cell] = Nil
  /\ \/ UNCHANGED file
     \/ \E i \in Inode : Create(op[o].path, i)  \* opened, and migrate failed
  /\ Returns(o, Failed)
  /\ UNCHANGED <<locks, entries, swept, closing, split>>
  /\ Dropping(pool, rows)

\* the connection is handed out unless the pool is closed
Begin(o) ==
  /\ op[o].pc = "open"
  /\ ~pool[op[o].cell].closed /\ ~InUse(op[o].cell)
  /\ Goes(o, "tx")
  /\ UNCHANGED <<file, rows, locks, entries, pool, swept, closing, split>>

\* mutant: a closed pool keeps its callers waiting
BeginHangs(o) == op[o].pc = "open" /\ FALSE /\ UNCHANGED vars

BeginFails(o) ==
  /\ op[o].pc = "open"
  /\ pool[op[o].cell].closed
  /\ Returns(o, Failed)
  /\ UNCHANGED <<file, locks, entries, swept, closing, split>>
  /\ Dropping(pool, rows)

\* a transaction that began commits even if the pool is closed meanwhile
Finish(o) ==
  /\ op[o].pc = "tx"
  /\ UNCHANGED <<file, locks, entries, swept, closing, split>>
  /\ LET i == pool[op[o].cell].inode
     IN \/ /\ op[o].kind = "append"
           /\ Returns(o, Ok)
           /\ Dropping(pool, [rows EXCEPT ![i] = @ \cup {o}])
        \/ /\ op[o].kind = "query"
           /\ Returns(o, Read(rows[i]))
           /\ Dropping(pool, rows)
        \/ /\ Returns(o, Failed)
           /\ Dropping(pool, rows)

Closed(pools, c) ==
  IF c # Nil /\ pools[c] # Nil THEN [pools EXCEPT ![c].closed = TRUE] ELSE pools

\* mutant: the file is unlinked with its pool in the cache
EvictNothing(o) ==
  /\ op[o].pc = "locked" /\ op[o].kind = "delete"
  /\ Goes(o, "unlinking")
  /\ UNCHANGED <<file, rows, locks, entries, pool, swept, closing, split>>

\* evict: out of the cache first, then close()
Evict(o) ==
  /\ op[o].pc = "locked" /\ op[o].kind = "delete"
  /\ LET p == op[o].path
     IN /\ entries' = [entries EXCEPT ![p] = Nil]
        /\ op' = [op EXCEPT ![o].pc = "evicting", ![o].cell = entries[p]]
        /\ pool' = Closed(pool, entries[p])
  /\ UNCHANGED <<file, rows, locks, swept, closing, split>>

\* close() returns when every connection has come back
EvictEnds(o) ==
  /\ op[o].pc = "evicting"
  /\ ~InUse(op[o].cell)
  /\ op' = [op EXCEPT ![o].pc = "unlinking", ![o].cell = Nil]
  /\ UNCHANGED <<file, locks, entries, swept, closing, split>>
  /\ Dropping(pool, rows)

RemoveFile(o) ==
  /\ op[o].pc = "unlinking"
  /\ \/ /\ file' = [file EXCEPT ![op[o].path] = Nil]
        /\ Goes(o, "forgetting")
     \/ /\ Returns(o, Failed)
        /\ UNCHANGED file
  /\ UNCHANGED <<locks, entries, swept, closing, split>>
  /\ Dropping(pool, rows)

ForgetPath(o) ==
  /\ op[o].pc = "forgetting"
  /\ LET p == op[o].path
     IN /\ locks' = [locks EXCEPT ![p] = Nil]
        /\ split' = IF \E q \in Op \ {o} : LockOf(q) # Nil /\ op[q].path = p
                    THEN split \cup {p} ELSE split
  /\ Returns(o, Ok)
  /\ UNCHANGED <<file, rows, entries, pool, swept, closing>>

---------------------------------------------------------------------------
(* The janitor's sweep, and close_all at shutdown                          *)

\* mutant: the entries stay in the cache until they are closed
SweepLeavesEntries ==
  /\ swept = {} /\ closing = Nil
  /\ \E ps \in SUBSET {p \in Path : entries[p] # Nil} :
       ps # {} /\ swept' = {entries[p] : p \in ps}
  /\ UNCHANGED <<file, rows, locks, entries, pool, op, closing, split>>

\* any entry may be past its keep-alive, also one in use
Sweep ==
  /\ swept = {} /\ closing = Nil
  /\ \E ps \in SUBSET {p \in Path : entries[p] # Nil} :
       /\ ps # {}
       /\ swept' = {entries[p] : p \in ps}
       /\ entries' = [p \in Path |-> IF p \in ps THEN Nil ELSE entries[p]]
  /\ UNCHANGED <<file, rows, locks, pool, op, closing, split>>

CloseEntry ==
  /\ closing = Nil
  /\ \E c \in swept :
       /\ swept' = swept \ {c}
       /\ IF pool[c] = Nil  \* not opened: nothing to close
          THEN UNCHANGED closing
          ELSE closing' = c
       /\ pool' = Closed(pool, c)
  /\ UNCHANGED <<file, rows, locks, entries, op, split>>

CloseEnds ==
  /\ closing # Nil
  /\ ~InUse(closing)
  /\ closing' = Nil
  /\ UNCHANGED <<file, locks, entries, op, swept, split>>
  /\ Dropping(pool, rows)

---------------------------------------------------------------------------
Runs(o) ==
  \/ LockPath(o) \/ Acquire(o) \/ FetchCell(o)
  \/ OpenDatabase(o) \/ OpenFails(o) \/ Begin(o) \/ BeginFails(o) \/ Finish(o)
  \/ Evict(o) \/ EvictEnds(o) \/ RemoveFile(o) \/ ForgetPath(o)

Next ==
  \/ Append \/ Query \/ DeleteBefore
  \/ \E o \in Op : Runs(o)
  \/ Sweep \/ CloseEntry \/ CloseEnds

Spec == Init /\ [][Next]_vars

\* Every task goes on.  Fairness is strong because both tokio's mutexes and
\* sqlx's pools serve their waiters in order.
Fairness == (\A o \in Op : SF_vars(Runs(o))) /\ WF_vars(CloseEntry \/ CloseEnds)

LiveSpec == Spec /\ Fairness

---------------------------------------------------------------------------
(* Properties                                                              *)

\* A lock is held once, and whoever has or awaits the lock of a path has the one
\* in the map, as long as no deletion has dropped it under a waiter.
LockHeldOnce == \A o, q \in Op : Holds(o) /\ Holds(q) /\ op[o].lock = op[q].lock => o = q

LockIsThePaths ==
  \A o \in Op : LockOf(o) # Nil /\ op[o].path \notin split => op[o].lock = locks[op[o].path]

\* A cell is cached for one path, and used by operations on that path.
CellHasOnePath ==
  /\ \A p, q \in Path : entries[p] # Nil /\ entries[p] = entries[q] => p = q
  /\ \A p \in Path, o \in Op :
       entries[p] # Nil /\ CellOf(o) = entries[p] => op[o].path = p /\ op[o].pc # "evicting"

\* A pool that nobody refers to any more is gone.
PoolIsReferenced ==
  \A c \in Cell : pool[c] # Nil =>
    (\E p \in Path : entries[p] = c) \/ (\E o \in Op : CellOf(o) = c) \/ c \in swept \/ c = closing

\* While a deletion is about to unlink a file its path is not cached.
EvictedIsUncached ==
  \A o \in Op :
    op[o].pc \in {"evicting", "unlinking", "forgetting"} /\ op[o].path \notin split
      => entries[op[o].path] = Nil

\* A file has one name, and what is not named and not open is empty.
FilesHaveOneName ==
  /\ \A p, q \in Path : file[p] # Nil /\ file[p] = file[q] => p = q
  /\ \A i \in Inode :
       (\A p \in Path : file[p] # i) /\ (\A c \in Cell : pool[c] = Nil \/ pool[c].inode # i)
         => rows[i] = {}

\* A cell is fetched for one path, whose file no other path names, and unless
\* the path's lock was dropped under a waiter an operation is on that file.
PoolIsOnFile ==
  /\ \A o, r \in Op : CellOf(o) # Nil /\ CellOf(o) = CellOf(r) => op[o].path = op[r].path
  /\ \A o \in Op : CellOf(o) # Nil /\ pool[CellOf(o)] # Nil =>
       /\ \A q \in Path \ {op[o].path} : file[q] # pool[CellOf(o)].inode
       /\ op[o].path \notin split => file[op[o].path] = pool[CellOf(o)].inode
  /\ \A p \in Path : entries[p] # Nil /\ pool[entries[p]] # Nil =>
       \A q \in Path \ {p} : file[q] # pool[entries[p]].inode
  /\ \A o \in Op : op[o].pc \in {"open", "tx"} => pool[op[o].cell] # Nil

\* One operation at a time works on a path, as long as no deletion has
\* dropped the path's lock under a waiter.
OnePerPath ==
  \A o, q \in Op :
    Holds(o) /\ Holds(q) /\ op[o].path = op[q].path /\ op[o].path \notin split => o = q

\* The cache never hands out a pool that is closed, or will be: an operation
\* finds its pool closed only if the janitor took it after the operation did.
\* And it is on the file its path names, never on a deleted one.
CachedIsUsable ==
  \A p \in Path :
    entries[p] # Nil =>
      /\ entries[p] \notin swept /\ entries[p] # closing
      /\ pool[entries[p]] # Nil =>
           /\ ~pool[entries[p]].closed
           /\ p \notin split => pool[entries[p]].inode = file[p]

\* When a file is unlinked no pool is open on it, but for one the janitor is
\* about to close: "the open descriptor keeps it alive".
UnlinkedIsClosed ==
  [][\A p \in Path :
       file[p] # Nil /\ file'[p] # file[p] /\ p \notin split
         => \A c \in Cell : pool[c] # Nil /\ pool[c].inode = file[p]
                            => c \in swept \/ c = closing]_vars

\* what the store has promised, of an operation and of a file
Doing(o) ==
  IF Busy(o) THEN [state |-> "pending", kind |-> op[o].kind, path |-> op[o].path]
  ELSE op[o].answer

Files == INSTANCE WeekFiles WITH
  Op <- Op,
  stored <- [p \in Path |-> Stored(p)],
  call <- [o \in Op |-> Doing(o)],
  loose <- split

\* Whatever the janitor and retention do, the week files are linearizable: an
\* answered append is in the file until the file is deleted, a query sees it.
Linearizable == Files!Spec

\* Every operation is answered: neither waiting for a lock nor for a close()
\* goes on forever.
EveryCallReturns == \A o \in Op : Busy(o) ~> ~Busy(o)
================================================================================
