-------------------------- MODULE LogStorePoolsProofs --------------------------
(***************************************************************************)
(* Proofs about the log store's pool cache, for any paths, flushes and     *)
(* requests.                                                               *)
(***************************************************************************)
EXTENDS LogStorePools, TLAPS

\* the statements of an operation that was called
Statement == Holding \cup {"called", "waiting"}

Called == [pc : Statement, kind : Kind, path : Path, lock : Lock \cup {Nil}, cell : Cell \cup {Nil}]

\* what the steps need to know of an operation
OpsOK ==
  /\ DOMAIN op = Op
  /\ \A o \in Op :
       /\ op[o].pc = "idle" \/ op[o] \in Called
       /\ op[o].pc \in Holding \cup {"waiting"} => op[o].lock \in Lock
       /\ op[o].pc \in {"pooled", "open", "tx"} => op[o].cell \in Cell

MapsOK ==
  /\ locks \in [Path -> Lock \cup {Nil}]
  /\ entries \in [Path -> Cell \cup {Nil}]

LEMMA OpsInit == Init => OpsOK /\ MapsOK
BY DEF Init, OpsOK, MapsOK, Idle, Holding

\* a lock or a cell that is handed out is nobody's
LEMMA FreshLocks == \A l \in FreshLock : l \in Lock /\ (\A o \in Op : LockOf(o) # l)
BY DEF FreshLock, OneOf

LEMMA FreshCells ==
  \A c \in FreshCell :
    /\ c \in Cell /\ c \notin swept /\ c # closing
    /\ \A p \in Path : entries[p] # c
    /\ \A o \in Op : CellOf(o) # c
BY DEF FreshCell, OneOf

LEMMA OpsStep == OpsOK /\ MapsOK /\ [Next]_vars => OpsOK' /\ MapsOK'
<1> SUFFICES ASSUME OpsOK, MapsOK, [Next]_vars PROVE OpsOK' /\ MapsOK'
  OBVIOUS
<1> USE DEF OpsOK, MapsOK, Called, Statement, Holding, Kind
<1>1. ASSUME NEW o \in Op, NEW kind \in Kind, Call(o, kind) PROVE OpsOK' /\ MapsOK'
  BY <1>1 DEF Call
<1>2. ASSUME NEW o \in Op, LockPath(o) PROVE OpsOK' /\ MapsOK'
  <2>1. PICK l \in Lock : op' = [op EXCEPT ![o].pc = "waiting", ![o].lock = l]
                     /\ locks' = [locks EXCEPT ![op[o].path] = l]
    <3>1. op[o] \in Called
      BY <1>2 DEF LockPath
    <3>2. locks[op[o].path] \in Lock \cup {Nil}
      BY <3>1
    <3>3. PICK l \in (IF locks[op[o].path] # Nil THEN {locks[op[o].path]} ELSE FreshLock) :
            /\ op' = [op EXCEPT ![o].pc = "waiting", ![o].lock = l]
            /\ locks' = [locks EXCEPT ![op[o].path] = l]
      BY <1>2 DEF LockPath
    <3> QED BY <3>2, <3>3, FreshLocks
  <2>2. op[o] \in Called /\ DOMAIN op = Op
    BY <1>2 DEF LockPath
  <2>3. /\ op'[o] = [op[o] EXCEPT !.pc = "waiting", !.lock = l]
        /\ (\A q \in Op \ {o} : op'[q] = op[q]) /\ DOMAIN op' = Op
    BY <2>1, <2>2
  <2>4. op'[o] \in Called /\ op'[o].pc = "waiting" /\ op'[o].lock \in Lock
    BY <2>1, <2>2, <2>3
  <2>5. OpsOK'
    BY <2>3, <2>4
  <2>6. MapsOK'
    BY FreshLocks, <1>2, <2>1 DEF LockPath
  <2> QED BY <2>5, <2>6
<1>3. ASSUME NEW o \in Op, Acquire(o) PROVE OpsOK' /\ MapsOK'
  BY <1>3 DEF Acquire, Goes
<1>4. ASSUME NEW o \in Op, FetchCell(o) PROVE OpsOK' /\ MapsOK'
  <2>1. PICK c \in Cell : op' = [op EXCEPT ![o].pc = "pooled", ![o].cell = c]
                     /\ entries' = [entries EXCEPT ![op[o].path] = c]
    <3>1. op[o] \in Called
      BY <1>4 DEF FetchCell
    <3>2. entries[op[o].path] \in Cell \cup {Nil}
      BY <3>1
    <3>3. PICK c \in (IF entries[op[o].path] # Nil THEN {entries[op[o].path]} ELSE FreshCell) :
            /\ op' = [op EXCEPT ![o].pc = "pooled", ![o].cell = c]
            /\ entries' = [entries EXCEPT ![op[o].path] = c]
      BY <1>4 DEF FetchCell
    <3> QED BY <3>2, <3>3, FreshCells
  <2>2. op[o] \in Called /\ DOMAIN op = Op /\ op[o].lock \in Lock
    BY <1>4 DEF FetchCell
  <2>3. /\ op'[o] = [op[o] EXCEPT !.pc = "pooled", !.cell = c]
        /\ (\A q \in Op \ {o} : op'[q] = op[q]) /\ DOMAIN op' = Op
    BY <2>1, <2>2
  <2>4. op'[o] \in Called /\ op'[o].pc = "pooled" /\ op'[o].lock \in Lock /\ op'[o].cell \in Cell
    BY <2>1, <2>2, <2>3
  <2>5. OpsOK'
    BY <2>3, <2>4
  <2>6. MapsOK'
    BY FreshCells, <1>4, <2>1 DEF FetchCell
  <2> QED BY <2>5, <2>6
<1>5. ASSUME NEW o \in Op, OpenDatabase(o) PROVE OpsOK' /\ MapsOK'
  BY <1>5 DEF OpenDatabase, Goes
<1>6. ASSUME NEW o \in Op, OpenFails(o) PROVE OpsOK' /\ MapsOK'
  BY <1>6 DEF OpenFails, Returns, Idle
<1>7. ASSUME NEW o \in Op, Begin(o) PROVE OpsOK' /\ MapsOK'
  BY <1>7 DEF Begin, Goes
<1>8. ASSUME NEW o \in Op, BeginFails(o) PROVE OpsOK' /\ MapsOK'
  BY <1>8 DEF BeginFails, Returns, Idle
<1>9. ASSUME NEW o \in Op, Finish(o) PROVE OpsOK' /\ MapsOK'
  BY <1>9 DEF Finish, Returns, Idle
<1>10. ASSUME NEW o \in Op, Evict(o) PROVE OpsOK' /\ MapsOK'
  <2>1. op' = [op EXCEPT ![o].pc = "evicting", ![o].cell = entries[op[o].path]]
    BY <1>10 DEF Evict
  <2>2. op[o] \in Called /\ DOMAIN op = Op /\ op[o].lock \in Lock
    BY <1>10 DEF Evict
  <2>3. /\ op'[o] = [op[o] EXCEPT !.pc = "evicting", !.cell = entries[op[o].path]]
        /\ (\A q \in Op \ {o} : op'[q] = op[q]) /\ DOMAIN op' = Op
    BY <2>1, <2>2
  <2>4. op'[o] \in Called /\ op'[o].pc = "evicting" /\ op'[o].lock \in Lock
    BY <2>1, <2>2, <2>3
  <2>5. OpsOK'
    BY <2>3, <2>4
  <2>6. MapsOK'
    BY <1>10, <2>1 DEF Evict
  <2> QED BY <2>5, <2>6
<1>11. ASSUME NEW o \in Op, EvictEnds(o) PROVE OpsOK' /\ MapsOK'
  <2>1. op' = [op EXCEPT ![o].pc = "unlinking", ![o].cell = Nil]
    BY <1>11 DEF EvictEnds
  <2>2. op[o] \in Called /\ DOMAIN op = Op /\ op[o].lock \in Lock
    BY <1>11 DEF EvictEnds
  <2>3. /\ op'[o] = [op[o] EXCEPT !.pc = "unlinking", !.cell = Nil]
        /\ (\A q \in Op \ {o} : op'[q] = op[q]) /\ DOMAIN op' = Op
    BY <2>1, <2>2
  <2>4. op'[o] \in Called /\ op'[o].pc = "unlinking" /\ op'[o].lock \in Lock
    BY <2>1, <2>2, <2>3
  <2>5. OpsOK'
    BY <2>3, <2>4
  <2>6. MapsOK'
    BY <1>11, <2>1 DEF EvictEnds
  <2> QED BY <2>5, <2>6
<1>12. ASSUME NEW o \in Op, RemoveFile(o) PROVE OpsOK' /\ MapsOK'
  BY <1>12 DEF RemoveFile, Goes, Returns, Idle
<1>13. ASSUME NEW o \in Op, ForgetPath(o) PROVE OpsOK' /\ MapsOK'
  BY <1>13 DEF ForgetPath, Returns, Idle
<1>14. CASE Sweep
  BY <1>14 DEF Sweep
<1>15. CASE CloseEntry
  BY <1>15 DEF CloseEntry
<1>16. CASE CloseEnds
  BY <1>16 DEF CloseEnds
<1>17. CASE UNCHANGED vars
  BY <1>17 DEF vars
<1> QED
  BY <1>1, <1>2, <1>3, <1>4, <1>5, <1>6, <1>7, <1>8, <1>9, <1>10,
     <1>11, <1>12, <1>13, <1>14, <1>15, <1>16, <1>17
  DEF Next, Runs, Append, Query, DeleteBefore, Op, Kind

---------------------------------------------------------------------------
(* Mutual exclusion                                                        *)

LockInv == LockHeldOnce /\ LockIsThePaths

LEMMA LockInit == Init => LockInv
BY DEF Init, LockInv, LockHeldOnce, LockIsThePaths, LockOf, Holds, Holding, Idle

LEMMA LockStep == OpsOK /\ MapsOK /\ LockInv /\ [Next]_vars => LockInv'
<1> SUFFICES ASSUME OpsOK, MapsOK, LockInv, [Next]_vars PROVE LockInv'
  OBVIOUS
<1> USE NilAssumption DEF OpsOK, MapsOK, Called, Statement, Holding, LockInv, LockHeldOnce,
                          LockIsThePaths, LockOf, Holds
<1>1. ASSUME NEW o \in Op, NEW kind \in Kind, Call(o, kind) PROVE LockInv'
  BY <1>1 DEF Call
<1>2. ASSUME NEW o \in Op, LockPath(o) PROVE LockInv'
  BY FreshLocks, <1>2 DEF LockPath
<1>3. ASSUME NEW o \in Op, Acquire(o) PROVE LockInv'
  BY <1>3 DEF Acquire, Goes
<1>4. ASSUME NEW o \in Op, FetchCell(o) PROVE LockInv'
  BY <1>4 DEF FetchCell
<1>5. ASSUME NEW o \in Op, OpenDatabase(o) PROVE LockInv'
  BY <1>5 DEF OpenDatabase, Goes
<1>6. ASSUME NEW o \in Op, OpenFails(o) PROVE LockInv'
  BY <1>6 DEF OpenFails, Returns, Idle
<1>7. ASSUME NEW o \in Op, Begin(o) PROVE LockInv'
  BY <1>7 DEF Begin, Goes
<1>8. ASSUME NEW o \in Op, BeginFails(o) PROVE LockInv'
  BY <1>8 DEF BeginFails, Returns, Idle
<1>9. ASSUME NEW o \in Op, Finish(o) PROVE LockInv'
  BY <1>9 DEF Finish, Returns, Idle
<1>10. ASSUME NEW o \in Op, Evict(o) PROVE LockInv'
  BY <1>10 DEF Evict
<1>11. ASSUME NEW o \in Op, EvictEnds(o) PROVE LockInv'
  BY <1>11 DEF EvictEnds
<1>12. ASSUME NEW o \in Op, RemoveFile(o) PROVE LockInv'
  BY <1>12 DEF RemoveFile, Goes, Returns, Idle
<1>13. ASSUME NEW o \in Op, ForgetPath(o) PROVE LockInv'
  BY <1>13 DEF ForgetPath, Returns, Idle
<1>14. CASE Sweep
  BY <1>14 DEF Sweep
<1>15. CASE CloseEntry
  BY <1>15 DEF CloseEntry
<1>16. CASE CloseEnds
  BY <1>16 DEF CloseEnds
<1>17. CASE UNCHANGED vars
  BY <1>17 DEF vars
<1> QED
  BY <1>1, <1>2, <1>3, <1>4, <1>5, <1>6, <1>7, <1>8, <1>9, <1>10,
     <1>11, <1>12, <1>13, <1>14, <1>15, <1>16, <1>17
  DEF Next, Runs, Append, Query, DeleteBefore, Op, Kind

LEMMA ExclusionFromLocks == OpsOK /\ LockInv => OnePerPath
BY NilAssumption DEF OpsOK, LockInv, LockHeldOnce, LockIsThePaths, LockOf, Holds, OnePerPath

\* One operation at a time works on a path, for any paths and tasks, until a
\* deletion has dropped the path's lock under a waiter.
THEOREM OneAtATime == Spec => []OnePerPath
<1>1. Init => OpsOK /\ MapsOK /\ LockInv
  BY OpsInit, LockInit
<1>2. OpsOK /\ MapsOK /\ LockInv /\ [Next]_vars => (OpsOK /\ MapsOK /\ LockInv)'
  BY OpsStep, LockStep
<1>3. OpsOK /\ LockInv => OnePerPath
  BY ExclusionFromLocks
<1> QED BY <1>1, <1>2, <1>3, PTL DEF Spec
---------------------------------------------------------------------------
(* The cache                                                               *)

PoolsOK ==
  /\ pool \in [Cell -> {Nil} \cup [inode : Inode, closed : BOOLEAN]]
  /\ file \in [Path -> Inode \cup {Nil}]
  /\ swept \subseteq Cell /\ closing \in Cell \cup {Nil} /\ split \subseteq Path

CellInv == CachedIsUsable /\ CellHasOnePath /\ PoolIsReferenced /\ EvictedIsUncached

LEMMA CellInit == Init => PoolsOK /\ CellInv
BY DEF Init, PoolsOK, CellInv, CachedIsUsable, CellHasOnePath, PoolIsReferenced,
       EvictedIsUncached, Idle

LEMMA ClosedPools ==
  ASSUME PoolsOK, NEW c \in Cell \cup {Nil}
  PROVE  Closed(pool, c) \in [Cell -> {Nil} \cup [inode : Inode, closed : BOOLEAN]]
<1>1. CASE c # Nil /\ pool[c] # Nil
  <2>1. pool[c] \in [inode : Inode, closed : BOOLEAN]
    BY <1>1 DEF PoolsOK
  <2>2. [pool[c] EXCEPT !.closed = TRUE] \in [inode : Inode, closed : BOOLEAN]
    BY <2>1
  <2>3. Closed(pool, c) = [pool EXCEPT ![c] = [pool[c] EXCEPT !.closed = TRUE]]
    BY <1>1 DEF Closed
  <2> QED BY <1>1, <2>2, <2>3 DEF PoolsOK
<1>2. CASE ~(c # Nil /\ pool[c] # Nil)
  BY <1>2 DEF Closed, PoolsOK
<1> QED BY <1>1, <1>2

LEMMA PoolsStep == OpsOK /\ MapsOK /\ PoolsOK /\ [Next]_vars => PoolsOK'
<1> SUFFICES ASSUME OpsOK, MapsOK, PoolsOK, [Next]_vars PROVE PoolsOK'
  OBVIOUS
<1> USE DEF OpsOK, MapsOK, PoolsOK, Called, Statement, Holding, Dropping
<1>1. ASSUME NEW o \in Op, NEW kind \in Kind, Call(o, kind) PROVE PoolsOK'
  BY <1>1 DEF Call
<1>2. ASSUME NEW o \in Op, LockPath(o) PROVE PoolsOK'
  BY <1>2 DEF LockPath
<1>3. ASSUME NEW o \in Op, Acquire(o) PROVE PoolsOK'
  BY <1>3 DEF Acquire, Goes
<1>4. ASSUME NEW o \in Op, FetchCell(o) PROVE PoolsOK'
  BY <1>4 DEF FetchCell
<1>5. ASSUME NEW o \in Op, OpenDatabase(o) PROVE PoolsOK'
  <2>1. op[o].path \in Path /\ op[o].cell \in Cell
    BY <1>5 DEF OpenDatabase
  <2>2. UNCHANGED <<swept, closing, split>>
    BY <1>5 DEF OpenDatabase
  <2>3. CASE UNCHANGED <<file, pool>>
    BY <2>2, <2>3
  <2>4. ASSUME NEW i \in Inode, file' = [file EXCEPT ![op[o].path] = i],
               pool' = [pool EXCEPT ![op[o].cell] = [inode |-> i, closed |-> FALSE]]
        PROVE  PoolsOK'
    BY <2>1, <2>2, <2>4
  <2> QED BY <1>5, <2>3, <2>4 DEF OpenDatabase, Create
<1>6. ASSUME NEW o \in Op, OpenFails(o) PROVE PoolsOK'
  BY <1>6 DEF OpenFails, Returns, Idle, Create
<1>7. ASSUME NEW o \in Op, Begin(o) PROVE PoolsOK'
  BY <1>7 DEF Begin, Goes
<1>8. ASSUME NEW o \in Op, BeginFails(o) PROVE PoolsOK'
  BY <1>8 DEF BeginFails, Returns, Idle
<1>9. ASSUME NEW o \in Op, Finish(o) PROVE PoolsOK'
  BY <1>9 DEF Finish, Returns, Idle
<1>10. ASSUME NEW o \in Op, Evict(o) PROVE PoolsOK'
  <2>1. entries[op[o].path] \in Cell \cup {Nil}
    BY <1>10 DEF Evict
  <2> QED BY <1>10, <2>1, ClosedPools DEF Evict
<1>11. ASSUME NEW o \in Op, EvictEnds(o) PROVE PoolsOK'
  BY <1>11 DEF EvictEnds
<1>12. ASSUME NEW o \in Op, RemoveFile(o) PROVE PoolsOK'
  BY <1>12 DEF RemoveFile, Goes, Returns, Idle
<1>13. ASSUME NEW o \in Op, ForgetPath(o) PROVE PoolsOK'
  BY <1>13 DEF ForgetPath, Returns, Idle
<1>14. CASE Sweep
  BY <1>14 DEF Sweep
<1>15. CASE CloseEntry
  <2>1. PICK c \in swept : /\ swept' = swept \ {c} /\ pool' = Closed(pool, c)
                          /\ closing' \in {closing, c}
    BY <1>15 DEF CloseEntry
  <2> QED BY <1>15, <2>1, ClosedPools DEF CloseEntry
<1>16. CASE CloseEnds
  BY <1>16 DEF CloseEnds
<1>17. CASE UNCHANGED vars
  BY <1>17 DEF vars
<1> QED
  BY <1>1, <1>2, <1>3, <1>4, <1>5, <1>6, <1>7, <1>8, <1>9, <1>10,
     <1>11, <1>12, <1>13, <1>14, <1>15, <1>16, <1>17
  DEF Next, Runs, Append, Query, DeleteBefore, Op, Kind

LEMMA ClosingKeepsFiles ==
  ASSUME PoolsOK, NEW c \in Cell \cup {Nil}, pool' = Closed(pool, c)
  PROVE  \A d \in Cell : /\ pool'[d] = Nil <=> pool[d] = Nil
                         /\ pool'[d] # Nil => pool'[d].inode = pool[d].inode
                         /\ d # c => pool'[d] = pool[d]
<1>1. CASE c # Nil /\ pool[c] # Nil
  <2>1. pool[c] \in [inode : Inode, closed : BOOLEAN]
    BY <1>1 DEF PoolsOK
  <2>2. /\ [pool[c] EXCEPT !.closed = TRUE].inode = pool[c].inode
        /\ [pool[c] EXCEPT !.closed = TRUE] # Nil
    BY <2>1, NilAssumption
  <2>3. pool' = [pool EXCEPT ![c] = [pool[c] EXCEPT !.closed = TRUE]]
    BY <1>1 DEF Closed
  <2> QED BY <1>1, <2>2, <2>3 DEF PoolsOK
<1>2. CASE ~(c # Nil /\ pool[c] # Nil)
  BY <1>2 DEF Closed
<1> QED BY <1>1, <1>2

\* That nothing else fetches a path's cell between its eviction and the unlink
\* is OnePerPath.
LEMMA CellStep ==
  ASSUME OpsOK, OpsOK', MapsOK, PoolsOK, PoolsOK', OnePerPath, CellInv, [Next]_vars
  PROVE  CellInv'
<1> USE NilAssumption DEF OpsOK, MapsOK, PoolsOK, Called, Statement, Holding, Holds, CellOf,
                          CellInv, CachedIsUsable, CellHasOnePath, PoolIsReferenced,
                          EvictedIsUncached, OnePerPath
<1>1. ASSUME NEW o \in Op, NEW kind \in Kind, Call(o, kind) PROVE CellInv'
  <2>1. /\ op[o].pc = "idle" /\ DOMAIN op = Op
        /\ UNCHANGED <<file, pool, entries, swept, closing, split>>
    BY <1>1 DEF Call, Busy
  <2>2. PICK p \in Path : op' = [op EXCEPT ![o] = [pc |-> "called", kind |-> kind, path |-> p,
                                                 lock |-> Nil, cell |-> Nil]]
    BY <1>1 DEF Call
  <2>3. op'[o].pc = "called" /\ (\A q \in Op \ {o} : op'[q] = op[q])
    BY <2>1, <2>2
  <2>4. \A q \in Op : CellOf(q)' = CellOf(q)
    BY <2>1, <2>3
  <2>5. CachedIsUsable' /\ PoolIsReferenced'
    BY <2>1, <2>4
  <2>6. CellHasOnePath' /\ EvictedIsUncached'
    BY <2>1, <2>3
  <2> QED BY <2>5, <2>6
<1>2. ASSUME NEW o \in Op, LockPath(o) PROVE CellInv'
  BY <1>2 DEF LockPath
<1>3. ASSUME NEW o \in Op, Acquire(o) PROVE CellInv'
  BY <1>3 DEF Acquire, Goes
<1>4. ASSUME NEW o \in Op, FetchCell(o) PROVE CellInv'
  BY FreshCells, <1>4 DEF FetchCell
<1>5. ASSUME NEW o \in Op, OpenDatabase(o) PROVE CellInv'
  <2>1. /\ op[o].path \in Path /\ op[o].cell \in Cell /\ op[o].pc = "pooled" /\ DOMAIN op = Op
        /\ op[o] \in Called /\ UNCHANGED <<entries, swept, closing, split>>
        /\ op' = [op EXCEPT ![o].pc = "open"]
    BY <1>5 DEF OpenDatabase, Goes
  <2>2. /\ \A q \in Op : CellOf(q)' = CellOf(q)
        /\ \A q \in Op : op'[q].pc # "idle" => op'[q].path = op[q].path
        /\ \A q \in Op : op'[q].pc \in {"evicting", "unlinking", "forgetting"} => op'[q] = op[q]
    BY <2>1
  <2>3. CASE UNCHANGED <<file, pool>>
    BY <2>1, <2>2, <2>3
  <2>4. ASSUME NEW i \in Inode, file' = [file EXCEPT ![op[o].path] = i],
               file[op[o].path] # Nil => i = file[op[o].path],
               pool[op[o].cell] = Nil,
               pool' = [pool EXCEPT ![op[o].cell] = [inode |-> i, closed |-> FALSE]]
        PROVE  CellInv'
    <3>1. CachedIsUsable'
      BY <2>1, <2>2, <2>4
    <3>2. CellHasOnePath' /\ EvictedIsUncached'
      BY <2>1, <2>2
    <3>3. PoolIsReferenced'
      <4>1. CellOf(o)' = op[o].cell
        BY <2>1, <2>2
      <4> QED BY <2>1, <2>2, <2>4, <4>1
    <3> QED BY <3>1, <3>2, <3>3
  <2> QED BY <1>5, <2>3, <2>4 DEF OpenDatabase, Create
<1>6. ASSUME NEW o \in Op, OpenFails(o) PROVE CellInv'
  BY <1>6 DEF OpenFails, Returns, Idle, Dropping, Referenced, Create
<1>7. ASSUME NEW o \in Op, Begin(o) PROVE CellInv'
  BY <1>7 DEF Begin, Goes
<1>8. ASSUME NEW o \in Op, BeginFails(o) PROVE CellInv'
  BY <1>8 DEF BeginFails, Returns, Idle, Dropping, Referenced
<1>9. ASSUME NEW o \in Op, Finish(o) PROVE CellInv'
  BY <1>9 DEF Finish, Returns, Idle, Dropping, Referenced
<1>10. ASSUME NEW o \in Op, Evict(o) PROVE CellInv'
  <2>1. /\ op[o].path \in Path /\ op[o] \in Called /\ DOMAIN op = Op /\ op[o].pc = "locked"
        /\ op' = [op EXCEPT ![o].pc = "evicting", ![o].cell = entries[op[o].path]]
        /\ entries' = [entries EXCEPT ![op[o].path] = Nil]
        /\ pool' = Closed(pool, entries[op[o].path])
        /\ UNCHANGED <<file, swept, closing, split>>
    BY <1>10 DEF Evict
  <2>2. /\ op'[o].pc = "evicting" /\ op'[o].path = op[o].path
        /\ op'[o].cell = entries[op[o].path] /\ entries[op[o].path] \in Cell \cup {Nil}
        /\ \A q \in Op \ {o} : op'[q] = op[q]
    BY <2>1
  <2>3. \A d \in Cell : /\ pool'[d] = Nil <=> pool[d] = Nil
                        /\ d # entries[op[o].path] => pool'[d] = pool[d]
    BY <2>1, <2>2, ClosingKeepsFiles
  <2>4. \A p \in Path : entries'[p] # Nil =>
          p # op[o].path /\ entries'[p] = entries[p] /\ entries[p] # entries[op[o].path]
    BY <2>1
  <2>5. CachedIsUsable'
    BY <2>1, <2>3, <2>4
  <2>6. CellHasOnePath'
    BY <2>1, <2>2, <2>4
  <2>7. PoolIsReferenced'
    <3>1. ASSUME NEW c \in Cell, pool'[c] # Nil, c # entries[op[o].path]
          PROVE  \/ \E p \in Path : entries'[p] = c
                 \/ \E q \in Op : CellOf(q)' = c
                 \/ c \in swept' \/ c = closing'
      <4>1. CASE \E p \in Path : entries[p] = c
        BY <2>1, <3>1, <4>1
      <4>2. CASE \E q \in Op : CellOf(q) = c
        BY <2>1, <2>2, <3>1, <4>2
      <4> QED BY <2>1, <2>3, <3>1, <4>1, <4>2
    <3>2. entries[op[o].path] # Nil => CellOf(o)' = entries[op[o].path]
      BY <2>2
    <3> QED BY <3>1, <3>2
  <2>8. EvictedIsUncached'
    BY <2>1, <2>2, <2>4
  <2> QED BY <2>5, <2>6, <2>7, <2>8
<1>11. ASSUME NEW o \in Op, EvictEnds(o) PROVE CellInv'
  BY <1>11 DEF EvictEnds, Dropping, Referenced
<1>12. ASSUME NEW o \in Op, RemoveFile(o) PROVE CellInv'
  <2>1. /\ op[o].path \in Path /\ op[o].pc = "unlinking" /\ DOMAIN op = Op /\ Dropping(pool, rows)
        /\ UNCHANGED <<entries, swept, closing, split>>
        /\ \A p \in Path \ {op[o].path} : file'[p] = file[p]
    BY <1>12 DEF RemoveFile
  <2>2. /\ op'[o].pc \in {"forgetting", "idle"} /\ \A q \in Op \ {o} : op'[q] = op[q]
        /\ op'[o].pc = "forgetting" => op'[o].path = op[o].path
    BY <1>12 DEF RemoveFile, Goes, Returns, Idle
  <2>3. /\ \A q \in Op : CellOf(q)' = CellOf(q)
        /\ \A c \in Cell : pool'[c] \in {pool[c], Nil}
    BY <2>1, <2>2 DEF Dropping
  <2>4. op[o].path \notin split => entries[op[o].path] = Nil
    BY <2>1
  <2>5. CachedIsUsable'
    BY <2>1, <2>3, <2>4
  <2>6. CellHasOnePath' /\ EvictedIsUncached'
    BY <2>1, <2>2, <2>3
  <2>7. PoolIsReferenced'
    BY <2>1, <2>3 DEF Dropping, Referenced
  <2> QED BY <2>5, <2>6, <2>7
<1>13. ASSUME NEW o \in Op, ForgetPath(o) PROVE CellInv'
  BY <1>13 DEF ForgetPath, Returns, Idle
<1>14. CASE Sweep
  BY <1>14 DEF Sweep
<1>15. CASE CloseEntry
  BY <1>15 DEF CloseEntry, Closed
<1>16. CASE CloseEnds
  BY <1>16 DEF CloseEnds, Dropping, Referenced
<1>17. CASE UNCHANGED vars
  BY <1>17 DEF vars
<1> QED
  BY <1>1, <1>2, <1>3, <1>4, <1>5, <1>6, <1>7, <1>8, <1>9, <1>10,
     <1>11, <1>12, <1>13, <1>14, <1>15, <1>16, <1>17
  DEF Next, Runs, Append, Query, DeleteBefore, Op, Kind

\* The cache never hands out a pool that is closed or that the janitor has taken,
\* nor one on a file that was unlinked, for any paths and tasks: it rests on the
\* mutual exclusion above, and on cells being cached for one path.
THEOREM CacheIsUsable == Spec => []CachedIsUsable
<1>1. Init => OpsOK /\ MapsOK /\ LockInv /\ PoolsOK /\ CellInv
  BY OpsInit, LockInit, CellInit
<1>2. OpsOK /\ MapsOK /\ LockInv /\ PoolsOK /\ CellInv /\ [Next]_vars
        => (OpsOK /\ MapsOK /\ LockInv /\ PoolsOK /\ CellInv)'
  BY OpsStep, LockStep, PoolsStep, CellStep, ExclusionFromLocks
<1>3. CellInv => CachedIsUsable
  BY DEF CellInv
<1> QED BY <1>1, <1>2, <1>3, PTL DEF Spec
---------------------------------------------------------------------------
(* The files                                                               *)

\* an operation that is answered is not pending, and a deletion is one
AnswersOK ==
  /\ rows \in [Inode -> SUBSET Op]
  /\ \A o \in Op :
       /\ op[o].pc = "idle" => op[o].answer.state # "pending"
       /\ op[o].pc \in {"evicting", "unlinking", "forgetting"} => op[o].kind = "delete"
       /\ op[o].pc \in {"pooled", "open", "tx"} => op[o].kind # "delete"

LEMMA AnswersInit == Init => AnswersOK
BY DEF Init, AnswersOK, Idle, Failed

LEMMA AnswersStep ==
  ASSUME OpsOK, MapsOK, PoolsOK, AnswersOK, [Next]_vars
  PROVE  AnswersOK'
<1> USE DEF OpsOK, AnswersOK, Called, Statement, Holding, Dropping
<1>1. ASSUME NEW o \in Op, NEW kind \in Kind, Call(o, kind) PROVE AnswersOK'
  BY <1>1 DEF Call
<1>2. ASSUME NEW o \in Op, LockPath(o) PROVE AnswersOK'
  BY <1>2 DEF LockPath
<1>3. ASSUME NEW o \in Op, Acquire(o) PROVE AnswersOK'
  BY <1>3 DEF Acquire, Goes
<1>4. ASSUME NEW o \in Op, FetchCell(o) PROVE AnswersOK'
  BY <1>4 DEF FetchCell
<1>5. ASSUME NEW o \in Op, OpenDatabase(o) PROVE AnswersOK'
  BY <1>5 DEF OpenDatabase, Goes
<1>6. ASSUME NEW o \in Op, OpenFails(o) PROVE AnswersOK'
  BY <1>6 DEF OpenFails, Returns, Idle, Failed
<1>7. ASSUME NEW o \in Op, Begin(o) PROVE AnswersOK'
  BY <1>7 DEF Begin, Goes
<1>8. ASSUME NEW o \in Op, BeginFails(o) PROVE AnswersOK'
  BY <1>8 DEF BeginFails, Returns, Idle, Failed
<1>9. ASSUME NEW o \in Op, Finish(o) PROVE AnswersOK'
  BY <1>9 DEF Finish, Returns, Idle, Failed, Ok, Read, PoolsOK
<1>10. ASSUME NEW o \in Op, Evict(o) PROVE AnswersOK'
  BY <1>10 DEF Evict
<1>11. ASSUME NEW o \in Op, EvictEnds(o) PROVE AnswersOK'
  BY <1>11 DEF EvictEnds
<1>12. ASSUME NEW o \in Op, RemoveFile(o) PROVE AnswersOK'
  BY <1>12 DEF RemoveFile, Goes, Returns, Idle, Failed
<1>13. ASSUME NEW o \in Op, ForgetPath(o) PROVE AnswersOK'
  BY <1>13 DEF ForgetPath, Returns, Idle, Ok
<1>14. CASE Sweep
  BY <1>14 DEF Sweep
<1>15. CASE CloseEntry
  BY <1>15 DEF CloseEntry
<1>16. CASE CloseEnds
  BY <1>16 DEF CloseEnds
<1>17. CASE UNCHANGED vars
  BY <1>17 DEF vars
<1> QED
  BY <1>1, <1>2, <1>3, <1>4, <1>5, <1>6, <1>7, <1>8, <1>9, <1>10,
     <1>11, <1>12, <1>13, <1>14, <1>15, <1>16, <1>17
  DEF Next, Runs, Append, Query, DeleteBefore, Op, Kind

\* an inode that is handed out has no name, is open nowhere, and so is empty
LEMMA FreshInodes ==
  \A i \in FreshInode :
    /\ i \in Inode
    /\ \A p \in Path : file[p] # i
    /\ \A c \in Cell : pool[c] # Nil => pool[c].inode # i
BY DEF FreshInode, OneOf

FilesInv == FilesHaveOneName /\ PoolIsOnFile

LEMMA FilesInit == Init => FilesInv
BY DEF Init, FilesInv, FilesHaveOneName, PoolIsOnFile, CellOf, Idle

\* an operation gives up its pool: pools go, and at most files that it alone is on
LEMMA ReleaseKeepsFiles ==
  ASSUME OpsOK, MapsOK, PoolsOK, FilesInv, NEW o \in Op, NEW contents, Dropping(pool, contents),
         op'[o].pc \in {"idle", "unlinking", "forgetting"}, \A q \in Op \ {o} : op'[q] = op[q],
         UNCHANGED <<entries, split>>,
         \A p \in Path : file'[p] \in {file[p], Nil},
         \A p \in Path, q \in Op \ {o} :
           file'[p] # file[p] /\ CellOf(q) # Nil /\ op[q].path = p => p \in split
  PROVE  FilesInv'
<1> USE NilAssumption DEF OpsOK, MapsOK, PoolsOK, Called, CellOf, PoolIsOnFile
<1>1. FilesHaveOneName'
  BY DEF FilesInv, FilesHaveOneName, Dropping, OpenOrNamed
<1>2. /\ CellOf(o)' = Nil /\ \A q \in Op \ {o} : CellOf(q)' = CellOf(q)
      /\ \A c \in Cell : pool'[c] \in {pool[c], Nil}
  BY DEF Dropping
<1>3. \A q \in Op : op'[q].pc \in {"open", "tx"} => pool'[op'[q].cell] # Nil
  BY DEF FilesInv, Dropping, Referenced
<1>4. \A q, r \in Op : CellOf(q)' # Nil /\ CellOf(q)' = CellOf(r)' => op'[q].path = op'[r].path
  BY <1>2 DEF FilesInv
<1>5. ASSUME NEW q \in Op, CellOf(q)' # Nil, pool'[CellOf(q)'] # Nil
      PROVE  /\ \A p \in Path \ {op'[q].path} : file'[p] # pool'[CellOf(q)'].inode
             /\ op'[q].path \notin split' => file'[op'[q].path] = pool'[CellOf(q)'].inode
  <2>1. /\ q # o /\ op'[q] = op[q] /\ CellOf(q)' = CellOf(q)
        /\ CellOf(q) \in Cell /\ pool'[CellOf(q)] = pool[CellOf(q)] /\ op[q].path \in Path
    BY <1>2, <1>5
  <2>2. \A p \in Path \ {op[q].path} : file[p] # pool[CellOf(q)].inode
    BY <1>5, <2>1 DEF FilesInv
  <2>3. op[q].path \notin split => file[op[q].path] = pool[CellOf(q)].inode
    BY <1>5, <2>1 DEF FilesInv
  <2>4. pool[CellOf(q)].inode # Nil
    BY <1>5, <2>1
  <2> QED BY <1>5, <2>1, <2>2, <2>3, <2>4
<1>6. ASSUME NEW p \in Path, entries'[p] # Nil, pool'[entries'[p]] # Nil
      PROVE  \A q \in Path \ {p} : file'[q] # pool'[entries'[p]].inode
  BY <1>2, <1>6 DEF FilesInv
<1> QED BY <1>1, <1>3, <1>4, <1>5, <1>6 DEF FilesInv

LEMMA FilesStep ==
  ASSUME OpsOK, OpsOK', MapsOK, PoolsOK, PoolsOK', AnswersOK, OnePerPath, CellInv, FilesInv,
         [Next]_vars
  PROVE  FilesInv'
<1> USE NilAssumption DEF OpsOK, MapsOK, PoolsOK, AnswersOK, Called, Statement, Holding, Holds, CellOf,
                          FilesInv, FilesHaveOneName, PoolIsOnFile
<1>1. ASSUME NEW o \in Op, NEW kind \in Kind, Call(o, kind) PROVE FilesInv'
  BY <1>1 DEF Call, Busy
<1>2. ASSUME NEW o \in Op, LockPath(o) PROVE FilesInv'
  BY <1>2 DEF LockPath
<1>3. ASSUME NEW o \in Op, Acquire(o) PROVE FilesInv'
  BY <1>3 DEF Acquire, Goes
<1>4. ASSUME NEW o \in Op, FetchCell(o) PROVE FilesInv'
  <2>1. PICK c \in (IF entries[op[o].path] # Nil THEN {entries[op[o].path]} ELSE FreshCell) :
          /\ entries' = [entries EXCEPT ![op[o].path] = c]
          /\ op' = [op EXCEPT ![o].pc = "pooled", ![o].cell = c]
    BY <1>4 DEF FetchCell
  <2>2. /\ op[o].path \in Path /\ op[o] \in Called /\ c \in Cell /\ DOMAIN op = Op
        /\ UNCHANGED <<file, rows, pool, split>>
    BY <1>4, <2>1, FreshCells DEF FetchCell
  <2>3. /\ op'[o].pc = "pooled" /\ op'[o].cell = c /\ op'[o].path = op[o].path
        /\ \A q \in Op \ {o} : op'[q] = op[q]
    BY <2>1, <2>2
  <2>4. \A q \in Op : CellOf(q) = c => op[q].path = op[o].path
    BY <2>1, <2>2, FreshCells DEF CellInv, CellHasOnePath
  <2>5. pool[c] # Nil => /\ entries[op[o].path] = c
                         /\ op[o].path \notin split => pool[c].inode = file[op[o].path]
    BY <2>1, <2>2, FreshCells DEF CellInv, PoolIsReferenced, CachedIsUsable
  <2> QED BY <2>1, <2>2, <2>3, <2>4, <2>5
<1>5. ASSUME NEW o \in Op, OpenDatabase(o) PROVE FilesInv'
  <2>1. /\ op[o].path \in Path /\ op[o].cell \in Cell /\ op[o].pc = "pooled" /\ DOMAIN op = Op
        /\ op[o] \in Called /\ UNCHANGED <<entries, split, rows>>
        /\ op' = [op EXCEPT ![o].pc = "open"]
    BY <1>5 DEF OpenDatabase, Goes
  <2>2. /\ \A q \in Op : CellOf(q)' = CellOf(q)
        /\ \A q \in Op : op'[q].pc # "idle" => op'[q].path = op[q].path
        /\ \A q \in Op \ {o} : op'[q] = op[q]
        /\ op'[o].cell = op[o].cell /\ CellOf(o) = op[o].cell
    BY <2>1
  <2>3. CASE pool[op[o].cell] # Nil
    BY <1>5, <2>1, <2>2, <2>3 DEF OpenDatabase
  <2>4. ASSUME NEW i \in Inode, Create(op[o].path, i), pool[op[o].cell] = Nil,
               pool' = [pool EXCEPT ![op[o].cell] = [inode |-> i, closed |-> FALSE]]
        PROVE  FilesInv'
    <3>1. /\ file' = [file EXCEPT ![op[o].path] = i]
          /\ file[op[o].path] # Nil => i = file[op[o].path]
          /\ file[op[o].path] = Nil => /\ \A p \in Path : file[p] # i
                                      /\ \A c \in Cell : pool[c] # Nil => pool[c].inode # i
      BY <2>4, FreshInodes DEF Create
    <3>2. \A q \in Path \ {op[o].path} : file'[q] = file[q] /\ file[q] # i
      BY <2>1, <3>1
    <3>3. FilesHaveOneName'
      BY <2>1, <2>4, <3>1, <3>2
    <3>4. \A c \in Cell \ {op[o].cell} : pool'[c] = pool[c]
      BY <2>4
    <3>5. pool'[op[o].cell].inode = i /\ pool'[op[o].cell] # Nil /\ file'[op[o].path] = i
      <4>1. [inode |-> i, closed |-> FALSE] \in [inode : Inode, closed : BOOLEAN]
        OBVIOUS
      <4>2. [inode |-> i, closed |-> FALSE] # Nil
        BY <4>1, NilAssumption
      <4> QED BY <2>1, <2>4, <3>1, <4>2
    <3>6. \A q \in Op : CellOf(q) = op[o].cell => op[q].path = op[o].path
      BY <2>1, <2>2
    <3>7. \A p \in Path : entries[p] = op[o].cell => p = op[o].path
      BY <2>1, <2>2 DEF CellInv, CellHasOnePath
    <3>8. ASSUME NEW r \in Op, CellOf(r)' # Nil, pool'[CellOf(r)'] # Nil
          PROVE  /\ \A q \in Path \ {op'[r].path} : file'[q] # pool'[CellOf(r)'].inode
                 /\ op'[r].path \notin split' => file'[op'[r].path] = pool'[CellOf(r)'].inode
      <4>1. CASE CellOf(r) = op[o].cell
        BY <2>1, <2>2, <3>2, <3>5, <3>6, <3>8, <4>1
      <4>2. CASE CellOf(r) # op[o].cell
        <5>1. CellOf(r) \in Cell /\ pool'[CellOf(r)'] = pool[CellOf(r)] /\ op'[r].path = op[r].path
          BY <2>1, <2>2, <3>4, <3>8, <4>2
        <5>2. \A q \in Path \ {op[r].path} : file'[q] # pool[CellOf(r)].inode
          BY <2>1, <3>1, <3>8, <5>1
        <5>3. op[r].path \notin split => file'[op[r].path] = pool[CellOf(r)].inode
          BY <2>1, <3>1, <3>8, <5>1
        <5> QED BY <2>1, <2>2, <5>1, <5>2, <5>3
      <4> QED BY <4>1, <4>2
    <3>9. ASSUME NEW p \in Path, entries[p] # Nil, pool'[entries[p]] # Nil
          PROVE  \A q \in Path \ {p} : file'[q] # pool'[entries[p]].inode
      BY <2>1, <3>1, <3>2, <3>4, <3>5, <3>7, <3>9
    <3>10. \A q \in Op : op'[q].pc \in {"open", "tx"} => pool'[op'[q].cell] # Nil
      BY <2>1, <2>2, <3>4, <3>5
    <3> QED BY <2>1, <2>2, <3>3, <3>8, <3>9, <3>10
  <2> QED BY <1>5, <2>3, <2>4 DEF OpenDatabase
<1>6. ASSUME NEW o \in Op, OpenFails(o) PROVE FilesInv'
  <2>1. /\ op[o].path \in Path /\ DOMAIN op = Op /\ UNCHANGED <<entries, split>>
        /\ op' = [op EXCEPT ![o] = Idle(Failed)] /\ Dropping(pool, rows)
        /\ op[o].pc = "pooled" /\ op[o].cell \in Cell /\ pool[op[o].cell] = Nil
    BY <1>6 DEF OpenFails, Returns
  <2>2. /\ \A q \in Op \ {o} : op'[q] = op[q]
        /\ op'[o].pc = "idle"
    BY <2>1 DEF Idle
  <2>3. \A c \in Cell : pool'[c] \in {pool[c], Nil}
    BY <2>1 DEF Dropping
  <2>4. \A i \in Inode : ~OpenOrNamed(i) => rows'[i] = {}
    BY <2>1 DEF Dropping
  <2>5. \/ file' = file
        \/ \E i \in Inode : Create(op[o].path, i)
    BY <1>6 DEF OpenFails
  <2>6. \A q \in Path : file'[q] # file[q] =>
          /\ q = op[o].path /\ file[q] = Nil
          /\ \A p \in Path : file[p] # file'[q]
          /\ \A c \in Cell : pool[c] # Nil => pool[c].inode # file'[q]
    BY <2>1, <2>5, FreshInodes DEF Create
  <2>7. FilesHaveOneName'
    BY <2>4, <2>6 DEF OpenOrNamed
  <2>8. \A q \in Op : op'[q].pc \in {"open", "tx"} => pool'[op'[q].cell] # Nil
    BY <2>1, <2>2 DEF Dropping, Referenced
  <2>9. ASSUME NEW r \in Op, CellOf(r)' # Nil, pool'[CellOf(r)'] # Nil
        PROVE  /\ \A q \in Path \ {op'[r].path} : file'[q] # pool'[CellOf(r)'].inode
               /\ op'[r].path \notin split' => file'[op'[r].path] = pool'[CellOf(r)'].inode
    <3>1. r # o /\ op'[r] = op[r] /\ CellOf(r)' = CellOf(r) /\ CellOf(r) \in Cell
      BY <2>2, <2>9
    <3>2. pool'[CellOf(r)] = pool[CellOf(r)] /\ pool[CellOf(r)] # Nil
      BY <2>3, <2>9, <3>1
    <3> QED BY <2>1, <2>6, <3>1, <3>2
  <2>10. ASSUME NEW p \in Path, entries'[p] # Nil, pool'[entries'[p]] # Nil
         PROVE  \A q \in Path \ {p} : file'[q] # pool'[entries'[p]].inode
    BY <2>1, <2>3, <2>6, <2>10
  <2> QED BY <2>2, <2>7, <2>8, <2>9, <2>10
<1>7. ASSUME NEW o \in Op, Begin(o) PROVE FilesInv'
  BY <1>7 DEF Begin, Goes
<1>8. ASSUME NEW o \in Op, BeginFails(o) PROVE FilesInv'
  <2>1. /\ op'[o].pc = "idle" /\ \A q \in Op \ {o} : op'[q] = op[q]
        /\ \E contents : Dropping(pool, contents)
        /\ UNCHANGED <<file, entries, split>>
    BY <1>8 DEF BeginFails, Returns, Idle
  <2> QED BY <2>1, ReleaseKeepsFiles
<1>9. ASSUME NEW o \in Op, Finish(o) PROVE FilesInv'
  <2>1. /\ op'[o].pc = "idle" /\ \A q \in Op \ {o} : op'[q] = op[q]
        /\ \E contents : Dropping(pool, contents)
        /\ UNCHANGED <<file, entries, split>>
    BY <1>9 DEF Finish, Returns, Idle
  <2> QED BY <2>1, ReleaseKeepsFiles
<1>10. ASSUME NEW o \in Op, Evict(o) PROVE FilesInv'
  <2>1. /\ op[o].path \in Path /\ op[o] \in Called /\ DOMAIN op = Op
        /\ op' = [op EXCEPT ![o].pc = "evicting", ![o].cell = entries[op[o].path]]
        /\ entries' = [entries EXCEPT ![op[o].path] = Nil]
        /\ pool' = Closed(pool, entries[op[o].path]) /\ UNCHANGED <<file, rows, split>>
    BY <1>10 DEF Evict
  <2>2. /\ op'[o].pc = "evicting" /\ op'[o].path = op[o].path
        /\ op'[o].cell = entries[op[o].path] /\ entries[op[o].path] \in Cell \cup {Nil}
        /\ \A q \in Op \ {o} : op'[q] = op[q]
    BY <2>1
  <2>3. \A c \in Cell : /\ pool'[c] = Nil <=> pool[c] = Nil
                        /\ pool'[c] # Nil => pool'[c].inode = pool[c].inode
    BY <2>1, <2>2, ClosingKeepsFiles
  <2>4. \A q \in Op : CellOf(q) # Nil /\ CellOf(q) = entries[op[o].path] => op[q].path = op[o].path
    BY <2>1 DEF CellInv, CellHasOnePath
  <2>5. entries[op[o].path] # Nil /\ pool[entries[op[o].path]] # Nil /\ op[o].path \notin split =>
          pool[entries[op[o].path]].inode = file[op[o].path]
    BY <2>1 DEF CellInv, CachedIsUsable
  <2>6. FilesHaveOneName'
    BY <2>1, <2>3
  <2>7. PoolIsOnFile'
    <3>1. \A q \in Op : CellOf(q)' # Nil => CellOf(q)' \in Cell /\ op'[q].path = op[q].path
      BY <2>1, <2>2
    <3>2. \A q, r \in Op : CellOf(q)' # Nil /\ CellOf(q)' = CellOf(r)' => op'[q].path = op'[r].path
      BY <2>1, <2>2, <2>4
    <3>3. ASSUME NEW q \in Op, CellOf(q)' # Nil, pool'[CellOf(q)'] # Nil
          PROVE  /\ \A p \in Path \ {op'[q].path} : file'[p] # pool'[CellOf(q)'].inode
                 /\ op'[q].path \notin split' => file'[op'[q].path] = pool'[CellOf(q)'].inode
      <4>1. CASE q = o
        BY <2>1, <2>2, <2>3, <2>5, <3>3, <4>1
      <4>2. CASE q # o
        <5>1. CellOf(q)' = CellOf(q) /\ op'[q].path = op[q].path /\ CellOf(q) \in Cell
          BY <2>2, <3>1, <3>3, <4>2
        <5>2. pool[CellOf(q)] # Nil /\ pool'[CellOf(q)].inode = pool[CellOf(q)].inode
          BY <2>3, <3>3, <5>1
        <5>3. \A p \in Path \ {op[q].path} : file[p] # pool[CellOf(q)].inode
          BY <3>3, <5>1, <5>2
        <5>4. op[q].path \notin split => file[op[q].path] = pool[CellOf(q)].inode
          BY <3>3, <5>1, <5>2
        <5>5. pool'[CellOf(q)'].inode = pool[CellOf(q)].inode /\ file' = file /\ split' = split
          BY <2>1, <5>1, <5>2
        <5> HIDE DEF CellOf, PoolIsOnFile, FilesInv, OpsOK, PoolsOK
        <5> QED BY <5>1, <5>3, <5>4, <5>5
      <4> QED BY <4>1, <4>2
    <3>4. ASSUME NEW p \in Path, entries'[p] # Nil, pool'[entries'[p]] # Nil
          PROVE  \A q \in Path \ {p} : file'[q] # pool'[entries'[p]].inode
      BY <2>1, <2>3, <3>4
    <3>5. \A q \in Op : op'[q].pc \in {"open", "tx"} => pool'[op'[q].cell] # Nil
      BY <2>2, <2>3
    <3> QED BY <3>2, <3>3, <3>4, <3>5
  <2> QED BY <2>6, <2>7
<1>11. ASSUME NEW o \in Op, EvictEnds(o) PROVE FilesInv'
  <2>1. /\ op'[o].pc = "unlinking" /\ \A q \in Op \ {o} : op'[q] = op[q]
        /\ \E contents : Dropping(pool, contents)
        /\ UNCHANGED <<file, entries, split>>
    BY <1>11 DEF EvictEnds
  <2> QED BY <2>1, ReleaseKeepsFiles
<1>12. ASSUME NEW o \in Op, RemoveFile(o) PROVE FilesInv'
  <2>1. /\ op[o].path \in Path /\ op[o].pc = "unlinking" /\ Dropping(pool, rows)
        /\ UNCHANGED <<entries, split>>
        /\ \A p \in Path : file'[p] \in {file[p], Nil}
        /\ \A p \in Path : file'[p] # file[p] => p = op[o].path
    BY <1>12 DEF RemoveFile
  <2>2. /\ op'[o].pc \in {"forgetting", "idle"} /\ \A q \in Op \ {o} : op'[q] = op[q]
    BY <1>12 DEF RemoveFile, Goes, Returns, Idle
  <2>3. ASSUME NEW q \in Op \ {o}, CellOf(q) # Nil, op[q].path = op[o].path
        PROVE  op[o].path \in split
    BY <2>1, <2>3 DEF OnePerPath
  <2> QED BY <2>1, <2>2, <2>3, ReleaseKeepsFiles
<1>13. ASSUME NEW o \in Op, ForgetPath(o) PROVE FilesInv'
  BY <1>13 DEF ForgetPath, Returns, Idle
<1>14. CASE Sweep
  BY <1>14 DEF Sweep
<1>15. CASE CloseEntry
  <2>1. PICK c \in swept : pool' = Closed(pool, c)
    BY <1>15 DEF CloseEntry
  <2>2. \A d \in Cell : /\ pool'[d] = Nil <=> pool[d] = Nil
                        /\ pool'[d] # Nil => pool'[d].inode = pool[d].inode
    BY <2>1, ClosingKeepsFiles
  <2> QED BY <1>15, <2>2 DEF CloseEntry
<1>16. CASE CloseEnds
  BY <1>16 DEF CloseEnds, Dropping, Referenced, OpenOrNamed
<1>17. CASE UNCHANGED vars
  BY <1>17 DEF vars
<1> QED
  BY <1>1, <1>2, <1>3, <1>4, <1>5, <1>6, <1>7, <1>8, <1>9, <1>10,
     <1>11, <1>12, <1>13, <1>14, <1>15, <1>16, <1>17
  DEF Next, Runs, Append, Query, DeleteBefore, Op, Kind

\* All of it, of a reachable state and of the next one.
Inv == OpsOK /\ MapsOK /\ LockInv /\ PoolsOK /\ CellInv /\ AnswersOK /\ FilesInv

LEMMA InvHolds == Spec => []Inv
<1>1. Init => Inv
  BY OpsInit, LockInit, CellInit, AnswersInit, FilesInit DEF Inv
<1>2. Inv /\ [Next]_vars => Inv'
  BY OpsStep, LockStep, PoolsStep, CellStep, ExclusionFromLocks, AnswersStep, FilesStep DEF Inv
<1> QED BY <1>1, <1>2, PTL DEF Spec

\* Only a deletion takes a file's name away, and it has evicted the path's cell
\* then, for any paths and tasks.
THEOREM UnlinksClosedFiles == Spec => UnlinkedIsClosed
<1>1. ASSUME Inv, [Next]_vars,
             NEW p \in Path, file[p] # Nil, file'[p] # file[p], p \notin split,
             NEW c \in Cell, pool[c] # Nil, pool[c].inode = file[p]
      PROVE  c \in swept \/ c = closing
  <2>1. PICK o \in Op : RemoveFile(o) /\ op[o].path = p
    <3>1. PICK o \in Op : RemoveFile(o) \/ OpenDatabase(o) \/ OpenFails(o)
      BY <1>1 DEF Next, Runs, vars, Append, Query, DeleteBefore, Call, LockPath, Acquire, FetchCell,
                  Begin, BeginFails, Finish, Evict, EvictEnds, ForgetPath, Sweep, CloseEntry, CloseEnds
    <3>2. op[o].path \in Path
      <4>1. op[o].pc \in {"unlinking", "pooled"}
        BY <3>1 DEF RemoveFile, OpenDatabase, OpenFails
      <4> QED BY <1>1, <4>1 DEF Inv, OpsOK, Called
    <3> QED BY <1>1, <3>1, <3>2 DEF RemoveFile, OpenDatabase, OpenFails, Create, Inv, PoolsOK
  <2>2. op[o].pc = "unlinking" /\ Holds(o) /\ CellOf(o) = Nil
    BY <2>1 DEF RemoveFile, Holds, Holding, CellOf
  <2>3. entries[p] = Nil
    BY <1>1, <2>1, <2>2 DEF Inv, CellInv, EvictedIsUncached
  <2>4. \A q \in Path : entries[q] # c
    BY <1>1, <2>3, NilAssumption DEF Inv, FilesInv, PoolIsOnFile
  <2>5. ASSUME NEW q \in Op, CellOf(q) = c PROVE FALSE
    <3>1. op[q].path = p
      BY <1>1, <2>5, NilAssumption DEF Inv, FilesInv, PoolIsOnFile
    <3>2. Holds(q)
      BY <2>5, <1>1, NilAssumption DEF Holds, Holding, CellOf
    <3>3. q = o
      BY <1>1, <2>1, <2>2, <3>1, <3>2, ExclusionFromLocks DEF Inv, OnePerPath
    <3> QED BY <2>2, <2>5, <3>3, NilAssumption
  <2> QED BY <1>1, <2>4, <2>5 DEF Inv, CellInv, PoolIsReferenced
<1>2. Inv /\ [Next]_vars => [\A p \in Path :
        file[p] # Nil /\ file'[p] # file[p] /\ p \notin split
          => \A c \in Cell : pool[c] # Nil /\ pool[c].inode = file[p] => c \in swept \/ c = closing]_vars
  BY <1>1
<1> QED BY <1>2, InvHolds, PTL DEF Spec, UnlinkedIsClosed

---------------------------------------------------------------------------
(* The store implements WeekFiles                                          *)

\* the abstract state that a step leaves alone
SameFiles == \A p \in Path : Stored(p)' = Stored(p)
SameCalls == \A o \in Op : Doing(o)' = Doing(o)

LEMMA Stutters == SameFiles /\ SameCalls /\ split' = split => UNCHANGED Files!vars
BY DEF SameFiles, SameCalls, Files!vars

\* a named inode keeps its rows
LEMMA NamedIsKept ==
  ASSUME AnswersOK, PoolsOK, PoolsOK', NEW contents, Dropping(pool, contents),
         NEW p \in Path, file'[p] # Nil
  PROVE  rows'[file'[p]] = contents[file'[p]]
BY DEF Dropping, OpenOrNamed, PoolsOK

LEMMA DroppingKeepsFiles ==
  ASSUME AnswersOK, PoolsOK, PoolsOK', Dropping(pool, rows), file' = file
  PROVE  SameFiles
BY NamedIsKept DEF SameFiles, Stored

\* an operation that moves on is still pending, one that returns is answered
LEMMA Pending ==
  ASSUME OpsOK, NEW o \in Op, Busy(o), Busy(o)',
         op'[o].kind = op[o].kind, op'[o].path = op[o].path,
         \A q \in Op \ {o} : op'[q] = op[q]
  PROVE  SameCalls
BY DEF SameCalls, Doing, Busy

LEMMA Answered ==
  ASSUME OpsOK, NEW o \in Op, NEW answer, op' = [op EXCEPT ![o] = Idle(answer)]
  PROVE  [q \in Op |-> Doing(q)]' = [[q \in Op |-> Doing(q)] EXCEPT ![o] = answer]
BY DEF OpsOK, Doing, Busy, Idle

LEMMA Fails ==
  ASSUME OpsOK, NEW o \in Op, Busy(o), op' = [op EXCEPT ![o] = Idle(Failed)],
         SameFiles, split' = split
  PROVE  Files!Next
<1>1. [q \in Op |-> Doing(q)]' = [[q \in Op |-> Doing(q)] EXCEPT ![o] = Files!None]
  BY Answered DEF Failed, Files!None
<1>2. Doing(o).state = "pending"
  BY DEF Doing
<1>3. [p \in Path |-> Stored(p)]' = [p \in Path |-> Stored(p)]
  BY DEF SameFiles
<1>4. Files!Fail(o)
  BY <1>1, <1>2, <1>3 DEF Files!Fail, Files!Answers
<1> QED BY <1>4 DEF Files!Next, Files!Operation

\* a path's file is only ever given an inode that is empty
LEMMA CreatedIsEmpty ==
  ASSUME PoolsOK, FilesInv, NEW p \in Path, NEW i \in Inode, Create(p, i)
  PROVE  /\ file'[p] = i /\ \A q \in Path \ {p} : file'[q] = file[q]
         /\ rows[i] = Stored(p)
BY FreshInodes DEF PoolsOK, FilesInv, FilesHaveOneName, Create, Stored

LEMMA OneFileChanges ==
  ASSUME NEW p \in Path, NEW new, Stored(p)' = new,
         \A q \in Path \ {p} : Stored(q)' = Stored(q)
  PROVE  [q \in Path |-> Stored(q)]' = [[q \in Path |-> Stored(q)] EXCEPT ![p] = new]
OBVIOUS

LEMMA Simulation ==
  ASSUME Inv, Inv', [Next]_vars
  PROVE  [Files!Next]_(Files!vars)
<1> USE NilAssumption DEF Inv
<1> DEFINE Simulated == Files!Next \/ UNCHANGED Files!vars
           Moves(o) == /\ Busy(o) /\ Busy(o)' /\ op'[o].kind = op[o].kind /\ op'[o].path = op[o].path
                       /\ \A q \in Op \ {o} : op'[q] = op[q]
<1>0. ASSUME NEW o \in Op, Moves(o), SameFiles, split' = split PROVE Simulated
  BY <1>0, Pending, Stutters
<1>a. ASSUME NEW o \in Op, op[o].pc # "idle"
      PROVE  /\ op[o] \in Called /\ op[o].path \in Path /\ op[o].kind \in Kind /\ DOMAIN op = Op
             /\ Busy(o) /\ Doing(o) = Files!Pending(op[o].kind, op[o].path)
  BY <1>a DEF OpsOK, Called, Busy, Doing, Files!Pending
<1>b. ASSUME file' = file, rows' = rows PROVE SameFiles
  BY <1>b DEF SameFiles, Stored
<1>1. ASSUME NEW o \in Op, NEW kind \in Kind, Call(o, kind) PROVE Simulated
  <2>1. PICK p \in Path : op' = [op EXCEPT ![o] = [pc |-> "called", kind |-> kind, path |-> p,
                                                 lock |-> Nil, cell |-> Nil]]
    BY <1>1 DEF Call
  <2>2. op[o].pc = "idle" /\ DOMAIN op = Op /\ Doing(o) = op[o].answer
    BY <1>1 DEF Call, Busy, Doing, OpsOK
  <2>3. /\ Doing(o)' = Files!Pending(kind, p)
        /\ \A q \in Op \ {o} : Doing(q)' = Doing(q)
    BY <2>1, <2>2 DEF Doing, Busy, Files!Pending
  <2>4. [q \in Op |-> Doing(q)]' = [[q \in Op |-> Doing(q)] EXCEPT ![o] = Files!Pending(kind, p)]
    BY <2>3
  <2>5. [q \in Path |-> Stored(q)]' = [q \in Path |-> Stored(q)] /\ split' = split
    BY <1>1, <1>b DEF Call, SameFiles
  <2>6. Doing(o).state # "pending"
    BY <2>2 DEF AnswersOK
  <2>7. Files!Call(o)
    BY <2>4, <2>5, <2>6 DEF Files!Call, Files!Answers, Kind
  <2> QED BY <2>7 DEF Files!Next, Files!Operation
<1>2. ASSUME NEW o \in Op, LockPath(o) PROVE Simulated
  <2>1. Moves(o)
    BY <1>2, <1>a DEF LockPath, Busy
  <2> QED BY <1>2, <1>0, <1>b, <2>1 DEF LockPath
<1>3. ASSUME NEW o \in Op, Acquire(o) PROVE Simulated
  <2>1. Moves(o)
    BY <1>3, <1>a DEF Acquire, Goes, Busy
  <2> QED BY <1>3, <1>0, <1>b, <2>1 DEF Acquire
<1>4. ASSUME NEW o \in Op, FetchCell(o) PROVE Simulated
  <2>1. Moves(o)
    BY <1>4, <1>a DEF FetchCell, Busy
  <2> QED BY <1>4, <1>0, <1>b, <2>1 DEF FetchCell
<1>5. ASSUME NEW o \in Op, OpenDatabase(o) PROVE Simulated
  <2>1. Moves(o)
    BY <1>5, <1>a DEF OpenDatabase, Goes, Busy
  <2>2. ASSUME NEW i \in Inode, Create(op[o].path, i), rows' = rows PROVE SameFiles
    <3>1. op[o].path \in Path
      BY <1>5, <1>a DEF OpenDatabase
    <3> QED BY <2>2, <3>1, CreatedIsEmpty DEF SameFiles, Stored
  <2>3. SameFiles
    BY <1>5, <1>b, <2>2 DEF OpenDatabase
  <2> QED BY <1>5, <1>0, <2>1, <2>3 DEF OpenDatabase
<1>6. ASSUME NEW o \in Op, OpenFails(o) PROVE Simulated
  <2>1. op[o].path \in Path /\ Busy(o)
    BY <1>6, <1>a DEF OpenFails
  <2>2. op' = [op EXCEPT ![o] = Idle(Failed)] /\ split' = split /\ Dropping(pool, rows)
    BY <1>6 DEF OpenFails, Returns
  <2>3. ASSUME NEW i \in Inode, Create(op[o].path, i) PROVE SameFiles
    BY <2>1, <2>2, <2>3, CreatedIsEmpty, NamedIsKept DEF SameFiles, Stored
  <2>4. SameFiles
    BY <1>6, <2>2, <2>3, DroppingKeepsFiles DEF OpenFails
  <2> QED BY <2>1, <2>2, <2>4, Fails
<1>7. ASSUME NEW o \in Op, Begin(o) PROVE Simulated
  <2>1. Moves(o)
    BY <1>7, <1>a DEF Begin, Goes, Busy
  <2> QED BY <1>7, <1>0, <1>b, <2>1 DEF Begin
<1>8. ASSUME NEW o \in Op, BeginFails(o) PROVE Simulated
  <2>1. Busy(o)
    BY <1>8, <1>a DEF BeginFails
  <2> QED BY <1>8, <2>1, Fails, DroppingKeepsFiles DEF BeginFails, Returns
<1>9. ASSUME NEW o \in Op, Finish(o) PROVE Simulated
  <2>0. PICK p \in Path, i \in {pool[op[o].cell].inode} : p = op[o].path
    BY <1>9, <1>a DEF Finish
  <2>1. /\ op[o].pc = "tx" /\ op[o].cell \in Cell /\ Busy(o)
        /\ Doing(o) = Files!Pending(op[o].kind, p)
        /\ file' = file /\ split' = split
    BY <1>9, <1>a, <2>0 DEF Finish, OpsOK
  <2>2. pool[op[o].cell] # Nil /\ i \in Inode
    BY <2>0, <2>1 DEF FilesInv, PoolIsOnFile, PoolsOK
  <2>3. /\ \A q \in Path \ {p} : file[q] # i
        /\ p \notin split => file[p] = i
    BY <2>0, <2>1, <2>2 DEF FilesInv, PoolIsOnFile, CellOf
  <2>4. Doing(o).state = "pending" /\ Doing(o).kind = op[o].kind /\ Doing(o).path = p
    BY <2>1 DEF Files!Pending
  <2>5. CASE /\ op[o].kind = "append" /\ Returns(o, Ok)
             /\ Dropping(pool, [rows EXCEPT ![i] = @ \cup {o}])
    <3>0. PICK contents : /\ contents = [rows EXCEPT ![i] = @ \cup {o}]
                          /\ Dropping(pool, contents)
      BY <2>5
    <3>1. [q \in Op |-> Doing(q)]' = [[q \in Op |-> Doing(q)] EXCEPT ![o] = Ok]
      BY <2>5, Answered DEF Returns
    <3>2. ASSUME NEW q \in Path \ {p} PROVE Stored(q)' = Stored(q)
      <4>1. CASE file[q] # Nil
        <5>1. rows'[file[q]] = contents[file[q]]
          <6>1. q \in Path /\ file'[q] # Nil /\ file'[q] = file[q]
            BY <2>1, <4>1
          <6>2. rows'[file'[q]] = contents[file'[q]]
            BY <3>0, <6>1, NamedIsKept
          <6> QED BY <6>1, <6>2
        <5>2. file[q] \in Inode /\ file[q] # i
          BY <2>3, <4>1 DEF PoolsOK
        <5> QED BY <2>1, <3>0, <4>1, <5>1, <5>2 DEF AnswersOK, Stored
      <4>2. CASE file[q] = Nil
        BY <2>1, <4>2 DEF Stored
      <4> QED BY <4>1, <4>2
    <3>3. CASE p \notin split
      <4>1. file'[p] = i /\ i # Nil
        BY <2>1, <2>2, <2>3, <3>3
      <4>2. rows'[i] = rows[i] \cup {o}
        <5>1. rows'[i] = contents[i]
          BY <3>0, <4>1, NamedIsKept
        <5> QED BY <2>2, <3>0, <5>1 DEF AnswersOK
      <4>3. Stored(p)' = Stored(p) \cup {o}
        BY <2>1, <4>1, <4>2 DEF Stored
      <4>4. [q \in Path |-> Stored(q)]' = [[q \in Path |-> Stored(q)] EXCEPT ![p] = Stored(p) \cup {o}]
        BY <3>2, <4>3, OneFileChanges
      <4>5. Files!Append(o)
        BY <2>1, <2>4, <2>5, <3>1, <4>4 DEF Files!Append, Files!Answers, Ok
      <4> QED BY <4>5 DEF Files!Next, Files!Operation
    <3>4. CASE p \in split
      <4>1. \A q \in Op : Doing(q)' # Doing(q) => q = o
        BY <3>1
      <4>2. Files!Loose(p)
        BY <2>1, <2>4, <3>2, <3>4, <4>1 DEF Files!Loose
      <4> QED BY <4>2 DEF Files!Next
    <3> QED BY <3>3, <3>4
  <2>6. CASE op[o].kind = "query" /\ Returns(o, Read(rows[i])) /\ Dropping(pool, rows)
    <3>1. [q \in Op |-> Doing(q)]' = [[q \in Op |-> Doing(q)] EXCEPT ![o] = Read(rows[i])]
      BY <2>6, Answered DEF Returns
    <3>2. SameFiles
      BY <2>1, <2>6, DroppingKeepsFiles
    <3>3. [q \in Path |-> Stored(q)]' = [q \in Path |-> Stored(q)]
      BY <3>2 DEF SameFiles
    <3>4. CASE p \notin split
      <4>1. rows[i] = Stored(p)
        BY <2>2, <2>3, <3>4 DEF Stored
      <4>2. Files!Query(o)
        BY <2>1, <2>4, <2>6, <3>1, <3>3, <4>1 DEF Files!Query, Files!Answers, Read
      <4> QED BY <4>2 DEF Files!Next, Files!Operation
    <3>5. CASE p \in split
      <4>1. \A q \in Op : Doing(q)' # Doing(q) => q = o
        BY <3>1
      <4>2. Files!Loose(p)
        BY <2>1, <2>4, <3>3, <3>5, <4>1 DEF Files!Loose
      <4> QED BY <4>2 DEF Files!Next
    <3> QED BY <3>4, <3>5
  <2>7. CASE Returns(o, Failed) /\ Dropping(pool, rows)
    BY <2>1, <2>7, Fails, DroppingKeepsFiles DEF Returns
  <2> QED BY <1>9, <2>0, <2>5, <2>6, <2>7 DEF Finish
<1>10. ASSUME NEW o \in Op, Evict(o) PROVE Simulated
  <2>1. Moves(o)
    BY <1>10, <1>a DEF Evict, Busy
  <2> QED BY <1>10, <1>0, <1>b, <2>1 DEF Evict
<1>11. ASSUME NEW o \in Op, EvictEnds(o) PROVE Simulated
  <2>1. Moves(o)
    BY <1>11, <1>a DEF EvictEnds, Busy
  <2> QED BY <1>11, <1>0, <2>1, DroppingKeepsFiles DEF EvictEnds
<1>12. ASSUME NEW o \in Op, RemoveFile(o) PROVE Simulated
  <2>1. PICK p \in Path : p = op[o].path
    BY <1>12, <1>a DEF RemoveFile
  <2>2. /\ Busy(o) /\ op[o].kind = "delete" /\ Doing(o) = Files!Pending("delete", p)
        /\ Dropping(pool, rows) /\ split' = split
    BY <1>12, <1>a, <2>1 DEF RemoveFile, AnswersOK
  <2>3. CASE file' = [file EXCEPT ![p] = Nil] /\ Goes(o, "forgetting")
    <3>1. Moves(o)
      BY <1>12, <1>a, <2>3 DEF Goes, Busy, RemoveFile
    <3>2. [q \in Op |-> Doing(q)]' = [q \in Op |-> Doing(q)]
      BY <3>1, Pending DEF SameCalls
    <3>3. file'[p] = Nil /\ \A q \in Path \ {p} : file'[q] = file[q]
      BY <2>3 DEF PoolsOK
    <3>4. ASSUME NEW q \in Path \ {p} PROVE Stored(q)' = Stored(q)
      BY <2>2, <3>3, NamedIsKept DEF Stored
    <3>5. Stored(p)' = {}
      BY <3>3 DEF Stored
    <3>6. [q \in Path |-> Stored(q)]' = [[q \in Path |-> Stored(q)] EXCEPT ![p] = {}]
      BY <3>4, <3>5, OneFileChanges
    <3>7. Doing(o).state = "pending" /\ Doing(o).kind = "delete" /\ Doing(o).path = p
      BY <2>2 DEF Files!Pending
    <3>8. Files!Unlink(o)
      BY <2>2, <3>2, <3>6, <3>7 DEF Files!Unlink
    <3> QED BY <3>8 DEF Files!Next, Files!Operation
  <2>4. CASE Returns(o, Failed) /\ UNCHANGED file
    BY <2>2, <2>4, Fails, DroppingKeepsFiles DEF Returns
  <2> QED BY <1>12, <2>1, <2>3, <2>4 DEF RemoveFile
<1>13. ASSUME NEW o \in Op, ForgetPath(o) PROVE Simulated
  <2>1. /\ op[o].path \in Path /\ Doing(o) = Files!Pending("delete", op[o].path)
    BY <1>13, <1>a DEF ForgetPath, AnswersOK
  <2>2. [p \in Path |-> Stored(p)]' = [p \in Path |-> Stored(p)]
    BY <1>13, <1>b DEF ForgetPath, SameFiles
  <2>3. [q \in Op |-> Doing(q)]' = [[q \in Op |-> Doing(q)] EXCEPT ![o] = Ok]
    BY <1>13, Answered DEF ForgetPath, Returns
  <2>4. CASE split' = split
    <3>1. Files!Deleted(o)
      BY <2>1, <2>2, <2>3, <2>4 DEF Files!Deleted, Files!Answers, Files!Pending, Ok
    <3> QED BY <3>1 DEF Files!Next, Files!Operation
  <2>5. CASE split' = split \cup {op[o].path}
    <3>1. \A q \in Op : Doing(q)' # Doing(q) => q = o
      BY <2>3
    <3>2. Files!Loose(op[o].path)
      BY <2>1, <2>2, <2>3, <2>5, <3>1 DEF Files!Loose, Files!Pending
    <3> QED BY <2>1, <3>2 DEF Files!Next
  <2> QED BY <1>13, <2>4, <2>5 DEF ForgetPath
<1>14. CASE Sweep
  BY <1>14, <1>b, Stutters DEF Sweep, SameCalls, Doing, Busy
<1>15. CASE CloseEntry
  BY <1>15, <1>b, Stutters DEF CloseEntry, SameCalls, Doing, Busy
<1>16. CASE CloseEnds
  BY <1>16, DroppingKeepsFiles, Stutters DEF CloseEnds, SameCalls, Doing, Busy
<1>17. CASE UNCHANGED vars
  BY <1>17, <1>b, Stutters DEF vars, SameCalls, Doing, Busy
<1> QED
  BY <1>1, <1>2, <1>3, <1>4, <1>5, <1>6, <1>7, <1>8, <1>9, <1>10,
     <1>11, <1>12, <1>13, <1>14, <1>15, <1>16, <1>17
  DEF Next, Runs, Append, Query, DeleteBefore, Op, Kind

\* The week files are linearizable, for any paths, flushes and requests: every
\* step of the pool cache, the janitor and retention is one of WeekFiles, or none.
THEOREM StoreIsLinearizable == Spec => Linearizable
<1>1. Init => Files!Init
  BY DEF Init, Files!Init, Files!None, Stored, Doing, Busy, Idle, Failed
<1>2. Inv /\ Inv' /\ [Next]_vars => [Files!Next]_(Files!vars)
  BY Simulation
<1> QED BY <1>1, <1>2, InvHolds, PTL DEF Spec, Linearizable, Files!Spec
================================================================================
