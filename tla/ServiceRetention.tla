--------------------------- MODULE ServiceRetention ---------------------------
(***************************************************************************)
(* Retention (retention.rs) over the service dictionary: what callers      *)
(* write under the ids they were given (metrics rows, rolled up into       *)
(* coarser buckets, and log checkpoints), and the cleanup pass that prunes *)
(* the stores one after the other and reclaims ids last.                   *)
(***************************************************************************)
EXTENDS ServiceRegistry

CONSTANTS
  Bucket,          \* the widest bucket, MetricsResolution::max_bucket_ms
  Week,            \* a week
  RetentionWeeks,  \* VPSINER_RETENTION_WEEKS
  Ages,            \* how old a line can be when its checkpoint is written
  MaxRecords       \* bound: records that exist when another is written

ASSUME RetentionAssumption ==
  /\ Bucket \in Nat \ {0}
  /\ Week \in Nat \ {0}
  /\ RetentionWeeks \in Nat
  /\ OpTime <= Bucket  \* every call times out well within an hour
  /\ Ages \subseteq Nat
  /\ MaxRecords \in Nat

VARIABLES
  rows,         \* container metrics: id, timestamp, and the service it is of
  checkpoints,  \* log checkpoints, likewise
  cleaner,      \* the cleanup pass
  pruneFailed   \* history: checkpoints were once left unpruned by a failure

retentionVars == <<rows, checkpoints, cleaner, pruneFailed>>
vars == <<registryVars, retentionVars>>

--------------------------------------------------------------------------------
Record == [sid: Sid, ts: Nat, of: Name]
IdleCleaner == [pc |-> "idle", cutoff |-> 0, ok |-> TRUE, starting |-> FALSE]

\* bucket_end: the window that contains ts is open below and closed above.
\* Mutant: the outer sign is lost.
SignLost(ts) == ((-ts) \div Bucket) * Bucket
BucketEnd(ts) == -((-ts) \div Bucket) * Bucket

\* retention_cutoff_ms: the start of a week, so many weeks ago.
Cutoff == now - (now % Week) - RetentionWeeks * Week

\* A surviving row's timestamp leads its samples by up to a bucket, and the
\* watermark trails them by up to the touch interval.
\* Mutant: ids are reclaimed at the cutoff of the rows.
NoSlack(cutoff) == cutoff
ReclaimCutoff(cutoff) == cutoff - Bucket - TouchInterval

Init ==
  /\ RegistryInit
  /\ rows = {}
  /\ checkpoints = {}
  /\ cleaner = IdleCleaner
  /\ pruneFailed = FALSE

--------------------------------------------------------------------------------
(* What callers do with an id.  The collectors and the ingestion start after
   the startup cleanup; the observers and log tasks that call id_of before. *)

IdOf(k) == IdOfStep(k) /\ UNCHANGED retentionVars

CanWrite ==
  /\ ~cleaner.starting
  /\ Cardinality(rows \cup checkpoints) < MaxRecords

\* The sample that the id was looked up for becomes a row.
WriteRow(k) ==
  LET c == caller[k] IN
  /\ CanWrite
  /\ Use(k)
  /\ rows' = rows \cup {[sid |-> c.sid, ts |-> c.at, of |-> c.name]}
  /\ UNCHANGED <<checkpoints, cleaner, pruneFailed>>

\* A flush advances a container's checkpoint to a line of that time or older.
WriteCheckpoint(k) ==
  LET c == caller[k] IN
  /\ CanWrite
  /\ Use(k)
  /\ \E age \in Ages :
        /\ age <= c.at
        /\ checkpoints' = checkpoints \cup {[sid |-> c.sid, ts |-> c.at - age, of |-> c.name]}
  /\ UNCHANGED <<rows, cleaner, pruneFailed>>

\* The sample failed, the log task only reads: nothing is written.
Discard(k) == Use(k) /\ UNCHANGED retentionVars

\* A closed bucket is rolled up, under the ids of its rows.
RollUp(r) ==
  /\ BucketEnd(r.ts) <= now
  /\ ~cleaner.starting
  /\ rows' = rows \cup {[r EXCEPT !.ts = BucketEnd(r.ts)]}
  /\ rows' # rows
  /\ UNCHANGED <<registryVars, checkpoints, cleaner, pruneFailed>>

--------------------------------------------------------------------------------
(* cleanup_once *)

BeginCleanup ==
  /\ cleaner.pc = "idle"
  /\ cleaner' = [cleaner EXCEPT !.pc = "metrics", !.cutoff = Cutoff, !.ok = TRUE]
  /\ UNCHANGED <<registryVars, rows, checkpoints, pruneFailed>>

CleanMetrics ==
  /\ cleaner.pc = "metrics"
  /\ rows' = {r \in rows : r.ts >= cleaner.cutoff}
  /\ cleaner' = [cleaner EXCEPT !.pc = "logs"]
  /\ UNCHANGED <<registryVars, checkpoints, pruneFailed>>

\* One statement per table: those before the one that fails have deleted.
CleanMetricsFails ==
  /\ cleaner.pc = "metrics"
  /\ \E gone \in SUBSET {r \in rows : r.ts < cleaner.cutoff} : rows' = rows \ gone
  /\ cleaner' = [cleaner EXCEPT !.pc = "logs", !.ok = FALSE]
  /\ Suffer
  /\ UNCHANGED <<now, nameOf, lastSeen, nextSid, byName, touched, lock, caller,
                 dropped, lapsed, checkpoints, pruneFailed>>

CleanLogs ==
  /\ cleaner.pc = "logs"
  /\ cleaner' = [cleaner EXCEPT !.pc = "prune"]
  /\ UNCHANGED <<registryVars, rows, checkpoints, pruneFailed>>

\* Without the log databases gone, neither checkpoints nor ids are dropped.
CleanLogsFails ==
  /\ cleaner.pc = "logs"
  /\ cleaner' = IdleCleaner
  /\ Suffer
  /\ UNCHANGED <<now, nameOf, lastSeen, nextSid, byName, touched, lock, caller,
                 dropped, lapsed, rows, checkpoints, pruneFailed>>

\* Ids are reclaimed only if the metrics were cleaned too.
\* Mutant: whatever became of the metrics.
ReclaimAnyway == [cleaner EXCEPT !.pc = "reclaim"]
AfterPrune == IF cleaner.ok THEN [cleaner EXCEPT !.pc = "reclaim"] ELSE IdleCleaner

Prune ==
  /\ cleaner.pc = "prune"
  /\ checkpoints' = {p \in checkpoints : p.ts >= cleaner.cutoff}
  /\ cleaner' = AfterPrune
  /\ UNCHANGED <<registryVars, rows, pruneFailed>>

PruneFails ==
  /\ cleaner.pc = "prune"
  /\ cleaner' = AfterPrune
  /\ pruneFailed' = TRUE
  /\ Suffer
  /\ UNCHANGED <<now, nameOf, lastSeen, nextSid, byName, touched, lock, caller,
                 dropped, lapsed, rows, checkpoints>>

Reclaim ==
  /\ cleaner.pc = "reclaim"
  /\ ReclaimDelete(ReclaimCutoff(cleaner.cutoff))
  /\ cleaner' = [cleaner EXCEPT !.pc = "forget"]
  /\ UNCHANGED <<rows, checkpoints, pruneFailed>>

Forget ==
  /\ cleaner.pc = "forget"
  /\ ReclaimForget
  /\ cleaner' = IdleCleaner
  /\ UNCHANGED <<rows, checkpoints, pruneFailed>>

CleanupGivesUp ==
  /\ cleaner.pc = "reclaim"
  /\ ReclaimFails
  /\ cleaner' = IdleCleaner
  /\ UNCHANGED <<rows, checkpoints, pruneFailed>>

--------------------------------------------------------------------------------
\* A restart runs a cleanup before the collectors start.
Restart ==
  /\ RegistryRestart
  /\ cleaner' = [pc |-> "metrics", cutoff |-> Cutoff, ok |-> TRUE, starting |-> TRUE]
  /\ UNCHANGED <<rows, checkpoints, pruneFailed>>

Pass == Tick /\ UNCHANGED retentionVars

Next ==
  \/ \E k \in Caller : IdOf(k)
  \/ \E k \in Caller : WriteRow(k)
  \/ \E k \in Caller : WriteCheckpoint(k)
  \/ \E k \in Caller : Discard(k)
  \/ \E r \in rows : RollUp(r)
  \/ BeginCleanup
  \/ CleanMetrics
  \/ CleanMetricsFails
  \/ CleanLogs
  \/ CleanLogsFails
  \/ Prune
  \/ PruneFails
  \/ Reclaim
  \/ Forget
  \/ CleanupGivesUp
  \/ Restart
  \/ Pass

Spec == Init /\ [][Next]_vars

--------------------------------------------------------------------------------
\* Every variable stays within its type.
TypeOK ==
  /\ RegistryTypeOK
  /\ rows \subseteq Record
  /\ checkpoints \subseteq Record
  /\ cleaner \in [pc: {"idle", "metrics", "logs", "prune", "reclaim", "forget"},
                  cutoff: Int, ok: BOOLEAN, starting: BOOLEAN]
  /\ pruneFailed \in BOOLEAN

\* "no surviving metrics row or checkpoint can reference a dropped sid"
\* (retention.rs:50).
RowsHaveService == \A r \in rows : r.sid \in Interned
CheckpointsHaveService == \A p \in checkpoints : p.sid \in Interned

\* What holds of it: no metrics row outlives its id unless a touch was lost, and
\* no checkpoint does unless, besides, a prune failed.
NoOrphans ==
  ~lapsed => RowsHaveService /\ (~pruneFailed => CheckpointsHaveService)

\* Whatever failed, a row or checkpoint is never read as another service's: the
\* name its id resolves to, in the cache or the table, is the one it was
\* written for, or none.
NoMisattribution ==
  \A r \in rows \cup checkpoints :
     /\ nameOf[r.sid] \in {r.of, NoName}
     /\ \A n \in Name : byName[n] = r.sid => n = r.of

--------------------------------------------------------------------------------
(* The inductive invariants behind NoMisattribution and NoOrphans (proved in
   DatabaseProofs). *)

RecordsAttributed == \A r \in rows \cup checkpoints : Attributed(r.sid, r.of)

RetentionInv == TypeOK /\ RegistryInv /\ RecordsAttributed

\* Id s has a row, whose watermark is, or is being brought, less than the touch
\* interval behind t.
Noted(s, t) ==
  /\ s \in Interned
  /\ \/ t < lastSeen[s] + TouchInterval
     \/ \E k \in Caller : LET c == caller[k] IN
          c.pc = "touching" /\ c.sid = s /\ t < c.at + TouchInterval

\* A call ends in time, and a pass never works with a cutoff in the future.
InTime ==
  /\ \A k \in Caller : caller[k].pc # "idle" => now <= caller[k].at + OpTime
  /\ cleaner.pc # "idle" => cleaner.cutoff <= now
  /\ cleaner.pc \in {"reclaim", "forget"} => cleaner.ok

\* touched_ms runs ahead of the table only for the id that is being touched.
TouchedIsNoted ==
  \A s \in Sid : touched[s] # Never =>
     \/ touched[s] <= lastSeen[s]
     \/ \E k \in Caller : LET c == caller[k] IN
          c.pc = "touching" /\ c.sid = s /\ touched[s] <= c.at

\* What is being forgotten has not been seen since long before the cutoff.
DroppedIsStale ==
  \A s \in dropped :
     cleaner.pc = "forget" /\ lastSeen[s] < ReclaimCutoff(cleaner.cutoff)

CallersNoted ==
  \A k \in Caller : LET c == caller[k] IN
     c.pc \in {"touching", "got"} => Noted(c.sid, c.at)

\* A row's id was used in the row's bucket or later; once the metrics are
\* cleaned, every row's id was used in the bucket before the cutoff or later.
RowsNoted ==
  \A r \in rows :
     /\ Noted(r.sid, BucketEnd(r.ts) - Bucket)
     /\ cleaner.pc \in {"logs", "prune", "reclaim"} /\ cleaner.ok =>
           Noted(r.sid, cleaner.cutoff - Bucket)

CheckpointsNoted ==
  ~pruneFailed => \A p \in checkpoints :
     /\ Noted(p.sid, p.ts)
     /\ cleaner.pc = "reclaim" => Noted(p.sid, cleaner.cutoff - Bucket)

OrphanInv ==
  /\ RetentionInv
  /\ InTime
  /\ DroppedIsStale
  /\ ~lapsed => TouchedIsNoted /\ CallersNoted /\ RowsNoted /\ CheckpointsNoted
================================================================================
