---------------------------- MODULE IngestionProofs ----------------------------
(***************************************************************************)
(* Proofs about the ingestion of the logs, for all containers, logs, bounds*)
(* and intervals.  Of LogBuffer: its type correctness; that what a         *)
(* persisted checkpoint makes ingestion skip has landed unless two flushes *)
(* overlapped; that the buffer stays within its maximum; that a replay     *)
(* stores no line twice; and that the lines of a millisecond are stored in *)
(* the order they were written.  Of ContainerObserver: its type            *)
(* correctness, and that neither a change nor a start is lost on the way   *)
(* from Docker's events to the log tasks.                                  *)
(***************************************************************************)
EXTENDS LogBuffer, ContainerObserver, FiniteSetTheorems, SequenceTheorems, TLAPS

\* What LinesIn makes of the sequence operations of the buffer.
LEMMA LinesInAppend ==
  ASSUME NEW S, NEW s \in Seq(S), NEW x \in S
  PROVE  LinesIn(Append(s, x)) = LinesIn(s) \cup {x}
<1>1. DOMAIN Append(s, x) = 1..(Len(s) + 1) /\ DOMAIN s = 1..Len(s) /\ Len(s) \in Nat
  OBVIOUS
<1>2. \A i \in 1..Len(s) : Append(s, x)[i] = s[i]
  OBVIOUS
<1>3. Append(s, x)[Len(s) + 1] = x
  OBVIOUS
<1>4. 1..(Len(s) + 1) = (1..Len(s)) \cup {Len(s) + 1}
  BY <1>1
<1> QED BY <1>1, <1>2, <1>3, <1>4 DEF LinesIn

\* The lines of two sequences put together.
LEMMA LinesInConcat ==
  ASSUME NEW S, NEW s \in Seq(S), NEW t \in Seq(S)
  PROVE  LinesIn(s \o t) = LinesIn(s) \cup LinesIn(t)
<1>1. \A i \in 1..Len(s) : (s \o t)[i] = s[i]
  OBVIOUS
<1>2. \A j \in 1..Len(t) : (s \o t)[Len(s) + j] = t[j]
  OBVIOUS
<1>3. \A k \in 1..(Len(s) + Len(t)) :
         k \in 1..Len(s) \/ \E j \in 1..Len(t) : k = Len(s) + j
  <2> TAKE k \in 1..(Len(s) + Len(t))
  <2>1. CASE k <= Len(s)
    BY <2>1
  <2>2. CASE k > Len(s)
    <3>1. k - Len(s) \in 1..Len(t) /\ k = Len(s) + (k - Len(s))
      BY <2>2
    <3> QED BY <3>1
  <2> QED BY <2>1, <2>2
<1>4. DOMAIN (s \o t) = 1..(Len(s) + Len(t)) /\ DOMAIN s = 1..Len(s) /\ DOMAIN t = 1..Len(t)
  OBVIOUS
<1>5. \A j \in 1..Len(t) : Len(s) + j \in 1..(Len(s) + Len(t))
  OBVIOUS
<1>6. \A i \in 1..Len(s) : i \in 1..(Len(s) + Len(t))
  OBVIOUS
<1>7. LinesIn(s) \subseteq LinesIn(s \o t)
  BY <1>1, <1>4, <1>6 DEF LinesIn
<1>8. LinesIn(t) \subseteq LinesIn(s \o t)
  BY <1>2, <1>4, <1>5 DEF LinesIn
<1>9. LinesIn(s \o t) \subseteq LinesIn(s) \cup LinesIn(t)
  <2>1. ASSUME NEW k \in 1..(Len(s) + Len(t))
        PROVE  (s \o t)[k] \in LinesIn(s) \cup LinesIn(t)
    BY <1>1, <1>2, <1>3, <1>4 DEF LinesIn
  <2> QED BY <2>1, <1>4 DEF LinesIn
<1> QED BY <1>7, <1>8, <1>9

\* An empty buffer holds no line.
LEMMA LinesInEmpty == LinesIn(<<>>) = {}
BY DEF LinesIn

\* The timestamps and contents that a line's name stands for.
LEMMA DockerTyping ==
  ASSUME docker \in Logs
  PROVE  /\ \A c \in Cid : docker[c] \in Seq(DockerLine)
         /\ \A l \in DockerLines : /\ l.cid \in Cid
                                   /\ l.idx \in 1..Len(docker[l.cid])
                                   /\ Ts(l) \in Nat
                                   /\ Payload(l) \in Content
                                   /\ WeekOf(l) \in Nat
<1>1. docker \in [Cid -> Seq(DockerLine)]
  BY LogsAssumption
<1>2. \A c \in Cid : docker[c] \in Seq(DockerLine)
  BY <1>1
<1>3. ASSUME NEW l \in DockerLines
      PROVE  /\ l.cid \in Cid
             /\ l.idx \in 1..Len(docker[l.cid])
             /\ Ts(l) \in Nat
             /\ Payload(l) \in Content
             /\ WeekOf(l) \in Nat
  <2>1. l.cid \in Cid /\ l.idx \in 1..Len(docker[l.cid])
    BY <1>2 DEF DockerLines
  <2>2. docker[l.cid][l.idx] \in DockerLine
    BY <2>1, <1>2
  <2>3. Ts(l) \in Nat /\ Payload(l) \in Content
    BY <2>2 DEF DockerLine, Ts, Payload
  <2>4. Ts(l) \div MsPerWeek \in Nat
    BY <2>3, ConstantsAssumption
  <2> QED BY <2>1, <2>3, <2>4 DEF WeekOf
<1> QED BY <1>2, <1>3

\* A container without a checkpoint has one in type.
LEMMA NoCheckpointTyping == NoCheckpoint \in Checkpoint
BY ConstantsAssumption DEF NoCheckpoint, Checkpoint

\* The sequences and sets that the actions build are of the right kind.
LEMMA LinesInTyping ==
  ASSUME NEW s \in Seq(DockerLines)
  PROVE  LinesIn(s) \subseteq DockerLines
BY DEF LinesIn

\* The fields of a flush.
LEMMA FlushTyping ==
  ASSUME TypeOK, NEW f \in Flusher
  PROVE  /\ flush[f].pc \in {"idle", "take", "append", "intern", "advance"}
         /\ flush[f].batch \in Seq(DockerLines)
         /\ flush[f].weeks \in SUBSET Nat
         /\ flush[f].cks \in SUBSET CidCheckpoint
         /\ DOMAIN flush = Flusher
BY DEF TypeOK, FlushState
\* A bounded trouble keeps its counters in range.
LEMMA SufferTyping ==
  ASSUME TypeOK, NEW kinds \in SUBSET {"failure", "restart"}, Suffer(kinds)
  PROVE  troubles' \in 0..MaxTroubles[docker] /\ suffered' \subseteq {"failure", "restart"}
BY ConstantsAssumption DEF TypeOK, Suffer

\* What retention takes, and all the rest, which it leaves alone.
LEMMA RetentionChanges ==
  ASSUME Retention
  PROVE  /\ UNCHANGED <<docker, following, pos, ingest, lines, seen, worker, token,
                        flush, nextRow, fresh, overlapped, troubles, suffered>>
         /\ rows' \subseteq rows
         /\ \/ WeekPasses
            \/ \E w : DeleteWeek(w)
            \/ \E w \in 1..oldest : PruneCheckpoints(w)
BY DEF Retention, WeekPasses, DeleteWeek, PruneCheckpoints

\* What Docker has logged stays: no action changes it.
LEMMA DockerStays ==
  ASSUME Next \/ UNCHANGED vars
  PROVE  docker' = docker /\ DockerLines' = DockerLines /\ FlushState' = FlushState
<1>1. docker' = docker
  BY RetentionChanges DEF Next, FlushStep, Follow, StreamEnds, PushAccept, PushDrop, ScheduleFlush,
         WorkerReceives, WorkerDebounced, WorkerRetires, TakeNothing, Take,
         CommitWeek, AppendFails, Intern, InternFails, AdvanceCheckpoint,
         AdvanceFails, Notify, Crash, vars
<1>2. DockerLines' = DockerLines
  BY <1>1 DEF DockerLines
<1> QED BY <1>1, <1>2 DEF FlushState

\* The record of a flush stays of its type under the updates that are made.
LEMMA FlushUpdateTyping ==
  ASSUME TypeOK, docker' = docker, NEW f \in Flusher,
         NEW r \in FlushState,
         flush' = [flush EXCEPT ![f] = r]
  PROVE  flush' \in [Flusher -> FlushState]
BY DEF TypeOK

\* A flush that is over is in type.
LEMMA IdleFlushTyping ==
  IdleFlush \in FlushState
BY DEF IdleFlush, FlushState

\* What a flush leaves to its caller.
LEMMA ReturnTyping ==
  ASSUME TypeOK, NEW f \in Flusher, Return(f)
  PROVE  /\ flush' \in [Flusher -> FlushState]
         /\ worker' \in {"none", "waiting", "debouncing", "flushing"}
         /\ ingest' \in {"recv", "schedule", "flush"}
BY IdleFlushTyping DEF TypeOK, Return

--------------------------------------------------------------------------------
\* Every step, of Docker's side, the ingestion loop, the worker and the flushes,
\* keeps every variable in its type.
LEMMA TypeOKStep ==
  ASSUME TypeOK, Next \/ UNCHANGED vars
  PROVE  TypeOK'
<1> USE DEF TypeOK, FlushState
<1>0. /\ docker' = docker /\ docker' \in Logs
      /\ DockerLines' = DockerLines /\ FlushState' = FlushState
  BY DockerStays
<1>1. ASSUME NEW c \in Cid, Follow(c) PROVE TypeOK'
  <2>1. \A p \in 0..(Len(docker[c]) + 1) : p \in Nat
    BY DockerTyping
  <2>2. \A p : IsFirstSince(docker[c], ckpt[c], p) => p >= 1
    BY DEF IsFirstSince
  <2>3. pos' \in [Cid -> Nat \ {0}]
    BY <1>1, <2>1, <2>2 DEF Follow
  <2> QED BY <1>0, <1>1, <2>3 DEF Follow
<1>2. ASSUME NEW c \in Cid, StreamEnds(c) PROVE TypeOK'
  <2>1. pos' \in [Cid -> Nat \ {0}]
    BY <1>2 DEF StreamEnds
  <2>2. troubles' \in 0..MaxTroubles[docker] /\ suffered' \subseteq {"failure", "restart"}
    BY <1>2, SufferTyping DEF StreamEnds
  <2> QED BY <1>0, <1>2, <2>1, <2>2 DEF StreamEnds
<1>3. ASSUME NEW c \in Cid, PushAccept(c) PROVE TypeOK'
  <2> DEFINE l == [cid |-> c, idx |-> pos[c]]
  <2>1. l \in DockerLines
    BY <1>3 DEF PushAccept, DockerLines
  <2>2. [ts |-> Ts(l), content |-> Payload(l)] \in Checkpoint
    BY <2>1, DockerTyping DEF Checkpoint
  <2>3. seen' \in [Cid -> Checkpoint]
    BY <1>3, <2>2 DEF PushAccept
  <2>4. lines' \in Seq(DockerLines)
    BY <1>3, <2>1 DEF PushAccept
  <2>5. pos' \in [Cid -> Nat \ {0}]
    BY <1>3 DEF PushAccept
  <2>6. ingest' \in {"recv", "schedule", "flush"}
    BY <1>3 DEF PushAccept
  <2>7. flush' \in [Flusher -> FlushState]
    <3>1. flush' = [flush EXCEPT !["inline"].pc = "take"] \/ flush' = flush
      BY <1>3 DEF PushAccept
    <3>2. CASE flush' = [flush EXCEPT !["inline"].pc = "take"]
      BY <3>2 DEF Flusher
    <3>3. CASE flush' = flush
      BY <3>3
    <3> QED BY <3>1, <3>2, <3>3
  <2> HIDE DEF l
  <2> QED BY <1>0, <1>3, <2>3, <2>4, <2>5, <2>6, <2>7 DEF PushAccept
<1>4. ASSUME NEW c \in Cid, PushDrop(c) PROVE TypeOK'
  <2>1. pos' \in [Cid -> Nat \ {0}]
    BY <1>4 DEF PushDrop
  <2> QED BY <1>0, <1>4, <2>1 DEF PushDrop
<1>5. CASE ScheduleFlush
  BY <1>0, <1>5 DEF ScheduleFlush
<1>6. CASE WorkerReceives
  BY <1>0, <1>6 DEF WorkerReceives
<1>7. CASE WorkerDebounced
  <2>1. flush' \in [Flusher -> FlushState]
    <3>1. flush' = [flush EXCEPT !["worker"].pc = "take"] /\ "worker" \in Flusher
      BY <1>7 DEF WorkerDebounced, Flusher
    <3>2. [flush["worker"] EXCEPT !.pc = "take"] \in FlushState
      BY <3>1
    <3> QED BY <3>1, <3>2
  <2> QED BY <1>0, <1>7, <2>1 DEF WorkerDebounced
<1>8. CASE WorkerRetires
  BY <1>0, <1>8 DEF WorkerRetires
<1>9. ASSUME NEW f \in Flusher, TakeNothing(f) PROVE TypeOK'
  BY <1>0, <1>9, ReturnTyping DEF TakeNothing
<1>10. ASSUME NEW f \in Flusher, Take(f) PROVE TypeOK'
  <2> DEFINE weeks == {WeekOf(l) : l \in LinesIn(lines)}
             cks == {[cid |-> c, ts |-> seen[c].ts, content |-> seen[c].content] :
                       c \in {l.cid : l \in LinesIn(lines)}}
  <2>1. LinesIn(lines) \subseteq DockerLines
    BY LinesInTyping
  <2>2. weeks \subseteq Nat
    BY <2>1, DockerTyping
  <2>3. \A c \in Cid : [cid |-> c, ts |-> seen[c].ts, content |-> seen[c].content]
                         \in CidCheckpoint
    BY DEF CidCheckpoint, Checkpoint
  <2>4. {l.cid : l \in LinesIn(lines)} \subseteq Cid
    BY <2>1, DockerTyping
  <2>5. cks \subseteq CidCheckpoint
    BY <2>3, <2>4
  <2>6. [pc |-> "append", batch |-> lines, weeks |-> weeks, cks |-> cks]
          \in FlushState
    BY <2>2, <2>5
  <2>7. flush' = [flush EXCEPT ![f] =
                    [pc |-> "append", batch |-> lines, weeks |-> weeks, cks |-> cks]]
    BY <1>10 DEF Take
  <2> HIDE DEF weeks, cks
  <2>8. flush' \in [Flusher -> FlushState]
    BY <2>6, <2>7
  <2>9. lines' \in Seq(DockerLines) /\ overlapped' \in BOOLEAN
    BY <1>10 DEF Take
  <2> QED BY <1>0, <1>10, <2>8, <2>9 DEF Take
<1>11. ASSUME NEW f \in Flusher, NEW w \in flush[f].weeks, CommitWeek(f, w) PROVE TypeOK'
  <2> DEFINE batch == flush[f].batch
             part == {i \in DOMAIN batch : WeekOf(batch[i]) = w}
  <2>1. batch \in Seq(DockerLines) /\ nextRow \in Nat \ {0}
    BY FlushTyping
  <2>2. \A i \in DOMAIN batch : batch[i] \in DockerLines /\ nextRow + i \in Nat
    BY <2>1
  <2>3. /\ rows' = rows \cup {[line |-> batch[i], id |-> nextRow + i] : i \in part}
        /\ nextRow' = nextRow + Len(batch)
        /\ fresh' = fresh \cup {batch[i] : i \in part}
    BY <1>11 DEF CommitWeek
  <2> HIDE DEF batch
  <2>4. rows' \subseteq [line: DockerLines, id: Nat]
    BY <2>2, <2>3
  <2>5. fresh' \subseteq DockerLines /\ nextRow' \in Nat \ {0}
    BY <2>1, <2>2, <2>3
  <2>6. flush' \in [Flusher -> FlushState]
    <3>1. flush[f] \in FlushState /\ AfterCommit(f, w) \in {"intern", "append"}
      BY DEF AfterCommit
    <3>2. [flush[f] EXCEPT !.weeks = @ \ {w}, !.pc = AfterCommit(f, w)] \in FlushState
      BY <3>1
    <3>3. flush' = [flush EXCEPT ![f] = [flush[f] EXCEPT !.weeks = @ \ {w}, !.pc = AfterCommit(f, w)]]
      BY <1>11 DEF CommitWeek
    <3> QED BY <3>2, <3>3
  <2> QED BY <1>0, <1>11, <2>4, <2>5, <2>6 DEF CommitWeek
<1>12. ASSUME NEW f \in Flusher, AppendFails(f) PROVE TypeOK'
  <2>1. lines' \in Seq(DockerLines)
    BY <1>12, FlushTyping DEF AppendFails, Requeued
  <2>2. token' \in BOOLEAN
    BY <1>12 DEF AppendFails, RetryRequested
  <2>3. troubles' \in 0..MaxTroubles[docker] /\ suffered' \subseteq {"failure", "restart"}
    BY <1>12, SufferTyping DEF AppendFails
  <2> QED BY <1>0, <1>12, <2>1, <2>2, <2>3, ReturnTyping DEF AppendFails
<1>13. ASSUME NEW f \in Flusher, Intern(f) PROVE TypeOK'
  <2>1. flush' \in [Flusher -> FlushState]
    <3>1. flush' = [flush EXCEPT ![f] = [flush[f] EXCEPT !.pc = "advance"]]
      BY <1>13 DEF Intern
    <3>2. [flush[f] EXCEPT !.pc = "advance"] \in FlushState
      OBVIOUS
    <3> QED BY <3>1, <3>2
  <2> QED BY <1>0, <1>13, <2>1 DEF Intern
<1>14. ASSUME NEW f \in Flusher, InternFails(f) PROVE TypeOK'
  <2>1. troubles' \in 0..MaxTroubles[docker] /\ suffered' \subseteq {"failure", "restart"}
    BY <1>14, SufferTyping DEF InternFails
  <2> QED BY <1>0, <1>14, <2>1, ReturnTyping DEF InternFails
<1>15. ASSUME NEW f \in Flusher, NEW ck \in flush[f].cks, AdvanceCheckpoint(f, ck)
       PROVE  TypeOK'
  <2>1. ck \in CidCheckpoint
    BY FlushTyping
  <2>2. ck.cid \in Cid /\ [ts |-> ck.ts, content |-> ck.content] \in Checkpoint
    BY <2>1 DEF CidCheckpoint, Checkpoint
  <2>3. ckpt' \in [Cid -> Checkpoint]
    BY <1>15, <2>2 DEF AdvanceCheckpoint, Upsert
  <2>4. flush' \in [Flusher -> FlushState]
    <3>1. flush' = [flush EXCEPT ![f] = [flush[f] EXCEPT !.cks = @ \ {ck}]]
      BY <1>15 DEF AdvanceCheckpoint
    <3>2. [flush[f] EXCEPT !.cks = @ \ {ck}] \in FlushState
      OBVIOUS
    <3> QED BY <3>1, <3>2
  <2> QED BY <1>0, <1>15, <2>3, <2>4 DEF AdvanceCheckpoint
<1>16. ASSUME NEW f \in Flusher, NEW ck \in flush[f].cks, AdvanceFails(f, ck)
       PROVE  TypeOK'
  <2>1. flush' \in [Flusher -> FlushState]
    BY <1>16 DEF AdvanceFails
  <2>2. troubles' \in 0..MaxTroubles[docker] /\ suffered' \subseteq {"failure", "restart"}
    BY <1>16, SufferTyping DEF AdvanceFails
  <2> QED BY <1>0, <1>16, <2>1, <2>2 DEF AdvanceFails
<1>17. ASSUME NEW f \in Flusher, Notify(f) PROVE TypeOK'
  BY <1>0, <1>17, ReturnTyping DEF Notify
<1>18. CASE Crash
  <2>1. troubles' \in 0..MaxTroubles[docker] /\ suffered' \subseteq {"failure", "restart"}
    BY <1>18, SufferTyping DEF Crash
  <2>2. flush' \in [Flusher -> FlushState]
    BY <1>18, IdleFlushTyping, <1>0 DEF Crash
  <2>3. seen' \in [Cid -> Checkpoint] /\ pos' \in [Cid -> Nat \ {0}]
    BY <1>18 DEF Crash
  <2>4. lines' \in Seq(DockerLines)
    BY <1>18 DEF Crash
  <2> QED BY <1>0, <1>18, <2>1, <2>2, <2>3, <2>4 DEF Crash
<1>19. CASE UNCHANGED vars
  BY <1>0, <1>19 DEF vars
<1>20. CASE WeekPasses
  <2>1. oldest' \in 0..MaxOldest
    BY <1>20, ConstantsAssumption DEF WeekPasses
  <2> QED BY <1>0, <1>20, <2>1 DEF WeekPasses
<1>21. ASSUME NEW w, DeleteWeek(w) PROVE TypeOK'
  <2>1. rows' \subseteq [line: DockerLines, id: Nat]
    BY <1>21 DEF DeleteWeek
  <2> QED BY <1>0, <1>21, <2>1 DEF DeleteWeek
<1>22. ASSUME NEW w \in 1..oldest, PruneCheckpoints(w) PROVE TypeOK'
  <2>1. ckpt' \in [Cid -> Checkpoint]
    BY <1>22, NoCheckpointTyping DEF PruneCheckpoints
  <2> QED BY <1>0, <1>22, <2>1 DEF PruneCheckpoints
<1> QED
  BY <1>1, <1>2, <1>3, <1>4, <1>5, <1>6, <1>7, <1>8, <1>9, <1>10, <1>11, <1>12,
     <1>13, <1>14, <1>15, <1>16, <1>17, <1>18, <1>19, <1>20, <1>21, <1>22,
     RetentionChanges DEF Next, FlushStep

\* The types hold when the process starts for the first time.
LEMMA InitTypeOK == Init => TypeOK
<1> SUFFICES ASSUME Init PROVE TypeOK
  OBVIOUS
<1>1. flush \in [Flusher -> FlushState]
  BY IdleFlushTyping DEF Init
<1>2. seen \in [Cid -> Checkpoint] /\ ckpt \in [Cid -> Checkpoint]
  BY NoCheckpointTyping DEF Init
<1>3. lines \in Seq(DockerLines)
  BY DEF Init
<1>4. /\ pos \in [Cid -> Nat \ {0}] /\ nextRow \in Nat \ {0} /\ oldest \in 0..MaxOldest
      /\ troubles \in 0..MaxTroubles[docker]
  BY ConstantsAssumption DEF Init
<1> QED BY <1>1, <1>2, <1>3, <1>4 DEF Init, TypeOK

\* Every behaviour of the specification keeps the types, whatever the logs, the
\* buffer's maximum and the number of troubles.
THEOREM TypeCorrect == Spec => []TypeOK
<1>1. Init => TypeOK
  BY InitTypeOK
<1>2. TypeOK /\ [Next]_vars => TypeOK'
  BY TypeOKStep
<1> QED BY <1>1, <1>2, PTL DEF Spec
--------------------------------------------------------------------------------
(* Which actions change what. *)

\* The retention cutoff is a moment, and never goes back.
LEMMA CutoffTyping ==
  ASSUME TypeOK
  PROVE  Cutoff \in Nat
<1>1. oldest \in Nat /\ MsPerWeek \in Nat
  BY ConstantsAssumption DEF TypeOK
<1> QED BY <1>1 DEF Cutoff, CutoffOf

LEMMA CutoffGrows ==
  ASSUME TypeOK, Next \/ UNCHANGED vars
  PROVE  Cutoff \in Nat /\ Cutoff' \in Nat /\ Cutoff <= Cutoff'
<1>1. oldest \in Nat /\ MsPerWeek \in Nat /\ (oldest' = oldest \/ oldest' = oldest + 1)
  <2>1. oldest' = oldest \/ WeekPasses
    BY DEF Next, FlushStep, Follow, StreamEnds, PushAccept, PushDrop, ScheduleFlush,
           WorkerReceives, WorkerDebounced, WorkerRetires, TakeNothing, Take,
           CommitWeek, AppendFails, Intern, InternFails, AdvanceCheckpoint,
           AdvanceFails, Notify, Crash, vars, Retention, DeleteWeek, PruneCheckpoints
  <2> QED BY <2>1, ConstantsAssumption DEF TypeOK, WeekPasses
<1>2. oldest * MsPerWeek \in Nat /\ (oldest + 1) * MsPerWeek = oldest * MsPerWeek + MsPerWeek
  BY <1>1
<1> QED BY <1>1, <1>2 DEF Cutoff, CutoffOf

\* What retention keeps it has kept before.
LEMMA RetainedBefore ==
  ASSUME TypeOK, Next \/ UNCHANGED vars, NEW c \in Cid, NEW i \in DOMAIN docker[c],
         Retained(c, i)'
  PROVE  Retained(c, i) /\ docker[c][i].ts \in Nat
<1>1. docker' = docker
  BY DockerStays
<1>2. docker[c][i].ts \in Nat
  <2>1. docker[c] \in Seq(DockerLine)
    BY DockerTyping DEF TypeOK
  <2>2. docker[c][i] \in DockerLine
    BY <2>1
  <2> QED BY <2>2 DEF DockerLine
<1> QED BY <1>1, <1>2, CutoffGrows DEF Retained

\* A log file that retention deletes has no line after the cutoff.
LEMMA DeletedIsOld ==
  ASSUME TypeOK, NEW l \in DockerLines, WeekOf(l) < oldest
  PROVE  Ts(l) < Cutoff
<1>1. Ts(l) \in Nat /\ MsPerWeek \in Nat \ {0} /\ oldest \in Nat
  BY DockerTyping, ConstantsAssumption DEF TypeOK
<1>2. PICK t \in Nat, m \in Nat \ {0}, o \in Nat : t = Ts(l) /\ m = MsPerWeek /\ o = oldest
  BY <1>1
<1>3. t \div m < o
  BY <1>2 DEF WeekOf
<1>4. PICK q \in Nat : q = t \div m /\ t < (q + 1) * m
  BY <1>2
<1>5. (q + 1) * m <= o * m
  <2>1. PICK k \in Nat : o = q + 1 + k
    <3>1. o - (q + 1) \in Nat /\ o = q + 1 + (o - (q + 1))
      BY <1>2, <1>3, <1>4
    <3> QED BY <3>1
  <2>2. o * m = (q + 1) * m + k * m /\ k * m \in Nat /\ (q + 1) * m \in Nat
    BY <1>2, <1>4, <2>1
  <2> QED BY <2>2
<1> QED BY <1>2, <1>4, <1>5 DEF Cutoff, CutoffOf

\* A pass prunes no checkpoint after the cutoff.
LEMMA PrunedIsOld ==
  ASSUME TypeOK, NEW w \in 1..oldest
  PROVE  CutoffOf(w) \in Nat /\ CutoffOf(w) <= Cutoff
<1>1. oldest \in Nat /\ MsPerWeek \in Nat
  BY ConstantsAssumption DEF TypeOK
<1>2. PICK k \in Nat : oldest = w + k
  <2>1. oldest - w \in Nat /\ oldest = w + (oldest - w)
    BY <1>1
  <2> QED BY <2>1
<1>3. PICK m \in Nat : m = MsPerWeek
  BY <1>1
<1>4. (w + k) * m = w * m + k * m /\ k * m \in Nat /\ w * m \in Nat
  BY <1>2, <1>3
<1> QED BY <1>2, <1>3, <1>4 DEF Cutoff, CutoffOf

\* No step of ingestion makes a stored line unreadable, and retention none that it
\* has to keep.
LEMMA LandedStays ==
  ASSUME TypeOK, Next \/ UNCHANGED vars, NEW c, NEW i, Landed(c, i), Retained(c, i)'
  PROVE  Landed(c, i)'
<1>0. docker' = docker
  BY DockerStays
<1>1. ASSUME NEW w, DeleteWeek(w) PROVE Landed(c, i)'
  <2>1. PICK r \in rows : r.line.cid = c /\ docker[c][r.line.idx] = docker[c][i]
    BY DEF Landed
  <2>2. r.line \in DockerLines
    BY DEF TypeOK
  <2>3. Ts(r.line) >= Cutoff
    BY <1>1, <2>1 DEF Retained, Ts, DeleteWeek, Cutoff
  <2>4. Cutoff \in Nat /\ Ts(r.line) \in Nat
    BY <2>2, CutoffGrows, DockerTyping DEF TypeOK
  <2>5. WeekOf(r.line) # w
    BY <1>1, <2>2, <2>3, <2>4, DeletedIsOld DEF DeleteWeek
  <2>6. r \in rows'
    BY <1>1, <2>5 DEF DeleteWeek
  <2> QED BY <1>0, <2>1, <2>6 DEF Landed
<1>2. CASE rows \subseteq rows'
  BY <1>0, <1>2 DEF Landed
<1>3. rows \subseteq rows' \/ \E w : DeleteWeek(w)
  BY DEF Next, FlushStep, Follow, StreamEnds, PushAccept, PushDrop, ScheduleFlush,
         WorkerReceives, WorkerDebounced, WorkerRetires, TakeNothing, Take,
         CommitWeek, AppendFails, Intern, InternFails, AdvanceCheckpoint,
         AdvanceFails, Notify, Crash, vars, Retention, WeekPasses, PruneCheckpoints
<1> QED BY <1>1, <1>2, <1>3

\* Only an accepted line or a restart moves the dedup state.
LEMMA SeenChanges ==
  ASSUME Next \/ UNCHANGED vars
  PROVE  seen' = seen \/ (\E c \in Cid : PushAccept(c)) \/ Crash
BY DEF Next, FlushStep, Follow, StreamEnds, PushDrop, ScheduleFlush,
       WorkerReceives, WorkerDebounced, WorkerRetires, TakeNothing, Take,
       CommitWeek, AppendFails, Intern, InternFails, AdvanceCheckpoint,
       AdvanceFails, Notify, vars, Retention,
       WeekPasses, DeleteWeek, PruneCheckpoints

\* Only a flush's upsert moves a persisted checkpoint, and only retention drops one.
LEMMA CkptChanges ==
  ASSUME Next \/ UNCHANGED vars
  PROVE  \/ ckpt' = ckpt
         \/ \E f \in Flusher : \E ck \in flush[f].cks : AdvanceCheckpoint(f, ck)
         \/ \E w \in 1..oldest : PruneCheckpoints(w)
BY DEF Next, FlushStep, Follow, StreamEnds, PushAccept, PushDrop, ScheduleFlush,
       WorkerReceives, WorkerDebounced, WorkerRetires, TakeNothing, Take,
       CommitWeek, AppendFails, Intern, InternFails,
       AdvanceFails, Notify, Crash, vars, Retention, WeekPasses, DeleteWeek

\* Only a log task that starts or ends, or a restart, changes who is followed.
LEMMA FollowingChanges ==
  ASSUME Next \/ UNCHANGED vars
  PROVE  \/ following' = following /\ pos' = pos
         \/ \E c \in Cid : Follow(c) \/ StreamEnds(c) \/ PushAccept(c) \/ PushDrop(c)
         \/ Crash
<1>1. ASSUME NEW f \in Flusher, FlushStep(f) PROVE following' = following /\ pos' = pos
  BY <1>1 DEF FlushStep, TakeNothing, Take, CommitWeek, AppendFails, Intern, InternFails,
         AdvanceCheckpoint, AdvanceFails, Notify
<1>2. CASE ScheduleFlush \/ WorkerReceives \/ WorkerDebounced \/ WorkerRetires
           \/ Retention \/ UNCHANGED vars
  BY <1>2, RetentionChanges DEF ScheduleFlush, WorkerReceives, WorkerDebounced,
         WorkerRetires, vars
<1> QED BY <1>1, <1>2 DEF Next

\* Once overlapped, or restarted, always so.
LEMMA HistoryStays ==
  ASSUME TypeOK, Next \/ UNCHANGED vars
  PROVE  (overlapped => overlapped') /\ (NoRestartYet' => NoRestartYet)
<1>1. overlapped' = overlapped \/ \E f \in Flusher : Take(f)
  BY DEF Next, FlushStep, Follow, StreamEnds, PushAccept, PushDrop, ScheduleFlush,
         WorkerReceives, WorkerDebounced, WorkerRetires, TakeNothing,
         CommitWeek, AppendFails, Intern, InternFails, AdvanceCheckpoint,
         AdvanceFails, Notify, Crash, vars, Retention, WeekPasses, DeleteWeek,
         PruneCheckpoints
<1>2. ASSUME NEW f \in Flusher, Take(f) PROVE overlapped => overlapped'
  BY <1>2 DEF Take
<1>3. suffered \subseteq suffered'
  BY DEF Next, FlushStep, Follow, StreamEnds, PushAccept, PushDrop, ScheduleFlush,
         WorkerReceives, WorkerDebounced, WorkerRetires, TakeNothing, Take,
         CommitWeek, AppendFails, Intern, InternFails, AdvanceCheckpoint,
         AdvanceFails, Notify, Crash, Suffer, vars, Retention, WeekPasses,
         DeleteWeek, PruneCheckpoints
<1>4. NoRestartYet' => NoRestartYet
  BY <1>3 DEF NoRestartYet
<1> QED BY <1>1, <1>2, <1>4

\* A flush that is not being changed, and the only flush an action changes.
LEMMA FlushChanges ==
  ASSUME TypeOK, CallersWait, Next \/ UNCHANGED vars, NEW f \in Flusher
  PROVE  \/ flush'[f] = flush[f]
         \/ /\ flush'[f] = IdleFlush
            /\ flush[f].pc = "append" => AppendFails(f) \/ Crash
         \/ flush[f].pc = "idle" /\ flush'[f] = [flush[f] EXCEPT !.pc = "take"]
         \/ Take(f)
         \/ \E w \in flush[f].weeks : CommitWeek(f, w)
         \/ Intern(f)
         \/ \E ck \in flush[f].cks : AdvanceCheckpoint(f, ck) \/ AdvanceFails(f, ck)
<1>0. flush \in [Flusher -> FlushState]
  BY DEF TypeOK
<1>1. ASSUME NEW g \in Flusher, g # f, FlushStep(g) PROVE flush'[f] = flush[f]
  BY <1>0, <1>1 DEF FlushStep, Return, TakeNothing, Take, CommitWeek, AppendFails, Intern,
         InternFails, AdvanceCheckpoint, AdvanceFails, Notify
<1>2. ASSUME FlushStep(f)
      PROVE  \/ /\ flush'[f] = IdleFlush
                /\ flush[f].pc = "append" => AppendFails(f)
             \/ Take(f)
             \/ \E w \in flush[f].weeks : CommitWeek(f, w)
             \/ Intern(f)
             \/ \E ck \in flush[f].cks : AdvanceCheckpoint(f, ck) \/ AdvanceFails(f, ck)
  <2>1. ASSUME Return(f) PROVE flush'[f] = IdleFlush
    BY <1>0, <2>1 DEF Return
  <2> QED BY <1>2, <2>1 DEF FlushStep, TakeNothing, AppendFails, InternFails, Notify
<1>3. ASSUME NEW c \in Cid, PushAccept(c)
      PROVE  \/ flush'[f] = flush[f]
             \/ flush[f].pc = "idle" /\ flush'[f] = [flush[f] EXCEPT !.pc = "take"]
  <2>1. flush' = [flush EXCEPT !["inline"].pc = "take"] \/ flush' = flush
    BY <1>3 DEF PushAccept
  <2>2. CASE flush' = [flush EXCEPT !["inline"].pc = "take"]
    <3>1. ingest # "flush"
      BY <1>3 DEF PushAccept
    <3>2. flush["inline"].pc = "idle"
      BY <3>1 DEF CallersWait
    <3> QED BY <1>0, <2>2, <3>2 DEF Flusher
  <2> QED BY <2>1, <2>2
<1>4. ASSUME WorkerDebounced
      PROVE  \/ flush'[f] = flush[f]
             \/ flush[f].pc = "idle" /\ flush'[f] = [flush[f] EXCEPT !.pc = "take"]
  <2>1. flush' = [flush EXCEPT !["worker"].pc = "take"]
    BY <1>4 DEF WorkerDebounced
  <2>2. flush["worker"].pc = "idle"
    BY <1>4 DEF WorkerDebounced, CallersWait
  <2> QED BY <1>0, <2>1, <2>2 DEF Flusher
<1>5. ASSUME Crash PROVE flush'[f] = IdleFlush
  BY <1>5 DEF Crash
<1>6. ASSUME \/ \E c \in Cid : Follow(c) \/ StreamEnds(c) \/ PushDrop(c)
             \/ ScheduleFlush \/ WorkerReceives \/ WorkerRetires \/ UNCHANGED vars
             \/ Retention
      PROVE  flush'[f] = flush[f]
  BY <1>6, RetentionChanges DEF Follow, StreamEnds, PushDrop, ScheduleFlush, WorkerReceives,
              WorkerRetires, vars
<1> QED BY <1>1, <1>2, <1>3, <1>4, <1>5, <1>6 DEF Next

\* Only an accepted line, a flush or a restart changes the buffer.
LEMMA LinesChange ==
  ASSUME Next \/ UNCHANGED vars
  PROVE  \/ lines' = lines
         \/ \E c \in Cid : PushAccept(c)
         \/ \E f \in Flusher : Take(f) \/ AppendFails(f)
         \/ Crash
BY DEF Next, FlushStep, Follow, StreamEnds, PushDrop, ScheduleFlush,
       WorkerReceives, WorkerDebounced, WorkerRetires, TakeNothing,
       CommitWeek, Intern, InternFails, AdvanceCheckpoint,
       AdvanceFails, Notify, vars, Retention,
       WeekPasses, DeleteWeek, PruneCheckpoints

\* What a flush takes is what was buffered, and it is being appended.
LEMMA TakeFlush ==
  ASSUME TypeOK, NEW f \in Flusher, Take(f)
  PROVE  /\ lines' = <<>>
         /\ flush'[f].pc = "append"
         /\ flush'[f].batch = lines
         /\ flush'[f].weeks = {WeekOf(l) : l \in LinesIn(lines)}
         /\ flush'[f].cks = {[cid |-> c, ts |-> seen[c].ts, content |-> seen[c].content] :
                               c \in {l.cid : l \in LinesIn(lines)}}
         /\ ~overlapped' => \A g \in Flusher \ {f} : flush[g].pc # "append"
         /\ \A g \in Flusher \ {f} : flush'[g] = flush[g]
         /\ flush[f].pc = "take"
BY DEF Take, TypeOK

\* A committed week leaves the flush its batch and its snapshot.
LEMMA CommitFlush ==
  ASSUME TypeOK, NEW f \in Flusher, NEW w \in flush[f].weeks, CommitWeek(f, w)
  PROVE  /\ flush[f].pc = "append"
         /\ flush'[f].batch = flush[f].batch
         /\ flush'[f].weeks = flush[f].weeks \ {w}
         /\ flush'[f].cks = flush[f].cks
         /\ flush'[f].pc = IF flush[f].weeks = {w} THEN "intern" ELSE "append"
<1> flush \in [Flusher -> FlushState]
  BY DEF TypeOK
<1> QED BY DEF CommitWeek, AfterCommit

\* The lines of a committed week are in the database.
LEMMA CommitLands ==
  ASSUME TypeOK, NEW f \in Flusher, NEW w \in flush[f].weeks, CommitWeek(f, w),
         NEW l \in LinesIn(flush[f].batch), WeekOf(l) = w
  PROVE  Landed(l.cid, l.idx)'
<1>1. docker' = docker
  BY DEF CommitWeek
<1>2. PICK i \in DOMAIN flush[f].batch : l = flush[f].batch[i]
  BY DEF LinesIn
<1>3. [line |-> l, id |-> nextRow + i] \in rows'
  BY <1>2 DEF CommitWeek
<1> QED BY <1>1, <1>3 DEF Landed

\* A failed append puts its whole batch back beside the newer lines.
LEMMA AppendFailsRequeues ==
  ASSUME TypeOK, NEW f \in Flusher, AppendFails(f)
  PROVE  LinesIn(lines') = LinesIn(flush[f].batch) \cup LinesIn(lines)
<1>1. lines \in Seq(DockerLines) /\ flush[f].batch \in Seq(DockerLines)
  BY FlushTyping DEF TypeOK
<1> QED BY <1>1, LinesInConcat DEF AppendFails, Requeued

\* An accepted line is one of Docker's, and is added to the buffer.
LEMMA AcceptBuffers ==
  ASSUME TypeOK, NEW c \in Cid, PushAccept(c)
  PROVE  /\ [cid |-> c, idx |-> pos[c]] \in DockerLines
         /\ LinesIn(lines') = LinesIn(lines) \cup {[cid |-> c, idx |-> pos[c]]}
<1> DEFINE l == [cid |-> c, idx |-> pos[c]]
<1>1. l \in DockerLines
  BY DEF PushAccept, DockerLines, TypeOK
<1>2. lines \in Seq(DockerLines) /\ lines' = Append(lines, l)
  BY DEF TypeOK, PushAccept
<1> HIDE DEF l
<1>3. LinesIn(lines') = LinesIn(lines) \cup {l}
  BY <1>1, <1>2, LinesInAppend
<1> QED BY <1>1, <1>3 DEF l

--------------------------------------------------------------------------------
\* The caller that has begun a flush waits for it.
LEMMA CallersWaitStep ==
  ASSUME TypeOK, CallersWait, Next \/ UNCHANGED vars
  PROVE  CallersWait'
<1>0. flush \in [Flusher -> FlushState]
  BY DEF TypeOK
<1>1. ASSUME NEW f \in Flusher, Return(f), flush[f].pc # "idle" PROVE CallersWait'
  BY <1>0, <1>1 DEF CallersWait, Return, IdleFlush, Flusher
<1>2. ASSUME NEW f \in Flusher, flush'[f].pc # "idle", flush[f].pc # "idle",
             \A g \in Flusher \ {f} : flush'[g] = flush[g],
             worker' = worker, ingest' = ingest
      PROVE  CallersWait'
  BY <1>0, <1>2 DEF CallersWait, Flusher
<1>3. ASSUME NEW f \in Flusher, FlushStep(f) PROVE CallersWait'
  <2>1. CASE TakeNothing(f)
    BY <1>1, <2>1 DEF TakeNothing
  <2>2. CASE Take(f)
    BY <1>2, <2>2, TakeFlush DEF Take
  <2>3. ASSUME NEW w \in flush[f].weeks, CommitWeek(f, w) PROVE CallersWait'
    <3>1. flush'[f].pc # "idle" /\ flush[f].pc # "idle"
      BY <2>3, CommitFlush
    <3>2. \A g \in Flusher \ {f} : flush'[g] = flush[g]
      BY <1>0, <2>3 DEF CommitWeek
    <3> QED BY <1>2, <2>3, <3>1, <3>2 DEF CommitWeek
  <2>4. CASE AppendFails(f)
    BY <1>1, <2>4 DEF AppendFails
  <2>5. CASE Intern(f)
    BY <1>0, <1>2, <2>5 DEF Intern
  <2>6. CASE InternFails(f)
    BY <1>1, <2>6 DEF InternFails
  <2>7. ASSUME NEW ck \in flush[f].cks, AdvanceCheckpoint(f, ck) PROVE CallersWait'
    BY <1>0, <1>2, <2>7 DEF AdvanceCheckpoint
  <2>8. ASSUME NEW ck \in flush[f].cks, AdvanceFails(f, ck) PROVE CallersWait'
    BY <1>0, <1>2, <2>8 DEF AdvanceFails
  <2>9. CASE Notify(f)
    BY <1>1, <2>9 DEF Notify
  <2> QED BY <1>3, <2>1, <2>2, <2>3, <2>4, <2>5, <2>6, <2>7, <2>8, <2>9 DEF FlushStep
<1>4. ASSUME NEW c \in Cid, PushAccept(c) PROVE CallersWait'
  <2>1. CASE flush' = [flush EXCEPT !["inline"].pc = "take"] /\ ingest' = "flush"
    BY <1>0, <1>4, <2>1 DEF CallersWait, Flusher, PushAccept
  <2>2. CASE flush' = flush /\ ingest' = "schedule"
    BY <1>4, <2>2 DEF CallersWait, PushAccept
  <2> QED BY <1>4, <2>1, <2>2 DEF PushAccept
<1>5. CASE WorkerDebounced
  <2>1. flush' = [flush EXCEPT !["worker"].pc = "take"]
    BY <1>5 DEF WorkerDebounced
  <2> QED BY <1>0, <1>5, <2>1 DEF CallersWait, Flusher, WorkerDebounced
<1>6. CASE Crash
  BY <1>6 DEF CallersWait, Crash, IdleFlush, Flusher
<1>7. CASE \/ \E c \in Cid : Follow(c) \/ StreamEnds(c) \/ PushDrop(c)
           \/ ScheduleFlush \/ WorkerReceives \/ WorkerRetires \/ UNCHANGED vars
           \/ Retention
  BY <1>7, RetentionChanges DEF CallersWait, Follow, StreamEnds, PushDrop, ScheduleFlush, WorkerReceives,
              WorkerRetires, vars
<1> QED BY <1>3, <1>4, <1>5, <1>6, <1>7 DEF Next

\* The weeks an append has committed are stored, and stay so.
LEMMA CommittedHasLandedStep ==
  ASSUME TypeOK, CallersWait, CommittedHasLanded, Next \/ UNCHANGED vars
  PROVE  CommittedHasLanded'
<1> SUFFICES ASSUME NEW f \in Flusher, flush'[f].pc = "append",
                    NEW l \in LinesIn(flush'[f].batch), Retained(l.cid, l.idx)'
             PROVE  WeekOf(l)' \in flush'[f].weeks \/ Landed(l.cid, l.idx)'
  BY DEF CommittedHasLanded, LinesIn
<1>0. WeekOf(l)' = WeekOf(l)
  BY DockerStays DEF WeekOf, Ts
<1>1. ASSUME flush'[f].batch = flush[f].batch, flush[f].pc = "append"
      PROVE  WeekOf(l) \in flush[f].weeks \/ Landed(l.cid, l.idx)'
  <2>1. l \in DockerLines
    BY <1>1, FlushTyping, LinesInTyping
  <2>2. l.cid \in Cid /\ l.idx \in DOMAIN docker[l.cid]
    BY <2>1, DockerTyping DEF TypeOK
  <2>3. Retained(l.cid, l.idx)
    BY <2>2, RetainedBefore
  <2> QED BY <1>1, <2>3, LandedStays DEF CommittedHasLanded
<1>2. CASE flush'[f] = flush[f]
  BY <1>0, <1>1, <1>2
<1>3. CASE flush'[f] = IdleFlush
  BY <1>3 DEF IdleFlush
<1>4. CASE flush'[f] = [flush[f] EXCEPT !.pc = "take"]
  BY <1>4, FlushTyping DEF TypeOK, FlushState
<1>5. CASE Take(f)
  BY <1>0, <1>5, TakeFlush
<1>6. ASSUME NEW w \in flush[f].weeks, CommitWeek(f, w)
      PROVE  WeekOf(l) \in flush'[f].weeks \/ Landed(l.cid, l.idx)'
  BY <1>1, <1>6, CommitFlush, CommitLands
<1>7. CASE Intern(f)
  BY <1>7 DEF Intern, TypeOK, FlushState
<1>8. ASSUME NEW ck \in flush[f].cks, AdvanceCheckpoint(f, ck) \/ AdvanceFails(f, ck)
      PROVE  FALSE
  BY <1>8 DEF AdvanceCheckpoint, AdvanceFails, TypeOK, FlushState
<1> QED BY <1>0, <1>2, <1>3, <1>4, <1>5, <1>6, <1>7, <1>8, FlushChanges

\* A line in flight stays so until it is stored or its append fails.
LEMMA InFlightStays ==
  ASSUME TypeOK, CallersWait, CommittedHasLanded, Next \/ UNCHANGED vars, ~Crash,
         NEW f \in Flusher, flush[f].pc = "append",
         NEW c \in Cid, NEW i \in DOMAIN docker[c], HeldIn(flush[f].batch, c, i),
         Retained(c, i)'
  PROVE  \/ Landed(c, i)'
         \/ AppendFails(f)
         \/ flush'[f].pc = "append" /\ flush'[f].batch = flush[f].batch
<1>0. docker' = docker
  BY DockerStays
<1>1. CASE flush'[f] = flush[f]
  BY <1>1
<1>2. ASSUME NEW w \in flush[f].weeks, CommitWeek(f, w), flush[f].weeks = {w}
      PROVE  Landed(c, i)'
  <2>1. PICK l \in LinesIn(flush[f].batch) : l.cid = c /\ docker[c][l.idx] = docker[c][i]
    BY DEF HeldIn
  <2>0. Retained(l.cid, l.idx)' /\ Retained(l.cid, l.idx)
    BY <1>0, <2>1, RetainedBefore DEF Retained
  <2>2. Landed(l.cid, l.idx)'
    <3>1. CASE WeekOf(l) = w
      BY <1>2, <3>1, CommitLands
    <3>2. CASE WeekOf(l) # w
      BY <1>2, <2>0, <3>2, LandedStays DEF CommittedHasLanded
    <3> QED BY <3>1, <3>2
  <2> QED BY <1>0, <2>1, <2>2 DEF Landed
<1>3. ASSUME NEW w \in flush[f].weeks, CommitWeek(f, w), flush[f].weeks # {w}
      PROVE  flush'[f].pc = "append" /\ flush'[f].batch = flush[f].batch
  BY <1>3, CommitFlush
<1>4. ~Take(f) /\ ~Intern(f)
  BY DEF Take, Intern
<1>5. \A ck : ~AdvanceCheckpoint(f, ck) /\ ~AdvanceFails(f, ck)
  BY DEF AdvanceCheckpoint, AdvanceFails
<1> QED BY <1>1, <1>2, <1>3, <1>4, <1>5, FlushChanges

\* A line that is buffered, in flight or stored, and retained, stays so through
\* every step that is not the end of the process.
LEMMA KeptStays ==
  ASSUME TypeOK, CallersWait, CommittedHasLanded, Next \/ UNCHANGED vars, ~Crash,
         NEW c \in Cid, NEW i \in DOMAIN docker[c], Kept(c, i), Retained(c, i)'
  PROVE  Kept(c, i)'
<1>0. docker' = docker
  BY DockerStays
<1>1. CASE Landed(c, i)
  BY <1>1, LandedStays DEF Kept
<1>2. ASSUME HeldIn(lines, c, i) PROVE Kept(c, i)'
  <2>1. CASE LinesIn(lines) \subseteq LinesIn(lines')
    BY <1>0, <1>2, <2>1 DEF HeldIn, Kept, Held
  <2>2. ASSUME NEW f \in Flusher, Take(f) PROVE Kept(c, i)'
    <3>1. HeldIn(flush[f].batch, c, i)'
      BY <1>0, <1>2, <2>2, TakeFlush DEF HeldIn
    <3> QED BY <2>2, <3>1, TakeFlush DEF Kept, Held
  <2>3. ASSUME NEW f \in Flusher, AppendFails(f) PROVE LinesIn(lines) \subseteq LinesIn(lines')
    BY <2>3, AppendFailsRequeues
  <2>4. ASSUME NEW d \in Cid, PushAccept(d) PROVE LinesIn(lines) \subseteq LinesIn(lines')
    BY <2>4, AcceptBuffers
  <2> QED BY <2>1, <2>2, <2>3, <2>4, LinesChange
<1>3. ASSUME NEW f \in Flusher, flush[f].pc = "append", HeldIn(flush[f].batch, c, i)
      PROVE  Kept(c, i)'
  <2>1. CASE Landed(c, i)'
    BY <2>1 DEF Kept
  <2>2. CASE AppendFails(f)
    BY <1>0, <1>3, <2>2, AppendFailsRequeues DEF HeldIn, Kept, Held
  <2>3. CASE flush'[f].pc = "append" /\ flush'[f].batch = flush[f].batch
    BY <1>0, <1>3, <2>3 DEF HeldIn, Kept, Held
  <2> QED BY <1>3, <2>1, <2>2, <2>3, InFlightStays
<1> QED BY <1>1, <1>2, <1>3 DEF Kept, Held

--------------------------------------------------------------------------------
\* An accepted line is not older than the dedup state it replaces.
LEMMA AcceptMovesSeen ==
  ASSUME TypeOK, NEW c \in Cid, PushAccept(c)
  PROVE  /\ pos[c] \in 1..Len(docker[c])
         /\ seen'[c] = docker[c][pos[c]]
         /\ seen[c].ts <= seen'[c].ts
         /\ \A d \in Cid \ {c} : seen'[d] = seen[d]
<1> DEFINE l == [cid |-> c, idx |-> pos[c]]
<1>1. l \in DockerLines /\ pos[c] \in 1..Len(docker[c])
  BY DEF PushAccept, DockerLines, TypeOK
<1>2. seen' = [seen EXCEPT ![c] = [ts |-> Ts(l), content |-> Payload(l)]] /\ ~Dropped(l)
  BY DEF PushAccept
<1>3. docker[c] \in Seq(DockerLine) /\ docker[c][pos[c]] \in DockerLine
  BY <1>1, DockerTyping DEF TypeOK
<1>4. docker[c][pos[c]] = [ts |-> Ts(l), content |-> Payload(l)]
  BY <1>3 DEF DockerLine, Ts, Payload
<1>5. Ts(l) \in Nat /\ seen[c].ts \in Nat \cup {-1} /\ seen \in [Cid -> Checkpoint]
  BY <1>1, DockerTyping DEF TypeOK, Checkpoint
<1>6. ~(Ts(l) < seen[c].ts)
  BY <1>2 DEF Dropped
<1> HIDE DEF l
<1>7. seen[c].ts <= Ts(l)
  BY <1>5, <1>6
<1> QED BY <1>1, <1>2, <1>4, <1>5, <1>7

\* Short of a restart, the dedup state never moves back.
LEMMA SeenOnlyGrows ==
  ASSUME TypeOK, Next \/ UNCHANGED vars, ~Crash, NEW c \in Cid
  PROVE  seen[c].ts <= seen'[c].ts
<1>1. seen[c].ts \in Int
  BY DEF TypeOK, Checkpoint
<1> QED BY <1>1, SeenChanges, AcceptMovesSeen

\* No checkpoint gets ahead of the dedup state.
LEMMA CheckpointsLagSeenStep ==
  ASSUME TypeOK, TypeOK', CallersWait, CheckpointsLagSeen, Next \/ UNCHANGED vars
  PROVE  CheckpointsLagSeen'
<1>0. /\ \A c \in Cid : seen[c].ts \in Int /\ ckpt[c].ts \in Int
      /\ \A c \in Cid : seen'[c].ts \in Int /\ ckpt'[c].ts \in Int
      /\ \A f \in Flusher : \A ck \in flush[f].cks : ck.cid \in Cid /\ ck.ts \in Int
  BY FlushTyping DEF TypeOK, Checkpoint, CidCheckpoint
<1>1. CASE Crash
  BY <1>0, <1>1 DEF Crash, CheckpointsLagSeen, IdleFlush
<1>2. CASE ~Crash
  <2>1. \A c \in Cid : seen[c].ts <= seen'[c].ts
    BY <1>2, SeenOnlyGrows
  <2>2. ASSUME NEW c \in Cid PROVE ckpt'[c].ts <= seen'[c].ts
    <3>1. CASE ckpt' = ckpt
      BY <1>0, <2>1, <3>1 DEF CheckpointsLagSeen
    <3>2. ASSUME NEW f \in Flusher, NEW ck \in flush[f].cks, AdvanceCheckpoint(f, ck)
          PROVE  ckpt'[c].ts <= seen'[c].ts
      <4>1. ckpt'[c] = ckpt[c] \/ (c = ck.cid /\ ckpt'[c] = [ts |-> ck.ts, content |-> ck.content])
        BY <1>0, <3>2 DEF AdvanceCheckpoint, Upsert, TypeOK
      <4>2. ckpt'[c].ts <= seen[c].ts
        BY <4>1 DEF CheckpointsLagSeen
      <4> QED BY <1>0, <2>1, <4>2
    <3>3. ASSUME NEW w \in 1..oldest, PruneCheckpoints(w) PROVE ckpt'[c].ts <= seen'[c].ts
      <4>1. ckpt'[c] = ckpt[c] \/ ckpt'[c].ts = -1
        BY <3>3 DEF PruneCheckpoints, NoCheckpoint
      <4>2. seen'[c].ts >= -1
        <5>1. seen'[c] \in Checkpoint
          BY DEF TypeOK
        <5> QED BY <5>1 DEF Checkpoint
      <4> QED BY <1>0, <2>1, <4>1, <4>2 DEF CheckpointsLagSeen
    <3> QED BY <3>1, <3>2, <3>3, CkptChanges
  <2>3. ASSUME NEW f \in Flusher, NEW ck \in flush'[f].cks PROVE ck.ts <= seen'[ck.cid].ts
    <3>1. CASE ck \in flush[f].cks
      BY <1>0, <2>1, <3>1 DEF CheckpointsLagSeen
    <3>2. CASE Take(f)
      <4>1. PICK c \in Cid : ck = [cid |-> c, ts |-> seen[c].ts, content |-> seen[c].content]
        <5>1. PICK c \in {l.cid : l \in LinesIn(lines)} :
                  ck = [cid |-> c, ts |-> seen[c].ts, content |-> seen[c].content]
          BY <3>2, TakeFlush
        <5>2. LinesIn(lines) \subseteq DockerLines /\ docker \in Logs
          BY LinesInTyping DEF TypeOK
        <5>3. c \in Cid
          BY <5>2, DockerTyping
        <5> QED BY <5>1, <5>3
      <4> QED BY <2>1, <4>1
    <3>3. CASE ~Take(f)
      <4>1. flush'[f].cks \subseteq flush[f].cks
        <5>1. ASSUME NEW w \in flush[f].weeks, CommitWeek(f, w)
              PROVE  flush'[f].cks = flush[f].cks
          BY <5>1, CommitFlush
        <5>2. ASSUME Intern(f) PROVE flush'[f].cks = flush[f].cks
          BY <5>2 DEF Intern, TypeOK, FlushState
        <5>3. ASSUME NEW q \in flush[f].cks, AdvanceCheckpoint(f, q) \/ AdvanceFails(f, q)
              PROVE  flush'[f].cks \subseteq flush[f].cks
          BY <5>3 DEF AdvanceCheckpoint, AdvanceFails, TypeOK, FlushState
        <5>4. ASSUME flush'[f] = [flush[f] EXCEPT !.pc = "take"]
              PROVE  flush'[f].cks = flush[f].cks
          BY <5>4 DEF TypeOK, FlushState
        <5>5. IdleFlush.cks = {}
          BY DEF IdleFlush
        <5> QED BY <3>3, <5>1, <5>2, <5>3, <5>4, <5>5, FlushChanges
      <4> QED BY <3>1, <4>1
    <3> QED BY <3>2, <3>3
  <2> QED BY <2>2, <2>3 DEF CheckpointsLagSeen
<1> QED BY <1>1, <1>2
--------------------------------------------------------------------------------
\* A container's log is in time order.
LEMMA LogOrder ==
  ASSUME TypeOK, NEW c \in Cid
  PROVE  /\ docker[c] \in Seq(DockerLine)
         /\ \A i \in DOMAIN docker[c] : docker[c][i].ts \in Nat
         /\ \A i, j \in DOMAIN docker[c] : i <= j => docker[c][i].ts <= docker[c][j].ts
<1>1. docker[c] \in Seq(DockerLine)
  BY DockerTyping DEF TypeOK
<1>2. \A i \in DOMAIN docker[c] : docker[c][i] \in DockerLine
  BY <1>1
<1>3. \A i, j \in DOMAIN docker[c] : i <= j => docker[c][i].ts <= docker[c][j].ts
  BY LogsAssumption DEF TypeOK
<1> QED BY <1>1, <1>2, <1>3 DEF DockerLine

\* A second begins no later than a moment in it.
LEMMA SecondBefore ==
  ASSUME NEW x \in Int
  PROVE  SecondOf(x) \in Int /\ SecondOf(x) <= x
BY ConstantsAssumption DEF SecondOf

\* A follower that starts from a checkpoint skips, of what retention keeps, only
\* what the checkpoint covers.
LEMMA SkippedIsCovered ==
  ASSUME TypeOK, NEW c \in Cid, NEW ck \in Checkpoint,
         NEW p \in 0..(Len(docker[c]) + 1), IsFirstSince(docker[c], ck, p),
         NEW i \in 1..(p - 1), Retained(c, i)
  PROVE  i \in CoveredBy(ck, c) /\ docker[c][i].ts < ck.ts
<1>1. docker[c] \in Seq(DockerLine) /\ Len(docker[c]) \in Nat /\ i \in DOMAIN docker[c]
  BY LogOrder
<1>2. docker[c][i].ts \in Nat /\ ck.ts \in Int /\ Cutoff \in Nat
  BY <1>1, LogOrder, CutoffTyping DEF Checkpoint
<1>3. docker[c][i].ts < SinceMs(ck)
  BY DEF IsFirstSince
<1>s. /\ SecondOf(Cutoff) \in Int /\ SecondOf(Cutoff) <= Cutoff
      /\ SecondOf(ck.ts) \in Int /\ SecondOf(ck.ts) <= ck.ts
  <2>1. SecondOf(Cutoff) \in Int /\ SecondOf(Cutoff) <= Cutoff
    <3>1. PICK x \in Int : x = Cutoff
      BY <1>2
    <3> QED BY <3>1, SecondBefore
  <2>2. SecondOf(ck.ts) \in Int /\ SecondOf(ck.ts) <= ck.ts
    BY <1>2, SecondBefore
  <2> QED BY <2>1, <2>2
<1>4. ~(docker[c][i].ts < SecondOf(Cutoff))
  <2>1. docker[c][i].ts >= Cutoff
    BY DEF Retained
  <2> QED BY <1>2, <1>s, <2>1
<1>5. SinceMs(ck) = SecondOf(ck.ts)
  BY <1>3, <1>4 DEF SinceMs
<1>6. docker[c][i].ts < ck.ts
  BY <1>2, <1>3, <1>5, <1>s
<1> QED BY <1>1, <1>6 DEF CoveredBy

\* The dedup state still covers only kept lines: an accepted line covers the
\* ones its log task has sent before it.
LEMMA SeenIsKeptStep ==
  ASSUME TypeOK, CallersWait, CommittedHasLanded, SeenIsKept, SentIsKept,
         Next \/ UNCHANGED vars, ~Crash
  PROVE  SeenIsKept'
<1> SUFFICES ASSUME NEW c \in Cid, NEW i \in DOMAIN docker[c], Retained(c, i)',
                    docker[c][i].ts < seen'[c].ts \/ docker[c][i] = seen'[c]
             PROVE  Kept(c, i)'
  BY DockerStays DEF SeenIsKept, CoveredBy
<1>0. Retained(c, i)
  BY RetainedBefore
<1>1. CASE seen'[c] = seen[c]
  <2>1. i \in CoveredBy(seen[c], c)
    BY <1>0, <1>1 DEF CoveredBy
  <2> QED BY <2>1, KeptStays DEF SeenIsKept
<1>2. CASE PushAccept(c)
  <2>1. /\ pos[c] \in 1..Len(docker[c])
        /\ seen'[c] = docker[c][pos[c]]
        /\ c \in following
    BY <1>2, AcceptMovesSeen DEF PushAccept
  <2>2. CASE docker[c][i] = docker[c][pos[c]]
    <3>1. [cid |-> c, idx |-> pos[c]] \in LinesIn(lines')
      BY <1>2, AcceptBuffers
    <3>2. docker' = docker
      BY DockerStays
    <3>3. HeldIn(lines, c, i)'
      BY <2>2, <3>1, <3>2 DEF HeldIn
    <3> QED BY <3>3 DEF Kept, Held
  <2>3. CASE docker[c][i].ts < docker[c][pos[c]].ts
    <3>1. i \in DOMAIN docker[c] /\ DOMAIN docker[c] = 1..Len(docker[c]) /\ Len(docker[c]) \in Nat
      BY LogOrder
    <3>2. ~(pos[c] <= i)
      BY <2>1, <2>3, <3>1, LogOrder
    <3>3. i \in 1..(pos[c] - 1)
      BY <2>1, <3>1, <3>2
    <3>4. Kept(c, i)
      BY <1>0, <2>1, <3>3 DEF SentIsKept
    <3> QED BY <3>4, KeptStays
  <2> QED BY <2>1, <2>2, <2>3
<1> QED BY <1>1, <1>2, SeenChanges, AcceptMovesSeen

\* What a log task has sent or skipped is still kept.
LEMMA SentIsKeptStep ==
  ASSUME TypeOK, TypeOK', CallersWait, CommittedHasLanded, CheckpointsLagSeen,
         SeenIsKept, SentIsKept, SeenIsKept', Next \/ UNCHANGED vars, ~Crash
  PROVE  SentIsKept'
<1>0. docker' = docker
  BY DockerStays
<1>1. ASSUME NEW c \in following, c \in Cid,
             NEW i \in 1..(pos[c] - 1), i \in DOMAIN docker[c], Retained(c, i)'
      PROVE  docker[c][i].ts <= seen'[c].ts /\ Kept(c, i)'
  <2>1. docker[c][i].ts <= seen[c].ts /\ Kept(c, i)
    BY <1>1, RetainedBefore DEF SentIsKept
  <2>2. docker[c][i].ts \in Nat /\ seen[c].ts \in Int /\ seen'[c].ts \in Int
    <3>1. docker[c][i].ts \in Nat
      BY <1>1, LogOrder
    <3>2. seen[c] \in Checkpoint /\ seen'[c] \in Checkpoint
      BY <1>1 DEF TypeOK
    <3> QED BY <3>1, <3>2 DEF Checkpoint
  <2>3. seen[c].ts <= seen'[c].ts
    BY <1>1, SeenOnlyGrows
  <2> QED BY <1>1, <2>1, <2>2, <2>3, KeptStays
<1>2. ASSUME NEW c \in following, c \in Cid
      PROVE  /\ pos[c] \in Nat \ {0} /\ Len(docker[c]) \in Nat
             /\ pos[c] <= Len(docker[c]) + 1
             /\ DOMAIN docker[c] = 1..Len(docker[c])
             /\ 1..(pos[c] - 1) \subseteq DOMAIN docker[c]
  <2>1. docker[c] \in Seq(DockerLine)
    BY <1>2, LogOrder
  <2>2. pos[c] \in Nat \ {0} /\ pos[c] <= Len(docker[c]) + 1
    BY <1>2 DEF SentIsKept, TypeOK
  <2> QED BY <2>1, <2>2
\* A task that is already following and sends nothing.
<1>3. ASSUME NEW c \in following, c \in Cid, pos'[c] = pos[c]
      PROVE  /\ pos'[c] <= Len(docker[c]) + 1
             /\ \A i \in 1..(pos'[c] - 1) :
                   Retained(c, i)' => docker[c][i].ts <= seen'[c].ts /\ Kept(c, i)'
  BY <1>1, <1>2, <1>3
\* A task that sends a line, which push accepts or drops.
<1>4. ASSUME NEW c \in Cid, PushAccept(c) \/ PushDrop(c)
      PROVE  /\ pos'[c] <= Len(docker[c]) + 1
             /\ \A i \in 1..(pos'[c] - 1) :
                   Retained(c, i)' => docker[c][i].ts <= seen'[c].ts /\ Kept(c, i)'
  <2>1. c \in following /\ pos[c] <= Len(docker[c]) /\ pos'[c] = pos[c] + 1
    BY <1>4 DEF PushAccept, PushDrop, TypeOK
  <2>2. pos[c] \in DOMAIN docker[c] /\ 1..(pos'[c] - 1) = (1..(pos[c] - 1)) \cup {pos[c]}
    BY <1>2, <2>1
  <2>3. /\ docker[c][pos[c]].ts <= seen'[c].ts
        /\ docker[c][pos[c]].ts < seen'[c].ts \/ docker[c][pos[c]] = seen'[c]
    <3>1. CASE PushAccept(c)
      <4>1. seen'[c] = docker[c][pos[c]]
        BY <3>1, AcceptMovesSeen
      <4>2. docker[c][pos[c]].ts \in Nat
        BY <2>2, LogOrder
      <4> QED BY <4>1, <4>2
    <3>2. CASE PushDrop(c)
      <4> DEFINE l == [cid |-> c, idx |-> pos[c]]
      <4>1. Dropped(l) /\ seen' = seen
        BY <3>2 DEF PushDrop
      <4>2. Ts(l) = docker[c][pos[c]].ts /\ Payload(l) = docker[c][pos[c]].content
        BY DEF Ts, Payload
      <4>3. docker[c][pos[c]] \in DockerLine /\ seen[c] \in Checkpoint
        BY <2>2, LogOrder DEF TypeOK
      <4>4. CASE docker[c][pos[c]].ts < seen[c].ts
        BY <4>1, <4>3, <4>4 DEF DockerLine, Checkpoint
      <4>5. CASE /\ docker[c][pos[c]].ts = seen[c].ts
                 /\ docker[c][pos[c]].content = seen[c].content
        <5>1. docker[c][pos[c]] = seen[c]
          BY <4>3, <4>5 DEF DockerLine, Checkpoint
        <5> QED BY <4>1, <4>3, <5>1 DEF DockerLine
      <4> QED BY <4>1, <4>2, <4>4, <4>5 DEF Dropped
    <3> QED BY <1>4, <3>1, <3>2
  <2> PICK p : p = pos[c]
    OBVIOUS
  <2>4. Retained(c, p)' => Kept(c, p)'
    BY <1>0, <2>2, <2>3 DEF SeenIsKept, CoveredBy
  <2>5. \A i \in 1..(pos[c] - 1) :
           Retained(c, i)' => docker[c][i].ts <= seen'[c].ts /\ Kept(c, i)'
    BY <1>1, <1>2, <2>1
  <2>6. \A i \in 1..(pos'[c] - 1) : i \in 1..(pos[c] - 1) \/ i = p
    BY <2>2
  <2>7. docker[c][p].ts <= seen'[c].ts
    BY <2>3
  <2>8. pos'[c] <= Len(docker[c]) + 1
    BY <1>2, <2>1
  <2> QED BY <2>4, <2>5, <2>6, <2>7, <2>8
\* A task that starts at the persisted checkpoint.
<1>5. ASSUME NEW c \in Cid, Follow(c)
      PROVE  /\ pos'[c] <= Len(docker[c]) + 1
             /\ \A i \in 1..(pos'[c] - 1) :
                   Retained(c, i)' => docker[c][i].ts <= seen'[c].ts /\ Kept(c, i)'
  <2>1. PICK p \in 0..(Len(docker[c]) + 1) :
           IsFirstSince(docker[c], ckpt[c], p) /\ pos' = [pos EXCEPT ![c] = p]
    BY <1>5 DEF Follow
  <2>2. pos'[c] = p /\ seen' = seen /\ ckpt[c] \in Checkpoint
    BY <1>5, <2>1 DEF Follow, TypeOK
  <2>3. docker[c] \in Seq(DockerLine) /\ Len(docker[c]) \in Nat
    BY LogOrder
  <2>4. ASSUME NEW i \in 1..(p - 1), Retained(c, i)'
        PROVE  docker[c][i].ts <= seen[c].ts /\ i \in CoveredBy(seen[c], c)
    <3>2. i \in DOMAIN docker[c]
      BY <2>3
    <3>0. Retained(c, i)
      BY <2>4, <3>2, RetainedBefore
    <3>1. i \in CoveredBy(ckpt[c], c) /\ docker[c][i].ts < ckpt[c].ts
      BY <2>1, <2>2, <3>0, SkippedIsCovered
    <3>3. /\ docker[c][i].ts \in Int /\ ckpt[c].ts \in Int /\ seen[c].ts \in Int
          /\ ckpt[c].ts <= seen[c].ts
      <4>1. docker[c][i].ts \in Int
        BY <3>2, LogOrder
      <4>2. ckpt[c] \in Checkpoint /\ seen[c] \in Checkpoint
        BY DEF TypeOK
      <4>3. ckpt[c].ts \in Int /\ seen[c].ts \in Int
        BY <4>2 DEF Checkpoint
      <4>4. ckpt[c].ts <= seen[c].ts
        BY DEF CheckpointsLagSeen
      <4> QED BY <4>1, <4>3, <4>4
    <3>4. docker[c][i].ts < seen[c].ts
      BY <3>1, <3>3
    <3> QED BY <3>0, <3>2, <3>3, <3>4 DEF CoveredBy
  <2>5. ASSUME NEW i \in 1..(p - 1), Retained(c, i)' PROVE Kept(c, i)'
    <3>1. i \in DOMAIN docker[c] /\ i \in CoveredBy(seen[c], c)
      BY <2>3, <2>4, <2>5
    <3> QED BY <2>5, <3>1, KeptStays DEF SeenIsKept
  <2> QED BY <2>2, <2>3, <2>4, <2>5
<1>6. ASSUME NEW c \in following'
      PROVE  /\ pos'[c] <= Len(docker[c]) + 1
             /\ \A i \in 1..(pos'[c] - 1) :
                   Retained(c, i)' => docker[c][i].ts <= seen'[c].ts /\ Kept(c, i)'
  <2>1. c \in Cid
    BY DEF TypeOK
  <2>2. CASE following' = following /\ pos' = pos
    BY <1>3, <2>1, <2>2
  <2>3. ASSUME NEW d \in Cid, PushAccept(d) \/ PushDrop(d), d # c
        PROVE  c \in following /\ pos'[c] = pos[c]
    BY <2>1, <2>3 DEF PushAccept, PushDrop, TypeOK
  <2>4. ASSUME NEW d \in Cid, Follow(d) \/ StreamEnds(d), d # c
        PROVE  c \in following /\ pos'[c] = pos[c]
    BY <2>1, <2>4 DEF Follow, StreamEnds, TypeOK
  <2>5. ~StreamEnds(c)
    BY DEF StreamEnds
  <2> QED BY <1>3, <1>4, <1>5, <2>1, <2>2, <2>3, <2>4, <2>5, FollowingChanges
<1> QED BY <1>0, <1>6 DEF SentIsKept
--------------------------------------------------------------------------------
\* A flush that is appending carries what its checkpoints cover: nothing else
\* was in flight when it took its batch.
LEMMA SnapshotIsCarriedStep ==
  ASSUME TypeOK, CallersWait, SeenIsKept, SnapshotIsCarried,
         Next \/ UNCHANGED vars, ~overlapped'
  PROVE  SnapshotIsCarried'
<1>0. docker' = docker
  BY DockerStays
<1> SUFFICES ASSUME NEW f \in Flusher, flush'[f].pc = "append",
                    NEW ck \in flush'[f].cks, NEW i \in CoveredBySnapshot(ck)'
             PROVE  Landed(ck.cid, i)' \/ (\E l \in LinesIn(flush'[f].batch) :
                                             l.cid = ck.cid /\ docker[ck.cid][l.idx] = docker[ck.cid][i])
  BY <1>0 DEF SnapshotIsCarried, HeldIn
<1>c. ck.cid \in Cid
  BY TypeOKStep DEF TypeOK, FlushState, CidCheckpoint
<1>r. i \in CoveredBySnapshot(ck) /\ Retained(ck.cid, i)'
  BY <1>0, <1>c, RetainedBefore DEF CoveredBySnapshot, CoveredBy
<1>1. ASSUME flush'[f].cks = flush[f].cks, flush'[f].batch = flush[f].batch,
             flush[f].pc = "append"
      PROVE  Landed(ck.cid, i)' \/ (\E l \in LinesIn(flush'[f].batch) :
                                      l.cid = ck.cid /\ docker[ck.cid][l.idx] = docker[ck.cid][i])
  BY <1>1, <1>r, LandedStays DEF SnapshotIsCarried, HeldIn
<1>2. CASE flush'[f] = flush[f]
  BY <1>1, <1>2
<1>3. ASSUME NEW w \in flush[f].weeks, CommitWeek(f, w)
      PROVE  Landed(ck.cid, i)' \/ (\E l \in LinesIn(flush'[f].batch) :
                                      l.cid = ck.cid /\ docker[ck.cid][l.idx] = docker[ck.cid][i])
  BY <1>1, <1>3, CommitFlush
<1>4. CASE Take(f)
  <2>1. PICK c \in {l.cid : l \in LinesIn(lines)} :
           ck = [cid |-> c, ts |-> seen[c].ts, content |-> seen[c].content]
    BY <1>4, TakeFlush
  <2>2. c \in Cid
    BY LinesInTyping, DockerTyping DEF TypeOK
  <2>3. ck.cid = c /\ i \in CoveredBy(seen[c], c)
    <3>1. seen[c] = [ts |-> seen[c].ts, content |-> seen[c].content]
      BY <2>2 DEF TypeOK, Checkpoint
    <3> QED BY <1>r, <2>1, <3>1 DEF CoveredBySnapshot
  <2>4. Kept(c, i)
    BY <2>2, <2>3 DEF SeenIsKept
  <2>5. \A g \in Flusher : flush[g].pc # "append"
    BY <1>4, TakeFlush
  <2>6. Landed(c, i) \/ HeldIn(lines, c, i)
    BY <2>4, <2>5 DEF Kept, Held
  <2> QED BY <1>4, <1>r, <2>3, <2>6, TakeFlush, LandedStays DEF HeldIn
<1>5. flush'[f] # IdleFlush
  BY DEF IdleFlush
<1>6. flush'[f] # [flush[f] EXCEPT !.pc = "take"]
  BY DEF TypeOK, FlushState
<1>7. ~Intern(f)
  BY DEF Intern, TypeOK, FlushState
<1>8. ASSUME NEW q \in flush[f].cks, AdvanceCheckpoint(f, q) \/ AdvanceFails(f, q)
      PROVE  FALSE
  BY <1>8 DEF AdvanceCheckpoint, AdvanceFails, TypeOK, FlushState
<1> QED BY <1>2, <1>3, <1>4, <1>5, <1>6, <1>7, <1>8, FlushChanges

\* When the append is over, what the checkpoints cover is stored.
LEMMA SnapshotHasLandedStep ==
  ASSUME TypeOK, CallersWait, CommittedHasLanded, SnapshotIsCarried, SnapshotHasLanded,
         Next \/ UNCHANGED vars
  PROVE  SnapshotHasLanded'
<1>0. docker' = docker
  BY DockerStays
<1> SUFFICES ASSUME NEW f \in Flusher, flush'[f].pc \in {"intern", "advance"},
                    NEW ck \in flush'[f].cks, NEW i \in CoveredBySnapshot(ck)'
             PROVE  Landed(ck.cid, i)'
  BY DEF SnapshotHasLanded
<1>c. ck.cid \in Cid
  BY TypeOKStep DEF TypeOK, FlushState, CidCheckpoint
<1>r. i \in CoveredBySnapshot(ck) /\ Retained(ck.cid, i)'
  BY <1>0, <1>c, RetainedBefore DEF CoveredBySnapshot, CoveredBy
<1>1. ASSUME flush'[f].cks \subseteq flush[f].cks, flush[f].pc \in {"intern", "advance"}
      PROVE  Landed(ck.cid, i)'
  BY <1>1, <1>r, LandedStays DEF SnapshotHasLanded
<1>2. CASE flush'[f] = flush[f]
  BY <1>1, <1>2
<1>3. ASSUME NEW w \in flush[f].weeks, CommitWeek(f, w)
      PROVE  Landed(ck.cid, i)'
  <2>1. flush[f].pc = "append" /\ flush[f].weeks = {w} /\ ck \in flush[f].cks
    BY <1>3, CommitFlush
  <2>2. CASE Landed(ck.cid, i)
    BY <1>r, <2>2, LandedStays
  <2>3. CASE HeldIn(flush[f].batch, ck.cid, i)
    <3>1. PICK l \in LinesIn(flush[f].batch) :
             l.cid = ck.cid /\ docker[ck.cid][l.idx] = docker[ck.cid][i]
      BY <2>3 DEF HeldIn
    <3>0. Retained(l.cid, l.idx)' /\ Retained(l.cid, l.idx)
      BY <1>0, <1>c, <1>r, <3>1, RetainedBefore DEF CoveredBySnapshot, CoveredBy, Retained
    <3>2. Landed(l.cid, l.idx)'
      <4>1. CASE WeekOf(l) = w
        BY <1>3, <4>1, CommitLands
      <4>2. CASE WeekOf(l) # w
        BY <2>1, <3>0, <4>2, LandedStays DEF CommittedHasLanded
      <4> QED BY <4>1, <4>2
    <3> QED BY <1>0, <3>1, <3>2 DEF Landed
  <2> QED BY <1>r, <2>1, <2>2, <2>3 DEF SnapshotIsCarried
<1>4. CASE Intern(f)
  BY <1>1, <1>4 DEF Intern, TypeOK, FlushState
<1>5. ASSUME NEW q \in flush[f].cks, AdvanceCheckpoint(f, q) \/ AdvanceFails(f, q)
      PROVE  Landed(ck.cid, i)'
  BY <1>1, <1>5 DEF AdvanceCheckpoint, AdvanceFails, TypeOK, FlushState
<1>6. flush'[f] # IdleFlush
  BY DEF IdleFlush
<1>7. flush'[f] # [flush[f] EXCEPT !.pc = "take"]
  BY DEF TypeOK, FlushState
<1>8. ~Take(f)
  BY TakeFlush
<1> QED BY <1>2, <1>3, <1>4, <1>5, <1>6, <1>7, <1>8, FlushChanges

\* The checkpoints that are written cover only what is stored.
LEMMA CheckpointCoversLandedStep ==
  ASSUME TypeOK, SnapshotHasLanded, CheckpointCoversLanded, Next \/ UNCHANGED vars
  PROVE  CheckpointCoversLanded'
<1>0. docker' = docker
  BY DockerStays
<1> SUFFICES ASSUME NEW c \in Cid, NEW i \in DOMAIN docker[c], Retained(c, i)',
                    docker[c][i].ts < ckpt'[c].ts \/ docker[c][i] = ckpt'[c]
             PROVE  Landed(c, i)'
  BY <1>0 DEF CheckpointCoversLanded, CoveredBy
<1>r. Retained(c, i)
  BY RetainedBefore
<1>1. CASE ckpt'[c] = ckpt[c]
  <2>1. i \in CoveredBy(ckpt[c], c)
    BY <1>r, <1>1 DEF CoveredBy
  <2> QED BY <2>1, LandedStays DEF CheckpointCoversLanded
<1>2. ASSUME NEW f \in Flusher, NEW ck \in flush[f].cks, AdvanceCheckpoint(f, ck)
      PROVE  Landed(c, i)'
  <2>1. ckpt'[c] = ckpt[c] \/ (c = ck.cid /\ ckpt'[c] = [ts |-> ck.ts, content |-> ck.content])
    BY <1>2 DEF AdvanceCheckpoint, Upsert, TypeOK
  <2>2. CASE c = ck.cid /\ ckpt'[c] = [ts |-> ck.ts, content |-> ck.content]
    <3>1. i \in CoveredBySnapshot(ck)
      BY <1>r, <2>2 DEF CoveredBySnapshot, CoveredBy
    <3>2. flush[f].pc = "advance"
      BY <1>2 DEF AdvanceCheckpoint
    <3> QED BY <2>2, <3>1, <3>2, LandedStays DEF SnapshotHasLanded
  <2> QED BY <1>1, <2>1, <2>2
<1>3. ASSUME NEW w \in 1..oldest, PruneCheckpoints(w) PROVE ckpt'[c] = ckpt[c]
  <2>1. docker[c][i].ts \in Nat
    BY LogOrder
  <2>2. NoCheckpoint.ts = -1
    BY DEF NoCheckpoint
  <2> QED BY <1>3, <2>1, <2>2 DEF PruneCheckpoints
<1> QED BY <1>1, <1>2, <1>3, CkptChanges

--------------------------------------------------------------------------------
\* Nothing is covered by "no checkpoint".
LEMMA CoverageInvInit ==
  ASSUME Init, TypeOK
  PROVE  CoverageInv
<1>1. \A c \in Cid : seen[c] = NoCheckpoint /\ ckpt[c] = NoCheckpoint
  BY DEF Init
<1>2. \A f \in Flusher : flush[f] = IdleFlush
  BY DEF Init
<1>3. ASSUME NEW c \in Cid PROVE CoveredBy(NoCheckpoint, c) = {}
  <2>1. \A i \in DOMAIN docker[c] : docker[c][i].ts \in Nat
    BY LogOrder
  <2>2. NoCheckpoint.ts = -1
    BY DEF NoCheckpoint
  <2> QED BY <2>1, <2>2 DEF CoveredBy
<1>4. CommittedHasLanded /\ SnapshotIsCarried /\ SnapshotHasLanded
  BY <1>2 DEF CommittedHasLanded, SnapshotIsCarried, SnapshotHasLanded, IdleFlush
<1>5. SeenIsKept /\ CheckpointCoversLanded
  BY <1>1, <1>3 DEF SeenIsKept, CheckpointCoversLanded
<1>6. CheckpointsLagSeen
  <2>1. NoCheckpoint.ts <= NoCheckpoint.ts
    BY DEF NoCheckpoint
  <2> QED BY <1>1, <1>2, <2>1 DEF CheckpointsLagSeen, IdleFlush
<1>7. SentIsKept
  BY DEF Init, SentIsKept
<1>8. CallersWait
  BY <1>2 DEF Init, CallersWait, IdleFlush, Flusher
<1> QED BY <1>4, <1>5, <1>6, <1>7, <1>8 DEF CoverageInv

\* CoverageInv survives every step.
LEMMA CoverageInvStep ==
  ASSUME CoverageInv, Next \/ UNCHANGED vars
  PROVE  CoverageInv'
<1> USE DEF CoverageInv
<1>1. TypeOK' /\ CallersWait' /\ CommittedHasLanded'
  BY TypeOKStep, CallersWaitStep, CommittedHasLandedStep
<1>2. CheckpointsLagSeen'
  BY <1>1, CheckpointsLagSeenStep
<1>3. overlapped \in BOOLEAN /\ overlapped' \in BOOLEAN
  BY <1>1 DEF TypeOK
<1>4. ASSUME ~overlapped'
      PROVE  SnapshotIsCarried' /\ SnapshotHasLanded' /\ CheckpointCoversLanded'
  <2>1. ~overlapped
    BY <1>4, HistoryStays
  <2> QED BY <1>4, <2>1, SnapshotIsCarriedStep, SnapshotHasLandedStep,
             CheckpointCoversLandedStep
<1>5. ASSUME ~overlapped' \/ NoRestartYet'
      PROVE  SeenIsKept' /\ SentIsKept'
  <2>1. CASE Crash
    <3>1. ~NoRestartYet'
      BY <2>1 DEF Crash, Suffer, NoRestartYet
    <3>2. CheckpointCoversLanded'
      BY <1>4, <1>5, <3>1
    <3>3. seen' = ckpt' /\ following' = {}
      BY <2>1 DEF Crash
    <3>4. SeenIsKept'
      BY <3>2, <3>3 DEF SeenIsKept, CheckpointCoversLanded, CoveredBy, Kept
    <3> QED BY <3>3, <3>4 DEF SentIsKept
  <2>2. CASE ~Crash
    <3>1. SeenIsKept /\ SentIsKept
      BY <1>5, HistoryStays
    <3>2. SeenIsKept'
      BY <2>2, <3>1, SeenIsKeptStep
    <3> QED BY <1>1, <2>2, <3>1, <3>2, SentIsKeptStep
  <2> QED BY <2>1, <2>2
<1> QED BY <1>1, <1>2, <1>4, <1>5

\* CoverageInv holds in every behaviour.
LEMMA CoverageInvHolds == Spec => []CoverageInv
<1>1. Init => TypeOK
  BY InitTypeOK
<1>2. Init => CoverageInv
  BY <1>1, CoverageInvInit
<1>3. CoverageInv /\ [Next]_vars => CoverageInv'
  BY CoverageInvStep
<1> QED BY <1>2, <1>3, PTL DEF Spec

\* Whatever fails, reconnects, restarts or expires: as long as no two flushes
\* overlapped, a persisted checkpoint makes ingestion skip, of the weeks that
\* retention keeps, only lines that are stored.
THEOREM CheckpointsCoverLanded == Spec => []CoversUnlessOverlapped
<1>1. CoverageInv => CoversUnlessOverlapped
  BY DEF CoverageInv, CoversUnlessOverlapped
<1> QED BY <1>1, CoverageInvHolds, PTL

\* The in-memory dedup never drops a retained line whose content is nowhere, even
\* when flushes overlap, until a restart that follows such an overlap.
THEOREM DedupLosesNothing == Spec => []DedupDropsOnlyHeld
<1>1. CoverageInv => DedupDropsOnlyHeld
  BY DEF CoverageInv, DedupDropsOnlyHeld, SeenIsKept, Kept
<1> QED BY <1>1, CoverageInvHolds, PTL

\* A checkpoint's timestamp never decreases, whichever order the snapshots of
\* overlapping flushes are written in; retention drops only one from before its
\* cutoff.
THEOREM CheckpointsNeverRegress == Spec => CheckpointNeverRegresses
<1>1. ASSUME TypeOK, [Next]_vars
      PROVE  [\A c \in Cid : ckpt[c].ts <= ckpt'[c].ts \/ Pruned(c)]_ckpt
  <2>1. \A c \in Cid : ckpt[c].ts \in Int
    BY <1>1 DEF TypeOK, Checkpoint
  <2>2. ASSUME NEW f \in Flusher, NEW ck \in flush[f].cks, AdvanceCheckpoint(f, ck),
               NEW c \in Cid
        PROVE  ckpt[c].ts <= ckpt'[c].ts
    <3>1. ck.ts \in Int
      BY <1>1, <2>2, FlushTyping DEF CidCheckpoint
    <3> QED BY <1>1, <2>1, <2>2, <3>1 DEF AdvanceCheckpoint, Upsert, TypeOK
  <2>3. ASSUME NEW w \in 1..oldest, PruneCheckpoints(w), NEW c \in Cid
        PROVE  ckpt[c].ts <= ckpt'[c].ts \/ Pruned(c)
    <3>1. CutoffOf(w) \in Nat /\ CutoffOf(w) <= Cutoff /\ Cutoff \in Nat
      BY <1>1, PrunedIsOld, CutoffTyping
    <3>2. CASE ckpt[c].ts < CutoffOf(w)
      <4>1. ckpt'[c] = NoCheckpoint
        BY <2>3, <3>2 DEF PruneCheckpoints
      <4>2. ckpt[c].ts < Cutoff
        BY <2>1, <3>1, <3>2
      <4> QED BY <4>1, <4>2 DEF Pruned
    <3>3. CASE ~(ckpt[c].ts < CutoffOf(w))
      <4>1. ckpt'[c] = ckpt[c]
        BY <2>3, <3>3 DEF PruneCheckpoints
      <4> QED BY <2>1, <4>1
    <3> QED BY <3>2, <3>3
  <2> QED BY <1>1, <2>1, <2>2, <2>3, CkptChanges
<1> QED BY <1>1, TypeCorrect, PTL DEF Spec, CheckpointNeverRegresses
--------------------------------------------------------------------------------
(* The bound of the buffer, and that a replay stores nothing twice. *)

\* A failure, once there was one, is remembered.
LEMMA FailureStays ==
  ASSUME TypeOK, Next \/ UNCHANGED vars
  PROVE  NoFailureYet' => NoFailureYet
<1>1. suffered \subseteq suffered'
  BY DEF Next, FlushStep, Follow, StreamEnds, PushAccept, PushDrop, ScheduleFlush,
         WorkerReceives, WorkerDebounced, WorkerRetires, TakeNothing, Take,
         CommitWeek, AppendFails, Intern, InternFails, AdvanceCheckpoint,
         AdvanceFails, Notify, Crash, Suffer, vars, Retention, WeekPasses,
         DeleteWeek, PruneCheckpoints
<1> QED BY <1>1 DEF NoFailureYet

\* A push that fills the buffer leaves it to the inline flush it waits for.
LEMMA BufferHasRoomStep ==
  ASSUME TypeOK, CallersWait, BufferHasRoom, Next \/ UNCHANGED vars
  PROVE  BufferHasRoom'
<1> SUFFICES ASSUME NoFailureYet'
             PROVE  /\ Len(lines') <= MaxBuffered
                    /\ flush'["inline"].pc # "take" => Len(lines') < MaxBuffered
  BY DEF BufferHasRoom
<1>0. /\ Len(lines) <= MaxBuffered
      /\ flush["inline"].pc # "take" => Len(lines) < MaxBuffered
  BY FailureStays DEF BufferHasRoom
<1>a. Len(lines) \in Nat /\ MaxBuffered \in Nat \ {0} /\ flush \in [Flusher -> FlushState]
  BY ConstantsAssumption DEF TypeOK
<1>b. "inline" \in Flusher
  BY DEF Flusher
<1>1. ASSUME NEW c \in Cid, PushAccept(c)
      PROVE  /\ Len(lines') <= MaxBuffered
             /\ flush'["inline"].pc # "take" => Len(lines') < MaxBuffered
  <2>1. Len(lines') = Len(lines) + 1
    BY <1>1 DEF PushAccept, TypeOK
  <2>2. flush["inline"].pc = "idle"
    BY <1>1 DEF PushAccept, CallersWait
  <2>3. CASE FlushInline(Len(lines) + 1)
    <3>1. flush' = [flush EXCEPT !["inline"].pc = "take"]
      BY <1>1, <2>3 DEF PushAccept
    <3>2. flush'["inline"].pc = "take"
      BY <1>a, <1>b, <3>1
    <3>3. Len(lines) + 1 <= MaxBuffered
      BY <1>0, <1>a, <2>2
    <3> QED BY <2>1, <3>2, <3>3
  <2>4. CASE ~FlushInline(Len(lines) + 1)
    BY <1>0, <1>a, <2>1, <2>4 DEF FlushInline
  <2> QED BY <2>3, <2>4
<1>2. CASE lines' = <<>>
  BY <1>2, <1>a
<1>3. CASE lines' = lines /\ (flush'["inline"].pc = "take" <=> flush["inline"].pc = "take")
  BY <1>0, <1>3
<1>4. ASSUME NEW f \in Flusher, FlushStep(f)
      PROVE  \/ lines' = <<>>
             \/ lines' = lines /\ (flush'["inline"].pc = "take" <=> flush["inline"].pc = "take")
  <2>1. ~AppendFails(f) /\ ~InternFails(f) /\ \A ck \in flush[f].cks : ~AdvanceFails(f, ck)
    BY DEF AppendFails, InternFails, AdvanceFails, Suffer, NoFailureYet
  <2>2. CASE TakeNothing(f) \/ Take(f)
    BY <2>2 DEF TakeNothing, Take
  <2>3. ASSUME NEW w \in flush[f].weeks, CommitWeek(f, w)
        PROVE  lines' = lines /\ (flush'["inline"].pc = "take" <=> flush["inline"].pc = "take")
    BY <1>a, <1>b, <2>3 DEF CommitWeek, AfterCommit
  <2>4. CASE Intern(f)
    BY <1>a, <1>b, <2>4 DEF Intern
  <2>5. ASSUME NEW ck \in flush[f].cks, AdvanceCheckpoint(f, ck)
        PROVE  lines' = lines /\ (flush'["inline"].pc = "take" <=> flush["inline"].pc = "take")
    BY <1>a, <1>b, <2>5 DEF AdvanceCheckpoint
  <2>6. CASE Notify(f)
    BY <1>a, <1>b, <2>6 DEF Notify, Return, IdleFlush
  <2> QED BY <1>4, <2>1, <2>2, <2>3, <2>4, <2>5, <2>6 DEF FlushStep
<1>5. CASE WorkerDebounced
  BY <1>3, <1>5, <1>a, <1>b DEF WorkerDebounced
<1>6. CASE Crash
  BY <1>2, <1>6 DEF Crash
<1>7. CASE \/ \E c \in Cid : Follow(c) \/ StreamEnds(c) \/ PushDrop(c)
           \/ ScheduleFlush \/ WorkerReceives \/ WorkerRetires \/ UNCHANGED vars
           \/ Retention
  BY <1>3, <1>7, RetentionChanges DEF Follow, StreamEnds, PushDrop, ScheduleFlush, WorkerReceives,
                    WorkerRetires, vars
<1> QED BY <1>1, <1>2, <1>3, <1>4, <1>5, <1>6, <1>7 DEF Next

\* "Per-service buffered log lines allowed before ingestion blocks on a write":
\* without a failed append the buffer stays within it.
THEOREM BufferStaysBounded == Spec => []BufferBounded
<1>1. Init => TypeOK /\ CallersWait /\ BufferHasRoom
  <2>1. Init => TypeOK /\ CallersWait
    BY InitTypeOK DEF Init, CallersWait, IdleFlush, Flusher
  <2>2. Init => BufferHasRoom
    BY ConstantsAssumption DEF Init, BufferHasRoom
  <2> QED BY <2>1, <2>2
<1>2. TypeOK /\ CallersWait /\ BufferHasRoom /\ [Next]_vars
        => TypeOK' /\ CallersWait' /\ BufferHasRoom'
  BY TypeOKStep, CallersWaitStep, BufferHasRoomStep
<1>3. BufferHasRoom => BufferBounded
  BY DEF BufferHasRoom, BufferBounded
<1> QED BY <1>1, <1>2, <1>3, PTL DEF Spec

\* A new line at the end of a buffer that did not hold it repeats none.
LEMMA NoRepeatsAppend ==
  ASSUME NEW S, NEW s \in Seq(S), NEW x \in S, NoRepeats(s), x \notin LinesIn(s)
  PROVE  NoRepeats(Append(s, x))
<1>1. DOMAIN Append(s, x) = 1..(Len(s) + 1) /\ DOMAIN s = 1..Len(s) /\ Len(s) \in Nat
  OBVIOUS
<1>2. \A i \in 1..Len(s) : Append(s, x)[i] = s[i] /\ s[i] # x
  BY <1>1 DEF LinesIn
<1>3. Append(s, x)[Len(s) + 1] = x
  OBVIOUS
<1>4. \A i \in 1..(Len(s) + 1) : i \in 1..Len(s) \/ i = Len(s) + 1
  BY <1>1
<1> QED BY <1>1, <1>2, <1>3, <1>4 DEF NoRepeats

\* The lines of a step's batches are of the same time and week after it.
LEMMA LinesKeep ==
  ASSUME Next \/ UNCHANGED vars
  PROVE  \A l : Ts(l)' = Ts(l) /\ WeekOf(l)' = WeekOf(l)
BY DockerStays DEF Ts, WeekOf

\* While nothing fails, only a flush that takes or commits has other lines to commit.
LEMMA UncommittedChanges ==
  ASSUME TypeOK, CallersWait, Next \/ UNCHANGED vars, NoFailureYet', NoRestartYet',
         NEW f \in Flusher
  PROVE  \/ Take(f)
         \/ \E w \in flush[f].weeks : CommitWeek(f, w)
         \/ /\ Uncommitted'[f] = Uncommitted[f]
            /\ flush'[f].pc = "append" =>
                 flush[f].pc = "append" /\ flush'[f].batch = flush[f].batch
<1>0. flush \in [Flusher -> FlushState]
  BY DEF TypeOK
<1>1. ~AppendFails(f) /\ ~Crash
  BY DEF AppendFails, Crash, Suffer, NoFailureYet, NoRestartYet
<1>2. CASE flush'[f] = flush[f]
  BY <1>2, LinesKeep DEF Uncommitted, LinesIn
<1>3. CASE flush[f].pc # "append" /\ flush'[f].pc # "append"
  BY <1>3 DEF Uncommitted
<1>4. CASE Intern(f)
  BY <1>0, <1>3, <1>4 DEF Intern
<1>5. ASSUME NEW ck \in flush[f].cks, AdvanceCheckpoint(f, ck) \/ AdvanceFails(f, ck)
      PROVE  flush[f].pc # "append" /\ flush'[f].pc # "append"
  <2>1. flush[f].pc = "advance" /\ flush' = [flush EXCEPT ![f].cks = @ \ {ck}]
    BY <1>5 DEF AdvanceCheckpoint, AdvanceFails
  <2> QED BY <1>0, <2>1 DEF FlushState
<1>6. CASE flush'[f] = IdleFlush /\ (flush[f].pc = "append" => AppendFails(f) \/ Crash)
  BY <1>1, <1>3, <1>6 DEF IdleFlush
<1>7. CASE flush[f].pc = "idle" /\ flush'[f] = [flush[f] EXCEPT !.pc = "take"]
  BY <1>0, <1>3, <1>7 DEF FlushState
<1> QED BY <1>2, <1>3, <1>4, <1>5, <1>6, <1>7, FlushChanges

\* With a time for each line, push accepts only what is later than all before.
LEMMA AcceptIsLater ==
  ASSUME TypeOK, SeenIsLatest, DistinctTimes, NEW c \in Cid, PushAccept(c)
  PROVE  seen[c].ts < Ts([cid |-> c, idx |-> pos[c]])
<1> DEFINE l == [cid |-> c, idx |-> pos[c]]
<1>1. l \in DockerLines /\ l.cid = c /\ l.idx = pos[c]
  BY AcceptBuffers
<1>2. ~Dropped(l)
  BY DEF PushAccept
<1>3. Ts(l) = docker[c][pos[c]].ts /\ Payload(l) = docker[c][pos[c]].content
  BY <1>1 DEF Ts, Payload
<1>4. Ts(l) \in Nat /\ seen[c].ts \in Nat \cup {-1} /\ pos[c] \in DOMAIN docker[c]
  BY <1>1, DockerTyping DEF TypeOK, Checkpoint
<1> HIDE DEF l
<1>5. ~(Ts(l) < seen[c].ts) /\ ~(Ts(l) = seen[c].ts /\ Payload(l) = seen[c].content)
  BY <1>1, <1>2 DEF Dropped
<1>6. Ts(l) # seen[c].ts
  <2> SUFFICES ASSUME Ts(l) = seen[c].ts PROVE FALSE
    OBVIOUS
  <2>1. PICK i \in DOMAIN docker[c] : docker[c][i] = seen[c]
    BY <1>4 DEF SeenIsLatest
  <2>2. i = pos[c]
    BY <1>3, <1>4, <2>1 DEF DistinctTimes
  <2> QED BY <1>3, <1>5, <2>1, <2>2
<1> QED BY <1>4, <1>5, <1>6 DEF l

\* An accepted line is a new one, and the latest.
LEMMA ReplayAccept ==
  ASSUME TypeOK, CallersWait, LinesAreOnce, SeenIsLatest, DistinctTimes,
         Next, NoFailureYet', NoRestartYet', NEW c \in Cid, PushAccept(c)
  PROVE  LinesAreOnce' /\ SeenIsLatest'
<1> DEFINE l == [cid |-> c, idx |-> pos[c]]
<1>1. l \in DockerLines /\ LinesIn(lines') = LinesIn(lines) \cup {l} /\ l.cid = c
  BY AcceptBuffers
<1>2. seen[c].ts < Ts(l)
  BY AcceptIsLater
<1>3. /\ seen'[c].ts = Ts(l) /\ \A d \in Cid \ {c} : seen'[d] = seen[d]
      /\ pos[c] \in DOMAIN docker[c] /\ seen'[c] = docker[c][pos[c]]
  <2>1. docker[c] \in Seq(DockerLine)
    BY DockerTyping DEF TypeOK
  <2> QED BY <2>1, AcceptMovesSeen DEF Ts
<1>4. lines \in Seq(DockerLines) /\ lines' = Append(lines, l)
  BY DEF TypeOK, PushAccept
<1>5. rows' = rows /\ StoredLines' = StoredLines /\ docker' = docker
  BY DEF PushAccept, StoredLines
<1>6. \A f \in Flusher :
        /\ Uncommitted'[f] = Uncommitted[f]
        /\ flush'[f].pc = "append" =>
             flush[f].pc = "append" /\ flush'[f].batch = flush[f].batch
  <2> TAKE f \in Flusher
  <2>1. ~Take(f) /\ \A w \in flush[f].weeks : ~CommitWeek(f, w)
    BY <1>4 DEF Take, CommitWeek, PushAccept, TypeOK
  <2> QED BY <2>1, UncommittedChanges
<1>7. Ts(l) \in Nat /\ \A d \in Cid : seen[d].ts \in Int
  BY <1>1, DockerTyping DEF TypeOK, Checkpoint
<1>8. /\ StoredLines \subseteq DockerLines /\ LinesIn(lines) \subseteq DockerLines
      /\ \A f \in Flusher : Uncommitted[f] \subseteq DockerLines
  BY FlushTyping, LinesInTyping DEF TypeOK, StoredLines, Uncommitted
<1> HIDE DEF l
<1>9. \A m \in DockerLines : m.cid \in Cid /\ Ts(m) \in Nat
  BY DockerTyping DEF TypeOK
<1>10. \A m \in DockerLines : Ts(m) <= seen[m.cid].ts => m # l /\ Ts(m) <= seen'[m.cid].ts
  BY <1>1, <1>2, <1>3, <1>7, <1>9
<1>11. l \notin LinesIn(lines) \cup StoredLines /\ \A f \in Flusher : l \notin Uncommitted[f]
  BY <1>8, <1>10 DEF SeenIsLatest
<1>12. LinesAreOnce'
  <2>1. NoRepeats(lines')
    BY <1>1, <1>4, <1>11, NoRepeatsAppend DEF LinesAreOnce
  <2>2. LinesIn(lines') \cap StoredLines' = {} /\ NoDuplicateRows'
    BY <1>1, <1>5, <1>11 DEF LinesAreOnce, NoDuplicateRows
  <2>3. \A f \in Flusher :
          /\ flush'[f].pc = "append" => NoRepeats(flush'[f].batch)
          /\ Uncommitted'[f] \cap (LinesIn(lines') \cup StoredLines') = {}
          /\ \A g \in Flusher \ {f} : Uncommitted'[f] \cap Uncommitted'[g] = {}
    <3> TAKE f \in Flusher
    <3>1. /\ flush[f].pc = "append" => NoRepeats(flush[f].batch)
          /\ Uncommitted[f] \cap (LinesIn(lines) \cup StoredLines) = {}
          /\ \A g \in Flusher \ {f} : Uncommitted[f] \cap Uncommitted[g] = {}
      BY DEF LinesAreOnce
    <3>2. flush'[f].pc = "append" => NoRepeats(flush'[f].batch)
      BY <1>6, <3>1
    <3>3. Uncommitted'[f] \cap (LinesIn(lines') \cup StoredLines') = {}
      BY <1>1, <1>5, <1>6, <1>11, <3>1
    <3>4. \A g \in Flusher \ {f} : Uncommitted'[f] \cap Uncommitted'[g] = {}
      BY <1>6, <3>1
    <3> QED BY <3>2, <3>3, <3>4
  <2> QED BY <2>1, <2>2, <2>3 DEF LinesAreOnce, LinesIn, NoRepeats
<1>13. SeenIsLatest'
  <2>1. \A m : Ts(m)' = Ts(m)
    BY <1>5 DEF Ts
  <2>2. \A m \in LinesIn(lines') \cup StoredLines' : Ts(m) <= seen'[m.cid].ts
    BY <1>1, <1>3, <1>5, <1>7, <1>8, <1>10 DEF SeenIsLatest
  <2>3. \A f \in Flusher : \A m \in Uncommitted'[f] : Ts(m) <= seen'[m.cid].ts
    <3> TAKE f \in Flusher
    <3>1. \A m \in Uncommitted[f] : m \in DockerLines /\ Ts(m) <= seen[m.cid].ts
      BY <1>8 DEF SeenIsLatest
    <3>2. Uncommitted'[f] = Uncommitted[f]
      BY <1>6
    <3> QED BY <1>10, <3>1, <3>2
  <2>4. \A d \in Cid : seen'[d].ts = -1 \/ \E i \in DOMAIN docker[d] : docker[d][i] = seen'[d]
    BY <1>3 DEF SeenIsLatest
  <2> QED BY <1>5, <2>1, <2>2, <2>3, <2>4 DEF SeenIsLatest, LinesIn
<1> QED BY <1>12, <1>13

\* A committed week's lines were in its batch only, and are now stored only.
LEMMA ReplayCommit ==
  ASSUME TypeOK, LinesAreOnce, SeenIsLatest, Next,
         NEW f \in Flusher, NEW w \in flush[f].weeks, CommitWeek(f, w)
  PROVE  LinesAreOnce' /\ SeenIsLatest'
<1> DEFINE batch == flush[f].batch
           part == {i \in DOMAIN batch : WeekOf(batch[i]) = w}
           new == {batch[i] : i \in part}
<1>0. flush \in [Flusher -> FlushState] /\ flush[f].pc = "append"
  BY CommitFlush DEF TypeOK
<1>1. /\ rows' = rows \cup {[line |-> batch[i], id |-> nextRow + i] : i \in part}
      /\ lines' = lines /\ seen' = seen /\ docker' = docker
  BY DEF CommitWeek
<1>2. new \subseteq Uncommitted[f]
  BY <1>0 DEF Uncommitted, LinesIn
<1>3. NoRepeats(batch)
  BY <1>0 DEF LinesAreOnce
<1>4. StoredLines' = StoredLines \cup new
  <2> DEFINE added == {[line |-> batch[i], id |-> nextRow + i] : i \in part}
  <2>1. {r.line : r \in added} = new
    <3>1. \A i \in part : [line |-> batch[i], id |-> nextRow + i].line = batch[i]
      OBVIOUS
    <3> HIDE DEF part, batch
    <3> QED BY <3>1
  <2>2. StoredLines' = {r.line : r \in rows \cup added}
    BY <1>1 DEF StoredLines
  <2> HIDE DEF added, new
  <2> QED BY <2>1, <2>2 DEF StoredLines
<1>5. Uncommitted'[f] = Uncommitted[f] \ new
  <2>1. flush'[f].batch = batch /\ flush'[f].weeks = flush[f].weeks \ {w}
    BY CommitFlush
  <2>2. flush'[f].pc = "append" \/ flush'[f].weeks = {}
    BY <2>1, CommitFlush
  <2>3. Uncommitted'[f] = {l \in LinesIn(batch) : WeekOf(l) \in flush[f].weeks \ {w}}
    BY <2>1, <2>2, LinesKeep DEF Uncommitted, LinesIn
  <2>4. Uncommitted[f] = {l \in LinesIn(batch) : WeekOf(l) \in flush[f].weeks}
    BY <1>0 DEF Uncommitted
  <2>5. new = {l \in LinesIn(batch) : WeekOf(l) = w}
    BY DEF LinesIn
  <2> HIDE DEF new, batch
  <2> QED BY <2>3, <2>4, <2>5
<1>6. \A g \in Flusher \ {f} : flush'[g] = flush[g] /\ Uncommitted'[g] = Uncommitted[g]
  <2> TAKE g \in Flusher \ {f}
  <2>1. flush'[g] = flush[g]
    BY <1>0 DEF CommitWeek
  <2> QED BY <2>1, LinesKeep DEF Uncommitted, LinesIn
<1>7. NoDuplicateRows'
  <2>1. \A i \in part : batch[i] \notin StoredLines
    BY <1>2 DEF LinesAreOnce
  <2>2. \A i, j \in part : batch[i] = batch[j] => i = j
    BY <1>3 DEF NoRepeats
  <2>3. \A r \in rows : r.line \in StoredLines
    BY DEF StoredLines
  <2>4. \A q, r \in rows : q.line = r.line => q.id = r.id
    BY DEF LinesAreOnce, NoDuplicateRows
  <2> HIDE DEF part, batch
  <2> QED BY <1>1, <2>1, <2>2, <2>3, <2>4 DEF NoDuplicateRows
<1>8. LinesAreOnce'
  <2>1. NoRepeats(lines') /\ LinesIn(lines') = LinesIn(lines)
    BY <1>1 DEF LinesAreOnce, LinesIn
  <2>2. LinesIn(lines') \cap StoredLines' = {}
    BY <1>2, <1>4, <2>1 DEF LinesAreOnce
  <2>3. \A g \in Flusher : flush'[g].pc = "append" => NoRepeats(flush'[g].batch)
    BY <1>3, <1>6, CommitFlush DEF LinesAreOnce
  <2>4. \A g \in Flusher : Uncommitted'[g] \cap (LinesIn(lines') \cup StoredLines') = {}
    <3> TAKE g \in Flusher
    <3>1. Uncommitted[g] \cap (LinesIn(lines) \cup StoredLines) = {}
      BY DEF LinesAreOnce
    <3>2. CASE g = f
      BY <1>4, <1>5, <2>1, <3>1, <3>2
    <3>3. CASE g # f
      <4>1. Uncommitted[g] \cap Uncommitted[f] = {}
        BY <3>3 DEF LinesAreOnce
      <4> QED BY <1>2, <1>4, <1>6, <2>1, <3>1, <3>3, <4>1
    <3> QED BY <3>2, <3>3
  <2>5. \A g \in Flusher : Uncommitted'[g] \subseteq Uncommitted[g]
    BY <1>5, <1>6
  <2>6. \A g \in Flusher : \A h \in Flusher \ {g} : Uncommitted'[g] \cap Uncommitted'[h] = {}
    BY <2>5 DEF LinesAreOnce
  <2> QED BY <1>7, <2>1, <2>2, <2>3, <2>4, <2>6 DEF LinesAreOnce, LinesIn, NoRepeats
<1>9. SeenIsLatest'
  <2>1. \A l \in LinesIn(lines) \cup StoredLines' : Ts(l) <= seen[l.cid].ts
    BY <1>2, <1>4 DEF SeenIsLatest
  <2>2. \A g \in Flusher : \A l \in Uncommitted'[g] : Ts(l) <= seen[l.cid].ts
    BY <1>5, <1>6 DEF SeenIsLatest
  <2> QED BY <1>1, <2>1, <2>2 DEF SeenIsLatest, LinesIn, Ts
<1> QED BY <1>8, <1>9

\* What a flush takes leaves the buffer: those lines are uncommitted now.
LEMMA ReplayTake ==
  ASSUME TypeOK, LinesAreOnce, SeenIsLatest, Next, NEW f \in Flusher, Take(f)
  PROVE  LinesAreOnce' /\ SeenIsLatest'
<1>1. rows' = rows /\ StoredLines' = StoredLines /\ seen' = seen /\ docker' = docker
  BY DEF Take, StoredLines
<1>2. LinesIn(lines') = {} /\ NoRepeats(lines')
  BY TakeFlush, LinesInEmpty DEF NoRepeats
<1>3. Uncommitted[f] = {}
  BY TakeFlush DEF Uncommitted
<1>4. flush'[f].batch = lines /\ Uncommitted'[f] = LinesIn(lines)
  BY TakeFlush, LinesKeep DEF Uncommitted, LinesIn
<1>5. \A g \in Flusher \ {f} : flush'[g] = flush[g] /\ Uncommitted'[g] = Uncommitted[g]
  BY TakeFlush, LinesKeep DEF Uncommitted, LinesIn
<1>6. LinesAreOnce'
  <2>1. \A g \in Flusher : flush'[g].pc = "append" => NoRepeats(flush'[g].batch)
    BY <1>4, <1>5 DEF LinesAreOnce
  <2>2. \A g \in Flusher : Uncommitted'[g] \cap (LinesIn(lines') \cup StoredLines') = {}
    BY <1>1, <1>2, <1>4, <1>5 DEF LinesAreOnce
  <2>3. \A g \in Flusher : \A h \in Flusher \ {g} : Uncommitted'[g] \cap Uncommitted'[h] = {}
    <3> TAKE g \in Flusher
    <3> TAKE h \in Flusher \ {g}
    <3>1. CASE g = f
      BY <1>4, <1>5, <3>1 DEF LinesAreOnce
    <3>2. CASE h = f
      BY <1>4, <1>5, <3>2 DEF LinesAreOnce
    <3>3. CASE g # f /\ h # f
      BY <1>5, <3>3 DEF LinesAreOnce
    <3> QED BY <3>1, <3>2, <3>3
  <2>4. NoDuplicateRows'
    BY <1>1 DEF LinesAreOnce, NoDuplicateRows
  <2> QED BY <1>2, <2>1, <2>2, <2>3, <2>4 DEF LinesAreOnce, LinesIn, NoRepeats
<1>7. SeenIsLatest'
  <2>1. \A l \in LinesIn(lines') \cup StoredLines' : Ts(l) <= seen[l.cid].ts
    BY <1>1, <1>2 DEF SeenIsLatest
  <2>2. \A g \in Flusher : \A l \in Uncommitted'[g] : Ts(l) <= seen[l.cid].ts
    BY <1>4, <1>5 DEF SeenIsLatest
  <2> QED BY <1>1, <2>1, <2>2 DEF SeenIsLatest, LinesIn, Ts
<1> QED BY <1>6, <1>7

\* Every other step leaves the lines where they are, but for the rows that retention
\* deletes.
LEMMA ReplayOther ==
  ASSUME TypeOK, CallersWait, LinesAreOnce, SeenIsLatest, Next \/ UNCHANGED vars,
         NoFailureYet', NoRestartYet', ~(\E c \in Cid : PushAccept(c)),
         \A f \in Flusher : ~Take(f) /\ \A w \in flush[f].weeks : ~CommitWeek(f, w)
  PROVE  LinesAreOnce' /\ SeenIsLatest'
<1>1. ~Crash /\ \A f \in Flusher : ~AppendFails(f)
  BY DEF AppendFails, Crash, Suffer, NoFailureYet, NoRestartYet
<1>2. lines' = lines /\ seen' = seen /\ docker' = docker
  BY <1>1, LinesChange, SeenChanges, DockerStays
<1>3. rows' \subseteq rows
  BY <1>1 DEF Next, FlushStep, Follow, StreamEnds, PushDrop, ScheduleFlush,
         WorkerReceives, WorkerDebounced, WorkerRetires, TakeNothing,
         Intern, InternFails, AdvanceCheckpoint, AdvanceFails, Notify, vars, Retention,
         WeekPasses, DeleteWeek, PruneCheckpoints
<1>4. \A f \in Flusher :
        /\ Uncommitted'[f] = Uncommitted[f]
        /\ flush'[f].pc = "append" =>
             flush[f].pc = "append" /\ flush'[f].batch = flush[f].batch
  BY UncommittedChanges
<1>5. StoredLines' \subseteq StoredLines /\ LinesIn(lines') = LinesIn(lines) /\ NoDuplicateRows'
  BY <1>2, <1>3 DEF StoredLines, LinesIn, LinesAreOnce, NoDuplicateRows
<1>6. \A f \in Flusher :
        /\ flush'[f].pc = "append" => NoRepeats(flush'[f].batch)
        /\ Uncommitted'[f] \cap (LinesIn(lines') \cup StoredLines') = {}
        /\ \A g \in Flusher \ {f} : Uncommitted'[f] \cap Uncommitted'[g] = {}
  BY <1>4, <1>5 DEF LinesAreOnce
<1>7. NoRepeats(lines') /\ LinesIn(lines') \cap StoredLines' = {}
  BY <1>2, <1>5 DEF LinesAreOnce
<1>8. LinesAreOnce'
  BY <1>5, <1>6, <1>7 DEF LinesAreOnce, LinesIn, NoRepeats
<1>9. /\ \A l \in LinesIn(lines') \cup StoredLines' : Ts(l) <= seen[l.cid].ts
      /\ \A f \in Flusher : \A l \in Uncommitted'[f] : Ts(l) <= seen[l.cid].ts
  BY <1>4, <1>5 DEF SeenIsLatest
<1>10. SeenIsLatest'
  BY <1>2, <1>9 DEF SeenIsLatest, LinesIn, Ts
<1> QED BY <1>8, <1>10

\* ReplayInv survives every step.
LEMMA ReplayInvStep ==
  ASSUME TypeOK, CallersWait, ReplayInv, Next \/ UNCHANGED vars
  PROVE  ReplayInv'
<1> SUFFICES ASSUME NoFailureYet', NoRestartYet', DistinctTimes'
             PROVE  LinesAreOnce' /\ SeenIsLatest'
  BY DEF ReplayInv
<1>1. NoFailureYet /\ NoRestartYet /\ DistinctTimes
  BY FailureStays, HistoryStays, DockerStays DEF DistinctTimes
<1>2. LinesAreOnce /\ SeenIsLatest
  BY <1>1 DEF ReplayInv
<1>3. CASE \E c \in Cid : PushAccept(c)
  BY <1>1, <1>2, <1>3, ReplayAccept DEF Next
<1>4. CASE \E f \in Flusher : Take(f)
  BY <1>2, <1>4, ReplayTake DEF Next, FlushStep
<1>5. CASE \E f \in Flusher : \E w \in flush[f].weeks : CommitWeek(f, w)
  BY <1>2, <1>5, ReplayCommit DEF Next, FlushStep
<1> QED BY <1>2, <1>3, <1>4, <1>5, ReplayOther

\* "Safe backfilling without duplicating already persisted lines": while nothing
\* fails or restarts, a log task that reconnects makes no line with a time of its
\* own be stored twice.
THEOREM ReplaysAddNothing == Spec => []ReplayAddsNoDuplicates
<1>1. Init => TypeOK /\ CallersWait /\ ReplayInv
  <2> SUFFICES ASSUME Init PROVE TypeOK /\ CallersWait /\ ReplayInv
    OBVIOUS
  <2>1. TypeOK /\ CallersWait
    BY InitTypeOK DEF Init, CallersWait, IdleFlush, Flusher
  <2>2. \A f \in Flusher : flush[f].pc = "idle" /\ Uncommitted[f] = {}
    BY DEF Init, IdleFlush, Uncommitted
  <2>3. LinesIn(lines) = {} /\ StoredLines = {} /\ NoRepeats(lines)
    BY LinesInEmpty DEF Init, StoredLines, NoRepeats
  <2>4. NoDuplicateRows /\ \A c \in Cid : seen[c].ts = -1
    BY DEF Init, NoDuplicateRows, NoCheckpoint
  <2>5. LinesAreOnce
    BY <2>2, <2>3, <2>4 DEF LinesAreOnce
  <2>6. SeenIsLatest
    BY <2>2, <2>3, <2>4 DEF SeenIsLatest
  <2> QED BY <2>1, <2>5, <2>6 DEF ReplayInv
<1>2. TypeOK /\ CallersWait /\ ReplayInv /\ [Next]_vars
        => TypeOK' /\ CallersWait' /\ ReplayInv'
  BY TypeOKStep, CallersWaitStep, ReplayInvStep
<1>3. ReplayInv => ReplayAddsNoDuplicates
  BY DEF ReplayInv, ReplayAddsNoDuplicates, LinesAreOnce
<1> QED BY <1>1, <1>2, <1>3, PTL DEF Spec

--------------------------------------------------------------------------------
(* The order of the lines of a millisecond. *)

\* The second part of a concatenation, by its place in the whole.
LEMMA ConcatIndex ==
  ASSUME NEW S, NEW s \in Seq(S), NEW t \in Seq(S), NEW k \in DOMAIN (s \o t),
         k \notin 1..Len(s)
  PROVE  /\ k - Len(s) \in 1..Len(t) /\ k = Len(s) + (k - Len(s))
         /\ \A m \in 1..Len(t) : (s \o t)[Len(s) + m] = t[m]
<1>1. Len(s) \in Nat /\ Len(t) \in Nat
  OBVIOUS
<1>2. DOMAIN (s \o t) = 1..(Len(s) + Len(t))
  OBVIOUS
<1>3. k - Len(s) \in 1..Len(t) /\ k = Len(s) + (k - Len(s))
  BY <1>1, <1>2
<1>4. ASSUME NEW m \in 1..Len(t) PROVE (s \o t)[Len(s) + m] = t[m]
  <2>1. Len(s) + m \in 1..(Len(s) + Len(t))
    BY <1>1
  <2>2. ~(Len(s) + m <= Len(s)) /\ Len(s) + m - Len(s) = m
    BY <1>1
  <2> QED BY <2>1, <2>2
<1> QED BY <1>3, <1>4

\* An earlier tie of a line has been one before, and stays retained.
LEMMA TiesBefore ==
  ASSUME TypeOK, Next \/ UNCHANGED vars, NEW l \in DockerLines, NEW j \in EarlierTies(l)'
  PROVE  /\ j \in EarlierTies(l) /\ Retained(l.cid, j)'
         /\ l.cid \in Cid /\ j \in DOMAIN docker[l.cid]
<1>0. docker' = docker
  BY DockerStays
<1>1. l.cid \in Cid /\ l.idx \in 1..Len(docker[l.cid]) /\ docker[l.cid] \in Seq(DockerLine)
  BY DockerTyping DEF TypeOK
<1>2. j \in 1..(l.idx - 1) /\ Retained(l.cid, j)'
  BY DEF EarlierTies
<1>3. j \in DOMAIN docker[l.cid]
  BY <1>1, <1>2
<1>4. Retained(l.cid, j)
  BY <1>1, <1>2, <1>3, RetainedBefore
<1> QED BY <1>0, <1>1, <1>2, <1>3, <1>4 DEF EarlierTies, Ts

\* The buffer stays in order behind the batch that is being appended: what a
\* container has sent before a line is stored, before it in the buffer, or in
\* that batch, which a failure puts in front.
LEMMA LinesInOrderStep ==
  ASSUME TypeOK, CallersWait, CommittedHasLanded, SentIsKept, OneAppends, BatchesInOrder,
         LinesInOrder, Next \/ UNCHANGED vars
  PROVE  LinesInOrder'
<1>0. docker' = docker
  BY DockerStays
<1> SUFFICES ASSUME NEW k \in DOMAIN lines', NEW l, l = lines'[k], NEW j \in EarlierTies(l)'
             PROVE  \/ Landed(l.cid, j)'
                    \/ HeldBefore(lines', k, j)
                    \/ \E f \in Flusher : flush'[f].pc = "append" /\ HeldIn(flush'[f].batch, l.cid, j)
  BY <1>0 DEF LinesInOrder, EarlierTies, HeldBefore, HeldIn, Ts, Retained
<1>l. l \in DockerLines
  <2>1. lines' \in Seq(DockerLines')
    BY TypeOKStep DEF TypeOK
  <2> QED BY <2>1, DockerStays
<1>t. /\ j \in EarlierTies(l) /\ Retained(l.cid, j)'
      /\ l.cid \in Cid /\ j \in DOMAIN docker[l.cid]
  BY <1>l, TiesBefore
<1> DEFINE Ordered == \/ Landed(l.cid, j)'
                      \/ HeldBefore(lines', k, j)
                      \/ \E f \in Flusher : flush'[f].pc = "append" /\ HeldIn(flush'[f].batch, l.cid, j)
<1>1. lines \in Seq(DockerLines) /\ \A f \in Flusher : flush[f].batch \in Seq(DockerLines)
  BY FlushTyping DEF TypeOK
<1>2. ASSUME NEW f \in Flusher, flush[f].pc = "append", HeldIn(flush[f].batch, l.cid, j),
             ~Crash, ~AppendFails(f)
      PROVE  Ordered
  BY <1>2, <1>t, InFlightStays
<1>3. ASSUME Landed(l.cid, j) PROVE Ordered
  BY <1>3, <1>t, LandedStays
<1>4. CASE Crash
  BY <1>4 DEF Crash
<1>5. CASE \E f \in Flusher : Take(f)
  BY <1>5 DEF Take
<1>6. ASSUME NEW f \in Flusher, AppendFails(f) PROVE Ordered
  <2> DEFINE batch == flush[f].batch
  <2>1. lines' = batch \o lines /\ flush[f].pc = "append"
    BY <1>6 DEF AppendFails, Requeued
  <2>2. batch \in Seq(DockerLines)
    BY <1>1
  <2>3. CASE k \in 1..Len(batch)
    <3>1. l = batch[k] /\ k \in DOMAIN batch
      BY <1>1, <2>1, <2>2, <2>3
    <3>2. Landed(l.cid, j) \/ HeldBefore(batch, k, j)
      BY <1>t, <2>1, <3>1 DEF BatchesInOrder
    <3>3. \A m \in 1..k : lines'[m] = batch[m]
      BY <1>1, <2>1, <2>2, <2>3
    <3>4. HeldBefore(batch, k, j) => HeldBefore(lines', k, j)
      <4> HIDE DEF batch
      <4> QED BY <2>2, <2>3, <3>3 DEF HeldBefore
    <3> QED BY <1>3, <3>2, <3>4
  <2>4. CASE k \notin 1..Len(batch)
    <3>0. /\ k - Len(batch) \in 1..Len(lines) /\ k = Len(batch) + (k - Len(batch))
          /\ \A m \in 1..Len(lines) : lines'[Len(batch) + m] = lines[m]
      <4>1. k \in DOMAIN (batch \o lines)
        BY <2>1
      <4> HIDE DEF batch
      <4> QED BY <1>1, <2>1, <2>2, <2>4, <4>1, ConcatIndex
    <3>1. PICK n \in DOMAIN lines : k = Len(batch) + n
      <4>1. DOMAIN lines = 1..Len(lines)
        BY <1>1
      <4> HIDE DEF batch
      <4> QED BY <3>0, <4>1
    <3>2. l = lines[n] /\ \A m \in 1..Len(lines) : lines'[Len(batch) + m] = lines[m]
      <4>1. n \in 1..Len(lines)
        BY <1>1, <3>1
      <4> HIDE DEF batch
      <4> QED BY <3>0, <3>1, <4>1
    <3>3. \A m \in 1..Len(batch) : lines'[m] = batch[m]
      BY <1>1, <2>1, <2>2
    <3>4. Len(batch) \in Nat /\ n \in 1..Len(lines) /\ Len(lines) \in Nat
      BY <1>1, <2>2, <3>1
    <3>5. lines'[k] = lines[n]
      BY <3>2
    <3> HIDE DEF batch
    <3>6. CASE HeldBefore(lines, n, j)
      <4>1. PICK m \in 1..(n - 1) : /\ lines[m].cid = lines[n].cid
                                    /\ docker[lines[n].cid][lines[m].idx] = docker[lines[n].cid][j]
        BY <3>6 DEF HeldBefore
      <4>2. Len(batch) + m \in 1..(k - 1) /\ lines'[Len(batch) + m] = lines[m]
        BY <3>1, <3>2, <3>4
      <4> QED BY <3>5, <4>1, <4>2 DEF HeldBefore
    <3>7. ASSUME NEW g \in Flusher, flush[g].pc = "append", HeldIn(flush[g].batch, l.cid, j)
          PROVE  HeldBefore(lines', k, j)
      <4>1. g = f
        BY <2>1, <3>7 DEF OneAppends
      <4>2. PICK m \in DOMAIN batch : /\ batch[m].cid = l.cid
                                      /\ docker[l.cid][batch[m].idx] = docker[l.cid][j]
        BY <3>7, <4>1 DEF HeldIn, LinesIn, batch
      <4>3. m \in 1..(k - 1) /\ lines'[m] = batch[m]
        <5>1. m \in 1..Len(batch)
          BY <2>2, <4>2
        <5> HIDE DEF batch
        <5> QED BY <3>1, <3>3, <3>4, <5>1
      <4> QED BY <3>2, <3>5, <4>2, <4>3 DEF HeldBefore
    <3> QED BY <1>3, <1>t, <3>1, <3>2, <3>6, <3>7 DEF LinesInOrder
  <2> QED BY <2>3, <2>4
<1>7. ASSUME NEW n \in DOMAIN lines, n = k, l = lines[n],
             \A m \in 1..n : lines'[m] = lines[m],
             ~Crash, \A f \in Flusher : ~AppendFails(f)
      PROVE  Ordered
  <2>1. CASE HeldBefore(lines, n, j)
    <3>1. n \in 1..Len(lines) /\ Len(lines) \in Nat
      BY <1>1
    <3> QED BY <1>7, <2>1, <3>1 DEF HeldBefore
  <2> QED BY <1>2, <1>3, <1>7, <1>t, <2>1 DEF LinesInOrder
<1>8. ASSUME NEW c \in Cid, PushAccept(c) PROVE Ordered
  <2>1. ~Crash /\ \A f \in Flusher : ~AppendFails(f)
    BY <1>8 DEF PushAccept, Crash, AppendFails, Suffer, TypeOK
  <2>2. PICK x \in DockerLines : x = [cid |-> c, idx |-> pos[c]] /\ lines' = Append(lines, x)
    BY <1>8, AcceptBuffers DEF PushAccept
  <2>3. /\ DOMAIN lines = 1..Len(lines) /\ DOMAIN lines' = 1..(Len(lines) + 1)
        /\ Len(lines) \in Nat /\ lines'[Len(lines) + 1] = x
        /\ \A m \in 1..Len(lines) : lines'[m] = lines[m]
    BY <1>1, <2>2
  <2>4. CASE k \in DOMAIN lines
    BY <1>7, <2>1, <2>3, <2>4
  <2>5. CASE k = Len(lines) + 1
    <3>1. l = x /\ l.cid = c /\ l.idx = pos[c]
      BY <2>2, <2>3, <2>5
    <3>2. c \in following
      BY <1>8 DEF PushAccept
    <3>3. Kept(c, j)
      BY <1>t, <3>1, <3>2 DEF SentIsKept, EarlierTies
    <3>4. ASSUME HeldIn(lines, c, j) PROVE HeldBefore(lines', k, j)
      <4>1. PICK m \in DOMAIN lines : lines[m].cid = c /\ docker[c][lines[m].idx] = docker[c][j]
        BY <3>4 DEF HeldIn, LinesIn
      <4>2. m \in 1..(k - 1) /\ lines'[m] = lines[m] /\ lines'[k].cid = c
        BY <2>3, <2>5, <3>1, <4>1
      <4> QED BY <4>1, <4>2 DEF HeldBefore
    <3> QED BY <1>2, <1>3, <2>1, <3>1, <3>3, <3>4 DEF Kept, Held
  <2> QED BY <2>3, <2>4, <2>5
<1>9. CASE lines' = lines /\ ~Crash /\ \A f \in Flusher : ~AppendFails(f)
  BY <1>7, <1>9
<1> QED BY <1>4, <1>5, <1>6, <1>8, <1>9, LinesChange

\* A batch is in order when it is taken, and stays so.
LEMMA BatchesInOrderStep ==
  ASSUME TypeOK, CallersWait, BatchesInOrder, LinesInOrder, Next \/ UNCHANGED vars,
         ~overlapped'
  PROVE  BatchesInOrder'
<1>0. docker' = docker
  BY DockerStays
<1> SUFFICES ASSUME NEW f \in Flusher, flush'[f].pc = "append",
                    NEW k \in DOMAIN flush'[f].batch, NEW l, l = flush'[f].batch[k],
                    NEW j \in EarlierTies(l)'
             PROVE  Landed(l.cid, j)' \/ HeldBefore(flush'[f].batch, k, j)
  <2> SUFFICES ASSUME NEW f \in Flusher, (flush[f].pc = "append")',
                      NEW k \in DOMAIN flush'[f].batch,
                      NEW j \in EarlierTies(flush[f].batch[k])'
               PROVE  (Landed(flush[f].batch[k].cid, j) \/ HeldBefore(flush[f].batch, k, j))'
    BY DEF BatchesInOrder
  <2>0. PICK l : l = flush'[f].batch[k]
    OBVIOUS
  <2>1. j \in EarlierTies(l)'
    BY <2>0 DEF EarlierTies, Ts, Retained
  <2>2. Landed(l.cid, j)' \/ HeldBefore(flush'[f].batch, k, j)
    BY <2>0, <2>1
  <2>3. HeldBefore(flush'[f].batch, k, j) <=> HeldBefore(flush[f].batch, k, j)'
    BY <1>0 DEF HeldBefore
  <2>4. Landed(l.cid, j)' <=> Landed(flush[f].batch[k].cid, j)'
    BY <2>0 DEF Landed
  <2> QED BY <2>2, <2>3, <2>4
<1>l. l \in DockerLines
  <2>1. flush'[f].batch \in Seq(DockerLines')
    BY TypeOKStep DEF TypeOK, FlushState
  <2> QED BY <2>1, DockerStays
<1>t. /\ j \in EarlierTies(l) /\ Retained(l.cid, j)'
      /\ l.cid \in Cid /\ j \in DOMAIN docker[l.cid]
  BY <1>l, TiesBefore
<1>1. CASE Take(f)
  <2>1. flush'[f].batch = lines /\ \A g \in Flusher : flush[g].pc # "append"
    BY <1>1, TakeFlush
  <2> QED BY <1>t, <2>1, LandedStays DEF LinesInOrder
<1>2. CASE flush[f].pc = "append" /\ flush'[f].batch = flush[f].batch
  BY <1>2, <1>t, LandedStays DEF BatchesInOrder
<1>3. ASSUME NEW w \in flush[f].weeks, CommitWeek(f, w)
      PROVE  flush[f].pc = "append" /\ flush'[f].batch = flush[f].batch
  BY <1>3, CommitFlush
<1>4. flush'[f] # IdleFlush
  BY DEF IdleFlush
<1>5. flush \in [Flusher -> FlushState]
  BY DEF TypeOK
<1>6. flush'[f] # [flush[f] EXCEPT !.pc = "take"]
  BY <1>5 DEF FlushState
<1>7. ASSUME Intern(f) PROVE FALSE
  <2>1. flush' = [flush EXCEPT ![f].pc = "advance"]
    BY <1>7 DEF Intern
  <2>2. flush'[f] = [flush[f] EXCEPT !.pc = "advance"] /\ flush[f] \in FlushState
    BY <1>5, <2>1
  <2> QED BY <2>2 DEF FlushState
<1>8. ASSUME NEW ck \in flush[f].cks, AdvanceCheckpoint(f, ck) \/ AdvanceFails(f, ck)
      PROVE  FALSE
  <2>1. flush[f].pc = "advance" /\ flush' = [flush EXCEPT ![f].cks = @ \ {ck}]
    BY <1>8 DEF AdvanceCheckpoint, AdvanceFails
  <2> QED BY <1>5, <2>1 DEF FlushState
<1> QED BY <1>1, <1>2, <1>3, <1>4, <1>6, <1>7, <1>8, FlushChanges

\* Without an overlap one batch at a time is appended.
LEMMA OneAppendsStep ==
  ASSUME TypeOK, CallersWait, OneAppends, Next \/ UNCHANGED vars, ~overlapped'
  PROVE  OneAppends'
<1>1. ASSUME NEW f \in Flusher, flush'[f].pc = "append"
      PROVE  flush[f].pc = "append" \/ Take(f)
  <2>1. flush \in [Flusher -> FlushState]
    BY DEF TypeOK
  <2>2. flush'[f] # IdleFlush
    BY <1>1 DEF IdleFlush
  <2>3. flush'[f] # [flush[f] EXCEPT !.pc = "take"]
    BY <1>1, <2>1 DEF FlushState
  <2>4. ASSUME Intern(f) PROVE FALSE
    <3>1. flush' = [flush EXCEPT ![f].pc = "advance"]
      BY <2>4 DEF Intern
    <3>2. flush'[f] = [flush[f] EXCEPT !.pc = "advance"] /\ flush[f] \in FlushState
      BY <2>1, <3>1
    <3> QED BY <1>1, <3>2 DEF FlushState
  <2>5. ASSUME NEW ck \in flush[f].cks, AdvanceCheckpoint(f, ck) \/ AdvanceFails(f, ck)
        PROVE  FALSE
    <3>1. flush[f].pc = "advance" /\ flush' = [flush EXCEPT ![f].cks = @ \ {ck}]
      BY <2>5 DEF AdvanceCheckpoint, AdvanceFails
    <3> QED BY <1>1, <2>1, <3>1 DEF FlushState
  <2> QED BY <1>1, <2>2, <2>3, <2>4, <2>5, CommitFlush, FlushChanges
<1>2. ASSUME NEW f \in Flusher, Take(f), NEW g \in Flusher, g # f PROVE flush'[g].pc # "append"
  BY <1>2, TakeFlush
<1> QED BY <1>1, <1>2 DEF OneAppends

\* Rows are added only by a committed week, with the ids that are next, and deleted
\* only by retention.
LEMMA RowsChange ==
  ASSUME TypeOK, Next \/ UNCHANGED vars
  PROVE  \/ rows' = rows /\ nextRow' = nextRow
         \/ \E w : DeleteWeek(w)
         \/ \E f \in Flusher : \E w \in flush[f].weeks : CommitWeek(f, w)
BY DEF Next, FlushStep, Follow, StreamEnds, PushAccept, PushDrop, ScheduleFlush,
       WorkerReceives, WorkerDebounced, WorkerRetires, TakeNothing, Take, AppendFails,
       Intern, InternFails, AdvanceCheckpoint, AdvanceFails, Notify, Crash, vars,
       Retention, WeekPasses, PruneCheckpoints

\* What a committed week adds.
LEMMA CommitRows ==
  ASSUME TypeOK, RowsAreNumbered, NEW f \in Flusher, NEW w \in flush[f].weeks, CommitWeek(f, w)
  PROVE  /\ RowsAreNumbered'
         /\ \A r \in rows' : r \in rows \/ \E k \in DOMAIN flush[f].batch :
              r = [line |-> flush[f].batch[k], id |-> nextRow + k] /\ WeekOf(flush[f].batch[k]) = w
         /\ \A k \in DOMAIN flush[f].batch : WeekOf(flush[f].batch[k]) = w =>
              [line |-> flush[f].batch[k], id |-> nextRow + k] \in rows'
         /\ rows \subseteq rows'
<1> DEFINE batch == flush[f].batch
           part == {i \in DOMAIN batch : WeekOf(batch[i]) = w}
<1>1. /\ rows' = rows \cup {[line |-> batch[i], id |-> nextRow + i] : i \in part}
      /\ nextRow' = nextRow + Len(batch)
  BY DEF CommitWeek
<1>2. DOMAIN batch = 1..Len(batch) /\ Len(batch) \in Nat /\ nextRow \in Nat
  BY FlushTyping DEF TypeOK
<1>3. \A r \in rows : r.id \in Nat
  BY DEF TypeOK
<1> HIDE DEF batch
<1>4. RowsAreNumbered'
  BY <1>1, <1>2, <1>3 DEF RowsAreNumbered
<1> QED BY <1>1, <1>4 DEF batch

\* A line's row gets a higher id than the rows of its earlier ties.
LEMMA CommitsInOrder ==
  ASSUME TypeOK, RowsAreNumbered, BatchesInOrder, FirstCopiesInOrder,
         NEW f \in Flusher, NEW w \in flush[f].weeks, CommitWeek(f, w), ~overlapped
  PROVE  FirstCopiesInOrder'
<1>0. docker' = docker /\ flush[f].pc = "append"
  BY DEF CommitWeek
<1> DEFINE batch == flush[f].batch
<1> SUFFICES ASSUME NEW r \in rows', NEW j \in 1..(r.line.idx - 1),
                    Retained(r.line.cid, j)',
                    docker[r.line.cid][j].ts = docker[r.line.cid][r.line.idx].ts
             PROVE  \E q \in rows' :
                      /\ q.line.cid = r.line.cid
                      /\ docker[r.line.cid][q.line.idx] = docker[r.line.cid][j]
                      /\ docker[r.line.cid][j] = docker[r.line.cid][r.line.idx] \/ q.id < r.id
  BY <1>0 DEF FirstCopiesInOrder
<1>r. Retained(r.line.cid, j)
  <2>1. oldest' = oldest
    BY DEF CommitWeek
  <2> QED BY <1>0, <2>1 DEF Retained, Cutoff
<1>1. rows \subseteq rows'
  BY CommitRows
<1>2. CASE r \in rows
  BY <1>1, <1>2, <1>r DEF FirstCopiesInOrder
<1>3. CASE docker[r.line.cid][j] = docker[r.line.cid][r.line.idx]
  BY <1>3
<1>4. ASSUME NEW k \in DOMAIN batch, r = [line |-> batch[k], id |-> nextRow + k],
             WeekOf(batch[k]) = w,
             docker[r.line.cid][j] # docker[r.line.cid][r.line.idx]
      PROVE  \E q \in rows' : /\ q.line.cid = r.line.cid
                              /\ docker[r.line.cid][q.line.idx] = docker[r.line.cid][j]
                              /\ q.id < r.id
  <2>1. DOMAIN batch = 1..Len(batch) /\ Len(batch) \in Nat /\ nextRow \in Nat
    BY FlushTyping DEF TypeOK
  <2>2. r.line = batch[k] /\ r.id = nextRow + k
    BY <1>4
  <2>3. j \in EarlierTies(batch[k])
    BY <1>4, <1>r, <2>2 DEF EarlierTies, Ts
  <2>4. Landed(batch[k].cid, j) \/ HeldBefore(batch, k, j)
    BY <1>0, <2>3 DEF BatchesInOrder
  <2>5. CASE Landed(batch[k].cid, j)
    <3>1. PICK q \in rows : /\ q.line.cid = batch[k].cid
                            /\ docker[batch[k].cid][q.line.idx] = docker[batch[k].cid][j]
      BY <2>5 DEF Landed
    <3>2. q.id <= nextRow /\ q.id \in Nat
      BY DEF RowsAreNumbered, TypeOK
    <3>3. k \in Nat /\ k >= 1 /\ r.id = nextRow + k /\ nextRow \in Nat
      <4> HIDE DEF batch
      <4> QED BY <2>1, <2>2
    <3>4. q.id < r.id
      BY <3>2, <3>3
    <3>5. q \in rows' /\ q.line.cid = r.line.cid
          /\ docker[r.line.cid][q.line.idx] = docker[r.line.cid][j]
      BY <1>1, <2>2, <3>1
    <3> QED BY <3>4, <3>5
  <2>6. CASE HeldBefore(batch, k, j)
    <3>1. PICK m \in 1..(k - 1) : /\ batch[m].cid = batch[k].cid
                                  /\ docker[batch[k].cid][batch[m].idx] = docker[batch[k].cid][j]
      BY <2>6 DEF HeldBefore
    <3>2. m \in DOMAIN batch /\ m < k
      BY <2>1, <3>1
    <3>3. WeekOf(batch[m]) = w
      BY <1>4, <2>2, <3>1 DEF WeekOf, Ts
    <3>4. [line |-> batch[m], id |-> nextRow + m] \in rows'
      BY <3>2, <3>3, CommitRows
    <3> HIDE DEF batch
    <3> QED BY <2>1, <2>2, <3>1, <3>2, <3>4
  <2> QED BY <2>4, <2>5, <2>6
<1> QED BY <1>2, <1>3, <1>4, CommitRows

\* Where no row is added, a line's row keeps the rows of its earlier ties: they are
\* in the same file.
LEMMA CopiesStay ==
  ASSUME TypeOK, FirstCopiesInOrder, ~overlapped, Next \/ UNCHANGED vars,
         rows' = rows \/ \E w : DeleteWeek(w)
  PROVE  FirstCopiesInOrder'
<1>0. docker' = docker
  BY DockerStays
<1> SUFFICES ASSUME NEW r \in rows', NEW j \in 1..(r.line.idx - 1),
                    Retained(r.line.cid, j)',
                    docker[r.line.cid][j].ts = docker[r.line.cid][r.line.idx].ts
             PROVE  \E q \in rows' :
                      /\ q.line.cid = r.line.cid
                      /\ docker[r.line.cid][q.line.idx] = docker[r.line.cid][j]
                      /\ docker[r.line.cid][j] = docker[r.line.cid][r.line.idx] \/ q.id < r.id
  BY <1>0 DEF FirstCopiesInOrder
<1>1. r \in rows
  BY DEF DeleteWeek
<1>2. r.line \in DockerLines
  BY <1>1 DEF TypeOK
<1>3. r.line.cid \in Cid /\ j \in DOMAIN docker[r.line.cid]
  <2>1. r.line.cid \in Cid /\ r.line.idx \in 1..Len(docker[r.line.cid])
        /\ docker[r.line.cid] \in Seq(DockerLine)
    BY <1>2, DockerTyping DEF TypeOK
  <2> QED BY <2>1
<1>4. Retained(r.line.cid, j)
  BY <1>3, RetainedBefore
<1>5. PICK q \in rows :
         /\ q.line.cid = r.line.cid
         /\ docker[r.line.cid][q.line.idx] = docker[r.line.cid][j]
         /\ docker[r.line.cid][j] = docker[r.line.cid][r.line.idx] \/ q.id < r.id
  BY <1>1, <1>4 DEF FirstCopiesInOrder
<1>6. WeekOf(q.line) = WeekOf(r.line)
  BY <1>5 DEF WeekOf, Ts
<1>7. q \in rows'
  BY <1>6 DEF DeleteWeek
<1> QED BY <1>5, <1>7

\* OrderInv survives every step.
LEMMA OrderInvStep ==
  ASSUME CoverageInv, OrderInv, Next \/ UNCHANGED vars
  PROVE  OrderInv'
<1>1. TypeOK /\ CallersWait /\ CommittedHasLanded /\ RowsAreNumbered
  BY DEF CoverageInv, OrderInv
<1>2. RowsAreNumbered'
  <2>1. CASE rows' = rows /\ nextRow' = nextRow
    BY <1>1, <2>1 DEF RowsAreNumbered
  <2>2. ASSUME NEW w, DeleteWeek(w) PROVE RowsAreNumbered'
    BY <1>1, <2>2 DEF RowsAreNumbered, DeleteWeek
  <2> QED BY <1>1, <2>1, <2>2, RowsChange, CommitRows
<1>3. ASSUME ~overlapped'
      PROVE  OneAppends' /\ BatchesInOrder' /\ LinesInOrder' /\ FirstCopiesInOrder'
  <2>1. ~overlapped
    BY <1>1, <1>3, HistoryStays
  <2>2. OneAppends /\ BatchesInOrder /\ LinesInOrder /\ FirstCopiesInOrder /\ SentIsKept
    BY <2>1 DEF OrderInv, CoverageInv
  <2>3. OneAppends' /\ BatchesInOrder' /\ LinesInOrder'
    BY <1>1, <1>3, <2>2, OneAppendsStep, BatchesInOrderStep, LinesInOrderStep
  <2>4. FirstCopiesInOrder'
    <3>1. CASE rows' = rows \/ \E w : DeleteWeek(w)
      BY <1>1, <2>1, <2>2, <3>1, CopiesStay
    <3> QED BY <1>1, <2>1, <2>2, <3>1, RowsChange, CommitsInOrder
  <2> QED BY <2>3, <2>4
<1> QED BY <1>2, <1>3 DEF OrderInv

\* Retained lines of one container that share a millisecond are first stored in
\* Docker's order, through failed appends, reconnects and restarts, unless two flushes
\* overlapped.
THEOREM StoredInOrder == Spec => []FirstCopiesInOrder
<1>1. Init => OrderInv
  BY DEF Init, OrderInv, RowsAreNumbered, OneAppends, BatchesInOrder, LinesInOrder,
         FirstCopiesInOrder, IdleFlush
<1>2. CoverageInv /\ OrderInv /\ [Next]_vars => OrderInv'
  BY OrderInvStep
<1>3. OrderInv => FirstCopiesInOrder
  BY DEF OrderInv, FirstCopiesInOrder
<1> QED BY <1>1, <1>2, <1>3, CoverageInvHolds, PTL DEF Spec

---------------------------------------------------------------------------
(* ContainerObserver                                                       *)

Action == {"start", "stop"}

---------------------------------------------------------------------------
(* What the channel's operations do to the events in it                    *)

\* What is read from the channel was in it, and nothing else leaves it.
LEMMA EventsOfTail ==
  ASSUME NEW s \in Seq(Action), s # <<>>
  PROVE  /\ Tail(s) \in Seq(Action) /\ Len(Tail(s)) = Len(s) - 1 /\ Len(s) \in Nat
         /\ Head(s) \in Action
         /\ ToSet(s) = {Head(s)} \cup ToSet(Tail(s))
<1>1. /\ Tail(s) \in Seq(Action) /\ Len(Tail(s)) = Len(s) - 1
      /\ Head(s) \in Action
      /\ \A i \in 1..Len(Tail(s)) : Tail(s)[i] = s[i + 1]
  BY HeadTailProperties
<1>2. Len(s) \in Nat \ {0} /\ DOMAIN s = 1..Len(s) /\ DOMAIN Tail(s) = 1..(Len(s) - 1)
  BY <1>1, EmptySeq, LenProperties
<1>3. Head(s) = s[1]
  BY SMT
<1>4. ASSUME NEW a \in ToSet(s) PROVE a \in {Head(s)} \cup ToSet(Tail(s))
  <2>1. PICK i \in 1..Len(s) : s[i] = a
    BY <1>2, <1>4 DEF ToSet
  <2>2. CASE i = 1
    BY <1>3, <2>1, <2>2
  <2>3. CASE i # 1
    <3>1. i - 1 \in 1..(Len(s) - 1) /\ Tail(s)[i - 1] = s[(i - 1) + 1] /\ (i - 1) + 1 = i
      BY <1>1, <1>2, <2>1, <2>3
    <3> QED BY <1>2, <2>1, <3>1 DEF ToSet
  <2> QED BY <2>2, <2>3
<1>5. Head(s) \in ToSet(s)
  BY <1>2, <1>3 DEF ToSet
<1>6. ASSUME NEW a \in ToSet(Tail(s)) PROVE a \in ToSet(s)
  <2>1. PICK i \in 1..(Len(s) - 1) : Tail(s)[i] = a
    BY <1>2, <1>6 DEF ToSet
  <2>2. i + 1 \in 1..Len(s) /\ s[i + 1] = a
    BY <1>1, <1>2, <2>1
  <2> QED BY <1>2, <2>2 DEF ToSet
<1> QED BY <1>1, <1>2, <1>4, <1>5, <1>6

\* What is sent is in the channel, with all that was there.
LEMMA EventsOfAppend ==
  ASSUME NEW s \in Seq(Action), NEW a \in Action
  PROVE  /\ Append(s, a) \in Seq(Action) /\ Len(Append(s, a)) = Len(s) + 1
         /\ ToSet(Append(s, a)) = ToSet(s) \cup {a}
<1>1. /\ Append(s, a) \in Seq(Action) /\ Len(Append(s, a)) = Len(s) + 1
      /\ \A i \in 1..Len(s) : Append(s, a)[i] = s[i]
      /\ Append(s, a)[Len(s) + 1] = a
  BY AppendProperties
<1>2. Len(s) \in Nat /\ DOMAIN s = 1..Len(s) /\ DOMAIN Append(s, a) = 1..(Len(s) + 1)
  BY <1>1, LenProperties
<1>3. 1..(Len(s) + 1) = (1..Len(s)) \cup {Len(s) + 1}
  BY <1>2
<1> QED BY <1>1, <1>2, <1>3 DEF ToSet

\* The events of an update, starts before stops.
LEMMA EventsOfTimes ==
  ASSUME NEW m \in Nat, NEW n \in Nat
  PROVE  LET s == Times(m, "start") \o Times(n, "stop")
         IN s \in Seq(Action) /\ (m > 0 => "start" \in ToSet(s))
<1> DEFINE starts == Times(m, "start")
           stops == Times(n, "stop")
           s == starts \o stops
<1>1. starts \in [1..m -> Action] /\ stops \in [1..n -> Action]
  BY DEF Times, Action
<1>2. /\ starts \in Seq(Action) /\ stops \in Seq(Action)
      /\ Len(starts) = m /\ Len(stops) = n
  BY <1>1, SeqDef
<1> HIDE DEF starts, stops
<1>3. /\ s \in Seq(Action) /\ Len(s) = m + n
      /\ \A i \in 1..(m + n) : s[i] = IF i <= m THEN starts[i] ELSE stops[i - m]
  BY <1>2, ConcatProperties
<1>4. ASSUME m > 0 PROVE "start" \in ToSet(s)
  <2>1. DOMAIN s = 1..(m + n) /\ 1 \in 1..(m + n) /\ 1 <= m
    BY <1>3, <1>4, LenProperties
  <2>2. starts[1] = "start"
    BY <1>4 DEF starts, Times
  <2>3. s[1] = "start"
    BY <1>3, <2>1, <2>2
  <2> QED BY <2>1, <2>3 DEF ToSet
<1> QED BY <1>3, <1>4 DEF starts, stops

---------------------------------------------------------------------------
(* Type correctness                                                        *)

\* the part of TypeOK about the events, and the rest
ChannelsOK ==
  /\ sends \in Seq(Action) /\ (sends # <<>> => updater = "announcing")
  /\ queue \in Seq(Action) /\ Len(queue) <= EventCap

ScalarsOK ==
  /\ running \in SUBSET Container /\ observed \in SUBSET Container
  /\ reachable \in BOOLEAN /\ connected \in BOOLEAN
  /\ cycle \in {"off", "on", "subscribed"}
  /\ event \in BOOLEAN /\ (event => cycle = "subscribed")
  /\ request \in BOOLEAN
  /\ updater \in {"idle", "debounce", "listing", "reconciling", "announcing"}
  /\ listed \in SUBSET Container /\ current \in SUBSET Container
  /\ observer \in {"waiting", "awake", "respawning"}
  /\ task \in [Container -> TaskState]
  /\ missed \in BOOLEAN /\ unheard \in SUBSET Container

LEMMA TypeParts == ObserverTypeOK <=> ScalarsOK /\ ChannelsOK
BY Zenon DEF ObserverTypeOK, ScalarsOK, ChannelsOK, Action

LEMMA ScalarsInit == ObserverInit => ScalarsOK
BY DEF ObserverInit, ScalarsOK, TaskState

LEMMA ChannelsInit == ObserverInit => ChannelsOK
BY EmptySeq, EventCapAssumption DEF ObserverInit, ChannelsOK

LEMMA ScalarsStep == ObserverTypeOK /\ [ObserverNext]_observerVars => ScalarsOK'
<1> SUFFICES ASSUME ScalarsOK, [ObserverNext]_observerVars PROVE ScalarsOK'
  BY TypeParts
<1> USE DEF ScalarsOK, TaskState
<1>1. CASE Reachability
  BY <1>1 DEF Reachability, registry, logs
<1>2. CASE Probe
  BY <1>2 DEF Probe, registry, logs
<1>3. CASE CycleBegins
  BY <1>3 DEF CycleBegins, logs
<1>4. CASE Subscribe
  BY <1>4 DEF Subscribe, logs
<1>5. CASE Tick
  BY <1>5 DEF Tick, logs
<1>6. CASE DeliverEvent
  BY <1>6 DEF DeliverEvent, logs
<1>7. CASE CycleBreaks
  BY <1>7 DEF CycleBreaks, logs
<1>8. CASE Receive
  BY <1>8 DEF Receive, logs
<1>9. CASE Drain
  BY <1>9 DEF Drain, logs
<1>10. CASE List
  BY <1>10 DEF List, logs
<1>11. CASE ListFails
  BY <1>11 DEF ListFails, logs
<1>12. CASE Announced
  BY <1>12 DEF Announced, logs
<1>13. CASE Reconcile
  BY <1>13 DEF Reconcile, logs
<1>14. CASE Announce
  BY <1>14 DEF Announce, logs
<1>15. CASE TakeEvent
  BY <1>15 DEF TakeEvent, registry
<1>16. CASE WakeOnTimer
  BY <1>16 DEF WakeOnTimer, registry
<1>17. CASE Look
  BY <1>17 DEF Look, registry
<1>18. CASE Respawn
  BY <1>18 DEF Respawn, registry
<1>19. ASSUME NEW c \in Container, Change(c) PROVE ScalarsOK'
  BY <1>19 DEF Change, SymDiff
<1>20. ASSUME NEW c \in Container, TaskOpens(c) \/ TaskFails(c) \/ TaskEnds(c) PROVE ScalarsOK'
  BY <1>20 DEF TaskOpens, TaskFails, TaskEnds, registry
<1>21. CASE UNCHANGED observerVars
  BY <1>21 DEF observerVars, registry, logs
<1> QED
  BY <1>1, <1>2, <1>3, <1>4, <1>5, <1>6, <1>7, <1>8, <1>9, <1>10,
     <1>11, <1>12, <1>13, <1>14, <1>15, <1>16, <1>17, <1>18, <1>19, <1>20, <1>21 DEF ObserverNext

\* The steps that leave both channels and the worker's announcement alone.
LEMMA ChannelsLeft ==
  ASSUME ObserverTypeOK, [ObserverNext]_observerVars
  PROVE  \/ Reconcile \/ Announce \/ Announced \/ TakeEvent
         \/ UNCHANGED <<sends, queue>> /\ (updater = "announcing" => updater' = updater)
<1>1. CASE Reachability \/ Probe
  BY <1>1 DEF Reachability, Probe, registry
<1>2. CASE CycleBegins \/ Subscribe \/ Tick \/ DeliverEvent \/ CycleBreaks
  BY <1>2 DEF CycleBegins, Subscribe, Tick, DeliverEvent, CycleBreaks
<1>3. CASE Receive \/ Drain \/ List \/ ListFails
  BY <1>3 DEF Receive, Drain, List, ListFails
<1>4. CASE WakeOnTimer \/ Look \/ Respawn
  BY <1>4 DEF WakeOnTimer, Look, Respawn, registry
<1>5. ASSUME NEW c \in Container, Change(c) \/ TaskOpens(c) \/ TaskFails(c) \/ TaskEnds(c)
      PROVE UNCHANGED <<sends, queue, updater>>
  BY <1>5 DEF Change, TaskOpens, TaskFails, TaskEnds, registry
<1>6. CASE UNCHANGED observerVars
  BY <1>6 DEF observerVars, registry
<1> QED BY <1>1, <1>2, <1>3, <1>4, <1>5, <1>6 DEF ObserverNext

\* An update knows how many containers came and went.
LEMMA UpdateSends ==
  ASSUME ObserverTypeOK, Reconcile
  PROVE  /\ sends' \in Seq(Action)
         /\ listed \ observed # {} => "start" \in ToSet(sends')
<1>1. listed \subseteq Container /\ observed \subseteq Container
  BY TypeParts DEF ScalarsOK
<1>2. IsFiniteSet(listed \ observed) /\ IsFiniteSet(observed \ listed)
  BY <1>1, ContainerAssumption, FS_Subset
<1> DEFINE m == Cardinality(listed \ observed)
           n == Cardinality(observed \ listed)
<1>3. m \in Nat /\ n \in Nat /\ (listed \ observed # {} => m # 0)
  BY <1>2, FS_CardinalityType, FS_EmptySet
<1>4. sends' = Times(m, "start") \o Times(n, "stop")
  BY DEF Reconcile
<1> HIDE DEF m, n
<1>5. listed \ observed # {} => m > 0
  BY <1>3
<1>6. /\ Times(m, "start") \o Times(n, "stop") \in Seq(Action)
      /\ m > 0 => "start" \in ToSet(Times(m, "start") \o Times(n, "stop"))
  BY <1>3, EventsOfTimes
<1> QED BY <1>4, <1>5, <1>6

LEMMA ChannelsStep == ObserverTypeOK /\ [ObserverNext]_observerVars => ChannelsOK'
<1> SUFFICES ASSUME ObserverTypeOK, [ObserverNext]_observerVars PROVE ChannelsOK'
  OBVIOUS
<1>a. ChannelsOK
  BY TypeParts
<1>1. CASE Reconcile
  BY <1>a, <1>1, UpdateSends DEF Reconcile, ChannelsOK
<1>2. CASE Announce
  <2>1. sends # <<>> /\ sends' = Tail(sends) /\ updater' = updater
    BY <1>2 DEF Announce
  <2>2. Tail(sends) \in Seq(Action) /\ Head(sends) \in Action
    BY <1>a, <2>1, EventsOfTail DEF ChannelsOK
  <2>3. CASE Len(queue) < EventCap
    <3>1. queue' = Append(queue, Head(sends))
      BY <1>2, <2>3 DEF Announce
    <3>2. queue' \in Seq(Action) /\ Len(queue') = Len(queue) + 1
      BY <1>a, <2>2, <3>1, EventsOfAppend DEF ChannelsOK
    <3>3. Len(queue) \in Nat
      BY <1>a, LenProperties DEF ChannelsOK
    <3> QED BY <1>a, <2>1, <2>2, <2>3, <3>2, <3>3, EventCapAssumption DEF ChannelsOK
  <2>4. CASE ~(Len(queue) < EventCap)
    BY <1>a, <1>2, <2>1, <2>2, <2>4 DEF Announce, ChannelsOK
  <2> QED BY <2>3, <2>4
<1>3. CASE Announced
  BY <1>a, <1>3 DEF Announced, ChannelsOK
<1>4. CASE TakeEvent
  <2>1. queue # <<>> /\ queue' = Tail(queue) /\ UNCHANGED <<sends, updater>>
    BY <1>4 DEF TakeEvent, registry
  <2>2. queue' \in Seq(Action) /\ Len(queue') = Len(queue) - 1 /\ Len(queue) \in Nat
    BY <1>a, <2>1, EventsOfTail DEF ChannelsOK
  <2> QED BY <1>a, <2>1, <2>2, EventCapAssumption DEF ChannelsOK
<1>5. CASE UNCHANGED <<sends, queue>> /\ (updater = "announcing" => updater' = updater)
  BY <1>a, <1>5 DEF ChannelsOK
<1> QED BY <1>1, <1>2, <1>3, <1>4, <1>5, ChannelsLeft

LEMMA TypeStep == ObserverTypeOK /\ [ObserverNext]_observerVars => ObserverTypeOK'
<1>1. ObserverTypeOK' <=> ScalarsOK' /\ ChannelsOK'
  BY Zenon DEF ObserverTypeOK, ScalarsOK, ChannelsOK, Action
<1> QED BY <1>1, ScalarsStep, ChannelsStep

\* Every variable of the observer keeps its shape, for any containers: the
\* channel of container_registry.rs never holds more than its capacity.
THEOREM ObserverTypeCorrect == ObserverSpec => []ObserverTypeOK
<1>1. ObserverInit => ObserverTypeOK
  BY ScalarsInit, ChannelsInit, TypeParts
<1> QED BY <1>1, TypeStep, PTL DEF ObserverSpec

---------------------------------------------------------------------------
(* No change and no start is lost                                          *)

ChangeInv == NoChangeIsLost /\ StaleListingIsFollowed

LEMMA ChangeInit == ObserverInit => ChangeInv
BY DEF ObserverInit, ChangeInv, NoChangeIsLost, StaleListingIsFollowed

LEMMA ChangeStep == ObserverTypeOK /\ ChangeInv /\ [ObserverNext]_observerVars => ChangeInv'
<1> SUFFICES ASSUME ObserverTypeOK, ChangeInv, [ObserverNext]_observerVars PROVE ChangeInv'
  OBVIOUS
<1>a. ScalarsOK
  BY TypeParts
<1> USE DEF ChangeInv, NoChangeIsLost, StaleListingIsFollowed
<1>1. CASE Reachability
  BY <1>a, <1>1 DEF Reachability, registry, ScalarsOK
<1>2. CASE Probe
  BY <1>a, <1>2 DEF Probe, registry, ScalarsOK
<1>3. CASE CycleBegins
  BY <1>a, <1>3 DEF CycleBegins, ScalarsOK
<1>4. CASE Subscribe
  BY <1>a, <1>4 DEF Subscribe, ScalarsOK
<1>5. CASE Tick
  BY <1>a, <1>5 DEF Tick, ScalarsOK
<1>6. CASE DeliverEvent
  BY <1>a, <1>6 DEF DeliverEvent, ScalarsOK
<1>7. CASE CycleBreaks
  BY <1>a, <1>7 DEF CycleBreaks, ScalarsOK
<1>8. CASE Receive
  BY <1>a, <1>8 DEF Receive, ScalarsOK
<1>9. CASE Drain
  BY <1>a, <1>9 DEF Drain, ScalarsOK
<1>10. CASE List
  BY <1>a, <1>10 DEF List, ScalarsOK
<1>11. CASE ListFails
  BY <1>a, <1>11 DEF ListFails, ScalarsOK
<1>12. CASE Reconcile
  BY <1>a, <1>12 DEF Reconcile, ScalarsOK
<1>13. CASE Announce
  BY <1>a, <1>13 DEF Announce, ScalarsOK
<1>14. CASE Announced
  BY <1>a, <1>14 DEF Announced, ScalarsOK
<1>15. CASE TakeEvent
  BY <1>a, <1>15 DEF TakeEvent, registry, ScalarsOK
<1>16. CASE WakeOnTimer
  BY <1>a, <1>16 DEF WakeOnTimer, registry, ScalarsOK
<1>17. CASE Look
  BY <1>a, <1>17 DEF Look, registry, ScalarsOK
<1>18. CASE Respawn
  BY <1>a, <1>18 DEF Respawn, registry, ScalarsOK
<1>19. ASSUME NEW c \in Container, Change(c) PROVE ChangeInv'
  BY <1>a, <1>19 DEF Change, ScalarsOK
<1>20. ASSUME NEW c \in Container, TaskOpens(c) \/ TaskFails(c) \/ TaskEnds(c) PROVE ChangeInv'
  BY <1>20 DEF TaskOpens, TaskFails, TaskEnds, registry
<1>21. CASE UNCHANGED observerVars
  BY <1>21 DEF observerVars, registry
<1> QED
  BY <1>1, <1>2, <1>3, <1>4, <1>5, <1>6, <1>7, <1>8, <1>9, <1>10,
     <1>11, <1>12, <1>13, <1>14, <1>15, <1>16, <1>17, <1>18, <1>19, <1>20, <1>21 DEF ObserverNext

\* A change that reached the event stream is never lost between the coalesced
\* requests and the listing, for any containers.  The listing under way is the
\* point: if it is out of date, another update must be on its way, or what it
\* writes could be wrong for good.
THEOREM ChangesArriveInTheEnd == ObserverSpec => []NoChangeIsLost
<1>1. ObserverInit => ObserverTypeOK /\ ChangeInv
  BY ScalarsInit, ChannelsInit, TypeParts, ChangeInit
<1>2. ObserverTypeOK /\ ChangeInv /\ [ObserverNext]_observerVars => (ObserverTypeOK /\ ChangeInv)'
  BY TypeStep, ChangeStep
<1>3. ChangeInv => NoChangeIsLost
  BY DEF ChangeInv
<1> QED BY <1>1, <1>2, <1>3, PTL DEF ObserverSpec

StartInv == NoStartIsLost /\ LateStartIsHeard

LEMMA StartInit == ObserverInit => StartInv
BY DEF ObserverInit, StartInv, NoStartIsLost, LateStartIsHeard

\* A step that keeps the wake-ups, the observer's turn and the containers that
\* are observed without a task.
LEMMA StartLeft ==
  ASSUME StartInv, UNCHANGED <<observed, observer, current, unheard>>,
         "start" \in ToSet(queue) \cup ToSet(sends)
           => "start" \in (ToSet(queue) \cup ToSet(sends))',
         \A c \in Container : task'[c] = "none" => task[c] = "none",
         observed \subseteq Container
  PROVE  StartInv'
BY DEF StartInv, NoStartIsLost, LateStartIsHeard, StartIsHeard

LEMMA StartStep == ObserverTypeOK /\ StartInv /\ [ObserverNext]_observerVars => StartInv'
<1> SUFFICES ASSUME ObserverTypeOK, StartInv, [ObserverNext]_observerVars PROVE StartInv'
  OBVIOUS
<1>a. ScalarsOK /\ ChannelsOK
  BY TypeParts
<1>b. observed \subseteq Container /\ task \in [Container -> TaskState]
  BY <1>a DEF ScalarsOK
<1>1. CASE Reachability
  BY <1>b, <1>1, StartLeft DEF Reachability, registry, logs
<1>2. CASE Probe
  BY <1>b, <1>2, StartLeft DEF Probe, registry, logs
<1>3. CASE CycleBegins
  BY <1>b, <1>3, StartLeft DEF CycleBegins, registry, logs
<1>4. CASE Subscribe
  BY <1>b, <1>4, StartLeft DEF Subscribe, registry, logs
<1>5. CASE Tick
  BY <1>b, <1>5, StartLeft DEF Tick, registry, logs
<1>6. CASE DeliverEvent
  BY <1>b, <1>6, StartLeft DEF DeliverEvent, registry, logs
<1>7. CASE CycleBreaks
  BY <1>b, <1>7, StartLeft DEF CycleBreaks, registry, logs
<1>8. CASE Receive
  BY <1>b, <1>8, StartLeft DEF Receive, registry, logs
<1>9. CASE Drain
  BY <1>b, <1>9, StartLeft DEF Drain, registry, logs
<1>10. CASE List
  BY <1>b, <1>10, StartLeft DEF List, registry, logs
<1>11. CASE ListFails
  BY <1>b, <1>11, StartLeft DEF ListFails, registry, logs
<1>12. CASE Announced
  BY <1>b, <1>12, StartLeft DEF Announced, registry, logs
<1>13. CASE Reconcile
  <2>1. /\ observed' = listed /\ UNCHANGED <<queue, observer, current, task, unheard>>
        /\ updater # "announcing"
    BY <1>13 DEF Reconcile, logs
  <2>2. sends = <<>>
    BY <1>a, <2>1 DEF ChannelsOK
  <2>3. "start" \notin ToSet(sends)
    BY <2>2 DEF ToSet
  <2>4. listed \ observed # {} => "start" \in ToSet(sends')
    BY <1>13, UpdateSends
  <2>5. \A c \in listed : c \in observed \/ StartIsHeard(c)'
    BY <2>4 DEF StartIsHeard
  <2>6. \A c \in listed : StartIsHeard(c) => StartIsHeard(c)' 
    BY <2>1, <2>3 DEF StartIsHeard
  <2> QED BY <2>1, <2>5, <2>6 DEF StartInv, NoStartIsLost, LateStartIsHeard
<1>14. CASE Announce
  <2>1. sends # <<>> /\ sends' = Tail(sends) /\ UNCHANGED <<observed, observer, current, task>>
    BY <1>14 DEF Announce, logs
  <2>2. ToSet(sends) = {Head(sends)} \cup ToSet(sends') /\ Head(sends) \in Action
    BY <1>a, <2>1, EventsOfTail DEF ChannelsOK
  <2>3. CASE Len(queue) < EventCap
    <3>1. queue' = Append(queue, Head(sends)) /\ unheard' = unheard
      BY <1>14, <2>3 DEF Announce
    <3>2. ToSet(queue') = ToSet(queue) \cup {Head(sends)}
      BY <1>a, <2>2, <3>1, EventsOfAppend DEF ChannelsOK
    <3> QED BY <1>b, <2>1, <2>2, <3>1, <3>2, StartLeft
  <2>4. CASE ~(Len(queue) < EventCap) /\ Head(sends) = "start"
    <3>1. unheard' = observed
      BY <1>14, <2>4 DEF Announce
    <3> QED BY <2>1, <3>1 DEF StartInv, NoStartIsLost, LateStartIsHeard, StartIsHeard
  <2>5. CASE ~(Len(queue) < EventCap) /\ Head(sends) # "start"
    <3>1. UNCHANGED <<queue, unheard>>
      BY <1>14, <2>5 DEF Announce
    <3> QED BY <1>b, <2>1, <2>2, <2>5, <3>1, StartLeft
  <2> QED BY <2>3, <2>4, <2>5
<1>15. CASE TakeEvent
  <2>1. /\ observer = "waiting" /\ queue # <<>> /\ queue' = Tail(queue)
        /\ observer' = IF Head(queue) = "start" THEN "awake" ELSE "waiting"
        /\ UNCHANGED <<observed, sends, current, task, unheard>>
    BY <1>15 DEF TakeEvent, registry
  <2>2. ToSet(queue) = {Head(queue)} \cup ToSet(queue')
    BY <1>a, <2>1, EventsOfTail DEF ChannelsOK
  <2>3. CASE Head(queue) = "start"
    BY <2>1, <2>3 DEF StartInv, NoStartIsLost, LateStartIsHeard
  <2>4. CASE Head(queue) # "start"
    BY <1>b, <2>1, <2>2, <2>4, StartLeft
  <2> QED BY <2>3, <2>4
<1>16. CASE WakeOnTimer
  BY <1>16 DEF WakeOnTimer, StartInv, NoStartIsLost, LateStartIsHeard
<1>17. CASE Look
  BY <1>17 DEF Look, registry, StartInv, NoStartIsLost, LateStartIsHeard, StartIsHeard
<1>18. CASE Respawn
  <2>1. /\ observer = "respawning" /\ observer' = "waiting"
        /\ UNCHANGED <<observed, sends, queue, unheard>>
    BY <1>18 DEF Respawn, registry
  <2>2. \A c \in Container : task'[c] = "none" => c \notin current
    BY <1>18 DEF Respawn
  <2>3. \A c \in observed \ current : StartIsHeard(c)'
    BY <2>1 DEF StartInv, LateStartIsHeard, StartIsHeard
  <2> QED BY <1>b, <2>1, <2>2, <2>3 DEF StartInv, NoStartIsLost, LateStartIsHeard
<1>19. ASSUME NEW c \in Container, Change(c) PROVE StartInv'
  BY <1>b, <1>19, StartLeft DEF Change
<1>20. ASSUME NEW c \in Container, TaskOpens(c) \/ TaskFails(c) \/ TaskEnds(c) PROVE StartInv'
  BY <1>b, <1>20, StartLeft DEF TaskOpens, TaskFails, TaskEnds, registry
<1>21. CASE UNCHANGED observerVars
  BY <1>b, <1>21, StartLeft DEF observerVars, registry, logs
<1> QED
  BY <1>1, <1>2, <1>3, <1>4, <1>5, <1>6, <1>7, <1>8, <1>9, <1>10,
     <1>11, <1>12, <1>13, <1>14, <1>15, <1>16, <1>17, <1>18, <1>19, <1>20, <1>21 DEF ObserverNext

\* An observed container without a log task is never forgotten: a start event,
\* a turn of the log observer or its timer will bring it up, for any containers
\* and any capacity of the channel.
THEOREM StartsArriveInTheEnd == ObserverSpec => []NoStartIsLost
<1>1. ObserverInit => ObserverTypeOK /\ StartInv
  BY ScalarsInit, ChannelsInit, TypeParts, StartInit
<1>2. ObserverTypeOK /\ StartInv /\ [ObserverNext]_observerVars => (ObserverTypeOK /\ StartInv)'
  BY TypeStep, StartStep
<1>3. StartInv => NoStartIsLost
  BY DEF StartInv
<1> QED BY <1>1, <1>2, <1>3, PTL DEF ObserverSpec

================================================================================
