------------------------- MODULE SearchOutboxProofs -------------------------
(***************************************************************************)
(* What SearchOutbox guarantees for every number of events and replicas,    *)
(* every batch size, lease, retry limit and number of faults.               *)
(***************************************************************************)
EXTENDS SearchOutbox, TLAPS

\* The back-off is a number of seconds up to the longest, also for counts beyond the table.
LEMMA RetryDelayType == \A n \in Nat : RetryDelay(n) \in 0..MaxRetryDelay
<1> SUFFICES ASSUME NEW n \in Nat PROVE RetryDelay(n) \in 0..MaxRetryDelay
  OBVIOUS
<1> DEFINE exponent == IF n < 1 THEN 1 ELSE IF n > 8 THEN 8 ELSE n
<1>1. exponent \in 1..8
  OBVIOUS
<1>2. PowersOfTwo[exponent] \in Nat
  BY <1>1 DEF PowersOfTwo
<1> QED
  BY <1>2, OutboxConstants DEF RetryDelay

\* LIMIT returns some of the rows.
LEMMA LimitedSubset == \A S, n : Limited(S, n) \subseteq SUBSET S
  BY DEF Limited

-----------------------------------------------------------------------------
(* Type correctness. *)

\* The type invariant holds initially, ...
LEMMA InitTypeOK == Init => TypeOK
  BY OutboxConstants DEF Init, TypeOK, Locations

\* ... and every action keeps it.
LEMMA NextTypeOK == TypeOK /\ [Next]_vars => TypeOK'
<1> SUFFICES ASSUME TypeOK, [Next]_vars PROVE TypeOK'
  OBVIOUS
<1> USE OutboxConstants DEF TypeOK, Locations, rowVars, sourceVars, batchVars,
                            memoryVars, boundVars, Goto
<1>1. ASSUME NEW e \in Events, Ingest(e) PROVE TypeOK'
  BY <1>1 DEF Ingest
<1>2. ASSUME NEW e \in Events, RemoveEvent(e) PROVE TypeOK'
  BY <1>2 DEF RemoveEvent
<1>3. CASE Tick
  BY <1>3 DEF Tick
<1>4. ASSUME NEW w \in Workers, Worker(w) PROVE TypeOK'
  <2>1. CASE EnsureIndex(w)
    BY <2>1 DEF EnsureIndex
  <2>2. CASE EnsureIndexFails(w)
    BY <2>2 DEF EnsureIndexFails
  <2>3. CASE BackfillSelect(w)
    BY <2>3, LimitedSubset DEF BackfillSelect, Missing
  <2>4. CASE BackfillInsert(w)
    BY <2>4 DEF BackfillInsert
  <2>5. CASE BackfillCheck(w)
    BY <2>5 DEF BackfillCheck
  <2>6. CASE BackfillFails(w)
    BY <2>6 DEF BackfillFails, DbError
  <2>7. CASE ClaimSelect(w)
    BY <2>7, LimitedSubset DEF ClaimSelect, Claimable
  <2>8. CASE ClaimNothing(w)
    BY <2>8 DEF ClaimNothing
  <2>9. CASE ClaimCommit(w)
    BY <2>9 DEF ClaimCommit
  <2>10. CASE Load(w)
    BY <2>10 DEF Load
  <2>11. CASE ClaimFails(w)
    BY <2>11 DEF ClaimFails, DbError, DropBatch
  <2>12. CASE BulkResponse(w)
    BY <2>12 DEF BulkResponse, Applied
  <2>13. CASE BulkError(w)
    BY <2>13 DEF BulkError, Applied
  <2>14. ASSUME NEW e \in Events, RecordSuccess(w, e) PROVE TypeOK'
    BY <2>14 DEF RecordSuccess, Recorded
  <2>15. ASSUME NEW e \in Events, RecordRetry(w, e) PROVE TypeOK'
    BY <2>15, RetryDelayType DEF RecordRetry, Recorded
  <2>16. ASSUME NEW e \in Events, RecordDeadLetter(w, e) PROVE TypeOK'
    BY <2>16 DEF RecordDeadLetter, Recorded
  <2>17. CASE BatchDone(w)
    BY <2>17 DEF BatchDone
  <2>18. CASE RecordFails(w)
    BY <2>18 DEF RecordFails, DropBatch
  <2>19. CASE WakeUp(w)
    BY <2>19 DEF WakeUp
  <2>20. CASE RequestShutdown(w)
    BY <2>20 DEF RequestShutdown
  <2>21. CASE StopGracefully(w)
    BY <2>21 DEF StopGracefully
  <2>22. CASE Crash(w)
    BY <2>22 DEF Crash, DropBatch
  <2>23. CASE Start(w)
    BY <2>23 DEF Start
  <2> QED
    BY <1>4, <2>1, <2>2, <2>3, <2>4, <2>5, <2>6, <2>7, <2>8, <2>9, <2>10,
       <2>11, <2>12, <2>13, <2>14, <2>15, <2>16, <2>17, <2>18, <2>19, <2>20,
       <2>21, <2>22, <2>23 DEF Worker, Work, Record
<1>5. CASE UNCHANGED vars
  BY <1>5 DEF vars
<1> QED
  BY <1>1, <1>2, <1>3, <1>4, <1>5 DEF Next

\* The state of the outbox, of the index and of every worker keeps its shape.
THEOREM TypeCorrect == Spec => []TypeOK
  BY InitTypeOK, NextTypeOK, PTL DEF Spec
-----------------------------------------------------------------------------
(* The inductive invariant. *)

\* So does the inductive invariant hold initially, ...
LEMMA InitIInv == Init => IInv
<1> SUFFICES ASSUME Init PROVE IInv
  OBVIOUS
<1>1. TypeOK
  BY InitTypeOK
<1> QED
  BY <1>1, OutboxConstants
  DEF Init, IInv, LocksAreExclusive, TasksBelongToBatch, RowsHaveEvents,
      ResultsAreTrue, OverrunIsSeen, OneWorkerPerLease, NoLeakedLease,
      CountsAreEarned, SnapshotsAreCurrent, AttemptsCountFailures,
      SettledOneWay, ProcessedIsApplied, BackfillCompleteIsSound

\* ... and every action of every replica keeps it.
LEMMA NextIInv == IInv /\ [Next]_vars => IInv'
<1> SUFFICES ASSUME IInv, [Next]_vars PROVE IInv'
  OBVIOUS
<1> TypeOK /\ TypeOK'
  BY NextTypeOK DEF IInv
<1> USE OutboxConstants
    DEF TypeOK, rowVars, sourceVars, batchVars, memoryVars, boundVars, Goto,
        IInv, LocksAreExclusive, TasksBelongToBatch, RowsHaveEvents,
        ResultsAreTrue, OverrunIsSeen, OneWorkerPerLease, NoLeakedLease,
        CountsAreEarned, SnapshotsAreCurrent, AttemptsCountFailures,
        SettledOneWay, ProcessedIsApplied, BackfillCompleteIsSound
<1>1. ASSUME NEW e \in Events, Ingest(e) PROVE IInv'
  BY <1>1 DEF Ingest, Missing
<1>2. ASSUME NEW e \in Events, RemoveEvent(e) PROVE IInv'
  BY <1>2 DEF RemoveEvent, Missing
<1>3. CASE Tick
  <2>1. /\ LocksAreExclusive' /\ TasksBelongToBatch' /\ RowsHaveEvents' /\ ResultsAreTrue'
        /\ OverrunIsSeen' /\ OneWorkerPerLease' /\ NoLeakedLease'
    BY <1>3 DEF Tick
  <2>2. /\ CountsAreEarned' /\ SnapshotsAreCurrent' /\ AttemptsCountFailures'
        /\ SettledOneWay' /\ ProcessedIsApplied' /\ BackfillCompleteIsSound'
    BY <1>3 DEF Tick, Missing
  <2> QED
    BY <2>1, <2>2
<1>4. ASSUME NEW w \in Workers, Worker(w) PROVE IInv'
  <2>1. CASE EnsureIndex(w)
    BY <2>1 DEF EnsureIndex, Missing
  <2>2. CASE EnsureIndexFails(w)
    BY <2>2 DEF EnsureIndexFails, Missing
  <2>3. CASE BackfillSelect(w)
    BY <2>3, LimitedSubset DEF BackfillSelect, Missing
  <2>4. CASE BackfillInsert(w)
    BY <2>4 DEF BackfillInsert, Missing
  <2>5. CASE BackfillCheck(w)
    BY <2>5 DEF BackfillCheck, Missing
  <2>6. CASE BackfillFails(w)
    BY <2>6 DEF BackfillFails, DbError, Missing
  <2>7. CASE ClaimSelect(w)
    BY <2>7, LimitedSubset DEF ClaimSelect, Claimable, LeaseExpired, Locked, Missing
  <2>8. CASE ClaimNothing(w)
    BY <2>8 DEF ClaimNothing, Missing
  <2>9. CASE ClaimCommit(w)
    <3> USE <2>9 DEF ClaimCommit
    <3>1. tasks[w] = {} /\ pc[w] = "claiming"
      OBVIOUS
    <3>2. LocksAreExclusive' /\ TasksBelongToBatch' /\ RowsHaveEvents'
          /\ ResultsAreTrue'
      OBVIOUS
    <3>3. OverrunIsSeen' /\ NoLeakedLease'
      BY <3>1
    <3>4. \A v \in Workers \ {w} : \A e \in tasks[v] \ overrun : e \notin picked[w]
      \* Such a row would be leased to v and past its lease, hence in overrun.
      <4> SUFFICES ASSUME NEW v \in Workers \ {w}, NEW e \in tasks[v] \ overrun,
                          e \in picked[w]
                   PROVE FALSE
        OBVIOUS
      <4>1. owner[e] = v /\ owner[e] # NoWorker
        OBVIOUS
      <4>2. age[e] > LeaseSeconds
        BY <3>1, <4>1
      <4> QED
        BY <4>1, <4>2
    <3>5. OneWorkerPerLease'
      BY <3>4
    <3>6. SnapshotsAreCurrent'
      BY <3>1, <3>4
    <3>7. CountsAreEarned' /\ AttemptsCountFailures'
      OBVIOUS
    <3>8. SettledOneWay' /\ ProcessedIsApplied' /\ BackfillCompleteIsSound'
      BY DEF Missing
    <3> QED
      BY <3>2, <3>3, <3>5, <3>6, <3>7, <3>8
  <2>10. CASE Load(w)
    BY <2>10 DEF Load, Missing
  <2>11. CASE ClaimFails(w)
    BY <2>11 DEF ClaimFails, DbError, DropBatch, Missing
  <2>12. CASE BulkResponse(w)
    BY <2>12 DEF BulkResponse, Applied, Missing
  <2>13. CASE BulkError(w)
    BY <2>13 DEF BulkError, Applied, Missing
  <2>14. ASSUME NEW e \in Events, RecordSuccess(w, e) PROVE IInv'
    <3> USE <2>14 DEF RecordSuccess, Recorded, Locked, Missing
    <3>1. LocksAreExclusive' /\ TasksBelongToBatch' /\ RowsHaveEvents'
      OBVIOUS
    <3>2. ResultsAreTrue' /\ OverrunIsSeen'
      OBVIOUS
    <3>3. OneWorkerPerLease' /\ NoLeakedLease'
      OBVIOUS
    <3>4. CountsAreEarned'
      OBVIOUS
    <3>5. SnapshotsAreCurrent' /\ AttemptsCountFailures'
      OBVIOUS
    <3>6. SettledOneWay' /\ ProcessedIsApplied' /\ BackfillCompleteIsSound'
      OBVIOUS
    <3> QED
      BY <3>1, <3>2, <3>3, <3>4, <3>5, <3>6
  <2>15. ASSUME NEW e \in Events, RecordRetry(w, e) PROVE IInv'
    <3> USE <2>15, RetryDelayType DEF RecordRetry, Recorded, Locked, Missing
    <3>1. LocksAreExclusive' /\ TasksBelongToBatch' /\ RowsHaveEvents'
      OBVIOUS
    <3>2. ResultsAreTrue' /\ OverrunIsSeen'
      OBVIOUS
    <3>3. OneWorkerPerLease' /\ NoLeakedLease'
      OBVIOUS
    <3>4. CountsAreEarned'
      OBVIOUS
    <3>5. SnapshotsAreCurrent' /\ AttemptsCountFailures'
      OBVIOUS
    <3>6. SettledOneWay' /\ ProcessedIsApplied' /\ BackfillCompleteIsSound'
      OBVIOUS
    <3> QED
      BY <3>1, <3>2, <3>3, <3>4, <3>5, <3>6
  <2>16. ASSUME NEW e \in Events, RecordDeadLetter(w, e) PROVE IInv'
    <3> USE <2>16 DEF RecordDeadLetter, Recorded, Locked, Missing
    <3>1. LocksAreExclusive' /\ TasksBelongToBatch' /\ RowsHaveEvents'
      OBVIOUS
    <3>2. ResultsAreTrue' /\ OverrunIsSeen'
      OBVIOUS
    <3>3. OneWorkerPerLease' /\ NoLeakedLease'
      OBVIOUS
    <3>4. CountsAreEarned'
      OBVIOUS
    <3>5. SnapshotsAreCurrent' /\ AttemptsCountFailures'
      OBVIOUS
    <3>6. SettledOneWay' /\ ProcessedIsApplied' /\ BackfillCompleteIsSound'
      OBVIOUS
    <3> QED
      BY <3>1, <3>2, <3>3, <3>4, <3>5, <3>6
  <2>17. CASE BatchDone(w)
    BY <2>17 DEF BatchDone, Missing
  <2>18. CASE RecordFails(w)
    <3> USE <2>18 DEF RecordFails, DropBatch, Missing
    <3>1. LocksAreExclusive' /\ TasksBelongToBatch' /\ RowsHaveEvents'
      OBVIOUS
    <3>2. ResultsAreTrue' /\ OverrunIsSeen'
      OBVIOUS
    <3>3. OneWorkerPerLease' /\ NoLeakedLease'
      OBVIOUS
    <3>4. CountsAreEarned'
      OBVIOUS
    <3>5. SnapshotsAreCurrent' /\ AttemptsCountFailures'
      OBVIOUS
    <3>6. SettledOneWay' /\ ProcessedIsApplied' /\ BackfillCompleteIsSound'
      OBVIOUS
    <3> QED
      BY <3>1, <3>2, <3>3, <3>4, <3>5, <3>6
  <2>19. CASE WakeUp(w)
    BY <2>19 DEF WakeUp, Missing
  <2>20. CASE RequestShutdown(w)
    BY <2>20 DEF RequestShutdown, Missing
  <2>21. CASE StopGracefully(w)
    BY <2>21 DEF StopGracefully, Missing
  <2>22. CASE Crash(w)
    <3> USE <2>22 DEF Crash, DropBatch, Missing
    <3>1. LocksAreExclusive' /\ TasksBelongToBatch' /\ RowsHaveEvents'
      OBVIOUS
    <3>2. ResultsAreTrue' /\ OverrunIsSeen'
      OBVIOUS
    <3>3. OneWorkerPerLease' /\ NoLeakedLease'
      OBVIOUS
    <3>4. CountsAreEarned'
      OBVIOUS
    <3>5. SnapshotsAreCurrent' /\ AttemptsCountFailures'
      OBVIOUS
    <3>6. SettledOneWay' /\ ProcessedIsApplied' /\ BackfillCompleteIsSound'
      OBVIOUS
    <3> QED
      BY <3>1, <3>2, <3>3, <3>4, <3>5, <3>6
  <2>23. CASE Start(w)
    BY <2>23 DEF Start, Missing
  <2> QED
    BY <1>4, <2>1, <2>2, <2>3, <2>4, <2>5, <2>6, <2>7, <2>8, <2>9, <2>10, <2>11, <2>12, <2>13, <2>14, <2>15, <2>16, <2>17, <2>18, <2>19, <2>20, <2>21, <2>22, <2>23 DEF Worker, Work, Record
<1>5. CASE UNCHANGED vars
  BY <1>5 DEF vars, Missing
<1> QED
  BY <1>1, <1>2, <1>3, <1>4, <1>5 DEF Next

\* So it always holds.
LEMMA Invariance == Spec => []IInv
  BY InitIInv, NextIInv, PTL DEF Spec

\* However replicas overlap, crash or answer late, a processed row's event was
\* written to the index or has been deleted.
THEOREM ProcessedIsAppliedHolds == Spec => []ProcessedIsApplied
<1>1. IInv => ProcessedIsApplied
  BY DEF IInv
<1> QED
  BY <1>1, Invariance, PTL

\* A row that never outlives its lease in a worker's hands is worked on by the
\* one worker it names.
THEOREM OneWorkerPerLeaseHolds == Spec => []OneWorkerPerLease
<1>1. IInv => OneWorkerPerLease
  BY DEF IInv
<1> QED
  BY <1>1, Invariance, PTL

\* Only a crash or a failed statement leaves a lease without a worker.
THEOREM NoLeakedLeaseHolds == Spec => []NoLeakedLease
<1>1. IInv => NoLeakedLease
  BY DEF IInv
<1> QED
  BY <1>1, Invariance, PTL

\* Dead letters have failed MaxAttempts times, whatever counts an overlap loses.
THEOREM DeadLetterIsEarnedHolds == Spec => []DeadLetterIsEarned
<1>1. IInv => DeadLetterIsEarned
  BY DEF IInv, TypeOK, CountsAreEarned, DeadLetterIsEarned
<1> QED
  BY <1>1, Invariance, PTL

\* Within the lease attempt_count counts the failures of a row.
THEOREM AttemptsCountFailuresHolds == Spec => []AttemptsCountFailures
<1>1. IInv => AttemptsCountFailures
  BY DEF IInv
<1> QED
  BY <1>1, Invariance, PTL

\* Within the lease a row is settled once: processed and dead exclude each other for ever.
THEOREM SettledOneWayHolds == Spec => []SettledOneWay
<1>1. IInv => SettledOneWay
  BY DEF IInv
<1> QED
  BY <1>1, Invariance, PTL

\* A worker that ended its backfill has left no event without a row.
THEOREM BackfillCompleteIsSoundHolds == Spec => []BackfillCompleteIsSound
<1>1. IInv => BackfillCompleteIsSound
  BY DEF IInv
<1> QED
  BY <1>1, Invariance, PTL

\* Documents of tasks that are being recorded as done are written by nobody else: a second
\* worker would need their lease.
LEMMA NextStale ==
  IInv /\ StaleDocumentIsRemoved /\ [Next]_vars => StaleDocumentIsRemoved'
<1> SUFFICES ASSUME IInv, StaleDocumentIsRemoved, [Next]_vars,
                    NEW v \in Workers, pc'[v] = "record",
                    NEW f \in (tasks'[v] \cap deletes'[v]) \ (failed'[v] \cup overrun')
             PROVE  f \notin docs'
  BY DEF StaleDocumentIsRemoved
<1> f \in Events
  BY NextTypeOK DEF IInv, TypeOK
<1> USE DEF rowVars, sourceVars, batchVars, memoryVars, boundVars, Goto, TypeOK, IInv
<1>1. \A x \in Workers \ {v} : f \in tasks[v] \ overrun => f \notin tasks[x]
  BY DEF OneWorkerPerLease
<1>2. ASSUME pc[v] = "record", f \in (tasks[v] \cap deletes[v]) \ (failed[v] \cup overrun)
      PROVE  f \notin docs
  BY <1>2 DEF StaleDocumentIsRemoved
<1>3. ASSUME NEW e \in Events, Ingest(e) \/ RemoveEvent(e) PROVE f \notin docs'
  BY <1>2, <1>3 DEF Ingest, RemoveEvent
<1>4. CASE Tick
  BY <1>2, <1>4 DEF Tick
<1>5. ASSUME NEW w \in Workers, Worker(w) PROVE f \notin docs'
  <2>1. CASE \/ EnsureIndex(w) \/ EnsureIndexFails(w) \/ BackfillSelect(w)
             \/ BackfillInsert(w) \/ BackfillCheck(w) \/ BackfillFails(w)
    BY <1>2, <2>1 DEF EnsureIndex, EnsureIndexFails, BackfillSelect, BackfillInsert,
                      BackfillCheck, BackfillFails, DbError
  <2>2. CASE ClaimSelect(w) \/ ClaimNothing(w) \/ ClaimCommit(w) \/ Load(w) \/ ClaimFails(w)
    BY <1>2, <2>2 DEF ClaimSelect, ClaimNothing, ClaimCommit, Load, ClaimFails, DbError, DropBatch
  <2>3. ASSUME NEW done \in SUBSET tasks[w], docs' = Applied(w, done), pc[w] = "apply",
               pc' = [pc EXCEPT ![w] = "record"], UNCHANGED <<tasks, deletes, overrun>>,
               \A x \in Workers \ {w} : failed'[x] = failed[x],
               w = v => f \in done
        PROVE  f \notin docs'
    <3>1. CASE w = v
      BY <2>3, <3>1 DEF Applied
    <3>2. CASE w # v
      <4>1. f \notin docs /\ f \notin tasks[w]
        BY <1>1, <1>2, <2>3, <3>2
      <4> QED
        BY <2>3, <4>1 DEF Applied
    <3> QED
      BY <3>1, <3>2
  <2>4. CASE BulkResponse(w)
    <3>1. PICK bad \in SUBSET tasks[w] : /\ docs' = Applied(w, tasks[w] \ bad)
                                         /\ failed' = [failed EXCEPT ![w] = bad]
      BY <2>4 DEF BulkResponse
    <3>2. w = v => f \in tasks[w] \ bad
      BY <2>4, <3>1 DEF BulkResponse
    <3> QED
      BY <2>3, <2>4, <3>1, <3>2 DEF BulkResponse
  <2>5. CASE BulkError(w)
    <3>1. PICK done \in SUBSET tasks[w] : docs' = Applied(w, done)
      BY <2>5 DEF BulkError
    <3>2. w # v
      BY <2>5 DEF BulkError
    <3> QED
      BY <2>3, <2>5, <3>1, <3>2 DEF BulkError
  <2>6. ASSUME NEW e \in Events, RecordSuccess(w, e) \/ RecordRetry(w, e) \/ RecordDeadLetter(w, e)
        PROVE  f \notin docs'
    <3>1. Recorded(w, e) /\ UNCHANGED <<docs, pc, overrun>>
      BY <2>6 DEF RecordSuccess, RecordRetry, RecordDeadLetter
    <3>2. f \in (tasks[v] \cap deletes[v]) \ (failed[v] \cup overrun)
      BY <3>1 DEF Recorded
    <3> QED
      BY <1>2, <3>1, <3>2
  <2>7. CASE BatchDone(w) \/ RecordFails(w) \/ WakeUp(w)
    BY <1>2, <2>7 DEF BatchDone, RecordFails, DropBatch, WakeUp
  <2>8. CASE RequestShutdown(w) \/ StopGracefully(w) \/ Crash(w) \/ Start(w)
    BY <1>2, <2>8 DEF RequestShutdown, StopGracefully, Crash, DropBatch, Start
  <2> QED
    BY <1>5, <2>1, <2>2, <2>4, <2>5, <2>6, <2>7, <2>8 DEF Worker, Work, Record
<1>6. CASE UNCHANGED vars
  BY <1>2, <1>6 DEF vars
<1> QED
  BY <1>3, <1>4, <1>5, <1>6 DEF Next

\* A row whose event is gone is recorded as done only once its document is gone too, unless
\* a worker outlived its lease.
THEOREM StaleDocumentIsRemovedHolds == Spec => []StaleDocumentIsRemoved
<1>1. Init => StaleDocumentIsRemoved
  BY DEF Init, StaleDocumentIsRemoved
<1> QED
  BY <1>1, NextStale, Invariance, PTL DEF Spec

-----------------------------------------------------------------------------
(* Refinement. *)

\* Nothing is stored, written or delivered at first, ...
LEMMA InitRefines == Init => Projection!PInit
  BY DEF Init, Projection!PInit

\* ... and every step writes documents, delivers one event, counts one failure,
\* stores or deletes an event, or concerns the abstract projection not at all.
LEMMA NextRefines ==
  IInv /\ [Next]_vars => [Projection!PNext]_(Projection!pvars)
<1> SUFFICES ASSUME IInv, [Next]_vars
             PROVE  Projection!PNext \/ UNCHANGED Projection!pvars
  OBVIOUS
<1> USE DEF rowVars, sourceVars, batchVars, memoryVars, boundVars, IInv, TypeOK,
            Projection!pvars
<1>1. ASSUME NEW e \in Events, Ingest(e) PROVE Projection!Store(e)
  BY <1>1 DEF Ingest, Projection!Store
<1>2. ASSUME NEW e \in Events, RemoveEvent(e) PROVE Projection!Delete(e)
  BY <1>2 DEF RemoveEvent, Projection!Delete
<1>3. CASE Tick
  BY <1>3 DEF Tick
<1>4. ASSUME NEW w \in Workers, Worker(w)
      PROVE  Projection!PNext \/ UNCHANGED Projection!pvars
  <2>1. CASE \/ EnsureIndex(w) \/ EnsureIndexFails(w) \/ BackfillSelect(w)
             \/ BackfillInsert(w) \/ BackfillCheck(w) \/ BackfillFails(w)
             \/ ClaimSelect(w) \/ ClaimNothing(w) \/ ClaimCommit(w) \/ Load(w)
             \/ ClaimFails(w) \/ BatchDone(w) \/ RecordFails(w) \/ WakeUp(w)
             \/ RequestShutdown(w) \/ StopGracefully(w) \/ Crash(w) \/ Start(w)
    BY <2>1 DEF EnsureIndex, EnsureIndexFails, BackfillSelect, BackfillInsert,
                BackfillCheck, BackfillFails, ClaimSelect, ClaimNothing,
                ClaimCommit, Load, ClaimFails, BatchDone, RecordFails, WakeUp,
                RequestShutdown, StopGracefully, Crash, Start
  <2>2. ASSUME NEW done \in SUBSET tasks[w], docs' = Applied(w, done),
               pc[w] = "apply", UNCHANGED <<sourceVars, failures, processed, dead>>
        PROVE  Projection!PNext
    \* The operations of a bulk request write stored events and remove gone ones.
    <3>1. done \ deletes[w] \in SUBSET Events /\ done \cap deletes[w] \in SUBSET Events
      OBVIOUS
    <3>2. Projection!Write(done \ deletes[w], done \cap deletes[w])
      BY <2>2 DEF Projection!Write, Applied, RowsHaveEvents, ResultsAreTrue
    <3> QED
      BY <3>1, <3>2 DEF Projection!PNext
  <2>3. CASE BulkResponse(w)
    <3>1. PICK bad \in SUBSET tasks[w] : docs' = Applied(w, tasks[w] \ bad)
      BY <2>3 DEF BulkResponse
    <3> QED
      BY <2>2, <2>3, <3>1 DEF BulkResponse
  <2>4. CASE BulkError(w)
    BY <2>2, <2>4 DEF BulkError
  <2>5. ASSUME NEW e \in Events, RecordSuccess(w, e) PROVE Projection!PNext
    <3>1. e \in docs \cup removed
      BY <2>5 DEF RecordSuccess, Recorded, ResultsAreTrue
    <3>2. Projection!Deliver(e)
      BY <2>5, <3>1 DEF RecordSuccess, Projection!Deliver
    <3> QED
      BY <3>2 DEF Projection!PNext
  <2>6. ASSUME NEW e \in Events, RecordRetry(w, e) PROVE Projection!PNext
    <3>1. e \in events \cup removed
      BY <2>6 DEF RecordRetry, Recorded, RowsHaveEvents
    <3>2. Projection!Fail(e)
      BY <2>6, <3>1 DEF RecordRetry, Projection!Fail
    <3> QED
      BY <3>2 DEF Projection!PNext
  <2>7. ASSUME NEW e \in Events, RecordDeadLetter(w, e) PROVE Projection!PNext
    <3>1. e \in events \cup removed
      BY <2>7 DEF RecordDeadLetter, Recorded, RowsHaveEvents
    <3>2. snap[w][e] <= failures[e] /\ snap[w][e] \in Nat /\ failures[e] \in Nat
      BY DEF CountsAreEarned
    <3>3. failures[e] + 1 >= MaxAttempts
      BY <2>7, <3>2, OutboxConstants DEF RecordDeadLetter
    <3>4. Projection!Fail(e)
      BY <2>7, <3>1, <3>3 DEF RecordDeadLetter, Projection!Fail
    <3> QED
      BY <3>4 DEF Projection!PNext
  <2> QED
    BY <1>4, <2>1, <2>3, <2>4, <2>5, <2>6, <2>7 DEF Worker, Work, Record
<1>5. CASE UNCHANGED vars
  BY <1>5 DEF vars
<1> QED
  BY <1>1, <1>2, <1>3, <1>4, <1>5 DEF Next, Projection!PNext

\* Leases, retries and overlapping replicas implement at-least-once delivery
\* with dead letters, as the abstract projection states it.
THEOREM OutboxImplementsProjection == Spec => ImplementsProjection
  BY InitRefines, NextRefines, Invariance, PTL
  DEF Spec, ImplementsProjection, Projection!PSpec
=============================================================================
