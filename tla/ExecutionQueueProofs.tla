------------------------ MODULE ExecutionQueueProofs ------------------------
(***************************************************************************)
(* Proofs about ExecutionQueue for any number of consumers, jobs and       *)
(* batches.                                                                *)
(***************************************************************************)
EXTENDS ExecutionQueue, TLAPS

USE DEF NoJob, NoBatch

-----------------------------------------------------------------------------
(* Types                                                                   *)

\* The status refreshBatchStatus computes is one the CHECK constraint admits.
LEMMA RefreshedStatusType ==
    ASSUME NEW w, NEW b PROVE RefreshedStatus(w, b) \in Status
BY DEF RefreshedStatus, Status, Active, Terminal

\* Ending a transaction leaves its bookkeeping well typed.
LEMMA EndTxType ==
    ASSUME TypeOK, NEW w \in Workers, EndTx(w)
    PROVE  /\ locked' \in [Workers -> SUBSET Jobs]
           /\ wrote' \in [Workers -> SUBSET Jobs]
           /\ closing' \in [Workers -> SUBSET (Jobs \X Attempts)]
           /\ expiredAt' \in [Workers -> [Jobs -> 0..MaxAttempts]]
           /\ todo' \in [Workers -> SUBSET Batches]
           /\ refreshing' \in [Workers -> Batches \cup {NoBatch}]
           /\ verdict' \in [Workers -> Status]
           /\ written' \in [Workers -> [Batches -> Status \cup {"absent"}]]
           /\ cand' \in [Workers -> SUBSET Jobs]
<1>1. [j \in Jobs |-> 0] \in [Jobs -> 0..MaxAttempts]
  BY ConstantsAssumption
<1>2. "passed" \in Status
  BY DEF Status, Terminal
<1> QED BY <1>1, <1>2 DEF EndTx, TypeOK

\* Leaving runOnce resets the consumer's local variables within their types.
LEMMA LeaveRunOnceType ==
    ASSUME TypeOK, NEW w \in Workers, NEW to \in {"idle", "dead"}, LeaveRunOnce(w, to)
    PROVE  /\ pc' \in [Workers -> Busy \cup InTx \cup {"idle", "dead"}]
           /\ claimed' \in [Workers -> Jobs \cup {NoJob}]
           /\ claimedAttempt' \in [Workers -> 0..MaxAttempts]
           /\ \A v \in Workers : pc'[v] \in Busy => claimed'[v] \in Jobs
                                                    /\ claimedAttempt'[v] \in Attempts
           /\ hasRun' \subseteq Workers
           /\ result' \in [Workers -> Terminal]
BY ConstantsAssumption DEF LeaveRunOnce, TypeOK, Busy, Terminal

\* The empty database and the idle consumers are well typed.
LEMMA InitType == Init => TypeOK
BY ConstantsAssumption DEF Init, TypeOK, Busy, Status, Active, Terminal

\* Every step keeps the types; the bound on attempts is the claim's own guard.
LEMMA NextType == TypeOK /\ [Next]_vars => TypeOK'
<1> SUFFICES ASSUME TypeOK, [Next]_vars PROVE TypeOK' OBVIOUS
<1> USE ConstantsAssumption
<1>1. ASSUME NEW b \in Batches, CreateBatch(b) PROVE TypeOK'
  BY <1>1 DEF CreateBatch, TypeOK, Status, Active, workerVars, txVars
<1>2. ASSUME NEW b \in Batches, CancelBatch(b) PROVE TypeOK'
  BY <1>2 DEF CancelBatch, TypeOK, JobsOf, Status, Active, Terminal, workerVars, txVars
<1>3. ASSUME NEW j \in Jobs, NEW a \in Attempts, DeleteExecution(j, a) PROVE TypeOK'
  BY <1>3 DEF DeleteExecution, TypeOK, jobVars, batchVars, workerVars, txVars
<1>4. ASSUME NEW w \in Workers, ClaimScan(w) PROVE TypeOK'
  <2> DEFINE over   == {j \in expired : status[j] = "running"}
             free   == {j \in over : ~LockedByOther(w, j)}
             unsafe == {j \in free : RequiresManualRecovery(j)}
  <2>1. over \subseteq Jobs /\ free \subseteq Jobs /\ unsafe \subseteq Jobs
    BY DEF TypeOK
  <2>2. {BatchOf[j] : j \in unsafe} \subseteq Batches
    BY <2>1, ZenonT(60)
  <2>3. [j \in Jobs |-> IF j \in over THEN attempt[j] ELSE 0] \in [Jobs -> 0..MaxAttempts]
    BY DEF TypeOK
  <2>4. {r \in unsafe \X Attempts : run[r[1]][r[2]] = "running"} \subseteq Jobs \X Attempts
    BY <2>1
  <2>5. /\ pc' = [pc EXCEPT ![w] = "scanned"]
        /\ locked' = [locked EXCEPT ![w] = free]
        /\ wrote' = [wrote EXCEPT ![w] = unsafe]
        /\ closing' = [closing EXCEPT ![w] =
                         {r \in unsafe \X Attempts : run[r[1]][r[2]] = "running"}]
        /\ expiredAt' = [expiredAt EXCEPT ![w] =
                           [j \in Jobs |-> IF j \in over THEN attempt[j] ELSE 0]]
        /\ todo' = [todo EXCEPT ![w] = {BatchOf[j] : j \in unsafe}]
        /\ UNCHANGED <<jobVars, batchVars, run, claimed, claimedAttempt, hasRun,
                       result, refreshing, verdict, written, cand, faults>>
    BY <1>4 DEF ClaimScan
  <2> HIDE DEF over, free, unsafe
  <2> QED BY <2>1, <2>2, <2>3, <2>4, <2>5 DEF TypeOK, Busy, InTx, jobVars, batchVars
<1>5. ASSUME NEW w \in Workers, NEW b \in Batches, RefreshSnapshot(w, b) PROVE TypeOK'
  BY <1>5, RefreshedStatusType
     DEF RefreshSnapshot, TypeOK, jobVars, batchVars, workerVars
<1>6. ASSUME NEW w \in Workers, NEW b \in Batches, QuarantineRefresh(w, b) PROVE TypeOK'
  BY <1>6 DEF QuarantineRefresh, TypeOK, Status, Terminal, jobVars, batchVars, workerVars
<1>7. ASSUME NEW w \in Workers, ClaimSelect(w) PROVE TypeOK'
  BY <1>7 DEF ClaimSelect, TypeOK, Busy, InTx, jobVars, batchVars
<1>8. ASSUME NEW w \in Workers, NEW j \in Jobs, ClaimJob(w, j) PROVE TypeOK'
  <2>1. attempt[j] + 1 \in 0..MaxAttempts
    BY <1>8 DEF ClaimJob, Lockable, Claimable, TypeOK
  <2>2. status' \in [Jobs -> Status \cup {"absent"}]
    BY <1>8 DEF ClaimJob, TypeOK, Status, Active, Terminal
  <2>7. attempt' \in [Jobs -> 0..MaxAttempts]
    BY <1>8, <2>1 DEF ClaimJob, TypeOK
  <2>8. owner' \in [Jobs -> Workers \cup {NoOwner}]
    BY <1>8 DEF ClaimJob, LeaseFor, TypeOK
  <2>9. expired' \subseteq Jobs
    BY <1>8 DEF ClaimJob, TypeOK
  <2>10. started' \subseteq Batches
    <3>1. started' = started \cup {BatchOf[j]} /\ BatchOf[j] \in Batches
      BY <1>8 DEF ClaimJob
    <3> QED BY <3>1 DEF TypeOK
  <2>3. batchStatus' \in [Batches -> Status \cup {"absent"}]
    BY <1>8 DEF ClaimJob, BatchView, HoldsBatch, TypeOK, Status, Active
  <2>4. run' \in [Jobs -> [Attempts -> Status \cup {"absent"}]]
    BY <1>8 DEF ClaimJob, TypeOK, Status, Terminal
  <2>5. /\ pc' \in [Workers -> Busy \cup InTx \cup {"idle", "dead"}]
        /\ claimed' \in [Workers -> Jobs \cup {NoJob}]
        /\ claimedAttempt' \in [Workers -> 0..MaxAttempts]
        /\ \A v \in Workers : pc'[v] \in Busy => claimed'[v] \in Jobs
                                                 /\ claimedAttempt'[v] \in Attempts
    BY <1>8, <2>1 DEF ClaimJob, TypeOK, Busy, Attempts
  <2>6. EndTx(w) /\ UNCHANGED <<cancelRequested, hasRun, result, faults>>
    BY <1>8 DEF ClaimJob
  <2> QED BY <2>2, <2>3, <2>4, <2>5, <2>6, <2>7, <2>8, <2>9, <2>10, EndTxType DEF TypeOK
<1>9. ASSUME NEW w \in Workers, ClaimNone(w) PROVE TypeOK'
  BY <1>9, EndTxType, LeaveRunOnceType DEF ClaimNone, TypeOK, jobVars, batchVars
<1>10. ASSUME NEW w \in Workers, StartClaimedJobRun(w) PROVE TypeOK'
  <2>1. run' \in [Jobs -> [Attempts -> Status \cup {"absent"}]]
    BY <1>10 DEF StartClaimedJobRun, TypeOK, Status, Active
  <2> QED BY <1>10, <2>1 DEF StartClaimedJobRun, TypeOK, Busy, jobVars, batchVars, txVars
<1>11. ASSUME NEW w \in Workers, StartClaimedJobRunError(w) PROVE TypeOK'
  BY <1>11 DEF StartClaimedJobRunError, TypeOK, Busy, Terminal, jobVars, batchVars, txVars
<1>12. ASSUME NEW w \in Workers, ExecuteBrowserCase(w) PROVE TypeOK'
  BY <1>12 DEF ExecuteBrowserCase, TypeOK, Busy, jobVars, batchVars, txVars
<1>13. ASSUME NEW w \in Workers, FinishUpdate(w) PROVE TypeOK'
  <2>1. claimed[w] \in Jobs
    BY <1>13 DEF FinishUpdate, TypeOK, Busy
  <2>2. BatchOf[claimed[w]] \in Batches
    BY <2>1
  <2>3. /\ locked' \in [Workers -> SUBSET Jobs]
        /\ wrote' \in [Workers -> SUBSET Jobs]
        /\ todo' \in [Workers -> SUBSET Batches]
    BY <1>13, <2>1, <2>2 DEF FinishUpdate, TypeOK
  <2>4. /\ pc' \in [Workers -> Busy \cup InTx \cup {"idle", "dead"}]
        /\ \A v \in Workers : pc'[v] \in Busy => pc[v] \in Busy
    BY <1>13 DEF FinishUpdate, TypeOK, Busy
  <2>5. UNCHANGED <<jobVars, batchVars, run, claimed, claimedAttempt, hasRun, result,
                    closing, expiredAt, refreshing, verdict, written, cand, faults>>
    BY <1>13 DEF FinishUpdate
  <2> QED BY <2>3, <2>4, <2>5 DEF TypeOK, jobVars, batchVars
<1>14. ASSUME NEW w \in Workers, FinishConflict(w) PROVE TypeOK'
  BY <1>14, LeaveRunOnceType DEF FinishConflict, TypeOK, jobVars, batchVars, txVars
<1>15. ASSUME NEW w \in Workers, FinishCommit(w) PROVE TypeOK'
  <2>1. /\ status' \in [Jobs -> Status \cup {"absent"}]
        /\ owner' \in [Jobs -> Workers \cup {NoOwner}]
        /\ expired' \subseteq Jobs
        /\ batchStatus' \in [Batches -> Status \cup {"absent"}]
    BY <1>15 DEF FinishCommit, TypeOK, Status
  <2>2. run' \in [Jobs -> [Attempts -> Status \cup {"absent"}]]
    BY <1>15 DEF FinishCommit, FinishedRun, TypeOK, Status
  <2>3. LeaveRunOnce(w, "idle") /\ EndTx(w)
        /\ UNCHANGED <<attempt, cancelRequested, started, faults>>
    BY <1>15 DEF FinishCommit
  <2> QED BY <2>1, <2>2, <2>3, EndTxType, LeaveRunOnceType DEF TypeOK
<1>16. ASSUME NEW j \in Jobs, LeaseExpire(j) PROVE TypeOK'
  BY <1>16 DEF LeaseExpire, TypeOK, batchVars, workerVars, txVars
<1>17. ASSUME NEW w \in Workers, TxFailed(w) PROVE TypeOK'
  <2>1. faults' \in 0..MaxFaults
    BY <1>17 DEF TxFailed, TypeOK
  <2>2. EndTx(w) /\ UNCHANGED <<jobVars, batchVars, run>>
        /\ (LeaveRunOnce(w, "idle") \/ LeaveRunOnce(w, "dead"))
    BY <1>17 DEF TxFailed
  <2> QED BY <2>1, <2>2, EndTxType, LeaveRunOnceType DEF TypeOK, jobVars, batchVars
<1>18. ASSUME NEW w \in Workers, Crash(w) PROVE TypeOK'
  <2>1. faults' \in 0..MaxFaults
    BY <1>18 DEF Crash, TypeOK
  <2>2. EndTx(w) /\ UNCHANGED <<jobVars, batchVars, run>>
        /\ (LeaveRunOnce(w, "idle") \/ LeaveRunOnce(w, "dead"))
    BY <1>18 DEF Crash
  <2> QED BY <2>1, <2>2, EndTxType, LeaveRunOnceType DEF TypeOK, jobVars, batchVars
<1>19. CASE UNCHANGED vars
  BY <1>19 DEF vars, jobVars, batchVars, workerVars, txVars, TypeOK
<1> QED
  BY <1>1, <1>2, <1>3, <1>4, <1>5, <1>6, <1>7, <1>8, <1>9, <1>10, <1>11, <1>12,
     <1>13, <1>14, <1>15, <1>16, <1>17, <1>18, <1>19
     DEF Next, RunLoop, Claim, Process

\* Every reachable state of the queue is well typed, with at most MaxAttempts
\* attempts per job.
THEOREM TypeCorrect == Spec => []TypeOK
BY InitType, NextType, PTL DEF Spec

-----------------------------------------------------------------------------
(* The inductive invariant                                                 *)

\* A transaction writes only rows it has locked, refreshes only batches of those
\* rows, and outside a transaction nothing is locked or pending.
TxShapeOf(w) ==
    /\ wrote[w] \subseteq locked[w]
    /\ pc[w] \notin InTx => /\ locked[w] = {}
                            /\ refreshing[w] = NoBatch
                            /\ \A b \in Batches : written[w][b] = "absent"
    /\ \A b \in Batches :
         b \in todo[w] \/ refreshing[w] = b \/ written[w][b] # "absent"
            => \E j \in wrote[w] : BatchOf[j] = b
    /\ pc[w] = "finishing" => /\ wrote[w] = {claimed[w]}
                              /\ \A b \in Batches : written[w][b] = "absent"

TxShape == \A w \in Workers : TxShapeOf(w)

\* A job row exists when its batch does, has an owner exactly while it is running,
\* and a running row has been attempted.
RowShape ==
    \A j \in Jobs :
        /\ status[j] = "absent" <=> batchStatus[BatchOf[j]] = "absent"
        /\ status[j] = "running" <=> owner[j] # NoOwner
        /\ status[j] = "running" => attempt[j] # 0

\* A terminal status that a transaction has computed or written but not committed
\* is backed by terminal jobs, its own uncommitted writes included.
VerdictBacked ==
    \A w \in Workers : \A b \in Batches :
        (refreshing[w] = b /\ verdict[w] \in Terminal) \/ written[w][b] \in Terminal
            => \A j \in JobsOf(b) : status[j] \in Terminal \/ j \in wrote[w]

\* What a transaction takes for an expired lease is one, unless the job has been
\* claimed again since.
ExpirySeen ==
    \A w \in Workers : \A j \in Jobs :
        /\ expiredAt[w][j] <= attempt[j]
        /\ expiredAt[w][j] = attempt[j] /\ status[j] = "running" => j \in expired

\* The inductive invariant.
IInv == /\ TypeOK
        /\ OneWriterPerJob
        /\ TxShape
        /\ RowShape
        /\ VerdictBacked
        /\ ExpirySeen
        /\ TerminalBatchSettled
        /\ StaleWorkerFenced

\* The inductive invariant holds before the first batch is created.
LEMMA InitInv == Init => IInv
<1> SUFFICES ASSUME Init PROVE IInv OBVIOUS
<1>1. TypeOK
  BY InitType
<1>2. OneWriterPerJob /\ TxShape /\ RowShape
  BY ConstantsAssumption DEF Init, OneWriterPerJob, TxShape, TxShapeOf, RowShape, InTx
<1>3. VerdictBacked /\ ExpirySeen
  BY ConstantsAssumption DEF Init, VerdictBacked, ExpirySeen, Terminal
<1>4. TerminalBatchSettled /\ StaleWorkerFenced
  BY DEF Init, TerminalBatchSettled, StaleWorkerFenced, Terminal, Busy
<1> QED BY <1>1, <1>2, <1>3, <1>4 DEF IInv

\* A claimed job is pending or running; it is neither in another transaction nor
\* one of the rows the claim itself has quarantined.
LEMMA ClaimedJobActive ==
    ASSUME IInv, NEW w \in Workers, NEW j \in Jobs, ClaimJob(w, j)
    PROVE  /\ status[j] \in Active
           /\ j \notin wrote[w]
           /\ \A o \in Workers \ {w} : j \notin locked[o]
           /\ status[j] = "running" => j \in expired
           /\ j \notin cancelRequested
<1>1. Claimable(w, j) /\ ~LockedByOther(w, j) /\ pc[w] = "locking"
  BY DEF ClaimJob, Lockable
<1>2. j \notin wrote[w] /\ status[j] \in Active
  BY <1>1 DEF Claimable, JobView, StatusWritten, Active
<1> QED BY <1>1, <1>2 DEF Claimable, JobView, LeaseExpiredFor, LockedByOther, IInv, ExpirySeen

\* The step form of JobOutcomeFinal.
LEMMA OutcomeKept ==
    ASSUME IInv, [Next]_vars, NEW j \in Jobs, status[j] \in Terminal
    PROVE  status'[j] = status[j] /\ attempt'[j] = attempt[j]
<1> USE ConstantsAssumption
<1>0. status[j] \notin Active /\ status[j] # "absent"
  BY DEF Terminal, Active
<1>1. ASSUME NEW b \in Batches, CreateBatch(b)
      PROVE  status'[j] = status[j] /\ attempt'[j] = attempt[j]
  BY <1>0, <1>1 DEF CreateBatch, IInv, RowShape, TypeOK
<1>2. ASSUME NEW b \in Batches, CancelBatch(b)
      PROVE  status'[j] = status[j] /\ attempt'[j] = attempt[j]
  BY <1>0, <1>2 DEF CancelBatch, Active
<1>3. ASSUME NEW w \in Workers, NEW k \in Jobs, ClaimJob(w, k)
      PROVE  status'[j] = status[j] /\ attempt'[j] = attempt[j]
  <2>1. j # k
    BY <1>0, <1>3, ClaimedJobActive
  <2>2. j \notin wrote[w]
    BY <1>0 DEF IInv, TxShape, TxShapeOf, OneWriterPerJob, Active
  <2> QED BY <1>3, <2>1, <2>2 DEF ClaimJob, IInv, TypeOK
<1>4. ASSUME NEW w \in Workers, FinishCommit(w)
      PROVE  status'[j] = status[j] /\ attempt'[j] = attempt[j]
  <2>1. claimed[w] \in wrote[w] /\ pc[w] = "finishing"
    BY <1>4 DEF FinishCommit, IInv, TxShape, TxShapeOf
  <2>2. j # claimed[w]
    BY <1>0, <2>1 DEF IInv, TxShape, TxShapeOf, OneWriterPerJob, Active
  <2> QED BY <1>4, <2>2 DEF FinishCommit, IInv, TypeOK
<1>5. CASE UNCHANGED <<status, attempt>>
  BY <1>5
<1> QED
  BY <1>1, <1>2, <1>3, <1>4, <1>5
     DEF Next, RunLoop, Claim, Process, DeleteExecution, ClaimScan, RefreshSnapshot,
         QuarantineRefresh, ClaimSelect, ClaimNone, StartClaimedJobRun,
         StartClaimedJobRunError, ExecuteBrowserCase, FinishUpdate, FinishConflict,
         LeaseExpire, TxFailed, Crash, vars, jobVars

\* What is left of a transaction after COMMIT or ROLLBACK: nothing, for w alone.
LEMMA EndTxEffect ==
    ASSUME TypeOK, NEW w \in Workers, EndTx(w)
    PROVE  /\ locked'[w] = {} /\ wrote'[w] = {} /\ todo'[w] = {}
           /\ refreshing'[w] = NoBatch
           /\ \A b \in Batches : written'[w][b] = "absent"
           /\ \A j \in Jobs : expiredAt'[w][j] = 0
           /\ \A o \in Workers \ {w} :
                /\ locked'[o] = locked[o] /\ wrote'[o] = wrote[o] /\ todo'[o] = todo[o]
                /\ refreshing'[o] = refreshing[o] /\ verdict'[o] = verdict[o]
                /\ written'[o] = written[o] /\ expiredAt'[o] = expiredAt[o]
BY DEF EndTx, TypeOK

\* The steps that end the transaction of a consumer.
Ending(w) == \/ \E j \in Jobs : ClaimJob(w, j)
             \/ ClaimNone(w) \/ FinishCommit(w) \/ TxFailed(w) \/ Crash(w)

\* A step that ends a transaction leaves the other consumers where they are.
LEMMA EndingEffect ==
    ASSUME IInv, NEW w \in Workers, Ending(w)
    PROVE  /\ EndTx(w)
           /\ pc'[w] \notin InTx
           /\ \A o \in Workers \ {w} : pc'[o] = pc[o] /\ claimed'[o] = claimed[o]
                                       /\ claimedAttempt'[o] = claimedAttempt[o]
<1>1. EndTx(w)
  BY DEF Ending, ClaimJob, ClaimNone, FinishCommit, TxFailed, Crash
<1>2. ASSUME NEW j \in Jobs, ClaimJob(w, j)
      PROVE  /\ pc'[w] \notin InTx
             /\ \A o \in Workers \ {w} : pc'[o] = pc[o] /\ claimed'[o] = claimed[o]
                                         /\ claimedAttempt'[o] = claimedAttempt[o]
  BY <1>2 DEF ClaimJob, IInv, TypeOK, InTx
<1>3. ASSUME LeaveRunOnce(w, "idle") \/ LeaveRunOnce(w, "dead")
      PROVE  /\ pc'[w] \notin InTx
             /\ \A o \in Workers \ {w} : pc'[o] = pc[o] /\ claimed'[o] = claimed[o]
                                         /\ claimedAttempt'[o] = claimedAttempt[o]
  BY <1>3 DEF LeaveRunOnce, IInv, TypeOK, InTx
<1> QED BY <1>1, <1>2, <1>3 DEF Ending, ClaimNone, FinishCommit, TxFailed, Crash

\* Where a step that ends a transaction changes a job row, that row was running
\* or pending and no other transaction has it locked.
LEMMA EndingRows ==
    ASSUME IInv, NEW w \in Workers, Ending(w), NEW j \in Jobs,
           NEW o \in Workers \ {w}, j \in locked[o]
    PROVE  status'[j] = status[j]
<1>1. j \notin wrote[w]
  BY DEF IInv, TxShape, TxShapeOf, OneWriterPerJob
<1>2. ASSUME NEW k \in Jobs, ClaimJob(w, k) PROVE status'[j] = status[j]
  <2>1. j # k
    BY <1>2, ClaimedJobActive
  <2> QED BY <1>1, <1>2, <2>1 DEF ClaimJob
<1>3. ASSUME FinishCommit(w) PROVE status'[j] = status[j]
  <2>1. j # claimed[w]
    BY <1>1, <1>3 DEF FinishCommit, IInv, TxShape, TxShapeOf
  <2> QED BY <1>3, <2>1 DEF FinishCommit, IInv, TypeOK
<1> QED BY <1>2, <1>3 DEF Ending, ClaimNone, TxFailed, Crash, jobVars

\* Preservation of OneWriterPerJob: the scan skips rows that are locked, and a
\* finish locks only the row it owns, which is running.
LEMMA OneWriterKept == IInv /\ [Next]_vars => OneWriterPerJob'
<1> SUFFICES ASSUME IInv, [Next]_vars PROVE OneWriterPerJob' OBVIOUS
<1> USE ConstantsAssumption
<1>1. ASSUME NEW b \in Batches, CreateBatch(b) PROVE OneWriterPerJob'
  <2>1. \A w \in Workers : \A j \in locked[w] : j \in Jobs /\ status'[j] = status[j]
    BY <1>1 DEF CreateBatch, IInv, RowShape, OneWriterPerJob, TypeOK
  <2> QED BY <1>1, <2>1 DEF CreateBatch, IInv, OneWriterPerJob, txVars
<1>2. ASSUME NEW b \in Batches, CancelBatch(b) PROVE OneWriterPerJob'
  <2>1. \A w \in Workers : \A j \in locked[w] : j \in Jobs /\ status'[j] = status[j]
    BY <1>2 DEF CancelBatch, IInv, OneWriterPerJob, TypeOK
  <2> QED BY <1>2, <2>1 DEF CancelBatch, IInv, OneWriterPerJob, txVars
<1>3. ASSUME NEW w \in Workers, ClaimScan(w) PROVE OneWriterPerJob'
  <2> DEFINE free == {j \in {k \in expired : status[k] = "running"} : ~LockedByOther(w, j)}
  <2>1. locked' = [locked EXCEPT ![w] = free] /\ status' = status
    BY <1>3 DEF ClaimScan, jobVars
  <2>2. \A j \in free : status[j] = "running" /\ \A o \in Workers \ {w} : j \notin locked[o]
    BY DEF LockedByOther
  <2> HIDE DEF free
  <2> QED BY <2>1, <2>2 DEF IInv, OneWriterPerJob, TypeOK
<1>4. ASSUME NEW w \in Workers, FinishUpdate(w) PROVE OneWriterPerJob'
  <2>1. /\ claimed[w] \in Jobs /\ owner[claimed[w]] = w
        /\ \A o \in Workers \ {w} : claimed[w] \notin locked[o]
    BY <1>4 DEF FinishUpdate, LockedByOther, IInv, TypeOK, Busy
  <2>2. status[claimed[w]] = "running"
    BY <2>1 DEF IInv, RowShape
  <2>3. locked' = [locked EXCEPT ![w] = {claimed[w]}] /\ status' = status
    BY <1>4 DEF FinishUpdate, jobVars
  <2> QED BY <2>1, <2>2, <2>3 DEF IInv, OneWriterPerJob, TypeOK
<1>5. ASSUME NEW w \in Workers, Ending(w) PROVE OneWriterPerJob'
  <2>1. \A o \in Workers \ {w} : \A j \in locked[o] : status'[j] = status[j]
    BY <1>5, EndingRows DEF IInv, TypeOK
  <2> QED BY <1>5, <2>1, EndingEffect, EndTxEffect DEF IInv, OneWriterPerJob
<1>6. CASE UNCHANGED <<status, locked>>
  BY <1>6 DEF IInv, OneWriterPerJob
<1> QED
  BY <1>1, <1>2, <1>3, <1>4, <1>5, <1>6
     DEF Next, RunLoop, Claim, Process, Ending, DeleteExecution, RefreshSnapshot,
         QuarantineRefresh, ClaimSelect, StartClaimedJobRun, StartClaimedJobRunError,
         ExecuteBrowserCase, FinishConflict, LeaseExpire, vars, jobVars, txVars

\* Preservation of TxShape, one step per action that moves a transaction.
LEMMA TxShapeKept == IInv /\ [Next]_vars => TxShape'
<1> SUFFICES ASSUME IInv, [Next]_vars PROVE TxShape' OBVIOUS
<1> USE ConstantsAssumption
<1>1. ASSUME NEW w \in Workers, ClaimScan(w) PROVE TxShape'
  <2> DEFINE free   == {j \in {k \in expired : status[k] = "running"} : ~LockedByOther(w, j)}
             unsafe == {j \in free : RequiresManualRecovery(j)}
  <2>1. /\ pc[w] = "idle"
        /\ pc' = [pc EXCEPT ![w] = "scanned"]
        /\ locked' = [locked EXCEPT ![w] = free]
        /\ wrote' = [wrote EXCEPT ![w] = unsafe]
        /\ todo' = [todo EXCEPT ![w] = {BatchOf[j] : j \in unsafe}]
        /\ UNCHANGED <<claimed, refreshing, written>>
    BY <1>1 DEF ClaimScan
  <2>2. refreshing[w] = NoBatch /\ \A b \in Batches : written[w][b] = "absent"
    BY <2>1 DEF IInv, TxShape, TxShapeOf, InTx
  <2>3. unsafe \subseteq free
    OBVIOUS
  <2>4. \A b \in Batches : b \in {BatchOf[j] : j \in unsafe} => \E j \in unsafe : BatchOf[j] = b
    OBVIOUS
  <2> HIDE DEF free, unsafe
  <2>5. TxShapeOf(w)'
    BY <2>1, <2>2, <2>3, <2>4, ZenonT(60) DEF IInv, TxShapeOf, TypeOK, InTx
  <2>6. \A v \in Workers \ {w} : TxShapeOf(v)'
    BY <2>1 DEF IInv, TxShape, TxShapeOf, TypeOK
  <2> QED BY <2>5, <2>6 DEF TxShape
<1>2. ASSUME NEW w \in Workers, NEW b \in Batches, RefreshSnapshot(w, b) PROVE TxShape'
  BY <1>2 DEF RefreshSnapshot, workerVars, IInv, TxShape, TxShapeOf, TypeOK, InTx
<1>3. ASSUME NEW w \in Workers, NEW b \in Batches, QuarantineRefresh(w, b) PROVE TxShape'
  BY <1>3 DEF QuarantineRefresh, workerVars, IInv, TxShape, TxShapeOf, TypeOK, InTx
<1>4. ASSUME NEW w \in Workers, ClaimSelect(w) PROVE TxShape'
  BY <1>4 DEF ClaimSelect, IInv, TxShape, TxShapeOf, TypeOK, InTx
<1>5. ASSUME NEW w \in Workers, Ending(w) PROVE TxShape'
  <2>1. \A o \in Workers \ {w} : pc'[o] = pc[o] /\ claimed'[o] = claimed[o]
    BY <1>5, EndingEffect
  <2>2. EndTx(w) /\ pc'[w] \notin InTx
    BY <1>5, EndingEffect
  <2> QED BY <2>1, <2>2, EndTxEffect DEF IInv, TxShape, TxShapeOf, InTx
<1>6. ASSUME NEW w \in Workers, FinishUpdate(w) PROVE TxShape'
  <2>1. /\ pc[w] = "executed"
        /\ pc' = [pc EXCEPT ![w] = "finishing"]
        /\ locked' = [locked EXCEPT ![w] = {claimed[w]}]
        /\ wrote' = [wrote EXCEPT ![w] = {claimed[w]}]
        /\ todo' = [todo EXCEPT ![w] = {BatchOf[claimed[w]]}]
        /\ UNCHANGED <<claimed, refreshing, written>>
    BY <1>6 DEF FinishUpdate
  <2>2. refreshing[w] = NoBatch /\ \A b \in Batches : written[w][b] = "absent"
    BY <2>1 DEF IInv, TxShape, TxShapeOf, InTx
  <2>3. TxShapeOf(w)'
    BY <2>1, <2>2, ZenonT(60) DEF IInv, TxShapeOf, TypeOK, InTx
  <2>4. \A v \in Workers \ {w} : TxShapeOf(v)'
    BY <2>1 DEF IInv, TxShape, TxShapeOf, TypeOK
  <2> QED BY <2>3, <2>4 DEF TxShape
<1>7. ASSUME NEW w \in Workers,
             StartClaimedJobRun(w) \/ StartClaimedJobRunError(w) \/ ExecuteBrowserCase(w)
      PROVE  TxShape'
  <2>1. /\ pc[w] \notin InTx /\ pc'[w] \notin InTx
        /\ \A v \in Workers \ {w} : pc'[v] = pc[v]
        /\ UNCHANGED <<claimed, txVars>>
    BY <1>7 DEF StartClaimedJobRun, StartClaimedJobRunError, ExecuteBrowserCase, IInv,
                TypeOK, InTx
  <2> QED BY <2>1 DEF txVars, IInv, TxShape, TxShapeOf, InTx
<1>8. ASSUME NEW w \in Workers, FinishConflict(w) PROVE TxShape'
  BY <1>8 DEF FinishConflict, LeaveRunOnce, txVars, IInv, TxShape, TxShapeOf, TypeOK, InTx
<1>9. CASE UNCHANGED <<pc, claimed, txVars>>
  <2>1. UNCHANGED <<pc, claimed, locked, wrote, todo, refreshing, written>>
    BY <1>9 DEF txVars
  <2>2. \A v \in Workers : TxShapeOf(v)
    BY DEF IInv, TxShape
  <2>3. \A v \in Workers : TxShapeOf(v) => TxShapeOf(v)'
    BY <2>1 DEF TxShapeOf
  <2> QED BY <2>2, <2>3 DEF TxShape
<1> QED
  BY <1>1, <1>2, <1>3, <1>4, <1>5, <1>6, <1>7, <1>8, <1>9
     DEF Next, RunLoop, Claim, Process, Ending, CreateBatch, CancelBatch,
         DeleteExecution, LeaseExpire, vars, workerVars

\* Preservation of RowShape: claims set the owner, finishes and quarantines clear it.
LEMMA RowShapeKept == IInv /\ [Next]_vars => RowShape'
<1> SUFFICES ASSUME IInv, [Next]_vars PROVE RowShape' OBVIOUS
<1> USE ConstantsAssumption
<1>1. ASSUME NEW b \in Batches, CreateBatch(b) PROVE RowShape'
  BY <1>1 DEF CreateBatch, IInv, RowShape, TypeOK
<1>2. ASSUME NEW b \in Batches, CancelBatch(b) PROVE RowShape'
  BY <1>2 DEF CancelBatch, IInv, RowShape, TypeOK
<1>3. ASSUME NEW w \in Workers, NEW j \in Jobs, ClaimJob(w, j) PROVE RowShape'
  <2> SUFFICES ASSUME NEW k \in Jobs
               PROVE  /\ status'[k] = "absent" <=> batchStatus'[BatchOf[k]] = "absent"
                      /\ status'[k] = "running" <=> owner'[k] # NoOwner
                      /\ status'[k] = "running" => attempt'[k] # 0
    BY DEF RowShape
  <2>1. /\ status[j] \in Active /\ j \notin wrote[w]
        /\ status[j] # "absent" /\ batchStatus[BatchOf[j]] # "absent"
    BY <1>3, ClaimedJobActive DEF Active, IInv, RowShape
  <2>2. \A b \in Batches : batchStatus'[b] = "absent" <=> batchStatus[b] = "absent"
    <3>1. \A b \in Batches : HoldsBatch(w, b) => batchStatus[b] # "absent"
      BY DEF HoldsBatch, IInv, TxShape, TxShapeOf, OneWriterPerJob, RowShape, TypeOK
    <3> QED BY <1>3, <2>1, <3>1 DEF ClaimJob, BatchView, HoldsBatch
  <2>3. status'[k] = "absent" <=> status[k] = "absent"
    BY <1>3, <2>1 DEF ClaimJob, IInv, TxShape, TxShapeOf, OneWriterPerJob
  <2>4. status'[k] = "running" <=> owner'[k] # NoOwner
    BY <1>3, <2>1 DEF ClaimJob, LeaseFor, IInv, RowShape
  <2>5. status'[k] = "running" => attempt'[k] # 0
    BY <1>3 DEF ClaimJob, IInv, RowShape, TypeOK
  <2> QED BY <2>2, <2>3, <2>4, <2>5 DEF IInv, RowShape
<1>4. ASSUME NEW w \in Workers, FinishCommit(w) PROVE RowShape'
  <2> SUFFICES ASSUME NEW k \in Jobs
               PROVE  /\ status'[k] = "absent" <=> batchStatus'[BatchOf[k]] = "absent"
                      /\ status'[k] = "running" <=> owner'[k] # NoOwner
                      /\ status'[k] = "running" => attempt'[k] # 0
    BY DEF RowShape
  <2>1. /\ claimed[w] \in Jobs /\ status[claimed[w]] = "running"
        /\ refreshing[w] = BatchOf[claimed[w]]
    <3>1. pc[w] = "finishing" /\ refreshing[w] \in Batches
      BY <1>4 DEF FinishCommit, IInv, TypeOK
    <3>2. wrote[w] = {claimed[w]} /\ wrote[w] \subseteq locked[w] /\ claimed[w] \in Jobs
      BY <3>1 DEF IInv, TxShape, TxShapeOf, TypeOK, Busy
    <3>3. status[claimed[w]] = "running"
      BY <3>2 DEF IInv, OneWriterPerJob
    <3>4. \E j \in wrote[w] : BatchOf[j] = refreshing[w]
      BY <3>1 DEF IInv, TxShape, TxShapeOf
    <3> QED BY <3>2, <3>3, <3>4
  <2>2. batchStatus[BatchOf[claimed[w]]] # "absent" /\ verdict[w] # "absent"
    BY <2>1 DEF IInv, RowShape, TypeOK, Status, Active, Terminal
  <2>3. result[w] \notin {"absent", "running"}
    BY DEF IInv, TypeOK, Terminal
  <2>4. /\ status' = [status EXCEPT ![claimed[w]] = result[w]]
        /\ owner' = [owner EXCEPT ![claimed[w]] = NoOwner]
        /\ batchStatus' = [batchStatus EXCEPT ![refreshing[w]] = verdict[w]]
        /\ UNCHANGED attempt
    BY <1>4 DEF FinishCommit
  <2> QED BY <2>1, <2>2, <2>3, <2>4 DEF IInv, RowShape, TypeOK
<1>5. CASE UNCHANGED <<status, owner, attempt, batchStatus>>
  BY <1>5 DEF IInv, RowShape
<1> QED
  BY <1>1, <1>2, <1>3, <1>4, <1>5
     DEF Next, RunLoop, Claim, Process, DeleteExecution, ClaimScan, RefreshSnapshot,
         QuarantineRefresh, ClaimSelect, ClaimNone, StartClaimedJobRun,
         StartClaimedJobRunError, ExecuteBrowserCase, FinishUpdate, FinishConflict,
         LeaseExpire, TxFailed, Crash, vars, jobVars, batchVars

\* Preservation of VerdictBacked: a job that was terminal in the snapshot stays so.
LEMMA VerdictBackedKept == IInv /\ [Next]_vars => VerdictBacked'
<1> SUFFICES ASSUME IInv, [Next]_vars PROVE VerdictBacked' OBVIOUS
<1> USE ConstantsAssumption
<1>0. \A j \in Jobs : status[j] \in Terminal => status'[j] \in Terminal
  BY OutcomeKept
<1>1. ASSUME NEW w \in Workers, pc[w] \notin InTx,
             \A o \in Workers \ {w} : wrote'[o] = wrote[o],
             UNCHANGED <<refreshing, verdict, written>>
      PROVE  VerdictBacked'
  <2>1. refreshing[w] = NoBatch /\ \A b \in Batches : written[w][b] = "absent"
    BY <1>1 DEF IInv, TxShape, TxShapeOf
  <2> QED BY <1>0, <1>1, <2>1 DEF IInv, VerdictBacked, JobsOf, Terminal
<1>2. ASSUME NEW w \in Workers, NEW b \in Batches, RefreshSnapshot(w, b) PROVE VerdictBacked'
  <2>1. \A j \in JobsOf(b) : status[j] # "absent"
    BY <1>2 DEF RefreshSnapshot, JobsOf, IInv, TxShape, TxShapeOf, OneWriterPerJob, RowShape,
                TypeOK
  <2>2. ASSUME RefreshedStatus(w, b) \in Terminal
        PROVE  \A j \in JobsOf(b) : status[j] \in Terminal \/ j \in wrote[w]
    <3>1. \A j \in JobsOf(b) : JobView(w, j) \notin {"pending", "running"}
      BY <2>2 DEF RefreshedStatus, Terminal
    <3>2. \A j \in JobsOf(b) : j \in wrote[w] \/ status[j] \notin {"absent", "pending", "running"}
      BY <2>1, <3>1 DEF JobView
    <3> QED BY <3>2 DEF IInv, TypeOK, JobsOf, Status, Active
  <2>3. /\ refreshing' = [refreshing EXCEPT ![w] = b]
        /\ verdict' = [verdict EXCEPT ![w] = RefreshedStatus(w, b)]
        /\ UNCHANGED <<status, wrote, written>>
    BY <1>2 DEF RefreshSnapshot, jobVars
  <2> QED BY <2>2, <2>3 DEF IInv, VerdictBacked, TypeOK, JobsOf
<1>3. ASSUME NEW w \in Workers, NEW b \in Batches, QuarantineRefresh(w, b)
      PROVE  VerdictBacked'
  BY <1>3 DEF QuarantineRefresh, jobVars, IInv, VerdictBacked, TypeOK, JobsOf
<1>4. ASSUME NEW w \in Workers, Ending(w) PROVE VerdictBacked'
  <2>1. EndTx(w)
    BY <1>4, EndingEffect
  <2> QED BY <1>0, <2>1, EndTxEffect DEF IInv, VerdictBacked, JobsOf, Terminal
<1>5. CASE UNCHANGED <<wrote, refreshing, verdict, written>>
  BY <1>0, <1>5 DEF IInv, VerdictBacked, JobsOf
<1>6. ASSUME NEW w \in Workers, ClaimScan(w) \/ FinishUpdate(w)
      PROVE  /\ pc[w] \notin InTx
             /\ \A o \in Workers \ {w} : wrote'[o] = wrote[o]
             /\ UNCHANGED <<refreshing, verdict, written>>
  BY <1>6 DEF ClaimScan, FinishUpdate, InTx, IInv, TypeOK
<1> QED
  BY <1>1, <1>2, <1>3, <1>4, <1>5, <1>6
     DEF Next, RunLoop, Claim, Process, Ending, CreateBatch, CancelBatch, DeleteExecution,
         ClaimSelect, StartClaimedJobRun, StartClaimedJobRunError, ExecuteBrowserCase,
         FinishConflict, LeaseExpire, vars, txVars

\* After a transaction ended, each transaction knows of a job's expired lease what
\* it knew before, or nothing.
LEMMA ExpiredAtAfterEnd ==
    ASSUME TypeOK, NEW w \in Workers, EndTx(w), NEW v \in Workers, NEW k \in Jobs
    PROVE  expiredAt'[v][k] = 0 \/ expiredAt'[v][k] = expiredAt[v][k]
<1>1. CASE v = w
  BY <1>1, EndTxEffect
<1>2. CASE v # w
  <2>1. expiredAt'[v] = expiredAt[v]
    BY <1>2, EndTxEffect
  <2> QED BY <2>1
<1> QED BY <1>1, <1>2

\* Preservation of ExpirySeen: only a claim raises an attempt, and it ends its own
\* transaction; the others keep an attempt number that is now too small.
LEMMA ExpirySeenKept == IInv /\ [Next]_vars => ExpirySeen'
<1> SUFFICES ASSUME IInv, [Next]_vars PROVE ExpirySeen' OBVIOUS
<1> USE ConstantsAssumption
<1>1. ASSUME NEW b \in Batches, CreateBatch(b) \/ CancelBatch(b) PROVE ExpirySeen'
  <2>1. \A j \in Jobs : status'[j] = "running" => status[j] = "running"
    BY <1>1 DEF CreateBatch, CancelBatch
  <2> QED BY <1>1, <2>1 DEF CreateBatch, CancelBatch, txVars, IInv, ExpirySeen
<1>2. ASSUME NEW w \in Workers, ClaimScan(w) PROVE ExpirySeen'
  <2>1. /\ expiredAt' = [expiredAt EXCEPT ![w] = [j \in Jobs |->
             IF j \in expired /\ status[j] = "running" THEN attempt[j] ELSE 0]]
        /\ UNCHANGED <<status, attempt, expired>>
    <3> DEFINE over == {j \in expired : status[j] = "running"}
    <3>1. \A j \in Jobs : j \in over <=> j \in expired /\ status[j] = "running"
      OBVIOUS
    <3>2. /\ expiredAt' = [expiredAt EXCEPT ![w] =
                             [j \in Jobs |-> IF j \in over THEN attempt[j] ELSE 0]]
          /\ UNCHANGED <<status, attempt, expired>>
      BY <1>2 DEF ClaimScan, jobVars
    <3> HIDE DEF over
    <3> QED BY <3>1, <3>2, ZenonT(60)
  <2>2. \A j \in Jobs : status[j] = "running" => attempt[j] # 0
    BY DEF IInv, RowShape
  <2> QED BY <2>1, <2>2 DEF IInv, ExpirySeen, TypeOK
<1>3. ASSUME NEW w \in Workers, NEW j \in Jobs, ClaimJob(w, j) PROVE ExpirySeen'
  <2> SUFFICES ASSUME NEW v \in Workers, NEW k \in Jobs
               PROVE  /\ expiredAt'[v][k] <= attempt'[k]
                      /\ expiredAt'[v][k] = attempt'[k] /\ status'[k] = "running"
                           => k \in expired'
    BY DEF ExpirySeen
  <2>1. EndTx(w) /\ attempt' = [attempt EXCEPT ![j] = @ + 1]
        /\ expired' = expired \ (wrote[w] \cup {j})
    BY <1>3 DEF ClaimJob
  <2>2. expiredAt'[v][k] = 0 \/ expiredAt'[v][k] = expiredAt[v][k]
    BY <2>1, ExpiredAtAfterEnd DEF IInv
  <2>3. /\ expiredAt[v][k] \in Nat /\ attempt[k] \in Nat /\ expiredAt[v][k] <= attempt[k]
        /\ attempt'[k] = IF k = j THEN attempt[k] + 1 ELSE attempt[k]
    BY <2>1 DEF IInv, ExpirySeen, TypeOK
  <2>4. expiredAt'[v][k] <= attempt'[k] /\ (k = j => expiredAt'[v][k] # attempt'[k])
    BY <2>2, <2>3
  <2>5. ASSUME k # j, status'[k] = "running"
        PROVE  k \notin wrote[w] /\ status[k] = "running" /\ attempt[k] # 0
    BY <1>3, <2>5 DEF ClaimJob, IInv, RowShape
  <2> QED BY <2>1, <2>2, <2>3, <2>4, <2>5 DEF IInv, ExpirySeen
<1>4. ASSUME NEW w \in Workers, ClaimNone(w) \/ TxFailed(w) \/ Crash(w) PROVE ExpirySeen'
  <2>1. EndTx(w) /\ UNCHANGED <<status, attempt, expired>>
    BY <1>4 DEF ClaimNone, TxFailed, Crash, jobVars
  <2>2. \A j \in Jobs : attempt[j] \in Nat /\ (status[j] = "running" => attempt[j] # 0)
    BY DEF IInv, RowShape, TypeOK
  <2> SUFFICES ASSUME NEW v \in Workers, NEW k \in Jobs
               PROVE  /\ expiredAt'[v][k] <= attempt'[k]
                      /\ expiredAt'[v][k] = attempt'[k] /\ status'[k] = "running"
                           => k \in expired'
    BY DEF ExpirySeen
  <2>3. expiredAt'[v][k] = 0 \/ expiredAt'[v][k] = expiredAt[v][k]
    BY <2>1, ExpiredAtAfterEnd DEF IInv
  <2> QED BY <2>1, <2>2, <2>3 DEF IInv, ExpirySeen
<1>5. ASSUME NEW w \in Workers, FinishCommit(w) PROVE ExpirySeen'
  <2>1. /\ EndTx(w) /\ UNCHANGED attempt
        /\ status' = [status EXCEPT ![claimed[w]] = result[w]]
        /\ expired' = expired \ {claimed[w]}
    BY <1>5 DEF FinishCommit
  <2>2. \A j \in Jobs : attempt[j] \in Nat /\ (status[j] = "running" => attempt[j] # 0)
    BY DEF IInv, RowShape, TypeOK
  <2>3. \A j \in Jobs : status'[j] = "running" => status[j] = "running" /\ j # claimed[w]
    BY <2>1 DEF IInv, TypeOK, Terminal
  <2> QED BY <2>1, <2>2, <2>3, EndTxEffect DEF IInv, ExpirySeen
<1>6. ASSUME NEW j \in Jobs, LeaseExpire(j) PROVE ExpirySeen'
  BY <1>6 DEF LeaseExpire, txVars, IInv, ExpirySeen
<1>7. CASE UNCHANGED <<status, attempt, expired, expiredAt>>
  BY <1>7 DEF IInv, ExpirySeen
<1> QED
  BY <1>1, <1>2, <1>3, <1>4, <1>5, <1>6, <1>7
     DEF Next, RunLoop, Claim, Process, DeleteExecution, RefreshSnapshot,
         QuarantineRefresh, ClaimSelect, StartClaimedJobRun, StartClaimedJobRunError,
         ExecuteBrowserCase, FinishUpdate, FinishConflict, vars, jobVars, txVars
\* Preservation of TerminalBatchSettled: a terminal status that is committed was
\* backed by terminal jobs when it was computed, and those stay terminal.
LEMMA SettledKept == IInv /\ [Next]_vars => TerminalBatchSettled'
<1> SUFFICES ASSUME IInv, [Next]_vars, NEW b \in Batches, NEW j \in JobsOf(b),
                    batchStatus'[b] \in Terminal
             PROVE  status'[j] \in Terminal
  BY DEF TerminalBatchSettled, JobsOf
<1> USE ConstantsAssumption
<1>0. j \in Jobs /\ BatchOf[j] = b
  BY DEF JobsOf
<1>1. ASSUME status[j] \in Terminal PROVE status'[j] \in Terminal
  BY <1>0, <1>1, OutcomeKept
<1>2. ASSUME NEW c \in Batches, CreateBatch(c) PROVE status'[j] \in Terminal
  <2>1. b # c
    BY <1>2 DEF CreateBatch, IInv, TypeOK, Terminal
  <2> QED BY <1>0, <1>1, <1>2, <2>1 DEF CreateBatch, IInv, TypeOK, TerminalBatchSettled
<1>3. ASSUME NEW c \in Batches, CancelBatch(c) PROVE status'[j] \in Terminal
  <2>1. CASE b = c
    <3>0. batchStatus'[c] # "running"
      BY <2>1 DEF Terminal
    <3>1. status[j] # "absent"
      BY <1>0, <1>3, <2>1 DEF CancelBatch, IInv, RowShape
    <3>2. status[j] \in Active => status[j] = "pending"
      BY <1>0, <1>3, <2>1, <3>0 DEF CancelBatch, JobsOf, Active, IInv, TypeOK
    <3>3. status[j] = "pending" => status'[j] = "cancelled"
      BY <1>0, <1>3, <2>1 DEF CancelBatch, JobsOf, Active
    <3>4. status[j] \in Terminal \/ status[j] \in Active
      BY <1>0, <3>1 DEF IInv, TypeOK, Status
    <3> QED BY <1>1, <3>2, <3>3, <3>4 DEF Terminal
  <2>2. CASE b # c
    BY <1>0, <1>1, <1>3, <2>2 DEF CancelBatch, IInv, TypeOK, TerminalBatchSettled
  <2> QED BY <2>1, <2>2
<1>4. ASSUME NEW w \in Workers, NEW k \in Jobs, ClaimJob(w, k) PROVE status'[j] \in Terminal
  <2>1. b # BatchOf[k] /\ j # k /\ BatchView(w, b) \in Terminal
    BY <1>0, <1>4 DEF ClaimJob, Terminal
  <2>2. status[j] \in Terminal \/ j \in wrote[w]
    BY <2>1 DEF BatchView, HoldsBatch, IInv, TerminalBatchSettled, VerdictBacked
  <2> QED BY <1>0, <1>1, <1>4, <2>1, <2>2 DEF ClaimJob, Terminal
<1>5. ASSUME NEW w \in Workers, FinishCommit(w) PROVE status'[j] \in Terminal
  <2>1. /\ wrote[w] = {claimed[w]} /\ claimed[w] \in Jobs
        /\ status' = [status EXCEPT ![claimed[w]] = result[w]]
        /\ batchStatus' = [batchStatus EXCEPT ![refreshing[w]] = verdict[w]]
    BY <1>5 DEF FinishCommit, IInv, TxShape, TxShapeOf, TypeOK, Busy
  <2>2. status[j] \in Terminal \/ j \in wrote[w]
    BY <2>1 DEF IInv, TypeOK, TerminalBatchSettled, VerdictBacked
  <2> QED BY <1>0, <1>1, <2>1, <2>2 DEF IInv, TypeOK
<1>6. CASE UNCHANGED <<status, batchStatus>>
  BY <1>6 DEF IInv, TerminalBatchSettled
<1> QED
  BY <1>2, <1>3, <1>4, <1>5, <1>6
     DEF Next, RunLoop, Claim, Process, DeleteExecution, ClaimScan, RefreshSnapshot,
         QuarantineRefresh, ClaimSelect, ClaimNone, StartClaimedJobRun,
         StartClaimedJobRunError, ExecuteBrowserCase, FinishUpdate, FinishConflict,
         LeaseExpire, TxFailed, Crash, vars, jobVars, batchVars

\* Preservation of StaleWorkerFenced: a claim makes its own consumer the owner, so
\* whoever held the previous attempt is not the owner any more.
LEMMA FencedKept == IInv /\ [Next]_vars => StaleWorkerFenced'
<1> SUFFICES ASSUME IInv, [Next]_vars, NEW v \in Workers, pc'[v] \in Busy,
                    owner'[claimed'[v]] = v
             PROVE  attempt'[claimed'[v]] = claimedAttempt'[v]
  BY DEF StaleWorkerFenced
<1> USE ConstantsAssumption
<1>1. ASSUME pc[v] \in Busy, claimed'[v] = claimed[v],
             claimedAttempt'[v] = claimedAttempt[v],
             owner[claimed[v]] = v => attempt'[claimed[v]] = attempt[claimed[v]],
             owner'[claimed[v]] = owner[claimed[v]]
      PROVE  attempt'[claimed'[v]] = claimedAttempt'[v]
  BY <1>1 DEF IInv, StaleWorkerFenced
<1>2. ASSUME NEW w \in Workers, NEW j \in Jobs, ClaimJob(w, j)
      PROVE  attempt'[claimed'[v]] = claimedAttempt'[v]
  <2>1. CASE v = w
    BY <1>2, <2>1 DEF ClaimJob, IInv, TypeOK
  <2>2. CASE v # w
    <3>1. pc'[v] = pc[v] /\ claimed'[v] = claimed[v] /\ claimedAttempt'[v] = claimedAttempt[v]
      BY <1>2, <2>2 DEF ClaimJob, IInv, TypeOK
    <3>2. claimed[v] \in Jobs
      BY <3>1 DEF IInv, TypeOK
    <3>3. claimed[v] # j /\ owner'[claimed[v]] = owner[claimed[v]]
      BY <1>2, <2>2, <3>1, <3>2 DEF ClaimJob, LeaseFor
    <3>4. attempt'[claimed[v]] = attempt[claimed[v]]
      BY <1>2, <3>2, <3>3 DEF ClaimJob, IInv, TypeOK
    <3> QED BY <1>1, <3>1, <3>3, <3>4
  <2> QED BY <2>1, <2>2
<1>3. ASSUME NEW w \in Workers, FinishCommit(w)
      PROVE  attempt'[claimed'[v]] = claimedAttempt'[v]
  <2>1. v # w
    BY <1>3 DEF FinishCommit, LeaveRunOnce, IInv, TypeOK, Busy
  <2>2. pc'[v] = pc[v] /\ claimed'[v] = claimed[v] /\ claimedAttempt'[v] = claimedAttempt[v]
    BY <1>3, <2>1 DEF FinishCommit, LeaveRunOnce, IInv, TypeOK
  <2>3. owner'[claimed[v]] = owner[claimed[v]] /\ UNCHANGED attempt
    BY <1>3, <2>2 DEF FinishCommit, IInv, TypeOK
  <2> QED BY <1>1, <2>2, <2>3
<1>4. ASSUME NEW w \in Workers, UNCHANGED <<owner, attempt>>,
             LeaveRunOnce(w, "idle") \/ LeaveRunOnce(w, "dead")
      PROVE  attempt'[claimed'[v]] = claimedAttempt'[v]
  <2>1. v # w
    BY <1>4 DEF LeaveRunOnce, IInv, TypeOK, Busy
  <2>2. pc'[v] = pc[v] /\ claimed'[v] = claimed[v] /\ claimedAttempt'[v] = claimedAttempt[v]
    BY <1>4, <2>1 DEF LeaveRunOnce, IInv, TypeOK
  <2> QED BY <1>1, <1>4, <2>2
<1>5. ASSUME NEW w \in Workers, UNCHANGED <<owner, attempt, claimed, claimedAttempt>>,
             pc[w] \in Busy \/ pc'[w] \notin Busy,
             \A o \in Workers \ {w} : pc'[o] = pc[o]
      PROVE  attempt'[claimed'[v]] = claimedAttempt'[v]
  BY <1>1, <1>5
<1>6. ASSUME NEW w \in Workers,
             \/ ClaimScan(w) \/ ClaimSelect(w)
             \/ StartClaimedJobRun(w) \/ StartClaimedJobRunError(w)
             \/ ExecuteBrowserCase(w) \/ FinishUpdate(w)
      PROVE  /\ UNCHANGED <<owner, attempt, claimed, claimedAttempt>>
             /\ pc[w] \in Busy \/ pc'[w] \notin Busy
             /\ \A o \in Workers \ {w} : pc'[o] = pc[o]
  BY <1>6 DEF ClaimScan, ClaimSelect, StartClaimedJobRun, StartClaimedJobRunError,
              ExecuteBrowserCase, FinishUpdate, jobVars, Busy, IInv, TypeOK
<1>7. CASE UNCHANGED <<owner, attempt, pc, claimed, claimedAttempt>>
  BY <1>1, <1>7
<1> QED
  BY <1>2, <1>3, <1>4, <1>5, <1>6, <1>7
     DEF Next, RunLoop, Claim, Process, CreateBatch, CancelBatch, DeleteExecution,
         RefreshSnapshot, QuarantineRefresh, ClaimNone, FinishConflict, LeaseExpire,
         TxFailed, Crash, vars, jobVars, workerVars

\* Every step keeps the inductive invariant.
LEMMA NextInv == IInv /\ [Next]_vars => IInv'
<1>1. IInv /\ [Next]_vars => TypeOK'
  BY NextType DEF IInv
<1> QED
  BY <1>1, OneWriterKept, TxShapeKept, RowShapeKept, VerdictBackedKept, ExpirySeenKept,
     SettledKept, FencedKept DEF IInv

\* The inductive invariant holds in every reachable state.
THEOREM Invariance == Spec => []IInv
BY InitInv, NextInv, PTL DEF Spec

-----------------------------------------------------------------------------
(* Safety                                                                  *)

\* No batch ever reports a terminal status while one of its jobs is pending or
\* running, for any number of consumers, jobs, batches and faults.
THEOREM TerminalMeansSettled == Spec => []TerminalBatchSettled
<1>1. IInv => TerminalBatchSettled
  BY DEF IInv
<1> QED BY <1>1, Invariance, PTL

\* The lease_owner comparison of FinishClaimedJobRun identifies the attempt.
THEOREM Fencing == Spec => []StaleWorkerFenced
<1>1. IInv => StaleWorkerFenced
  BY DEF IInv
<1> QED BY <1>1, Invariance, PTL

\* Claims, quarantines and finishes of the same job never overlap.
THEOREM SingleWriter == Spec => []OneWriterPerJob
<1>1. IInv => OneWriterPerJob
  BY DEF IInv
<1> QED BY <1>1, Invariance, PTL

\* A terminal job keeps its status and is never attempted again.
THEOREM OutcomeFinal == Spec => JobOutcomeFinal
<1>1. IInv /\ [Next]_vars
        => [\A j \in Jobs : status[j] \in Terminal
              => status'[j] = status[j] /\ attempt'[j] = attempt[j]]_vars
  BY OutcomeKept
<1> QED BY <1>1, Invariance, PTL DEF Spec, JobOutcomeFinal

\* The step form of BatchNeverReopens: a refresh or a claim touches only batches
\* with a running or pending job, and a terminal batch has none.
LEMMA BatchKept ==
    ASSUME IInv, [Next]_vars, NEW b \in Batches, batchStatus[b] \in Terminal
    PROVE  batchStatus'[b] \in {batchStatus[b], "cancelled"}
<1> USE ConstantsAssumption
<1>0. \A j \in Jobs : BatchOf[j] = b
        => status[j] # "running" /\ status[j] # "pending" /\ status[j] \notin Active
  BY DEF IInv, TerminalBatchSettled, JobsOf, Terminal, Active
<1>1. ASSUME NEW c \in Batches, CreateBatch(c)
      PROVE  batchStatus'[b] \in {batchStatus[b], "cancelled"}
  BY <1>1 DEF CreateBatch, IInv, TypeOK, Terminal
<1>2. ASSUME NEW c \in Batches, CancelBatch(c)
      PROVE  batchStatus'[b] \in {batchStatus[b], "cancelled"}
  BY <1>0, <1>2 DEF CancelBatch, JobsOf, IInv, TypeOK
<1>3. ASSUME NEW w \in Workers PROVE \A j \in wrote[w] : BatchOf[j] # b
  BY <1>0 DEF IInv, TxShape, TxShapeOf, OneWriterPerJob, TypeOK
<1>4. ASSUME NEW w \in Workers, NEW j \in Jobs, ClaimJob(w, j)
      PROVE  batchStatus'[b] \in {batchStatus[b], "cancelled"}
  <2>1. BatchOf[j] # b
    BY <1>0, <1>4, ClaimedJobActive
  <2>2. ~HoldsBatch(w, b)
    BY <1>3 DEF HoldsBatch, IInv, TxShape, TxShapeOf
  <2> QED BY <1>4, <2>1, <2>2 DEF ClaimJob, BatchView
<1>5. ASSUME NEW w \in Workers, FinishCommit(w)
      PROVE  batchStatus'[b] \in {batchStatus[b], "cancelled"}
  <2>1. refreshing[w] # b
    BY <1>3 DEF IInv, TxShape, TxShapeOf
  <2> QED BY <1>5, <2>1 DEF FinishCommit, IInv, TypeOK
<1>6. CASE UNCHANGED batchStatus
  BY <1>6
<1> QED
  BY <1>1, <1>2, <1>4, <1>5, <1>6
     DEF Next, RunLoop, Claim, Process, DeleteExecution, ClaimScan, RefreshSnapshot,
         QuarantineRefresh, ClaimSelect, ClaimNone, StartClaimedJobRun,
         StartClaimedJobRunError, ExecuteBrowserCase, FinishUpdate, FinishConflict,
         LeaseExpire, TxFailed, Crash, vars, batchVars

\* A terminal batch is never reopened by a refresh with an old snapshot or by a
\* claim that was in flight.
THEOREM BatchesStayClosed == Spec => BatchNeverReopens
<1>1. IInv /\ [Next]_vars
        => [\A b \in Batches : batchStatus[b] \in Terminal
              => batchStatus'[b] \in {batchStatus[b], "cancelled"}]_vars
  BY BatchKept
<1> QED BY <1>1, Invariance, PTL DEF Spec, BatchNeverReopens

\* Only a claim raises an attempt number or hands a job to a new owner, and it
\* takes neither a job with a live lease nor one whose cancellation was requested.
LEMMA LeaseKept ==
    ASSUME IInv, [Next]_vars, NEW j \in Jobs,
           (status[j] = "running" /\ j \notin expired) \/ j \in cancelRequested
    PROVE  owner'[j] \in {owner[j], NoOwner} /\ attempt'[j] = attempt[j]
<1>1. ASSUME NEW w \in Workers, NEW k \in Jobs, ClaimJob(w, k)
      PROVE  owner'[j] \in {owner[j], NoOwner} /\ attempt'[j] = attempt[j]
  <2>1. j # k
    BY <1>1, ClaimedJobActive
  <2> QED BY <1>1, <2>1 DEF ClaimJob, IInv, TypeOK
<1>2. ASSUME NEW w \in Workers, FinishCommit(w)
      PROVE  owner'[j] \in {owner[j], NoOwner} /\ attempt'[j] = attempt[j]
  BY <1>2 DEF FinishCommit, IInv, TypeOK
<1>3. CASE UNCHANGED <<owner, attempt>>
  BY <1>3
<1> QED
  BY <1>1, <1>2, <1>3
     DEF Next, RunLoop, Claim, Process, CreateBatch, CancelBatch, DeleteExecution,
         ClaimScan, RefreshSnapshot, QuarantineRefresh, ClaimSelect, ClaimNone,
         StartClaimedJobRun, StartClaimedJobRunError, ExecuteBrowserCase, FinishUpdate,
         FinishConflict, LeaseExpire, TxFailed, Crash, vars, jobVars

\* No consumer takes over an attempt whose lease is live.
THEOREM LeaseExclusion == Spec => LiveLeaseExclusive
<1>1. IInv /\ [Next]_vars
        => [\A j \in Jobs : status[j] = "running" /\ j \notin expired
              => owner'[j] \in {owner[j], NoOwner} /\ attempt'[j] = attempt[j]]_vars
  BY LeaseKept
<1> QED BY <1>1, Invariance, PTL DEF Spec, LiveLeaseExclusive

\* No job is attempted again after its cancellation was committed.
THEOREM CancelIsFinal == Spec => CancelStopsClaims
<1>1. IInv /\ [Next]_vars
        => [\A j \in cancelRequested : attempt'[j] = attempt[j]]_vars
  BY LeaseKept DEF IInv, TypeOK
<1> QED BY <1>1, Invariance, PTL DEF Spec, CancelStopsClaims
-----------------------------------------------------------------------------
(* Ownership while a finish is open                                        *)

\* From its UPDATE to its COMMIT a finish owns the job: the row lock keeps claims
\* and quarantines off it.
FinishOwned ==
    \A w \in Workers : pc[w] = "finishing" => owner[claimed[w]] = w

\* Preservation of FinishOwned: another consumer that writes the row would have it
\* locked as well.
LEMMA FinishOwnedKept == IInv /\ FinishOwned /\ [Next]_vars => FinishOwned'
<1> SUFFICES ASSUME IInv, FinishOwned, [Next]_vars, NEW v \in Workers,
                    pc'[v] = "finishing"
             PROVE  owner'[claimed'[v]] = v
  BY DEF FinishOwned
<1> USE ConstantsAssumption
<1>1. ASSUME pc[v] = "finishing"
      PROVE  /\ owner[claimed[v]] = v
             /\ claimed[v] \in Jobs
             /\ claimed[v] \in locked[v]
  BY <1>1 DEF FinishOwned, IInv, TypeOK, Busy, TxShape, TxShapeOf
<1>2. ASSUME NEW w \in Workers, NEW j \in Jobs, ClaimJob(w, j)
      PROVE  owner'[claimed'[v]] = v
  <2>1. w # v /\ pc[v] = "finishing" /\ claimed'[v] = claimed[v]
    BY <1>2 DEF ClaimJob, IInv, TypeOK
  <2>2. claimed[v] # j
    BY <1>1, <1>2, <2>1, ClaimedJobActive
  <2>3. claimed[v] \notin wrote[w]
    BY <1>1, <2>1 DEF IInv, TxShape, TxShapeOf, OneWriterPerJob
  <2> QED BY <1>1, <1>2, <2>1, <2>2, <2>3 DEF ClaimJob
<1>3. ASSUME NEW w \in Workers, FinishCommit(w)
      PROVE  owner'[claimed'[v]] = v
  <2>1. w # v /\ pc[v] = "finishing" /\ claimed'[v] = claimed[v]
    BY <1>3 DEF FinishCommit, LeaveRunOnce, IInv, TypeOK
  <2>2. claimed[w] \in locked[w]
    BY <1>3 DEF FinishCommit, IInv, TxShape, TxShapeOf
  <2>3. claimed[v] # claimed[w]
    BY <1>1, <2>1, <2>2 DEF IInv, OneWriterPerJob
  <2> QED BY <1>1, <1>3, <2>1, <2>3 DEF FinishCommit, IInv, TypeOK
<1>4. ASSUME NEW w \in Workers, FinishUpdate(w)
      PROVE  owner'[claimed'[v]] = v
  <2>1. UNCHANGED <<owner, claimed>>
    BY <1>4 DEF FinishUpdate, jobVars
  <2>2. CASE v = w
    BY <1>4, <2>1, <2>2 DEF FinishUpdate
  <2>3. CASE v # w
    <3>1. pc[v] = "finishing"
      BY <1>4, <2>3 DEF FinishUpdate, IInv, TypeOK
    <3> QED BY <1>1, <2>1, <3>1
  <2> QED BY <2>2, <2>3
<1>5. ASSUME NEW w \in Workers, LeaveRunOnce(w, "idle") \/ LeaveRunOnce(w, "dead"),
             UNCHANGED owner
      PROVE  owner'[claimed'[v]] = v
  <2>1. w # v /\ pc[v] = "finishing" /\ claimed'[v] = claimed[v]
    BY <1>5 DEF LeaveRunOnce, IInv, TypeOK
  <2> QED BY <1>1, <1>5, <2>1
<1>6. ASSUME UNCHANGED <<owner, claimed>>, pc'[v] = pc[v]
      PROVE  owner'[claimed'[v]] = v
  BY <1>1, <1>6
<1>7. ASSUME NEW w \in Workers,
             \/ ClaimScan(w) \/ ClaimSelect(w)
             \/ StartClaimedJobRun(w) \/ StartClaimedJobRunError(w) \/ ExecuteBrowserCase(w)
      PROVE  owner'[claimed'[v]] = v
  <2>1. UNCHANGED <<owner, claimed>>
    BY <1>7 DEF ClaimScan, ClaimSelect, StartClaimedJobRun, StartClaimedJobRunError,
                ExecuteBrowserCase, jobVars
  <2>2. pc'[v] = pc[v]
    BY <1>7 DEF ClaimScan, ClaimSelect, StartClaimedJobRun, StartClaimedJobRunError,
                ExecuteBrowserCase, IInv, TypeOK
  <2> QED BY <1>6, <2>1, <2>2
<1>8. ASSUME NEW w \in Workers, ClaimNone(w) \/ FinishConflict(w) \/ TxFailed(w) \/ Crash(w)
      PROVE  owner'[claimed'[v]] = v
  <2>1. (LeaveRunOnce(w, "idle") \/ LeaveRunOnce(w, "dead")) /\ UNCHANGED owner
    BY <1>8 DEF ClaimNone, FinishConflict, TxFailed, Crash, jobVars
  <2> QED BY <1>5, <2>1
<1>9. ASSUME UNCHANGED <<owner, workerVars>> PROVE owner'[claimed'[v]] = v
  BY <1>6, <1>9 DEF workerVars
<1> QED
  BY <1>2, <1>3, <1>4, <1>7, <1>8, <1>9
     DEF Next, RunLoop, Claim, Process, CreateBatch, CancelBatch, DeleteExecution,
         RefreshSnapshot, QuarantineRefresh, LeaseExpire, vars, jobVars

\* A finish owns its job in every reachable state.
THEOREM FinishOwnedInv == Spec => []FinishOwned
<1>1. Init => FinishOwned
  BY DEF Init, FinishOwned
<1> QED BY <1>1, FinishOwnedKept, Invariance, PTL DEF Spec

-----------------------------------------------------------------------------
(* The verdict of a batch                                                  *)

\* What a verdict says of the jobs of the batch.
Earned(s, b, seen) ==
    LET has(t) == \E j \in JobsOf(b) : seen[j] = t
    IN  /\ s = "passed" => has("passed") /\ ~has("failed") /\ ~has("needs_intervention")
        /\ s = "failed" => has("failed") /\ ~has("needs_intervention")
        /\ s = "needs_intervention" => has("needs_intervention")

\* The statuses there will be when the transaction of w commits.
Seen(w) == [j \in Jobs |-> JobView(w, j)]

\* A verdict that a transaction has computed or written is earned by the jobs as that
\* transaction leaves them.
VerdictEarned ==
    \A w \in Workers : \A b \in Batches :
        /\ refreshing[w] = b => Earned(verdict[w], b, Seen(w))
        /\ Earned(written[w][b], b, Seen(w))


\* Only the three verdicts that tell of a job say anything.
LEMMA EarnedTrivially ==
    ASSUME NEW s, NEW b, NEW seen, s \notin {"passed", "failed", "needs_intervention"}
    PROVE  Earned(s, b, seen)
BY DEF Earned

\* A verdict is earned by any rows that agree on the jobs of the batch.
LEMMA EarnedAlike ==
    ASSUME NEW s, NEW b, NEW f, NEW g, \A j \in JobsOf(b) : f[j] = g[j], Earned(s, b, f)
    PROVE  Earned(s, b, g)
BY DEF Earned

\* A step of one consumer leaves the local variables and the transaction of another.
LEMMA OthersLeft ==
    ASSUME TypeOK, NEW w \in Workers, NEW v \in Workers \ {w},
           RunLoop(w) \/ TxFailed(w) \/ Crash(w)
    PROVE  /\ pc'[v] = pc[v] /\ claimed'[v] = claimed[v]
           /\ claimedAttempt'[v] = claimedAttempt[v] /\ result'[v] = result[v]
           /\ v \in hasRun' <=> v \in hasRun
           /\ refreshing'[v] = refreshing[v] /\ verdict'[v] = verdict[v]
           /\ written'[v] = written[v] /\ wrote'[v] = wrote[v] /\ closing'[v] = closing[v]
<1>1. ASSUME LeaveRunOnce(w, "idle") \/ LeaveRunOnce(w, "dead")
      PROVE  /\ pc'[v] = pc[v] /\ claimed'[v] = claimed[v]
             /\ claimedAttempt'[v] = claimedAttempt[v] /\ result'[v] = result[v]
             /\ v \in hasRun' <=> v \in hasRun
  BY <1>1 DEF LeaveRunOnce, TypeOK
<1>2. ASSUME EndTx(w)
      PROVE  /\ refreshing'[v] = refreshing[v] /\ verdict'[v] = verdict[v]
             /\ written'[v] = written[v] /\ wrote'[v] = wrote[v]
             /\ closing'[v] = closing[v]
  BY <1>2 DEF EndTx, TypeOK
<1>3. CASE ClaimNone(w) \/ FinishCommit(w) \/ TxFailed(w) \/ Crash(w)
  BY <1>1, <1>2, <1>3 DEF ClaimNone, FinishCommit, TxFailed, Crash
<1>4. CASE FinishConflict(w)
  BY <1>1, <1>4 DEF FinishConflict, txVars
<1>5. ASSUME NEW j \in Jobs, ClaimJob(w, j)
      PROVE  /\ pc'[v] = pc[v] /\ claimed'[v] = claimed[v]
             /\ claimedAttempt'[v] = claimedAttempt[v] /\ result'[v] = result[v]
             /\ v \in hasRun' <=> v \in hasRun
             /\ refreshing'[v] = refreshing[v] /\ verdict'[v] = verdict[v]
             /\ written'[v] = written[v] /\ wrote'[v] = wrote[v]
             /\ closing'[v] = closing[v]
  BY <1>2, <1>5 DEF ClaimJob, TypeOK
<1>6. CASE ClaimScan(w) \/ ClaimSelect(w) \/ StartClaimedJobRun(w)
           \/ StartClaimedJobRunError(w) \/ ExecuteBrowserCase(w) \/ FinishUpdate(w)
  BY <1>6 DEF ClaimScan, ClaimSelect, StartClaimedJobRun, StartClaimedJobRunError,
              ExecuteBrowserCase, FinishUpdate, txVars, TypeOK
<1>7. ASSUME NEW b \in Batches, RefreshSnapshot(w, b) \/ QuarantineRefresh(w, b)
      PROVE  /\ pc'[v] = pc[v] /\ claimed'[v] = claimed[v]
             /\ claimedAttempt'[v] = claimedAttempt[v] /\ result'[v] = result[v]
             /\ v \in hasRun' <=> v \in hasRun
             /\ refreshing'[v] = refreshing[v] /\ verdict'[v] = verdict[v]
             /\ written'[v] = written[v] /\ wrote'[v] = wrote[v]
             /\ closing'[v] = closing[v]
  BY <1>7 DEF RefreshSnapshot, QuarantineRefresh, workerVars, TypeOK
<1> QED BY <1>3, <1>4, <1>5, <1>6, <1>7 DEF RunLoop, Claim, Process

\* What a transaction has judged does not move under it: the jobs it counted as
\* terminal stay so, and the others are its own.
LEMMA SeenKept ==
    ASSUME IInv, [Next]_vars, NEW w \in Workers, NEW b \in Batches,
           (refreshing[w] = b /\ verdict[w] \in Terminal) \/ written[w][b] \in Terminal,
           wrote'[w] = wrote[w], result'[w] = result[w],
           pc'[w] = "finishing" <=> pc[w] = "finishing"
    PROVE  \A j \in JobsOf(b) : Seen(w)'[j] = Seen(w)[j]
<1> SUFFICES ASSUME NEW j \in JobsOf(b)
             PROVE  JobView(w, j)' = JobView(w, j)
  BY DEF Seen, JobsOf
<1>1. j \in Jobs /\ (status[j] \in Terminal \/ j \in wrote[w])
  BY DEF JobsOf, IInv, VerdictBacked
<1>2. CASE j \in wrote[w]
  BY <1>2 DEF JobView, StatusWritten
<1>3. CASE j \notin wrote[w]
  <2>1. status'[j] = status[j]
    BY <1>1, <1>3, OutcomeKept
  <2> QED BY <1>3, <2>1 DEF JobView
<1> QED BY <1>2, <1>3

\* The ordered CASE of refreshBatchStatus earns what it returns.
LEMMA RefreshEarned ==
    ASSUME IInv, NEW w \in Workers, NEW b \in Batches, b \in todo[w]
    PROVE  Earned(RefreshedStatus(w, b), b, Seen(w))
<1> USE ConstantsAssumption
<1>1. \A j \in JobsOf(b) : j \in Jobs /\ Seen(w)[j] = JobView(w, j)
  BY DEF JobsOf, Seen
<1>2. \A j \in JobsOf(b) : status[j] # "absent"
  BY DEF JobsOf, IInv, TxShape, TxShapeOf, OneWriterPerJob, RowShape, TypeOK
<1>3. \A j \in JobsOf(b) : JobView(w, j) \in Status
  BY <1>1, <1>2 DEF JobView, StatusWritten, IInv, TypeOK, Status, Terminal
<1>4. \A j \in JobsOf(b) : JobView(w, j) \in
        {"pending", "running", "passed", "failed", "needs_intervention", "cancelled"}
  BY <1>3 DEF Status, Active, Terminal
<1> DEFINE seen == Seen(w)
<1>5. \A j \in JobsOf(b) : JobView(w, j) = seen[j] /\ seen[j] \in
        {"pending", "running", "passed", "failed", "needs_intervention", "cancelled"}
  BY <1>1, <1>4
<1> HIDE DEF seen
<1> SUFFICES Earned(RefreshedStatus(w, b), b, seen)
  BY DEF seen
<1>6. RefreshedStatus(w, b) = "passed" =>
        /\ \E j \in JobsOf(b) : seen[j] = "passed"
        /\ \A j \in JobsOf(b) : seen[j] # "failed" /\ seen[j] # "needs_intervention"
  BY <1>5 DEF RefreshedStatus
<1>7. RefreshedStatus(w, b) = "failed" =>
        /\ \E j \in JobsOf(b) : seen[j] = "failed"
        /\ \A j \in JobsOf(b) : seen[j] # "needs_intervention"
  BY <1>5 DEF RefreshedStatus
<1>8. RefreshedStatus(w, b) = "needs_intervention" =>
        \E j \in JobsOf(b) : seen[j] = "needs_intervention"
  BY <1>5 DEF RefreshedStatus
<1> QED BY <1>6, <1>7, <1>8 DEF Earned

\* Preservation of VerdictEarned: one step per way a verdict is computed or dropped.
LEMMA VerdictEarnedKept == IInv /\ VerdictEarned /\ [Next]_vars => VerdictEarned'
<1> SUFFICES ASSUME IInv, VerdictEarned, [Next]_vars, NEW v \in Workers, NEW b \in Batches
             PROVE  /\ refreshing'[v] = b => Earned(verdict'[v], b, Seen(v)')
                    /\ Earned(written'[v][b], b, Seen(v)')
  BY DEF VerdictEarned, Earned, JobsOf
<1> USE ConstantsAssumption
<1> DEFINE Goal == /\ refreshing'[v] = b => Earned(verdict'[v], b, Seen(v)')
                   /\ Earned(written'[v][b], b, Seen(v)')
<1>1. ASSUME refreshing'[v] = refreshing[v], verdict'[v] = verdict[v],
             written'[v] = written[v], wrote'[v] = wrote[v], result'[v] = result[v],
             pc'[v] = "finishing" <=> pc[v] = "finishing"
      PROVE  Goal
  <2>1. ASSUME refreshing[v] = b PROVE Earned(verdict[v], b, Seen(v)')
    <3>1. CASE verdict[v] \in Terminal
      <4>1. Earned(verdict[v], b, Seen(v)) /\ \A j \in JobsOf(b) : Seen(v)'[j] = Seen(v)[j]
        BY <1>1, <2>1, <3>1, SeenKept DEF VerdictEarned
      <4> QED BY <4>1, EarnedAlike
    <3>2. CASE verdict[v] \notin Terminal
      BY <3>2, EarnedTrivially DEF Terminal
    <3> QED BY <3>1, <3>2
  <2>2. Earned(written[v][b], b, Seen(v)')
    <3>1. CASE written[v][b] \in Terminal
      <4>1. Earned(written[v][b], b, Seen(v)) /\ \A j \in JobsOf(b) : Seen(v)'[j] = Seen(v)[j]
        BY <1>1, <3>1, SeenKept DEF VerdictEarned
      <4> QED BY <4>1, EarnedAlike
    <3>2. CASE written[v][b] \notin Terminal
      BY <3>2, EarnedTrivially DEF Terminal
    <3> QED BY <3>1, <3>2
  <2> QED BY <1>1, <2>1, <2>2
<1>2. ASSUME refreshing'[v] = NoBatch, written'[v][b] = "absent" PROVE Goal
  <2>1. Earned(written'[v][b], b, Seen(v)')
    BY <1>2, EarnedTrivially
  <2> QED BY <1>2, <2>1 DEF NoBatch
<1>3. ASSUME Ending(v) PROVE Goal
  BY <1>2, <1>3, EndingEffect, EndTxEffect DEF IInv
<1>4. ASSUME pc[v] \notin InTx, UNCHANGED <<refreshing, written>> PROVE Goal
  BY <1>2, <1>4 DEF IInv, TxShape, TxShapeOf
<1>5. CASE ClaimScan(v) \/ StartClaimedJobRunError(v) \/ ExecuteBrowserCase(v) \/ FinishUpdate(v)
  <2>1. pc[v] \notin InTx /\ UNCHANGED <<refreshing, written>>
    BY <1>5 DEF ClaimScan, StartClaimedJobRunError, ExecuteBrowserCase, FinishUpdate, InTx,
                txVars
  <2> QED BY <1>4, <2>1
<1>6. CASE ClaimSelect(v) \/ StartClaimedJobRun(v)
  BY <1>1, <1>6 DEF ClaimSelect, StartClaimedJobRun, txVars, IInv, TypeOK
<1>7. CASE FinishConflict(v)
  <2>1. pc[v] \notin InTx /\ UNCHANGED <<refreshing, written>>
    BY <1>7 DEF FinishConflict, InTx, txVars
  <2> QED BY <1>4, <2>1
<1>8. ASSUME NEW c \in Batches, RefreshSnapshot(v, c) PROVE Goal
  <2>1. /\ c \in todo[v] /\ refreshing'[v] = c /\ verdict'[v] = RefreshedStatus(v, c)
        /\ UNCHANGED <<status, wrote, result, pc, written>>
    BY <1>8 DEF RefreshSnapshot, jobVars, workerVars, IInv, TypeOK
  <2>2. Seen(v)' = Seen(v)
    BY <2>1 DEF Seen, JobView, StatusWritten
  <2>3. Earned(RefreshedStatus(v, c), c, Seen(v))
    BY <2>1, RefreshEarned
  <2>4. Earned(written[v][b], b, Seen(v))
    BY DEF VerdictEarned
  <2> QED BY <2>1, <2>2, <2>3, <2>4
<1>9. ASSUME NEW c \in Batches, QuarantineRefresh(v, c) PROVE Goal
  <2>1. /\ refreshing[v] = c /\ refreshing'[v] = NoBatch
        /\ written'[v][b] = IF b = c THEN verdict[v] ELSE written[v][b]
        /\ UNCHANGED <<status, wrote, result, pc>>
    BY <1>9 DEF QuarantineRefresh, jobVars, workerVars, IInv, TypeOK
  <2>2. Seen(v)' = Seen(v)
    BY <2>1 DEF Seen, JobView, StatusWritten
  <2>3. Earned(written[v][b], b, Seen(v)) /\ (b = c => Earned(verdict[v], b, Seen(v)))
    BY <2>1 DEF VerdictEarned
  <2> QED BY <2>1, <2>2, <2>3 DEF NoBatch
<1>10. ASSUME NEW w \in Workers \ {v}, RunLoop(w) \/ TxFailed(w) \/ Crash(w) PROVE Goal
  BY <1>1, <1>10, OthersLeft DEF IInv
<1>11. CASE UNCHANGED <<workerVars, txVars>>
  BY <1>1, <1>11 DEF workerVars, txVars
<1> QED
  BY <1>3, <1>5, <1>6, <1>7, <1>8, <1>9, <1>10, <1>11
     DEF Next, RunLoop, Claim, Process, Ending, CreateBatch, CancelBatch, DeleteExecution,
         LeaseExpire, vars

\* Preservation of BatchVerdictSound: the committed verdict is the one the transaction
\* computed, over the rows it commits.
LEMMA SoundKept == IInv /\ VerdictEarned /\ BatchVerdictSound /\ [Next]_vars => BatchVerdictSound'
<1> SUFFICES ASSUME IInv, VerdictEarned, BatchVerdictSound, [Next]_vars, NEW b \in Batches
             PROVE  Earned(batchStatus'[b], b, status')
  BY DEF BatchVerdictSound, Earned, JobsOf
<1> USE ConstantsAssumption
<1>1. ASSUME batchStatus'[b] = batchStatus[b] PROVE Earned(batchStatus'[b], b, status')
  <2>1. CASE batchStatus[b] \in Terminal
    <3>1. \A j \in JobsOf(b) : status'[j] = status[j]
      BY <2>1, OutcomeKept DEF IInv, TerminalBatchSettled, JobsOf
    <3>2. Earned(batchStatus[b], b, status)
      BY DEF BatchVerdictSound, Earned
    <3> QED BY <1>1, <3>1, <3>2, EarnedAlike
  <2>2. CASE batchStatus[b] \notin Terminal
    BY <1>1, <2>2, EarnedTrivially DEF Terminal
  <2> QED BY <2>1, <2>2
<1>2. ASSUME batchStatus'[b] \in {"pending", "running", "cancelled"}
      PROVE  Earned(batchStatus'[b], b, status')
  BY <1>2, EarnedTrivially
<1>3. ASSUME NEW c \in Batches, CreateBatch(c) \/ CancelBatch(c)
      PROVE  Earned(batchStatus'[b], b, status')
  <2>1. \/ batchStatus'[b] = batchStatus[b]
        \/ batchStatus'[b] \in {"pending", "running", "cancelled"}
    BY <1>3 DEF CreateBatch, CancelBatch, IInv, TypeOK
  <2> QED BY <1>1, <1>2, <2>1
<1>4. ASSUME NEW w \in Workers, NEW k \in Jobs, ClaimJob(w, k)
      PROVE  Earned(batchStatus'[b], b, status')
  <2>1. CASE b = BatchOf[k]
    BY <1>2, <1>4, <2>1 DEF ClaimJob
  <2>2. CASE b # BatchOf[k] /\ written[w][b] = "absent"
    BY <1>1, <1>4, <2>2 DEF ClaimJob, BatchView, HoldsBatch
  <2>3. CASE b # BatchOf[k] /\ written[w][b] # "absent"
    <3>1. batchStatus'[b] = written[w][b] /\ Earned(written[w][b], b, Seen(w))
      BY <1>4, <2>3 DEF ClaimJob, BatchView, HoldsBatch, VerdictEarned
    <3>2. \A j \in JobsOf(b) : status'[j] = Seen(w)[j]
      BY <1>4, <2>3 DEF ClaimJob, Seen, JobView, StatusWritten, JobsOf
    <3> QED BY <3>1, <3>2, EarnedAlike
  <2> QED BY <2>1, <2>2, <2>3
<1>5. ASSUME NEW w \in Workers, FinishCommit(w)
      PROVE  Earned(batchStatus'[b], b, status')
  <2>1. /\ pc[w] = "finishing" /\ wrote[w] = {claimed[w]} /\ claimed[w] \in Jobs
        /\ status' = [status EXCEPT ![claimed[w]] = result[w]]
        /\ batchStatus' = [batchStatus EXCEPT ![refreshing[w]] = verdict[w]]
    BY <1>5 DEF FinishCommit, IInv, TxShape, TxShapeOf, TypeOK, Busy
  <2>2. CASE b = refreshing[w]
    <3>1. batchStatus'[b] = verdict[w] /\ Earned(verdict[w], b, Seen(w))
      BY <2>1, <2>2 DEF VerdictEarned, IInv, TypeOK
    <3>2. \A j \in JobsOf(b) : status'[j] = Seen(w)[j]
      BY <2>1 DEF Seen, JobView, StatusWritten, JobsOf, IInv, TypeOK
    <3> QED BY <3>1, <3>2, EarnedAlike
  <2>3. CASE b # refreshing[w]
    BY <1>1, <2>1, <2>3 DEF IInv, TypeOK
  <2> QED BY <2>2, <2>3
<1>6. CASE UNCHANGED batchStatus
  BY <1>1, <1>6
<1> QED
  BY <1>3, <1>4, <1>5, <1>6
     DEF Next, RunLoop, Claim, Process, DeleteExecution, ClaimScan, RefreshSnapshot,
         QuarantineRefresh, ClaimSelect, ClaimNone, StartClaimedJobRun,
         StartClaimedJobRunError, ExecuteBrowserCase, FinishUpdate, FinishConflict,
         LeaseExpire, TxFailed, Crash, vars, batchVars

\* A terminal status of a batch is the one its jobs earned, whatever the order in which
\* claims, quarantines, finishes and cancellations computed and wrote it.
THEOREM VerdictSound == Spec => []BatchVerdictSound
<1>1. Init => VerdictEarned /\ BatchVerdictSound
  <2> SUFFICES ASSUME Init PROVE VerdictEarned /\ BatchVerdictSound OBVIOUS
  <2>1. \A w \in Workers : \A b \in Batches :
          refreshing[w] # b /\ written[w][b] = "absent" /\ batchStatus[b] = "absent"
    BY ConstantsAssumption DEF Init, NoBatch
  <2>2. VerdictEarned
    BY <2>1, EarnedTrivially DEF VerdictEarned
  <2>3. BatchVerdictSound
    BY DEF Init, BatchVerdictSound
  <2> QED BY <2>2, <2>3
<1>2. IInv /\ VerdictEarned /\ BatchVerdictSound /\ [Next]_vars
        => (VerdictEarned /\ BatchVerdictSound)'
  BY VerdictEarnedKept, SoundKept
<1> QED BY <1>1, <1>2, Invariance, PTL DEF Spec

-----------------------------------------------------------------------------
(* Jobs and runs                                                           *)

\* A job waits with no attempt behind it, and no run is of an attempt to come.
RunShape ==
    \A j \in Jobs :
        /\ status[j] \in {"absent", "pending"} => attempt[j] = 0
        /\ \A a \in Attempts : a > attempt[j] => run[j][a] = "absent"

\* A quarantine closes runs of attempts that were made, and nobody deletes them.
ClosingShape ==
    \A w \in Workers : \A j \in Jobs, a \in Attempts :
        <<j, a>> \in closing[w] => /\ j \in wrote[w] /\ a <= attempt[j]
                                   /\ run[j][a] # "absent"

\* An attempt has one consumer: it still owns the job, or an operator has it, or the
\* job was claimed again.
AttemptHeldBy(w) ==
    LET j == claimed[w]  a == claimedAttempt[w]
    IN  pc[w] \in Busy =>
          /\ a <= attempt[j]
          /\ a = attempt[j] => owner[j] = w \/ status[j] = "needs_intervention"
          /\ w \notin hasRun => run[j][a] = "absent"
          /\ \A o \in Workers \ {w} :
               pc[o] \in Busy /\ claimed[o] = j => claimedAttempt[o] # a

AttemptHeld == \A w \in Workers : AttemptHeldBy(w)

\* A job with a result was attempted.
SettledTried == \A j \in Jobs : status[j] \in {"passed", "failed"} => attempt[j] # 0

RunsInv == RunShape /\ ClosingShape /\ SettledTried /\ AttemptHeld /\ RunsAgreeWithJobs

\* A run that is running or was not inserted; what a job in progress has.
RunOpen(j) == \A a \in Attempts : run[j][a] \in {"absent", "running"}

\* A waiting job has been attempted never, so it has no run.
LEMMA WaitingHasNoRun ==
    ASSUME IInv, RunShape, NEW j \in Jobs, status[j] \in {"absent", "pending"}
    PROVE  attempt[j] = 0 /\ \A a \in Attempts : run[j][a] = "absent"
<1>1. attempt[j] = 0 /\ \A a \in Attempts : a > 0
  BY ConstantsAssumption DEF RunShape, Attempts
<1> QED BY <1>1 DEF RunShape

\* What a finish writes to the runs.
LEMMA FinishedRunEffect ==
    ASSUME TypeOK, NEW w \in Workers, NEW j \in Jobs, NEW a \in Attempts,
           NEW k \in Jobs, NEW b \in Attempts
    PROVE  FinishedRun(w, j, a)[k][b] =
             IF k = j /\ b = a /\ w \in hasRun /\ run[j][a] # "absent"
             THEN result[w] ELSE run[k][b]
BY DEF FinishedRun, TypeOK

\* A consumer that finishes owns its job, which is at its attempt.
LEMMA FinishFits ==
    ASSUME IInv, FinishOwned, NEW w \in Workers, FinishCommit(w)
    PROVE  /\ claimed[w] \in Jobs /\ claimedAttempt[w] = attempt[claimed[w]]
           /\ claimedAttempt[w] \in Attempts
           /\ status[claimed[w]] = "running" /\ owner[claimed[w]] = w
           /\ wrote[w] = {claimed[w]}
           /\ status' = [status EXCEPT ![claimed[w]] = result[w]]
           /\ owner' = [owner EXCEPT ![claimed[w]] = NoOwner]
           /\ \A k \in Jobs, b \in Attempts : run'[k][b] =
                IF k = claimed[w] /\ b = claimedAttempt[w] /\ w \in hasRun /\ run[k][b] # "absent"
                THEN result[w] ELSE run[k][b]
           /\ UNCHANGED attempt /\ pc'[w] = "idle"
<1>1. /\ pc[w] = "finishing" /\ pc'[w] = "idle" /\ UNCHANGED attempt
      /\ status' = [status EXCEPT ![claimed[w]] = result[w]]
      /\ owner' = [owner EXCEPT ![claimed[w]] = NoOwner]
      /\ run' = FinishedRun(w, claimed[w], claimedAttempt[w])
  BY DEF FinishCommit, LeaveRunOnce, IInv, TypeOK
<1>2. /\ claimed[w] \in Jobs /\ claimedAttempt[w] \in Attempts /\ owner[claimed[w]] = w
      /\ claimedAttempt[w] = attempt[claimed[w]] /\ wrote[w] = {claimed[w]}
  BY <1>1 DEF IInv, TypeOK, Busy, FinishOwned, StaleWorkerFenced, TxShape, TxShapeOf
<1>3. status[claimed[w]] = "running"
  BY <1>2, ConstantsAssumption DEF IInv, RowShape
<1>4. \A k \in Jobs, b \in Attempts : run'[k][b] =
        IF k = claimed[w] /\ b = claimedAttempt[w] /\ w \in hasRun /\ run[k][b] # "absent"
        THEN result[w] ELSE run[k][b]
  <2>1. TypeOK
    BY DEF IInv
  <2> QED BY <1>1, <1>2, <2>1, FinishedRunEffect
<1> QED BY <1>1, <1>2, <1>3, <1>4

\* A started run is one of the attempt that the consumer was given.
LEMMA StartFits ==
    ASSUME IInv, NEW w \in Workers, StartClaimedJobRun(w)
    PROVE  /\ claimed[w] \in Jobs /\ claimedAttempt[w] \in Attempts /\ pc[w] \in Busy
           /\ \A k \in Jobs, b \in Attempts : run'[k][b] =
                IF k = claimed[w] /\ b = claimedAttempt[w] THEN "running" ELSE run[k][b]
           /\ UNCHANGED <<status, attempt, owner>>
<1>1. pc[w] = "claimed" /\ run' = [run EXCEPT ![claimed[w]][claimedAttempt[w]] = "running"]
      /\ UNCHANGED <<status, attempt, owner>>
  BY DEF StartClaimedJobRun, jobVars
<1>2. claimed[w] \in Jobs /\ claimedAttempt[w] \in Attempts /\ pc[w] \in Busy
  BY <1>1 DEF IInv, TypeOK, Busy
<1> QED BY <1>1, <1>2 DEF IInv, TypeOK

\* What a claim does to the jobs and the runs.
LEMMA ClaimFits ==
    ASSUME IInv, NEW w \in Workers, NEW j \in Jobs, ClaimJob(w, j)
    PROVE  /\ status[j] \in Active /\ status'[j] = "running"
           /\ attempt'[j] = attempt[j] + 1 /\ attempt[j] < MaxAttempts
           /\ owner'[j] = w
           /\ \A k \in Jobs \ {j} :
                /\ attempt'[k] = attempt[k]
                /\ k \in wrote[w] => status[k] = "running" /\ status'[k] = "needs_intervention"
                /\ k \notin wrote[w] => status'[k] = status[k] /\ owner'[k] = owner[k]
           /\ j \notin wrote[w]
           /\ \A k \in Jobs, a \in Attempts : run'[k][a] =
                IF <<k, a>> \in closing[w] THEN "needs_intervention" ELSE run[k][a]
           /\ pc[w] = "locking" /\ pc'[w] = "claimed" /\ claimed'[w] = j
           /\ claimedAttempt'[w] = attempt[j] + 1 /\ UNCHANGED hasRun
           /\ \A v \in Workers \ {w} : pc'[v] = pc[v] /\ claimed'[v] = claimed[v]
                                       /\ claimedAttempt'[v] = claimedAttempt[v]
<1>1. status[j] \in Active /\ j \notin wrote[w]
  BY ClaimedJobActive
<1>2. attempt[j] < MaxAttempts /\ pc[w] = "locking"
  BY DEF ClaimJob, Lockable, Claimable
<1>3. \A k \in wrote[w] : status[k] = "running"
  BY DEF IInv, TxShape, TxShapeOf, OneWriterPerJob
<1>4. /\ attempt'[j] = attempt[j] + 1 /\ \A k \in Jobs \ {j} : attempt'[k] = attempt[k]
      /\ pc'[w] = "claimed" /\ claimed'[w] = j /\ claimedAttempt'[w] = attempt[j] + 1
      /\ UNCHANGED hasRun
      /\ \A v \in Workers \ {w} : pc'[v] = pc[v] /\ claimed'[v] = claimed[v]
                                  /\ claimedAttempt'[v] = claimedAttempt[v]
  BY DEF ClaimJob, IInv, TypeOK
<1>5. /\ status'[j] = "running" /\ owner'[j] = w
      /\ \A k \in Jobs \ {j} :
           /\ k \in wrote[w] => status'[k] = "needs_intervention"
           /\ k \notin wrote[w] => status'[k] = status[k] /\ owner'[k] = owner[k]
  BY DEF ClaimJob, LeaseFor
<1>6. \A k \in Jobs, a \in Attempts : run'[k][a] =
        IF <<k, a>> \in closing[w] THEN "needs_intervention" ELSE run[k][a]
  BY DEF ClaimJob
<1> QED BY <1>1, <1>2, <1>3, <1>4, <1>5, <1>6

\* The run rows, one by one, after a claim, a start and a finish.
LEMMA ClaimRuns ==
    ASSUME IInv, NEW w \in Workers, NEW j \in Jobs, ClaimJob(w, j),
           NEW k \in Jobs, NEW a \in Attempts
    PROVE  run'[k][a] = IF <<k, a>> \in closing[w] THEN "needs_intervention" ELSE run[k][a]
BY DEF ClaimJob

\* The same after a start: the new row, or the reserved one that is reused.
LEMMA StartRuns ==
    ASSUME IInv, NEW w \in Workers, StartClaimedJobRun(w), NEW k \in Jobs, NEW a \in Attempts
    PROVE  run'[k][a] =
             IF k = claimed[w] /\ a = claimedAttempt[w] THEN "running" ELSE run[k][a]
BY StartFits

\* The same after a finish: the row of the attempt takes the result.
LEMMA FinishRuns ==
    ASSUME IInv, FinishOwned, NEW w \in Workers, FinishCommit(w), NEW k \in Jobs,
           NEW a \in Attempts
    PROVE  run'[k][a] =
             IF k = claimed[w] /\ a = claimedAttempt[w] /\ w \in hasRun /\ run[k][a] # "absent"
             THEN result[w] ELSE run[k][a]
BY FinishFits

\* An attempt counter never goes back.
LEMMA AttemptGrows ==
    ASSUME IInv, [Next]_vars, NEW j \in Jobs
    PROVE  attempt'[j] >= attempt[j] /\ attempt[j] \in Nat /\ attempt'[j] \in Nat
<1>1. attempt[j] \in Nat
  BY ConstantsAssumption DEF IInv, TypeOK
<1>2. ASSUME NEW w \in Workers, NEW k \in Jobs, ClaimJob(w, k)
      PROVE  attempt'[j] = attempt[j] \/ attempt'[j] = attempt[j] + 1
  BY <1>2, ClaimFits
<1>3. ASSUME NEW w \in Workers, Process(w) PROVE UNCHANGED attempt
  BY <1>3 DEF Process, StartClaimedJobRun, StartClaimedJobRunError, ExecuteBrowserCase,
         FinishUpdate, FinishConflict, FinishCommit, jobVars
<1>4. ASSUME NEW w \in Workers, Claim(w)
      PROVE  UNCHANGED attempt \/ \E k \in Jobs : ClaimJob(w, k)
  BY <1>4 DEF Claim, ClaimScan, RefreshSnapshot, QuarantineRefresh, ClaimSelect, ClaimNone,
         jobVars
<1>5. UNCHANGED attempt \/ \E w \in Workers : Process(w) \/ Claim(w)
  BY DEF Next, RunLoop, CreateBatch, CancelBatch, DeleteExecution, LeaseExpire, TxFailed,
         Crash, vars, jobVars
<1> QED BY <1>1, <1>2, <1>3, <1>4, <1>5

\* Preservation of RunShape.
LEMMA RunShapeKept ==
    IInv /\ FinishOwned /\ RunsInv /\ [Next]_vars => RunShape'
<1> SUFFICES ASSUME IInv, FinishOwned, RunsInv, [Next]_vars PROVE RunShape' OBVIOUS
<1> USE ConstantsAssumption
<1>0. RunShape /\ ClosingShape /\ AttemptHeld
  BY DEF RunsInv
<1>1. ASSUME \A j \in Jobs : /\ status'[j] \in {"absent", "pending"}
                                    => status[j] \in {"absent", "pending"}
                             /\ attempt'[j] = attempt[j]
                             /\ \A a \in Attempts : run'[j][a] \in {run[j][a], "absent"}
      PROVE  RunShape'
  BY <1>0, <1>1 DEF RunShape
<1>2. ASSUME NEW b \in Batches, CreateBatch(b) PROVE RunShape'
  <2>1. \A j \in Jobs : status'[j] \in {"absent", "pending"} => status[j] \in {"absent", "pending"}
    BY <1>2 DEF CreateBatch, IInv, RowShape
  <2> QED BY <1>1, <1>2, <2>1 DEF CreateBatch
<1>3. ASSUME NEW b \in Batches, CancelBatch(b) PROVE RunShape'
  <2>1. \A j \in Jobs : status'[j] \in {"absent", "pending"} => status[j] \in {"absent", "pending"}
    BY <1>3 DEF CancelBatch
  <2> QED BY <1>1, <1>3, <2>1 DEF CancelBatch
<1>4. ASSUME NEW k \in Jobs, NEW b \in Attempts, DeleteExecution(k, b) PROVE RunShape'
  BY <1>1, <1>4 DEF DeleteExecution, jobVars, IInv, TypeOK
<1>5. ASSUME NEW w \in Workers, NEW k \in Jobs, ClaimJob(w, k) PROVE RunShape'
  <2> SUFFICES ASSUME NEW j \in Jobs
               PROVE  /\ status'[j] \in {"absent", "pending"} => attempt'[j] = 0
                      /\ \A a \in Attempts : a > attempt'[j] => run'[j][a] = "absent"
    BY DEF RunShape
  <2>1. attempt[j] \in Nat /\ attempt[k] \in Nat /\ Attempts \subseteq Nat
    BY DEF IInv, TypeOK, Attempts
  <2>2. attempt'[j] >= attempt[j]
    BY <1>5, <2>1, ClaimFits
  <2>3. status'[j] \in {"absent", "pending"} => attempt'[j] = 0
    <3>1. CASE j = k
      BY <1>5, <3>1, ClaimFits
    <3>2. CASE j # k
      BY <1>0, <1>5, <3>2, ClaimFits DEF RunShape
    <3> QED BY <3>1, <3>2
  <2>4. ASSUME NEW a \in Attempts, a > attempt'[j] PROVE run'[j][a] = "absent"
    <3>1. a > attempt[j]
      BY <2>1, <2>2, <2>4, <1>5, ClaimFits
    <3>2. <<j, a>> \notin closing[w]
      <4>1. a \in Nat /\ (<<j, a>> \in closing[w] => a <= attempt[j])
        BY <1>0, <2>1 DEF ClosingShape
      <4> QED BY <2>1, <3>1, <4>1
    <3> QED BY <1>0, <1>5, <3>1, <3>2, ClaimFits DEF RunShape
  <2> QED BY <2>3, <2>4
<1>6. ASSUME NEW w \in Workers, StartClaimedJobRun(w) PROVE RunShape'
  <2>1. /\ claimedAttempt[w] <= attempt[claimed[w]]
        /\ attempt[claimed[w]] \in Nat /\ claimedAttempt[w] \in Nat
    <3>1. claimed[w] \in Jobs /\ claimedAttempt[w] \in Attempts /\ pc[w] \in Busy
      BY <1>6, StartFits
    <3>2. claimedAttempt[w] <= attempt[claimed[w]]
      BY <1>0, <3>1 DEF AttemptHeld, AttemptHeldBy
    <3>3. attempt[claimed[w]] \in Nat
      BY <3>1, AttemptGrows
    <3>4. Attempts \subseteq Nat
      BY DEF Attempts
    <3> QED BY <3>1, <3>2, <3>3, <3>4
  <2> SUFFICES ASSUME NEW j \in Jobs
               PROVE  \A a \in Attempts : a > attempt[j] => run'[j][a] = "absent"
    BY <1>0, <1>6, StartFits DEF RunShape
  <2> QED BY <1>0, <1>6, <2>1, StartFits DEF RunShape
<1>7. ASSUME NEW w \in Workers, FinishCommit(w) PROVE RunShape'
  <2> SUFFICES ASSUME NEW j \in Jobs
               PROVE  /\ status'[j] \in {"absent", "pending"} => attempt[j] = 0
                      /\ \A a \in Attempts : a > attempt[j] => run'[j][a] = "absent"
    BY <1>7, FinishFits DEF RunShape
  <2>1. status'[j] \in {"absent", "pending"} => status[j] \in {"absent", "pending"}
    <3>1. result[w] \notin {"absent", "pending"} /\ status \in [Jobs -> Status \cup {"absent"}]
      BY DEF IInv, TypeOK, Terminal
    <3>2. status' = [status EXCEPT ![claimed[w]] = result[w]] /\ claimed[w] \in Jobs
      BY <1>7, FinishFits
    <3> QED BY <3>1, <3>2
  <2>2. ASSUME NEW a \in Attempts, run[j][a] = "absent" PROVE run'[j][a] = "absent"
    BY <1>7, <2>2, FinishFits
  <2> QED BY <1>0, <2>1, <2>2 DEF RunShape
<1>8. CASE UNCHANGED <<status, attempt, run>>
  BY <1>0, <1>8 DEF RunShape
<1> QED
  BY <1>2, <1>3, <1>4, <1>5, <1>6, <1>7, <1>8
     DEF Next, RunLoop, Claim, Process, ClaimScan, RefreshSnapshot, QuarantineRefresh,
         ClaimSelect, ClaimNone, StartClaimedJobRunError, ExecuteBrowserCase, FinishUpdate,
         FinishConflict, LeaseExpire, TxFailed, Crash, vars, jobVars

\* A run row goes only when it is deleted, which waits for the transaction that wrote
\* its job.
LEMMA RunsDeleted ==
    ASSUME IInv, FinishOwned, [Next]_vars, NEW j \in Jobs, NEW a \in Attempts,
           run'[j][a] = "absent"
    PROVE  run[j][a] = "absent" \/ \A w \in Workers : j \notin wrote[w]
<1>1. ASSUME NEW k \in Jobs, NEW b \in Attempts, DeleteExecution(k, b)
      PROVE  run[j][a] = "absent" \/ \A w \in Workers : j \notin wrote[w]
  BY <1>1 DEF DeleteExecution, IInv, TypeOK
<1>2. ASSUME NEW w \in Workers, NEW k \in Jobs, ClaimJob(w, k) PROVE run[j][a] = "absent"
  BY <1>2, ClaimRuns
<1>3. ASSUME NEW w \in Workers, StartClaimedJobRun(w) PROVE run[j][a] = "absent"
  BY <1>3, StartRuns
<1>4. ASSUME NEW w \in Workers, FinishCommit(w) PROVE run[j][a] = "absent"
  <2>1. result[w] # "absent"
    BY DEF IInv, TypeOK, Terminal
  <2> QED BY <1>4, <2>1, FinishRuns
<1>5. CASE UNCHANGED run
  BY <1>5
<1> QED
  BY <1>1, <1>2, <1>3, <1>4, <1>5
     DEF Next, RunLoop, Claim, Process, CreateBatch, CancelBatch, ClaimScan, RefreshSnapshot,
         QuarantineRefresh, ClaimSelect, ClaimNone, StartClaimedJobRunError,
         ExecuteBrowserCase, FinishUpdate, FinishConflict, LeaseExpire, TxFailed, Crash, vars

\* Preservation of ClosingShape.
LEMMA ClosingKept == IInv /\ FinishOwned /\ RunsInv /\ [Next]_vars => ClosingShape'
<1> SUFFICES ASSUME IInv, FinishOwned, RunsInv, [Next]_vars, NEW v \in Workers, NEW j \in Jobs,
                    NEW a \in Attempts, <<j, a>> \in closing'[v]
             PROVE  j \in wrote'[v] /\ a <= attempt'[j] /\ run'[j][a] # "absent"
  BY DEF ClosingShape
<1> USE ConstantsAssumption
<1>0. a \in Nat /\ attempt'[j] >= attempt[j] /\ attempt[j] \in Nat /\ attempt'[j] \in Nat
  BY AttemptGrows DEF Attempts
<1>1. ASSUME closing'[v] = closing[v], wrote'[v] = wrote[v]
      PROVE  j \in wrote'[v] /\ a <= attempt'[j] /\ run'[j][a] # "absent"
  <2>1. j \in wrote[v] /\ a <= attempt[j] /\ run[j][a] # "absent"
    BY <1>1 DEF RunsInv, ClosingShape
  <2> QED BY <1>0, <1>1, <2>1, RunsDeleted
<1>2. ASSUME Ending(v) PROVE FALSE
  BY <1>2, EndingEffect DEF EndTx, IInv, TypeOK
<1>3. ASSUME ClaimScan(v) PROVE j \in wrote'[v] /\ a <= attempt'[j] /\ run'[j][a] # "absent"
  <2>1. j \in wrote'[v] /\ run[j][a] = "running" /\ attempt' = attempt /\ run' = run
    BY <1>3 DEF ClaimScan, jobVars, IInv, TypeOK
  <2> QED BY <1>0, <2>1 DEF RunsInv, RunShape
<1>4. ASSUME FinishUpdate(v) PROVE j \in wrote'[v] /\ a <= attempt'[j] /\ run'[j][a] # "absent"
  <2>1. closing'[v] = closing[v] /\ pc[v] \notin InTx /\ wrote[v] = {}
    BY <1>4 DEF FinishUpdate, InTx, IInv, TxShape, TxShapeOf
  <2> QED BY <2>1 DEF RunsInv, ClosingShape
<1>5. ASSUME NEW w \in Workers \ {v}, RunLoop(w) \/ TxFailed(w) \/ Crash(w)
      PROVE  j \in wrote'[v] /\ a <= attempt'[j] /\ run'[j][a] # "absent"
  BY <1>1, <1>5, OthersLeft DEF IInv
<1>6. CASE UNCHANGED <<closing, wrote>>
  BY <1>1, <1>6
<1>7. ASSUME RunLoop(v) \/ TxFailed(v) \/ Crash(v)
      PROVE  Ending(v) \/ ClaimScan(v) \/ FinishUpdate(v) \/ UNCHANGED <<closing, wrote>>
  BY <1>7 DEF RunLoop, Claim, Process, Ending, RefreshSnapshot, QuarantineRefresh,
       ClaimSelect, StartClaimedJobRun, StartClaimedJobRunError, ExecuteBrowserCase,
       FinishConflict, txVars
<1>8. \/ \E w \in Workers : RunLoop(w) \/ TxFailed(w) \/ Crash(w)
      \/ UNCHANGED <<closing, wrote>>
  BY DEF Next, CreateBatch, CancelBatch, DeleteExecution, LeaseExpire, vars, txVars
<1> QED BY <1>2, <1>3, <1>4, <1>5, <1>6, <1>7, <1>8

\* Preservation of AttemptHeld: an attempt number is handed out once, and only its
\* consumer starts and finishes its run.
LEMMA HeldKept == IInv /\ FinishOwned /\ RunsInv /\ [Next]_vars => AttemptHeld'
<1> SUFFICES ASSUME IInv, FinishOwned, RunsInv, [Next]_vars, NEW v \in Workers
             PROVE  AttemptHeldBy(v)'
  BY DEF AttemptHeld
<1> USE ConstantsAssumption
<1>0. RunShape /\ ClosingShape /\ AttemptHeld /\ AttemptHeldBy(v)
  BY DEF RunsInv, AttemptHeld
<1>a. \A w \in Workers : pc[w] \in Busy => /\ claimed[w] \in Jobs
                                           /\ claimedAttempt[w] \in Attempts
                                           /\ claimedAttempt[w] \in Nat
  BY DEF IInv, TypeOK, Attempts
<1>1. ASSUME pc[v] \in Busy, claimed'[v] = claimed[v],
             claimedAttempt'[v] = claimedAttempt[v],
             owner[claimed[v]] = v /\ claimedAttempt[v] = attempt[claimed[v]]
               /\ attempt'[claimed[v]] = attempt[claimed[v]]
               => owner'[claimed[v]] = v \/ status'[claimed[v]] = "needs_intervention",
             v \in hasRun => v \in hasRun',
             v \notin hasRun' /\ run[claimed[v]][claimedAttempt[v]] = "absent"
               => run'[claimed[v]][claimedAttempt[v]] = "absent",
             \A o \in Workers \ {v} : pc'[o] \in Busy /\ claimed'[o] = claimed[v] =>
                \/ claimedAttempt'[o] # claimedAttempt[v]
                \/ pc[o] \in Busy /\ claimed[o] = claimed'[o]
                   /\ claimedAttempt[o] = claimedAttempt'[o]
      PROVE  AttemptHeldBy(v)'
  <2>1. /\ claimed[v] \in Jobs /\ claimedAttempt[v] \in Nat
        /\ claimedAttempt[v] <= attempt[claimed[v]]
    BY <1>0, <1>1, <1>a DEF AttemptHeldBy
  <2>2. /\ attempt'[claimed[v]] >= attempt[claimed[v]]
        /\ attempt[claimed[v]] \in Nat /\ attempt'[claimed[v]] \in Nat
    BY <2>1, AttemptGrows
  <2>3. claimedAttempt[v] <= attempt'[claimed[v]]
        /\ (claimedAttempt[v] = attempt'[claimed[v]] =>
              /\ claimedAttempt[v] = attempt[claimed[v]]
              /\ attempt'[claimed[v]] = attempt[claimed[v]])
    BY <2>1, <2>2
  <2>4. status[claimed[v]] = "needs_intervention" => status'[claimed[v]] = "needs_intervention"
    BY <2>1, OutcomeKept DEF Terminal
  <2>5. claimedAttempt[v] = attempt'[claimed[v]] =>
          owner'[claimed[v]] = v \/ status'[claimed[v]] = "needs_intervention"
    BY <1>0, <1>1, <2>3, <2>4 DEF AttemptHeldBy
  <2>6. v \notin hasRun' => run'[claimed[v]][claimedAttempt[v]] = "absent"
    BY <1>0, <1>1 DEF AttemptHeldBy
  <2>7. \A o \in Workers \ {v} :
          pc'[o] \in Busy /\ claimed'[o] = claimed[v] => claimedAttempt'[o] # claimedAttempt[v]
    BY <1>0, <1>1 DEF AttemptHeldBy
  <2> QED BY <1>1, <2>3, <2>5, <2>6, <2>7 DEF AttemptHeldBy
<1>2. ASSUME pc'[v] \notin Busy PROVE AttemptHeldBy(v)'
  BY <1>2 DEF AttemptHeldBy
<1>3. ASSUME NEW w \in Workers, NEW k \in Jobs, ClaimJob(w, k) PROVE AttemptHeldBy(v)'
  <2>0. attempt[k] \in Nat
    BY DEF IInv, TypeOK
  <2>1. CASE v = w
    <3>1. /\ claimed'[v] = k /\ claimedAttempt'[v] = attempt[k] + 1
          /\ attempt'[k] = attempt[k] + 1 /\ owner'[k] = v
      BY <1>3, <2>1, ClaimFits
    <3>2. attempt[k] + 1 \in Attempts /\ k \notin wrote[w] /\ attempt[k] + 1 > attempt[k]
      BY <1>3, <2>0, ClaimFits DEF Attempts
    <3>3. run'[k][attempt[k] + 1] = "absent"
      <4>1. <<k, attempt[k] + 1>> \notin closing[w]
        BY <1>0, <3>2 DEF ClosingShape
      <4>2. run[k][attempt[k] + 1] = "absent"
        BY <1>0, <3>2 DEF RunShape
      <4> QED BY <1>3, <3>2, <4>1, <4>2, ClaimFits
    <3>4. ASSUME NEW o \in Workers \ {v}, pc'[o] \in Busy, claimed'[o] = k
          PROVE  claimedAttempt'[o] # attempt[k] + 1
      <4>1. pc[o] \in Busy /\ claimed[o] = k /\ claimedAttempt'[o] = claimedAttempt[o]
        BY <1>3, <2>1, <3>4, ClaimFits
      <4>2. claimedAttempt[o] <= attempt[k] /\ claimedAttempt[o] \in Nat
        BY <1>0, <1>a, <4>1 DEF AttemptHeld, AttemptHeldBy
      <4> QED BY <2>0, <4>1, <4>2
    <3>5. attempt[k] + 1 <= attempt'[k]
      BY <2>0, <3>1
    <3> QED BY <3>1, <3>3, <3>4, <3>5 DEF AttemptHeldBy
  <2>2. CASE v # w /\ pc[v] \in Busy
    <3>1. /\ pc'[v] = pc[v] /\ claimed'[v] = claimed[v]
          /\ claimedAttempt'[v] = claimedAttempt[v] /\ UNCHANGED hasRun
      BY <1>3, <2>2, ClaimFits
    <3>2. /\ claimed[v] \in Jobs /\ claimedAttempt[v] \in Attempts /\ claimedAttempt[v] \in Nat
          /\ claimedAttempt[v] <= attempt[claimed[v]]
      BY <1>0, <1>a, <2>2 DEF AttemptHeldBy
    <3>3. ASSUME attempt'[claimed[v]] = attempt[claimed[v]], owner[claimed[v]] = v
          PROVE  owner'[claimed[v]] = v \/ status'[claimed[v]] = "needs_intervention"
      <4>1. claimed[v] # k
        BY <1>3, <2>0, <3>3, ClaimFits
      <4>2. \A i \in Jobs \ {k} :
              /\ i \in wrote[w] => status'[i] = "needs_intervention"
              /\ i \notin wrote[w] => owner'[i] = owner[i]
        BY <1>3, ClaimFits
      <4>3. claimed[v] \in Jobs \ {k}
        BY <3>2, <4>1
      <4> QED BY <3>3, <4>2, <4>3
    <3>4. \A o \in Workers \ {v} : pc'[o] \in Busy /\ claimed'[o] = claimed[v] =>
                \/ claimedAttempt'[o] # claimedAttempt[v]
                \/ pc[o] \in Busy /\ claimed[o] = claimed'[o]
                   /\ claimedAttempt[o] = claimedAttempt'[o]
      <4>1. claimed'[w] = claimed[v] => claimedAttempt'[w] # claimedAttempt[v]
        BY <1>3, <2>0, <3>2, ClaimFits
      <4> QED BY <1>3, <4>1, ClaimFits
    <3>5. run[claimed[v]][claimedAttempt[v]] = "absent"
            => run'[claimed[v]][claimedAttempt[v]] = "absent"
      <4>1. <<claimed[v], claimedAttempt[v]>> \in closing[w]
              => run[claimed[v]][claimedAttempt[v]] # "absent"
        BY <1>0, <3>2 DEF ClosingShape
      <4>2. run'[claimed[v]][claimedAttempt[v]] =
              IF <<claimed[v], claimedAttempt[v]>> \in closing[w] THEN "needs_intervention"
              ELSE run[claimed[v]][claimedAttempt[v]]
        <5>1. \A i \in Jobs, a \in Attempts :
                run'[i][a] = IF <<i, a>> \in closing[w] THEN "needs_intervention" ELSE run[i][a]
          BY <1>3, ClaimFits, ZenonT(30)
        <5> QED BY <3>2, <5>1
      <4> QED BY <4>1, <4>2
    <3> QED BY <1>1, <2>2, <3>1, <3>3, <3>4, <3>5
  <2>3. CASE v # w /\ pc[v] \notin Busy
    BY <1>2, <1>3, <2>3, ClaimFits
  <2> QED BY <2>1, <2>2, <2>3
<1>4. ASSUME NEW w \in Workers, StartClaimedJobRun(w) PROVE AttemptHeldBy(v)'
  <2>1. /\ pc[w] = "claimed" /\ pc' = [pc EXCEPT ![w] = "started"]
        /\ hasRun' = hasRun \cup {w} /\ UNCHANGED <<claimed, claimedAttempt, owner, attempt>>
    BY <1>4 DEF StartClaimedJobRun, jobVars
  <2>2. \A o \in Workers : pc'[o] \in Busy => pc[o] \in Busy
    BY <2>1 DEF IInv, TypeOK, Busy
  <2>3. CASE pc[v] \in Busy
    <3>1. v \notin hasRun' => claimed[w] # claimed[v] \/ claimedAttempt[w] # claimedAttempt[v]
      BY <1>0, <2>1, <2>3 DEF AttemptHeldBy, Busy
    <3>2. v \notin hasRun' /\ run[claimed[v]][claimedAttempt[v]] = "absent"
            => run'[claimed[v]][claimedAttempt[v]] = "absent"
      <4>1. claimed[v] \in Jobs /\ claimedAttempt[v] \in Attempts
        BY <1>a, <2>3
      <4>2. run'[claimed[v]][claimedAttempt[v]] =
              IF claimed[v] = claimed[w] /\ claimedAttempt[v] = claimedAttempt[w]
              THEN "running" ELSE run[claimed[v]][claimedAttempt[v]]
        <5>1. \A i \in Jobs, a \in Attempts : run'[i][a] =
                IF i = claimed[w] /\ a = claimedAttempt[w] THEN "running" ELSE run[i][a]
          BY <1>4, StartFits
        <5> QED BY <4>1, <5>1
      <4> QED BY <3>1, <4>2
    <3> QED BY <1>1, <2>1, <2>2, <2>3, <3>2
  <2>4. CASE pc[v] \notin Busy
    BY <1>2, <2>2, <2>4
  <2> QED BY <2>3, <2>4
<1>5. ASSUME NEW w \in Workers, FinishCommit(w) PROVE AttemptHeldBy(v)'
  <2>1. CASE v = w \/ pc[v] \notin Busy
    <3>1. pc'[v] = "idle" \/ pc'[v] = pc[v]
      BY <1>5 DEF FinishCommit, LeaveRunOnce, IInv, TypeOK
    <3>2. v = w => pc'[v] = "idle"
      BY <1>5, FinishFits
    <3> QED BY <1>2, <2>1, <3>1, <3>2 DEF Busy
  <2>2. CASE v # w /\ pc[v] \in Busy
    <3>1. \A o \in Workers \ {w} : /\ pc'[o] = pc[o] /\ claimed'[o] = claimed[o]
                                   /\ claimedAttempt'[o] = claimedAttempt[o]
                                   /\ o \in hasRun' <=> o \in hasRun
      BY <1>5, OthersLeft DEF RunLoop, Process, IInv
    <3>2. pc'[w] \notin Busy /\ pc[w] \in Busy
      BY <1>5, FinishFits DEF FinishCommit, Busy
    <3>3. claimed[v] = claimed[w] => claimedAttempt[v] # attempt[claimed[v]]
      BY <1>0, <1>5, <2>2, <3>2, FinishFits DEF AttemptHeldBy
    <3>4. claimed[v] # claimed[w] => owner'[claimed[v]] = owner[claimed[v]]
      BY <1>5, <1>a, <2>2, FinishFits DEF IInv, TypeOK
    <3>5. run[claimed[v]][claimedAttempt[v]] = "absent"
            => run'[claimed[v]][claimedAttempt[v]] = "absent"
      <4>1. claimed[v] \in Jobs /\ claimedAttempt[v] \in Attempts
        BY <1>a, <2>2
      <4>2. \A i \in Jobs, a \in Attempts : run'[i][a] =
              IF i = claimed[w] /\ a = claimedAttempt[w] /\ w \in hasRun /\ run[i][a] # "absent"
              THEN result[w] ELSE run[i][a]
        BY <1>5, FinishFits
      <4> QED BY <4>1, <4>2
    <3> QED BY <1>1, <2>2, <3>1, <3>2, <3>3, <3>4, <3>5
  <2> QED BY <2>1, <2>2
<1>6. ASSUME NEW w \in Workers, UNCHANGED <<owner, attempt, run>>,
             pc'[w] \in Busy => /\ pc[w] \in Busy /\ claimed'[w] = claimed[w]
                                /\ claimedAttempt'[w] = claimedAttempt[w]
                                /\ (w \in hasRun => w \in hasRun'),
             \A o \in Workers \ {w} : /\ pc'[o] = pc[o] /\ claimed'[o] = claimed[o]
                                      /\ claimedAttempt'[o] = claimedAttempt[o]
                                      /\ o \in hasRun' <=> o \in hasRun
      PROVE  AttemptHeldBy(v)'
  <2>1. CASE pc'[v] \notin Busy
    BY <1>2, <2>1
  <2>2. CASE pc'[v] \in Busy
    <3>1. /\ pc[v] \in Busy /\ claimed'[v] = claimed[v]
          /\ claimedAttempt'[v] = claimedAttempt[v] /\ (v \in hasRun => v \in hasRun')
      <4>1. CASE v = w
        BY <1>6, <2>2, <4>1
      <4>2. CASE v # w
        <5>1. v \in Workers \ {w}
          BY <4>2
        <5> QED BY <1>6, <2>2, <5>1
      <4> QED BY <4>1, <4>2
    <3>2. ASSUME NEW o \in Workers \ {v}, pc'[o] \in Busy
          PROVE  pc[o] \in Busy /\ claimed'[o] = claimed[o]
                 /\ claimedAttempt'[o] = claimedAttempt[o]
      <4>1. CASE o = w
        BY <1>6, <3>2, <4>1
      <4>2. CASE o # w
        <5>1. o \in Workers \ {w}
          BY <4>2
        <5> QED BY <1>6, <3>2, <5>1
      <4> QED BY <4>1, <4>2
    <3> QED BY <1>1, <1>6, <3>1, <3>2
  <2> QED BY <2>1, <2>2
<1>7. ASSUME NEW w \in Workers, UNCHANGED <<owner, attempt, run>>,
             LeaveRunOnce(w, "idle") \/ LeaveRunOnce(w, "dead")
      PROVE  AttemptHeldBy(v)'
  <2>1. pc'[w] \notin Busy
        /\ \A o \in Workers \ {w} : /\ pc'[o] = pc[o] /\ claimed'[o] = claimed[o]
                                    /\ claimedAttempt'[o] = claimedAttempt[o]
                                    /\ o \in hasRun' <=> o \in hasRun
    BY <1>7 DEF LeaveRunOnce, IInv, TypeOK, Busy
  <2> QED BY <1>6, <1>7, <2>1
<1>8. ASSUME NEW w \in Workers, ClaimScan(w) \/ ClaimSelect(w) \/ StartClaimedJobRunError(w)
             \/ ExecuteBrowserCase(w) \/ FinishUpdate(w)
      PROVE  AttemptHeldBy(v)'
  <2>1. /\ UNCHANGED <<owner, attempt, run, claimed, claimedAttempt, hasRun>>
        /\ pc'[w] \in Busy => pc[w] \in Busy
        /\ \A o \in Workers \ {w} : pc'[o] = pc[o]
    BY <1>8 DEF ClaimScan, ClaimSelect, StartClaimedJobRunError, ExecuteBrowserCase,
                FinishUpdate, jobVars, IInv, TypeOK, Busy
  <2> QED BY <1>6, <2>1
<1>9. ASSUME UNCHANGED <<workerVars, owner, attempt>>,
             \A k \in Jobs, b \in Attempts : run'[k][b] \in {run[k][b], "absent"}
      PROVE  AttemptHeldBy(v)'
  <2>1. CASE pc[v] \in Busy
    BY <1>1, <1>9, <1>a, <2>1 DEF workerVars
  <2>2. CASE pc[v] \notin Busy
    BY <1>2, <1>9, <2>2 DEF workerVars
  <2> QED BY <2>1, <2>2
<1>10. ASSUME NEW k \in Jobs, NEW b \in Attempts, DeleteExecution(k, b) PROVE AttemptHeldBy(v)'
  BY <1>9, <1>10 DEF DeleteExecution, jobVars, IInv, TypeOK
<1>11. CASE UNCHANGED <<workerVars, owner, attempt, run>>
  BY <1>9, <1>11
<1>12. ASSUME NEW w \in Workers, ClaimNone(w) \/ FinishConflict(w) \/ TxFailed(w) \/ Crash(w)
       PROVE  AttemptHeldBy(v)'
  BY <1>7, <1>12 DEF ClaimNone, FinishConflict, TxFailed, Crash, jobVars
<1> QED
  BY <1>3, <1>4, <1>5, <1>8, <1>10, <1>11, <1>12
     DEF Next, RunLoop, Claim, Process, CreateBatch, CancelBatch, RefreshSnapshot,
         QuarantineRefresh, LeaseExpire, vars, jobVars

\* Preservation of SettledTried: only the finish of a running job makes it so.
LEMMA TriedKept == IInv /\ FinishOwned /\ RunsInv /\ [Next]_vars => SettledTried'
<1> SUFFICES ASSUME IInv, FinishOwned, RunsInv, [Next]_vars, NEW j \in Jobs,
                    status'[j] \in {"passed", "failed"}
             PROVE  attempt'[j] # 0
  BY DEF SettledTried
<1> USE ConstantsAssumption
<1>1. ASSUME status'[j] = status[j] PROVE attempt'[j] # 0
  BY <1>1, OutcomeKept DEF RunsInv, SettledTried, Terminal
<1>2. ASSUME NEW b \in Batches, CreateBatch(b) \/ CancelBatch(b) PROVE attempt'[j] # 0
  <2>1. status'[j] \in {status[j], "pending", "cancelled"}
    BY <1>2 DEF CreateBatch, CancelBatch
  <2> QED BY <1>1, <2>1
<1>3. ASSUME NEW w \in Workers, NEW k \in Jobs, ClaimJob(w, k) PROVE attempt'[j] # 0
  <2>1. status'[j] \in {status[j], "running", "needs_intervention"}
    BY <1>3, ClaimFits
  <2> QED BY <1>1, <2>1
<1>4. ASSUME NEW w \in Workers, FinishCommit(w) PROVE attempt'[j] # 0
  <2>1. CASE j = claimed[w]
    BY <1>4, <2>1, FinishFits DEF IInv, RowShape
  <2>2. CASE j # claimed[w]
    <3>1. claimed[w] \in Jobs /\ status' = [status EXCEPT ![claimed[w]] = result[w]]
      BY <1>4, FinishFits
    <3>2. status'[j] = status[j]
      BY <2>2, <3>1 DEF IInv, TypeOK
    <3> QED BY <1>1, <3>2
  <2> QED BY <2>1, <2>2
<1>5. CASE UNCHANGED status
  BY <1>1, <1>5
<1> QED
  BY <1>2, <1>3, <1>4, <1>5
     DEF Next, RunLoop, Claim, Process, DeleteExecution, ClaimScan, RefreshSnapshot,
         QuarantineRefresh, ClaimSelect, ClaimNone, StartClaimedJobRun,
         StartClaimedJobRunError, ExecuteBrowserCase, FinishUpdate, FinishConflict,
         LeaseExpire, TxFailed, Crash, vars, jobVars

\* Preservation of RunsAgreeWithJobs: a start and a finish of a stale consumer miss the
\* run of the last attempt, a finish of the owner writes both rows.
LEMMA AgreeKept ==
    IInv /\ FinishOwned /\ RunsInv /\ [Next]_vars => RunsAgreeWithJobs'
<1> SUFFICES ASSUME IInv, FinishOwned, RunsInv, [Next]_vars, NEW j \in Jobs
             PROVE  /\ status'[j] = "running" => RunOpen(j)'
                    /\ status'[j] \in {"passed", "failed"}
                          => run'[j][attempt'[j]] \in {"absent", status'[j]}
  BY DEF RunsAgreeWithJobs, RunOpen
<1> USE ConstantsAssumption
<1> DEFINE Goal == /\ status'[j] = "running" => RunOpen(j)'
                   /\ status'[j] \in {"passed", "failed"}
                         => run'[j][attempt'[j]] \in {"absent", status'[j]}
<1>0. /\ RunShape /\ ClosingShape /\ AttemptHeld
      /\ status[j] = "running" => RunOpen(j)
      /\ status[j] \in {"passed", "failed"} =>
           attempt[j] \in Attempts /\ run[j][attempt[j]] \in {"absent", status[j]}
  BY DEF RunsInv, RunsAgreeWithJobs, RunOpen, SettledTried, IInv, TypeOK, Attempts
<1>1. ASSUME status'[j] \in {status[j], "pending", "cancelled", "needs_intervention"},
             attempt'[j] = attempt[j],
             \A a \in Attempts : run'[j][a] \in {run[j][a], "absent"}
      PROVE  Goal
  BY <1>0, <1>1 DEF RunOpen
<1>2. ASSUME NEW b \in Batches, CreateBatch(b) \/ CancelBatch(b) PROVE Goal
  <2>1. status'[j] \in {status[j], "pending", "cancelled"} /\ UNCHANGED <<attempt, run>>
    BY <1>2 DEF CreateBatch, CancelBatch
  <2> QED BY <1>1, <2>1
<1>3. ASSUME NEW k \in Jobs, NEW b \in Attempts, DeleteExecution(k, b) PROVE Goal
  BY <1>1, <1>3 DEF DeleteExecution, jobVars, IInv, TypeOK
<1>4. ASSUME NEW w \in Workers, NEW k \in Jobs, ClaimJob(w, k) PROVE Goal
  <2>1. \A a \in Attempts : <<j, a>> \in closing[w] => j \in wrote[w]
    BY <1>0 DEF ClosingShape
  <2>2. \A i \in Jobs, a \in Attempts :
          run'[i][a] = IF <<i, a>> \in closing[w] THEN "needs_intervention" ELSE run[i][a]
    BY <1>4, ClaimFits, ZenonT(30)
  <2>3. CASE j = k
    <3>1. /\ j \notin wrote[w] /\ status'[j] = "running"
          /\ status[j] \in {"pending", "running"}
      BY <1>4, <2>3, ClaimFits DEF Active
    <3>2. \A a \in Attempts : run'[j][a] = run[j][a]
      BY <2>1, <2>2, <3>1
    <3>3. RunOpen(j)
      BY <1>0, <3>1, WaitingHasNoRun DEF RunOpen
    <3> QED BY <3>1, <3>2, <3>3 DEF RunOpen
  <2>4. CASE j # k /\ j \in wrote[w]
    BY <1>4, <2>4, ClaimFits
  <2>5. CASE j # k /\ j \notin wrote[w]
    <3>1. status'[j] = status[j] /\ attempt'[j] = attempt[j]
      BY <1>4, <2>5, ClaimFits
    <3>2. \A a \in Attempts : run'[j][a] = run[j][a]
      BY <2>1, <2>2, <2>5
    <3> QED BY <1>1, <3>1, <3>2
  <2> QED BY <2>3, <2>4, <2>5
<1>5. ASSUME NEW w \in Workers, StartClaimedJobRun(w) PROVE Goal
  <2>1. /\ claimed[w] \in Jobs /\ claimedAttempt[w] \in Attempts /\ pc[w] \in Busy
        /\ status' = status /\ attempt' = attempt
    BY <1>5, StartFits
  <2>2. \A i \in Jobs, a \in Attempts : run'[i][a] =
          IF i = claimed[w] /\ a = claimedAttempt[w] THEN "running" ELSE run[i][a]
    BY <1>5, StartFits
  <2>3. status[j] = "running" => RunOpen(j)'
    BY <1>0, <2>2 DEF RunOpen
  <2>4. ASSUME status[j] \in {"passed", "failed"}
        PROVE  run'[j][attempt[j]] \in {"absent", status[j]}
    <3>1. ~(j = claimed[w] /\ attempt[j] = claimedAttempt[w])
      <4>1. owner[j] # w
        BY <2>4 DEF IInv, RowShape
      <4> QED BY <1>0, <2>1, <2>4, <4>1 DEF AttemptHeld, AttemptHeldBy
    <3> QED BY <1>0, <2>2, <2>4, <3>1
  <2> QED BY <2>1, <2>3, <2>4
<1>6. ASSUME NEW w \in Workers, FinishCommit(w) PROVE Goal
  <2>1. /\ claimed[w] \in Jobs /\ claimedAttempt[w] = attempt[claimed[w]]
        /\ claimedAttempt[w] \in Attempts /\ status' = [status EXCEPT ![claimed[w]] = result[w]]
        /\ attempt' = attempt /\ pc[w] \in Busy
    BY <1>6, FinishFits DEF FinishCommit, Busy
  <2>2. \A i \in Jobs, a \in Attempts : run'[i][a] =
          IF i = claimed[w] /\ a = claimedAttempt[w] /\ w \in hasRun /\ run[i][a] # "absent"
          THEN result[w] ELSE run[i][a]
    BY <1>6, FinishFits
  <2>3. CASE j = claimed[w]
    <3>1. status'[j] = result[w] /\ result[w] # "running"
      BY <2>1, <2>3 DEF IInv, TypeOK, Terminal
    <3>2. w \notin hasRun => run[j][attempt[j]] = "absent"
      BY <1>0, <2>1, <2>3 DEF AttemptHeld, AttemptHeldBy
    <3> QED BY <2>1, <2>2, <2>3, <3>1, <3>2
  <2>4. CASE j # claimed[w]
    <3>1. status'[j] = status[j]
      BY <2>1, <2>4
    <3>2. \A a \in Attempts : run'[j][a] = run[j][a]
      BY <2>2, <2>4
    <3> QED BY <1>1, <2>1, <3>1, <3>2
  <2> QED BY <2>3, <2>4
<1>7. CASE UNCHANGED <<status, attempt, run>>
  BY <1>1, <1>7
<1> QED
  BY <1>2, <1>3, <1>4, <1>5, <1>6, <1>7
     DEF Next, RunLoop, Claim, Process, ClaimScan, RefreshSnapshot, QuarantineRefresh,
         ClaimSelect, ClaimNone, StartClaimedJobRunError, ExecuteBrowserCase, FinishUpdate,
         FinishConflict, LeaseExpire, TxFailed, Crash, vars, jobVars

\* The rows of execution_jobs and test_case_runs agree over conflicts, crashes, reclaims
\* and deleted runs, for any number of consumers, jobs and attempts.
THEOREM RunsAgree == Spec => []RunsAgreeWithJobs
<1>1. Init => RunsInv
  BY ConstantsAssumption
     DEF Init, RunsInv, RunShape, ClosingShape, AttemptHeld, AttemptHeldBy,
         RunsAgreeWithJobs, Busy, SettledTried
<1>2. IInv /\ FinishOwned /\ RunsInv /\ [Next]_vars => RunsInv'
  BY RunShapeKept, ClosingKept, HeldKept, AgreeKept, TriedKept DEF RunsInv
<1>3. RunsInv => RunsAgreeWithJobs
  BY DEF RunsInv
<1> QED BY <1>1, <1>2, <1>3, Invariance, FinishOwnedInv, PTL DEF Spec

-----------------------------------------------------------------------------
(* Refinement: the statements of the queue implement JobLifecycle.         *)

\* Creating a batch submits its jobs: none of them exists before.
LEMMA CreateSubmits ==
    ASSUME IInv, NEW b \in Batches, CreateBatch(b)
    PROVE  Lifecycle!Submit(b)
<1>1. \A j \in Jobs : BatchOf[j] = b => status[j] = "absent"
  BY DEF CreateBatch, IInv, RowShape
<1> QED BY <1>1 DEF CreateBatch, Lifecycle!Submit

\* Cancelling a batch withdraws the jobs that are still pending.
LEMMA CancelWithdraws ==
    ASSUME IInv, NEW b \in Batches, CancelBatch(b)
    PROVE  Lifecycle!Withdraw(b)
<1>1. ASSUME NEW j \in Jobs
      PROVE  (j \in {k \in JobsOf(b) : status[k] \in Active} /\ status[j] = "pending")
                <=> (BatchOf[j] = b /\ status[j] = "pending")
  BY DEF JobsOf, Active
<1>2. status' = [j \in Jobs |-> IF BatchOf[j] = b /\ status[j] = "pending"
                                THEN "cancelled" ELSE status[j]]
  BY <1>1 DEF CancelBatch
<1> QED BY <1>2 DEF CancelBatch, Lifecycle!Withdraw

\* A committed claim hands the job out, and gives up the jobs it quarantined.
LEMMA ClaimHandsOut ==
    ASSUME IInv, NEW w \in Workers, NEW j \in Jobs, ClaimJob(w, j)
    PROVE  Lifecycle!HandOut(w, j, wrote[w])
<1>1. status[j] \in {"pending", "running"} /\ j \notin wrote[w]
  BY ClaimedJobActive DEF Active
<1>2. attempt[j] < MaxAttempts
  BY DEF ClaimJob, Lockable, Claimable
<1>3. \A k \in wrote[w] : k # j /\ status[k] = "running"
  BY <1>1 DEF IInv, TxShape, TxShapeOf, OneWriterPerJob
<1> QED BY <1>1, <1>2, <1>3 DEF ClaimJob, LeaseFor, Lifecycle!HandOut

\* A committed finish reports the outcome; the row lock kept the job running and
\* owned by the consumer since its UPDATE.
LEMMA FinishReports ==
    ASSUME IInv, FinishOwned, NEW w \in Workers, FinishCommit(w)
    PROVE  Lifecycle!Report(w, claimed[w], result[w])
<1>1. claimed[w] \in wrote[w] /\ pc[w] = "finishing"
  BY DEF FinishCommit, IInv, TxShape, TxShapeOf
<1>2. status[claimed[w]] = "running"
  BY <1>1 DEF IInv, TxShape, TxShapeOf, OneWriterPerJob
<1>3. owner[claimed[w]] = w
  BY <1>1 DEF FinishOwned
<1> QED BY <1>2, <1>3 DEF FinishCommit, Lifecycle!Report

\* The empty tables are the empty lifecycle.
LEMMA InitLifecycle == Init => Lifecycle!LifecycleInit
BY DEF Init, Lifecycle!LifecycleInit

\* Every step of the queue is a step of the lifecycle, or leaves it alone.
LEMMA NextLifecycle ==
    IInv /\ FinishOwned /\ [Next]_vars
        => [Lifecycle!LifecycleNext]_(Lifecycle!lifecycleVars)
<1> SUFFICES ASSUME IInv, FinishOwned, [Next]_vars
             PROVE  [Lifecycle!LifecycleNext]_(Lifecycle!lifecycleVars)
  OBVIOUS
<1>1. ASSUME NEW b \in Batches, CreateBatch(b) PROVE Lifecycle!LifecycleNext
  BY <1>1, CreateSubmits DEF Lifecycle!LifecycleNext
<1>2. ASSUME NEW b \in Batches, CancelBatch(b) PROVE Lifecycle!LifecycleNext
  BY <1>2, CancelWithdraws DEF Lifecycle!LifecycleNext
<1>3. ASSUME NEW w \in Workers, NEW j \in Jobs, ClaimJob(w, j)
      PROVE  Lifecycle!LifecycleNext
  <2>1. wrote[w] \in SUBSET Jobs
    BY DEF IInv, TypeOK
  <2>2. Lifecycle!HandOut(w, j, wrote[w])
    BY <1>3, ClaimHandsOut
  <2> QED BY <2>1, <2>2 DEF Lifecycle!LifecycleNext
<1>4. ASSUME NEW w \in Workers, FinishCommit(w) PROVE Lifecycle!LifecycleNext
  <2>1. claimed[w] \in Jobs /\ result[w] \in Lifecycle!Outcomes
    BY <1>4 DEF FinishCommit, IInv, TypeOK, Busy, Terminal, Lifecycle!Outcomes
  <2>2. Lifecycle!Report(w, claimed[w], result[w])
    BY <1>4, FinishReports
  <2> QED BY <2>1, <2>2 DEF Lifecycle!LifecycleNext
<1>5. CASE UNCHANGED <<status, attempt, owner>>
  BY <1>5 DEF Lifecycle!lifecycleVars
<1> QED
  BY <1>1, <1>2, <1>3, <1>4, <1>5
     DEF Next, RunLoop, Claim, Process, DeleteExecution, ClaimScan, RefreshSnapshot,
         QuarantineRefresh, ClaimSelect, ClaimNone, StartClaimedJobRun,
         StartClaimedJobRunError, ExecuteBrowserCase, FinishUpdate, FinishConflict,
         LeaseExpire, TxFailed, Crash, vars, jobVars

\* The queue implements the lifecycle that its clients are promised, for any number
\* of consumers, jobs, batches and faults.
THEOREM Refinement == Spec => ImplementsLifecycle
BY Invariance, FinishOwnedInv, InitLifecycle, NextLifecycle, PTL
   DEF Spec, ImplementsLifecycle, Lifecycle!LifecycleSpec
=============================================================================
