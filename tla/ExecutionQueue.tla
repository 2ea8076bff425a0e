--------------------------- MODULE ExecutionQueue ---------------------------
(***************************************************************************)
(* The PostgreSQL execution queue of backend-go/internal/execution and the *)
(* consumers of cmd/execution-worker that drain it.                        *)
(*                                                                         *)
(* A batch owns jobs; a consumer claims one job at a time under a lease,   *)
(* inserts a run row for the attempt, has the browser worker execute the   *)
(* case, and finishes the job, which also refreshes the status of the      *)
(* batch.  The two transactions whose statements can interleave with those *)
(* of other sessions, claimNextJob and FinishClaimedJobRun, are modelled   *)
(* statement by statement under READ COMMITTED: a statement reads the      *)
(* rows committed when it starts plus the writes of its own transaction,   *)
(* an UPDATE waits for the row locks of others, FOR UPDATE SKIP LOCKED     *)
(* passes them over, and a row that changed after the snapshot was taken   *)
(* is checked again, but the sub-selects of the statement are not.         *)
(***************************************************************************)
EXTENDS Naturals, FiniteSets

CONSTANTS
    Workers,      \* consumers; a restarted process is a new element
    Jobs,         \* job ids, ordered as ORDER BY b.created_at, b.id, order_index
    Batches,      \* batch ids, in the order of their creation
    BatchOf,      \* execution_jobs.batch_id
    Limit,        \* execution_batches.concurrency_limit
    Protected,    \* jobs whose DSL clicks or declares an external side effect
    MaxAttempts,  \* execution_jobs.max_attempts
    MaxFaults,    \* bound on crashes and on failed statements
    NoOwner       \* lease_owner IS NULL

ASSUME ConstantsAssumption ==
    /\ Jobs \subseteq Nat \ {0}
    /\ Batches \subseteq Nat \ {0}
    /\ BatchOf \in [Jobs -> Batches]
    /\ \A b \in Batches : \E j \in Jobs : BatchOf[j] = b
    /\ Limit \in [Batches -> 1..16]
    /\ Protected \subseteq Jobs
    /\ MaxAttempts \in Nat \ {0}
    /\ MaxFaults \in Nat
    /\ NoOwner \notin Workers

VARIABLES
    \* execution_jobs
    status,          \* status, "absent" before the row is inserted
    attempt,         \* attempt_count
    owner,           \* lease_owner
    expired,         \* the jobs with lease_expires_at in the past
    cancelRequested, \* the jobs with cancel_requested
    \* execution_batches
    batchStatus,     \* status, "absent" before the row is inserted
    started,         \* the batches with started_at
    \* test_case_runs
    run,             \* status by job and attempt_number
    \* the local variables of runOnce, per consumer
    pc,              \* where the consumer is
    claimed,         \* ClaimedJob.ID
    claimedAttempt,  \* ClaimedJob.AttemptNumber
    hasRun,          \* the consumers with a StartedRun
    result,          \* BrowserExecutionResult.Status
    \* the open transaction of each consumer
    locked,          \* job rows it has locked
    wrote,           \* job rows it has written
    closing,         \* run rows it has set to needs_intervention
    expiredAt,       \* now(): the attempt of each job whose lease was over at BEGIN
    todo,            \* batches still to be refreshed
    refreshing,      \* the batch whose refresh statement has its snapshot
    verdict,         \* the status that statement computed
    written,         \* batch rows it has written (and so locked)
    cand,            \* the snapshot's answer to the candidate SELECT
    \* environment
    faults           \* crashes and failed statements so far

jobVars    == <<status, attempt, owner, expired, cancelRequested>>
batchVars  == <<batchStatus, started>>
workerVars == <<pc, claimed, claimedAttempt, hasRun, result>>
txVars     == <<locked, wrote, closing, expiredAt, todo, refreshing, verdict,
                written, cand>>
vars       == <<jobVars, batchVars, run, workerVars, txVars, faults>>

Terminal == {"passed", "failed", "needs_intervention", "cancelled"}
Active   == {"pending", "running"}
Status   == Active \cup Terminal

Attempts == 1..MaxAttempts
NoJob    == 0
NoBatch  == 0

Busy == {"claimed", "started", "executed", "finishing"}
InTx == {"scanned", "locking", "finishing"}

JobsOf(b) == {j \in Jobs : BatchOf[j] = b}

Init ==
    /\ status = [j \in Jobs |-> "absent"]
    /\ attempt = [j \in Jobs |-> 0]
    /\ owner = [j \in Jobs |-> NoOwner]
    /\ expired = {}
    /\ cancelRequested = {}
    /\ batchStatus = [b \in Batches |-> "absent"]
    /\ started = {}
    /\ run = [j \in Jobs |-> [a \in Attempts |-> "absent"]]
    /\ pc = [w \in Workers |-> "idle"]
    /\ claimed = [w \in Workers |-> NoJob]
    /\ claimedAttempt = [w \in Workers |-> 0]
    /\ hasRun = {}
    /\ result = [w \in Workers |-> "failed"]
    /\ locked = [w \in Workers |-> {}]
    /\ wrote = [w \in Workers |-> {}]
    /\ closing = [w \in Workers |-> {}]
    /\ expiredAt = [w \in Workers |-> [j \in Jobs |-> 0]]
    /\ todo = [w \in Workers |-> {}]
    /\ refreshing = [w \in Workers |-> NoBatch]
    /\ verdict = [w \in Workers |-> "passed"]
    /\ written = [w \in Workers |-> [b \in Batches |-> "absent"]]
    /\ cand = [w \in Workers |-> {}]
    /\ faults = 0

-----------------------------------------------------------------------------
(* Row locks and what a statement of a transaction sees.                   *)

\* A batch row is locked by the transaction that has written it.
HoldsBatch(w, b) == written[w][b] # "absent"

\* Faulty form of LockedByOther: row locks are ignored.
NeverLocked(w, j) == FALSE

LockedByOther(w, j) == \E o \in Workers \ {w} : j \in locked[o]

BatchLockedByOther(w, b) == \E o \in Workers \ {w} : HoldsBatch(o, b)

\* The status this transaction gave the job rows it has written: quarantine
\* writes needs_intervention, FinishClaimedJobRun the result of the run.
StatusWritten(w) == IF pc[w] = "finishing" THEN result[w] ELSE "needs_intervention"

\* A snapshot: committed rows, overlaid with the writes of w's transaction.
JobView(w, j)   == IF j \in wrote[w] THEN StatusWritten(w) ELSE status[j]
BatchView(w, b) == IF HoldsBatch(w, b) THEN written[w][b] ELSE batchStatus[b]

\* lease_expires_at < now(): now() is the start of the transaction, so a lease
\* that another consumer has taken since then is not expired.
LeaseExpiredFor(w, j) == expiredAt[w][j] = attempt[j]

\* Faulty form of RefreshedStatus: failed is tested before needs_intervention.
RefreshedFailedFirst(w, b) ==
    LET has(s) == \E j \in JobsOf(b) : JobView(w, j) = s
    IN  IF has("running") \/ has("pending") THEN "running"
        ELSE IF has("failed") THEN "failed"
        ELSE IF has("needs_intervention") THEN "needs_intervention"
        ELSE IF \A j \in JobsOf(b) : JobView(w, j) = "cancelled" THEN "cancelled"
        ELSE "passed"

\* Faulty form of RefreshedStatus: pending jobs do not keep the batch open.
RefreshedIgnoresPending(w, b) ==
    LET has(s) == \E j \in JobsOf(b) : JobView(w, j) = s
    IN  IF has("running") THEN "running"
        ELSE IF has("needs_intervention") THEN "needs_intervention"
        ELSE IF has("failed") THEN "failed"
        ELSE IF \A j \in JobsOf(b) : JobView(w, j) = "cancelled" THEN "cancelled"
        ELSE "passed"

\* refreshBatchStatus: the ordered CASE over the statuses of the batch's jobs.
RefreshedStatus(w, b) ==
    LET has(s) == \E j \in JobsOf(b) : JobView(w, j) = s
    IN  IF has("running") THEN "running"
        ELSE IF has("pending") THEN IF b \in started THEN "running" ELSE "pending"
        ELSE IF has("needs_intervention") THEN "needs_intervention"
        ELSE IF has("failed") THEN "failed"
        ELSE IF \A j \in JobsOf(b) : JobView(w, j) = "cancelled" THEN "cancelled"
        ELSE "passed"

\* COMMIT or ROLLBACK: the transaction of w is over and its locks are released.
EndTx(w) ==
    /\ locked' = [locked EXCEPT ![w] = {}]
    /\ wrote' = [wrote EXCEPT ![w] = {}]
    /\ closing' = [closing EXCEPT ![w] = {}]
    /\ expiredAt' = [expiredAt EXCEPT ![w] = [j \in Jobs |-> 0]]
    /\ todo' = [todo EXCEPT ![w] = {}]
    /\ refreshing' = [refreshing EXCEPT ![w] = NoBatch]
    /\ verdict' = [verdict EXCEPT ![w] = "passed"]
    /\ written' = [written EXCEPT ![w] = [b \in Batches |-> "absent"]]
    /\ cand' = [cand EXCEPT ![w] = {}]

\* runOnce returns (to "idle", the next poll) or the process is gone ("dead").
LeaveRunOnce(w, to) ==
    /\ pc' = [pc EXCEPT ![w] = to]
    /\ claimed' = [claimed EXCEPT ![w] = NoJob]
    /\ claimedAttempt' = [claimedAttempt EXCEPT ![w] = 0]
    /\ hasRun' = hasRun \ {w}
    /\ result' = [result EXCEPT ![w] = "failed"]

-----------------------------------------------------------------------------
(* The API server: batch creation, cancellation, deletion of a run row.    *)

\* CreateBatch commits the batch and all of its jobs in one transaction.
CreateBatch(b) ==
    /\ batchStatus[b] = "absent"
    /\ \A c \in Batches : c < b => batchStatus[c] # "absent"
    /\ batchStatus' = [batchStatus EXCEPT ![b] = "pending"]
    /\ status' = [j \in Jobs |-> IF BatchOf[j] = b THEN "pending" ELSE status[j]]
    /\ UNCHANGED <<attempt, owner, expired, cancelRequested, started, run,
                   workerVars, txVars, faults>>

\* CancelBatch.  Its first UPDATE waits for the locks on the active jobs of the
\* batch and then holds them all, so the batch status it computes afterwards is
\* the one of this state.  The status is written whatever it was before.
CancelBatch(b) ==
    LET active == {j \in JobsOf(b) : status[j] \in Active}
    IN  /\ batchStatus[b] # "absent"
        /\ \A w \in Workers : ~HoldsBatch(w, b) /\ active \cap locked[w] = {}
        /\ cancelRequested' = cancelRequested \cup active
        /\ status' = [j \in Jobs |-> IF j \in active /\ status[j] = "pending"
                                     THEN "cancelled" ELSE status[j]]
        /\ batchStatus' = [batchStatus EXCEPT ![b] =
                             IF \E j \in active : status[j] = "running"
                             THEN "running" ELSE "cancelled"]
        /\ UNCHANGED <<attempt, owner, expired, started, run, workerVars, txVars,
                       faults>>

\* DeleteExecution: removes a run row; waits for a transaction that wrote it.
DeleteExecution(j, a) ==
    /\ run[j][a] # "absent"
    /\ \A w \in Workers : j \notin wrote[w]
    /\ run' = [run EXCEPT ![j][a] = "absent"]
    /\ UNCHANGED <<jobVars, batchVars, workerVars, txVars, faults>>

-----------------------------------------------------------------------------
(* claimNextJob                                                            *)

\* requiresManualRecovery, for a job whose lease expired.  Its newest run row is
\* missing or still running with no report (RunsAgreeWithJobs), so the
\* decision is the static one: does the DSL hold a protected step.
RequiresManualRecovery(j) == j \in Protected

\* BEGIN and the scan of quarantineUnsafeExpiredJobs: lock every expired running
\* row that nobody else has locked, write needs_intervention to those that need
\* manual recovery and to their run rows that are still running.
ClaimScan(w) ==
    LET over   == {j \in expired : status[j] = "running"}
        free   == {j \in over : ~LockedByOther(w, j)}
        unsafe == {j \in free : RequiresManualRecovery(j)}
    IN  /\ pc[w] = "idle"
        /\ pc' = [pc EXCEPT ![w] = "scanned"]
        /\ locked' = [locked EXCEPT ![w] = free]
        /\ wrote' = [wrote EXCEPT ![w] = unsafe]
        /\ closing' = [closing EXCEPT ![w] =
                         {r \in unsafe \X Attempts : run[r[1]][r[2]] = "running"}]
        /\ expiredAt' = [expiredAt EXCEPT ![w] =
                           [j \in Jobs |-> IF j \in over THEN attempt[j] ELSE 0]]
        /\ todo' = [todo EXCEPT ![w] = {BatchOf[j] : j \in unsafe}]
        /\ UNCHANGED <<jobVars, batchVars, run, claimed, claimedAttempt, hasRun,
                       result, refreshing, verdict, written, cand, faults>>

\* A refreshBatchStatus statement starts: its sub-selects read this snapshot.
RefreshSnapshot(w, b) ==
    /\ pc[w] \in {"scanned", "finishing"}
    /\ b \in todo[w]
    /\ refreshing[w] = NoBatch
    /\ refreshing' = [refreshing EXCEPT ![w] = b]
    /\ verdict' = [verdict EXCEPT ![w] = RefreshedStatus(w, b)]
    /\ UNCHANGED <<jobVars, batchVars, run, workerVars, locked, wrote, closing,
                   expiredAt, todo, written, cand, faults>>

\* The refresh of a quarantined batch gets the row lock and writes the status
\* computed from the snapshot.
QuarantineRefresh(w, b) ==
    /\ pc[w] = "scanned"
    /\ refreshing[w] = b
    /\ ~BatchLockedByOther(w, b)
    /\ written' = [written EXCEPT ![w] = [@ EXCEPT ![b] = verdict[w]]]
    /\ todo' = [todo EXCEPT ![w] = @ \ {b}]
    /\ refreshing' = [refreshing EXCEPT ![w] = NoBatch]
    /\ verdict' = [verdict EXCEPT ![w] = "passed"]
    /\ UNCHANGED <<jobVars, batchVars, run, workerVars, locked, wrote, closing,
                   expiredAt, cand, faults>>

\* Faulty form of Claimable: a lease is not looked at.
ClaimableAnyLease(w, j) ==
    /\ BatchView(w, BatchOf[j]) \in Active
    /\ JobView(w, j) \in Active
    /\ j \notin cancelRequested
    /\ attempt[j] < MaxAttempts

\* The part of the candidate's WHERE clause that is checked again on the newest
\* row version when the row lock is taken.
Claimable(w, j) ==
    /\ BatchView(w, BatchOf[j]) \in Active
    /\ \/ JobView(w, j) = "pending"
       \/ JobView(w, j) = "running" /\ LeaseExpiredFor(w, j)
    /\ j \notin cancelRequested
    /\ attempt[j] < MaxAttempts

\* Faulty form of LiveJobs: expired leases are counted too.
LiveJobsWithExpired(w, b) == {j \in JobsOf(b) : JobView(w, j) = "running"}

\* The count(*) sub-select: running jobs of the batch with a live lease.
LiveJobs(w, b) ==
    {j \in JobsOf(b) : JobView(w, j) = "running" /\ ~LeaseExpiredFor(w, j)}

\* The candidate SELECT starts: its snapshot fixes which jobs qualify.
ClaimSelect(w) ==
    /\ pc[w] = "scanned"
    /\ todo[w] = {}
    /\ pc' = [pc EXCEPT ![w] = "locking"]
    /\ cand' = [cand EXCEPT ![w] =
                  {j \in Jobs : /\ Claimable(w, j)
                                /\ Cardinality(LiveJobs(w, BatchOf[j])) < Limit[BatchOf[j]]}]
    /\ UNCHANGED <<jobVars, batchVars, run, claimed, claimedAttempt, hasRun, result,
                   locked, wrote, closing, expiredAt, todo, refreshing, verdict,
                   written, faults>>

\* The rows FOR UPDATE OF b, j SKIP LOCKED can still return.
Lockable(w) ==
    {j \in cand[w] : /\ ~LockedByOther(w, j)
                     /\ ~BatchLockedByOther(w, BatchOf[j])
                     /\ Claimable(w, j)}

\* Faulty form of LeaseFor: a reclaim keeps the owner of the old attempt.
LeaseForFirstOwner(w, j) == IF owner[j] = NoOwner THEN w ELSE owner[j]

\* The lease_owner the claim writes.
LeaseFor(w, j) == w

\* The first lockable row is claimed and the transaction commits, quarantine
\* included.
ClaimJob(w, j) ==
    /\ pc[w] = "locking"
    /\ j \in Lockable(w)
    /\ \A k \in Lockable(w) : j <= k
    /\ status' = [k \in Jobs |-> IF k = j THEN "running"
                                 ELSE IF k \in wrote[w] THEN "needs_intervention"
                                 ELSE status[k]]
    /\ attempt' = [attempt EXCEPT ![j] = @ + 1]
    /\ owner' = [k \in Jobs |-> IF k = j THEN LeaseFor(w, j)
                                ELSE IF k \in wrote[w] THEN NoOwner
                                ELSE owner[k]]
    /\ expired' = expired \ (wrote[w] \cup {j})
    /\ batchStatus' = [b \in Batches |-> IF b = BatchOf[j] THEN "running"
                                         ELSE BatchView(w, b)]
    /\ started' = started \cup {BatchOf[j]}
    /\ run' = [k \in Jobs |-> [a \in Attempts |->
                 IF <<k, a>> \in closing[w] THEN "needs_intervention" ELSE run[k][a]]]
    /\ pc' = [pc EXCEPT ![w] = "claimed"]
    /\ claimed' = [claimed EXCEPT ![w] = j]
    /\ claimedAttempt' = [claimedAttempt EXCEPT ![w] = attempt[j] + 1]
    /\ EndTx(w)
    /\ UNCHANGED <<cancelRequested, hasRun, result, faults>>

\* No row: claimNextJob returns without COMMIT, and the deferred Rollback
\* undoes the quarantine as well.
ClaimNone(w) ==
    /\ pc[w] = "locking"
    /\ Lockable(w) = {}
    /\ LeaveRunOnce(w, "idle")
    /\ EndTx(w)
    /\ UNCHANGED <<jobVars, batchVars, run, faults>>

-----------------------------------------------------------------------------
(* runOnce after a successful claim                                        *)

\* StartClaimedJobRun inserts the run row of the attempt; it does not look at
\* the lease.
StartClaimedJobRun(w) ==
    /\ pc[w] = "claimed"
    /\ pc' = [pc EXCEPT ![w] = "started"]
    /\ hasRun' = hasRun \cup {w}
    /\ run' = [run EXCEPT ![claimed[w]][claimedAttempt[w]] = "running"]
    /\ UNCHANGED <<jobVars, batchVars, claimed, claimedAttempt, result, txVars, faults>>

\* The DSL of the job does not validate: the result is failed, with no run row.
StartClaimedJobRunError(w) ==
    /\ pc[w] = "claimed"
    /\ pc' = [pc EXCEPT ![w] = "executed"]
    /\ result' = [result EXCEPT ![w] = "failed"]
    /\ UNCHANGED <<jobVars, batchVars, run, claimed, claimedAttempt, hasRun, txVars,
                   faults>>

\* ExecuteBrowserCase returns: a decoded result has one of the four terminal
\* statuses, a transport or decoding error becomes a failed result.
ExecuteBrowserCase(w) ==
    /\ pc[w] = "started"
    /\ pc' = [pc EXCEPT ![w] = "executed"]
    /\ \E r \in Terminal : result' = [result EXCEPT ![w] = r]
    /\ UNCHANGED <<jobVars, batchVars, run, claimed, claimedAttempt, hasRun, txVars,
                   faults>>

\* FinishClaimedJobRun, the two UPDATEs: the job row is written only while its
\* lease_owner is this worker.
FinishUpdate(w) ==
    LET j == claimed[w]
    IN  /\ pc[w] = "executed"
        /\ ~LockedByOther(w, j)
        /\ owner[j] = w
        /\ pc' = [pc EXCEPT ![w] = "finishing"]
        /\ locked' = [locked EXCEPT ![w] = {j}]
        /\ wrote' = [wrote EXCEPT ![w] = {j}]
        /\ todo' = [todo EXCEPT ![w] = {BatchOf[j]}]
        /\ UNCHANGED <<jobVars, batchVars, run, claimed, claimedAttempt, hasRun,
                       result, closing, expiredAt, refreshing, verdict, written,
                       cand, faults>>

\* Faulty form of FinishConflict: the run row is committed all the same.
FinishConflictKeepsRun(w) ==
    LET j == claimed[w]
    IN  /\ pc[w] = "executed"
        /\ ~LockedByOther(w, j)
        /\ owner[j] # w
        /\ run' = [run EXCEPT ![j][claimedAttempt[w]] = result[w]]
        /\ LeaveRunOnce(w, "idle")
        /\ UNCHANGED <<jobVars, batchVars, txVars, faults>>

\* No job row matched: ErrConflict, and the run row keeps its status.
FinishConflict(w) ==
    LET j == claimed[w]
    IN  /\ pc[w] = "executed"
        /\ ~LockedByOther(w, j)
        /\ owner[j] # w
        /\ LeaveRunOnce(w, "idle")
        /\ UNCHANGED <<jobVars, batchVars, run, txVars, faults>>

\* UPDATE test_case_runs WHERE id = runID AND job_id = job: no row when the run
\* was never inserted (runID 0) or has been deleted.
FinishedRun(w, j, a) ==
    IF w \in hasRun /\ run[j][a] # "absent"
    THEN [run EXCEPT ![j][a] = result[w]] ELSE run

\* The refresh gets the batch row and the transaction commits.
FinishCommit(w) ==
    LET j == claimed[w]
    IN  /\ pc[w] = "finishing"
        /\ refreshing[w] # NoBatch
        /\ ~BatchLockedByOther(w, refreshing[w])
        /\ status' = [status EXCEPT ![j] = result[w]]
        /\ owner' = [owner EXCEPT ![j] = NoOwner]
        /\ expired' = expired \ {j}
        /\ batchStatus' = [batchStatus EXCEPT ![refreshing[w]] = verdict[w]]
        /\ run' = FinishedRun(w, j, claimedAttempt[w])
        /\ LeaveRunOnce(w, "idle")
        /\ EndTx(w)
        /\ UNCHANGED <<attempt, cancelRequested, started, faults>>

-----------------------------------------------------------------------------
(* Time and faults                                                         *)

\* lease_expires_at passes; no statement ever extends it.
LeaseExpire(j) ==
    /\ status[j] = "running"
    /\ j \notin expired
    /\ expired' = expired \cup {j}
    /\ UNCHANGED <<status, attempt, owner, cancelRequested, batchVars, run,
                   workerVars, txVars, faults>>

\* A statement fails (lost connection, deadlock victim): the transaction rolls
\* back, runLoop logs the error and polls again.
TxFailed(w) ==
    /\ faults < MaxFaults
    /\ pc[w] \in InTx
    /\ LeaveRunOnce(w, "idle")
    /\ EndTx(w)
    /\ faults' = faults + 1
    /\ UNCHANGED <<jobVars, batchVars, run>>

\* The process dies or is told to stop; PostgreSQL rolls its transaction back.
Crash(w) ==
    /\ faults < MaxFaults
    /\ pc[w] # "dead"
    /\ LeaveRunOnce(w, "dead")
    /\ EndTx(w)
    /\ faults' = faults + 1
    /\ UNCHANGED <<jobVars, batchVars, run>>

-----------------------------------------------------------------------------
Claim(w) ==
    \/ ClaimScan(w)
    \/ \E b \in Batches : RefreshSnapshot(w, b) \/ QuarantineRefresh(w, b)
    \/ ClaimSelect(w)
    \/ \E j \in Jobs : ClaimJob(w, j)
    \/ ClaimNone(w)

Process(w) ==
    \/ StartClaimedJobRun(w)
    \/ StartClaimedJobRunError(w)
    \/ ExecuteBrowserCase(w)
    \/ FinishUpdate(w)
    \/ FinishConflict(w)
    \/ FinishCommit(w)

\* One consumer's loop, faults aside.
RunLoop(w) == Claim(w) \/ Process(w)

Next ==
    \/ \E b \in Batches : CreateBatch(b) \/ CancelBatch(b)
    \/ \E j \in Jobs, a \in Attempts : DeleteExecution(j, a)
    \/ \E w \in Workers : RunLoop(w) \/ TxFailed(w) \/ Crash(w)
    \/ \E j \in Jobs : LeaseExpire(j)

Spec == Init /\ [][Next]_vars

\* A consumer that is alive keeps running its loop, and time passes.  Strong
\* fairness because PostgreSQL queues the waiters for a row lock: an UPDATE is not
\* overtaken for ever by other transactions that lock the row.
Fairness == /\ \A w \in Workers : SF_vars(RunLoop(w))
            /\ \A j \in Jobs : WF_vars(LeaseExpire(j))

FairSpec == Spec /\ Fairness

-----------------------------------------------------------------------------
(* Properties                                                              *)

\* Type invariant of the tables, the consumers and their transactions.
TypeOK ==
    /\ status \in [Jobs -> Status \cup {"absent"}]
    /\ attempt \in [Jobs -> 0..MaxAttempts]
    /\ owner \in [Jobs -> Workers \cup {NoOwner}]
    /\ expired \subseteq Jobs
    /\ cancelRequested \subseteq Jobs
    /\ batchStatus \in [Batches -> Status \cup {"absent"}]
    /\ started \subseteq Batches
    /\ run \in [Jobs -> [Attempts -> Status \cup {"absent"}]]
    /\ pc \in [Workers -> Busy \cup InTx \cup {"idle", "dead"}]
    /\ claimed \in [Workers -> Jobs \cup {NoJob}]
    /\ claimedAttempt \in [Workers -> 0..MaxAttempts]
    /\ \A w \in Workers : pc[w] \in Busy => claimed[w] \in Jobs
                                            /\ claimedAttempt[w] \in Attempts
    /\ hasRun \subseteq Workers
    /\ result \in [Workers -> Terminal]
    /\ locked \in [Workers -> SUBSET Jobs]
    /\ wrote \in [Workers -> SUBSET Jobs]
    /\ closing \in [Workers -> SUBSET (Jobs \X Attempts)]
    /\ expiredAt \in [Workers -> [Jobs -> 0..MaxAttempts]]
    /\ todo \in [Workers -> SUBSET Batches]
    /\ refreshing \in [Workers -> Batches \cup {NoBatch}]
    /\ verdict \in [Workers -> Status]
    /\ written \in [Workers -> [Batches -> Status \cup {"absent"}]]
    /\ cand \in [Workers -> SUBSET Jobs]
    /\ faults \in 0..MaxFaults

\* A batch that reports a terminal status (BatchReport, ExecuteCase's poll) has
\* no job left that is pending or running, whatever the order in which claims,
\* finishes, quarantines and cancellations computed and wrote that status.
TerminalBatchSettled ==
    \A b \in Batches : batchStatus[b] \in Terminal
        => \A j \in JobsOf(b) : status[j] \in Terminal

\* The terminal status of a batch is the one its jobs earned: refreshBatchStatus
\* writes it from a snapshot that may be older than the row lock it waits for.
\* A cancelled batch claims nothing, CancelBatch writes that over any status.
BatchVerdictSound ==
    \A b \in Batches :
        LET has(s) == \E j \in JobsOf(b) : status[j] = s
        IN  /\ batchStatus[b] = "passed"
                 => has("passed") /\ ~has("failed") /\ ~has("needs_intervention")
            /\ batchStatus[b] = "failed" => has("failed") /\ ~has("needs_intervention")
            /\ batchStatus[b] = "needs_intervention" => has("needs_intervention")

\* FinishClaimedJobRun compares lease_owner only, not the attempt: the comparison
\* still identifies the attempt, so a consumer whose job was claimed again can
\* never write the outcome of the newer attempt.
StaleWorkerFenced ==
    \A w \in Workers : pc[w] \in Busy /\ owner[claimed[w]] = w
        => attempt[claimed[w]] = claimedAttempt[w]

\* A job row is locked by one transaction at a time and only while it is running:
\* a finish, a quarantine and a claim of the same job never overlap, although the
\* scan and the claim skip locked rows instead of waiting.
OneWriterPerJob ==
    \A w \in Workers : \A j \in locked[w] :
        /\ status[j] = "running"
        /\ \A o \in Workers \ {w} : j \notin locked[o]

\* The two tables FinishClaimedJobRun writes agree, over conflicts, crashes and
\* reclaims: a running job has no finished run (so the report that
\* quarantineUnsafeExpiredJobs looks for is absent), and a job that a consumer
\* finished shows the status of the run row of its last attempt, unless that row
\* was deleted or never inserted.
RunsAgreeWithJobs ==
    \A j \in Jobs :
        /\ status[j] = "running"
              => \A a \in Attempts : run[j][a] \in {"absent", "running"}
        /\ status[j] \in {"passed", "failed"}
              => run[j][attempt[j]] \in {"absent", status[j]}

\* A job that is passed, failed, cancelled or waiting for an operator stays so and
\* is not attempted again, by a late finish or by a claim with an old snapshot.
JobOutcomeFinal ==
    [][\A j \in Jobs : status[j] \in Terminal
          => status'[j] = status[j] /\ attempt'[j] = attempt[j]]_vars

\* A batch that reached a terminal status never goes back to pending or running;
\* the only change left is CancelBatch writing cancelled over it.
BatchNeverReopens ==
    [][\A b \in Batches : batchStatus[b] \in Terminal
          => batchStatus'[b] \in {batchStatus[b], "cancelled"}]_vars

\* While the lease of an attempt is live nobody else gets the job: a claim whose
\* transaction saw the previous lease expired does not take over the new one.
LiveLeaseExclusive ==
    [][\A j \in Jobs : status[j] = "running" /\ j \notin expired
          => owner'[j] \in {owner[j], NoOwner} /\ attempt'[j] = attempt[j]]_vars

\* Once CancelBatch has committed, no claim that was already in flight starts
\* another attempt of a job of the batch.
CancelStopsClaims ==
    [][\A j \in cancelRequested : attempt'[j] = attempt[j]]_vars

\* The tables, seen without the transactions that write them.
Lifecycle == INSTANCE JobLifecycle
    WITH job <- status, tries <- attempt, holder <- owner, Nobody <- NoOwner

\* The interleaved statements of the consumers and of the API server implement
\* the life of a job that clients are promised: every transaction takes effect as
\* one step of JobLifecycle, or as none when it rolls back.
ImplementsLifecycle == Lifecycle!LifecycleSpec

\* Every job that is waiting is eventually claimed or cancelled, although claims
\* skip rows locked by others and leases of dead consumers hold slots of the
\* batch until they expire.
PendingEventuallyLeaves ==
    \A j \in Jobs : status[j] = "pending" ~> status[j] # "pending"

-----------------------------------------------------------------------------
(* What the documentation says and the code does not do.                   *)

\* docs/bug-log.md:1305 on an expired lease of a case with a click: the job is
\* closed as needs_intervention and its attempt must not grow.
ProtectedNeverReplayed ==
    \A j \in Protected : attempt[j] <= 1
=============================================================================
