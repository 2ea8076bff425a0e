---------------------------- MODULE JobLifecycle ----------------------------
(***************************************************************************)
(* What the execution queue promises to its clients about jobs, without    *)
(* transactions, row locks, snapshots, run rows or batch statuses: a batch *)
(* is submitted as a whole; a job is handed to one consumer at a time, at  *)
(* most MaxAttempts times; only the consumer that holds it decides its     *)
(* outcome; a job handed to nobody may be withdrawn; and a job that needs  *)
(* an operator is given up for good.                                       *)
(***************************************************************************)
EXTENDS Naturals

CONSTANTS
    Workers,      \* consumers
    Jobs,         \* job ids
    Batches,      \* batch ids
    BatchOf,      \* the batch of each job
    MaxAttempts,  \* how often a job may be handed out
    Nobody        \* the job is with no consumer

VARIABLES
    job,          \* the state of each job
    tries,        \* how often it was handed out
    holder        \* the consumer that has it

lifecycleVars == <<job, tries, holder>>

Outcomes == {"passed", "failed", "needs_intervention", "cancelled"}

LifecycleInit ==
    /\ job = [j \in Jobs |-> "absent"]
    /\ tries = [j \in Jobs |-> 0]
    /\ holder = [j \in Jobs |-> Nobody]

\* The jobs of a batch become visible together.
Submit(b) ==
    /\ \A j \in Jobs : BatchOf[j] = b => job[j] = "absent"
    /\ job' = [j \in Jobs |-> IF BatchOf[j] = b THEN "pending" ELSE job[j]]
    /\ UNCHANGED <<tries, holder>>

\* The jobs of a batch that nobody has started are cancelled.
Withdraw(b) ==
    /\ job' = [j \in Jobs |-> IF BatchOf[j] = b /\ job[j] = "pending"
                              THEN "cancelled" ELSE job[j]]
    /\ UNCHANGED <<tries, holder>>

\* A job goes to consumer w, for the first time or again, while the jobs of lost
\* are found abandoned and left to an operator.
HandOut(w, j, lost) ==
    /\ job[j] \in {"pending", "running"}
    /\ tries[j] < MaxAttempts
    /\ \A k \in lost : k # j /\ job[k] = "running"
    /\ job' = [k \in Jobs |-> IF k = j THEN "running"
                              ELSE IF k \in lost THEN "needs_intervention" ELSE job[k]]
    /\ tries' = [tries EXCEPT ![j] = @ + 1]
    /\ holder' = [k \in Jobs |-> IF k = j THEN w
                                 ELSE IF k \in lost THEN Nobody ELSE holder[k]]

\* The consumer that holds the job reports its outcome.
Report(w, j, outcome) ==
    /\ job[j] = "running"
    /\ holder[j] = w
    /\ job' = [job EXCEPT ![j] = outcome]
    /\ holder' = [holder EXCEPT ![j] = Nobody]
    /\ UNCHANGED tries

LifecycleNext ==
    \/ \E b \in Batches : Submit(b) \/ Withdraw(b)
    \/ \E w \in Workers, j \in Jobs, lost \in SUBSET Jobs : HandOut(w, j, lost)
    \/ \E w \in Workers, j \in Jobs, o \in Outcomes : Report(w, j, o)

LifecycleSpec == LifecycleInit /\ [][LifecycleNext]_lifecycleVars
=============================================================================
