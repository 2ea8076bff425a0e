-------------------------- MODULE MCExecutionQueue --------------------------
(* Small instances of ExecutionQueue.  Job 2 of a batch is the one whose     *)
(* DSL holds a click.                                                        *)
EXTENDS ExecutionQueue, TLC

\* One batch with one job.
SoloBatchOf   == 1 :> 1

\* One batch with two jobs.
OneBatchOf    == 1 :> 1 @@ 2 :> 1
OneBatchLimit == 1 :> 2
SerialLimit   == 1 :> 1

WorkerSymmetry == Permutations(Workers)
=============================================================================
