--------------------------- MODULE ResearchSource ---------------------------
(***************************************************************************)
(* The facts a research run is measured from, as internal/research reads   *)
(* them: the event log of one agent run, the approvals that follow from    *)
(* it, the batches and executions the log names, and the links of the      *)
(* research run to them (source.go, and the link checks of postgres.go).   *)
(* Pure operators over a record of facts                                   *)
(*                                                                         *)
(*   [status   |-> the agent run's status,                                 *)
(*    log      |-> its events, the index being the event's seq,            *)
(*    approved |-> agent_runs.approved_generation_id, 0 for NULL,          *)
(*    latest   |-> agent_runs.latest_generation_id, 0 for NULL,            *)
(*    exec     |-> for each generation the state of the execution of its   *)
(*                 batch, "none" before the batch exists]                  *)
(*                                                                         *)
(* A batch is named by its generation: execute_dsl's idempotency key is    *)
(* agent:<run>:generation:<id>, one batch for each generation, and the     *)
(* model gives it one job with one execution.                              *)
(***************************************************************************)
EXTENDS Naturals, Sequences, FiniteSets

CONSTANTS MaxGenerations,   \* bound on the DSL generations of one agent run
          SHA               \* the canonical DSL hash of each generation

Generations == 1..MaxGenerations

ASSUME GenerationAssumption ==
    MaxGenerations \in Nat \ {0} /\ DOMAIN SHA = Generations

AgentStatuses == {"running", "completed", "failed"}

(***************************************************************************)
(* Execution states.  "lost" is the execution whose lease expired after a  *)
(* protected action: needs_intervention, with no report.                   *)
(***************************************************************************)
Executions == {"none", "running", "passed", "failed", "lost"}

isTerminalExecutionStatus(x) == x \in {"passed", "failed", "lost"}

\* A terminal execution carries a report unless the worker never sent one.
HasReport(x) == x \in {"passed", "failed"}

NewAgent == [status |-> "running", log |-> << >>, approved |-> 0, latest |-> 0,
             exec |-> [g \in Generations |-> "none"]]

Generated(g) == [type |-> "artifact.published", kind |-> "dsl_generation", id |-> g]
BatchMade(g) == [type |-> "artifact.published", kind |-> "execution_batch", id |-> g]
Pending(c)   == [type |-> "tool.pending", kind |-> "approval", id |-> c]
Answered(c)  == [type |-> "tool.result", kind |-> "approval", id |-> c]
Finished     == [type |-> "run.finished", kind |-> "none", id |-> 0]

Events == {Generated(g) : g \in Generations} \cup {BatchMade(g) : g \in Generations}
          \cup {Pending(c) : c \in Generations} \cup {Answered(c) : c \in Generations}
          \cup {Finished}
-----------------------------------------------------------------------------
(***************************************************************************)
(* Links: an ordered prefix agent -> generation -> batch -> execution, the *)
(* hash beside the generation.                                             *)
(***************************************************************************)
NoLinks == [agent |-> FALSE, gen |-> 0, batch |-> 0, exec |-> 0, sha |-> FALSE]

Links == [agent : BOOLEAN, gen : 0..MaxGenerations, batch : 0..MaxGenerations,
          exec : 0..MaxGenerations, sha : BOOLEAN]

OrderedPrefix(l) ==
    /\ l.gen # 0 => l.agent
    /\ l.batch # 0 => l.gen # 0
    /\ l.exec # 0 => l.batch # 0
    /\ l.sha => l.gen # 0

completeRunLinks(l) == l.agent /\ l.gen # 0 /\ l.batch # 0 /\ l.exec # 0 /\ l.sha

pointerExtends(cur, next) == cur = 0 \/ cur = next

\* Faulty form: the execution link may be replaced.
linksReplace(cur, next) ==
    /\ cur.agent => next.agent
    /\ pointerExtends(cur.gen, next.gen)
    /\ cur.sha => next.sha

linksExtend(cur, next) ==
    /\ cur.agent => next.agent
    /\ pointerExtends(cur.gen, next.gen)
    /\ pointerExtends(cur.batch, next.batch)
    /\ pointerExtends(cur.exec, next.exec)
    /\ cur.sha => next.sha

(***************************************************************************)
(* What UpdateRunLinks accepts: the generation is the latest or the        *)
(* approved one of the agent run, the batch carries a job with its hash,   *)
(* the execution belongs to that batch.                                    *)
(***************************************************************************)
validateRunLinks(a, l) ==
    /\ l.gen # 0 => l.gen \in {a.latest, a.approved}
    /\ l.batch # 0 => a.exec[l.batch] # "none" /\ SHA[l.batch] = SHA[l.gen]
    /\ l.exec # 0 => l.exec = l.batch
-----------------------------------------------------------------------------
(***************************************************************************)
(* Approvals: an approving answer approves the generation published last   *)
(* before the question of the same tool call was asked.                    *)
(***************************************************************************)
PendingSeqs(log, c, n) == {i \in 1..n - 1 : log[i] = Pending(c)}

PublishedBefore(log, n) ==
    {i \in 1..n - 1 : \E g \in Generations : log[i] = Generated(g)}

Latest(S) == CHOOSE i \in S : \A j \in S : j <= i

Approvals(log) == {n \in DOMAIN log : \E c \in Generations : log[n] = Answered(c)}

\* The approval at seq n has its question and a generation before it.
ApprovalCaused(log, n) ==
    LET asked == PendingSeqs(log, log[n].id, n)
    IN  asked # {} /\ PublishedBefore(log, Latest(asked)) # {}

ApprovedBy(log, n) ==
    log[Latest(PublishedBefore(log, Latest(PendingSeqs(log, log[n].id, n))))].id

approvedGenerations(log) == {ApprovedBy(log, n) : n \in Approvals(log)}

executionBatchArtifactIDs(log) == {g \in Generations : BatchMade(g) \in {log[i] : i \in DOMAIN log}}

BatchArtifactsDistinct(log) ==
    \A i, j \in DOMAIN log : log[i].kind = "execution_batch" /\ log[i] = log[j] => i = j

(***************************************************************************)
(* Batches are read only when something is approved; each must run an      *)
(* approved generation.                                                    *)
(***************************************************************************)
readBatches(log) ==
    IF approvedGenerations(log) = {} THEN {} ELSE executionBatchArtifactIDs(log)

\* A terminal execution without a report makes the source unreadable.
readExecutions(a, g) == isTerminalExecutionStatus(a.exec[g]) => HasReport(a.exec[g])

\* The jobs of the batches: each carries the hash of its generation, by the way
\* batches are named here, and is read with its executions.
readJobs(a, batches) == \A g \in batches : readExecutions(a, g)

\* The row of every approved generation is there.
readGenerations(a) == \A g \in approvedGenerations(a.log) : g \in 1..a.latest

validateSourceLinks(a, l) ==
    /\ l.gen # 0 => l.gen \in approvedGenerations(a.log) /\ l.sha
    /\ l.batch # 0 => l.batch \in readBatches(a.log) /\ l.batch = l.gen
    /\ l.exec # 0 => l.exec \in readBatches(a.log)

\* Every refusal of PostgresSourceReader.Read, in one repeatable-read snapshot.
Readable(a, l) ==
    /\ l.agent
    /\ a.log # << >>
    /\ \A n \in Approvals(a.log) : ApprovalCaused(a.log, n)
    /\ a.approved # 0 => a.approved \in approvedGenerations(a.log)
    /\ readGenerations(a)
    /\ BatchArtifactsDistinct(a.log)
    /\ readBatches(a.log) \subseteq approvedGenerations(a.log)
    /\ readJobs(a, readBatches(a.log))
    /\ validateSourceLinks(a, l)

\* What the snapshot's hash covers.
Snapshot(a, l) == [status |-> a.status, log |-> a.log,
                   exec |-> [g \in Generations |->
                               IF g \in readBatches(a.log) THEN a.exec[g] ELSE "none"],
                   links |-> l]

\* Faulty form: an agent run that is still going is measured.
validateInputsAnyStatus(s) == completeRunLinks(s.links) /\ HasReport(s.exec[s.links.exec])

(***************************************************************************)
(* The inputs metrics may be computed from: a completed agent run, complete *)
(* links, a terminal final execution with its report.                      *)
(***************************************************************************)
validateImmutableMetricInputs(s) ==
    /\ s.status = "completed"
    /\ completeRunLinks(s.links)
    /\ HasReport(s.exec[s.links.exec])
=============================================================================
