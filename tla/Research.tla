------------------------------ MODULE Research ------------------------------
(***************************************************************************)
(* The research control plane of internal/research: one experiment, its    *)
(* scheduled runs, and the requests that start, link, judge, measure,      *)
(* finish, cancel and export them.  Every request is a sequence of         *)
(* database statements of service.go; requests run concurrently with each  *)
(* other and with the agent runs and executions they measure, and may be   *)
(* abandoned (client gone, server crash, database error) at any statement. *)
(*                                                                         *)
(* A projection is its source snapshot: the projector is deterministic and *)
(* every transition carries the manifest with the snapshot's hash.  The    *)
(* same holds for metrics: they are a function of snapshot and oracle.     *)
(* An optional column is a sequence of length at most one.                 *)
(***************************************************************************)
EXTENDS ResearchSource

CONSTANTS Repetitions,   \* experiment.Repetitions
          Warmups,       \* config.WarmupRepetitions
          Requests,      \* requests in flight at one time
          Verdicts,      \* contents of an oracle decision
          Offered,       \* the requests clients send, as <<operation, run>>
          ClientLinks,   \* links the clients send
          Measured,      \* the runs whose agent run is started
          AgentEndings, ExecutionEndings   \* how agent runs and executions end

\* types.go rejects an experiment without a repetition.
ASSUME ScheduleAssumption ==
    /\ Repetitions \in Nat \ {0} /\ Warmups \in Nat
    /\ Measured \subseteq 1..(Warmups + Repetitions) /\ ClientLinks \subseteq Links
    /\ AgentEndings \subseteq {"completed", "failed"}
    /\ ExecutionEndings \subseteq {"passed", "failed", "lost"}

VARIABLES experiment,    \* research_experiments.status
          runs,          \* research_runs
          oracle,        \* research_oracle_results
          proj,          \* research_transitions of each run
          agent,         \* the agent run each research run measures
          req,           \* the requests in flight
          acked          \* outcomes FinishRun and CancelRun have reported

vars == <<experiment, runs, oracle, proj, agent, req, acked>>

\* BuildRunSchedule: warm-ups first, then the measured repetitions.
Runs == 1..(Warmups + Repetitions)

Terminal(s) == s \in {"completed", "failed", "cancelled"}

CanTransition(from, to) ==
    \/ from = "pending" /\ to \in {"running", "cancelled"}
    \/ from = "running" /\ to \in {"completed", "failed", "cancelled"}

NoRow == [status |-> "none", started |-> FALSE, links |-> NoLinks, metrics |-> << >>]
NewRow == [NoRow EXCEPT !.status = "pending"]

Operations == {"start", "measure", "complete", "fail", "cancel"}

Idle == [op |-> "idle", run |-> 0, pc |-> "idle", row |-> NoRow, exp |-> "none",
         snap |-> << >>, orc |-> << >>, tr |-> << >>]

Init == /\ experiment = "none"
        /\ runs = [r \in Runs |-> NoRow]
        /\ oracle = [r \in Runs |-> << >>]
        /\ proj = [r \in Runs |-> << >>]
        /\ agent = [r \in Runs |-> NewAgent]
        /\ req = [p \in Requests |-> Idle]
        /\ acked = [r \in Runs |-> {}]

\* The status a request writes.
Target(op) == CASE op = "start" -> "running" [] op = "complete" -> "completed"
                [] op = "fail" -> "failed" [] OTHER -> "cancelled"

Go(p, new) == req' = [req EXCEPT ![p] = new]
Step(p, next) == Go(p, [req[p] EXCEPT !.pc = next])
Return(p) == Go(p, Idle)
At(p, pc) == req[p].pc = pc

StoreSame == UNCHANGED <<experiment, runs, oracle, proj, agent, acked>>
-----------------------------------------------------------------------------
(***************************************************************************)
(* The experiment.                                                         *)
(***************************************************************************)

\* A second create with the same definition returns the stored experiment.
CreateExperiment ==
    /\ experiment = "none"
    /\ experiment' = "draft"
    /\ UNCHANGED <<runs, oracle, proj, agent, req, acked>>

\* StartExperiment; a request exists from its first read.
StartExperiment(p) ==
    /\ At(p, "idle") /\ experiment \in {"draft", "active"}
    /\ Go(p, [Idle EXCEPT !.op = "begin", !.run = 1, !.pc = "create", !.exp = experiment])
    /\ StoreSame

\* CreateRun for the next run of the schedule: an existing row is returned.
CreateRun(p) ==
    /\ At(p, "create")
    /\ LET r == req[p].run IN
         /\ runs' = [runs EXCEPT ![r] = IF @.status = "none" THEN NewRow ELSE @]
         /\ IF r + 1 \in Runs
            THEN Go(p, [req[p] EXCEPT !.run = r + 1])
            ELSE IF req[p].exp = "draft" THEN Step(p, "activate") ELSE Return(p)
    /\ UNCHANGED <<experiment, oracle, proj, agent, acked>>

\* CompareAndSwapExperimentStatus draft -> active; a lost race is tolerated.
Activate(p) ==
    /\ At(p, "activate")
    /\ experiment' = IF experiment = "draft" THEN "active" ELSE experiment
    /\ Return(p)
    /\ UNCHANGED <<runs, oracle, proj, agent, acked>>
-----------------------------------------------------------------------------
(***************************************************************************)
(* The reads a request starts with, and the decisions taken on them.       *)
(***************************************************************************)

\* FinishRun once the evidence is checked, on the row it read.
FinishDecision(q) ==
    IF q.row.status = Target(q.op) THEN "settle"
    ELSE IF q.row.status = "running" THEN "cas" ELSE "idle"

\* Faulty form: StartRun does not look at the experiment.
StartsDraft(q) == IF q.row.status = "pending" THEN "cas" ELSE "idle"

\* StartRun: a pending run of an active experiment.
StartDecision(q) ==
    IF q.exp = "active" /\ q.row.status = "pending" THEN "cas" ELSE "idle"

\* FinishRun(completed) wants metrics and complete links before it looks at the
\* evidence; FinishRun(failed) a run that has started.
EvidenceDecision(q) ==
    IF q.row.started /\ completeRunLinks(q.row.links) /\ q.row.metrics # << >>
    THEN "source" ELSE "idle"

\* CancelRun: repeating it is fine, cancelling an ended run is not.
CancelDecision(q) ==
    IF q.row.status = "cancelled" THEN "settle"
    ELSE IF Terminal(q.row.status) THEN "idle" ELSE "cas"

\* What a request does once runContext has read both rows.
Decision(q) ==
    CASE q.op = "start" -> StartDecision(q)
      [] q.op = "complete" -> EvidenceDecision(q)
      [] q.op = "fail" -> IF q.row.started THEN FinishDecision(q) ELSE "idle"
      [] q.op = "cancel" -> CancelDecision(q)

\* Go on at next; a compare-and-swap and what follows use the rows' statuses only.
Continue(p, q, next) ==
    CASE next = "idle" -> Return(p)
      [] next \in {"cas", "settle"} ->
           Go(p, [Idle EXCEPT !.op = q.op, !.run = q.run, !.pc = next, !.exp = q.exp,
                              !.row.status = IF next = "cas" THEN q.row.status ELSE @])
      [] OTHER -> Go(p, [q EXCEPT !.pc = next])

\* The columns of the run an operation goes on with.
Used(op, row) ==
    CASE op = "complete" -> row
      [] op = "measure" -> [NoRow EXCEPT !.links = row.links]
      [] OTHER -> [NoRow EXCEPT !.status = row.status, !.started = row.started]

\* GetRun, the first read of a request on a run.
ReadRow(p, op, r) ==
    /\ At(p, "idle") /\ runs[r].status # "none"
    /\ op = "measure" => completeRunLinks(runs[r].links)
    /\ Go(p, [Idle EXCEPT !.op = op, !.run = r, !.row = Used(op, runs[r]),
                          !.pc = IF op = "measure" THEN "source" ELSE "experiment"])
    /\ StoreSame

\* GetExperiment.
ReadExperiment(p) ==
    /\ At(p, "experiment")
    /\ LET q == [req[p] EXCEPT !.exp = experiment] IN Continue(p, q, Decision(q))
    /\ StoreSame
-----------------------------------------------------------------------------
(***************************************************************************)
(* Status changes: a compare-and-swap on the status that was read, then    *)
(* completeExperimentIfAllRunsTerminal on the experiment that was read.    *)
(***************************************************************************)

\* Faulty form: the update does not compare.
SwappedBlindly(row, from, to) ==
    [row EXCEPT !.status = to, !.started = @ \/ to = "running"]

\* CompareAndSwapRunStatus; a conflict ends the request.
Swapped(row, from, to) ==
    IF row.status = from /\ CanTransition(from, to)
    THEN [row EXCEPT !.status = to, !.started = @ \/ to = "running"]
    ELSE row

CompareAndSwapRunStatus(p) ==
    /\ At(p, "cas")
    /\ LET q == req[p]
           from == IF q.op = "start" THEN "pending"
                   ELSE IF q.op = "cancel" THEN q.row.status ELSE "running"
           row == runs[q.run]
       IN  /\ runs' = [runs EXCEPT ![q.run] = Swapped(row, from, Target(q.op))]
           /\ Continue(p, q, IF runs'[q.run] # row /\ q.op # "start" THEN "settle" ELSE "idle")
    /\ UNCHANGED <<experiment, oracle, proj, agent, acked>>

Acknowledge(p) == acked' = [acked EXCEPT ![req[p].run] = @ \cup {Target(req[p].op)}]

\* Faulty form: pending runs are not counted.
NoRunRunning == \A r \in Runs : runs[r].status # "running"

\* ListRuns: all scheduled runs exist and are terminal.
AllRunsTerminal == \A r \in Runs : Terminal(runs[r].status)

Settle(p) ==
    /\ At(p, "settle")
    /\ IF req[p].exp = "active" /\ AllRunsTerminal
       THEN Step(p, "finish") /\ UNCHANGED acked
       ELSE Return(p) /\ Acknowledge(p)
    /\ UNCHANGED <<experiment, runs, oracle, proj, agent>>

\* CompareAndSwapExperimentStatus active -> completed; losing the race is fine.
CompleteExperiment(p) ==
    /\ At(p, "finish")
    /\ experiment' = IF experiment = "active" THEN "completed" ELSE experiment
    /\ Acknowledge(p) /\ Return(p)
    /\ UNCHANGED <<runs, oracle, proj, agent>>
-----------------------------------------------------------------------------
(***************************************************************************)
(* immutableMetricSource: source snapshot, oracle, projection.             *)
(***************************************************************************)

\* PostgresSourceReader.Read; the service compares the snapshot's links with
\* the row it read, the export does not.
ReadSource(p) ==
    /\ At(p, "source")
    /\ LET q == req[p]
           links == runs[q.run].links
       IN  IF Readable(agent[q.run], links) /\ (q.op # "export" => links = q.row.links)
           THEN Go(p, [q EXCEPT !.snap = <<Snapshot(agent[q.run], links)>>, !.row.links = NoLinks, !.row.started = FALSE,
                                !.pc = IF q.op = "export" THEN "replace" ELSE "oracle"])
           ELSE Return(p)
    /\ StoreSame

\* GetOracle; without a decision there is nothing to measure.
ReadOracle(p) ==
    /\ At(p, "oracle")
    /\ LET q == req[p] IN
         IF oracle[q.run] = << >> THEN Return(p)
         ELSE Go(p, [q EXCEPT !.orc = oracle[q.run], !.pc = "state"])
    /\ StoreSame

\* GetProjectionState.  The service projects only when there is none.
ReadProjectionState(p) ==
    /\ At(p, "state")
    /\ Step(p, IF proj[req[p].run] = << >> THEN "replace" ELSE "list")
    /\ StoreSame

\* refreshProjection of cmd/research-export projects whatever there is.
RefreshProjection(p, r) ==
    /\ At(p, "idle") /\ runs[r].status # "none"
    /\ Go(p, [Idle EXCEPT !.op = "export", !.run = r, !.pc = "source", !.tr = proj[r]])
    /\ StoreSame

\* NewMetricSource: the stored transitions are those of the snapshot, and the
\* snapshot is final.
NewMetricSource(q, stored) ==
    stored = q.snap /\ validateImmutableMetricInputs(q.snap[1])

\* What the metrics are computed from; MetricProjector.Project is a function of it.
Metrics(q) == <<[snap |-> q.snap[1], orc |-> q.orc]>>

\* ProjectMetrics and validateCompletedRun on the transitions they got.
AfterSource(q, stored) ==
    IF ~NewMetricSource(q, stored) THEN "idle"
    ELSE IF q.op = "measure" THEN "write"
    ELSE IF q.row.metrics = Metrics(q) THEN FinishDecision(q) ELSE "idle"

\* The state ReplaceProjection compares with, and the cursor it locks.
CursorUnchanged(q) == Len(agent[q.run].log) = Len(q.snap[1].log)

\* Faulty form: ReplaceProjection trusts the cursor alone.
ProjectionUnchecked(q) == TRUE

ProjectionUnchanged(q) == proj[q.run] = q.tr

ReplaceProjection(p) ==
    /\ At(p, "replace")
    /\ LET q == req[p]
           replaced == CursorUnchanged(q) /\ ProjectionUnchanged(q)
       IN  /\ proj' = IF replaced THEN [proj EXCEPT ![q.run] = q.snap] ELSE proj
           /\ Continue(p, q, IF q.op = "export" THEN "idle"
                             ELSE IF replaced THEN AfterSource(q, q.snap)
                             ELSE IF CursorUnchanged(q) THEN "list" ELSE "idle")
    /\ UNCHANGED <<experiment, runs, oracle, agent, acked>>

ListTransitions(p) ==
    /\ At(p, "list")
    /\ Continue(p, req[p], AfterSource(req[p], proj[req[p].run]))
    /\ StoreSame

\* CompareAndSwapRunMetrics with the empty expectation: the first write stays.
CompareAndSwapRunMetrics(p) ==
    /\ At(p, "write")
    /\ LET q == req[p] IN
         runs' = [runs EXCEPT ![q.run].metrics = IF @ = << >> THEN Metrics(q) ELSE @]
    /\ Return(p)
    /\ UNCHANGED <<experiment, oracle, proj, agent, acked>>

\* Any statement may be the last one of a request.
Abandon(p) ==
    /\ ~At(p, "idle")
    /\ Return(p)
    /\ StoreSame
-----------------------------------------------------------------------------
(***************************************************************************)
(* Requests that are one transaction on a locked row.                      *)
(***************************************************************************)
UpdateRunLinks(r, l) ==
    /\ runs[r].status # "none"
    /\ OrderedPrefix(l) /\ linksExtend(runs[r].links, l) /\ validateRunLinks(agent[r], l)
    /\ runs' = [runs EXCEPT ![r].links = l]
    /\ UNCHANGED <<experiment, oracle, proj, agent, req, acked>>

\* Kept by execution: the link must be there; the first decision stays.
PutOracle(r, v) ==
    /\ runs[r].links.exec # 0
    /\ oracle[r] = << >>
    /\ oracle' = [oracle EXCEPT ![r] = <<v>>]
    /\ UNCHANGED <<experiment, runs, proj, agent, req, acked>>
-----------------------------------------------------------------------------
(***************************************************************************)
(* The agent run and its executions, as far as the source reader sees them *)
(***************************************************************************)
AgentDoes(r, new) ==
    /\ agent[r].status = "running" /\ runs[r].started
    /\ agent' = [agent EXCEPT ![r] = new]
    /\ UNCHANGED <<experiment, runs, oracle, proj, req, acked>>

\* generate_dsl publishes a generation, ask_user_question asks for approval.
AgentGenerates(r) ==
    LET a == agent[r]  g == a.latest + 1 IN
    /\ g \in Generations
    /\ AgentDoes(r, [a EXCEPT !.latest = g, !.log = @ \o <<Generated(g), Pending(g)>>])

\* The approving answer: its event and the approval column.
AgentAnswered(r) ==
    LET a == agent[r] IN
    /\ a.approved # a.latest
    /\ AgentDoes(r, [a EXCEPT !.log = Append(@, Answered(a.latest)), !.approved = a.latest])

\* execute_dsl runs the approved generation once no batch is active.
AgentExecutes(r) ==
    LET a == agent[r] IN
    /\ a.approved # 0 /\ a.approved = a.latest /\ a.exec[a.approved] = "none"
    /\ \A g \in Generations : a.exec[g] # "running"
    /\ AgentDoes(r, [a EXCEPT !.exec[a.approved] = "running",
                              !.log = Append(@, BatchMade(a.approved))])

AgentEnds(r, s) ==
    /\ agent[r].log # << >>
    /\ AgentDoes(r, [agent[r] EXCEPT !.status = s, !.log = Append(@, Finished)])

ExecutionEnds(r, g, s) ==
    /\ agent[r].exec[g] = "running"
    /\ agent' = [agent EXCEPT ![r].exec[g] = s]
    /\ UNCHANGED <<experiment, runs, oracle, proj, req, acked>>
-----------------------------------------------------------------------------
RequestStep(p) ==
    \/ \E r \in Runs, op \in Operations : <<op, r>> \in Offered /\ ReadRow(p, op, r)
    \/ \E r \in Runs : <<"export", r>> \in Offered /\ RefreshProjection(p, r)
    \/ StartExperiment(p) \/ CreateRun(p) \/ Activate(p) \/ ReadExperiment(p)
    \/ CompareAndSwapRunStatus(p) \/ Settle(p) \/ CompleteExperiment(p)
    \/ ReadSource(p) \/ ReadOracle(p) \/ ReadProjectionState(p) \/ ReplaceProjection(p)
    \/ ListTransitions(p) \/ CompareAndSwapRunMetrics(p) \/ Abandon(p)

ClientStep(r) ==
    \/ \E l \in ClientLinks : UpdateRunLinks(r, l)
    \/ \E v \in Verdicts : PutOracle(r, v)

AgentStep(r) ==
    \/ AgentGenerates(r) \/ AgentAnswered(r)
    \/ AgentExecutes(r) \/ \E s \in AgentEndings : AgentEnds(r, s)
    \/ \E g \in Generations, s \in ExecutionEndings : ExecutionEnds(r, g, s)

Next == \/ CreateExperiment
        \/ \E p \in Requests : RequestStep(p)
        \/ \E r \in Measured : ClientStep(r) \/ AgentStep(r)

Spec == Init /\ [][Next]_vars
-----------------------------------------------------------------------------
Optional(S) == {s \in Seq(S) : Len(s) <= 1}

Statuses == {"none", "pending", "running", "completed", "failed", "cancelled"}

Snapshots == [status : AgentStatuses, log : Seq(Events),
              exec : [Generations -> Executions], links : Links]

Measurements == [snap : Snapshots, orc : Optional(Verdicts)]

Rows == [status : Statuses, started : BOOLEAN, links : Links,
         metrics : Optional(Measurements)]

Agents == [status : AgentStatuses, log : Seq(Events), approved : 0..MaxGenerations,
           latest : 0..MaxGenerations, exec : [Generations -> Executions]]

RequestStates ==
    [op : Operations \cup {"idle", "begin", "export"}, run : Runs \cup {0},
     pc : {"idle", "create", "activate", "experiment", "cas", "settle", "finish",
           "source", "oracle", "state", "replace", "list", "write"},
     row : Rows, exp : {"none", "draft", "active", "completed"},
     snap : Optional(Snapshots), orc : Optional(Verdicts), tr : Optional(Snapshots)]

\* What the schema and types.go demand of a stored run: ordered links, and
\* started_at exactly when the status requires it.
RowOK(row) ==
    /\ OrderedPrefix(row.links)
    /\ row.status \in {"none", "pending"} => ~row.started
    /\ row.status \in {"running", "completed", "failed"} => row.started

TypeOK ==
    /\ experiment \in {"none", "draft", "active", "completed"}
    /\ runs \in [Runs -> Rows] /\ \A r \in Runs : RowOK(runs[r])
    /\ oracle \in [Runs -> Optional(Verdicts)] /\ proj \in [Runs -> Optional(Snapshots)]
    /\ agent \in [Runs -> Agents] /\ req \in [Requests -> RequestStates]
    /\ acked \in [Runs -> SUBSET Statuses]

(***************************************************************************)
(* FinishRun(completed): a completed run has metrics, and they were        *)
(* computed from the links and the oracle the run still has, from a        *)
(* completed agent run whose log has not moved since, and from an          *)
(* execution with a report (validateCompletedRun).  It takes the           *)
(* write-once links, oracle and metrics together with two checks made      *)
(* many statements before the status is written.                           *)
(***************************************************************************)
CompletedIsMeasured ==
    \A r \in Runs : runs[r].status = "completed" =>
        /\ runs[r].metrics # << >> /\ completeRunLinks(runs[r].links)
        /\ LET m == runs[r].metrics[1] IN
             /\ m.snap.links = runs[r].links /\ m.orc = oracle[r]
             /\ agent[r].status = "completed" /\ m.snap.log = agent[r].log
             /\ HasReport(agent[r].exec[runs[r].links.exec])

(***************************************************************************)
(* FinishRun and CancelRun racing on one run: clients are told at most one *)
(* outcome, and it is the one stored (CompareAndSwapRunStatus).            *)
(***************************************************************************)
OneOutcomeReported ==
    \A r \in Runs : acked[r] # {} => acked[r] = {runs[r].status}

(***************************************************************************)
(* completeExperimentIfAllRunsTerminal lists the runs and writes the       *)
(* experiment in a later statement, while StartExperiment may still be     *)
(* creating runs: a completed experiment has no run left to do.            *)
(***************************************************************************)
CompletedExperimentIsDone ==
    experiment = "completed" => \A r \in Runs : Terminal(runs[r].status)

\* A run starts only under an active experiment, so a run that has started
\* means the experiment was activated after its whole schedule was stored.
StartedMeansScheduled ==
    (\E r \in Runs : runs[r].started) =>
        experiment \in {"active", "completed"} /\ \A r \in Runs : runs[r].status # "none"

(***************************************************************************)
(* Once metrics are stored, what they were computed from stays: links,     *)
(* oracle and metrics of the run never change again.                       *)
(***************************************************************************)
MeasuredEvidenceFrozen ==
    [][\A r \in Runs : runs[r].metrics # << >> =>
          /\ runs'[r].metrics = runs[r].metrics /\ runs'[r].links = runs[r].links
          /\ oracle'[r] = oracle[r]]_vars

\* A terminal run keeps its status, whatever requests are still in flight.
TerminalRunIsFinal ==
    [][\A r \in Runs : Terminal(runs[r].status) => runs'[r].status = runs[r].status]_vars

\* b is a snapshot of the same source at a time not before a.
NotOlder(a, b) ==
    /\ Len(a.log) <= Len(b.log) /\ linksExtend(a.links, b.links)
    /\ \A g \in Generations : isTerminalExecutionStatus(a.exec[g]) => b.exec[g] = a.exec[g]

(***************************************************************************)
(* ReplaceProjection: a slow writer never puts an older snapshot's         *)
(* transitions over newer ones, although the source is read in another     *)
(* transaction (compare-and-swap on cursor and projection state).          *)
(***************************************************************************)
ProjectionNeverRegresses ==
    [][\A r \in Runs : proj[r] # << >> /\ proj'[r] # proj[r] =>
          proj'[r] # << >> /\ NotOlder(proj[r][1], proj'[r][1])]_vars
=============================================================================
