----------------------------- MODULE Trajectory -----------------------------
(***************************************************************************)
(* The trajectory of a research run: what Projector.Project (projector.go) *)
(* makes of an agent run's event log and its execution reports, and what   *)
(* MetricProjector.Project (metric_projector.go) counts in the same facts. *)
(* The log is written by the agent loop of harness.go, event by event, and *)
(* the projection is taken from any prefix of it, after any failed write   *)
(* or crash.                                                               *)
(*                                                                         *)
(* Abstractions: tool.started stands for itself and tool.args.delta,       *)
(* tool.result for itself and tool.finished; consecutive pipeline.trace    *)
(* events are one.  Every attempt and every step takes one unit of time.   *)
(* Tool call ids are chosen by the model provider: numbers in any order.   *)
(***************************************************************************)
EXTENDS Naturals, Sequences, FiniteSets

CONSTANTS MaxModelCalls,   \* bound on the turns of the agent loop
          MaxAttempts,     \* attempts of one model call
          MaxToolCalls,    \* bound on the tool calls of the run
          Jobs,            \* order indices of the jobs of the batch
          MaxRetries,      \* max_attempts of a job
          Steps            \* step indices of a report

ASSUME TrajectoryAssumption ==
    /\ {MaxModelCalls, MaxAttempts, MaxToolCalls, MaxRetries} \subseteq Nat
    /\ IsFiniteSet(Jobs) /\ Jobs \subseteq Nat
    /\ IsFiniteSet(Steps) /\ Steps \subseteq Nat

ToolIds == 1..MaxToolCalls

VARIABLES log,      \* agent_events of the run; the index is the seq
          turn,     \* what the loop still has to write of the model's answer
          status,   \* agent_runs.status
          reports   \* for each job the number of attempts that have a report

vars == <<log, turn, status, reports>>

Llm(m, n, ok, calls) == [type |-> "research.llm_call", model |-> m, attempt |-> n,
                         ok |-> ok, calls |-> calls, call |-> 0]
Trace == [type |-> "pipeline.trace", model |-> 0, attempt |-> 0, ok |-> FALSE,
          calls |-> {}, call |-> 0]
Tool(type, c) == [Trace EXCEPT !.type = type, !.call = c]
RunEvent(type) == [Trace EXCEPT !.type = type]

NoTurn == [model |-> 0, attempt |-> 0, last |-> 0, ok |-> FALSE, calls |-> << >>, call |-> 0]

Init == /\ log = <<RunEvent("run.started")>>
        /\ turn = NoTurn
        /\ status = "running"
        /\ reports = [j \in Jobs |-> 0]
-----------------------------------------------------------------------------
(***************************************************************************)
(* The operators of the projector.                                         *)
(***************************************************************************)
Least(S) == CHOOSE i \in S : \A j \in S : i <= j

ToolTypes == {"tool.started", "tool.pending", "tool.result", "tool.failed", "artifact.published"}
KnownTypes == ToolTypes \cup {"run.started", "run.finished", "run.failed", "research.llm_call"}

LlmEvents(l) == {i \in DOMAIN l : l[i].type = "research.llm_call"}
ToolEvents(l, c) == {i \in DOMAIN l : l[i].type \in ToolTypes /\ l[i].call = c}

ModelCalls(l) == {l[i].model : i \in LlmEvents(l)}
ToolCalls(l) == {l[i].call : i \in {j \in DOMAIN l : l[j].type \in ToolTypes}}

EventsOfModel(l, m) == {i \in LlmEvents(l) : l[i].model = m}
CallsOfModel(l, m) == UNION {l[i].calls : i \in EventsOfModel(l, m)}

\* validateModelAttempts, and no attempt of a logical call twice.
validateModelAttempts(l, m) ==
    /\ \A i, j \in EventsOfModel(l, m) : l[i].attempt = l[j].attempt => i = j
    /\ {l[i].attempt : i \in EventsOfModel(l, m)} = 1..Cardinality(EventsOfModel(l, m))

\* The model calls whose events are attached to a tool call.
LinkedModels(l, c) == {m \in ModelCalls(l) : c \in CallsOfModel(l, m)}
EventsLinked(l, c) == UNION {EventsOfModel(l, m) : m \in LinkedModels(l, c)}

Standalone(l) == {m \in ModelCalls(l) : CallsOfModel(l, m) \cap ToolCalls(l) = {}}

\* Faulty form: the last event of the call instead of the first.
LastSeq(l, c) == CHOOSE i \in ToolEvents(l, c) : \A j \in ToolEvents(l, c) : j <= i

FirstSeq(l, c) == Least(ToolEvents(l, c) \cup EventsLinked(l, c))

\* Faulty form: every tool call of an answer pays for it.
CostOwnerEach(l, c) == c

\* projectDecisionAndCost: the smallest id among the calls of the same answers.
CostOwner(l, c) == Least({c} \cup UNION {l[i].calls : i \in EventsLinked(l, c)})

SeqUnit == 1000000
JobUnit == 10000
AttemptUnit == 1000

Unit(kind, id, order, cost) == [kind |-> kind, id |-> id, order |-> order, cost |-> cost]

projectToolCall(l, c) ==
    Unit("tool", <<c>>, FirstSeq(l, c) * SeqUnit,
         IF CostOwner(l, c) = c THEN EventsLinked(l, c) ELSE {})

projectStandaloneModelCall(l, m) ==
    Unit("model", <<m>>, Least(EventsOfModel(l, m)) * SeqUnit, EventsOfModel(l, m))

projectUnknownEvent(i) == Unit("unknown", <<i>>, i * SeqUnit, {})

Unknown(l) == {i \in DOMAIN l : l[i].type \notin KnownTypes}

projectAgentUnits(l) ==
    {projectToolCall(l, c) : c \in ToolCalls(l)}
        \cup {projectStandaloneModelCall(l, m) : m \in Standalone(l)}
        \cup {projectUnknownEvent(i) : i \in Unknown(l)}

\* executionBatchAnchors: the event that published the batch.
Anchors(l) == {i \in DOMAIN l : l[i].type = "artifact.published"}

\* Faulty form: the step weighs as much as the attempt.
StepOrderFlat(anchor, j, n, s) == anchor * SeqUnit + j * JobUnit + n + s

StepOrder(anchor, j, n, s) == anchor * SeqUnit + j * JobUnit + n * AttemptUnit + s

\* One unit for each step of a report: it costs nothing and is decided by nobody,
\* since it plays an approved DSL.
projectExecutionStep(anchor, j, n, s) ==
    Unit("step", <<j, n, s>>, StepOrder(anchor, j, n, s), {})

\* The steps of the attempts that have a report.
projectExecutionUnits(l, rep) ==
    {projectExecutionStep(Least(Anchors(l)), x[1], x[2], x[3]) :
        x \in {y \in Jobs \X (1..MaxRetries) \X Steps :
                 Anchors(l) # {} /\ y[2] <= rep[y[1]]}}

\* Faulty form: the terminal unit takes the place of the last event.
TerminalOrderOfLast(l) == Len(l) * SeqUnit

TerminalOrder(l) == Len(l) * SeqUnit + (SeqUnit - 1)

projectTerminalUnit(l) == Unit("terminal", << >>, TerminalOrder(l), {})

Units(l, rep) ==
    projectAgentUnits(l) \cup projectExecutionUnits(l, rep) \cup {projectTerminalUnit(l)}

\* The sort of Project; equal orders are told apart by the unit's id.
Before(u, v) ==
    \/ u.order < v.order
    \/ u.order = v.order /\ u.kind = "tool" /\ v.kind = "tool" /\ u.id[1] < v.id[1]
-----------------------------------------------------------------------------
(***************************************************************************)
(* The operators of the metric projector.                                  *)
(***************************************************************************)
projectLLMCalls(l) == Cardinality(ModelCalls(l))

\* Faulty form: attempts of different calls are taken for one.
RetriesByNumber(l) == Cardinality({l[i].attempt : i \in {j \in LlmEvents(l) : l[j].attempt > 1}})

llmPhysicalRetries(l) ==
    Cardinality({<<l[i].model, l[i].attempt>> : i \in {j \in LlmEvents(l) : l[j].attempt > 1}})

\* Attempts, and the steps of the linked execution.
projectLatency(l) == Cardinality(LlmEvents(l)) + Cardinality(Steps)

\* Sum over the jobs of the attempts after the first, for a batch of which all
\* jobs have a report.
JobRetries(rep) ==
    Cardinality({x \in Jobs \X (1..MaxRetries) : x[2] > 1 /\ x[2] <= rep[x[1]]})

projectRetries(l, rep) == llmPhysicalRetries(l) + JobRetries(rep)
-----------------------------------------------------------------------------
(***************************************************************************)
(* The agent loop as a writer of events.                                   *)
(***************************************************************************)
Write(events) == log' = log \o events

Idle == turn = NoTurn

\* The model's answer: so many attempts, the last one good or not, with tool
\* calls under ids the provider has not used yet.
CallSequences ==
    {<< >>} \cup {<<c>> : c \in ToolIds} \cup {<<c, d>> : c \in ToolIds, d \in ToolIds}

FreshCalls(s) ==
    /\ \A i, j \in DOMAIN s : s[i] = s[j] => i = j
    /\ \A i \in DOMAIN s : \A k \in DOMAIN log : s[i] # log[k].call /\ s[i] \notin log[k].calls

ModelAnswers(n, ok, calls) ==
    /\ status = "running" /\ Idle
    /\ Cardinality(ModelCalls(log)) < MaxModelCalls
    /\ FreshCalls(calls) /\ (~ok => calls = << >>)
    /\ turn' = [NoTurn EXCEPT !.model = Cardinality(ModelCalls(log)) + 1, !.last = n,
                              !.ok = ok, !.calls = calls]
    /\ UNCHANGED <<log, status, reports>>

AttemptNumber(t) == t.attempt + 1

\* RecordModelTelemetry: one event and one trace for each attempt; only the good
\* one names the tool calls.
RecordAttempt ==
    /\ status = "running" /\ turn.attempt < turn.last
    /\ LET good == turn.ok /\ turn.attempt + 1 = turn.last IN
         Write(<<Llm(turn.model, AttemptNumber(turn), good,
                     IF good THEN {turn.calls[i] : i \in DOMAIN turn.calls} ELSE {}), Trace>>)
    /\ turn' = [turn EXCEPT !.attempt = @ + 1]
    /\ UNCHANGED <<status, reports>>

\* Every attempt failed, or the answer has no tool call (left): the run ends or
\* the loop asks again.
TurnWritten == turn.model # 0 /\ turn.attempt = turn.last /\ turn.call = 0

StartTool ==
    /\ status = "running" /\ TurnWritten /\ turn.calls # << >>
    /\ Write(<<Tool("tool.started", Head(turn.calls))>>)
    /\ turn' = [turn EXCEPT !.call = Head(turn.calls), !.calls = Tail(@)]
    /\ UNCHANGED <<status, reports>>

\* recordToolResult, with the batch as artifact for execute_dsl.
ToolReturns(artifact) ==
    /\ status = "running" /\ turn.call # 0
    /\ artifact => Anchors(log) = {}
    /\ Write(<<Tool("tool.result", turn.call)>>
               \o IF artifact THEN <<Tool("artifact.published", turn.call)>> ELSE << >>)
    /\ turn' = [turn EXCEPT !.call = 0]
    /\ UNCHANGED <<status, reports>>

ToolFails ==
    /\ status = "running" /\ turn.call # 0
    /\ Write(<<Tool("tool.failed", turn.call)>>)
    /\ turn' = [turn EXCEPT !.call = 0]
    /\ UNCHANGED <<status, reports>>

\* ask_user_question: the loop returns, the calls after it are not made.
ToolAsks ==
    /\ status = "running" /\ turn.call # 0
    /\ Write(<<Tool("tool.pending", turn.call)>>)
    /\ turn' = [turn EXCEPT !.calls = << >>]
    /\ status' = "waiting_user"
    /\ UNCHANGED reports

UserAnswers ==
    /\ status = "waiting_user"
    /\ Write(<<Tool("tool.result", turn.call)>>)
    /\ turn' = NoTurn
    /\ status' = "running"
    /\ UNCHANGED reports

TurnEnds ==
    /\ status = "running" /\ TurnWritten /\ turn.calls = << >>
    /\ turn' = NoTurn
    /\ UNCHANGED <<log, status, reports>>

\* The run ends between two events: by its own answer, by a failed write or a
\* cancellation, wherever it is.
RunEnds(s) ==
    /\ status \in {"running", "waiting_user"}
    /\ s = "completed" => Idle
    /\ status' = s
    /\ Write(<<RunEvent(IF s = "completed" THEN "run.finished" ELSE "run.failed")>>)
    /\ turn' = NoTurn
    /\ UNCHANGED reports

\* The worker reports an attempt of a job of the batch.
JobReported(j) ==
    /\ Anchors(log) # {} /\ reports[j] < MaxRetries
    /\ reports' = [reports EXCEPT ![j] = @ + 1]
    /\ UNCHANGED <<log, turn, status>>

Next ==
    \/ \E n \in 1..MaxAttempts, ok \in BOOLEAN, calls \in CallSequences :
          ModelAnswers(n, ok, calls)
    \/ RecordAttempt \/ StartTool \/ (\E artifact \in BOOLEAN : ToolReturns(artifact))
    \/ ToolFails \/ ToolAsks \/ UserAnswers \/ TurnEnds
    \/ \E s \in {"completed", "failed"} : RunEnds(s)
    \/ \E j \in Jobs : JobReported(j)

Spec == Init /\ [][Next]_vars
-----------------------------------------------------------------------------
Events == [type : KnownTypes \cup {"pipeline.trace"}, model : 0..MaxModelCalls,
           attempt : 0..MaxAttempts, ok : BOOLEAN, calls : SUBSET ToolIds,
           call : 0..MaxToolCalls]

TypeOK ==
    /\ log \in Seq(Events)
    /\ turn \in [model : 0..MaxModelCalls, attempt : 0..MaxAttempts, last : 0..MaxAttempts,
                 ok : BOOLEAN, calls : Seq(ToolIds), call : 0..MaxToolCalls]
    /\ status \in {"running", "waiting_user", "completed", "failed"}
    /\ reports \in [Jobs -> 0..MaxRetries]

\* The model calls whose cost is recorded under a tool call that has no event.
Orphaned(l, m) ==
    /\ CallsOfModel(l, m) \cap ToolCalls(l) # {}
    /\ Least(CallsOfModel(l, m)) \notin ToolCalls(l)

(***************************************************************************)
(* Each attempt of a model call is paid for by exactly one unit of the     *)
(* trajectory, also when several tool calls share the answer; the one      *)
(* exception is an answer whose smallest call id was never started while   *)
(* another call of it was, and then by none (projectDecisionAndCost).      *)
(***************************************************************************)
CostPartitioned ==
    \A i \in LlmEvents(log) :
        Cardinality({u \in Units(log, reports) : i \in u.cost}) =
            IF Orphaned(log, log[i].model) THEN 0 ELSE 1

(***************************************************************************)
(* Done is on the last transition: the terminal unit comes after every     *)
(* other, the steps of reports that arrive after the run has ended too.    *)
(***************************************************************************)
TerminalIsLast ==
    \A u \in Units(log, reports) : u.kind # "terminal" => Before(u, projectTerminalUnit(log))

(***************************************************************************)
(* The order of a trajectory is that of cause and effect: a step comes     *)
(* after the tool call that published its batch, before every unit that    *)
(* starts later, and the attempts of a job come one after the other.       *)
(***************************************************************************)
StepsInOrder ==
    \A u \in projectExecutionUnits(log, reports) :
        LET anchor == Least(Anchors(log)) IN
        /\ Before(projectToolCall(log, log[anchor].call), u)
        /\ \A v \in projectAgentUnits(log) : v.order > anchor * SeqUnit => Before(u, v)
        /\ \A v \in projectExecutionUnits(log, reports) :
              u.id[1] = v.id[1] /\ u.id[2] < v.id[2] => Before(u, v)

(***************************************************************************)
(* Every log the agent loop can leave behind, whatever write failed, is    *)
(* one the projectors accept (validateModelAttempts), and their two        *)
(* readings of it agree: the latency metric is the time of the units that  *)
(* pay for attempts, of the orphaned calls and of the linked execution's   *)
(* steps; the retries are the attempts beyond one for each call and job.   *)
(***************************************************************************)
MetricsAgree ==
    /\ \A m \in ModelCalls(log) : validateModelAttempts(log, m)
    /\ LET paid == UNION {u.cost : u \in Units(log, reports)}
           orphaned == {i \in LlmEvents(log) : Orphaned(log, log[i].model)}
       IN  projectLatency(log) =
             Cardinality(paid) + Cardinality(orphaned) + Cardinality(Steps)
    /\ projectRetries(log, reports) + projectLLMCalls(log) =
         Cardinality(LlmEvents(log)) + JobRetries(reports)

\* The units that stay: a standalone model call becomes part of the unit of its
\* tool call once that has an event, and the terminal unit moves on.
Places(l, rep) ==
    {<<u.kind, u.id, u.order>> :
        u \in {x \in Units(l, rep) : x.kind \in {"tool", "unknown", "step"}}}

(***************************************************************************)
(* A trajectory read while the run goes on is the beginning of a history:  *)
(* units do not disappear and do not change places when events and reports *)
(* are added.                                                              *)
(***************************************************************************)
PlacesAreKept == [][Places(log, reports) \subseteq Places(log', reports')]_vars
=============================================================================
