---------------------------- MODULE PlanWorkflow ----------------------------
(* One agent run and its task plan: the tool loop of harness.go with its     *)
(* gates (taskplan.Service.Authorize, policy.go), the capabilities behind    *)
(* the tools (tools/*.go) and what they leave in task_plans, in the          *)
(* generations and in the execution batches, next to a user who answers, a   *)
(* cancel request and the execution queue.                                   *)
(*                                                                           *)
(* The language model is the environment: it proposes any call of Calls. A   *)
(* call is a tool with its argument: the definition (the current one also in *)
(* another wording of its goal), the probe, the plan version and the kind  *)
(* of draft, the generation or the batch.                                    *)
EXTENDS TaskPlan

CONSTANTS
    Definitions,   \* a sequence of plan definitions the model may submit
    Probes,        \* a sequence of explore calls
    Results,       \* a sequence of exploration results
    Foreign,       \* other batches of the session when the run starts
    Outcomes,      \* how a batch may end: its status and failure signals
    DraftKinds,    \* the drafts the model may write, see ModelDraft
    MaxVersions,   \* bound on plan versions
    MaxGens,       \* bound on generations
    MaxWork,       \* bound on versions and generations together
    MaxWasted,     \* bound on refused and failed calls
    MaxFaults,     \* bound on failing saves, inserts and model calls
    MaxRunPage,    \* MaxRunExplorePageCalls
    MaxRunFlow,    \* MaxRunExploreFlowCalls
    MaxPlanPage,   \* MaxExplorePageCalls
    MaxPlanFlow    \* MaxExploreFlowCalls

VARIABLES
    plans,      \* task_plans: the versions of the run's plan
    run,        \* agent_runs: status, latest and approved generation
    drv,        \* the loop: where it is, its call, the result, the plan it read
    gens,       \* dsl_generation_runs: plan version and compiled case
    batches,    \* execution_batches: generation (0: not of this run), status
    cases,      \* test cases created by execute_dsl
    attempts,   \* governance calls that have a tool message in the transcript
    probes,     \* explore calls that have a summary in the transcript
    cancel,     \* the cancel request
    wasted, faults,
    approvals   \* history: generations the user approved

vars == <<plans, run, drv, gens, batches, cases, attempts, probes, cancel,
          wasted, faults, approvals>>

NoPlan == <<>>

\* A failure of a batch: its category and whether its action may be replayed.
Signals == [category: Words, replay: BOOLEAN]

PlanBoundsAssumption ==
    /\ {MaxVersions, MaxGens, MaxWork, MaxWasted, MaxFaults} \subseteq Nat
    /\ {MaxRunPage, MaxRunFlow, MaxPlanPage, MaxPlanFlow} \subseteq Nat \ {0}
ASSUME PlanBoundsAssumption

\* What the model, the browser and the queue may come up with. The batches that are
\* there when the run starts are of no generation of it.
PlanInputsAssumption ==
    /\ Definitions \in Seq(PlanDefinitions)
    /\ \A n \in DOMAIN Definitions : Ungrounded(Definitions[n].steps)
    /\ DOMAIN Probes = 1..Len(Probes) /\ Len(Probes) \in Nat
    /\ \A n \in DOMAIN Probes : Probes[n].tool \in {"explore_page", "explore_flow"}
    /\ DOMAIN Results = 1..Len(Results) /\ Len(Results) \in Nat
    /\ \A r \in DOMAIN Results : Results[r].obs \in Nat
    /\ Foreign \in Seq([gen: {0}, status: Words, signals: SUBSET Signals])
    /\ \A end \in Outcomes : end.status \in Words /\ end.signals \subseteq Signals
    /\ DraftKinds \subseteq 0..6
ASSUME PlanInputsAssumption

NoCall == [tool |-> "none", n |-> 0, v |-> 0, draft |-> <<>>]
NoResult == [ok |-> TRUE, n |-> 0, s |-> "done"]
Governance == {"set_task_plan", "generate_dsl", "get_report", "fix_and_retry"}
Exploration == {"explore_page", "explore_flow"}
ReportTerminal == {"passed", "failed", "needs_intervention", "cancelled"}

\* GetCurrent: the newest version, as a sequence of at most one plan.
GetCurrent == IF plans = <<>> THEN NoPlan ELSE <<plans[Len(plans)]>>

Current == plans[Len(plans)]

Init ==
    /\ plans = <<>>
    /\ run = [status |-> "running", latest |-> 0, approved |-> 0]
    /\ drv = [pc |-> "model", call |-> NoCall, res |-> NoResult, snap |-> NoPlan]
    /\ gens = <<>>
    /\ batches = Foreign
    /\ cases = 0
    /\ attempts = {} /\ probes = {}
    /\ cancel = [pc |-> "idle", ctx |-> FALSE, snap |-> NoPlan]
    /\ wasted = 0 /\ faults = 0
    /\ approvals = {}

-----------------------------------------------------------------------------
(* What the model may propose.                                               *)

\* The draft the model writes for a plan: 0 repeats it, 1 rewords the intents, 2
\* leaves out the last step, 3 writes another value, 4 copies a compiler-owned
\* field, 5 names the binding of no step, 6 has the profile research-v1.
ModelDraft(plan, kind) ==
    LET planned == ExpandedPlanSteps(plan.steps)
        repeat(s) == [id |-> s.id, action |-> s.action, value |-> s.value,
                      target |-> s.target, trigger |-> s.trigger, key |-> s.key,
                      timeout |-> s.timeout, idem |-> s.idem, effect |-> s.effect,
                      intent |-> IF kind = 1 THEN {"reworded"} ELSE s.intent,
                      owned |-> kind = 4,
                      binding |-> IF kind = 5 THEN NoBinding ELSE s.binding,
                      pre |-> {[kind |-> ParseConditionIntent(c).kind,
                                value |-> ParseConditionIntent(c).value] : c \in s.pre},
                      post |-> {[kind |-> ParseConditionIntent(c).kind,
                                 value |-> ParseConditionIntent(c).value] : c \in s.post}]
        draft == [i \in DOMAIN planned |-> repeat(planned[i])]
        last == Len(draft)
    IN  CASE kind = 2 -> SubSeq(draft, 1, last - 1)
          [] kind = 3 -> [draft EXCEPT ![last].value = @ \cup {"other"}]
          [] OTHER -> draft

Call(tool, n, v) ==
    [tool |-> tool, n |-> n, v |-> v,
     draft |-> IF tool = "generate_dsl" THEN ModelDraft(Current, v) ELSE <<>>]

Calls ==
    {Call("set_task_plan", n, 0) : n \in DOMAIN Definitions}
    \cup {Call("set_task_plan", n, 1) : n \in {m \in DOMAIN Definitions :
            plans # <<>> /\ Current.def = Normalized(Definitions[m])}}
    \cup {Call(Probes[n].tool, n, 0) : n \in DOMAIN Probes}
    \cup {Call("execute_dsl", n, 0) : n \in DOMAIN gens}
    \cup {Call("get_report", n, 0) : n \in DOMAIN batches}
    \cup {Call("fix_and_retry", n, 0) : n \in DOMAIN batches}
    \cup {Call("ask_user_question", 0, 0)}
    \cup IF plans = <<>> THEN {}
         ELSE {Call("generate_dsl", n, v) :
                    n \in {1, Len(plans)}, v \in DraftKinds}

-----------------------------------------------------------------------------
(* The gates before a tool call.                                             *)

\* validateCaseSemantics: a draft that does not say research-v2 is compared
\* with the plan word for word.
ValidateCaseSemantics(plan, draft) ==
    LET planned == ExpandedPlanSteps(plan.steps) IN
    /\ Len(draft) = Len(planned)
    /\ \A i \in DOMAIN draft :
        /\ \A f \in {"action", "intent", "target", "value", "trigger", "key",
                     "timeout", "idem", "effect"} : draft[i][f] = planned[i][f]
        /\ ~Forbidden(plan.def.forbidden,
                {draft[i].action} \cup draft[i].target \cup draft[i].intent)

ValidateGenerationArguments(plan, call) ==
    /\ call.n = plan.version
    /\ IF call.v = 6 THEN ValidateCaseSemantics(plan, call.draft)
       ELSE ValidateDraftCaseSemantics(plan, call.draft)

Authorize(call) ==
    CASE call.tool = "set_task_plan" ->
            plans # <<>> =>
                Current.status \notin {"approved", "executing", "completed"}
      [] call.tool = "ask_user_question" -> TRUE
      [] call.tool \in Exploration ->
            plans # <<>> /\ AuthorizeExploration(Current, Probes[call.n])
      [] call.tool = "generate_dsl" ->
            /\ plans # <<>> /\ Current.status = "ready_for_generation"
            /\ ValidateGenerationArguments(Current, call)
      [] call.tool = "execute_dsl" ->
            /\ plans # <<>> /\ Current.status = "approved"
            /\ Current.gen # 0 /\ call.n = Current.gen
      [] call.tool = "get_report" -> plans # <<>> /\ Current.status = "executing"
      [] call.tool = "fix_and_retry" -> plans # <<>> /\ Current.status = "failed"

\* buildExplorationState: the probes with a summary, of the run and of the
\* plan version; a call that ended in an error left no summary.
ProbesOf(tool, versions) ==
    {p \in probes : Probes[p.probe].tool = tool /\ p.version \in versions}

BeforeExplorationPerPlan(call) ==
    /\ Cardinality(ProbesOf(call.tool, {Current.version})) <
            (IF call.tool = "explore_page" THEN MaxPlanPage ELSE MaxPlanFlow)
    /\ [probe |-> call.n, version |-> Current.version] \notin probes

\* The run-wide limit, the limit of the plan version and the signature, which
\* may complete once per version.
BeforeExplorationCall(call) ==
    LET mine == {Current.version}
        every == 1..Len(plans)
        page == call.tool = "explore_page"
        used(versions) == Cardinality(ProbesOf(call.tool, versions))
    IN  /\ used(every) < (IF page THEN MaxRunPage ELSE MaxRunFlow)
        /\ used(mine) < (IF page THEN MaxPlanPage ELSE MaxPlanFlow)
        /\ [probe |-> call.n, version |-> Current.version] \notin probes

\* buildCapabilityToolSummary never sets success, so the ledger reads every
\* completed attempt of a governance call as a failed one.
SummaryReportsSuccess(attempt) == FALSE

GovernanceOutcome(call) ==
    LET mine == {a \in attempts : a.call = call} IN
    IF mine = {} THEN "unseen"
    ELSE IF \E a \in mine : a.ok /\ SummaryReportsSuccess(a)
         THEN "succeeded" ELSE "failed"

BeforeGovernanceCall(call) == GovernanceOutcome(call) # "failed"

BeforeToolCall(call) ==
    /\ call.tool = "execute_dsl" => run.approved # 0
    /\ call.tool \in Exploration => BeforeExplorationCall(call)
    /\ call.tool \in Governance => BeforeGovernanceCall(call)

Attempted(call, ok) ==
    IF call.tool \in Governance THEN attempts \cup {[call |-> call, ok |-> ok]}
    ELSE attempts

\* The bounds of an instance.
WithinBounds(call) ==
    /\ wasted < MaxWasted
    /\ call.tool = "set_task_plan" => Len(plans) < MaxVersions
    /\ call.tool = "generate_dsl" => Len(gens) < MaxGens
    /\ call.tool \in {"set_task_plan", "generate_dsl"} =>
            Len(plans) + Len(gens) < MaxWork

LoopRunsUntilContext == ~cancel.ctx

LoopRuns == run.status = "running" /\ ~cancel.ctx

\* A call that passes the gates is executed.
Propose(call) ==
    /\ drv.pc = "model" /\ LoopRuns
    /\ WithinBounds(call)
    /\ Authorize(call) /\ BeforeToolCall(call)
    /\ drv' = [drv EXCEPT !.pc = "exec", !.call = call]
    /\ UNCHANGED <<plans, run, gens, batches, cases, attempts, probes, cancel,
                   wasted, faults, approvals>>

\* A call a gate refuses gets an error as its result (the deadline of the
\* exploration gate, which a clock decides, may refuse any probe).
Refuse(call) ==
    /\ drv.pc = "model" /\ LoopRuns
    /\ \/ ~(Authorize(call) /\ BeforeToolCall(call))
       \/ call.tool \in Exploration
    /\ WithinBounds(call)
    /\ wasted' = wasted + 1
    /\ attempts' = Attempted(call, FALSE)
    /\ UNCHANGED <<plans, run, drv, gens, batches, cases, probes, cancel,
                   faults, approvals>>

-----------------------------------------------------------------------------
(* The tools.                                                                *)

\* The call runs; every database or worker call of a cancelled context fails.
Executing(tools) ==
    drv.pc = "exec" /\ drv.call.tool \in tools /\ ~cancel.ctx

\* The tool returned: its result is recorded next. A result that failed is
\* counted as a wasted call.
Returns(res) ==
    /\ drv' = [drv EXCEPT !.pc = "record", !.res = res]
    /\ wasted' = IF res.ok THEN wasted ELSE wasted + 1

Failed(kind) == [ok |-> FALSE, n |-> 0, s |-> kind]
Fails == Returns(Failed("other"))

\* repository.CreateVersion: every other version is superseded.
CreateVersion(plan) ==
    Append([i \in DOMAIN plans |-> [plans[i] EXCEPT !.status = "superseded"]],
           plan)

\* set_task_plan: an invalid definition fails, an identical one is answered
\* with the current plan, another one becomes the next version.
SetTaskPlan ==
    LET def == Normalized(Definitions[drv.call.n])
        plan == NewPlan(def, GetCurrent, Len(plans) + 1)
    IN
    /\ Executing({"set_task_plan"})
    /\ \/ ~ValidateDefinition(def) /\ Fails /\ UNCHANGED plans
       \/ /\ ValidateDefinition(def)
          /\ plans # <<>> /\ Current.def = def
          /\ Returns(NoResult) /\ UNCHANGED plans
       \/ /\ ValidateDefinition(def)
          /\ plans # <<>> => Current.def # def
          /\ plans' = CreateVersion(plan)
          /\ drv' = [drv EXCEPT !.pc = "rebind", !.snap = <<plan>>]
          /\ UNCHANGED wasted
    /\ UNCHANGED <<run, gens, batches, cases, attempts, probes, cancel, faults,
                   approvals>>

\* Save: the row of the version and its steps are replaced, whatever the
\* version has become since it was read.
Save(plan) == [plans EXCEPT ![plan.version] = plan]

\* The second transaction of CreateVersion: the carried bindings are saved.
RebindCarried ==
    LET plan == drv.snap[1]
        bound == \E i \in DOMAIN plan.steps : plan.steps[i].binding # NoBinding
    IN
    /\ drv.pc = "rebind" /\ ~cancel.ctx
    /\ \/ /\ plans' = IF bound THEN Save(RebindCarriedTargetBindings(plan))
                      ELSE plans
          /\ Returns(NoResult) /\ UNCHANGED faults
       \/ /\ bound /\ faults < MaxFaults
          /\ faults' = faults + 1
          /\ Fails /\ UNCHANGED plans
    /\ UNCHANGED <<run, gens, batches, cases, attempts, probes, cancel,
                   approvals>>

\* explore_page and explore_flow: the candidates are authorised against the
\* plan as it is now, then the worker performs the probe.
Explore ==
    LET acts == Probes[drv.call.n].acts IN
    /\ Executing(Exploration)
    /\ \/ ~AuthorizeResolvedCandidates(Current, acts) /\ Fails
       \/ /\ AuthorizeResolvedCandidates(Current, acts)
          /\ Fails \/ \E r \in DOMAIN Results :
                        Returns([ok |-> TRUE, n |-> r, s |-> "done"])
    /\ UNCHANGED <<plans, run, gens, batches, cases, attempts, probes, cancel,
                   faults, approvals>>

\* generate_dsl: the draft is compiled (research-v2) or checked (research-v1)
\* against the current plan, the worker validates it, the generation is stored.
GenerateDSL ==
    LET call == drv.call
        v1 == call.v = 6
        accepted == /\ call.n = Current.version
                    /\ Current.status = "ready_for_generation"
                    /\ IF v1 THEN ValidateCaseSemantics(Current, call.draft)
                       ELSE ValidateDraftCaseSemantics(Current, call.draft)
        compiled == IF v1 THEN call.draft ELSE CompileDraftCase(Current, call.draft)
    IN
    /\ Executing({"generate_dsl"})
    /\ \/ ~accepted /\ Fails /\ UNCHANGED gens
       \/ /\ accepted
          /\ \/ /\ gens' = Append(gens, [plan |-> call.n, v1 |-> v1,
                                         case |-> compiled])
                /\ Returns([ok |-> TRUE, n |-> Len(gens) + 1, s |-> "done"])
             \/ Fails /\ UNCHANGED gens
             \/ Returns(Failed("evidence")) /\ UNCHANGED gens
    /\ UNCHANGED <<plans, run, batches, cases, attempts, probes, cancel, faults,
                   approvals>>

BatchOf(gen) == {b \in DOMAIN batches : batches[b].gen = gen}

\* ValidateGenerationBinding, asked of the stored generation.
ValidateGenerationBinding(gen) ==
    /\ gens[gen].plan = Current.version
    /\ Current.status \in {"ready_for_generation", "awaiting_approval",
                           "approved", "executing"}
    /\ IF gens[gen].v1 THEN ValidateCaseSemantics(Current, gens[gen].case)
       ELSE ValidateCompiledCaseSemantics(Current, gens[gen].case)

\* execute_dsl up to the test case: the generation must be the approved one and
\* still fit the plan; a batch it already has is returned as it is.
ExecuteDSL ==
    LET gen == drv.call.n
        fits == /\ run.approved = gen
                /\ BatchOf(gen) = {} => ValidateGenerationBinding(gen)
    IN
    /\ Executing({"execute_dsl"})
    /\ \/ /\ fits
          /\ drv' = IF BatchOf(gen) = {} THEN [drv EXCEPT !.pc = "batch"]
                    ELSE [drv EXCEPT !.pc = "record",
                            !.res.n = CHOOSE b \in BatchOf(gen) : TRUE]
          /\ cases' = IF BatchOf(gen) = {} THEN cases + 1 ELSE cases
          /\ UNCHANGED <<wasted, faults>>
       \/ /\ ~fits \/ faults < MaxFaults
          /\ faults' = IF fits THEN faults + 1 ELSE faults
          /\ Fails /\ UNCHANGED cases
    /\ UNCHANGED <<plans, run, gens, batches, attempts, probes, cancel, approvals>>

\* CreateBatch for the case: refused while a batch of the session is active,
\* and the transaction may fail.
ExecuteCreateBatch ==
    LET active == \E b \in DOMAIN batches :
                    batches[b].status \in {"pending", "running"} IN
    /\ drv.pc = "batch" /\ ~cancel.ctx
    /\ \/ active /\ Fails /\ UNCHANGED <<batches, faults>>
       \/ /\ ~active
          /\ batches' = Append(batches, [gen |-> drv.call.n, status |-> "running",
                                         signals |-> {}])
          /\ Returns([ok |-> TRUE, n |-> Len(batches) + 1, s |-> "done"])
          /\ UNCHANGED faults
       \/ /\ ~active /\ faults < MaxFaults
          /\ faults' = faults + 1
          /\ Fails /\ UNCHANGED batches
    /\ UNCHANGED <<plans, run, gens, cases, attempts, probes, cancel, approvals>>

\* get_report polls until the batch is terminal or its ten minutes are over.
GetReport ==
    LET b == drv.call.n IN
    /\ Executing({"get_report"})
    /\ \/ Returns([ok |-> TRUE, n |-> b, s |-> batches[b].status])
       \/ Fails
    /\ UNCHANGED <<plans, run, gens, batches, cases, attempts, probes, cancel,
                   faults, approvals>>

\* repairDecision: a signal is a category with whether it could be decoded and
\* whether it allows the original action to be replayed.
RepairDecision(signals) ==
    LET has(c) == \E s \in signals : s.category = c IN
    IF signals = {} \/ \E s \in signals : ~s.replay THEN "manual_reconcile"
    ELSE IF has("locator") \/ has("navigation") THEN "re_explore"
    ELSE IF has("assertion") THEN "regenerate_dsl"
    ELSE "manual"

PrepareFixAndRetry ==
    LET b == batches[drv.call.n]
        strategy == CASE b.status = "passed" -> "none"
                      [] b.status \in {"pending", "running"} -> "wait"
                      [] OTHER -> RepairDecision(b.signals)
    IN
    /\ Executing({"fix_and_retry"})
    /\ Returns([ok |-> TRUE, n |-> drv.call.n, s |-> strategy])
    /\ UNCHANGED <<plans, run, gens, batches, cases, attempts, probes, cancel,
                   faults, approvals>>

\* ask_user_question suspends the run; the loop returns.
AskUserQuestion ==
    /\ Executing({"ask_user_question"})
    /\ run.status = "running"
    /\ run' = [run EXCEPT !.status = "waiting"]
    /\ drv' = [drv EXCEPT !.pc = "idle", !.call = NoCall]
    /\ UNCHANGED <<plans, gens, batches, cases, attempts, probes, cancel, wasted,
                   faults, approvals>>

-----------------------------------------------------------------------------
(* The result reaches the plan.                                              *)

AdvancedAnyVerdict(plan, call, res) ==
    CASE call.tool \in Exploration ->
            RecordExploration(plan, Probes[call.n], Results[res.n])
      [] call.tool = "generate_dsl" ->
            [plan EXCEPT !.gen = res.n, !.status = "awaiting_approval"]
      [] call.tool = "execute_dsl" -> [plan EXCEPT !.status = "executing"]
      [] call.tool = "get_report" /\ res.s \in ReportTerminal ->
            [plan EXCEPT !.status = "completed"]
      [] OTHER -> plan

\* RecordToolResult: what a result makes of the plan that was read.
Advanced(plan, call, res) ==
    CASE call.tool \in Exploration ->
            RecordExploration(plan, Probes[call.n], Results[res.n])
      [] call.tool = "generate_dsl" ->
            [plan EXCEPT !.gen = res.n, !.status = "awaiting_approval"]
      [] call.tool = "execute_dsl" -> [plan EXCEPT !.status = "executing"]
      [] call.tool = "get_report" ->
            [plan EXCEPT !.status = CASE res.s = "passed" -> "completed"
                                      [] res.s \in ReportTerminal \ {"passed"} -> "failed"
                                      [] OTHER -> @]
      [] call.tool = "fix_and_retry" ->
            [plan EXCEPT
                !.gen = 0,
                !.status = CASE res.s = "re_explore" -> "grounding"
                             [] res.s = "regenerate_dsl" -> "ready_for_generation"
                             [] res.s = "wait_execution" -> "executing"
                             [] OTHER -> "blocked",
                !.steps = IF res.s # "re_explore" THEN @
                          ELSE [i \in DOMAIN @ |-> [@[i] EXCEPT !.status = "pending"]]]

AfterFailureKeepsStatus(plan, call, res, named) ==
    IF call.tool = "generate_dsl" /\ res.s = "evidence"
    THEN [plan EXCEPT !.steps = [i \in DOMAIN @ |->
            IF i \in named \/ named = {}
            THEN [@[i] EXCEPT !.status = "pending"] ELSE @[i]]]
    ELSE plan

\* RecordToolFailure: a generation that failed for its evidence sends the steps
\* the message names (all of them if it names none) back to grounding.
AfterFailure(plan, call, res, named) ==
    CASE call.tool = "generate_dsl" /\ res.s = "evidence" ->
            [plan EXCEPT
                !.status = "grounding",
                !.steps = [i \in DOMAIN @ |->
                    IF i \in named \/ named = {}
                    THEN [@[i] EXCEPT !.status = "pending"] ELSE @[i]]]
      [] call.tool = "execute_dsl" -> [plan EXCEPT !.status = "failed"]
      [] OTHER -> plan

\* The event of the result is appended, which stops the loop of a cancelled
\* run, and the plan is read.
RecordResult ==
    /\ drv.pc = "record"
    /\ drv' = IF ~LoopRuns THEN [drv EXCEPT !.pc = "stopped"]
              ELSE [drv EXCEPT !.pc = "save", !.snap = GetCurrent]
    /\ UNCHANGED <<plans, run, gens, batches, cases, attempts, probes, cancel,
                   wasted, faults, approvals>>

RunAfterKeepsApproval(call, res) ==
    IF res.ok /\ call.tool = "generate_dsl"
    THEN [run EXCEPT !.latest = res.n, !.approved = 0] ELSE run

\* What a result makes of the run: a generation and a plan withdraw the
\* approval.
RunAfter(call, res) ==
    CASE res.ok /\ call.tool = "generate_dsl" ->
            [run EXCEPT !.latest = res.n, !.approved = 0]
      [] res.ok /\ call.tool = "set_task_plan" ->
            [run EXCEPT !.latest = 0, !.approved = 0]
      [] OTHER -> run

\* The plan is saved as the result leaves it, then the run with the tool
\* message.
SaveResult ==
    LET call == drv.call
        res == drv.res
        keeps == call.tool = "set_task_plan" /\ res.ok
    IN
    /\ drv.pc = "save"
    /\ IF cancel.ctx THEN UNCHANGED plans
       ELSE IF keeps \/ drv.snap = NoPlan THEN UNCHANGED plans
       ELSE IF res.ok THEN plans' = Save(Advanced(drv.snap[1], call, res))
       ELSE \E named \in SUBSET {i \in DOMAIN drv.snap[1].steps :
                                    drv.snap[1].steps[i].target # {}} :
                plans' = Save(AfterFailure(drv.snap[1], call, res, named))
    /\ IF ~LoopRuns
       THEN /\ drv' = [drv EXCEPT !.pc = "stopped"]
            /\ UNCHANGED <<run, attempts, probes>>
       ELSE /\ drv' = [drv EXCEPT !.pc = "model", !.call = NoCall,
                                  !.res = NoResult, !.snap = NoPlan]
            /\ run' = RunAfter(call, res)
            /\ attempts' = Attempted(call, res.ok)
            /\ probes' = IF res.ok /\ call.tool \in Exploration
                         THEN probes \cup {[probe |-> call.n,
                                            version |-> drv.snap[1].version]}
                         ELSE probes
    /\ UNCHANGED <<gens, batches, cases, cancel, wasted, faults, approvals>>

-----------------------------------------------------------------------------
(* The user, the end of the loop, the cancel request, the execution.         *)

\* Resume: the pending call is consumed; without an approval the loop goes on.
Answer(approve) ==
    /\ drv.pc = "idle" /\ run.status = "waiting"
    /\ run' = [run EXCEPT !.status = "running"]
    /\ drv' = [drv EXCEPT !.pc = IF approve THEN "approve" ELSE "model"]
    /\ UNCHANGED <<plans, gens, batches, cases, attempts, probes, cancel, wasted,
                   faults, approvals>>

Approvable(plan) ==
    /\ plan.status = "awaiting_approval"
    /\ plan.gen # 0 /\ plan.gen = run.latest

\* Approve reads the plan; when it refuses, the request fails and nobody
\* drives the run that ResumeToolCall has set to running.
ApproveRead ==
    /\ drv.pc = "approve"
    /\ drv' = IF run.latest # 0 /\ plans # <<>> /\ Approvable(Current)
              THEN [drv EXCEPT !.pc = "approveSave", !.snap = GetCurrent]
              ELSE [drv EXCEPT !.pc = "stranded"]
    /\ UNCHANGED <<plans, run, gens, batches, cases, attempts, probes, cancel,
                   wasted, faults, approvals>>

ApproveSave ==
    /\ drv.pc = "approveSave"
    /\ plans' = Save([drv.snap[1] EXCEPT !.status = "approved"])
    /\ approvals' = approvals \cup {run.latest}
    /\ IF run.status = "cancelled"
       THEN drv' = [drv EXCEPT !.pc = "stopped"] /\ UNCHANGED run
       ELSE /\ drv' = [drv EXCEPT !.pc = "model", !.snap = NoPlan]
            /\ run' = [run EXCEPT !.approved = run.latest]
    /\ UNCHANGED <<gens, batches, cases, attempts, probes, cancel, wasted, faults>>

\* The model answers without a tool call: the run completes if its plan has.
Complete ==
    /\ drv.pc = "model" /\ LoopRuns
    /\ plans # <<>> /\ Current.status = "completed"
    /\ run' = [run EXCEPT !.status = "completed"]
    /\ drv' = [drv EXCEPT !.pc = "stopped"]
    /\ UNCHANGED <<plans, gens, batches, cases, attempts, probes, cancel, wasted,
                   faults, approvals>>

\* The loop ends in an error: an answer without a completed plan, a spent turn
\* budget, a model that fails.
LoopError ==
    /\ drv.pc = "model" /\ LoopRuns
    /\ faults < MaxFaults
    /\ faults' = faults + 1
    /\ drv' = [drv EXCEPT !.pc = "failing", !.snap = GetCurrent]
    /\ UNCHANGED <<plans, run, gens, batches, cases, attempts, probes, cancel,
                   wasted, approvals>>

\* markTerminal: a completed plan stays completed.
Marked(plan, status) ==
    IF plan.status \in {"completed", "superseded"} THEN plan
    ELSE [plan EXCEPT !.status = status]

\* MarkFailed and FailRun.
FailRun ==
    /\ drv.pc = "failing"
    /\ plans' = IF drv.snap = NoPlan THEN plans
                ELSE Save(Marked(drv.snap[1], "failed"))
    /\ run' = IF run.status = "cancelled" THEN run
              ELSE [run EXCEPT !.status = "failed"]
    /\ drv' = [drv EXCEPT !.pc = "stopped"]
    /\ UNCHANGED <<gens, batches, cases, attempts, probes, cancel, wasted, faults,
                   approvals>>

\* The loop of a cancelled run stops at its next event or save.
StopLoop ==
    /\ drv.pc \in {"model", "exec", "rebind", "batch"} /\ ~LoopRuns
    /\ drv.pc # "model" => cancel.ctx
    /\ drv' = [drv EXCEPT !.pc = "stopped"]
    /\ UNCHANGED <<plans, run, gens, batches, cases, attempts, probes, cancel,
                   wasted, faults, approvals>>

\* CancelOwned: the run, then the plan (read, save), then the context.
CancelRun ==
    /\ cancel.pc = "idle" /\ run.status \in {"running", "waiting"}
    /\ run' = [run EXCEPT !.status = "cancelled"]
    /\ cancel' = [cancel EXCEPT !.pc = "read"]
    /\ UNCHANGED <<plans, drv, gens, batches, cases, attempts, probes, wasted,
                   faults, approvals>>

CancelReadPlan ==
    /\ cancel.pc = "read"
    /\ cancel' = [cancel EXCEPT !.pc = "block", !.snap = GetCurrent]
    /\ UNCHANGED <<plans, run, drv, gens, batches, cases, attempts, probes, wasted,
                   faults, approvals>>

MarkBlocked ==
    /\ cancel.pc = "block"
    /\ plans' = IF cancel.snap = NoPlan THEN plans
                ELSE Save(Marked(cancel.snap[1], "blocked"))
    /\ cancel' = [cancel EXCEPT !.pc = "context", !.snap = NoPlan]
    /\ UNCHANGED <<run, drv, gens, batches, cases, attempts, probes, wasted, faults,
                   approvals>>

CancelContext ==
    /\ cancel.pc = "context"
    /\ cancel' = [cancel EXCEPT !.pc = "done", !.ctx = TRUE]
    /\ UNCHANGED <<plans, run, drv, gens, batches, cases, attempts, probes, wasted,
                   faults, approvals>>

\* The queue settles a batch, with the signals of its failures. Nothing but the
\* three calls below reads the status, so it is settled only before them.
FinishBatch(b) ==
    /\ drv.call.tool \in {"execute_dsl", "get_report", "fix_and_retry"}
    /\ drv.pc \in {"exec", "batch"}
    /\ batches[b].status = "running"
    /\ \E end \in Outcomes :
        batches' = [batches EXCEPT ![b].status = end.status,
                                   ![b].signals = end.signals]
    /\ UNCHANGED <<plans, run, drv, gens, cases, attempts, probes, cancel, wasted,
                   faults, approvals>>

-----------------------------------------------------------------------------
ToolSteps ==
    \/ SetTaskPlan \/ RebindCarried \/ Explore \/ GenerateDSL \/ ExecuteDSL
    \/ ExecuteCreateBatch \/ GetReport \/ PrepareFixAndRetry \/ AskUserQuestion
    \/ RecordResult \/ SaveResult \/ ApproveRead \/ ApproveSave \/ FailRun
    \/ StopLoop

ModelSteps ==
    \/ \E call \in Calls : Propose(call) \/ Refuse(call)
    \/ Complete \/ LoopError

CancelSteps == CancelReadPlan \/ MarkBlocked \/ CancelContext

Next ==
    \/ ModelSteps \/ ToolSteps \/ CancelRun \/ CancelSteps
    \/ \E approve \in BOOLEAN : Answer(approve)
    \/ \E b \in DOMAIN batches : FinishBatch(b)

Spec == Init /\ [][Next]_vars

-----------------------------------------------------------------------------
(* Properties.                                                               *)

StepOK(s) ==
    /\ s.status \in {"pending", "grounded"}
    /\ s.action \in PlanActions
    /\ s.binding.plan \in 0..MaxVersions

PlanOK(plan) ==
    /\ plan.version \in 1..MaxVersions
    /\ plan.status \in PlanStatus
    /\ plan.gen \in 0..MaxGens
    /\ \A i \in DOMAIN plan.steps : StepOK(plan.steps[i])

\* The rows of task_plans, agent_runs and dsl_generation_runs and the state of
\* the loop have the values the schema and the code allow.
TypeOK ==
    /\ \A i \in DOMAIN plans : PlanOK(plans[i]) /\ plans[i].version = i
    /\ run.status \in {"running", "waiting", "completed", "failed", "cancelled"}
    /\ {run.latest, run.approved} \subseteq 0..Len(gens)
    /\ drv.pc \in {"model", "exec", "rebind", "batch", "record", "save", "idle",
                   "approve", "approveSave", "stranded", "failing", "stopped"}
    /\ \A g \in DOMAIN gens : gens[g].plan \in DOMAIN plans
    /\ \A b \in DOMAIN batches : batches[b].gen \in 0..Len(gens)
    /\ approvals \subseteq DOMAIN gens
    /\ cases \in Nat /\ wasted \in 0..MaxWasted /\ faults \in 0..MaxFaults

\* allGrounded and the state machine of the plan: from ready_for_generation to
\* executing every step is grounded and, where its action needs one, bound.
ReadyIsGrounded ==
    plans # <<>> /\ Current.status \in {"ready_for_generation", "awaiting_approval",
                                        "approved", "executing"}
        => AllGrounded(Current.steps)

\* carryForwardGrounding and its rebind: over revisions, probes and repairs a
\* binding sits on the step it was made for (same id, action and target) and,
\* unless the second save of a revision failed or a cancel request overwrote it
\* with what it had read before, names the version it is in.
BindingFitsStep ==
    \A p \in DOMAIN plans : \A i \in DOMAIN plans[p].steps :
        LET s == plans[p].steps[i] IN
        s.binding # NoBinding =>
            /\ s.binding.step = s.id
            /\ s.binding.action = s.action /\ s.binding.target = s.target
            /\ s.binding.plan = p \/ faults > 0 \/ drv.pc = "rebind"
                    \/ run.status = "cancelled"

\* Rules 7 and 8 of the state machine: what is executed is a generation the
\* user approved whose case repeats, step for step, the plan version it was
\* generated for, on targets bound for exactly these steps.
ExecutedAsApproved ==
    \A b \in DOMAIN batches : batches[b].gen # 0 =>
        LET gen == gens[batches[b].gen]
            planned == ExpandedPlanSteps(plans[gen.plan].steps)
        IN  /\ batches[b].gen \in approvals
            /\ Len(gen.case) = Len(planned)
            /\ \A i \in DOMAIN gen.case :
                /\ \A f \in {"id", "action", "target", "value", "trigger", "key",
                             "idem", "effect"} : gen.case[i][f] = planned[i][f]
                /\ gen.case[i].binding # NoBinding =>
                        gen.case[i].binding.target = planned[i].target

\* "A new plan version invalidates the old generation and its approval": an
\* approval the run still holds is one for the version that is current. (When
\* the second save of a revision fails the run keeps the old approval.)
ApprovalIsCurrent ==
    run.approved # 0 /\ drv.pc \in {"model", "idle"} /\ faults = 0 =>
        /\ gens[run.approved].plan = Len(plans)
        /\ Current.gen \in {0, run.approved}

\* Rule 9: a completed run has a completed plan and a batch that passed.
CompletedHasVerdict ==
    run.status = "completed" =>
        /\ Current.status = "completed"
        /\ \E b \in DOMAIN batches : batches[b].status = "passed"

\* The gate counts what was summarised: over all versions a run never completes
\* more probes than the run-wide limits.
RunWideProbeLimit ==
    /\ Cardinality(ProbesOf("explore_page", DOMAIN plans)) <= MaxRunPage
    /\ Cardinality(ProbesOf("explore_flow", DOMAIN plans)) <= MaxRunFlow

\* CancelOwned against a loop, a resume and an approval in flight: none of
\* their late saves brings a cancelled run back, and no further call starts.
CancelStartsNothing ==
    [][run.status = "cancelled" =>
        /\ run'.status = "cancelled"
        /\ drv'.call \in {drv.call, NoCall}
        /\ drv'.pc = "exec" => drv.pc = "exec"]_vars

\* The ledger "only blocks failed/rejected repeats": a governance call whose
\* identical predecessor succeeded passes it.
SucceededMayRepeat ==
    \A a \in attempts : a.ok /\ ~(\E b \in attempts : b.call = a.call /\ ~b.ok)
        => BeforeGovernanceCall(a.call)
=============================================================================
