------------------------- MODULE PlanWorkflowProofs -------------------------
(***************************************************************************)
(* Proofs about PlanWorkflow for every choice of definitions, probes,      *)
(* results, drafts and bounds.                                             *)
(***************************************************************************)
EXTENDS PlanWorkflow, TaskPlanProofs, FiniteSetTheorems

USE DEF NoPlan

-----------------------------------------------------------------------------
(* The invariant                                                           *)

Tools == {"set_task_plan", "ask_user_question", "explore_page", "explore_flow",
          "generate_dsl", "execute_dsl", "get_report", "fix_and_retry"}

ModelCalls == [tool: Tools \cup {"none"}, n: Nat, v: Nat, draft: Seq(DraftSteps)]

ToolResults == [ok: BOOLEAN, n: Nat, s: Words]

\* A call names a definition, a probe, a generation or a batch that is there.
TypedCall(call) ==
    /\ call \in ModelCalls
    /\ call.tool = "set_task_plan" => call.n \in DOMAIN Definitions
    /\ call.tool \in Exploration => call.n \in DOMAIN Probes /\ Probes[call.n].tool = call.tool
    /\ call.tool = "execute_dsl" => call.n \in DOMAIN gens
    /\ call.tool \in {"get_report", "fix_and_retry"} => call.n \in DOMAIN batches

\* The rows and the loop's variables, as records.
Runs == [status: {"running", "waiting", "completed", "failed", "cancelled"},
         latest: Nat, approved: Nat]

Loops ==
    [pc: {"model", "exec", "rebind", "batch", "record", "save", "idle",
          "approve", "approveSave", "stranded", "failing", "stopped"},
     call: ModelCalls, res: ToolResults, snap: Seq(TaskPlans)]

Generations == [plan: Nat, v1: BOOLEAN, case: Seq(DraftSteps)]

Batches == [gen: Nat, status: Words, signals: SUBSET Signals]

Cancels == [pc: {"idle", "read", "block", "context", "done"}, ctx: BOOLEAN,
            snap: Seq(TaskPlans)]

Typed ==
    /\ plans \in Seq(TaskPlans) /\ run \in Runs
    /\ drv \in Loops /\ TypedCall(drv.call)
    /\ gens \in Seq(Generations) /\ batches \in Seq(Batches)
    /\ cancel \in Cancels
    /\ cases \in Nat /\ wasted \in 0..MaxWasted /\ faults \in 0..MaxFaults

\* Where the loop is, and where the cancel request is, for each status of the run.
Phases ==
    /\ run.status = "cancelled" <=> cancel.pc # "idle"
    /\ cancel.ctx <=> cancel.pc = "done"
    /\ cancel.snap # NoPlan => cancel.pc = "block"
    /\ run.status = "waiting" => drv.pc = "idle"
    /\ run.status \in {"completed", "failed"} => drv.pc = "stopped"
    /\ run.status = "running" => drv.pc # "idle"
    /\ drv.pc \in {"exec", "batch", "rebind", "record", "save"} => drv.call.tool # "none"
    /\ drv.pc \in {"batch", "record", "save"} => drv.call.tool # "ask_user_question"
    /\ drv.pc = "batch" => drv.call.tool = "execute_dsl"
    /\ drv.pc = "rebind" => drv.call.tool = "set_task_plan"
    /\ drv.pc = "exec" => wasted < MaxWasted
    /\ drv.pc \in {"rebind", "batch"} => wasted < MaxWasted
    /\ drv.pc = "exec" /\ drv.call.tool = "set_task_plan" => Len(plans) < MaxVersions
    /\ drv.pc = "exec" /\ drv.call.tool = "generate_dsl" => Len(gens) < MaxGens
    /\ Len(plans) <= MaxVersions /\ Len(gens) <= MaxGens

\* The part of a plan that a version never changes.
SamePlan(a, b) ==
    /\ a.version = b.version /\ a.def = b.def /\ Len(a.steps) = Len(b.steps)
    /\ \A i \in 1..Len(a.steps) : SameStep(a.steps[i], b.steps[i])

Ready == {"ready_for_generation", "awaiting_approval", "approved", "executing"}

HasVerdict == \E b \in DOMAIN batches : batches[b].status = "passed"

\* What is true of every version and of every copy of one.
PlanFits(plan) ==
    /\ plan.version \in DOMAIN plans
    /\ plan.gen \in 0..Len(gens)
    /\ plan.gen # 0 => gens[plan.gen].plan = plan.version
    /\ plan.status \in Ready => AllGrounded(plan.steps)
    /\ plan.status = "completed" => HasVerdict
    /\ \A i \in DOMAIN plan.steps :
         /\ BindingOfStep(plan.steps[i])
         /\ plan.steps[i].action \in PlanActions
         /\ plan.steps[i].binding.plan <= Len(plans)

\* A copy of the newest version or, in the hand of a cancel request, of an older one.
CopyOf(plan) == PlanFits(plan) /\ SamePlan(plan, plans[plan.version])

Copies ==
    /\ \A p \in DOMAIN plans : PlanFits(plans[p]) /\ plans[p].version = p
    /\ cancel.snap # NoPlan => CopyOf(cancel.snap[1])
    /\ drv.pc \in {"rebind", "save", "approveSave", "failing"} /\ drv.snap # NoPlan
         => CopyOf(drv.snap[1]) /\ drv.snap[1].version = Len(plans)
    /\ drv.pc \in {"rebind", "approveSave"} => drv.snap # NoPlan
    /\ drv.pc \in {"save", "failing"} /\ drv.snap = NoPlan => plans = <<>>

\* Only the cancel request may have saved after the loop read.
SnapIsCurrent ==
    /\ drv.pc \in {"rebind", "save", "approveSave", "failing"} /\ drv.snap # NoPlan
         /\ run.status # "cancelled" => drv.snap[1] = Current
    /\ cancel.pc = "block" /\ drv.pc \in {"model", "idle", "exec"} =>
         cancel.snap = GetCurrent

CallStatus(tool, status) ==
    /\ tool \in Exploration => status = "grounding"
    /\ tool = "generate_dsl" => status = "ready_for_generation"
    /\ tool = "execute_dsl" => status = "approved"
    /\ tool = "get_report" => status = "executing"
    /\ tool = "fix_and_retry" => status = "failed"

NeedsPlan == Tools \ {"set_task_plan", "ask_user_question"}

\* From its gate to its save a call works on the plan its gate saw.
CallFits ==
    /\ drv.pc \in {"exec", "batch", "record", "save"} /\ drv.call.tool \in NeedsPlan
         => plans # <<>>
    /\ drv.pc \in {"exec", "batch", "record"} /\ run.status # "cancelled"
         /\ drv.call.tool \in NeedsPlan => CallStatus(drv.call.tool, Current.status)
    /\ drv.pc = "save" /\ drv.call.tool \in NeedsPlan
         => CallStatus(drv.call.tool, drv.snap[1].status)
    /\ drv.pc \in {"record", "save"} /\ drv.res.ok =>
         /\ drv.call.tool \in Exploration => drv.res.n \in DOMAIN Results
         /\ drv.call.tool = "generate_dsl" =>
              drv.res.n \in DOMAIN gens /\ gens[drv.res.n].plan = Len(plans)
         /\ drv.call.tool = "get_report" /\ drv.res.s = "passed" => HasVerdict

\* fix_and_retry repairs a plan whose steps are grounded.
FailedIsGrounded ==
    /\ drv.pc # "stopped" /\ plans # <<>> /\ Current.status = "failed"
         => AllGrounded(Current.steps)
    /\ drv.pc \in {"rebind", "save"} /\ drv.snap # NoPlan /\ drv.snap[1].status = "failed"
         => AllGrounded(drv.snap[1].steps)

\* The bindings of a version name it.
BindingsNamed ==
    faults = 0 /\ run.status # "cancelled" =>
        \A p \in DOMAIN plans : \A i \in DOMAIN plans[p].steps :
            \/ plans[p].steps[i].binding = NoBinding
            \/ plans[p].steps[i].binding.plan = p
            \/ p = Len(plans) /\ drv.pc = "rebind"

\* An approval is of a generation of the current version, except while a new version
\* or the answer that there is none is on its way to the run.
ApprovalFits ==
    /\ run.approved # 0 /\ faults = 0 /\ (run.status # "cancelled" \/ drv.pc \in {"model", "idle"})
       /\ ~(drv.call.tool = "set_task_plan"
              /\ (drv.pc = "rebind" \/ (drv.pc \in {"record", "save"} /\ drv.res.ok)))
         => /\ plans # <<>>
            /\ gens[run.approved].plan = Len(plans)
            /\ Current.gen \in {0, run.approved}
    /\ drv.pc = "approveSave" => /\ run.latest # 0 /\ drv.snap[1].gen = run.latest
                                 /\ drv.snap[1].status = "awaiting_approval"
    /\ {run.latest, run.approved} \subseteq 0..Len(gens)
    /\ run.approved # 0 => run.approved \in approvals
    /\ approvals \subseteq DOMAIN gens
    /\ drv.pc = "batch" => drv.call.n \in approvals
    /\ \A b \in DOMAIN batches : batches[b].gen # 0 => batches[b].gen \in approvals

\* The draft on its way is one for the plan as it is.
DraftFits ==
    drv.pc = "exec" /\ drv.call.tool = "generate_dsl"
        /\ Current.status = "ready_for_generation"
            => drv.call.draft = ModelDraft(Current, drv.call.v)

\* A case repeats the version it was generated for.
CasesFit ==
    \A g \in DOMAIN gens : /\ gens[g].plan \in DOMAIN plans
                           /\ CaseRepeats(gens[g].case, plans[gens[g].plan].steps)

RunLimit(tool) == IF tool = "explore_page" THEN MaxRunPage ELSE MaxRunFlow

ProbesCounted ==
    /\ IsFiniteSet(probes)
    /\ \A p \in probes : p.probe \in DOMAIN Probes /\ p.version \in DOMAIN plans
    /\ \A tool \in Exploration : Cardinality(ProbesOf(tool, DOMAIN plans)) <= RunLimit(tool)
    /\ drv.pc \in {"exec", "record", "save"} /\ drv.call.tool \in Exploration =>
         Cardinality(ProbesOf(drv.call.tool, DOMAIN plans)) < RunLimit(drv.call.tool)

CompletedFits ==
    run.status = "completed" => plans # <<>> /\ Current.status = "completed"

-----------------------------------------------------------------------------
(* What the model writes                                                   *)

\* A parsed condition is a kind with the words of a URL.
LEMMA ParsedType ==
    ASSUME NEW words \in Seq(Words)
    PROVE  [kind |-> ParseConditionIntent(words).kind,
            value |-> ParseConditionIntent(words).value] \in DraftConditions
<1>1. {words[i] : i \in 3..Len(words)} \in Texts /\ {} \in Texts
  BY DEF Texts
<1>2. {"url_contains", "url_changes", "page_fact", "text_visible", "text_gone", "free_text"}
        \subseteq Words
  BY DEF Words
<1>3. \/ ParseConditionIntent(words) =
           [kind |-> "url_contains", value |-> {words[i] : i \in 3..Len(words)}]
      \/ \E k \in {"url_changes", "page_fact", "text_visible", "text_gone", "free_text"} :
           ParseConditionIntent(words) = [value |-> {}, kind |-> k]
  BY Zenon DEF ParseConditionIntent
<1>4. ParseConditionIntent(words).kind \in Words /\ ParseConditionIntent(words).value \in Texts
  <2>1. CASE ParseConditionIntent(words) =
               [kind |-> "url_contains", value |-> {words[i] : i \in 3..Len(words)}]
    BY <1>1, <1>2, <2>1
  <2>2. ASSUME NEW k \in Words, ParseConditionIntent(words) = [value |-> {}, kind |-> k]
        PROVE  ParseConditionIntent(words).kind \in Words
               /\ ParseConditionIntent(words).value \in Texts
    BY <1>1, <2>2
  <2> QED BY <1>2, <1>3, <2>1, <2>2
<1> QED BY <1>4 DEF DraftConditions

\* The step a draft of the given kind writes for a step of the plan.
Repeat(s, kind) ==
    [id |-> s.id, action |-> s.action, value |-> s.value,
     target |-> s.target, trigger |-> s.trigger, key |-> s.key,
     timeout |-> s.timeout, idem |-> s.idem, effect |-> s.effect,
     intent |-> IF kind = 1 THEN {"reworded"} ELSE s.intent,
     owned |-> kind = 4,
     binding |-> IF kind = 5 THEN NoBinding ELSE s.binding,
     pre |-> {[kind |-> ParseConditionIntent(c).kind,
               value |-> ParseConditionIntent(c).value] : c \in s.pre},
     post |-> {[kind |-> ParseConditionIntent(c).kind,
                value |-> ParseConditionIntent(c).value] : c \in s.post}]

Repeats(plan, kind) ==
    [i \in DOMAIN ExpandedPlanSteps(plan.steps) |->
        Repeat(ExpandedPlanSteps(plan.steps)[i], kind)]

\* A draft repeats the plan, but for its last step in two kinds.
LEMMA DraftRepeats ==
    ASSUME NEW plan, NEW kind
    PROVE  ModelDraft(plan, kind) =
             CASE kind = 2 -> SubSeq(Repeats(plan, kind), 1, Len(Repeats(plan, kind)) - 1)
               [] kind = 3 -> [Repeats(plan, kind) EXCEPT
                                 ![Len(Repeats(plan, kind))].value = @ \cup {"other"}]
               [] OTHER -> Repeats(plan, kind)
BY Zenon DEF ModelDraft, Repeats, Repeat

\* The step written for a step of the plan.
LEMMA RepeatType ==
    ASSUME NEW s \in PlanSteps, NEW kind \in Nat
    PROVE  Repeat(s, kind) \in DraftSteps
<1>1. /\ s.id \in Words /\ s.action \in Words /\ s.value \in Texts /\ s.target \in Texts
      /\ s.trigger \in Words /\ s.key \in Words /\ s.timeout \in Int /\ s.idem \in Words
      /\ s.effect \in Words /\ s.intent \in Texts /\ s.binding \in Bindings
      /\ s.pre \in SUBSET Seq(Words) /\ s.post \in SUBSET Seq(Words)
  BY DEF PlanSteps
<1> DEFINE conds(C) == {[kind |-> ParseConditionIntent(c).kind,
                         value |-> ParseConditionIntent(c).value] : c \in C}
<1>2. conds(s.pre) \in SUBSET DraftConditions /\ conds(s.post) \in SUBSET DraftConditions
  BY <1>1, ParsedType
<1>3. {"reworded"} \in Texts
  BY DEF Texts, Words
<1>4. (IF kind = 1 THEN {"reworded"} ELSE s.intent) \in Texts
  BY <1>1, <1>3
<1>5. (IF kind = 5 THEN NoBinding ELSE s.binding) \in Bindings
  BY <1>1, NoBindingType
<1>6. Repeat(s, kind) =
       [id |-> s.id, action |-> s.action, value |-> s.value,
        target |-> s.target, trigger |-> s.trigger, key |-> s.key,
        timeout |-> s.timeout, idem |-> s.idem, effect |-> s.effect,
        intent |-> IF kind = 1 THEN {"reworded"} ELSE s.intent,
        owned |-> kind = 4,
        binding |-> IF kind = 5 THEN NoBinding ELSE s.binding,
        pre |-> conds(s.pre), post |-> conds(s.post)]
  BY DEF Repeat
<1> HIDE DEF conds
<1> QED BY <1>1, <1>2, <1>4, <1>5, <1>6 DEF DraftSteps

\* A draft is a sequence of draft steps.
LEMMA DraftTyped ==
    ASSUME NEW plan \in TaskPlans, NEW kind \in Nat
    PROVE  ModelDraft(plan, kind) \in Seq(DraftSteps)
<1> DEFINE E == ExpandedPlanSteps(plan.steps)
           R == Repeats(plan, kind)
<1>1. E \in Seq(PlanSteps)
  BY PlanFields, ExpandedType
<1>2. R = [i \in 1..Len(E) |-> Repeat(E[i], kind)] /\ Len(E) \in Nat
  BY <1>1 DEF Repeats
<1> HIDE DEF E, R
<1>3. \A i \in 1..Len(E) : Repeat(E[i], kind) \in DraftSteps
  BY <1>1, RepeatType
<1>4. R \in Seq(DraftSteps)
  <2>1. R \in [1..Len(E) -> DraftSteps]
    BY <1>2, <1>3
  <2> QED BY <1>2, <2>1
<1>5. CASE kind = 2
  <2>1. SubSeq(R, 1, Len(R) - 1) \in Seq(DraftSteps)
    BY <1>4
  <2> QED BY <1>5, <2>1, DraftRepeats DEF R
<1>6. CASE kind = 3
  <2> DEFINE n == Len(R)
             T == [R EXCEPT ![n].value = @ \cup {"other"}]
             t == [R[n] EXCEPT !.value = @ \cup {"other"}]
  <2>0. ModelDraft(plan, kind) = T
    BY <1>6, DraftRepeats DEF R
  <2>1. CASE n \in DOMAIN R
    <3>1. R[n] \in DraftSteps
      BY <1>4, <2>1
    <3>2. \A d \in DraftSteps : [d EXCEPT !.value = @ \cup {"other"}] \in DraftSteps
      BY DEF DraftSteps, Texts, Words
    <3>3. t \in DraftSteps
      BY <3>1, <3>2
    <3>4. T = [R EXCEPT ![n] = t]
      BY <2>1
    <3> HIDE DEF t, T
    <3> QED BY <1>4, <2>0, <2>1, <3>3, <3>4
  <2>2. CASE n \notin DOMAIN R
    <3>1. T = R
      BY <1>4, <2>2
    <3> QED BY <1>4, <2>0, <3>1
  <2> QED BY <2>1, <2>2
<1>7. CASE kind \notin {2, 3}
  BY <1>4, <1>7, DraftRepeats DEF R
<1> QED BY <1>5, <1>6, <1>7

\* A draft that says research-v1 repeats the plan.
LEMMA VersionOneRepeats ==
    ASSUME NEW plan \in TaskPlans, \A i \in DOMAIN plan.steps : BindingOfStep(plan.steps[i])
    PROVE  CaseRepeats(ModelDraft(plan, 6), plan.steps)
<1> DEFINE E == ExpandedPlanSteps(plan.steps)
           R == Repeats(plan, 6)
<1>1. plan.steps \in Seq(PlanSteps) /\ DOMAIN plan.steps = 1..Len(plan.steps)
  BY PlanFields
<1>2. E \in Seq(PlanSteps) /\ \A k \in 1..Len(E) : \E i \in 1..Len(plan.steps) : E[k] = plan.steps[i]
  BY <1>1, ExpandedType
<1>3. ModelDraft(plan, 6) = R
  BY DraftRepeats
<1>4. R = [i \in 1..Len(E) |-> Repeat(E[i], 6)] /\ Len(E) \in Nat
  BY <1>2 DEF Repeats
<1> HIDE DEF E, R
<1>5. Len(R) = Len(E) /\ DOMAIN R = 1..Len(E)
  BY <1>4
<1>6. ASSUME NEW i \in 1..Len(E)
      PROVE  /\ \A f \in {"id", "action", "target", "value", "trigger", "key",
                          "idem", "effect"} : R[i][f] = E[i][f]
             /\ R[i].binding # NoBinding => R[i].binding.target = E[i].target
  <2>1. R[i] = Repeat(E[i], 6) /\ BindingOfStep(E[i])
    BY <1>1, <1>2, <1>4
  <2>2. \A s : /\ \A f \in {"id", "action", "target", "value", "trigger", "key",
                            "idem", "effect"} : Repeat(s, 6)[f] = s[f]
               /\ Repeat(s, 6).binding = s.binding
    BY DEF Repeat
  <2> QED BY <2>1, <2>2 DEF BindingOfStep
<1> QED BY <1>3, <1>5, <1>6 DEF CaseRepeats, E

IInv ==
    /\ Typed /\ Phases /\ Copies /\ SnapIsCurrent /\ CallFits /\ FailedIsGrounded
    /\ BindingsNamed /\ ApprovalFits /\ DraftFits /\ CasesFit /\ ProbesCounted
    /\ CompletedFits

\* The bounds are natural numbers.
LEMMA Bounds ==
    /\ MaxVersions \in Nat /\ MaxGens \in Nat /\ MaxWork \in Nat /\ MaxWasted \in Nat
    /\ MaxFaults \in Nat /\ MaxRunPage \in Nat \ {0} /\ MaxRunFlow \in Nat \ {0}
BY PlanBoundsAssumption DEF PlanBoundsAssumption

\* The newest version is there when there is one.
LEMMA CurrentType ==
    ASSUME Typed
    PROVE  /\ Len(plans) \in Nat /\ DOMAIN plans = 1..Len(plans)
           /\ plans # <<>> => /\ Len(plans) \in DOMAIN plans /\ Current \in TaskPlans
                              /\ Current = plans[Len(plans)] /\ GetCurrent = <<Current>>
                              /\ GetCurrent[1] = Current
           /\ plans = <<>> => GetCurrent = <<>>
           /\ GetCurrent \in Seq(TaskPlans)
<1>1. plans \in Seq(TaskPlans)
  BY DEF Typed
<1> QED BY <1>1 DEF Current, GetCurrent

\* What the model may propose is well formed.
LEMMA CallsTyped ==
    ASSUME Typed, NEW call \in Calls
    PROVE  /\ TypedCall(call) /\ call.tool \in Tools
           /\ call.tool = "generate_dsl" => plans # <<>> /\ call.draft = ModelDraft(Current, call.v)
<1>2. \E tool \in Tools, n \in Nat, v \in Nat :
        /\ call = Call(tool, n, v)
        /\ tool = "set_task_plan" => n \in DOMAIN Definitions
        /\ tool \in Exploration => n \in DOMAIN Probes /\ Probes[n].tool = tool
        /\ tool = "execute_dsl" => n \in DOMAIN gens
        /\ tool \in {"get_report", "fix_and_retry"} => n \in DOMAIN batches
        /\ tool = "generate_dsl" => plans # <<>>
  <2>0. /\ DOMAIN Definitions \subseteq Nat /\ DOMAIN gens \subseteq Nat
        /\ DOMAIN batches \subseteq Nat /\ DOMAIN Probes \subseteq Nat
        /\ \A n \in DOMAIN Probes : Probes[n].tool \in Exploration
        /\ DraftKinds \subseteq Nat /\ Len(plans) \in Nat
    <3>1. DOMAIN Definitions \subseteq Nat /\ DOMAIN gens \subseteq Nat /\ Len(plans) \in Nat
          /\ DOMAIN batches \subseteq Nat
      BY PlanInputsAssumption DEF PlanInputsAssumption, Typed
    <3>2. DOMAIN Probes \subseteq Nat /\ \A n \in DOMAIN Probes : Probes[n].tool \in Exploration
      BY PlanInputsAssumption DEF PlanInputsAssumption, Exploration
    <3>3. DraftKinds \subseteq Nat
      BY PlanInputsAssumption DEF PlanInputsAssumption
    <3> QED BY <3>1, <3>2, <3>3
  <2>1. CASE \E n \in DOMAIN Definitions, v \in {0, 1} : call = Call("set_task_plan", n, v)
    BY <2>0, <2>1 DEF Tools, Exploration
  <2>2. CASE \E n \in DOMAIN Probes : call = Call(Probes[n].tool, n, 0)
    BY <2>0, <2>2 DEF Tools, Exploration
  <2>3. CASE \E n \in DOMAIN gens : call = Call("execute_dsl", n, 0)
    BY <2>0, <2>3 DEF Tools, Exploration
  <2>4. CASE \E n \in DOMAIN batches : call = Call("get_report", n, 0)
    BY <2>0, <2>4 DEF Tools, Exploration
  <2>5. CASE \E n \in DOMAIN batches : call = Call("fix_and_retry", n, 0)
    BY <2>0, <2>5 DEF Tools, Exploration
  <2>6. CASE call = Call("ask_user_question", 0, 0)
    BY <2>0, <2>6 DEF Tools, Exploration
  <2>7. CASE plans # <<>> /\ \E n \in {1, Len(plans)}, v \in DraftKinds :
                                call = Call("generate_dsl", n, v)
    BY <2>0, <2>7 DEF Tools, Exploration
  <2> QED BY <2>1, <2>2, <2>3, <2>4, <2>5, <2>6, <2>7 DEF Calls
<1>3. PICK tool \in Tools, n \in Nat, v \in Nat :
        /\ call = Call(tool, n, v)
        /\ tool = "set_task_plan" => n \in DOMAIN Definitions
        /\ tool \in Exploration => n \in DOMAIN Probes /\ Probes[n].tool = tool
        /\ tool = "execute_dsl" => n \in DOMAIN gens
        /\ tool \in {"get_report", "fix_and_retry"} => n \in DOMAIN batches
        /\ tool = "generate_dsl" => plans # <<>>
  BY <1>2
<1>4. /\ call.tool = tool /\ call.n = n /\ call.v = v
      /\ call.draft = IF tool = "generate_dsl" THEN ModelDraft(Current, v) ELSE <<>>
      /\ call = [tool |-> tool, n |-> n, v |-> v, draft |-> call.draft]
  BY <1>3 DEF Call
<1>5. call.draft \in Seq(DraftSteps)
  <2>1. CASE tool = "generate_dsl"
    <3>1. Current \in TaskPlans
      BY <1>3, <2>1, CurrentType
    <3>2. ModelDraft(Current, v) \in Seq(DraftSteps)
      BY <3>1, DraftTyped
    <3> QED BY <1>4, <2>1, <3>2
  <2>2. CASE tool # "generate_dsl"
    BY <1>4, <2>2
  <2> QED BY <2>1, <2>2
<1>6. call \in ModelCalls
  BY <1>4, <1>5, Zenon DEF ModelCalls
<1> QED BY <1>3, <1>4, <1>6 DEF TypedCall

-----------------------------------------------------------------------------
(* What a result and a request make of a plan                              *)

\* A plan whose status asks for grounded steps has them.
GroundedEnough(plan) == plan.status \in Ready \cup {"failed"} => AllGrounded(plan.steps)

\* markTerminal changes the status only.
LEMMA MarkedMoves ==
    ASSUME NEW plan \in TaskPlans, NEW st \in PlanStatus
    PROVE  LET r == Marked(plan, st)
           IN  /\ PlanMoves(plan, r) /\ r.gen = plan.gen /\ r.steps = plan.steps
               /\ \/ r = plan /\ plan.status \in {"completed", "superseded"}
                  \/ r.status = st
<1>1. CASE plan.status \in {"completed", "superseded"}
  BY <1>1, StatusMoves DEF Marked
<1>2. CASE plan.status \notin {"completed", "superseded"}
  <2> DEFINE r == Marked(plan, st)
  <2>1. plan.gen \in Nat /\ plan.steps \in Seq(PlanSteps)
    BY PlanFields
  <2>2. r = Updated(plan, plan.gen, st, plan.steps)
    BY <1>2, StatusUpdate, Zenon DEF Marked
  <2>3. PlanMoves(plan, r) /\ r.gen = plan.gen /\ r.steps = plan.steps /\ r.status = st
    BY <2>1, <2>2, StatusMoves, PlanUpdated
  <2> QED BY <2>3
<1> QED BY <1>1, <1>2

\* RecordToolResult: a result moves the plan, and only a report of a passed batch
\* completes it. Nothing makes it ready or failed whose steps are not grounded.
LEMMA AdvancedMoves ==
    ASSUME NEW plan \in TaskPlans, NEW call \in ModelCalls, NEW res \in ToolResults,
           TypedCall(call), call.tool \in NeedsPlan, CallStatus(call.tool, plan.status),
           call.tool \in Exploration => res.n \in DOMAIN Results, GroundedEnough(plan)
    PROVE  LET r == Advanced(plan, call, res)
           IN  /\ PlanMoves(plan, r) /\ GroundedEnough(r)
               /\ r.status = "completed" => call.tool = "get_report" /\ res.s = "passed"
               /\ IF call.tool = "generate_dsl" THEN r.gen = res.n
                  ELSE r.gen \in {0, plan.gen}
<1> DEFINE r == Advanced(plan, call, res)
<1>0. /\ plan.gen \in Nat /\ plan.steps \in Seq(PlanSteps) /\ res.n \in Nat
      /\ plan.status \in PlanStatus
  BY PlanFields DEF ToolResults
<1>1. CASE call.tool \in Exploration
  <2>1. r = RecordExploration(plan, Probes[call.n], Results[res.n])
    <3>1. call.tool \in Exploration /\ call.tool \notin
            {"generate_dsl", "execute_dsl", "get_report", "fix_and_retry"}
      BY <1>1 DEF Exploration
    <3> QED BY <3>1 DEF Advanced
  <2>2. plan.status = "grounding" /\ Results[res.n].obs \in Nat
    BY <1>1, PlanInputsAssumption DEF CallStatus, PlanInputsAssumption
  <2>3. /\ PlanMoves(plan, r) /\ r.gen = plan.gen
        /\ r.status \in {"grounding", "ready_for_generation"}
        /\ r.status = "ready_for_generation" => AllGrounded(r.steps)
    BY <2>1, <2>2, ExplorationMoves
  <2> HIDE DEF r
  <2>4. GroundedEnough(r)
    BY <2>3 DEF GroundedEnough, Ready
  <2> QED BY <1>1, <2>3, <2>4 DEF Exploration, r
<1>2. CASE call.tool = "generate_dsl"
  <2>1. r = [plan EXCEPT !.gen = res.n, !.status = "awaiting_approval"]
    BY <1>2 DEF Advanced, Exploration
  <2>a. "awaiting_approval" \in PlanStatus
    BY DEF PlanStatus
  <2>2. r = Updated(plan, res.n, "awaiting_approval", plan.steps)
    BY <2>1, GenUpdate, Zenon
  <2> HIDE DEF r
  <2>3. /\ PlanMoves(plan, r) /\ r.gen = res.n /\ r.steps = plan.steps
        /\ r.status = "awaiting_approval"
    BY <1>0, <2>2, <2>a, StatusMoves, PlanUpdated
  <2>4. GroundedEnough(r)
    BY <1>2, <2>3 DEF GroundedEnough, Ready, CallStatus
  <2> QED BY <1>2, <2>3, <2>4 DEF r
<1>3. CASE call.tool = "execute_dsl"
  <2>1. r = [plan EXCEPT !.status = "executing"]
    BY <1>3 DEF Advanced, Exploration
  <2>a. "executing" \in PlanStatus
    BY DEF PlanStatus
  <2>2. r = Updated(plan, plan.gen, "executing", plan.steps)
    BY <2>1, StatusUpdate, Zenon
  <2> HIDE DEF r
  <2>3. /\ PlanMoves(plan, r) /\ r.gen = plan.gen /\ r.steps = plan.steps
        /\ r.status = "executing"
    BY <1>0, <2>2, <2>a, StatusMoves, PlanUpdated
  <2>4. GroundedEnough(r)
    BY <1>3, <2>3 DEF GroundedEnough, Ready, CallStatus
  <2> QED BY <1>3, <2>3, <2>4 DEF r
<1>4. CASE call.tool = "get_report"
  <2> DEFINE st == CASE res.s = "passed" -> "completed"
                     [] res.s \in ReportTerminal \ {"passed"} -> "failed"
                     [] OTHER -> plan.status
  <2>1. r = [plan EXCEPT !.status = st]
    BY <1>4 DEF Advanced, Exploration, TaskPlans
  <2>2. st \in PlanStatus /\ (st = "completed" => res.s = "passed")
        /\ st \in {"completed", "failed", "executing"}
    BY <1>0, <1>4 DEF PlanStatus, CallStatus, Exploration
  <2> HIDE DEF r, st
  <2>3. r = Updated(plan, plan.gen, st, plan.steps)
    BY <2>1, StatusUpdate, Zenon
  <2>4. PlanMoves(plan, r) /\ r.gen = plan.gen /\ r.steps = plan.steps /\ r.status = st
    BY <1>0, <2>2, <2>3, StatusMoves, PlanUpdated
  <2>5. GroundedEnough(r)
    BY <1>4, <2>2, <2>4 DEF GroundedEnough, Ready, CallStatus
  <2> QED BY <1>4, <2>2, <2>4, <2>5 DEF r
<1>5. CASE call.tool = "fix_and_retry"
  <2> DEFINE st == CASE res.s = "re_explore" -> "grounding"
                     [] res.s = "regenerate_dsl" -> "ready_for_generation"
                     [] res.s = "wait_execution" -> "executing"
                     [] OTHER -> "blocked"
             back == IF res.s # "re_explore" THEN {} ELSE DOMAIN plan.steps
             pend == [i \in DOMAIN plan.steps |->
                          IF i \in back THEN [plan.steps[i] EXCEPT !.status = "pending"]
                          ELSE plan.steps[i]]
             steps == IF res.s # "re_explore" THEN plan.steps
                      ELSE [i \in DOMAIN plan.steps |->
                               [plan.steps[i] EXCEPT !.status = "pending"]]
  <2>1. r = Updated(plan, 0, st, steps)
    BY <1>5 DEF Advanced, Exploration, Updated, TaskPlans
  <2>2. st \in PlanStatus /\ st # "completed" /\ (res.s = "re_explore" => st = "grounding")
        /\ st # "failed"
    BY DEF PlanStatus
  <2>3. steps = pend
    <3>1. plan.steps = [i \in DOMAIN plan.steps |-> plan.steps[i]]
      BY <1>0
    <3> QED BY <3>1
  <2>4. steps \in Seq(PlanSteps) /\ PlanMoves(plan, Updated(plan, 0, st, steps))
    <3>1. pend \in Seq(PlanSteps) /\ PlanMoves(plan, Updated(plan, 0, st, pend))
      <4> HIDE DEF st, back, steps
      <4> QED BY <2>2, UngroundMoves
    <3> QED BY <2>3, <3>1
  <2> HIDE DEF pend, back
  <2>5. res.s # "re_explore" => steps = plan.steps
    OBVIOUS
  <2> HIDE DEF r, st, steps
  <2>6. r.gen = 0 /\ r.status = st /\ r.steps = steps
    BY <2>1, <2>2, <2>4, PlanUpdated
  <2>7. GroundedEnough(r)
    BY <1>5, <2>2, <2>5, <2>6 DEF GroundedEnough, Ready, CallStatus
  <2> QED BY <1>5, <2>1, <2>2, <2>4, <2>6, <2>7 DEF r
<1> QED BY <1>1, <1>2, <1>3, <1>4, <1>5 DEF NeedsPlan, Tools, Exploration

\* RecordToolFailure: a failure never completes a plan, never makes it ready, and
\* leaves its generation.
LEMMA AfterFailureMoves ==
    ASSUME NEW plan \in TaskPlans, NEW call \in ModelCalls, NEW res \in ToolResults,
           NEW named, call.tool \in NeedsPlan => CallStatus(call.tool, plan.status),
           GroundedEnough(plan)
    PROVE  LET r == AfterFailure(plan, call, res, named)
           IN  /\ PlanMoves(plan, r) /\ GroundedEnough(r) /\ r.gen = plan.gen
               /\ r.status = "completed" => plan.status = "completed"
<1> DEFINE r == AfterFailure(plan, call, res, named)
<1>0. /\ plan.gen \in Nat /\ plan.steps \in Seq(PlanSteps) /\ plan.status \in PlanStatus
  BY PlanFields
<1>1. CASE call.tool = "generate_dsl" /\ res.s = "evidence"
  <2> DEFINE back == IF named = {} THEN DOMAIN plan.steps ELSE named
             steps == [i \in DOMAIN plan.steps |->
                          IF i \in back THEN [plan.steps[i] EXCEPT !.status = "pending"]
                          ELSE plan.steps[i]]
  <2>1. r = [plan EXCEPT !.status = "grounding", !.steps = steps]
    BY <1>1 DEF AfterFailure, TaskPlans
  <2>2. "grounding" \in PlanStatus
    BY DEF PlanStatus
  <2>3. steps \in Seq(PlanSteps) /\ PlanMoves(plan, Updated(plan, plan.gen, "grounding", steps))
    BY <1>0, <2>2, UngroundMoves
  <2> HIDE DEF r, steps
  <2>4. r = Updated(plan, plan.gen, "grounding", steps)
    BY <2>1 DEF TaskPlans, Updated
  <2>5. r.gen = plan.gen /\ r.status = "grounding"
    BY <2>4 DEF Updated
  <2>6. GroundedEnough(r)
    BY <2>5 DEF GroundedEnough, Ready
  <2> QED BY <2>3, <2>4, <2>5, <2>6 DEF r
<1>2. CASE call.tool = "execute_dsl"
  <2>1. r = [plan EXCEPT !.status = "failed"]
    BY <1>2 DEF AfterFailure
  <2>a. "failed" \in PlanStatus
    BY DEF PlanStatus
  <2>2. r = Updated(plan, plan.gen, "failed", plan.steps)
    BY <2>1, StatusUpdate, Zenon
  <2> HIDE DEF r
  <2>3. PlanMoves(plan, r) /\ r.gen = plan.gen /\ r.steps = plan.steps /\ r.status = "failed"
    BY <1>0, <2>2, <2>a, StatusMoves, PlanUpdated
  <2>4. GroundedEnough(r)
    BY <1>2, <2>3 DEF GroundedEnough, Ready, CallStatus, NeedsPlan, Tools
  <2> QED BY <2>3, <2>4 DEF r
<1>3. CASE ~(call.tool = "generate_dsl" /\ res.s = "evidence") /\ call.tool # "execute_dsl"
  <2>1. r = plan
    BY <1>3 DEF AfterFailure
  <2> QED BY <2>1, <1>0, StatusMoves
<1> QED BY <1>1, <1>2, <1>3

-----------------------------------------------------------------------------
(* Steps that leave the rows alone                                         *)

\* What is said of a plan reads the plans, the generations and the batches.
LEMMA RowsKept ==
    ASSUME UNCHANGED <<plans, gens, batches>>
    PROVE  /\ \A plan : PlanFits(plan)' = PlanFits(plan) /\ CopyOf(plan)' = CopyOf(plan)
           /\ Current' = Current /\ GetCurrent' = GetCurrent /\ HasVerdict' = HasVerdict
           /\ CasesFit' = CasesFit
           /\ \A call : TypedCall(call)' = TypedCall(call)
<1>1. /\ \A plan : PlanFits(plan)' = PlanFits(plan)
      /\ Current' = Current /\ GetCurrent' = GetCurrent /\ HasVerdict' = HasVerdict
  BY DEF PlanFits, Current, GetCurrent, HasVerdict
<1>2. \A plan : CopyOf(plan)' = CopyOf(plan)
  BY <1>1 DEF CopyOf
<1>3. CasesFit' = CasesFit
  BY DEF CasesFit
<1>4. \A call : TypedCall(call)' = TypedCall(call)
  BY DEF TypedCall
<1> QED BY <1>1, <1>2, <1>3, <1>4

\* What is counted of the probes reads the probes.
LEMMA ProbesKept ==
    ASSUME UNCHANGED probes
    PROVE  \A tool, versions : ProbesOf(tool, versions)' = ProbesOf(tool, versions)
BY DEF ProbesOf

\* A tool returned and left the rows as they were: its result is on its way.
LEMMA ResultKeeps ==
    ASSUME IInv, drv.pc \in {"exec", "batch", "rebind"}, drv.call.tool # "ask_user_question",
           drv' \in Loops, drv'.pc = "record", drv'.call = drv.call, drv'.snap = drv.snap,
           UNCHANGED <<plans, run, gens, batches, probes, cancel, approvals>>,
           cases' \in Nat, wasted' \in 0..MaxWasted, faults' \in 0..MaxFaults,
           faults' = 0 => faults = 0,
           drv.pc = "rebind" => drv'.res.ok \/ faults' # 0,
           drv.pc = "rebind" =>
               \/ faults' # 0 \/ run.status = "cancelled"
               \/ \A i \in DOMAIN Current.steps : Current.steps[i].binding = NoBinding,
           drv'.res.ok =>
             /\ drv.call.tool \in Exploration => drv'.res.n \in DOMAIN Results
             /\ drv.call.tool = "generate_dsl" =>
                  drv'.res.n \in DOMAIN gens /\ gens[drv'.res.n].plan = Len(plans)
             /\ drv.call.tool = "get_report" /\ drv'.res.s = "passed" => HasVerdict
    PROVE  IInv'
<1>0. /\ Typed /\ Phases /\ Copies /\ SnapIsCurrent /\ CallFits /\ FailedIsGrounded
      /\ BindingsNamed /\ ApprovalFits /\ DraftFits /\ CasesFit /\ ProbesCounted
      /\ CompletedFits
  BY DEF IInv
<1>1. /\ \A plan : PlanFits(plan)' = PlanFits(plan) /\ CopyOf(plan)' = CopyOf(plan)
      /\ Current' = Current /\ GetCurrent' = GetCurrent /\ HasVerdict' = HasVerdict
      /\ CasesFit' = CasesFit
      /\ \A call : TypedCall(call)' = TypedCall(call)
      /\ \A tool, versions : ProbesOf(tool, versions)' = ProbesOf(tool, versions)
  BY RowsKept, ProbesKept
<1>2. Typed'
  BY <1>0, <1>1 DEF Typed
<1>3. Phases'
  BY <1>0 DEF Phases
<1>4. Copies'
  BY <1>0, <1>1 DEF Copies
<1>5. SnapIsCurrent'
  BY <1>0, <1>1 DEF SnapIsCurrent
<1>6. CallFits'
  BY <1>0, <1>1 DEF CallFits, Phases, NeedsPlan
<1>7. FailedIsGrounded'
  BY <1>0, <1>1 DEF FailedIsGrounded
<1>8. BindingsNamed'
  BY <1>0, <1>1 DEF BindingsNamed, Current
<1>9. ApprovalFits'
  BY <1>0, <1>1 DEF ApprovalFits
<1>10. DraftFits'
  BY DEF DraftFits
<1>11. ProbesCounted'
  BY <1>0, <1>1 DEF ProbesCounted, Phases, Exploration
<1>12. CompletedFits'
  BY <1>0, <1>1 DEF CompletedFits
<1> QED BY <1>0, <1>1, <1>2, <1>3, <1>4, <1>5, <1>6, <1>7, <1>8, <1>9, <1>10, <1>11,
           <1>12 DEF IInv

\* The loop without a call.
LEMMA NoCallTyped == NoCall \in ModelCalls /\ TypedCall(NoCall) /\ NoCall.tool = "none"
<1>1. NoCall \in ModelCalls /\ NoCall.tool = "none"
  BY DEF NoCall, ModelCalls
<1> QED BY <1>1 DEF TypedCall, Exploration

\* The newest version is a copy of itself.
LEMMA CurrentIsCopy ==
    ASSUME Typed, Copies
    PROVE  /\ plans = <<>> => GetCurrent = NoPlan
           /\ plans # <<>> => /\ GetCurrent # NoPlan /\ GetCurrent[1] = Current
                              /\ CopyOf(Current) /\ Current.version = Len(plans)
<1>1. CASE plans # <<>>
  <2>1. Len(plans) \in DOMAIN plans /\ Current = plans[Len(plans)] /\ GetCurrent = <<Current>>
    BY <1>1, CurrentType
  <2>2. PlanFits(Current) /\ Current.version = Len(plans)
    BY <2>1 DEF Copies
  <2> QED BY <1>1, <2>1, <2>2 DEF CopyOf, SamePlan, SameStep
<1> QED BY <1>1 DEF GetCurrent

\* A call passed its gates: it has the plan, the status and the probes left that it needs.
LEMMA ProposeKeeps ==
    ASSUME IInv, NEW call \in Calls, Propose(call)
    PROVE  IInv'
<1>0. /\ Typed /\ Phases /\ Copies /\ SnapIsCurrent /\ CallFits /\ FailedIsGrounded
      /\ BindingsNamed /\ ApprovalFits /\ DraftFits /\ CasesFit /\ ProbesCounted
      /\ CompletedFits
  BY DEF IInv
<1>1. /\ drv.pc = "model" /\ run.status = "running" /\ ~cancel.ctx
      /\ drv' \in Loops /\ drv'.pc = "exec" /\ drv'.call = call
      /\ drv'.res = drv.res /\ drv'.snap = drv.snap /\ WithinBounds(call)
      /\ UNCHANGED <<plans, gens, batches, probes, approvals>>
      /\ UNCHANGED <<run, cancel, cases, wasted, faults>>
  <2>1. drv \in Loops /\ call \in ModelCalls
    BY <1>0, CallsTyped DEF Typed, TypedCall
  <2> QED BY <2>1 DEF Propose, LoopRuns, Loops
<1>2. /\ \A plan : PlanFits(plan)' = PlanFits(plan) /\ CopyOf(plan)' = CopyOf(plan)
      /\ Current' = Current /\ GetCurrent' = GetCurrent /\ HasVerdict' = HasVerdict
      /\ CasesFit' = CasesFit
      /\ \A c : TypedCall(c)' = TypedCall(c)
      /\ \A tool, versions : ProbesOf(tool, versions)' = ProbesOf(tool, versions)
  BY <1>1, RowsKept, ProbesKept
<1>a. /\ TypedCall(call) /\ call.tool \in Tools
      /\ call.tool = "generate_dsl" => call.draft = ModelDraft(Current, call.v)
  BY <1>0, CallsTyped
<1>b. call.tool \in NeedsPlan => plans # <<>> /\ CallStatus(call.tool, Current.status)
  <2>1. Authorize(call)
    BY DEF Propose
  <2> QED BY <1>a, <2>1 DEF Authorize, AuthorizeExploration, CallStatus, NeedsPlan, Tools,
             Exploration
<1>c. call.tool \in Exploration =>
        Cardinality(ProbesOf(call.tool, DOMAIN plans)) < RunLimit(call.tool)
  <2>1. call.tool \in Exploration => BeforeExplorationCall(call)
    BY DEF Propose, BeforeToolCall
  <2>2. DOMAIN plans = 1..Len(plans)
    BY <1>0, CurrentType
  <2> QED BY <2>1, <2>2 DEF BeforeExplorationCall, RunLimit
<1>3. Typed'
  BY <1>0, <1>1, <1>2, <1>a DEF Typed
<1>4. Phases'
  BY <1>0, <1>1, <1>2, <1>a, Bounds DEF Phases, WithinBounds, Tools
<1>5. Copies'
  BY <1>0, <1>1, <1>2 DEF Copies, Phases
<1>6. SnapIsCurrent'
  BY <1>0, <1>1, <1>2 DEF SnapIsCurrent, Phases
<1>7. CallFits'
  BY <1>0, <1>1, <1>2, <1>b DEF CallFits, Phases
<1>8. FailedIsGrounded'
  BY <1>0, <1>1, <1>2 DEF FailedIsGrounded, Phases
<1>9. BindingsNamed'
  BY <1>0, <1>1, <1>2 DEF BindingsNamed, Phases
<1>10. ApprovalFits'
  BY <1>0, <1>1, <1>2 DEF ApprovalFits, Phases
<1>11. DraftFits'
  BY <1>1, <1>2, <1>a DEF DraftFits
<1>12. ProbesCounted'
  BY <1>0, <1>1, <1>2, <1>c DEF ProbesCounted
<1>13. CompletedFits'
  BY <1>0, <1>1, <1>2 DEF CompletedFits, Phases
<1> QED BY <1>0, <1>2, <1>3, <1>4, <1>5, <1>6, <1>7, <1>8, <1>9, <1>10, <1>11, <1>12, <1>13 DEF IInv

\* A refused call leaves a wasted turn.
LEMMA RefuseKeeps ==
    ASSUME IInv, NEW call, Refuse(call)
    PROVE  IInv'
<1>0. /\ Typed /\ Phases /\ Copies /\ SnapIsCurrent /\ CallFits /\ FailedIsGrounded
      /\ BindingsNamed /\ ApprovalFits /\ DraftFits /\ CasesFit /\ ProbesCounted
      /\ CompletedFits
  BY DEF IInv
<1>1. /\ drv.pc = "model" /\ wasted' \in 0..MaxWasted
      /\ UNCHANGED <<plans, gens, batches, probes, approvals>>
      /\ UNCHANGED <<run, drv, cancel, cases, faults>>
  BY <1>0, Bounds DEF Refuse, WithinBounds, Typed
<1>2. /\ \A plan : PlanFits(plan)' = PlanFits(plan) /\ CopyOf(plan)' = CopyOf(plan)
      /\ Current' = Current /\ GetCurrent' = GetCurrent /\ HasVerdict' = HasVerdict
      /\ CasesFit' = CasesFit
      /\ \A c : TypedCall(c)' = TypedCall(c)
      /\ \A tool, versions : ProbesOf(tool, versions)' = ProbesOf(tool, versions)
  BY <1>1, RowsKept, ProbesKept
<1>3. Typed'
  BY <1>0, <1>1, <1>2 DEF Typed
<1>4. Phases'
  BY <1>0, <1>1, <1>2, Bounds DEF Phases
<1>5. Copies'
  BY <1>0, <1>1, <1>2 DEF Copies, Phases
<1>6. SnapIsCurrent'
  BY <1>0, <1>1, <1>2 DEF SnapIsCurrent, Phases
<1>7. CallFits'
  BY <1>0, <1>1, <1>2 DEF CallFits, Phases
<1>8. FailedIsGrounded'
  BY <1>0, <1>1, <1>2 DEF FailedIsGrounded, Phases
<1>9. BindingsNamed'
  BY <1>0, <1>1, <1>2 DEF BindingsNamed, Phases
<1>10. ApprovalFits'
  BY <1>0, <1>1, <1>2 DEF ApprovalFits, Phases
<1>11. DraftFits'
  BY <1>0, <1>1, <1>2 DEF DraftFits, Phases
<1>12. ProbesCounted'
  BY <1>0, <1>1, <1>2 DEF ProbesCounted, Phases
<1>13. CompletedFits'
  BY <1>0, <1>1, <1>2 DEF CompletedFits, Phases
<1> QED BY <1>0, <1>2, <1>3, <1>4, <1>5, <1>6, <1>7, <1>8, <1>9, <1>10, <1>11, <1>12, <1>13 DEF IInv

\* The question suspends the run.
LEMMA AskKeeps ==
    ASSUME IInv, AskUserQuestion
    PROVE  IInv'
<1>0. /\ Typed /\ Phases /\ Copies /\ SnapIsCurrent /\ CallFits /\ FailedIsGrounded
      /\ BindingsNamed /\ ApprovalFits /\ DraftFits /\ CasesFit /\ ProbesCounted
      /\ CompletedFits
  BY DEF IInv
<1>1. /\ drv.pc = "exec" /\ run.status = "running" /\ ~cancel.ctx
      /\ drv' \in Loops /\ drv'.pc = "idle" /\ drv'.call = NoCall
      /\ drv'.res = drv.res /\ drv'.snap = drv.snap
      /\ run' \in Runs /\ run'.status = "waiting" /\ run'.latest = run.latest
      /\ run'.approved = run.approved
      /\ UNCHANGED <<plans, gens, batches, probes, approvals>>
      /\ UNCHANGED <<cancel, cases, wasted, faults>>
  <2>1. drv \in Loops /\ run \in Runs /\ NoCall \in ModelCalls
    BY <1>0, NoCallTyped DEF Typed
  <2> QED BY <2>1 DEF AskUserQuestion, Executing, Loops, Runs
<1>2. /\ \A plan : PlanFits(plan)' = PlanFits(plan) /\ CopyOf(plan)' = CopyOf(plan)
      /\ Current' = Current /\ GetCurrent' = GetCurrent /\ HasVerdict' = HasVerdict
      /\ CasesFit' = CasesFit
      /\ \A c : TypedCall(c)' = TypedCall(c)
      /\ \A tool, versions : ProbesOf(tool, versions)' = ProbesOf(tool, versions)
  BY <1>1, RowsKept, ProbesKept
<1>a. drv.call.tool = "ask_user_question"
  BY DEF AskUserQuestion, Executing
<1>3. Typed'
  BY <1>0, <1>1, <1>2, NoCallTyped DEF Typed
<1>4. Phases'
  BY <1>0, <1>1, <1>2, Bounds DEF Phases
<1>5. Copies'
  BY <1>0, <1>1, <1>2 DEF Copies, Phases
<1>6. SnapIsCurrent'
  BY <1>0, <1>1, <1>2 DEF SnapIsCurrent, Phases
<1>7. CallFits'
  BY <1>0, <1>1, <1>2 DEF CallFits, Phases
<1>8. FailedIsGrounded'
  BY <1>0, <1>1, <1>2 DEF FailedIsGrounded, Phases
<1>9. BindingsNamed'
  BY <1>0, <1>1, <1>2 DEF BindingsNamed, Phases
<1>10. ApprovalFits'
  BY <1>0, <1>1, <1>2, NoCallTyped, <1>a DEF ApprovalFits, Phases
<1>11. DraftFits'
  BY <1>0, <1>1, <1>2 DEF DraftFits, Phases
<1>12. ProbesCounted'
  BY <1>0, <1>1, <1>2 DEF ProbesCounted, Phases
<1>13. CompletedFits'
  BY <1>0, <1>1, <1>2 DEF CompletedFits, Phases
<1> QED BY <1>0, <1>2, <1>3, <1>4, <1>5, <1>6, <1>7, <1>8, <1>9, <1>10, <1>11, <1>12, <1>13 DEF IInv

\* The answer sends the loop on, or to the approval.
LEMMA AnswerKeeps ==
    ASSUME IInv, NEW approve, Answer(approve)
    PROVE  IInv'
<1>0. /\ Typed /\ Phases /\ Copies /\ SnapIsCurrent /\ CallFits /\ FailedIsGrounded
      /\ BindingsNamed /\ ApprovalFits /\ DraftFits /\ CasesFit /\ ProbesCounted
      /\ CompletedFits
  BY DEF IInv
<1>1. /\ drv.pc = "idle" /\ run.status = "waiting"
      /\ drv' \in Loops /\ drv'.pc \in {"approve", "model"}
      /\ drv'.call = drv.call /\ drv'.res = drv.res /\ drv'.snap = drv.snap
      /\ run' \in Runs /\ run'.status = "running" /\ run'.latest = run.latest
      /\ run'.approved = run.approved
      /\ UNCHANGED <<plans, gens, batches, probes, approvals>>
      /\ UNCHANGED <<cancel, cases, wasted, faults>>
  <2>1. drv \in Loops /\ run \in Runs
    BY <1>0 DEF Typed
  <2> QED BY <2>1 DEF Answer, Loops, Runs
<1>2. /\ \A plan : PlanFits(plan)' = PlanFits(plan) /\ CopyOf(plan)' = CopyOf(plan)
      /\ Current' = Current /\ GetCurrent' = GetCurrent /\ HasVerdict' = HasVerdict
      /\ CasesFit' = CasesFit
      /\ \A c : TypedCall(c)' = TypedCall(c)
      /\ \A tool, versions : ProbesOf(tool, versions)' = ProbesOf(tool, versions)
  BY <1>1, RowsKept, ProbesKept
<1>3. Typed'
  BY <1>0, <1>1, <1>2 DEF Typed
<1>4. Phases'
  BY <1>0, <1>1, <1>2, Bounds DEF Phases
<1>5. Copies'
  BY <1>0, <1>1, <1>2 DEF Copies, Phases
<1>6. SnapIsCurrent'
  BY <1>0, <1>1, <1>2 DEF SnapIsCurrent, Phases
<1>7. CallFits'
  BY <1>0, <1>1, <1>2 DEF CallFits, Phases
<1>8. FailedIsGrounded'
  BY <1>0, <1>1, <1>2 DEF FailedIsGrounded, Phases
<1>9. BindingsNamed'
  BY <1>0, <1>1, <1>2 DEF BindingsNamed, Phases
<1>10. ApprovalFits'
  BY <1>0, <1>1, <1>2 DEF ApprovalFits, Phases
<1>11. DraftFits'
  BY <1>0, <1>1, <1>2 DEF DraftFits, Phases
<1>12. ProbesCounted'
  BY <1>0, <1>1, <1>2 DEF ProbesCounted, Phases
<1>13. CompletedFits'
  BY <1>0, <1>1, <1>2 DEF CompletedFits, Phases
<1> QED BY <1>0, <1>2, <1>3, <1>4, <1>5, <1>6, <1>7, <1>8, <1>9, <1>10, <1>11, <1>12, <1>13 DEF IInv

\* The approval reads the plan it approves.
LEMMA ApproveReadKeeps ==
    ASSUME IInv, ApproveRead
    PROVE  IInv'
<1>0. /\ Typed /\ Phases /\ Copies /\ SnapIsCurrent /\ CallFits /\ FailedIsGrounded
      /\ BindingsNamed /\ ApprovalFits /\ DraftFits /\ CasesFit /\ ProbesCounted
      /\ CompletedFits
  BY DEF IInv
<1>1. /\ drv.pc = "approve" /\ drv' \in Loops /\ drv'.call = drv.call /\ drv'.res = drv.res
      /\ \/ /\ drv'.pc = "approveSave" /\ drv'.snap = GetCurrent
            /\ run.latest # 0 /\ plans # <<>> /\ Approvable(Current)
         \/ drv'.pc = "stranded" /\ drv'.snap = drv.snap
      /\ UNCHANGED <<plans, gens, batches, probes, approvals>>
      /\ UNCHANGED <<run, cancel, cases, wasted, faults>>
  <2>1. drv \in Loops /\ GetCurrent \in Seq(TaskPlans)
    BY <1>0, CurrentType DEF Typed
  <2> QED BY <2>1 DEF ApproveRead, Loops
<1>2. /\ \A plan : PlanFits(plan)' = PlanFits(plan) /\ CopyOf(plan)' = CopyOf(plan)
      /\ Current' = Current /\ GetCurrent' = GetCurrent /\ HasVerdict' = HasVerdict
      /\ CasesFit' = CasesFit
      /\ \A c : TypedCall(c)' = TypedCall(c)
      /\ \A tool, versions : ProbesOf(tool, versions)' = ProbesOf(tool, versions)
  BY <1>1, RowsKept, ProbesKept
<1>a. /\ plans = <<>> => GetCurrent = NoPlan
      /\ plans # <<>> => /\ GetCurrent # NoPlan /\ GetCurrent[1] = Current /\ CopyOf(Current)
                         /\ Current.version = Len(plans)
  BY <1>0, CurrentIsCopy
<1>3. Typed'
  BY <1>0, <1>1, <1>2 DEF Typed
<1>4. Phases'
  BY <1>0, <1>1, <1>2, Bounds DEF Phases
<1>5. Copies'
  BY <1>0, <1>1, <1>2, <1>a DEF Copies, Phases
<1>6. SnapIsCurrent'
  BY <1>0, <1>1, <1>2, <1>a DEF SnapIsCurrent, Phases
<1>7. CallFits'
  BY <1>0, <1>1, <1>2 DEF CallFits, Phases
<1>8. FailedIsGrounded'
  BY <1>0, <1>1, <1>2, <1>a DEF FailedIsGrounded, Phases
<1>9. BindingsNamed'
  BY <1>0, <1>1, <1>2 DEF BindingsNamed, Phases
<1>10. ApprovalFits'
  BY <1>0, <1>1, <1>2, <1>a DEF ApprovalFits, Phases, Approvable
<1>11. DraftFits'
  BY <1>0, <1>1, <1>2 DEF DraftFits, Phases
<1>12. ProbesCounted'
  BY <1>0, <1>1, <1>2 DEF ProbesCounted, Phases
<1>13. CompletedFits'
  BY <1>0, <1>1, <1>2 DEF CompletedFits, Phases
<1> QED BY <1>0, <1>2, <1>3, <1>4, <1>5, <1>6, <1>7, <1>8, <1>9, <1>10, <1>11, <1>12, <1>13 DEF IInv

\* The run completes with its plan.
LEMMA CompleteKeeps ==
    ASSUME IInv, Complete
    PROVE  IInv'
<1>0. /\ Typed /\ Phases /\ Copies /\ SnapIsCurrent /\ CallFits /\ FailedIsGrounded
      /\ BindingsNamed /\ ApprovalFits /\ DraftFits /\ CasesFit /\ ProbesCounted
      /\ CompletedFits
  BY DEF IInv
<1>1. /\ drv.pc = "model" /\ run.status = "running" /\ ~cancel.ctx
      /\ drv' \in Loops /\ drv'.pc = "stopped"
      /\ drv'.call = drv.call /\ drv'.res = drv.res /\ drv'.snap = drv.snap
      /\ run' \in Runs /\ run'.status = "completed" /\ run'.latest = run.latest
      /\ run'.approved = run.approved
      /\ plans # <<>> /\ Current.status = "completed"
      /\ UNCHANGED <<plans, gens, batches, probes, approvals>>
      /\ UNCHANGED <<cancel, cases, wasted, faults>>
  <2>1. drv \in Loops /\ run \in Runs
    BY <1>0 DEF Typed
  <2> QED BY <2>1 DEF Complete, LoopRuns, Loops, Runs
<1>2. /\ \A plan : PlanFits(plan)' = PlanFits(plan) /\ CopyOf(plan)' = CopyOf(plan)
      /\ Current' = Current /\ GetCurrent' = GetCurrent /\ HasVerdict' = HasVerdict
      /\ CasesFit' = CasesFit
      /\ \A c : TypedCall(c)' = TypedCall(c)
      /\ \A tool, versions : ProbesOf(tool, versions)' = ProbesOf(tool, versions)
  BY <1>1, RowsKept, ProbesKept
<1>3. Typed'
  BY <1>0, <1>1, <1>2 DEF Typed
<1>4. Phases'
  BY <1>0, <1>1, <1>2, Bounds DEF Phases
<1>5. Copies'
  BY <1>0, <1>1, <1>2 DEF Copies, Phases
<1>6. SnapIsCurrent'
  BY <1>0, <1>1, <1>2 DEF SnapIsCurrent, Phases
<1>7. CallFits'
  BY <1>0, <1>1, <1>2 DEF CallFits, Phases
<1>8. FailedIsGrounded'
  BY <1>0, <1>1, <1>2 DEF FailedIsGrounded, Phases
<1>9. BindingsNamed'
  BY <1>0, <1>1, <1>2 DEF BindingsNamed, Phases
<1>10. ApprovalFits'
  BY <1>0, <1>1, <1>2 DEF ApprovalFits, Phases
<1>11. DraftFits'
  BY <1>0, <1>1, <1>2 DEF DraftFits, Phases
<1>12. ProbesCounted'
  BY <1>0, <1>1, <1>2 DEF ProbesCounted, Phases
<1>13. CompletedFits'
  BY <1>0, <1>1, <1>2 DEF CompletedFits, Phases
<1> QED BY <1>0, <1>2, <1>3, <1>4, <1>5, <1>6, <1>7, <1>8, <1>9, <1>10, <1>11, <1>12, <1>13 DEF IInv

\* The loop ends in an error: it reads the plan it will fail.
LEMMA LoopErrorKeeps ==
    ASSUME IInv, LoopError
    PROVE  IInv'
<1>0. /\ Typed /\ Phases /\ Copies /\ SnapIsCurrent /\ CallFits /\ FailedIsGrounded
      /\ BindingsNamed /\ ApprovalFits /\ DraftFits /\ CasesFit /\ ProbesCounted
      /\ CompletedFits
  BY DEF IInv
<1>1. /\ drv.pc = "model" /\ run.status = "running" /\ ~cancel.ctx
      /\ drv' \in Loops /\ drv'.pc = "failing" /\ drv'.call = drv.call /\ drv'.res = drv.res
      /\ drv'.snap = GetCurrent /\ faults' \in 0..MaxFaults /\ faults' # 0
      /\ UNCHANGED <<plans, gens, batches, probes, approvals>>
      /\ UNCHANGED <<run, cancel, cases, wasted>>
  <2>1. drv \in Loops /\ GetCurrent \in Seq(TaskPlans) /\ faults \in 0..MaxFaults
    BY <1>0, CurrentType DEF Typed
  <2>2. faults' \in 0..MaxFaults /\ faults' # 0
    BY <2>1, Bounds DEF LoopError
  <2> QED BY <2>1, <2>2 DEF LoopError, LoopRuns, Loops
<1>2. /\ \A plan : PlanFits(plan)' = PlanFits(plan) /\ CopyOf(plan)' = CopyOf(plan)
      /\ Current' = Current /\ GetCurrent' = GetCurrent /\ HasVerdict' = HasVerdict
      /\ CasesFit' = CasesFit
      /\ \A c : TypedCall(c)' = TypedCall(c)
      /\ \A tool, versions : ProbesOf(tool, versions)' = ProbesOf(tool, versions)
  BY <1>1, RowsKept, ProbesKept
<1>a. /\ plans = <<>> => GetCurrent = NoPlan
      /\ plans # <<>> => /\ GetCurrent # NoPlan /\ GetCurrent[1] = Current /\ CopyOf(Current)
                         /\ Current.version = Len(plans)
  BY <1>0, CurrentIsCopy
<1>3. Typed'
  BY <1>0, <1>1, <1>2 DEF Typed
<1>4. Phases'
  BY <1>0, <1>1, <1>2, Bounds DEF Phases
<1>5. Copies'
  BY <1>0, <1>1, <1>2, <1>a DEF Copies, Phases
<1>6. SnapIsCurrent'
  BY <1>0, <1>1, <1>2, <1>a DEF SnapIsCurrent, Phases
<1>7. CallFits'
  BY <1>0, <1>1, <1>2 DEF CallFits, Phases
<1>8. FailedIsGrounded'
  BY <1>0, <1>1, <1>2, <1>a DEF FailedIsGrounded, Phases
<1>9. BindingsNamed'
  BY <1>0, <1>1, <1>2 DEF BindingsNamed, Phases
<1>10. ApprovalFits'
  BY <1>0, <1>1, <1>2, <1>a DEF ApprovalFits, Phases
<1>11. DraftFits'
  BY <1>0, <1>1, <1>2 DEF DraftFits, Phases
<1>12. ProbesCounted'
  BY <1>0, <1>1, <1>2 DEF ProbesCounted, Phases
<1>13. CompletedFits'
  BY <1>0, <1>1, <1>2 DEF CompletedFits, Phases
<1> QED BY <1>0, <1>2, <1>3, <1>4, <1>5, <1>6, <1>7, <1>8, <1>9, <1>10, <1>11, <1>12, <1>13 DEF IInv

\* A loop that finds its run cancelled, or its context, stops.
LEMMA StopKeeps ==
    ASSUME IInv, StopLoop
    PROVE  IInv'
<1>0. /\ Typed /\ Phases /\ Copies /\ SnapIsCurrent /\ CallFits /\ FailedIsGrounded
      /\ BindingsNamed /\ ApprovalFits /\ DraftFits /\ CasesFit /\ ProbesCounted
      /\ CompletedFits
  BY DEF IInv
<1>1. /\ drv.pc \in {"model", "exec", "rebind", "batch"} /\ ~LoopRuns
      /\ drv.pc # "model" => cancel.ctx
      /\ drv' \in Loops /\ drv'.pc = "stopped"
      /\ drv'.call = drv.call /\ drv'.res = drv.res /\ drv'.snap = drv.snap
      /\ UNCHANGED <<plans, gens, batches, probes, approvals>>
      /\ UNCHANGED <<run, cancel, cases, wasted, faults>>
  <2>1. drv \in Loops
    BY <1>0 DEF Typed
  <2> QED BY <2>1 DEF StopLoop, Loops
<1>2. /\ \A plan : PlanFits(plan)' = PlanFits(plan) /\ CopyOf(plan)' = CopyOf(plan)
      /\ Current' = Current /\ GetCurrent' = GetCurrent /\ HasVerdict' = HasVerdict
      /\ CasesFit' = CasesFit
      /\ \A c : TypedCall(c)' = TypedCall(c)
      /\ \A tool, versions : ProbesOf(tool, versions)' = ProbesOf(tool, versions)
  BY <1>1, RowsKept, ProbesKept
<1>a. run.status = "cancelled"
  BY <1>0, <1>1 DEF Phases, LoopRuns, Typed, Runs
<1>3. Typed'
  BY <1>0, <1>1, <1>2 DEF Typed
<1>4. Phases'
  BY <1>0, <1>1, <1>2, <1>a DEF Phases, Phases
<1>5. Copies'
  BY <1>0, <1>1, <1>2 DEF Copies, Phases
<1>6. SnapIsCurrent'
  BY <1>0, <1>1, <1>2, <1>a DEF SnapIsCurrent, Phases
<1>7. CallFits'
  BY <1>0, <1>1, <1>2 DEF CallFits, Phases
<1>8. FailedIsGrounded'
  BY <1>0, <1>1, <1>2 DEF FailedIsGrounded, Phases
<1>9. BindingsNamed'
  BY <1>0, <1>1, <1>2, <1>a DEF BindingsNamed, Phases
<1>10. ApprovalFits'
  BY <1>0, <1>1, <1>2, <1>a DEF ApprovalFits, Phases
<1>11. DraftFits'
  BY <1>0, <1>1, <1>2 DEF DraftFits, Phases
<1>12. ProbesCounted'
  BY <1>0, <1>1, <1>2 DEF ProbesCounted, Phases
<1>13. CompletedFits'
  BY <1>0, <1>1, <1>2 DEF CompletedFits, Phases
<1> QED BY <1>0, <1>2, <1>3, <1>4, <1>5, <1>6, <1>7, <1>8, <1>9, <1>10, <1>11, <1>12, <1>13 DEF IInv

\* The event of the result is appended and the plan is read.
LEMMA RecordKeeps ==
    ASSUME IInv, RecordResult
    PROVE  IInv'
<1>0. /\ Typed /\ Phases /\ Copies /\ SnapIsCurrent /\ CallFits /\ FailedIsGrounded
      /\ BindingsNamed /\ ApprovalFits /\ DraftFits /\ CasesFit /\ ProbesCounted
      /\ CompletedFits
  BY DEF IInv
<1>1. /\ drv.pc = "record" /\ drv' \in Loops /\ drv'.call = drv.call /\ drv'.res = drv.res
      /\ \/ ~LoopRuns /\ drv'.pc = "stopped" /\ drv'.snap = drv.snap
         \/ LoopRuns /\ drv'.pc = "save" /\ drv'.snap = GetCurrent
      /\ UNCHANGED <<plans, gens, batches, probes, approvals>>
      /\ UNCHANGED <<run, cancel, cases, wasted, faults>>
  <2>1. drv \in Loops /\ GetCurrent \in Seq(TaskPlans)
    BY <1>0, CurrentType DEF Typed
  <2> QED BY <2>1 DEF RecordResult, Loops
<1>2. /\ \A plan : PlanFits(plan)' = PlanFits(plan) /\ CopyOf(plan)' = CopyOf(plan)
      /\ Current' = Current /\ GetCurrent' = GetCurrent /\ HasVerdict' = HasVerdict
      /\ CasesFit' = CasesFit
      /\ \A c : TypedCall(c)' = TypedCall(c)
      /\ \A tool, versions : ProbesOf(tool, versions)' = ProbesOf(tool, versions)
  BY <1>1, RowsKept, ProbesKept
<1>a. /\ plans = <<>> => GetCurrent = NoPlan
      /\ plans # <<>> => /\ GetCurrent # NoPlan /\ GetCurrent[1] = Current /\ CopyOf(Current)
                         /\ Current.version = Len(plans)
  BY <1>0, CurrentIsCopy
<1>b. ~LoopRuns => run.status = "cancelled"
  BY <1>0, <1>1 DEF Phases, LoopRuns, Typed, Runs
<1>3. Typed'
  BY <1>0, <1>1, <1>2 DEF Typed
<1>4. Phases'
  BY <1>0, <1>1, <1>2, <1>a DEF Phases, Phases, LoopRuns
<1>5. Copies'
  BY <1>0, <1>1, <1>2, <1>a DEF Copies, Phases, LoopRuns
<1>6. SnapIsCurrent'
  BY <1>0, <1>1, <1>2, <1>a DEF SnapIsCurrent, Phases, LoopRuns
<1>7. CallFits'
  BY <1>0, <1>1, <1>2, <1>a DEF CallFits, Phases, LoopRuns
<1>8. FailedIsGrounded'
  BY <1>0, <1>1, <1>2, <1>a DEF FailedIsGrounded, Phases, LoopRuns
<1>9. BindingsNamed'
  BY <1>0, <1>1, <1>2, <1>a DEF BindingsNamed, Phases, LoopRuns
<1>10. ApprovalFits'
  BY <1>0, <1>1, <1>2, <1>a, <1>b DEF ApprovalFits, Phases
<1>11. DraftFits'
  BY <1>0, <1>1, <1>2 DEF DraftFits, Phases
<1>12. ProbesCounted'
  BY <1>0, <1>1, <1>2 DEF ProbesCounted, Phases
<1>13. CompletedFits'
  BY <1>0, <1>1, <1>2 DEF CompletedFits, Phases
<1> QED BY <1>0, <1>2, <1>3, <1>4, <1>5, <1>6, <1>7, <1>8, <1>9, <1>10, <1>11, <1>12, <1>13 DEF IInv

\* The cancel request takes the run.
LEMMA CancelRunKeeps ==
    ASSUME IInv, CancelRun
    PROVE  IInv'
<1>0. /\ Typed /\ Phases /\ Copies /\ SnapIsCurrent /\ CallFits /\ FailedIsGrounded
      /\ BindingsNamed /\ ApprovalFits /\ DraftFits /\ CasesFit /\ ProbesCounted
      /\ CompletedFits
  BY DEF IInv
<1>1. /\ cancel.pc = "idle" /\ run.status \in {"running", "waiting"}
      /\ run' \in Runs /\ run'.status = "cancelled" /\ run'.latest = run.latest
      /\ run'.approved = run.approved
      /\ cancel' \in Cancels /\ cancel'.pc = "read" /\ cancel'.ctx = cancel.ctx
      /\ cancel'.snap = cancel.snap
      /\ UNCHANGED <<plans, drv, gens, batches, cases, probes, wasted, faults, approvals>>
  <2>1. cancel \in Cancels /\ run \in Runs
    BY <1>0 DEF Typed
  <2> QED BY <2>1 DEF CancelRun, Cancels, Runs
<1>2. /\ \A plan : PlanFits(plan)' = PlanFits(plan) /\ CopyOf(plan)' = CopyOf(plan)
      /\ Current' = Current /\ GetCurrent' = GetCurrent /\ HasVerdict' = HasVerdict
      /\ CasesFit' = CasesFit
      /\ \A c : TypedCall(c)' = TypedCall(c)
      /\ \A tool, versions : ProbesOf(tool, versions)' = ProbesOf(tool, versions)
  BY <1>1, RowsKept, ProbesKept
<1>3. Typed'
  BY <1>0, <1>1, <1>2 DEF Typed
<1>4. Phases'
  BY <1>0, <1>1, <1>2, Bounds DEF Phases
<1>5. Copies'
  BY <1>0, <1>1, <1>2 DEF Copies, Phases
<1>6. SnapIsCurrent'
  BY <1>0, <1>1, <1>2 DEF SnapIsCurrent, Phases
<1>7. CallFits'
  BY <1>0, <1>1, <1>2 DEF CallFits, Phases
<1>8. FailedIsGrounded'
  BY <1>0, <1>1, <1>2 DEF FailedIsGrounded, Phases
<1>9. BindingsNamed'
  BY <1>0, <1>1, <1>2 DEF BindingsNamed, Phases
<1>10. ApprovalFits'
  BY <1>0, <1>1, <1>2 DEF ApprovalFits, Phases
<1>11. DraftFits'
  BY <1>0, <1>1, <1>2 DEF DraftFits, Phases
<1>12. ProbesCounted'
  BY <1>0, <1>1, <1>2 DEF ProbesCounted, Phases
<1>13. CompletedFits'
  BY <1>0, <1>1, <1>2 DEF CompletedFits, Phases
<1> QED BY <1>0, <1>2, <1>3, <1>4, <1>5, <1>6, <1>7, <1>8, <1>9, <1>10, <1>11, <1>12, <1>13 DEF IInv

\* It reads the plan it will block.
LEMMA CancelReadKeeps ==
    ASSUME IInv, CancelReadPlan
    PROVE  IInv'
<1>0. /\ Typed /\ Phases /\ Copies /\ SnapIsCurrent /\ CallFits /\ FailedIsGrounded
      /\ BindingsNamed /\ ApprovalFits /\ DraftFits /\ CasesFit /\ ProbesCounted
      /\ CompletedFits
  BY DEF IInv
<1>1. /\ cancel.pc = "read"
      /\ cancel' \in Cancels /\ cancel'.pc = "block" /\ cancel'.ctx = cancel.ctx
      /\ cancel'.snap = GetCurrent
      /\ UNCHANGED <<plans, drv, gens, batches, cases, probes, wasted, faults, approvals>>
      /\ UNCHANGED run
  <2>1. cancel \in Cancels /\ GetCurrent \in Seq(TaskPlans)
    BY <1>0, CurrentType DEF Typed
  <2> QED BY <2>1 DEF CancelReadPlan, Cancels
<1>2. /\ \A plan : PlanFits(plan)' = PlanFits(plan) /\ CopyOf(plan)' = CopyOf(plan)
      /\ Current' = Current /\ GetCurrent' = GetCurrent /\ HasVerdict' = HasVerdict
      /\ CasesFit' = CasesFit
      /\ \A c : TypedCall(c)' = TypedCall(c)
      /\ \A tool, versions : ProbesOf(tool, versions)' = ProbesOf(tool, versions)
  BY <1>1, RowsKept, ProbesKept
<1>a. /\ plans = <<>> => GetCurrent = NoPlan
      /\ plans # <<>> => /\ GetCurrent # NoPlan /\ GetCurrent[1] = Current /\ CopyOf(Current)
                         /\ Current.version = Len(plans)
  BY <1>0, CurrentIsCopy
<1>3. Typed'
  BY <1>0, <1>1, <1>2 DEF Typed
<1>4. Phases'
  BY <1>0, <1>1, <1>2, Bounds DEF Phases
<1>5. Copies'
  BY <1>0, <1>1, <1>2, <1>a DEF Copies, Phases
<1>6. SnapIsCurrent'
  BY <1>0, <1>1, <1>2, <1>a DEF SnapIsCurrent, Phases
<1>7. CallFits'
  BY <1>0, <1>1, <1>2 DEF CallFits, Phases
<1>8. FailedIsGrounded'
  BY <1>0, <1>1, <1>2, <1>a DEF FailedIsGrounded, Phases
<1>9. BindingsNamed'
  BY <1>0, <1>1, <1>2 DEF BindingsNamed, Phases
<1>10. ApprovalFits'
  BY <1>0, <1>1, <1>2, <1>a DEF ApprovalFits, Phases
<1>11. DraftFits'
  BY <1>0, <1>1, <1>2 DEF DraftFits, Phases
<1>12. ProbesCounted'
  BY <1>0, <1>1, <1>2 DEF ProbesCounted, Phases
<1>13. CompletedFits'
  BY <1>0, <1>1, <1>2 DEF CompletedFits, Phases
<1> QED BY <1>0, <1>2, <1>3, <1>4, <1>5, <1>6, <1>7, <1>8, <1>9, <1>10, <1>11, <1>12, <1>13 DEF IInv

\* It cancels the context.
LEMMA CancelContextKeeps ==
    ASSUME IInv, CancelContext
    PROVE  IInv'
<1>0. /\ Typed /\ Phases /\ Copies /\ SnapIsCurrent /\ CallFits /\ FailedIsGrounded
      /\ BindingsNamed /\ ApprovalFits /\ DraftFits /\ CasesFit /\ ProbesCounted
      /\ CompletedFits
  BY DEF IInv
<1>1. /\ cancel.pc = "context"
      /\ cancel' \in Cancels /\ cancel'.pc = "done" /\ cancel'.ctx = TRUE
      /\ cancel'.snap = cancel.snap
      /\ UNCHANGED <<plans, drv, gens, batches, cases, probes, wasted, faults, approvals>>
      /\ UNCHANGED run
  <2>1. cancel \in Cancels
    BY <1>0 DEF Typed
  <2> QED BY <2>1 DEF CancelContext, Cancels
<1>2. /\ \A plan : PlanFits(plan)' = PlanFits(plan) /\ CopyOf(plan)' = CopyOf(plan)
      /\ Current' = Current /\ GetCurrent' = GetCurrent /\ HasVerdict' = HasVerdict
      /\ CasesFit' = CasesFit
      /\ \A c : TypedCall(c)' = TypedCall(c)
      /\ \A tool, versions : ProbesOf(tool, versions)' = ProbesOf(tool, versions)
  BY <1>1, RowsKept, ProbesKept
<1>3. Typed'
  BY <1>0, <1>1, <1>2 DEF Typed
<1>4. Phases'
  BY <1>0, <1>1, <1>2, Bounds DEF Phases
<1>5. Copies'
  BY <1>0, <1>1, <1>2 DEF Copies, Phases
<1>6. SnapIsCurrent'
  BY <1>0, <1>1, <1>2 DEF SnapIsCurrent, Phases
<1>7. CallFits'
  BY <1>0, <1>1, <1>2 DEF CallFits, Phases
<1>8. FailedIsGrounded'
  BY <1>0, <1>1, <1>2 DEF FailedIsGrounded, Phases
<1>9. BindingsNamed'
  BY <1>0, <1>1, <1>2 DEF BindingsNamed, Phases
<1>10. ApprovalFits'
  BY <1>0, <1>1, <1>2 DEF ApprovalFits, Phases
<1>11. DraftFits'
  BY <1>0, <1>1, <1>2 DEF DraftFits, Phases
<1>12. ProbesCounted'
  BY <1>0, <1>1, <1>2 DEF ProbesCounted, Phases
<1>13. CompletedFits'
  BY <1>0, <1>1, <1>2 DEF CompletedFits, Phases
<1> QED BY <1>0, <1>2, <1>3, <1>4, <1>5, <1>6, <1>7, <1>8, <1>9, <1>10, <1>11, <1>12, <1>13 DEF IInv

-----------------------------------------------------------------------------
(* The tools                                                               *)

\* What Returns does to the loop.
LEMMA ReturnsEffect ==
    ASSUME IInv, NEW res \in ToolResults, Returns(res),
           drv.pc \in {"exec", "batch", "rebind"}
    PROVE  /\ drv' \in Loops /\ drv'.pc = "record" /\ drv'.call = drv.call
           /\ drv'.res = res /\ drv'.snap = drv.snap
           /\ wasted' \in 0..MaxWasted
<1>1. drv \in Loops /\ wasted \in 0..MaxWasted /\ wasted < MaxWasted
  BY DEF IInv, Typed, Phases
<1>2. wasted' \in 0..MaxWasted
  BY <1>1, Bounds DEF Returns
<1> QED BY <1>1, <1>2 DEF Returns, Loops

\* A failure is a result.
LEMMA FailureTyped ==
    /\ Failed("other") \in ToolResults /\ ~Failed("other").ok
    /\ Failed("evidence") \in ToolResults /\ ~Failed("evidence").ok
    /\ NoResult \in ToolResults /\ NoResult.ok
BY DEF Failed, NoResult, ToolResults, Words

\* A call that is being executed passed its gate.
LEMMA ExecutingFits ==
    ASSUME IInv, NEW tools, Executing(tools)
    PROVE  /\ drv.pc = "exec" /\ drv.call.tool \in tools /\ ~cancel.ctx /\ TypedCall(drv.call)
           /\ drv.call.tool \in NeedsPlan => plans # <<>>
BY DEF IInv, Typed, CallFits, Executing

\* explore_page and explore_flow return a result or fail.
LEMMA ExploreKeeps ==
    ASSUME IInv, Explore
    PROVE  IInv'
<1>1. drv.pc = "exec" /\ drv.call.tool \in Exploration
  BY ExecutingFits DEF Explore
<1>2. \E res \in ToolResults : Returns(res) /\ (res.ok => res.n \in DOMAIN Results)
  <2>1. DOMAIN Results \subseteq Nat /\ "done" \in Words
    BY PlanInputsAssumption DEF PlanInputsAssumption, Words
  <2>2. \A r \in DOMAIN Results : [ok |-> TRUE, n |-> r, s |-> "done"] \in ToolResults
    BY <2>1 DEF ToolResults
  <2> QED BY <2>2, FailureTyped DEF Explore, Fails
<1>3. PICK res \in ToolResults : Returns(res) /\ (res.ok => res.n \in DOMAIN Results)
  BY <1>2
<1>4. /\ UNCHANGED <<plans, run, gens, batches, probes, cancel, approvals, cases, faults>>
      /\ cases \in Nat /\ faults \in 0..MaxFaults
  BY DEF Explore, IInv, Typed
<1> QED BY <1>1, <1>3, <1>4, ReturnsEffect, ResultKeeps DEF Exploration

\* get_report returns the status it found or fails.
LEMMA GetReportKeeps ==
    ASSUME IInv, GetReport
    PROVE  IInv'
<1>1. drv.pc = "exec" /\ drv.call.tool = "get_report" /\ drv.call.n \in DOMAIN batches
  BY ExecutingFits DEF GetReport, TypedCall
<1>2. \E res \in ToolResults : Returns(res) /\ (res.ok /\ res.s = "passed" => HasVerdict)
  <2>a. batches \in Seq(Batches)
    BY DEF IInv, Typed
  <2>b. batches[drv.call.n] \in Batches /\ drv.call.n \in Nat
    BY <1>1, <2>a
  <2>1. batches[drv.call.n].status \in Words /\ drv.call.n \in Nat
    BY <2>b DEF Batches
  <2>2. [ok |-> TRUE, n |-> drv.call.n, s |-> batches[drv.call.n].status] \in ToolResults
    BY <2>1 DEF ToolResults
  <2>3. batches[drv.call.n].status = "passed" => HasVerdict
    BY <1>1 DEF HasVerdict
  <2> QED BY <2>2, <2>3, FailureTyped DEF GetReport, Fails
<1>3. PICK res \in ToolResults : Returns(res) /\ (res.ok /\ res.s = "passed" => HasVerdict)
  BY <1>2
<1>4. /\ UNCHANGED <<plans, run, gens, batches, probes, cancel, approvals, cases, faults>>
      /\ cases \in Nat /\ faults \in 0..MaxFaults
  BY DEF GetReport, IInv, Typed
<1> QED BY <1>1, <1>3, <1>4, ReturnsEffect, ResultKeeps DEF Exploration

\* fix_and_retry returns a strategy.
LEMMA FixKeeps ==
    ASSUME IInv, PrepareFixAndRetry
    PROVE  IInv'
<1>1. drv.pc = "exec" /\ drv.call.tool = "fix_and_retry" /\ drv.call.n \in DOMAIN batches
  BY ExecutingFits DEF PrepareFixAndRetry, TypedCall
<1>2. \E res \in ToolResults : Returns(res)
  <2>1. drv.call.n \in Nat
    BY <1>1 DEF IInv, Typed
  <2>2. \A signals : RepairDecision(signals) \in Words
    BY DEF RepairDecision, Words
  <2>3. {"none", "wait"} \subseteq Words
    BY DEF Words
  <2> DEFINE st == batches[drv.call.n].status
             strategy == CASE st = "passed" -> "none"
                           [] st \in {"pending", "running"} -> "wait"
                           [] OTHER -> RepairDecision(batches[drv.call.n].signals)
  <2>4. strategy \in Words
    BY <2>2, <2>3
  <2>5. Returns([ok |-> TRUE, n |-> drv.call.n, s |-> strategy])
    BY DEF PrepareFixAndRetry
  <2> HIDE DEF strategy
  <2>6. [ok |-> TRUE, n |-> drv.call.n, s |-> strategy] \in ToolResults
    BY <2>1, <2>4 DEF ToolResults
  <2> QED BY <2>5, <2>6
<1>3. PICK res \in ToolResults : Returns(res)
  BY <1>2
<1>4. /\ UNCHANGED <<plans, run, gens, batches, probes, cancel, approvals, cases, faults>>
      /\ cases \in Nat /\ faults \in 0..MaxFaults
  BY DEF PrepareFixAndRetry, IInv, Typed
<1> QED BY <1>1, <1>3, <1>4, ReturnsEffect, ResultKeeps DEF Exploration

\* A definition is invalid, or the one the plan has: the plan stays.
LEMMA SetTaskPlanAnswers ==
    ASSUME IInv, SetTaskPlan, UNCHANGED plans
    PROVE  IInv'
<1>1. drv.pc = "exec" /\ drv.call.tool = "set_task_plan" /\ Len(plans) < MaxVersions
  BY ExecutingFits DEF SetTaskPlan, IInv, Phases
<1>2. \E res \in ToolResults : Returns(res)
  <2>1. CASE Fails
    BY <2>1, FailureTyped DEF Fails
  <2>2. CASE Returns(NoResult)
    BY <2>2, FailureTyped
  <2>3. CASE ~Fails /\ ~Returns(NoResult)
    <3> DEFINE plan == NewPlan(Normalized(Definitions[drv.call.n]), GetCurrent, Len(plans) + 1)
    <3>1. plans' = CreateVersion(plan)
      BY <2>3 DEF SetTaskPlan
    <3>2. plans \in Seq(TaskPlans)
      BY DEF IInv, Typed
    <3> HIDE DEF plan
    <3>3. Len(CreateVersion(plan)) = Len(plans) + 1
      <4> DEFINE old == [i \in DOMAIN plans |-> [plans[i] EXCEPT !.status = "superseded"]]
      <4>1. old \in Seq({old[i] : i \in DOMAIN plans}) /\ Len(old) = Len(plans)
        BY <3>2
      <4> HIDE DEF old
      <4>2. Len(Append(old, plan)) = Len(plans) + 1
        BY <4>1
      <4> QED BY <4>2 DEF CreateVersion, old
    <3> QED BY <3>1, <3>2, <3>3
  <2> QED BY <2>1, <2>2, <2>3
<1>3. PICK res \in ToolResults : Returns(res)
  BY <1>2
<1>4. /\ UNCHANGED <<plans, run, gens, batches, probes, cancel, approvals, cases, faults>>
      /\ cases \in Nat /\ faults \in 0..MaxFaults
  BY DEF SetTaskPlan, IInv, Typed
<1> QED BY <1>1, <1>3, <1>4, ReturnsEffect, ResultKeeps DEF Exploration

\* Nothing was carried, or the second save failed.
LEMMA RebindReturns ==
    ASSUME IInv, RebindCarried,
           faults' # faults \/ \A i \in DOMAIN drv.snap[1].steps :
                                   drv.snap[1].steps[i].binding = NoBinding
    PROVE  IInv'
<1>1. drv.pc = "rebind" /\ drv.call.tool = "set_task_plan"
  <2>1. drv.pc = "rebind"
    BY DEF RebindCarried
  <2>2. drv.call.tool = "set_task_plan"
    BY <2>1 DEF IInv, Phases
  <2> QED BY <2>1, <2>2
<1>2. \E res \in ToolResults :
        /\ Returns(res) /\ UNCHANGED plans
        /\ \/ /\ faults' = faults /\ res.ok
              /\ \A i \in DOMAIN drv.snap[1].steps : drv.snap[1].steps[i].binding = NoBinding
           \/ faults' = faults + 1 /\ faults < MaxFaults
  <2>1. faults \in Nat
    BY DEF IInv, Typed
  <2> QED BY <2>1, FailureTyped DEF RebindCarried, Fails
<1>3. PICK res \in ToolResults :
        /\ Returns(res) /\ UNCHANGED plans
        /\ \/ /\ faults' = faults /\ res.ok
              /\ \A i \in DOMAIN drv.snap[1].steps : drv.snap[1].steps[i].binding = NoBinding
           \/ faults' = faults + 1 /\ faults < MaxFaults
  BY <1>2
<1>4. /\ UNCHANGED <<run, gens, batches, probes, cancel, approvals, cases>> /\ cases \in Nat
      /\ faults' \in 0..MaxFaults /\ (faults' = 0 => faults = 0)
      /\ faults' # faults => faults' # 0
  <2>1. faults \in 0..MaxFaults /\ cases \in Nat
    BY DEF IInv, Typed
  <2>2. UNCHANGED <<run, gens, batches, probes, cancel, approvals, cases>>
    BY DEF RebindCarried
  <2> QED BY <1>3, <2>1, <2>2, Bounds
<1>5. \/ faults' # 0 \/ run.status = "cancelled"
      \/ \A i \in DOMAIN Current.steps : Current.steps[i].binding = NoBinding
  <2>1. run.status # "cancelled" => drv.snap[1] = Current
    BY <1>1 DEF IInv, SnapIsCurrent, Copies
  <2> QED BY <1>3, <1>4, <2>1
<1>6. res.ok \/ faults' # 0
  <2>1. faults \in Nat
    BY DEF IInv, Typed
  <2> QED BY <1>3, <2>1
<1> QED BY <1>1, <1>3, <1>4, <1>5, <1>6, ReturnsEffect, ResultKeeps DEF Exploration

\* The generation is refused, or the worker or the store fails.
LEMMA GenerateFails ==
    ASSUME IInv, GenerateDSL, UNCHANGED gens
    PROVE  IInv'
<1>1. drv.pc = "exec" /\ drv.call.tool = "generate_dsl"
  BY ExecutingFits DEF GenerateDSL
<1>2. \E res \in ToolResults : Returns(res) /\ ~res.ok
  <2>1. gens' = gens /\ gens \in Seq(Generations)
    BY DEF IInv, Typed
  <2>2. \A x : gens # Append(gens, x)
    BY <2>1
  <2> QED BY <2>1, <2>2, FailureTyped DEF GenerateDSL, Fails
<1>3. PICK res \in ToolResults : Returns(res) /\ ~res.ok
  BY <1>2
<1>4. /\ UNCHANGED <<plans, run, gens, batches, probes, cancel, approvals, cases, faults>>
      /\ cases \in Nat /\ faults \in 0..MaxFaults
  BY DEF GenerateDSL, IInv, Typed
<1> QED BY <1>1, <1>3, <1>4, ReturnsEffect, ResultKeeps DEF Exploration

\* The generation has a batch, does not fit, or the test case is not stored.
LEMMA ExecuteReturns ==
    ASSUME IInv, ExecuteDSL, drv'.pc # "batch"
    PROVE  IInv'
<1>1. drv.pc = "exec" /\ drv.call.tool = "execute_dsl"
  BY ExecutingFits DEF ExecuteDSL
<1>2. /\ UNCHANGED <<plans, run, gens, batches, probes, cancel, approvals>>
      /\ cases \in Nat /\ faults \in 0..MaxFaults /\ wasted \in 0..MaxWasted
  BY DEF ExecuteDSL, IInv, Typed
<1>3. /\ cases' \in Nat /\ faults' \in 0..MaxFaults /\ (faults' = 0 => faults = 0)
  BY <1>2, Bounds DEF ExecuteDSL
<1>4. CASE Fails
  <2>1. PICK res \in ToolResults : Returns(res) /\ ~res.ok
    BY <1>4, FailureTyped DEF Fails
  <2> QED BY <1>1, <1>2, <1>3, <2>1, ReturnsEffect, ResultKeeps DEF Exploration
<1>5. CASE ~Fails
  <2> DEFINE b == CHOOSE b \in BatchOf(drv.call.n) : TRUE
  <2>1. BatchOf(drv.call.n) # {} /\ drv' = [drv EXCEPT !.pc = "record", !.res.n = b]
        /\ wasted' = wasted
    <3>1. drv \in Loops
      BY DEF IInv, Typed
    <3>2. [drv EXCEPT !.pc = "batch"].pc = "batch"
      BY <3>1 DEF Loops
    <3> QED BY <1>5, <3>2 DEF ExecuteDSL
  <2>2. b \in Nat
    <3>1. b \in BatchOf(drv.call.n)
      BY <2>1
    <3>2. BatchOf(drv.call.n) \subseteq DOMAIN batches /\ batches \in Seq(Batches)
      BY DEF BatchOf, IInv, Typed
    <3> QED BY <3>1, <3>2
  <2>3. drv \in Loops
    BY DEF IInv, Typed
  <2> HIDE DEF b
  <2>4. /\ drv' \in Loops /\ drv'.pc = "record" /\ drv'.call = drv.call
        /\ drv'.snap = drv.snap
    BY <2>1, <2>2, <2>3 DEF Loops, ToolResults
  <2> QED BY <1>1, <1>2, <1>3, <2>1, <2>4, ResultKeeps DEF Exploration
<1> QED BY <1>4, <1>5

\* A batch of the session is active, or the transaction fails.
LEMMA CreateBatchFails ==
    ASSUME IInv, ExecuteCreateBatch, UNCHANGED batches
    PROVE  IInv'
<1>1. drv.pc = "batch" /\ drv.call.tool = "execute_dsl"
  BY DEF ExecuteCreateBatch, IInv, Phases
<1>2. \E res \in ToolResults : Returns(res) /\ ~res.ok
  <2>1. batches' = batches /\ batches \in Seq(Batches)
    BY DEF IInv, Typed
  <2>2. \A x : batches # Append(batches, x)
    BY <2>1
  <2> QED BY <2>1, <2>2, FailureTyped DEF ExecuteCreateBatch, Fails
<1>3. PICK res \in ToolResults : Returns(res) /\ ~res.ok
  BY <1>2
<1>4. /\ UNCHANGED <<plans, run, gens, batches, probes, cancel, approvals, cases>>
      /\ cases \in Nat /\ faults \in 0..MaxFaults
  BY DEF ExecuteCreateBatch, IInv, Typed
<1>5. faults' \in 0..MaxFaults /\ (faults' = 0 => faults = 0)
  BY <1>4, Bounds DEF ExecuteCreateBatch
<1> QED BY <1>1, <1>3, <1>4, <1>5, ReturnsEffect, ResultKeeps DEF Exploration

-----------------------------------------------------------------------------
(* Generations and batches                                                 *)

\* What is said of a plan, of a copy and of a call stays true while rows are added.
LEMMA RowsGrow ==
    ASSUME gens \in Seq(Generations), batches \in Seq(Batches),
           gens' \in Seq(Generations), batches' \in Seq(Batches),
           Len(gens) <= Len(gens'), \A g \in DOMAIN gens : gens'[g] = gens[g],
           Len(batches) <= Len(batches'), HasVerdict => HasVerdict', UNCHANGED plans
    PROVE  /\ \A plan : (PlanFits(plan) => PlanFits(plan)') /\ (CopyOf(plan) => CopyOf(plan)')
           /\ Current' = Current /\ GetCurrent' = GetCurrent
           /\ \A c : TypedCall(c) => TypedCall(c)'
<1>1. Current' = Current /\ GetCurrent' = GetCurrent
  BY DEF Current, GetCurrent
<1>2. /\ DOMAIN gens = 1..Len(gens) /\ DOMAIN gens \subseteq DOMAIN gens'
      /\ DOMAIN batches \subseteq DOMAIN batches'
      /\ Len(gens) \in Nat /\ Len(gens') \in Nat
  OBVIOUS
<1>3. ASSUME NEW plan, PlanFits(plan)
      PROVE  PlanFits(plan)'
  BY <1>2, <1>3 DEF PlanFits
<1>4. ASSUME NEW plan, CopyOf(plan)
      PROVE  CopyOf(plan)'
  BY <1>3, <1>4 DEF CopyOf
<1>5. ASSUME NEW c, TypedCall(c)
      PROVE  TypedCall(c)'
  BY <1>2, <1>5 DEF TypedCall
<1> QED BY <1>1, <1>3, <1>4, <1>5

\* The test case of the approved generation is stored.
LEMMA ExecuteKeeps ==
    ASSUME IInv, ExecuteDSL, drv'.pc = "batch"
    PROVE  IInv'
<1>0. /\ Typed /\ Phases /\ Copies /\ SnapIsCurrent /\ CallFits /\ FailedIsGrounded
      /\ BindingsNamed /\ ApprovalFits /\ DraftFits /\ CasesFit /\ ProbesCounted
      /\ CompletedFits
  BY DEF IInv
<1>1. /\ drv.pc = "exec" /\ drv.call.tool = "execute_dsl" /\ ~cancel.ctx
      /\ drv' \in Loops /\ drv'.pc = "batch"
      /\ drv'.call = drv.call /\ drv'.res = drv.res /\ drv'.snap = drv.snap
      /\ run.approved = drv.call.n /\ drv.call.n # 0 /\ cases' \in Nat
      /\ UNCHANGED <<plans, gens, batches, probes, approvals, run, cancel, wasted, faults>>
  <2>1. drv \in Loops /\ cases \in Nat
    BY <1>0 DEF Typed
  <2>2. /\ drv.pc = "exec" /\ drv.call.tool = "execute_dsl" /\ ~cancel.ctx
        /\ drv.call.n \in DOMAIN gens
    BY ExecutingFits DEF ExecuteDSL, TypedCall
  <2>3. drv.call.n # 0
    BY <1>0, <2>2 DEF Typed
  <2>4. ~Fails
    BY <2>1 DEF Fails, Returns, Loops
  <2>5. drv' = [drv EXCEPT !.pc = "batch"]
    BY <2>1, <2>4 DEF ExecuteDSL, Loops
  <2>6. drv' \in Loops /\ drv'.pc = "batch" /\ drv'.call = drv.call
        /\ drv'.res = drv.res /\ drv'.snap = drv.snap
    BY <2>1, <2>5 DEF Loops
  <2>7. /\ run.approved = drv.call.n /\ cases' \in Nat
        /\ UNCHANGED <<plans, gens, batches, probes, approvals, run, cancel, wasted, faults>>
    BY <2>1, <2>4 DEF ExecuteDSL
  <2> QED BY <2>2, <2>3, <2>6, <2>7
<1>2. /\ \A plan : PlanFits(plan)' = PlanFits(plan) /\ CopyOf(plan)' = CopyOf(plan)
      /\ Current' = Current /\ GetCurrent' = GetCurrent /\ HasVerdict' = HasVerdict
      /\ CasesFit' = CasesFit
      /\ \A c : TypedCall(c)' = TypedCall(c)
      /\ \A tool, versions : ProbesOf(tool, versions)' = ProbesOf(tool, versions)
  BY <1>1, RowsKept, ProbesKept
<1>3. Typed'
  BY <1>0, <1>1, <1>2 DEF Typed
<1>4. Phases'
  BY <1>0, <1>1, <1>2, Bounds DEF Phases
<1>5. Copies'
  BY <1>0, <1>1, <1>2 DEF Copies, Phases
<1>6. SnapIsCurrent'
  BY <1>0, <1>1, <1>2 DEF SnapIsCurrent, Phases
<1>7. CallFits'
  BY <1>0, <1>1, <1>2 DEF CallFits, Phases
<1>8. FailedIsGrounded'
  BY <1>0, <1>1, <1>2 DEF FailedIsGrounded, Phases
<1>9. BindingsNamed'
  BY <1>0, <1>1, <1>2 DEF BindingsNamed, Phases
<1>10. ApprovalFits'
  BY <1>0, <1>1, <1>2 DEF ApprovalFits, Phases
<1>11. DraftFits'
  BY <1>0, <1>1, <1>2 DEF DraftFits, Phases
<1>12. ProbesCounted'
  BY <1>0, <1>1, <1>2 DEF ProbesCounted, Phases
<1>13. CompletedFits'
  BY <1>0, <1>1, <1>2 DEF CompletedFits, Phases
<1> QED BY <1>0, <1>2, <1>3, <1>4, <1>5, <1>6, <1>7, <1>8, <1>9, <1>10, <1>11, <1>12, <1>13 DEF IInv

\* The batch of the case is created.
LEMMA CreateBatchKeeps ==
    ASSUME IInv, ExecuteCreateBatch, batches' # batches
    PROVE  IInv'
<1>0. /\ Typed /\ Phases /\ Copies /\ SnapIsCurrent /\ CallFits /\ FailedIsGrounded
      /\ BindingsNamed /\ ApprovalFits /\ DraftFits /\ CasesFit /\ ProbesCounted
      /\ CompletedFits
  BY DEF IInv
<1>1. /\ drv.pc = "batch" /\ drv.call.tool = "execute_dsl" /\ ~cancel.ctx
      /\ drv' \in Loops /\ drv'.pc = "record" /\ drv'.call = drv.call /\ drv'.snap = drv.snap
      /\ batches' \in Seq(Batches) /\ Len(batches') = Len(batches) + 1
      /\ \A b \in DOMAIN batches : batches'[b] = batches[b]
      /\ batches'[Len(batches')].gen = drv.call.n
      /\ UNCHANGED <<plans, gens, run, cancel, probes, approvals, cases, wasted, faults>>
  <2>1. /\ batches \in Seq(Batches) /\ drv \in Loops /\ drv.call \in ModelCalls
        /\ drv.pc = "batch" /\ drv.call.tool = "execute_dsl"
    BY <1>0 DEF Typed, TypedCall, ExecuteCreateBatch, Phases
  <2> DEFINE batch == [gen |-> drv.call.n, status |-> "running", signals |-> {}]
             res == [ok |-> TRUE, n |-> Len(batches) + 1, s |-> "done"]
  <2>2. /\ batches' = Append(batches, batch) /\ Returns(res) /\ ~cancel.ctx
        /\ UNCHANGED <<plans, gens, run, cancel, probes, approvals, cases, faults>>
    BY DEF ExecuteCreateBatch
  <2>3. batch \in Batches /\ res \in ToolResults
    <3>1. drv.call.n \in Nat /\ Len(batches) \in Nat
      BY <2>1 DEF ModelCalls
    <3> QED BY <3>1 DEF Batches, ToolResults, Words
  <2>4. /\ drv' \in Loops /\ drv'.pc = "record" /\ drv'.call = drv.call /\ drv'.snap = drv.snap
        /\ wasted' = wasted
    BY <2>1, <2>2, <2>3, ReturnsEffect DEF Returns
  <2> HIDE DEF res
  <2>5. batch.gen = drv.call.n
    OBVIOUS
  <2> HIDE DEF batch
  <2>6. /\ batches' \in Seq(Batches) /\ Len(batches') = Len(batches) + 1
        /\ \A b \in DOMAIN batches : batches'[b] = batches[b]
        /\ batches'[Len(batches')] = batch
    BY <2>1, <2>2, <2>3
  <2> QED BY <2>1, <2>2, <2>4, <2>5, <2>6
<1>v. gens \in Seq(Generations) /\ batches \in Seq(Batches) /\ (HasVerdict => HasVerdict')
  <2>1. gens \in Seq(Generations) /\ batches \in Seq(Batches)
    BY <1>0 DEF Typed
  <2> QED BY <1>1, <2>1 DEF HasVerdict
<1>2. /\ \A plan : (PlanFits(plan) => PlanFits(plan)') /\ (CopyOf(plan) => CopyOf(plan)')
      /\ Current' = Current /\ GetCurrent' = GetCurrent
      /\ \A c : TypedCall(c) => TypedCall(c)'
      /\ \A tool, versions : ProbesOf(tool, versions)' = ProbesOf(tool, versions)
  BY <1>0, <1>1, <1>v, RowsGrow, ProbesKept
<1>3. Typed'
  BY <1>0, <1>1, <1>2 DEF Typed
<1>4. Phases'
  BY <1>0, <1>1, <1>2, Bounds DEF Phases
<1>5. Copies'
  BY <1>0, <1>1, <1>2 DEF Copies, Phases
<1>6. SnapIsCurrent'
  BY <1>0, <1>1, <1>2 DEF SnapIsCurrent, Phases
<1>7. CallFits'
  BY <1>0, <1>1, <1>2 DEF CallFits, Phases, Exploration
<1>8. FailedIsGrounded'
  BY <1>0, <1>1, <1>2 DEF FailedIsGrounded, Phases
<1>9. BindingsNamed'
  BY <1>0, <1>1, <1>2 DEF BindingsNamed, Phases
<1>10. ApprovalFits'
  <2>1. /\ drv.call.n \in approvals
        /\ DOMAIN batches' = DOMAIN batches \cup {Len(batches')}
    BY <1>0, <1>1, <1>v DEF ApprovalFits
  <2>2. \A c \in DOMAIN batches' : batches'[c].gen # 0 => batches'[c].gen \in approvals
    BY <1>0, <1>1, <2>1 DEF ApprovalFits
  <2>3. Current' = Current
    BY <1>2
  <2> QED BY <1>0, <1>1, <2>2, <2>3 DEF ApprovalFits
<1>11. DraftFits'
  BY <1>0, <1>1, <1>2 DEF DraftFits, Phases
<1>12. ProbesCounted'
  BY <1>0, <1>1, <1>2 DEF ProbesCounted, Phases, Exploration
<1>13. CompletedFits'
  BY <1>0, <1>1, <1>2 DEF CompletedFits, Phases
<1>14. CasesFit'
  BY <1>0, <1>1 DEF CasesFit
<1> QED BY <1>3, <1>4, <1>5, <1>6, <1>7, <1>8, <1>9, <1>10, <1>11, <1>12, <1>13, <1>14 DEF IInv

\* The queue settles a batch that runs.
LEMMA FinishKeeps ==
    ASSUME IInv, NEW b \in DOMAIN batches, FinishBatch(b)
    PROVE  IInv'
<1>0. /\ Typed /\ Phases /\ Copies /\ SnapIsCurrent /\ CallFits /\ FailedIsGrounded
      /\ BindingsNamed /\ ApprovalFits /\ DraftFits /\ CasesFit /\ ProbesCounted
      /\ CompletedFits
  BY DEF IInv
<1>1. /\ batches' \in Seq(Batches) /\ Len(batches') = Len(batches)
      /\ batches[b].status = "running"
      /\ \A c \in DOMAIN batches : /\ batches'[c].gen = batches[c].gen
                                   /\ c # b => batches'[c] = batches[c]
      /\ UNCHANGED <<plans, gens, run, drv, cancel, probes, approvals, cases, wasted, faults>>
  <2>1. batches \in Seq(Batches)
    BY <1>0 DEF Typed
  <2>2. PICK end \in Outcomes :
          batches' = [batches EXCEPT ![b].status = end.status, ![b].signals = end.signals]
    BY DEF FinishBatch
  <2>3. end.status \in Words /\ end.signals \in SUBSET Signals
    BY PlanInputsAssumption DEF PlanInputsAssumption
  <2>4. batches[b] \in Batches
    BY <2>1
  <2>5. [batches[b] EXCEPT !.status = end.status, !.signals = end.signals] \in Batches
    BY <2>3, <2>4 DEF Batches
  <2>6. [batches[b] EXCEPT !.status = end.status, !.signals = end.signals].gen = batches[b].gen
    BY <2>4 DEF Batches
  <2>7. batches' = [batches EXCEPT ![b] =
                      [batches[b] EXCEPT !.status = end.status, !.signals = end.signals]]
    BY <2>1, <2>2
  <2> DEFINE new == [batches[b] EXCEPT !.status = end.status, !.signals = end.signals]
  <2> HIDE DEF new
  <2>8. new \in Batches /\ new.gen = batches[b].gen /\ batches' = [batches EXCEPT ![b] = new]
    BY <2>5, <2>6, <2>7 DEF new
  <2>9. /\ batches' \in Seq(Batches) /\ Len(batches') = Len(batches)
        /\ \A c \in DOMAIN batches : /\ batches'[c].gen = batches[c].gen
                                     /\ c # b => batches'[c] = batches[c]
    BY <2>1, <2>8
  <2> QED BY <2>9 DEF FinishBatch
<1>v. gens \in Seq(Generations) /\ batches \in Seq(Batches) /\ (HasVerdict => HasVerdict')
  <2>1. gens \in Seq(Generations) /\ batches \in Seq(Batches)
    BY <1>0 DEF Typed
  <2> QED BY <1>1, <2>1 DEF HasVerdict
<1>2. /\ \A plan : (PlanFits(plan) => PlanFits(plan)') /\ (CopyOf(plan) => CopyOf(plan)')
      /\ Current' = Current /\ GetCurrent' = GetCurrent
      /\ \A c : TypedCall(c) => TypedCall(c)'
      /\ \A tool, versions : ProbesOf(tool, versions)' = ProbesOf(tool, versions)
  BY <1>0, <1>1, <1>v, RowsGrow, ProbesKept
<1>3. Typed'
  BY <1>0, <1>1, <1>2 DEF Typed
<1>4. Phases'
  BY <1>0, <1>1, <1>2, Bounds DEF Phases
<1>5. Copies'
  BY <1>0, <1>1, <1>2 DEF Copies, Phases
<1>6. SnapIsCurrent'
  BY <1>0, <1>1, <1>2 DEF SnapIsCurrent, Phases
<1>7. CallFits'
  BY <1>0, <1>1, <1>2, <1>v DEF CallFits, Phases
<1>8. FailedIsGrounded'
  BY <1>0, <1>1, <1>2 DEF FailedIsGrounded, Phases
<1>9. BindingsNamed'
  BY <1>0, <1>1, <1>2 DEF BindingsNamed, Phases
<1>10. ApprovalFits'
  <2>1. DOMAIN batches' = DOMAIN batches
    BY <1>1, <1>v
  <2>2. \A c \in DOMAIN batches' : batches'[c].gen # 0 => batches'[c].gen \in approvals
    BY <1>0, <1>1, <2>1 DEF ApprovalFits
  <2>3. Current' = Current
    BY <1>2
  <2> QED BY <1>0, <1>1, <2>2, <2>3 DEF ApprovalFits
<1>11. DraftFits'
  BY <1>0, <1>1, <1>2 DEF DraftFits, Phases
<1>12. ProbesCounted'
  BY <1>0, <1>1, <1>2 DEF ProbesCounted, Phases
<1>13. CompletedFits'
  BY <1>0, <1>1, <1>2 DEF CompletedFits, Phases
<1>14. CasesFit'
  BY <1>0, <1>1 DEF CasesFit
<1> QED BY <1>3, <1>4, <1>5, <1>6, <1>7, <1>8, <1>9, <1>10, <1>11, <1>12, <1>13, <1>14 DEF IInv

\* The generation is stored: its case repeats the plan, and
\* the approval of an earlier one will be withdrawn with the result.
LEMMA GenerateKeeps ==
    ASSUME IInv, GenerateDSL, gens' # gens
    PROVE  IInv'
<1>0. /\ Typed /\ Phases /\ Copies /\ SnapIsCurrent /\ CallFits /\ FailedIsGrounded
      /\ BindingsNamed /\ ApprovalFits /\ DraftFits /\ CasesFit /\ ProbesCounted
      /\ CompletedFits
  BY DEF IInv
<1>1. /\ drv.pc = "exec" /\ drv.call.tool = "generate_dsl" /\ ~cancel.ctx
      /\ drv' \in Loops /\ drv'.pc = "record" /\ drv'.call = drv.call /\ drv'.snap = drv.snap
      /\ drv'.res.n = Len(gens) + 1
      /\ gens' \in Seq(Generations) /\ Len(gens') = Len(gens) + 1
      /\ \A g \in DOMAIN gens : gens'[g] = gens[g]
      /\ gens'[Len(gens')].plan = Len(plans) /\ Len(plans) \in DOMAIN plans
      /\ CaseRepeats(gens'[Len(gens')].case, plans[Len(plans)].steps)
      /\ UNCHANGED <<plans, batches, run, cancel, probes, approvals, cases, wasted, faults>>
  <2>1. /\ gens \in Seq(Generations) /\ drv \in Loops /\ drv.call \in ModelCalls
        /\ drv.pc = "exec" /\ drv.call.tool = "generate_dsl" /\ ~cancel.ctx /\ plans # <<>>
    BY <1>0, ExecutingFits DEF Typed, TypedCall, GenerateDSL, NeedsPlan, Tools
  <2> DEFINE case == IF drv.call.v = 6 THEN drv.call.draft
                     ELSE CompileDraftCase(Current, drv.call.draft)
             gen == [plan |-> drv.call.n, v1 |-> drv.call.v = 6, case |-> case]
             res == [ok |-> TRUE, n |-> Len(gens) + 1, s |-> "done"]
  <2>2. /\ gens' = Append(gens, gen) /\ Returns(res)
        /\ drv.call.n = Current.version /\ Current.status = "ready_for_generation"
        /\ drv.call.v # 6 => ValidateDraftCaseSemantics(Current, drv.call.draft)
        /\ UNCHANGED <<plans, batches, run, cancel, probes, approvals, cases, faults>>
    BY DEF GenerateDSL
  <2>3. /\ Len(plans) \in DOMAIN plans /\ Current = plans[Len(plans)]
        /\ Current.version = Len(plans) /\ Current \in TaskPlans
        /\ \A i \in DOMAIN Current.steps : BindingOfStep(Current.steps[i])
    <3>1. /\ Len(plans) \in DOMAIN plans /\ Current = plans[Len(plans)] /\ Current \in TaskPlans
      BY <1>0, <2>1, CurrentType
    <3> QED BY <1>0, <3>1 DEF Copies, PlanFits
  <2>4. drv.call.draft \in Seq(DraftSteps) /\ drv.call.n \in Nat
    BY <2>1 DEF ModelCalls
  <2>5. case \in Seq(DraftSteps) /\ CaseRepeats(case, Current.steps)
    <3>1. CASE drv.call.v = 6
      <4>1. drv.call.draft = ModelDraft(Current, 6)
        BY <1>0, <2>1, <2>2, <3>1 DEF DraftFits
      <4> QED BY <2>3, <2>4, <3>1, <4>1, VersionOneRepeats
    <3>2. CASE drv.call.v # 6
      <4>1. case = CompileDraftCase(Current, drv.call.draft)
        BY <3>2
      <4> HIDE DEF case
      <4> QED BY <2>2, <2>3, <2>4, <3>2, <4>1, CompiledRepeats
    <3> QED BY <3>1, <3>2
  <2> HIDE DEF case
  <2>6. gen \in Generations /\ gen.plan = Len(plans) /\ gen.case = case
    BY <2>2, <2>3, <2>4, <2>5 DEF Generations
  <2>7. res \in ToolResults /\ res.ok /\ res.n = Len(gens) + 1
    <3>1. Len(gens) \in Nat
      BY <2>1
    <3> QED BY <3>1 DEF ToolResults, Words
  <2> HIDE DEF res, gen
  <2>8. /\ drv' \in Loops /\ drv'.pc = "record" /\ drv'.call = drv.call /\ drv'.snap = drv.snap
        /\ drv'.res.n = Len(gens) + 1 /\ wasted' = wasted
    BY <2>1, <2>2, <2>7, ReturnsEffect DEF Returns
  <2>9. /\ gens' \in Seq(Generations) /\ Len(gens') = Len(gens) + 1
        /\ \A g \in DOMAIN gens : gens'[g] = gens[g]
        /\ gens'[Len(gens')] = gen
    BY <2>1, <2>2, <2>6
  <2> QED BY <2>1, <2>2, <2>3, <2>5, <2>6, <2>8, <2>9
<1>v. gens \in Seq(Generations) /\ batches \in Seq(Batches) /\ (HasVerdict => HasVerdict')
      /\ DOMAIN gens = 1..Len(gens) /\ DOMAIN gens' = 1..(Len(gens) + 1) /\ Len(gens) \in Nat
      /\ Len(gens) < MaxGens
  <2>1. gens \in Seq(Generations) /\ batches \in Seq(Batches) /\ Len(gens) < MaxGens
    BY <1>0, <1>1 DEF Typed, Phases
  <2> QED BY <1>1, <2>1 DEF HasVerdict
<1>2. /\ \A plan : (PlanFits(plan) => PlanFits(plan)') /\ (CopyOf(plan) => CopyOf(plan)')
      /\ Current' = Current /\ GetCurrent' = GetCurrent
      /\ \A c : TypedCall(c) => TypedCall(c)'
      /\ \A tool, versions : ProbesOf(tool, versions)' = ProbesOf(tool, versions)
  BY <1>0, <1>1, <1>v, RowsGrow, ProbesKept
<1>3. Typed'
  BY <1>0, <1>1, <1>2 DEF Typed
<1>4. Phases'
  BY <1>0, <1>1, <1>2, <1>v, Bounds DEF Phases
<1>5. Copies'
  BY <1>0, <1>1, <1>2 DEF Copies, Phases
<1>6. SnapIsCurrent'
  BY <1>0, <1>1, <1>2 DEF SnapIsCurrent, Phases
<1>7. CallFits'
  BY <1>0, <1>1, <1>2, <1>v DEF CallFits, Phases, Exploration
<1>8. FailedIsGrounded'
  BY <1>0, <1>1, <1>2 DEF FailedIsGrounded, Phases
<1>9. BindingsNamed'
  BY <1>0, <1>1, <1>2 DEF BindingsNamed, Phases
<1>10. ApprovalFits'
  BY <1>0, <1>1, <1>2, <1>v DEF ApprovalFits, Phases
<1>11. DraftFits'
  BY <1>0, <1>1, <1>2 DEF DraftFits, Phases
<1>12. ProbesCounted'
  BY <1>0, <1>1, <1>2 DEF ProbesCounted, Phases, Exploration
<1>13. CompletedFits'
  BY <1>0, <1>1, <1>2 DEF CompletedFits, Phases
<1>14. CasesFit'
  BY <1>0, <1>1, <1>v DEF CasesFit
<1> QED BY <1>3, <1>4, <1>5, <1>6, <1>7, <1>8, <1>9, <1>10, <1>11, <1>12, <1>13, <1>14 DEF IInv

-----------------------------------------------------------------------------
(* Saves of a plan                                                         *)

\* A move of a copy fits where the copy did.
LEMMA MoveFits ==
    ASSUME Typed, NEW plan \in TaskPlans, CopyOf(plan), NEW r, PlanMoves(plan, r),
           r.gen \in 0..Len(gens), r.gen # 0 => gens[r.gen].plan = plan.version,
           r.status \in Ready => AllGrounded(r.steps), r.status = "completed" => HasVerdict
    PROVE  /\ r \in TaskPlans /\ PlanFits(r) /\ SamePlan(r, plans[r.version])
           /\ r.version = plan.version
<1>1. /\ r \in TaskPlans /\ r.version = plan.version /\ r.def = plan.def
      /\ Len(r.steps) = Len(plan.steps)
      /\ \A i \in 1..Len(plan.steps) : StepMoves(plan.steps[i], r.steps[i], plan.version)
  BY DEF PlanMoves
<1>2. /\ PlanFits(plan) /\ SamePlan(plan, plans[plan.version])
  BY DEF CopyOf
<1>3. /\ DOMAIN plan.steps = 1..Len(plan.steps) /\ DOMAIN r.steps = 1..Len(plan.steps)
      /\ plan.version \in DOMAIN plans
  BY <1>1, <1>2, PlanFields DEF PlanFits
<1>4. SamePlan(r, plans[r.version])
  BY <1>1, <1>2 DEF SamePlan, StepMoves, SameStep
<1>5. ASSUME NEW i \in DOMAIN r.steps
      PROVE  /\ BindingOfStep(r.steps[i]) /\ r.steps[i].action \in PlanActions
             /\ r.steps[i].binding.plan <= Len(plans)
  <2>1. StepMoves(plan.steps[i], r.steps[i], plan.version)
    BY <1>1, <1>3
  <2>2. /\ BindingOfStep(plan.steps[i]) /\ plan.steps[i].action \in PlanActions
        /\ plan.steps[i].binding.plan <= Len(plans)
    BY <1>2, <1>3 DEF PlanFits
  <2>3. /\ r.steps[i].id = plan.steps[i].id /\ r.steps[i].action = plan.steps[i].action
        /\ r.steps[i].target = plan.steps[i].target
    BY <2>1 DEF StepMoves, SameStep, KeptFields
  <2>4. plan.version <= Len(plans)
    BY <1>3 DEF Typed
  <2> QED BY <2>1, <2>2, <2>3, <2>4 DEF StepMoves, BindingOfStep
<1>6. PlanFits(r)
  BY <1>1, <1>3, <1>5 DEF PlanFits
<1> QED BY <1>1, <1>4, <1>6

\* A saved plan that fits leaves everything that is said of the others.
LEMMA SaveFits ==
    ASSUME Typed, Copies, CasesFit, NEW r \in TaskPlans, PlanFits(r),
           SamePlan(r, plans[r.version]), plans' = Save(r), UNCHANGED <<gens, batches>>
    PROVE  /\ plans' \in Seq(TaskPlans) /\ Len(plans') = Len(plans)
           /\ DOMAIN plans' = DOMAIN plans /\ plans # <<>> /\ plans' # <<>>
           /\ r.version \in DOMAIN plans /\ plans'[r.version] = r
           /\ \A p \in DOMAIN plans : p # r.version => plans'[p] = plans[p]
           /\ (\A p \in DOMAIN plans : PlanFits(plans[p]) /\ plans[p].version = p)'
           /\ \A plan : CopyOf(plan) => CopyOf(plan)'
           /\ Current' = IF r.version = Len(plans) THEN r ELSE Current
           /\ CasesFit' /\ HasVerdict' = HasVerdict
           /\ \A c : TypedCall(c)' = TypedCall(c)
<1>1. /\ plans \in Seq(TaskPlans) /\ r.version \in DOMAIN plans
      /\ plans' = [plans EXCEPT ![r.version] = r] /\ gens \in Seq(Generations)
  BY DEF Typed, PlanFits, Save
<1>2. /\ plans' \in Seq(TaskPlans) /\ Len(plans') = Len(plans)
      /\ DOMAIN plans' = DOMAIN plans /\ plans # <<>> /\ plans' # <<>>
      /\ plans'[r.version] = r /\ Len(plans) \in DOMAIN plans
      /\ \A p \in DOMAIN plans : p # r.version => plans'[p] = plans[p]
  BY <1>1
<1>3. HasVerdict' = HasVerdict /\ \A c : TypedCall(c)' = TypedCall(c)
  BY DEF HasVerdict, TypedCall
<1>4. \A plan : PlanFits(plan)' = PlanFits(plan)
  BY <1>2, <1>3 DEF PlanFits
<1>5. (\A p \in DOMAIN plans : PlanFits(plans[p]) /\ plans[p].version = p)'
  <2>1. \A p \in DOMAIN plans' : PlanFits(plans'[p]) /\ plans'[p].version = p
    BY <1>2 DEF Copies
  <2> QED BY <1>4, <2>1
<1>6. ASSUME NEW plan, CopyOf(plan)
      PROVE  CopyOf(plan)'
  <2>1. PlanFits(plan) /\ SamePlan(plan, plans[plan.version]) /\ plan.version \in DOMAIN plans
    BY <1>6 DEF CopyOf, PlanFits
  <2>2. SamePlan(plan, plans'[plan.version])
    <3>1. CASE plan.version = r.version
      <4>1. SamePlan(plan, r)
        BY <2>1, <3>1 DEF SamePlan, SameStep
      <4> QED BY <1>2, <3>1, <4>1
    <3>2. CASE plan.version # r.version
      BY <1>2, <2>1, <3>2
    <3> QED BY <3>1, <3>2
  <2> QED BY <1>4, <2>1, <2>2 DEF CopyOf
<1>7. Current' = IF r.version = Len(plans) THEN r ELSE Current
  BY <1>2 DEF Current
<1>8. CasesFit'
  <2> SUFFICES ASSUME NEW g \in DOMAIN gens
               PROVE  /\ gens[g].plan \in DOMAIN plans'
                      /\ CaseRepeats(gens[g].case, plans'[gens[g].plan].steps)
    BY DEF CasesFit
  <2>1. gens[g].plan \in DOMAIN plans /\ CaseRepeats(gens[g].case, plans[gens[g].plan].steps)
    BY DEF CasesFit
  <2>2. CASE gens[g].plan = r.version
    <3>0. gens[g] \in Generations
      BY <1>1
    <3>1. gens[g].case \in Seq(DraftSteps)
      BY <3>0 DEF Generations
    <3>2. plans[r.version] \in TaskPlans
      BY <1>1
    <3>3. r.steps \in Seq(PlanSteps) /\ plans[r.version].steps \in Seq(PlanSteps)
      BY <3>2, PlanFields
    <3>4. /\ Len(r.steps) = Len(plans[r.version].steps)
          /\ \A i \in 1..Len(plans[r.version].steps) :
                SameStep(plans[r.version].steps[i], r.steps[i])
      BY DEF SamePlan, SameStep
    <3>5. CaseRepeats(gens[g].case, r.steps)
      BY <2>1, <2>2, <3>1, <3>3, <3>4, CaseKept
    <3> QED BY <1>2, <2>1, <2>2, <3>5
  <2>3. CASE gens[g].plan # r.version
    BY <1>2, <2>1, <2>3
  <2> QED BY <2>2, <2>3
<1> QED BY <1>1, <1>2, <1>3, <1>5, <1>6, <1>7, <1>8

\* The effect of a save whose plan has moved.
LEMMA MovedSaveFits ==
    ASSUME Typed, Copies, CasesFit, NEW plan \in TaskPlans, CopyOf(plan), NEW r,
           PlanMoves(plan, r), r.gen \in 0..Len(gens),
           r.gen # 0 => gens[r.gen].plan = plan.version,
           r.status \in Ready => AllGrounded(r.steps), r.status = "completed" => HasVerdict,
           plans' = Save(r), UNCHANGED <<gens, batches>>
    PROVE  /\ r \in TaskPlans /\ r.version = plan.version
           /\ plans' \in Seq(TaskPlans) /\ Len(plans') = Len(plans)
           /\ DOMAIN plans' = DOMAIN plans /\ plans # <<>> /\ plans' # <<>>
           /\ r.version \in DOMAIN plans /\ plans'[r.version] = r
           /\ \A p \in DOMAIN plans : p # r.version => plans'[p] = plans[p]
           /\ (\A p \in DOMAIN plans : PlanFits(plans[p]) /\ plans[p].version = p)'
           /\ \A c : CopyOf(c) => CopyOf(c)'
           /\ Current' = IF r.version = Len(plans) THEN r ELSE Current
           /\ CasesFit' /\ HasVerdict' = HasVerdict
           /\ \A c : TypedCall(c)' = TypedCall(c)
<1>1. /\ r \in TaskPlans /\ PlanFits(r) /\ SamePlan(r, plans[r.version])
      /\ r.version = plan.version
  BY MoveFits
<1> QED BY <1>1, SaveFits

\* A cancel request blocks the plan it has read.
LEMMA BlockKeeps ==
    ASSUME IInv, MarkBlocked
    PROVE  IInv'
<1>0. /\ Typed /\ Phases /\ Copies /\ SnapIsCurrent /\ CallFits /\ FailedIsGrounded
      /\ BindingsNamed /\ ApprovalFits /\ DraftFits /\ CasesFit /\ ProbesCounted
      /\ CompletedFits
  BY DEF IInv
<1>1. /\ cancel.pc = "block" /\ run.status = "cancelled"
      /\ cancel' \in Cancels /\ cancel'.pc = "context" /\ cancel'.ctx = cancel.ctx
      /\ cancel'.snap = NoPlan
      /\ UNCHANGED <<run, drv, gens, batches, cases, probes, wasted, faults, approvals>>
  <2>1. cancel \in Cancels /\ run.status = "cancelled" /\ <<>> \in Seq(TaskPlans)
    BY <1>0 DEF Typed, MarkBlocked, Phases
  <2> QED BY <2>1 DEF MarkBlocked, Cancels
<1>2. CASE cancel.snap = NoPlan
  <2>1. UNCHANGED plans
    BY <1>2 DEF MarkBlocked
  <2>2. /\ \A plan : PlanFits(plan)' = PlanFits(plan) /\ CopyOf(plan)' = CopyOf(plan)
        /\ Current' = Current /\ GetCurrent' = GetCurrent /\ HasVerdict' = HasVerdict
        /\ CasesFit' = CasesFit
        /\ \A c : TypedCall(c)' = TypedCall(c)
        /\ \A tool, versions : ProbesOf(tool, versions)' = ProbesOf(tool, versions)
    BY <1>1, <2>1, RowsKept, ProbesKept
  <2>3. Typed' /\ Phases' /\ Copies'
    BY <1>0, <1>1, <2>1, <2>2 DEF Typed, Phases, Copies
  <2>4. SnapIsCurrent' /\ CallFits' /\ FailedIsGrounded'
    BY <1>0, <1>1, <2>1, <2>2 DEF SnapIsCurrent, CallFits, FailedIsGrounded
  <2>5. BindingsNamed' /\ ApprovalFits' /\ DraftFits'
    BY <1>0, <1>1, <2>1, <2>2 DEF BindingsNamed, ApprovalFits, DraftFits
  <2>6. ProbesCounted' /\ CompletedFits'
    BY <1>0, <1>1, <2>1, <2>2 DEF ProbesCounted, CompletedFits
  <2> QED BY <1>0, <2>2, <2>3, <2>4, <2>5, <2>6 DEF IInv
<1>3. CASE cancel.snap # NoPlan
  <2> DEFINE snap == cancel.snap[1]
             r == Marked(snap, "blocked")
  <2>1. snap \in TaskPlans /\ CopyOf(snap)
    BY <1>0, <1>3 DEF Typed, Cancels, Copies
  <2>2. plans' = Save(r)
    BY <1>3 DEF MarkBlocked
  <2>3. "blocked" \in PlanStatus
    BY DEF PlanStatus
  <2> HIDE DEF snap
  <2>4. /\ PlanMoves(snap, r) /\ r.gen = snap.gen /\ r.steps = snap.steps
        /\ r.status \in {"completed", "superseded", "blocked"}
        /\ r.status = "completed" => snap.status = "completed"
    BY <2>1, <2>3, MarkedMoves
  <2>5. /\ snap.gen \in 0..Len(gens) /\ (snap.gen # 0 => gens[snap.gen].plan = snap.version)
        /\ (snap.status = "completed" => HasVerdict)
    BY <2>1 DEF CopyOf, PlanFits
  <2> HIDE DEF r
  <2>6. r.status \notin Ready /\ r.status # "failed"
    BY <2>4 DEF Ready
  <2>7. /\ r \in TaskPlans /\ r.version = snap.version
        /\ plans' \in Seq(TaskPlans) /\ Len(plans') = Len(plans)
        /\ DOMAIN plans' = DOMAIN plans /\ plans # <<>> /\ plans' # <<>>
        /\ r.version \in DOMAIN plans /\ plans'[r.version] = r
        /\ \A p \in DOMAIN plans : p # r.version => plans'[p] = plans[p]
        /\ (\A p \in DOMAIN plans : PlanFits(plans[p]) /\ plans[p].version = p)'
        /\ \A c : CopyOf(c) => CopyOf(c)'
        /\ Current' = IF r.version = Len(plans) THEN r ELSE Current
        /\ CasesFit' /\ HasVerdict' = HasVerdict
        /\ \A c : TypedCall(c)' = TypedCall(c)
    BY <1>0, <1>1, <2>1, <2>2, <2>4, <2>5, <2>6, MovedSaveFits
  <2>8. \A tool, versions : ProbesOf(tool, versions)' = ProbesOf(tool, versions)
    BY <1>1, ProbesKept
  <2>9. Typed' /\ Phases'
    BY <1>0, <1>1, <2>7 DEF Typed, Phases
  <2>10. Copies'
    BY <1>0, <1>1, <2>7 DEF Copies
  <2>11. SnapIsCurrent' /\ CallFits'
    BY <1>0, <1>1, <2>7 DEF SnapIsCurrent, CallFits
  <2>12. FailedIsGrounded' /\ BindingsNamed'
    BY <1>0, <1>1, <2>6, <2>7 DEF FailedIsGrounded, BindingsNamed
  <2>13. ApprovalFits'
    <3>1. drv.pc \in {"model", "idle"} => snap = Current /\ snap.version = Len(plans)
      <4>1. drv.pc \in {"model", "idle"} => cancel.snap = GetCurrent
        BY <1>0, <1>1 DEF SnapIsCurrent
      <4> QED BY <1>0, <1>3, <4>1, CurrentIsCopy DEF snap
    <3> QED BY <1>0, <1>1, <2>4, <2>7, <3>1 DEF ApprovalFits
  <2>14. DraftFits' /\ CompletedFits'
    <3>1. r.status # "ready_for_generation"
      BY <2>6 DEF Ready
    <3> QED BY <1>0, <1>1, <2>7, <3>1 DEF DraftFits, CompletedFits
  <2>15. ProbesCounted'
    BY <1>0, <1>1, <2>7, <2>8 DEF ProbesCounted
  <2> QED BY <2>7, <2>9, <2>10, <2>11, <2>12, <2>13, <2>14, <2>15 DEF IInv
<1> QED BY <1>2, <1>3

\* The loop that ended in an error fails the plan it has read.
LEMMA FailKeeps ==
    ASSUME IInv, FailRun
    PROVE  IInv'
<1>0. /\ Typed /\ Phases /\ Copies /\ SnapIsCurrent /\ CallFits /\ FailedIsGrounded
      /\ BindingsNamed /\ ApprovalFits /\ DraftFits /\ CasesFit /\ ProbesCounted
      /\ CompletedFits
  BY DEF IInv
<1>1. /\ drv.pc = "failing" /\ drv' \in Loops /\ drv'.pc = "stopped" /\ drv'.call = drv.call
      /\ drv'.res = drv.res /\ drv'.snap = drv.snap
      /\ run' \in Runs /\ run'.latest = run.latest /\ run'.approved = run.approved
      /\ run'.status = IF run.status = "cancelled" THEN "cancelled" ELSE "failed"
      /\ UNCHANGED <<cancel, gens, batches, cases, probes, wasted, faults, approvals>>
  <2>1. drv \in Loops /\ run \in Runs
    BY <1>0 DEF Typed
  <2> QED BY <2>1 DEF FailRun, Loops, Runs
<1>2. CASE drv.snap = NoPlan
  <2>1. UNCHANGED plans
    BY <1>2 DEF FailRun
  <2>2. /\ \A plan : PlanFits(plan)' = PlanFits(plan) /\ CopyOf(plan)' = CopyOf(plan)
        /\ Current' = Current /\ GetCurrent' = GetCurrent /\ HasVerdict' = HasVerdict
        /\ CasesFit' = CasesFit
        /\ \A c : TypedCall(c)' = TypedCall(c)
        /\ \A tool, versions : ProbesOf(tool, versions)' = ProbesOf(tool, versions)
    BY <1>1, <2>1, RowsKept, ProbesKept
  <2>3. Typed' /\ Phases'
    BY <1>0, <1>1, <2>1, <2>2 DEF Typed, Phases
  <2>a. Copies'
    BY <1>0, <1>1, <2>1, <2>2 DEF Copies
  <2>4. SnapIsCurrent' /\ CallFits' /\ FailedIsGrounded'
    BY <1>0, <1>1, <2>1, <2>2 DEF SnapIsCurrent, CallFits, FailedIsGrounded
  <2>5. BindingsNamed' /\ ApprovalFits' /\ DraftFits'
    BY <1>0, <1>1, <2>1, <2>2 DEF BindingsNamed, ApprovalFits, DraftFits
  <2>6. ProbesCounted' /\ CompletedFits'
    BY <1>0, <1>1, <2>1, <2>2 DEF ProbesCounted, CompletedFits
  <2> QED BY <1>0, <2>2, <2>3, <2>a, <2>4, <2>5, <2>6 DEF IInv
<1>3. CASE drv.snap # NoPlan
  <2> DEFINE snap == drv.snap[1]
             r == Marked(snap, "failed")
  <2>1. snap \in TaskPlans /\ CopyOf(snap) /\ snap.version = Len(plans)
        /\ (run.status # "cancelled" => snap = Current)
    BY <1>0, <1>1, <1>3 DEF Typed, Loops, Copies, SnapIsCurrent
  <2>2. plans' = Save(r)
    BY <1>3 DEF FailRun
  <2>3. "failed" \in PlanStatus
    BY DEF PlanStatus
  <2> HIDE DEF snap
  <2>4. /\ PlanMoves(snap, r) /\ r.gen = snap.gen /\ r.steps = snap.steps
        /\ r.status \in {"completed", "superseded", "failed"}
        /\ r.status = "completed" => snap.status = "completed"
    BY <2>1, <2>3, MarkedMoves
  <2>5. /\ snap.gen \in 0..Len(gens) /\ (snap.gen # 0 => gens[snap.gen].plan = snap.version)
        /\ (snap.status = "completed" => HasVerdict)
    BY <2>1 DEF CopyOf, PlanFits
  <2> HIDE DEF r
  <2>6. r.status \notin Ready
    BY <2>4 DEF Ready
  <2>7. /\ r \in TaskPlans /\ r.version = snap.version
        /\ plans' \in Seq(TaskPlans) /\ Len(plans') = Len(plans)
        /\ DOMAIN plans' = DOMAIN plans /\ plans # <<>> /\ plans' # <<>>
        /\ r.version \in DOMAIN plans /\ plans'[r.version] = r
        /\ \A p \in DOMAIN plans : p # r.version => plans'[p] = plans[p]
        /\ (\A p \in DOMAIN plans : PlanFits(plans[p]) /\ plans[p].version = p)'
        /\ \A c : CopyOf(c) => CopyOf(c)'
        /\ Current' = IF r.version = Len(plans) THEN r ELSE Current
        /\ CasesFit' /\ HasVerdict' = HasVerdict
        /\ \A c : TypedCall(c)' = TypedCall(c)
    BY <1>0, <1>1, <2>1, <2>2, <2>4, <2>5, <2>6, MovedSaveFits
  <2>8. \A tool, versions : ProbesOf(tool, versions)' = ProbesOf(tool, versions)
    BY <1>1, ProbesKept
  <2>9. Typed' /\ Phases'
    BY <1>0, <1>1, <2>7 DEF Typed, Phases
  <2>10. Copies'
    BY <1>0, <1>1, <2>7 DEF Copies
  <2>11. SnapIsCurrent' /\ CallFits' /\ FailedIsGrounded'
    BY <1>0, <1>1, <2>7 DEF SnapIsCurrent, CallFits, FailedIsGrounded
  <2>12. BindingsNamed'
    <3>1. /\ Current = plans[Len(plans)] /\ Len(plans) \in DOMAIN plans
      BY <1>0, <2>7, CurrentType
    <3>2. run.status # "cancelled" => r.steps = plans[Len(plans)].steps
      BY <2>1, <2>4, <3>1
    <3>3. run.status # "cancelled" =>
            \A p \in DOMAIN plans : plans'[p].steps = plans[p].steps
      BY <2>1, <2>7, <3>2
    <3>4. run'.status # "cancelled" => run.status # "cancelled"
      BY <1>1
    <3> QED BY <1>0, <1>1, <2>7, <3>3, <3>4 DEF BindingsNamed
  <2>13. ApprovalFits'
    BY <1>0, <1>1, <2>1, <2>4, <2>7 DEF ApprovalFits
  <2>14. DraftFits' /\ CompletedFits'
    BY <1>0, <1>1 DEF DraftFits, CompletedFits
  <2>15. ProbesCounted'
    BY <1>0, <1>1, <2>7, <2>8 DEF ProbesCounted
  <2> QED BY <2>7, <2>9, <2>10, <2>11, <2>12, <2>13, <2>14, <2>15 DEF IInv
<1> QED BY <1>2, <1>3

\* The approval is saved and handed to the run.
LEMMA ApproveSaveKeeps ==
    ASSUME IInv, ApproveSave
    PROVE  IInv'
<1>0. /\ Typed /\ Phases /\ Copies /\ SnapIsCurrent /\ CallFits /\ FailedIsGrounded
      /\ BindingsNamed /\ ApprovalFits /\ DraftFits /\ CasesFit /\ ProbesCounted
      /\ CompletedFits
  BY DEF IInv
<1>1. /\ drv.pc = "approveSave" /\ drv' \in Loops /\ drv'.call = drv.call
      /\ drv'.res = drv.res
      /\ \/ run.status = "cancelled" /\ drv'.pc = "stopped" /\ run' = run
         \/ /\ run.status = "running" /\ drv'.pc = "model"
            /\ run'.approved = run.latest
            /\ run'.status = run.status /\ run'.latest = run.latest
      /\ run' \in Runs /\ approvals' = approvals \cup {run.latest}
      /\ UNCHANGED <<cancel, gens, batches, cases, probes, wasted, faults>>
  <2>1. drv \in Loops /\ run \in Runs /\ <<>> \in Seq(TaskPlans)
    BY <1>0 DEF Typed
  <2>2. drv.pc = "approveSave" /\ run.status \in {"running", "cancelled"}
    BY <1>0, <2>1 DEF ApproveSave, Phases, Runs
  <2> QED BY <2>1, <2>2 DEF ApproveSave, Loops, Runs
<1> DEFINE snap == drv.snap[1]
           r == [snap EXCEPT !.status = "approved"]
<1>2. /\ snap \in TaskPlans /\ CopyOf(snap) /\ snap.version = Len(plans)
      /\ (run.status # "cancelled" => snap = Current)
      /\ snap.status = "awaiting_approval" /\ snap.gen = run.latest /\ run.latest # 0
  BY <1>0, <1>1 DEF Typed, Loops, Copies, SnapIsCurrent, ApprovalFits
<1>3. plans' = Save(r)
  BY DEF ApproveSave
<1>4. "approved" \in PlanStatus
  BY DEF PlanStatus
<1> HIDE DEF snap
<1>5. /\ PlanMoves(snap, r) /\ r.gen = snap.gen /\ r.steps = snap.steps
      /\ r.status = "approved"
  <2>1. snap.gen \in Nat /\ snap.steps \in Seq(PlanSteps)
    BY <1>2, PlanFields
  <2>2. r = Updated(snap, snap.gen, "approved", snap.steps)
    BY <1>2, StatusUpdate, Zenon
  <2> HIDE DEF r
  <2> QED BY <1>2, <1>4, <2>1, <2>2, StatusMoves, PlanUpdated
<1>6. /\ snap.gen \in 1..Len(gens) /\ gens[snap.gen].plan = snap.version
      /\ AllGrounded(snap.steps)
  BY <1>2 DEF CopyOf, PlanFits, Ready
<1> HIDE DEF r
<1>7. /\ r \in TaskPlans /\ r.version = snap.version
      /\ plans' \in Seq(TaskPlans) /\ Len(plans') = Len(plans)
      /\ DOMAIN plans' = DOMAIN plans /\ plans # <<>> /\ plans' # <<>>
      /\ r.version \in DOMAIN plans /\ plans'[r.version] = r
      /\ \A p \in DOMAIN plans : p # r.version => plans'[p] = plans[p]
      /\ (\A p \in DOMAIN plans : PlanFits(plans[p]) /\ plans[p].version = p)'
      /\ \A c : CopyOf(c) => CopyOf(c)'
      /\ Current' = IF r.version = Len(plans) THEN r ELSE Current
      /\ CasesFit' /\ HasVerdict' = HasVerdict
      /\ \A c : TypedCall(c)' = TypedCall(c)
  <2>1. r.status # "completed" /\ r.gen \in 0..Len(gens)
    BY <1>5, <1>6
  <2> QED BY <1>0, <1>1, <1>2, <1>3, <1>5, <1>6, <2>1, MovedSaveFits
<1>8. \A tool, versions : ProbesOf(tool, versions)' = ProbesOf(tool, versions)
  BY <1>1, ProbesKept
<1>9. Typed' /\ Phases'
  BY <1>0, <1>1, <1>7 DEF Typed, Phases
<1>10. Copies'
  BY <1>0, <1>1, <1>7 DEF Copies
<1>11. SnapIsCurrent' /\ CallFits'
  BY <1>0, <1>1, <1>7 DEF SnapIsCurrent, CallFits, Phases
<1>12. FailedIsGrounded'
  BY <1>0, <1>1, <1>2, <1>5, <1>7 DEF FailedIsGrounded
<1>13. BindingsNamed'
  <2>1. Current = plans[Len(plans)] /\ Len(plans) \in DOMAIN plans
    BY <1>0, <1>7, CurrentType
  <2>2. run.status # "cancelled" => \A p \in DOMAIN plans : plans'[p].steps = plans[p].steps
    BY <1>2, <1>5, <1>7, <2>1
  <2> QED BY <1>0, <1>1, <1>7, <2>2 DEF BindingsNamed
<1>14. ApprovalFits'
  <2>1. gens \in Seq(Generations) /\ DOMAIN gens = 1..Len(gens)
    BY <1>0 DEF Typed
  <2> QED BY <1>0, <1>1, <1>2, <1>5, <1>6, <1>7, <2>1 DEF ApprovalFits
<1>15. DraftFits' /\ CompletedFits'
  BY <1>0, <1>1 DEF DraftFits, CompletedFits
<1>16. ProbesCounted'
  BY <1>0, <1>1, <1>7, <1>8 DEF ProbesCounted
<1> QED BY <1>7, <1>9, <1>10, <1>11, <1>12, <1>13, <1>14, <1>15, <1>16 DEF IInv

\* The carried bindings are saved under the version that was created.
LEMMA RebindSaves ==
    ASSUME IInv, RebindCarried, faults' = faults,
           ~\A i \in DOMAIN drv.snap[1].steps : drv.snap[1].steps[i].binding = NoBinding
    PROVE  IInv'
<1>0. /\ Typed /\ Phases /\ Copies /\ SnapIsCurrent /\ CallFits /\ FailedIsGrounded
      /\ BindingsNamed /\ ApprovalFits /\ DraftFits /\ CasesFit /\ ProbesCounted
      /\ CompletedFits
  BY DEF IInv
<1> DEFINE snap == drv.snap[1]
           r == RebindCarriedTargetBindings(snap)
<1>1. /\ drv.pc = "rebind" /\ drv.call.tool = "set_task_plan" /\ drv' \in Loops
      /\ drv'.pc = "record" /\ drv'.call = drv.call /\ drv'.res = NoResult
      /\ drv'.snap = drv.snap /\ wasted' \in 0..MaxWasted
      /\ plans' = Save(r)
      /\ UNCHANGED <<run, cancel, gens, batches, cases, probes, approvals, faults>>
  <2>1. drv.pc = "rebind" /\ drv.call.tool = "set_task_plan" /\ faults \in Nat
    BY <1>0 DEF RebindCarried, Phases, Typed
  <2>2. Returns(NoResult) /\ plans' = Save(r)
    BY <2>1 DEF RebindCarried
  <2>3. UNCHANGED <<run, cancel, gens, batches, cases, probes, approvals, faults>>
    BY DEF RebindCarried
  <2> QED BY <2>1, <2>2, <2>3, FailureTyped, ReturnsEffect
<1>2. /\ snap \in TaskPlans /\ CopyOf(snap) /\ snap.version = Len(plans)
  BY <1>0, <1>1 DEF Typed, Loops, Copies
<1> HIDE DEF snap
<1>3. /\ snap.gen \in 0..Len(gens) /\ (snap.gen # 0 => gens[snap.gen].plan = snap.version)
      /\ (snap.status \in Ready => AllGrounded(snap.steps))
      /\ (snap.status = "failed" => AllGrounded(snap.steps))
      /\ (snap.status = "completed" => HasVerdict)
      /\ \A i \in DOMAIN snap.steps : BindingOfStep(snap.steps[i])
  <2>1. snap.status = "failed" => AllGrounded(snap.steps)
    BY <1>0, <1>1 DEF FailedIsGrounded, Copies, snap
  <2> QED BY <1>2, <2>1 DEF CopyOf, PlanFits
<1>4. /\ PlanMoves(snap, r) /\ r.gen = snap.gen /\ r.status = snap.status
      /\ AllGrounded(snap.steps) => AllGrounded(r.steps)
      /\ \A i \in DOMAIN r.steps :
            r.steps[i].binding = NoBinding \/ r.steps[i].binding.plan = snap.version
  BY <1>2, <1>3, RebindMoves
<1> HIDE DEF r
<1>7. /\ r \in TaskPlans /\ r.version = snap.version
      /\ plans' \in Seq(TaskPlans) /\ Len(plans') = Len(plans)
      /\ DOMAIN plans' = DOMAIN plans /\ plans # <<>> /\ plans' # <<>>
      /\ r.version \in DOMAIN plans /\ plans'[r.version] = r
      /\ \A p \in DOMAIN plans : p # r.version => plans'[p] = plans[p]
      /\ (\A p \in DOMAIN plans : PlanFits(plans[p]) /\ plans[p].version = p)'
      /\ \A c : CopyOf(c) => CopyOf(c)'
      /\ Current' = IF r.version = Len(plans) THEN r ELSE Current
      /\ CasesFit' /\ HasVerdict' = HasVerdict
      /\ \A c : TypedCall(c)' = TypedCall(c)
  BY <1>0, <1>1, <1>2, <1>3, <1>4, MovedSaveFits
<1>8. \A tool, versions : ProbesOf(tool, versions)' = ProbesOf(tool, versions)
  BY <1>1, ProbesKept
<1>9. Typed' /\ Phases'
  BY <1>0, <1>1, <1>7 DEF Typed, Phases
<1>10. Copies'
  BY <1>0, <1>1, <1>7 DEF Copies
<1>11. SnapIsCurrent' /\ CallFits'
  BY <1>0, <1>1, <1>7 DEF SnapIsCurrent, CallFits, NeedsPlan, Exploration
<1>12. FailedIsGrounded'
  BY <1>0, <1>1, <1>2, <1>3, <1>4, <1>7 DEF FailedIsGrounded
<1>13. BindingsNamed'
  BY <1>0, <1>1, <1>2, <1>4, <1>7 DEF BindingsNamed
<1>14. ApprovalFits'
  <2>1. NoResult.ok
    BY FailureTyped
  <2> QED BY <1>0, <1>1, <1>7, <2>1 DEF ApprovalFits
<1>15. DraftFits' /\ CompletedFits'
  BY <1>0, <1>1 DEF DraftFits, CompletedFits, Phases
<1>16. ProbesCounted'
  BY <1>0, <1>1, <1>7, <1>8 DEF ProbesCounted, Exploration
<1> QED BY <1>7, <1>9, <1>10, <1>11, <1>12, <1>13, <1>14, <1>15, <1>16 DEF IInv

\* A new version: what was said of the plans, of their copies, of the calls and of the
\* cases stays true, the versions before it are superseded.
LEMMA VersionFits ==
    ASSUME Typed, Copies, CasesFit, NEW plan \in TaskPlans, plan.version = Len(plans) + 1,
           plan.gen = 0, plan.status \in {"grounding", "ready_for_generation"},
           plan.status = "ready_for_generation" => AllGrounded(plan.steps),
           \A i \in DOMAIN plan.steps :
              /\ BindingOfStep(plan.steps[i]) /\ plan.steps[i].binding.plan <= Len(plans) + 1
              /\ plan.steps[i].action \in PlanActions,
           plans' = CreateVersion(plan), UNCHANGED <<gens, batches>>
    PROVE  /\ plans' \in Seq(TaskPlans) /\ Len(plans') = Len(plans) + 1
           /\ DOMAIN plans' = 1..(Len(plans) + 1) /\ plans'[Len(plans')] = plan
           /\ \A p \in DOMAIN plans : plans'[p].steps = plans[p].steps
           /\ plans' # <<>> /\ Current' = plan
           /\ (\A p \in DOMAIN plans : PlanFits(plans[p]) /\ plans[p].version = p)'
           /\ \A c \in TaskPlans : CopyOf(c) \/ c = plan => CopyOf(c)'
           /\ CasesFit' /\ HasVerdict' = HasVerdict
           /\ \A c : TypedCall(c)' = TypedCall(c)
<1> DEFINE old == [i \in DOMAIN plans |-> [plans[i] EXCEPT !.status = "superseded"]]
<1>1. plans \in Seq(TaskPlans) /\ DOMAIN plans = 1..Len(plans) /\ Len(plans) \in Nat
      /\ gens \in Seq(Generations)
  BY DEF Typed
<1>2. "superseded" \in PlanStatus
  BY DEF PlanStatus
<1>3. \A p \in DOMAIN plans :
        /\ old[p] \in TaskPlans /\ old[p].version = plans[p].version
        /\ old[p].def = plans[p].def /\ old[p].gen = plans[p].gen
        /\ old[p].status = "superseded" /\ old[p].steps = plans[p].steps
  <2> SUFFICES ASSUME NEW p \in DOMAIN plans
               PROVE  /\ old[p] \in TaskPlans /\ old[p].version = plans[p].version
                      /\ old[p].def = plans[p].def /\ old[p].gen = plans[p].gen
                      /\ old[p].status = "superseded" /\ old[p].steps = plans[p].steps
    OBVIOUS
  <2>1. plans[p] \in TaskPlans /\ old[p] = [plans[p] EXCEPT !.status = "superseded"]
    BY <1>1
  <2>2. plans[p].gen \in Nat /\ plans[p].steps \in Seq(PlanSteps)
    BY <2>1, PlanFields
  <2>3. old[p] = Updated(plans[p], plans[p].gen, "superseded", plans[p].steps)
    BY <2>1, StatusUpdate, Zenon
  <2> HIDE DEF old
  <2> QED BY <1>2, <2>1, <2>2, <2>3, PlanUpdated
<1>4. old \in Seq(TaskPlans) /\ Len(old) = Len(plans)
  <2>1. old = [i \in 1..Len(plans) |-> old[i]]
    BY <1>1
  <2>2. \A i \in 1..Len(plans) : old[i] \in TaskPlans
    BY <1>1, <1>3
  <2> HIDE DEF old
  <2> QED BY <1>1, <2>1, <2>2
<1>5. plans' = Append(old, plan)
  BY DEF CreateVersion
<1> HIDE DEF old
<1>6. /\ plans' \in Seq(TaskPlans) /\ Len(plans') = Len(plans) + 1
      /\ DOMAIN plans' = 1..(Len(plans) + 1) /\ plans'[Len(plans')] = plan
      /\ \A p \in DOMAIN plans : plans'[p] = old[p]
      /\ plans' # <<>> /\ DOMAIN plans \subseteq DOMAIN plans'
  <2>1. /\ DOMAIN plans = 1..Len(plans) /\ Len(plans) \in Nat /\ plan \in TaskPlans
    BY <1>1
  <2>2. /\ plans' \in Seq(TaskPlans) /\ Len(plans') = Len(plans) + 1
        /\ plans'[Len(plans) + 1] = plan
        /\ \A p \in 1..Len(plans) : plans'[p] = old[p]
    BY <1>4, <1>5, <2>1
  <2>3. DOMAIN plans' = 1..(Len(plans) + 1)
    BY <2>1, <2>2
  <2> QED BY <2>1, <2>2, <2>3
<1>7. Current' = plan
  BY <1>6 DEF Current
<1>8. HasVerdict' = HasVerdict /\ \A c : TypedCall(c)' = TypedCall(c)
  BY DEF HasVerdict, TypedCall
<1>9. ASSUME NEW c \in TaskPlans, PlanFits(c)
      PROVE  PlanFits(c)'
  <2>1. ASSUME NEW i \in DOMAIN c.steps
        PROVE  c.steps[i].binding.plan <= Len(plans')
    <3>1. c.steps[i] \in PlanSteps
      BY PlanFields
    <3>2. c.steps[i].binding.plan \in Nat
      BY <3>1 DEF PlanSteps, Bindings
    <3>3. c.steps[i].binding.plan <= Len(plans)
      BY <1>9 DEF PlanFits
    <3> QED BY <1>1, <1>6, <3>2, <3>3
  <2> QED BY <1>6, <1>8, <1>9, <2>1 DEF PlanFits
<1>10. ASSUME NEW c, c = plan
       PROVE  PlanFits(c)'
  <2>1. plan.status \in Ready => plan.status = "ready_for_generation"
    BY DEF Ready
  <2>2. 0 \in 0..Len(gens) /\ plan.status # "completed" /\ Len(plans') = Len(plans) + 1
        /\ plan.version \in DOMAIN plans'
    BY <1>1, <1>6
  <2> QED BY <1>10, <2>1, <2>2 DEF PlanFits
<1>11. ASSUME NEW p \in DOMAIN plans', NEW c, c = plans'[p]
       PROVE  PlanFits(c)' /\ c.version = p
  <2>1. CASE p \in DOMAIN plans
    <3>1. c = old[p] /\ old[p].version = p /\ PlanFits(plans[p]) /\ plans[p] \in TaskPlans
      BY <1>1, <1>3, <1>6, <1>11, <2>1 DEF Copies
    <3>2. PICK d \in TaskPlans : d = plans[p]
      BY <3>1
    <3>3. PlanFits(d)'
      BY <1>9, <3>1, <3>2
    <3>4. "superseded" \notin Ready /\ "superseded" # "completed"
      BY DEF Ready
    <3>5. /\ c.version = d.version /\ c.gen = d.gen /\ c.status = "superseded"
          /\ c.steps = d.steps
      BY <1>3, <2>1, <3>1, <3>2
    <3> QED BY <3>1, <3>3, <3>4, <3>5 DEF PlanFits
  <2>2. CASE p \notin DOMAIN plans
    <3>1. p = Len(plans') /\ plans'[p] = plan
      BY <1>1, <1>6, <2>2
    <3> QED BY <1>6, <1>10, <1>11, <3>1
  <2> QED BY <2>1, <2>2
<1>a. (\A p \in DOMAIN plans : PlanFits(plans[p]) /\ plans[p].version = p)'
  BY <1>11
<1>12. ASSUME NEW c \in TaskPlans, CopyOf(c)
       PROVE  CopyOf(c)'
  <2>1. PlanFits(c) /\ SamePlan(c, plans[c.version]) /\ c.version \in DOMAIN plans
    BY <1>12 DEF CopyOf, PlanFits
  <2>2. SamePlan(c, plans'[c.version])
    BY <1>3, <1>6, <2>1 DEF SamePlan
  <2> QED BY <1>9, <2>1, <2>2 DEF CopyOf
<1>13. ASSUME NEW c, c = plan
       PROVE  CopyOf(c)'
  <2>1. SamePlan(c, plans'[c.version])
    BY <1>6, <1>13 DEF SamePlan, SameStep
  <2> QED BY <1>10, <1>13, <2>1 DEF CopyOf
<1>14. CasesFit'
  BY <1>3, <1>6 DEF CasesFit
<1>15. \A p \in DOMAIN plans : plans'[p].steps = plans[p].steps
  BY <1>3, <1>6
<1> QED BY <1>6, <1>7, <1>8, <1>a, <1>12, <1>13, <1>14, <1>15

\* set_task_plan makes the next version, whose carried bindings are not saved yet.
LEMMA SetTaskPlanKeeps ==
    ASSUME IInv, SetTaskPlan, plans' # plans
    PROVE  IInv'
<1>0. /\ Typed /\ Phases /\ Copies /\ SnapIsCurrent /\ CallFits /\ FailedIsGrounded
      /\ BindingsNamed /\ ApprovalFits /\ DraftFits /\ CasesFit /\ ProbesCounted
      /\ CompletedFits
  BY DEF IInv
<1> DEFINE def == Normalized(Definitions[drv.call.n])
           plan == NewPlan(def, GetCurrent, Len(plans) + 1)
<1>1. /\ drv.pc = "exec" /\ drv.call.tool = "set_task_plan" /\ ~cancel.ctx
      /\ drv.call.n \in DOMAIN Definitions
  BY ExecutingFits DEF SetTaskPlan, TypedCall
<1>2. /\ ValidateDefinition(def) /\ plans' = CreateVersion(plan)
      /\ drv' = [drv EXCEPT !.pc = "rebind", !.snap = <<plan>>]
      /\ UNCHANGED <<run, cancel, gens, batches, cases, probes, approvals, wasted, faults>>
  BY DEF SetTaskPlan
<1>3. def \in PlanDefinitions /\ Ungrounded(def.steps)
  <2>1. Definitions[drv.call.n] \in PlanDefinitions /\ Ungrounded(Definitions[drv.call.n].steps)
    BY <1>1, PlanInputsAssumption DEF PlanInputsAssumption
  <2> QED BY <2>1, NormalizedType
<1> HIDE DEF def
<1>4. /\ GetCurrent = <<>> \/ GetCurrent[1] \in TaskPlans
      /\ GetCurrent # <<>> => \A j \in DOMAIN GetCurrent[1].steps :
            /\ BindingOfStep(GetCurrent[1].steps[j])
            /\ GetCurrent[1].steps[j].binding.plan <= Len(plans) + 1
      /\ Len(plans) + 1 \in Nat \ {0} /\ Len(plans) \in Nat
  <2>1. /\ plans # <<>> => /\ GetCurrent[1] \in TaskPlans /\ PlanFits(GetCurrent[1])
                           /\ Len(plans) \in DOMAIN plans
        /\ plans = <<>> => GetCurrent = <<>>
        /\ Len(plans) \in Nat
    BY <1>0, CurrentType, CurrentIsCopy DEF CopyOf
  <2>2. CASE plans = <<>>
    BY <2>1, <2>2
  <2>3. CASE plans # <<>>
    <3>1. ASSUME NEW j \in DOMAIN GetCurrent[1].steps
          PROVE  /\ BindingOfStep(GetCurrent[1].steps[j])
                 /\ GetCurrent[1].steps[j].binding.plan <= Len(plans) + 1
      <4>1. /\ BindingOfStep(GetCurrent[1].steps[j])
            /\ GetCurrent[1].steps[j].binding.plan <= Len(plans)
        BY <2>1, <2>3 DEF PlanFits
      <4>2. GetCurrent[1].steps[j].binding.plan \in Nat
        <5>1. GetCurrent[1].steps[j] \in PlanSteps
          BY <2>1, <2>3, PlanFields
        <5> QED BY <5>1 DEF PlanSteps, Bindings
      <4> QED BY <2>1, <4>1, <4>2
    <3> QED BY <2>1, <2>3, <3>1
  <2> QED BY <2>2, <2>3
<1>5. /\ plan \in TaskPlans /\ plan.version = Len(plans) + 1 /\ plan.gen = 0
      /\ plan.status \in {"grounding", "ready_for_generation"}
      /\ plan.status = "ready_for_generation" => AllGrounded(plan.steps)
      /\ \A i \in DOMAIN plan.steps :
            /\ BindingOfStep(plan.steps[i]) /\ plan.steps[i].binding.plan <= Len(plans) + 1
            /\ plan.steps[i].action \in PlanActions
  BY <1>2, <1>3, <1>4, NewPlanFits
<1> HIDE DEF plan
<1>6. /\ drv' \in Loops /\ drv'.pc = "rebind" /\ drv'.call = drv.call
      /\ drv'.res = drv.res /\ drv'.snap = <<plan>> /\ drv'.snap[1] = plan /\ drv'.snap # NoPlan
  <2>1. drv \in Loops /\ <<plan>> \in Seq(TaskPlans)
    BY <1>0, <1>5 DEF Typed
  <2> QED BY <1>2, <2>1 DEF Loops
<1>7. /\ plans' \in Seq(TaskPlans) /\ Len(plans') = Len(plans) + 1
      /\ DOMAIN plans' = 1..(Len(plans) + 1) /\ plans'[Len(plans')] = plan
      /\ \A p \in DOMAIN plans : plans'[p].steps = plans[p].steps
      /\ plans' # <<>> /\ Current' = plan
      /\ (\A p \in DOMAIN plans : PlanFits(plans[p]) /\ plans[p].version = p)'
      /\ \A c \in TaskPlans : CopyOf(c) \/ c = plan => CopyOf(c)'
      /\ CasesFit' /\ HasVerdict' = HasVerdict
      /\ \A c : TypedCall(c)' = TypedCall(c)
  BY <1>0, <1>2, <1>5, VersionFits
<1>9. Typed'
  BY <1>0, <1>2, <1>6, <1>7 DEF Typed
<1>10. Phases'
  BY <1>0, <1>1, <1>2, <1>4, <1>6, <1>7, Bounds DEF Phases
<1>11. Copies'
  <2>1. cancel.snap # NoPlan => cancel.snap[1] \in TaskPlans
    BY <1>0 DEF Typed, Cancels
  <2>2. (cancel.snap # NoPlan => CopyOf(cancel.snap[1]))'
    BY <1>0, <1>2, <1>7, <2>1 DEF Copies
  <2>3. CopyOf(drv.snap[1])'
    BY <1>5, <1>6, <1>7
  <2> QED BY <1>2, <1>5, <1>6, <1>7, <2>2, <2>3 DEF Copies
<1>12. SnapIsCurrent' /\ CallFits'
  BY <1>0, <1>2, <1>6, <1>7 DEF SnapIsCurrent, CallFits
<1>13. FailedIsGrounded'
  BY <1>0, <1>2, <1>5, <1>6, <1>7 DEF FailedIsGrounded
<1>14. BindingsNamed'
  <2>1. DOMAIN plans = 1..Len(plans)
    BY <1>0, CurrentType
  <2> QED BY <1>0, <1>1, <1>2, <1>4, <1>6, <1>7, <2>1 DEF BindingsNamed
<1>15. ApprovalFits'
  BY <1>0, <1>1, <1>2, <1>6, <1>7 DEF ApprovalFits
<1>16. DraftFits' /\ CompletedFits'
  BY <1>0, <1>1, <1>2, <1>6 DEF DraftFits, CompletedFits, Phases
<1>17. ProbesCounted'
  <2>1. DOMAIN plans = 1..Len(plans) /\ DOMAIN plans \subseteq DOMAIN plans'
    BY <1>0, <1>4, <1>7, CurrentType
  <2>2. \A tool : ProbesOf(tool, DOMAIN plans)' = ProbesOf(tool, DOMAIN plans)
    BY <1>0, <1>2, <2>1 DEF ProbesCounted, ProbesOf
  <2> QED BY <1>0, <1>2, <1>6, <2>1, <2>2 DEF ProbesCounted
<1> QED BY <1>7, <1>9, <1>10, <1>11, <1>12, <1>13, <1>14, <1>15, <1>16, <1>17 DEF IInv

\* The result has reached the plan or there was none to reach: the loop goes on.
LEMMA SavedLoop ==
    ASSUME IInv, SaveResult
    PROVE  /\ drv.pc = "save" /\ drv' \in Loops /\ run' \in Runs
           /\ \/ /\ run.status = "cancelled" /\ drv'.pc = "stopped" /\ drv'.call = drv.call
                 /\ UNCHANGED <<run, probes>>
              \/ /\ run.status = "running" /\ cancel.pc = "idle" /\ drv'.pc = "model"
                 /\ drv'.call = NoCall /\ drv'.snap = NoPlan
                 /\ run'.status = "running"
                 /\ \/ run'.approved = 0 /\ run'.latest = 0
                    \/ /\ drv.res.ok /\ drv.call.tool = "generate_dsl"
                       /\ run'.approved = 0 /\ run'.latest = drv.res.n
                    \/ /\ ~(drv.res.ok /\ drv.call.tool \in {"set_task_plan", "generate_dsl"})
                       /\ run'.approved = run.approved /\ run'.latest = run.latest
                 /\ \/ probes' = probes
                    \/ /\ drv.res.ok /\ drv.call.tool \in Exploration
                       /\ probes' = probes \cup {[probe |-> drv.call.n,
                                                  version |-> drv.snap[1].version]}
           /\ UNCHANGED <<gens, batches, cases, cancel, wasted, faults, approvals>>
<1>1. /\ drv \in Loops /\ run \in Runs /\ NoCall \in ModelCalls /\ NoResult \in ToolResults
      /\ <<>> \in Seq(TaskPlans) /\ drv.res \in ToolResults
  BY NoCallTyped, FailureTyped DEF IInv, Typed, Loops
<1>2. drv.pc = "save" /\ UNCHANGED <<gens, batches, cases, cancel, wasted, faults, approvals>>
  BY DEF SaveResult
<1>3. CASE ~LoopRuns
  <2>1. run.status = "cancelled"
    BY <1>1, <1>2, <1>3 DEF IInv, Phases, LoopRuns, Runs
  <2>2. drv' = [drv EXCEPT !.pc = "stopped"] /\ UNCHANGED <<run, probes>>
    BY <1>3 DEF SaveResult
  <2>3. drv' \in Loops /\ drv'.pc = "stopped" /\ drv'.call = drv.call
    BY <1>1, <2>2 DEF Loops
  <2> QED BY <1>1, <1>2, <2>1, <2>2, <2>3
<1>4. CASE LoopRuns
  <2>1. run.status = "running" /\ cancel.pc = "idle"
    BY <1>4 DEF IInv, Phases, LoopRuns
  <2>2. /\ drv' = [drv EXCEPT !.pc = "model", !.call = NoCall, !.res = NoResult,
                              !.snap = NoPlan]
        /\ run' = RunAfter(drv.call, drv.res)
        /\ probes' = IF drv.res.ok /\ drv.call.tool \in Exploration
                     THEN probes \cup {[probe |-> drv.call.n,
                                        version |-> drv.snap[1].version]}
                     ELSE probes
    BY <1>4 DEF SaveResult
  <2>3. /\ drv' \in Loops /\ drv'.pc = "model" /\ drv'.call = NoCall
        /\ drv'.snap = NoPlan
    BY <1>1, <2>2 DEF Loops
  <2>4. /\ run' \in Runs /\ run'.status = run.status
        /\ \/ run'.approved = 0 /\ run'.latest = 0
           \/ /\ drv.res.ok /\ drv.call.tool = "generate_dsl"
              /\ run'.approved = 0 /\ run'.latest = drv.res.n
           \/ /\ ~(drv.res.ok /\ drv.call.tool \in {"set_task_plan", "generate_dsl"})
              /\ run'.approved = run.approved /\ run'.latest = run.latest
    <3>1. drv.res.n \in Nat
      BY <1>1 DEF ToolResults
    <3> QED BY <1>1, <2>2, <3>1 DEF RunAfter, Runs
  <2> QED BY <1>2, <2>1, <2>2, <2>3, <2>4
<1> QED BY <1>3, <1>4

\* One probe more is counted once more.
LEMMA OneProbeMore ==
    ASSUME IsFiniteSet(probes), NEW x, probes' = probes \cup {x}, NEW tool, NEW versions
    PROVE  /\ IsFiniteSet(probes')
           /\ Cardinality(ProbesOf(tool, versions)) \in Nat
           /\ \A t : ProbesOf(t, versions)' \subseteq ProbesOf(t, versions) \cup {x}
           /\ Cardinality(ProbesOf(tool, versions)') <= Cardinality(ProbesOf(tool, versions)) + 1
           /\ Probes[x.probe].tool # tool =>
                ProbesOf(tool, versions)' = ProbesOf(tool, versions)
<1>1. IsFiniteSet(probes')
  BY FS_AddElement
<1> DEFINE P == ProbesOf(tool, versions)
           Q == ProbesOf(tool, versions)'
<1>2. P \subseteq probes /\ Q \subseteq P \cup {x}
      /\ \A t : ProbesOf(t, versions)' \subseteq ProbesOf(t, versions) \cup {x}
  BY DEF ProbesOf
<1>3. Probes[x.probe].tool # tool => Q = P
  BY DEF ProbesOf
<1> HIDE DEF P, Q
<1>4. IsFiniteSet(P) /\ Cardinality(P) \in Nat
  BY <1>2, FS_Subset, FS_CardinalityType
<1>5. IsFiniteSet(P \cup {x}) /\ Cardinality(P \cup {x}) <= Cardinality(P) + 1
  <2>1. /\ IsFiniteSet(P \cup {x})
        /\ \/ Cardinality(P \cup {x}) = Cardinality(P)
           \/ Cardinality(P \cup {x}) = Cardinality(P) + 1
    BY <1>4, FS_AddElement
  <2> QED BY <1>4, <2>1
<1>6. IsFiniteSet(Q) /\ Cardinality(Q) <= Cardinality(P \cup {x})
      /\ Cardinality(Q) \in Nat /\ Cardinality(P \cup {x}) \in Nat
  BY <1>2, <1>5, FS_Subset, FS_CardinalityType
<1>7. Cardinality(Q) <= Cardinality(P) + 1
  BY <1>4, <1>5, <1>6
<1> QED BY <1>1, <1>2, <1>3, <1>4, <1>7 DEF P, Q

\* The probes stay within the limits of the run.
LEMMA ProbesStayCounted ==
    ASSUME IInv, SaveResult, DOMAIN plans' = DOMAIN plans
    PROVE  ProbesCounted'
<1>0. ProbesCounted /\ Typed /\ Phases /\ Copies /\ CallFits
  BY DEF IInv
<1>1. drv.pc = "save" /\ drv'.pc \in {"model", "stopped"}
  BY SavedLoop
<1>2. CASE probes' = probes
  <2>1. \A tool, versions : ProbesOf(tool, versions)' = ProbesOf(tool, versions)
    BY <1>2, ProbesKept
  <2> QED BY <1>0, <1>1, <1>2, <2>1 DEF ProbesCounted
<1>3. CASE probes' # probes
  <2> DEFINE x == [probe |-> drv.call.n, version |-> drv.snap[1].version]
  <2>1. drv.call.tool \in Exploration /\ probes' = probes \cup {x}
    BY <1>3, SavedLoop
  <2>2. x.probe \in DOMAIN Probes /\ Probes[x.probe].tool = drv.call.tool
    BY <1>0, <2>1 DEF Typed, TypedCall
  <2>3. x.version \in DOMAIN plans
    <3>1. plans # <<>>
      BY <1>0, <1>1, <2>1 DEF CallFits, NeedsPlan, Tools, Exploration
    <3>2. CopyOf(drv.snap[1])
      BY <1>0, <1>1, <3>1 DEF Copies
    <3> QED BY <3>2 DEF CopyOf, PlanFits
  <2> HIDE DEF x
  <2>4. IsFiniteSet(probes)
    BY <1>0 DEF ProbesCounted
  <2>5. IsFiniteSet(probes')
        /\ \A p \in probes' : p.probe \in DOMAIN Probes /\ p.version \in DOMAIN plans'
    BY <1>0, <2>1, <2>2, <2>3, <2>4, FS_AddElement DEF ProbesCounted
  <2>6. ASSUME NEW tool \in Exploration
        PROVE  Cardinality(ProbesOf(tool, DOMAIN plans)') <= RunLimit(tool)
    <3> DEFINE V == DOMAIN plans
    <3>1. /\ Cardinality(ProbesOf(tool, DOMAIN plans)) \in Nat
          /\ Cardinality(ProbesOf(tool, DOMAIN plans)) <= RunLimit(tool)
          /\ tool = drv.call.tool =>
               Cardinality(ProbesOf(tool, DOMAIN plans)) < RunLimit(tool)
          /\ RunLimit(tool) \in Nat
      <4>1. PICK versions : versions = DOMAIN plans
        OBVIOUS
      <4>2. Cardinality(ProbesOf(tool, versions)) \in Nat
        BY <2>1, <2>4, OneProbeMore
      <4> QED BY <1>0, <1>1, <2>1, <4>1, <4>2, Bounds DEF ProbesCounted, RunLimit
    <3>2. PICK versions : versions = DOMAIN plans
      OBVIOUS
    <3>3. ProbesOf(tool, DOMAIN plans)' = ProbesOf(tool, versions)'
      BY <3>2 DEF ProbesOf
    <3>4. /\ Cardinality(ProbesOf(tool, versions)') <= Cardinality(ProbesOf(tool, versions)) + 1
          /\ tool # drv.call.tool => ProbesOf(tool, versions)' = ProbesOf(tool, versions)
          /\ Cardinality(ProbesOf(tool, versions)') \in Nat
      <4>1. ProbesOf(tool, versions)' \subseteq probes'
        BY DEF ProbesOf
      <4>2. Cardinality(ProbesOf(tool, versions)') \in Nat
        BY <2>5, <4>1, FS_Subset, FS_CardinalityType
      <4> QED BY <2>1, <2>2, <2>4, <4>2, OneProbeMore
    <3> QED BY <3>1, <3>2, <3>3, <3>4
  <2> QED BY <1>1, <2>5, <2>6 DEF ProbesCounted
<1> QED BY <1>2, <1>3

\* The plan moves as the result or the failure makes it, or there is no plan to move.
LEMMA SavedPlan ==
    ASSUME IInv, SaveResult, plans' # plans
    PROVE  \E r :
             /\ drv.snap # NoPlan /\ drv.snap[1] \in TaskPlans /\ CopyOf(drv.snap[1])
             /\ drv.snap[1].version = Len(plans)
             /\ (run.status # "cancelled" => drv.snap[1] = Current)
             /\ plans' = Save(r) /\ PlanMoves(drv.snap[1], r) /\ GroundedEnough(r)
             /\ r.gen \in 0..Len(gens) /\ (r.gen # 0 => gens[r.gen].plan = Len(plans))
             /\ (r.status = "completed" => HasVerdict)
             /\ \/ drv.res.ok /\ drv.call.tool = "generate_dsl"
                \/ r.gen \in {0, drv.snap[1].gen}
<1>0. /\ Typed /\ Phases /\ Copies /\ SnapIsCurrent /\ CallFits /\ FailedIsGrounded
  BY DEF IInv
<1> DEFINE snap == drv.snap[1]
<1>1. /\ drv.pc = "save" /\ drv.snap # NoPlan
      /\ ~(drv.call.tool = "set_task_plan" /\ drv.res.ok)
      /\ \/ drv.res.ok /\ plans' = Save(Advanced(snap, drv.call, drv.res))
         \/ ~drv.res.ok /\ \E named : plans' = Save(AfterFailure(snap, drv.call, drv.res, named))
  <2>1. drv.pc = "save"
    BY DEF SaveResult
  <2>2. drv.snap # NoPlan /\ ~(drv.call.tool = "set_task_plan" /\ drv.res.ok)
    BY DEF SaveResult
  <2>3. CASE drv.res.ok
    BY <2>1, <2>2, <2>3 DEF SaveResult
  <2>4. CASE ~drv.res.ok
    BY <2>1, <2>2, <2>4 DEF SaveResult
  <2> QED BY <2>1, <2>2, <2>3, <2>4
<1>2. /\ snap \in TaskPlans /\ CopyOf(snap) /\ snap.version = Len(plans)
      /\ (run.status # "cancelled" => snap = Current)
      /\ drv.call \in ModelCalls /\ drv.res \in ToolResults /\ TypedCall(drv.call)
      /\ drv.call.tool \in Tools \ {"ask_user_question"}
  BY <1>0, <1>1 DEF Typed, Loops, Copies, SnapIsCurrent, TypedCall, ModelCalls, Phases
<1>3. /\ drv.call.tool \in NeedsPlan => CallStatus(drv.call.tool, snap.status)
      /\ drv.res.ok =>
           /\ drv.call.tool \in Exploration => drv.res.n \in DOMAIN Results
           /\ drv.call.tool = "generate_dsl" =>
                drv.res.n \in DOMAIN gens /\ gens[drv.res.n].plan = Len(plans)
           /\ drv.call.tool = "get_report" /\ drv.res.s = "passed" => HasVerdict
      /\ snap.status = "failed" => AllGrounded(snap.steps)
  BY <1>0, <1>1 DEF CallFits, FailedIsGrounded
<1> HIDE DEF snap
<1>4. /\ snap.gen \in 0..Len(gens) /\ (snap.gen # 0 => gens[snap.gen].plan = Len(plans))
      /\ (snap.status = "completed" => HasVerdict)
      /\ GroundedEnough(snap)
  BY <1>2, <1>3 DEF CopyOf, PlanFits, GroundedEnough
<1>5. DOMAIN gens \subseteq 0..Len(gens)
  BY <1>0 DEF Typed
<1>6. CASE drv.res.ok
  <2> DEFINE r == Advanced(snap, drv.call, drv.res)
  <2>1. plans' = Save(r)
    BY <1>1, <1>6 DEF snap
  <2>2. drv.call.tool \in NeedsPlan
    BY <1>1, <1>2, <1>6 DEF NeedsPlan
  <2>3. /\ PlanMoves(snap, r) /\ GroundedEnough(r)
        /\ r.status = "completed" => drv.call.tool = "get_report" /\ drv.res.s = "passed"
        /\ IF drv.call.tool = "generate_dsl" THEN r.gen = drv.res.n
           ELSE r.gen \in {0, snap.gen}
    BY <1>2, <1>3, <1>4, <1>6, <2>2, AdvancedMoves
  <2> HIDE DEF r
  <2>4. /\ r.gen \in 0..Len(gens) /\ (r.gen # 0 => gens[r.gen].plan = Len(plans))
        /\ (r.status = "completed" => HasVerdict)
        /\ \/ drv.res.ok /\ drv.call.tool = "generate_dsl"
           \/ r.gen \in {0, snap.gen}
    BY <1>3, <1>4, <1>5, <1>6, <2>3
  <2> QED BY <1>1, <1>2, <2>1, <2>3, <2>4 DEF snap
<1>7. CASE ~drv.res.ok
  <2>1. PICK named : plans' = Save(AfterFailure(snap, drv.call, drv.res, named))
    BY <1>1, <1>7 DEF snap
  <2> DEFINE r == AfterFailure(snap, drv.call, drv.res, named)
  <2>2. /\ PlanMoves(snap, r) /\ GroundedEnough(r) /\ r.gen = snap.gen
        /\ r.status = "completed" => snap.status = "completed"
    BY <1>2, <1>3, <1>4, AfterFailureMoves
  <2>3. plans' = Save(r)
    BY <2>1
  <2> HIDE DEF r
  <2> QED BY <1>1, <1>2, <1>4, <2>2, <2>3 DEF snap
<1> QED BY <1>6, <1>7

\* The result is saved: the plan, then the run.
LEMMA SaveKeeps ==
    ASSUME IInv, SaveResult
    PROVE  IInv'
<1>0. /\ Typed /\ Phases /\ Copies /\ SnapIsCurrent /\ CallFits /\ FailedIsGrounded
      /\ BindingsNamed /\ ApprovalFits /\ DraftFits /\ CasesFit /\ ProbesCounted
      /\ CompletedFits
  BY DEF IInv
<1>1. /\ drv.pc = "save" /\ drv' \in Loops /\ run' \in Runs
      /\ \/ /\ run.status = "cancelled" /\ drv'.pc = "stopped" /\ drv'.call = drv.call
            /\ UNCHANGED run
         \/ /\ run.status = "running" /\ cancel.pc = "idle" /\ drv'.pc = "model"
            /\ drv'.call = NoCall /\ drv'.snap = NoPlan
            /\ run'.status = "running"
            /\ \/ run'.approved = 0 /\ run'.latest = 0
               \/ /\ drv.res.ok /\ drv.call.tool = "generate_dsl"
                  /\ run'.approved = 0 /\ run'.latest = drv.res.n
               \/ /\ ~(drv.res.ok /\ drv.call.tool \in {"set_task_plan", "generate_dsl"})
                  /\ run'.approved = run.approved /\ run'.latest = run.latest
      /\ UNCHANGED <<gens, batches, cases, cancel, wasted, faults, approvals>>
  BY SavedLoop
<1>2. TypedCall(NoCall) /\ NoCall.tool = "none"
  BY NoCallTyped
<1>3. /\ gens \in Seq(Generations) /\ DOMAIN gens \subseteq 0..Len(gens)
      /\ drv.res.ok /\ drv.call.tool = "generate_dsl" => drv.res.n \in DOMAIN gens
  BY <1>0, <1>1 DEF Typed, CallFits
<1>4. CASE plans' = plans
  <2>1. /\ \A plan : PlanFits(plan)' = PlanFits(plan) /\ CopyOf(plan)' = CopyOf(plan)
        /\ Current' = Current /\ GetCurrent' = GetCurrent /\ HasVerdict' = HasVerdict
        /\ CasesFit' = CasesFit
        /\ \A c : TypedCall(c)' = TypedCall(c)
    BY <1>1, <1>4, RowsKept
  <2>2. Typed' /\ Phases'
    BY <1>0, <1>1, <1>2, <1>4, <2>1 DEF Typed, Phases
  <2>3. Copies'
    BY <1>0, <1>1, <1>4, <2>1 DEF Copies
  <2>4. SnapIsCurrent' /\ CallFits'
    BY <1>0, <1>1, <1>4, <2>1 DEF SnapIsCurrent, CallFits, Phases
  <2>5. FailedIsGrounded' /\ BindingsNamed'
    BY <1>0, <1>1, <1>4, <2>1 DEF FailedIsGrounded, BindingsNamed
  <2>6. ApprovalFits'
    BY <1>0, <1>1, <1>2, <1>3, <1>4, <2>1 DEF ApprovalFits
  <2>7. DraftFits' /\ CompletedFits'
    BY <1>0, <1>1 DEF DraftFits, CompletedFits
  <2>8. ProbesCounted'
    BY <1>4, ProbesStayCounted
  <2> QED BY <1>0, <2>1, <2>2, <2>3, <2>4, <2>5, <2>6, <2>7, <2>8 DEF IInv
<1>5. CASE plans' # plans
  <2> DEFINE snap == drv.snap[1]
  <2>1. PICK r :
             /\ drv.snap # NoPlan /\ snap \in TaskPlans /\ CopyOf(snap)
             /\ snap.version = Len(plans)
             /\ (run.status # "cancelled" => snap = Current)
             /\ plans' = Save(r) /\ PlanMoves(snap, r) /\ GroundedEnough(r)
             /\ r.gen \in 0..Len(gens) /\ (r.gen # 0 => gens[r.gen].plan = Len(plans))
             /\ (r.status = "completed" => HasVerdict)
             /\ \/ drv.res.ok /\ drv.call.tool = "generate_dsl"
                \/ r.gen \in {0, snap.gen}
    BY <1>5, SavedPlan
  <2> HIDE DEF snap
  <2>2. (r.status \in Ready => AllGrounded(r.steps)) /\ (r.status = "failed" => AllGrounded(r.steps))
    BY <2>1 DEF GroundedEnough
  <2>3. /\ r \in TaskPlans /\ r.version = snap.version
        /\ plans' \in Seq(TaskPlans) /\ Len(plans') = Len(plans)
        /\ DOMAIN plans' = DOMAIN plans /\ plans # <<>> /\ plans' # <<>>
        /\ r.version \in DOMAIN plans /\ plans'[r.version] = r
        /\ \A p \in DOMAIN plans : p # r.version => plans'[p] = plans[p]
        /\ (\A p \in DOMAIN plans : PlanFits(plans[p]) /\ plans[p].version = p)'
        /\ \A c : CopyOf(c) => CopyOf(c)'
        /\ Current' = IF r.version = Len(plans) THEN r ELSE Current
        /\ CasesFit' /\ HasVerdict' = HasVerdict
        /\ \A c : TypedCall(c)' = TypedCall(c)
    BY <1>0, <1>1, <2>1, <2>2, MovedSaveFits
  <2>4. Typed' /\ Phases'
    BY <1>0, <1>1, <1>2, <2>3 DEF Typed, Phases
  <2>5. Copies'
    BY <1>0, <1>1, <2>3 DEF Copies
  <2>6. SnapIsCurrent' /\ CallFits'
    BY <1>0, <1>1, <2>3 DEF SnapIsCurrent, CallFits, Phases
  <2>7. FailedIsGrounded'
    BY <1>0, <1>1, <2>1, <2>2, <2>3 DEF FailedIsGrounded
  <2>8. BindingsNamed'
    <3> SUFFICES ASSUME faults = 0, run.status # "cancelled", NEW p \in DOMAIN plans,
                        NEW i \in DOMAIN plans'[p].steps
                 PROVE  \/ plans'[p].steps[i].binding = NoBinding
                        \/ plans'[p].steps[i].binding.plan = p
      BY <1>1, <2>3 DEF BindingsNamed
    <3>1. Current = plans[Len(plans)] /\ Len(plans) \in DOMAIN plans
      BY <1>0, <2>3, CurrentType
    <3>2. CASE p = Len(plans)
      <4>1. plans'[p] = r /\ snap = plans[p] /\ DOMAIN r.steps = 1..Len(r.steps)
            /\ DOMAIN snap.steps = 1..Len(snap.steps)
        BY <2>1, <2>3, <3>1, <3>2, PlanFields
      <4>2. StepMoves(snap.steps[i], r.steps[i], p) /\ i \in DOMAIN snap.steps
        BY <2>1, <3>2, <4>1 DEF PlanMoves
      <4>3. snap.steps[i].binding = NoBinding \/ snap.steps[i].binding.plan = p
        BY <1>0, <1>1, <3>2, <4>1, <4>2 DEF BindingsNamed
      <4> QED BY <4>1, <4>2, <4>3 DEF StepMoves
    <3>3. CASE p # Len(plans)
      BY <1>0, <1>1, <2>1, <2>3, <3>3 DEF BindingsNamed
    <3> QED BY <3>2, <3>3
  <2>9. ApprovalFits'
    BY <1>0, <1>1, <1>2, <1>3, <2>1, <2>3 DEF ApprovalFits
  <2>10. DraftFits' /\ CompletedFits'
    BY <1>0, <1>1 DEF DraftFits, CompletedFits
  <2>11. ProbesCounted'
    BY <2>3, ProbesStayCounted
  <2> QED BY <2>3, <2>4, <2>5, <2>6, <2>7, <2>8, <2>9, <2>10, <2>11 DEF IInv
<1> QED BY <1>4, <1>5

-----------------------------------------------------------------------------
(* The invariant holds                                                     *)

\* The first state satisfies the invariant.
LEMMA InitFits ==
    ASSUME Init
    PROVE  IInv
<1>1. /\ <<>> \in Seq(TaskPlans) /\ <<>> \in Seq(Generations) /\ batches \in Seq(Batches)
      /\ \A b \in DOMAIN batches : batches[b].gen = 0
  <2>1. Foreign \in Seq([gen: {0}, status: Words, signals: SUBSET Signals])
    BY PlanInputsAssumption DEF PlanInputsAssumption
  <2>2. [gen: {0}, status: Words, signals: SUBSET Signals] \subseteq Batches
    BY DEF Batches
  <2>3. \A b \in DOMAIN Foreign :
          /\ Foreign[b] \in Batches
          /\ Foreign[b] \in [gen: {0}, status: Words, signals: SUBSET Signals]
    <3> DEFINE T == [gen: {0}, status: Words, signals: SUBSET Signals]
    <3>1. Foreign \in Seq(T) /\ T \subseteq Batches
      BY <2>1, <2>2
    <3> HIDE DEF T
    <3>2. \A b \in DOMAIN Foreign : Foreign[b] \in Batches /\ Foreign[b] \in T
      BY <3>1
    <3> QED BY <3>2 DEF T
  <2>4. Foreign \in Seq(Batches)
    <3>1. Foreign = [i \in 1..Len(Foreign) |-> Foreign[i]] /\ Len(Foreign) \in Nat
          /\ DOMAIN Foreign = 1..Len(Foreign)
      BY <2>1
    <3> QED BY <2>3, <3>1
  <2>5. \A b \in DOMAIN Foreign : Foreign[b].gen = 0
    BY <2>3
  <2> QED BY <2>4, <2>5 DEF Init
<1>2. /\ NoCall \in ModelCalls /\ TypedCall(NoCall) /\ NoCall.tool = "none"
      /\ NoResult \in ToolResults
  BY NoCallTyped, FailureTyped
<1>3. /\ plans = <<>> /\ gens = <<>> /\ probes = {} /\ approvals = {} /\ cases = 0
      /\ wasted = 0 /\ faults = 0
      /\ run \in Runs /\ run.status = "running" /\ run.latest = 0 /\ run.approved = 0
      /\ drv \in Loops /\ drv.pc = "model" /\ drv.call = NoCall
      /\ cancel \in Cancels /\ cancel.pc = "idle" /\ cancel.ctx = FALSE
      /\ cancel.snap = NoPlan
  BY <1>1, <1>2 DEF Init, Runs, Loops, Cancels
<1>4. Typed /\ Phases
  <2>1. 0 \in 0..MaxWasted /\ 0 \in 0..MaxFaults /\ Len(<<>>) <= MaxVersions /\ Len(<<>>) <= MaxGens
    BY Bounds
  <2>2. Typed
    BY <1>1, <1>2, <1>3, <2>1 DEF Typed
  <2>3. Phases
    BY <1>2, <1>3, <2>1 DEF Phases
  <2> QED BY <2>2, <2>3
<1>5. Copies /\ SnapIsCurrent /\ CallFits /\ FailedIsGrounded
  BY <1>3 DEF Copies, SnapIsCurrent, CallFits, FailedIsGrounded
<1>6. BindingsNamed /\ ApprovalFits /\ DraftFits /\ CasesFit /\ CompletedFits
  BY <1>1, <1>3 DEF BindingsNamed, ApprovalFits, DraftFits, CasesFit, CompletedFits
<1>7. ProbesCounted
  <2>1. IsFiniteSet({}) /\ Cardinality({}) = 0
    BY FS_EmptySet
  <2>2. \A tool : ProbesOf(tool, DOMAIN plans) = {}
    BY <1>3 DEF ProbesOf
  <2>3. \A tool : 0 <= RunLimit(tool)
    BY Bounds DEF RunLimit
  <2> QED BY <1>3, <2>1, <2>2, <2>3 DEF ProbesCounted
<1> QED BY <1>4, <1>5, <1>6, <1>7 DEF IInv

\* A step in which nothing happens.
LEMMA StutterKeeps ==
    ASSUME IInv, UNCHANGED vars
    PROVE  IInv'
<1>1. UNCHANGED <<plans, run, drv, gens, batches, cases, attempts, probes, cancel,
                  wasted, faults, approvals>>
  BY DEF vars
<1>2. /\ \A plan : PlanFits(plan)' = PlanFits(plan) /\ CopyOf(plan)' = CopyOf(plan)
      /\ Current' = Current /\ GetCurrent' = GetCurrent /\ HasVerdict' = HasVerdict
      /\ CasesFit' = CasesFit
      /\ \A call : TypedCall(call)' = TypedCall(call)
      /\ \A tool, versions : ProbesOf(tool, versions)' = ProbesOf(tool, versions)
  BY <1>1, RowsKept, ProbesKept
<1>3. Typed' /\ Phases' /\ Copies'
  BY <1>1, <1>2 DEF IInv, Typed, Phases, Copies
<1>4. SnapIsCurrent' /\ CallFits' /\ FailedIsGrounded'
  BY <1>1, <1>2 DEF IInv, SnapIsCurrent, CallFits, FailedIsGrounded
<1>5. BindingsNamed' /\ ApprovalFits' /\ DraftFits'
  BY <1>1, <1>2 DEF IInv, BindingsNamed, ApprovalFits, DraftFits
<1>6. CasesFit' /\ ProbesCounted' /\ CompletedFits'
  BY <1>1, <1>2 DEF IInv, ProbesCounted, CompletedFits
<1> QED BY <1>3, <1>4, <1>5, <1>6 DEF IInv

\* Every step of the loop, of the user, of the cancel request and of the queue keeps the
\* invariant.
LEMMA NextKeeps ==
    ASSUME IInv, [Next]_vars
    PROVE  IInv'
<1>1. CASE SetTaskPlan
  BY <1>1, SetTaskPlanAnswers, SetTaskPlanKeeps
<1>2. CASE RebindCarried
  BY <1>2, RebindReturns, RebindSaves
<1>3. CASE GenerateDSL
  BY <1>3, GenerateFails, GenerateKeeps
<1>4. CASE ExecuteDSL
  BY <1>4, ExecuteReturns, ExecuteKeeps
<1>5. CASE ExecuteCreateBatch
  BY <1>5, CreateBatchFails, CreateBatchKeeps
<1>6. CASE \/ Explore \/ GetReport \/ PrepareFixAndRetry \/ AskUserQuestion
           \/ RecordResult \/ SaveResult \/ ApproveRead \/ ApproveSave \/ FailRun
           \/ StopLoop
  BY <1>6, ExploreKeeps, GetReportKeeps, FixKeeps, AskKeeps, RecordKeeps, SaveKeeps,
     ApproveReadKeeps, ApproveSaveKeeps, FailKeeps, StopKeeps
<1>7. CASE ModelSteps
  BY <1>7, ProposeKeeps, RefuseKeeps, CompleteKeeps, LoopErrorKeeps DEF ModelSteps
<1>8. CASE CancelRun \/ CancelSteps
  BY <1>8, CancelRunKeeps, CancelReadKeeps, BlockKeeps, CancelContextKeeps DEF CancelSteps
<1>9. CASE \E approve \in BOOLEAN : Answer(approve)
  BY <1>9, AnswerKeeps
<1>10. CASE \E b \in DOMAIN batches : FinishBatch(b)
  BY <1>10, FinishKeeps
<1>11. CASE UNCHANGED vars
  BY <1>11, StutterKeeps
<1> QED BY <1>1, <1>2, <1>3, <1>4, <1>5, <1>6, <1>7, <1>8, <1>9, <1>10, <1>11
           DEF Next, ToolSteps

\* The loop, the user, the cancel request and the queue, in any order, keep the plan,
\* the call on its way, the copies in flight, the generations, the batches and the run
\* consistent with each other.
THEOREM PlanInvariance == Spec => []IInv
<1>1. Init => IInv
  BY InitFits
<1>2. IInv /\ [Next]_vars => IInv'
  BY NextKeeps
<1> QED BY <1>1, <1>2, PTL DEF Spec

-----------------------------------------------------------------------------
(* What it says of the workflow                                            *)

\* The rows of task_plans, agent_runs and dsl_generation_runs and the state of the loop
\* have the values the schema and the code allow.
THEOREM PlanTypes == Spec => []TypeOK
<1>1. ASSUME IInv
      PROVE  TypeOK
  <2>0. /\ Typed /\ Phases /\ Copies /\ ApprovalFits /\ CasesFit
    BY <1>1 DEF IInv
  <2>1. /\ plans \in Seq(TaskPlans) /\ DOMAIN plans = 1..Len(plans) /\ Len(plans) \in Nat
        /\ gens \in Seq(Generations) /\ DOMAIN gens = 1..Len(gens) /\ Len(gens) \in Nat
        /\ batches \in Seq(Batches) /\ Len(plans) <= MaxVersions /\ Len(gens) <= MaxGens
    BY <2>0 DEF Typed, Phases
  <2>2. ASSUME NEW p \in DOMAIN plans
        PROVE  PlanOK(plans[p]) /\ plans[p].version = p
    <3>1. plans[p] \in TaskPlans /\ PlanFits(plans[p]) /\ plans[p].version = p
      BY <2>0, <2>1 DEF Copies
    <3>2. /\ plans[p].version \in 1..MaxVersions /\ plans[p].gen \in 0..MaxGens
          /\ plans[p].status \in PlanStatus
      BY <2>1, <3>1, PlanFields, Bounds DEF PlanFits
    <3>3. ASSUME NEW i \in DOMAIN plans[p].steps
          PROVE  StepOK(plans[p].steps[i])
      <4>1. plans[p].steps[i] \in PlanSteps
        BY <3>1, PlanFields
      <4>2. /\ plans[p].steps[i].status \in {"pending", "grounded"}
            /\ plans[p].steps[i].binding.plan \in Nat
        BY <4>1 DEF PlanSteps, Bindings
      <4>3. /\ plans[p].steps[i].action \in PlanActions
            /\ plans[p].steps[i].binding.plan <= Len(plans)
        BY <3>1 DEF PlanFits
      <4>4. plans[p].steps[i].binding.plan \in 0..MaxVersions
        <5>1. MaxVersions \in Nat
          BY Bounds
        <5>2. Len(plans) \in Nat /\ Len(plans) <= MaxVersions
          BY <2>1
        <5> QED BY <4>2, <4>3, <5>1, <5>2
      <4> QED BY <4>2, <4>3, <4>4 DEF StepOK
    <3> QED BY <3>1, <3>2, <3>3 DEF PlanOK
  <2>3. /\ run.status \in {"running", "waiting", "completed", "failed", "cancelled"}
        /\ drv.pc \in {"model", "exec", "rebind", "batch", "record", "save", "idle",
                       "approve", "approveSave", "stranded", "failing", "stopped"}
        /\ cases \in Nat /\ wasted \in 0..MaxWasted /\ faults \in 0..MaxFaults
    BY <2>0 DEF Typed, Runs, Loops
  <2>4. /\ {run.latest, run.approved} \subseteq 0..Len(gens)
        /\ \A g \in DOMAIN gens : gens[g].plan \in DOMAIN plans
        /\ approvals \subseteq DOMAIN gens
    BY <2>0 DEF ApprovalFits, CasesFit
  <2>5. \A b \in DOMAIN batches : batches[b].gen \in 0..Len(gens)
    BY <2>0, <2>1, <2>4 DEF ApprovalFits
  <2> QED BY <2>2, <2>3, <2>4, <2>5 DEF TypeOK
<1> QED BY <1>1, PlanInvariance, PTL

\* The state machine of the plan: what is ready, awaits approval, is approved or runs has
\* every step grounded and bound where its action needs it.
THEOREM ReadyPlansAreGrounded == Spec => []ReadyIsGrounded
<1>1. ASSUME IInv
      PROVE  ReadyIsGrounded
  <2>1. plans # <<>> => PlanFits(Current)
    BY <1>1, CurrentIsCopy DEF IInv, CopyOf
  <2> QED BY <2>1 DEF ReadyIsGrounded, PlanFits, Ready
<1> QED BY <1>1, PlanInvariance, PTL

\* carryForwardGrounding, the probes and the repairs: a binding sits on the step it was
\* made for and names its version.
THEOREM BindingsStayOnTheirSteps == Spec => []BindingFitsStep
<1>1. ASSUME IInv
      PROVE  BindingFitsStep
  <2> SUFFICES ASSUME NEW p \in DOMAIN plans, NEW i \in DOMAIN plans[p].steps,
                      plans[p].steps[i].binding # NoBinding
               PROVE  LET s == plans[p].steps[i] IN
                      /\ s.binding.step = s.id
                      /\ s.binding.action = s.action /\ s.binding.target = s.target
                      /\ s.binding.plan = p \/ faults > 0 \/ drv.pc = "rebind"
                              \/ run.status = "cancelled"
    BY DEF BindingFitsStep
  <2>1. BindingOfStep(plans[p].steps[i])
    <3>1. PlanFits(plans[p])
      BY <1>1 DEF IInv, Copies
    <3> QED BY <3>1 DEF PlanFits
  <2>2. faults = 0 \/ faults > 0
    BY <1>1 DEF IInv, Typed
  <2>3. faults = 0 /\ run.status # "cancelled" =>
            plans[p].steps[i].binding.plan = p \/ drv.pc = "rebind"
    <3>1. BindingsNamed
      BY <1>1 DEF IInv
    <3> QED BY <3>1, Zenon DEF BindingsNamed
  <2> QED BY <2>1, <2>2, <2>3 DEF BindingOfStep
<1> QED BY <1>1, PlanInvariance, PTL

\* Rules 7 and 8 of the plan's state machine: what is executed was approved by the user
\* and repeats, step for step, the version it was generated for.
THEOREM OnlyApprovedCasesRun == Spec => []ExecutedAsApproved
<1>1. ASSUME IInv
      PROVE  ExecutedAsApproved
  <2>1. /\ \A b \in DOMAIN batches : batches[b].gen # 0 => batches[b].gen \in approvals
        /\ approvals \subseteq DOMAIN gens
        /\ \A g \in DOMAIN gens : CaseRepeats(gens[g].case, plans[gens[g].plan].steps)
    BY <1>1 DEF IInv, ApprovalFits, CasesFit
  <2> QED BY <2>1 DEF ExecutedAsApproved, CaseRepeats
<1> QED BY <1>1, PlanInvariance, PTL

\* "A new plan version invalidates the old generation and its approval."
THEOREM ApprovalsStayCurrent == Spec => []ApprovalIsCurrent
<1>1. ASSUME IInv
      PROVE  ApprovalIsCurrent
  BY <1>1 DEF IInv, ApprovalFits, ApprovalIsCurrent
<1> QED BY <1>1, PlanInvariance, PTL

\* Rule 9: a run that completed has a completed plan and a batch that passed.
THEOREM CompletionNeedsVerdict == Spec => []CompletedHasVerdict
<1>1. ASSUME IInv
      PROVE  CompletedHasVerdict
  <2>1. plans # <<>> => PlanFits(Current)
    BY <1>1, CurrentIsCopy DEF IInv, CopyOf
  <2> QED BY <1>1, <2>1 DEF IInv, CompletedFits, CompletedHasVerdict, PlanFits, HasVerdict
<1> QED BY <1>1, PlanInvariance, PTL

\* The gate counts what was summarised: over all versions a run never completes more
\* probes than the run-wide limits.
THEOREM ProbesStayWithinTheRun == Spec => []RunWideProbeLimit
<1>1. ASSUME IInv
      PROVE  RunWideProbeLimit
  BY <1>1 DEF IInv, ProbesCounted, RunWideProbeLimit, RunLimit, Exploration
<1> QED BY <1>1, PlanInvariance, PTL

\* CancelOwned against a loop, a resume and an approval in flight: none of their late
\* saves brings a cancelled run back, and no further call starts.
THEOREM CancelledStaysCancelled == Spec => CancelStartsNothing
<1> DEFINE Stays == run.status = "cancelled" =>
                      /\ run'.status = "cancelled"
                      /\ drv'.call \in {drv.call, NoCall}
                      /\ drv'.pc = "exec" => drv.pc = "exec"
<1>1. ASSUME IInv, [Next]_vars
      PROVE  [Stays]_vars
  <2> SUFFICES ASSUME run.status = "cancelled", Next
               PROVE  /\ run'.status = "cancelled"
                      /\ drv'.call \in {drv.call, NoCall}
                      /\ drv'.pc = "exec" => drv.pc = "exec"
    BY <1>1
  <2>1. drv \in Loops /\ run \in Runs /\ cancel.pc # "idle"
    BY <1>1 DEF IInv, Typed, Phases
  <2>2. CASE SetTaskPlan
    BY <2>1, <2>2 DEF SetTaskPlan, Fails, Returns, Loops
  <2>3. CASE RebindCarried
    BY <2>1, <2>3 DEF RebindCarried, Fails, Returns, Loops
  <2>4. CASE GenerateDSL
    BY <2>1, <2>4 DEF GenerateDSL, Fails, Returns, Loops
  <2>5. CASE ExecuteDSL
    <3>1. /\ run' = run
          /\ \/ drv' = [drv EXCEPT !.pc = "batch"] \/ Fails
             \/ \E n : drv' = [drv EXCEPT !.pc = "record", !.res.n = n]
      BY <2>5 DEF ExecuteDSL
    <3> QED BY <2>1, <3>1 DEF Fails, Returns, Loops
  <2>6. CASE ExecuteCreateBatch
    BY <2>1, <2>6 DEF ExecuteCreateBatch, Fails, Returns, Loops
  <2>7. CASE Explore \/ GetReport \/ PrepareFixAndRetry
    BY <2>1, <2>7 DEF Explore, GetReport, PrepareFixAndRetry, Fails, Returns, Loops
  <2>8. CASE AskUserQuestion
    BY <2>8 DEF AskUserQuestion
  <2>9. CASE RecordResult \/ StopLoop \/ ApproveRead
    BY <2>1, <2>9 DEF RecordResult, StopLoop, ApproveRead, Loops
  <2>10. CASE SaveResult
    BY <1>1, <2>10, SavedLoop
  <2>11. CASE ApproveSave
    BY <2>1, <2>11 DEF ApproveSave, Loops
  <2>12. CASE FailRun
    BY <2>1, <2>12 DEF FailRun, Loops
  <2>13. CASE ModelSteps
    BY <2>1, <2>13 DEF ModelSteps, Propose, Refuse, Complete, LoopError, LoopRuns
  <2>14. CASE CancelRun \/ CancelSteps
    BY <2>1, <2>14 DEF CancelRun, CancelSteps, CancelReadPlan, MarkBlocked, CancelContext
  <2>15. CASE \E approve \in BOOLEAN : Answer(approve)
    BY <2>15 DEF Answer
  <2>16. CASE \E b \in DOMAIN batches : FinishBatch(b)
    BY <2>16 DEF FinishBatch
  <2> QED BY <2>2, <2>3, <2>4, <2>5, <2>6, <2>7, <2>8, <2>9, <2>10, <2>11, <2>12, <2>13,
             <2>14, <2>15, <2>16 DEF Next, ToolSteps
<1> QED BY <1>1, PlanInvariance, PTL DEF Spec, CancelStartsNothing
=============================================================================
