------------------------------ MODULE TaskPlan ------------------------------
(* The task plan as a value: what a plan definition must satisfy, which      *)
(* probes a plan admits, which steps a probe grounds, and which DSL drafts   *)
(* preserve the plan (taskplan/service.go, compiler.go and condition.go).    *)
(*                                                                           *)
(* A text is the set of its words, so that strings.Contains is inclusion and *)
(* normalize (case and blanks) is nothing; a condition, whose word order     *)
(* matters, is the sequence of its words. A hash is the value it is taken    *)
(* of. A definition has the fields effect (the cap max_side_effect),         *)
(* forbidden (a set of texts) and steps; a plan adds version, status, gen    *)
(* (the bound generation, 0 for none). A step of a definition is written as  *)
(* the step it becomes: pending and without a target binding.                *)
EXTENDS Integers, Sequences, FiniteSets

PlanStatus == {"grounding", "ready_for_generation", "awaiting_approval",
               "approved", "executing", "completed", "failed", "blocked",
               "superseded"}

PlanActions == {"goto", "click", "input", "wait_for", "assert_text",
                "assert_url_contains", "capture_text"}

SideEffectRank ==
    [none |-> 0, browser_state |-> 1, external_state |-> 2, unknown |-> 3]

NoBinding == [plan |-> 0, step |-> "none", action |-> "none", target |-> {}, obs |-> 0]

\* The types of the plan's rows. Words are the strings, the literals of the model
\* spelled out. A step of a definition is a step of a plan that nothing has grounded.
Words ==
    STRING \cup {"none", "done", "other", "evidence", "reworded", "running",
                 "wait", "manual", "manual_reconcile", "re_explore", "regenerate_dsl",
                 "url_contains", "url_changes", "page_fact", "text_visible",
                 "text_gone", "free_text"}

Texts == SUBSET Words

Bindings == [plan: Nat, step: Words, action: Words, target: Texts, obs: Nat]

PlanSteps ==
    [id: Words, intent: Texts, action: Words, target: Texts, value: Texts,
     trigger: Words, key: Words, timeout: Int, occurrences: Nat, idem: Words,
     effect: Words, pre: SUBSET Seq(Words), post: SUBSET Seq(Words),
     status: {"pending", "grounded"}, binding: Bindings]

PlanDefinitions == [effect: Words, forbidden: SUBSET Texts, steps: Seq(PlanSteps)]

Ungrounded(steps) ==
    \A i \in DOMAIN steps : steps[i].status = "pending" /\ steps[i].binding = NoBinding

Contains(text, part) == part \subseteq text

Forbidden(rules, text) == \E rule \in rules : Contains(text, rule)

-----------------------------------------------------------------------------
(* Definitions.                                                              *)

\* What each action asks of the parameters of its step.
ValidateActionParameters(s) ==
    LET needs(target, value, idem, effect) ==
            /\ target => s.target # {}
            /\ value => s.value # {}
            /\ s.idem \in idem /\ s.effect \in effect
        once == {"idempotent"}
    IN  /\ s.timeout >= 0
        /\ s.action = "goto" => needs(FALSE, TRUE, once, {"browser_state"})
        /\ s.action = "click" => s.target # {}
        /\ s.action = "input" => /\ needs(TRUE, FALSE, once, {"browser_state"})
                                 /\ s.trigger \in {"", "Enter", "Tab"}
        /\ s.action = "wait_for" => needs(TRUE, FALSE, once, {"none"})
        /\ s.action \in {"assert_text", "assert_url_contains"} =>
                needs(TRUE, TRUE, once, {"none"})
        /\ s.action = "capture_text" =>
                /\ needs(TRUE, FALSE, once, {"none"})
                /\ s.key # ""

\* The occurrences default to one; ids that are no identifiers are "".
Normalized(def) ==
    [def EXCEPT !.steps = [i \in DOMAIN def.steps |->
        [def.steps[i] EXCEPT !.occurrences = IF @ = 0 THEN 1 ELSE @]]]

\* The definition is valid as normalised.
ValidateDefinition(def) ==
    /\ def.effect \in DOMAIN SideEffectRank
    /\ def.steps # <<>>
    /\ {} \notin def.forbidden
    /\ \A i, j \in DOMAIN def.steps :
            def.steps[i].id = def.steps[j].id => i = j
    /\ \A i \in DOMAIN def.steps :
        LET s == def.steps[i] IN
        /\ s.id # "" /\ s.intent # {}
        /\ s.action \in PlanActions
        /\ s.effect \in DOMAIN SideEffectRank
        /\ SideEffectRank[s.effect] <= SideEffectRank[def.effect]
        /\ s.occurrences >= 1
        /\ s.idem \in {"idempotent", "non_idempotent"}
        /\ ValidateActionParameters(s)
        /\ ~Forbidden(def.forbidden, {s.action} \cup s.target \cup s.intent)

-----------------------------------------------------------------------------
(* A revision.                                                               *)

RequiresTargetBinding(action) == action \in {"click", "input", "capture_text"}

AllGrounded(steps) ==
    \A i \in DOMAIN steps :
        /\ steps[i].status = "grounded"
        /\ RequiresTargetBinding(steps[i].action) => steps[i].binding # NoBinding

\* The intent is left out: rewording it keeps the binding.
SameStepSemantics(a, b) ==
    \A f \in {"action", "target", "value", "trigger", "key", "timeout",
              "occurrences", "idem", "effect", "pre", "post"} : a[f] = b[f]

\* The steps of a new version with the grounding of the steps it keeps. The
\* bindings still name the version they were made for.
CarryForwardGrounding(steps, previous) ==
    [i \in DOMAIN steps |->
        LET kept == {j \in DOMAIN previous :
                        /\ previous[j].id = steps[i].id
                        /\ previous[j].status = "grounded"
                        /\ SameStepSemantics(previous[j], steps[i])}
        IN  IF kept = {} THEN steps[i]
            ELSE [steps[i] EXCEPT
                    !.status = "grounded",
                    !.binding = previous[CHOOSE j \in kept : TRUE].binding]]

RebindNothing(plan) == plan

\* Every carried binding is made again for the version that was created.
RebindCarriedTargetBindings(plan) ==
    [plan EXCEPT !.steps = [i \in DOMAIN plan.steps |->
        IF plan.steps[i].binding = NoBinding THEN plan.steps[i]
        ELSE [plan.steps[i] EXCEPT !.binding.plan = plan.version,
                                   !.binding.step = plan.steps[i].id]]]

NewPlanKeepsVersion(def, previous, version) ==
    [version |-> IF previous = <<>> THEN 1 ELSE previous[1].version, def |-> def,
     gen |-> 0, steps |-> def.steps, status |-> "grounding"]

\* The first version, or the next one after the current plan.
NewPlan(def, previous, version) ==
    LET steps == IF previous = <<>> THEN def.steps
                 ELSE CarryForwardGrounding(def.steps, previous[1].steps)
    IN  [version |-> version, def |-> def, gen |-> 0, steps |-> steps,
         status |-> IF previous # <<>> /\ AllGrounded(steps)
                    THEN "ready_for_generation" ELSE "grounding"]

-----------------------------------------------------------------------------
(* Probes. A probe has a tool, the ids of the plan steps it is for and, for  *)
(* explore_flow, the actions it performs: the step an action is for ("" for  *)
(* none), the action, its value, the text of its group and the candidate it  *)
(* refers to (id "" when it has a locator).                                  *)

StepIndex(steps, id) == {i \in DOMAIN steps : steps[i].id = id}

FirstPending(steps) ==
    LET pending == {i \in DOMAIN steps : steps[i].status # "grounded"}
    IN  {i \in pending : \A j \in pending : i <= j}

\* The positions of the submitted window, {} when it is refused: the ids must
\* be the steps that follow each other from the first one not grounded.
ContiguousPendingSteps(steps, ids) ==
    {first + k - 1 : first \in {f \in FirstPending(steps) :
                        /\ f + Len(ids) - 1 <= Len(steps)
                        /\ \A n \in DOMAIN ids : steps[f + n - 1].id = ids[n]},
                     k \in DOMAIN ids}

ProbeActionMatches(planned, actual) ==
    \/ planned = actual
    \/ /\ actual = "wait_for"
       /\ RequiresTargetBinding(planned) \/ planned \in
            {"assert_text", "assert_url_contains", "capture_text"}

ProbeValueMatches(s, action, value) ==
    \/ action = "wait_for" /\ s.action # "wait_for"
    \/ s.value = {} \/ s.value = value

\* The step an action may act for, under the plan and the window.
ActionAllowed(plan, window, act) ==
    /\ ~Forbidden(plan.def.forbidden, {act.action} \cup act.value \cup act.text)
    /\ act.ref.id # "" => act.step # ""
    /\ IF act.step = "" THEN act.action = "wait_for"
       ELSE \E i \in StepIndex(plan.steps, act.step) :
            LET s == plan.steps[i] IN
            /\ ProbeActionMatches(s.action, act.action)
            /\ \/ act.action = "click" /\ act.ref.id # ""
               \/ ProbeValueMatches(s, act.action, act.value)
            /\ act.action = "wait_for"
                    \/ s.effect \notin {"external_state", "unknown"}
            /\ s.status = "grounded" \/ i \in window

\* The step an action grounds: none when it repeats a grounded step.
Owner(plan, act) ==
    IF \E i \in StepIndex(plan.steps, act.step) :
            plan.steps[i].status # "grounded"
    THEN act.step ELSE ""

AuthorizeExploration(plan, probe) ==
    LET window == ContiguousPendingSteps(plan.steps, probe.ids) IN
    /\ plan.status = "grounding"
    /\ window # {}
    /\ probe.tool = "explore_flow" =>
            \A n \in DOMAIN probe.acts :
                ActionAllowed(plan, window, probe.acts[n])

\* What the control plane asks of the candidates a flow refers to before the
\* worker sees them: one candidate per step, as often as the step occurs.
AuthorizeResolvedCandidates(plan, acts) ==
    LET refs == {n \in DOMAIN acts : acts[n].ref.id # ""} IN
    refs # {} =>
        /\ plan.status = "grounding"
        /\ \A n \in refs :
            /\ \E i \in StepIndex(plan.steps, acts[n].step) :
                /\ ProbeActionMatches(plan.steps[i].action, acts[n].action)
                /\ Cardinality({m \in refs : acts[m].step = acts[n].step}) =
                        plan.steps[i].occurrences
            /\ ~Forbidden(plan.def.forbidden, acts[n].ref.text)
            /\ \A m \in refs : acts[m].step = acts[n].step =>
                                    acts[m].ref = acts[n].ref

-----------------------------------------------------------------------------
(* What a probe grounds. The result of a probe has the id of its             *)
(* observation and the texts it observed,                                    *)
(* for a flow the actions that succeeded and those of them whose target the  *)
(* worker resolved, for a page the elements of its observation.              *)

ResultContainsStepEvidence(evidence, s) ==
    \/ \E text \in {s.target, s.value} \ {{}} : Contains(evidence, text)
    \/ s.action = "goto" /\ Contains(evidence, s.intent)

SuccessfulFlowActions(plan, probe, result) ==
    {Owner(plan, probe.acts[n]) : n \in result.succeeded} \ {""}

BuildResolvedTargetBinding(plan, s, obs) ==
    [plan |-> plan.version, step |-> s.id, action |-> s.action,
     target |-> s.target, obs |-> obs]

\* The steps for which a flow returned a resolved target; a binding needs the
\* target text of its step.
DeriveTargetBindings(plan, probe, result) ==
    {s.id : s \in {t \in {plan.steps[i] : i \in DOMAIN plan.steps} :
        /\ t.target # {}
        /\ \E n \in result.resolved \cap result.succeeded :
                Owner(plan, probe.acts[n]) = t.id}}

SemanticTargetMatches(planned, actual) ==
    planned # {} /\ actual # {}
        /\ (Contains(planned, actual) \/ Contains(actual, planned))

\* The elements of a page that may carry the step: usable, editable for an
\* input, with a locator that matches once, and named by the target.
MatchingElements(s, elements) ==
    {e \in elements :
        /\ e.usable /\ e.unique
        /\ s.action = "input" => e.editable
        /\ SemanticTargetMatches(s.target, e.text)}

DerivePageTargetBindings(window, steps, elements) ==
    {steps[i].id : i \in {j \in window :
        Cardinality(MatchingElements(steps[j], elements)) = 1}}

\* The steps of the window that the result binds.
BoundSteps(plan, probe, result) ==
    IF probe.tool = "explore_flow" THEN DeriveTargetBindings(plan, probe, result)
    ELSE DerivePageTargetBindings(ContiguousPendingSteps(plan.steps, probe.ids),
                                  plan.steps, result.elements)

\* A step of the window that the result grounds.
Groundable(plan, probe, result, i) ==
    LET s == plan.steps[i]
        flow == probe.tool = "explore_flow"
        acted == flow /\ s.id \in SuccessfulFlowActions(plan, probe, result)
    IN  /\ flow /\ s.action \in {"click", "input"} => acted
        /\ acted \/ ResultContainsStepEvidence(result.evidence, s)
        /\ RequiresTargetBinding(s.action) =>
                s.id \in BoundSteps(plan, probe, result)

\* RecordToolResult for a probe: the window is grounded up to the first step
\* the result does not support, and the plan is ready when nothing is left.
RecordExploration(plan, probe, result) ==
    LET window == ContiguousPendingSteps(plan.steps, probe.ids)
        grounded == {i \in window : \A j \in window :
                        j <= i => Groundable(plan, probe, result, j)}
        steps == [i \in DOMAIN plan.steps |->
                    IF i \notin grounded THEN plan.steps[i]
                    ELSE [plan.steps[i] EXCEPT
                            !.status = "grounded",
                            !.binding = IF plan.steps[i].id \in BoundSteps(plan, probe, result)
                                        THEN BuildResolvedTargetBinding(plan, plan.steps[i], result.obs)
                                        ELSE @]]
    IN  [plan EXCEPT !.steps = steps,
                     !.status = IF AllGrounded(steps)
                                THEN "ready_for_generation" ELSE @]

-----------------------------------------------------------------------------
(* Conditions: sequences of words.                                           *)

EndsWith(words, tail) ==
    /\ Len(words) > Len(tail)
    /\ SubSeq(words, Len(words) - Len(tail) + 1, Len(words)) = tail

\* The patterns in the order in which they are tried.
ParseConditionIntent(words) ==
    LET last == IF words = <<>> THEN "none" ELSE words[Len(words)]
        verbs == {"load", "loads", "loaded", "ready", "appears"}
        url == Len(words) > 1 /\ words[1] = "url"
    IN  IF url /\ Len(words) > 2 /\ words[2] = "contains"
        THEN [kind |-> "url_contains", value |-> {words[i] : i \in 3..Len(words)}]
        ELSE [value |-> {},
              kind  |->
                IF url /\ Len(words) = 2 /\ words[2] \in {"change", "changes"} THEN "url_changes"
                ELSE IF last \in verbs /\ Len(words) > 1 /\ words[Len(words) - 1] = "page"
                     THEN "page_fact"
                ELSE IF EndsWith(words, <<"visible">>) THEN "text_visible"
                ELSE IF EndsWith(words, <<"gone">>) \/ EndsWith(words, <<"not", "visible">>)
                     THEN "text_gone"
                ELSE "free_text"]

\* A DSL condition is structured: a kind and, for a URL, the words of it.
DslConditionIntent(condition) ==
    CASE condition.kind \in {"text_visible", "text_gone", "url_changes"} ->
            [kind |-> condition.kind, value |-> {}]
      [] condition.kind = "url_contains" -> condition
      [] condition.kind \in {"dom_changed", "value_changed", "network_request"} ->
            [kind |-> "page_fact", value |-> {}]
      [] OTHER -> [kind |-> "free_text", value |-> {}]

MatchesIntent(dsl, planned) ==
    CASE planned.kind = "free_text" -> TRUE
      [] planned.kind = "page_fact" ->
            dsl.kind \in {"page_fact", "url_changes", "url_contains"}
      [] planned.kind = "url_contains" ->
            /\ dsl.kind = planned.kind /\ planned.value # {}
            /\ Contains(dsl.value, planned.value) \/ Contains(planned.value, dsl.value)
      [] OTHER -> dsl.kind = planned.kind

\* One direction (before or after the step) keeps its planned conditions.
ConditionsKept(planned, written) ==
    /\ planned # {} => written # {}
    /\ \A words \in planned : LET intent == ParseConditionIntent(words) IN
        intent.kind = "free_text"
            \/ \E c \in written : MatchesIntent(DslConditionIntent(c), intent)

ValidateConditionPreservation(draft, s) ==
    ConditionsKept(s.pre, draft.pre) /\ ConditionsKept(s.post, draft.post)

-----------------------------------------------------------------------------
(* Drafts and compiled cases.                                                *)

ExpandedPlanSteps(steps) ==
    LET RepeatedTo[i \in 0..Len(steps)] ==
            IF i = 0 THEN <<>>
            ELSE RepeatedTo[i - 1] \o [k \in 1..steps[i].occurrences |-> steps[i]]
    IN  RepeatedTo[Len(steps)]

ChecksNoValue(draft, s) ==
    /\ draft.id = s.id
    /\ \A f \in {"action", "trigger", "key", "idem", "effect"} : draft[f] = s[f]

\* The fields a step of the DSL must repeat; a timeout only if it is set.
PlanStepSemanticChecks(draft, s) ==
    /\ draft.id = s.id
    /\ \A f \in {"action", "value", "trigger", "key", "idem", "effect"} :
            draft[f] = s[f]
    /\ s.timeout > 0 => draft.timeout = s.timeout

\* A draft step names its binding and carries nothing the compiler owns.
CompileDraftStep(draft, s) ==
    /\ PlanStepSemanticChecks(draft, s)
    /\ draft.intent # {}
    /\ ~draft.owned
    /\ IF RequiresTargetBinding(s.action)
       THEN s.binding # NoBinding /\ draft.binding = s.binding
       ELSE draft.binding \in {NoBinding, s.binding} \/ s.binding = NoBinding
    /\ ValidateConditionPreservation(draft, s)

ValidateDraftCaseSemantics(plan, draft) ==
    LET planned == ExpandedPlanSteps(plan.steps) IN
    /\ Len(draft) = Len(planned)
    /\ \A i \in DOMAIN draft : CompileDraftStep(draft[i], planned[i])

\* The compiler writes the target and the binding of the plan into the case.
CompileDraftCase(plan, draft) ==
    LET planned == ExpandedPlanSteps(plan.steps) IN
    [i \in DOMAIN draft |->
        [draft[i] EXCEPT !.binding = planned[i].binding,
                         !.target = planned[i].target]]

\* A compiled case, asked again before it is executed.
ValidateCompiledCaseSemantics(plan, case) ==
    LET planned == ExpandedPlanSteps(plan.steps) IN
    /\ Len(case) = Len(planned)
    /\ \A i \in DOMAIN case :
        /\ PlanStepSemanticChecks(case[i], planned[i])
        /\ case[i].target = planned[i].target
        /\ case[i].intent # {}
        /\ ValidateConditionPreservation(case[i], planned[i])
        /\ RequiresTargetBinding(planned[i].action) =>
                /\ planned[i].binding # NoBinding
                /\ case[i].binding = planned[i].binding
=============================================================================
