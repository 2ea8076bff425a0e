--------------------------- MODULE TaskPlanProofs ---------------------------
(***************************************************************************)
(* What the operators of TaskPlan do to a plan, for plans of any size.     *)
(***************************************************************************)
EXTENDS TaskPlan, WellFoundedInduction, TLAPS

-----------------------------------------------------------------------------
(* Induction over the natural numbers, with a set for the property         *)

\* A set of naturals that is not empty has a smallest element.
LEMMA SmallestNat ==
    ASSUME NEW T \in SUBSET Nat, T # {}
    PROVE  \E x \in T : \A y \in T : x <= y
<1>1. PICK x \in T : \A y \in T : ~(<<y, x>> \in OpToRel(<, Nat))
  BY NatLessThanWellFounded, WFMin
<1>2. \A y \in T : y < x => <<y, x>> \in OpToRel(<, Nat)
  BY DEF OpToRel
<1>3. \A y \in T : ~(y < x)
  BY <1>1, <1>2, Zenon
<1> QED BY <1>3

\* A set that holds the first number of an interval, and the successor of each number
\* of the interval that it holds, holds the interval.
LEMMA IntervalInduction ==
    ASSUME NEW m \in Nat, NEW S, 0 \in S, \A n \in 0..(m - 1) : n \in S => n + 1 \in S
    PROVE  (0..m) \subseteq S
<1> DEFINE T == (0..m) \ S
<1> SUFFICES ASSUME T # {} PROVE FALSE OBVIOUS
<1>1. PICK x \in T : \A y \in T : x <= y
  <2>1. T \in SUBSET Nat
    OBVIOUS
  <2> HIDE DEF T
  <2> QED BY <2>1, SmallestNat
<1>2. x # 0 /\ x - 1 \in 0..(m - 1) /\ x - 1 \in S
  BY <1>1
<1> QED BY <1>1, <1>2

-----------------------------------------------------------------------------
(* expandedPlanSteps                                                       *)

\* A step as often as it occurs.
Occurrences(s) == [k \in 1..s.occurrences |-> s]

\* The loop of expandedPlanSteps, unfolded once.
Unfolded(steps, m, g) ==
    [i \in 0..m |-> IF i = 0 THEN <<>> ELSE g[i - 1] \o Occurrences(steps[i])]

\* The prefixes of the expansion, one for every number of steps.
Prefixes(steps) == CHOOSE g : g = Unfolded(steps, Len(steps), g)

\* The expansion is the last of its prefixes.
LEMMA ExpansionIsLastPrefix ==
    ASSUME NEW steps
    PROVE  ExpandedPlanSteps(steps) = Prefixes(steps)[Len(steps)]
BY Zenon DEF ExpandedPlanSteps, Prefixes, Unfolded, Occurrences

\* The loop has a result after any number of steps.
LEMMA PrefixesExist ==
    ASSUME NEW steps, NEW m \in Nat
    PROVE  \E g : g = Unfolded(steps, m, g)
<1> DEFINE S == {k \in 0..m : \E g : g = Unfolded(steps, k, g)}
<1>1. 0 \in S
  <2> DEFINE g == [i \in 0..0 |-> <<>>]
  <2>1. g = Unfolded(steps, 0, g)
    BY DEF Unfolded
  <2> QED BY <2>1
<1>2. ASSUME NEW k \in 0..(m - 1), k \in S PROVE k + 1 \in S
  <2>1. PICK g : g = Unfolded(steps, k, g)
    BY <1>2
  <2> DEFINE h == [i \in 0..(k + 1) |->
                     IF i = k + 1 THEN g[k] \o Occurrences(steps[k + 1]) ELSE g[i]]
  <2>2. \A i \in 0..k : h[i] = g[i]
    OBVIOUS
  <2>3. ASSUME NEW i \in 0..(k + 1)
        PROVE  h[i] = IF i = 0 THEN <<>> ELSE h[i - 1] \o Occurrences(steps[i])
    <3>1. CASE i = k + 1
      BY <3>1, <2>2
    <3>2. CASE i # k + 1
      <4>1. i \in 0..k /\ (i # 0 => i - 1 \in 0..k)
        BY <3>2
      <4>2. g[i] = IF i = 0 THEN <<>> ELSE g[i - 1] \o Occurrences(steps[i])
        BY <2>1, <4>1 DEF Unfolded
      <4> HIDE DEF h
      <4> QED BY <2>2, <4>1, <4>2
    <3> QED BY <3>1, <3>2
  <2>4. h = [i \in 0..(k + 1) |-> h[i]]
    OBVIOUS
  <2> HIDE DEF h
  <2>5. h = Unfolded(steps, k + 1, h)
    BY <2>3, <2>4, Zenon DEF Unfolded
  <2> QED BY <2>5
<1> HIDE DEF S
<1>3. (0..m) \subseteq S
  BY <1>1, <1>2, IntervalInduction
<1> QED BY <1>3 DEF S

\* How the prefixes grow.
LEMMA PrefixesUnfold ==
    ASSUME NEW steps, Len(steps) \in Nat
    PROVE  /\ Prefixes(steps)[0] = <<>>
           /\ \A i \in 1..Len(steps) :
                Prefixes(steps)[i] = Prefixes(steps)[i - 1] \o Occurrences(steps[i])
<1>1. Prefixes(steps) = Unfolded(steps, Len(steps), Prefixes(steps))
  BY PrefixesExist, Zenon DEF Prefixes
<1>2. \A i \in 0..Len(steps) : Prefixes(steps)[i] =
         IF i = 0 THEN <<>> ELSE Prefixes(steps)[i - 1] \o Occurrences(steps[i])
  BY <1>1 DEF Unfolded
<1>3. 0 \in 0..Len(steps) /\ \A i \in 1..Len(steps) : i \in 0..Len(steps) /\ i # 0
  OBVIOUS
<1> QED BY <1>2, <1>3, Zenon

\* What concatenation does.
LEMMA Concatenated ==
    ASSUME NEW X, NEW s \in Seq(X), NEW u \in Seq(X)
    PROVE  s \o u \in Seq(X) /\ Len(s \o u) = Len(s) + Len(u)
OBVIOUS

\* A step occurs a natural number of times.
LEMMA OccurrencesType ==
    ASSUME NEW steps \in Seq(PlanSteps)
    PROVE  \A i \in 1..Len(steps) : steps[i] \in PlanSteps /\ steps[i].occurrences \in Nat
<1>1. \A s \in PlanSteps : s.occurrences \in Nat
  BY DEF PlanSteps
<1> QED BY <1>1

\* Two plans with the same numbers of occurrences expand alike: place for place the
\* expansions hold the same step, each its own version of it.
LEMMA ExpandAlike ==
    ASSUME NEW a \in Seq(PlanSteps), NEW b \in Seq(PlanSteps), Len(a) = Len(b),
           \A i \in 1..Len(a) : b[i].occurrences = a[i].occurrences
    PROVE  /\ ExpandedPlanSteps(a) \in Seq(PlanSteps)
           /\ ExpandedPlanSteps(b) \in Seq(PlanSteps)
           /\ Len(ExpandedPlanSteps(a)) = Len(ExpandedPlanSteps(b))
           /\ \A k \in 1..Len(ExpandedPlanSteps(a)) : \E i \in 1..Len(a) :
                ExpandedPlanSteps(a)[k] = a[i] /\ ExpandedPlanSteps(b)[k] = b[i]
<1> DEFINE PA == Prefixes(a)
           PB == Prefixes(b)
           Alike(s, t) ==
               /\ s \in Seq(PlanSteps) /\ t \in Seq(PlanSteps) /\ Len(s) = Len(t)
               /\ \A k \in 1..Len(s) : \E i \in 1..Len(a) : s[k] = a[i] /\ t[k] = b[i]
           S == {n \in 0..Len(a) : Alike(PA[n], PB[n])}
<1>0. Len(a) \in Nat
  OBVIOUS
<1>1. /\ PA[0] = <<>> /\ PB[0] = <<>>
      /\ \A i \in 1..Len(a) : PA[i] = PA[i - 1] \o Occurrences(a[i])
                              /\ PB[i] = PB[i - 1] \o Occurrences(b[i])
  BY <1>0, PrefixesUnfold
<1> HIDE DEF PA, PB
<1>2. 0 \in S
  <2>1. <<>> \in Seq(PlanSteps) /\ <<>> \in Seq(PlanSteps) /\ Len(<<>>) = 0 /\ 0 \in 0..Len(a)
    BY <1>0
  <2>2. Alike(<<>>, <<>>)
    BY <2>1
  <2> HIDE DEF Alike
  <2> QED BY <1>1, <2>1, <2>2
<1>3. ASSUME NEW n \in 0..(Len(a) - 1), n \in S PROVE n + 1 \in S
  <2> DEFINE i == n + 1
             s == PA[n]
             t == PB[n]
             u == Occurrences(a[i])
             w == Occurrences(b[i])
             o == a[i].occurrences
  <2>1. i \in 1..Len(a) /\ i - 1 = n /\ a[i] \in PlanSteps /\ b[i] \in PlanSteps /\ o \in Nat
    BY <1>0, OccurrencesType
  <2>2. u \in Seq(PlanSteps) /\ w \in Seq(PlanSteps) /\ Len(u) = o /\ Len(w) = o
        /\ \A k \in 1..o : u[k] = a[i] /\ w[k] = b[i]
    <3>1. u = [k \in 1..o |-> a[i]] /\ w = [k \in 1..o |-> b[i]]
      BY <2>1 DEF Occurrences
    <3> HIDE DEF u, w, o, i
    <3>2. u \in [1..o -> PlanSteps] /\ w \in [1..o -> PlanSteps]
      BY <2>1, <3>1
    <3> QED BY <2>1, <3>1, <3>2
  <2>3. Alike(s, t)
    BY <1>3
  <2>4. PA[i] = s \o u /\ PB[i] = t \o w
    BY <1>1, <2>1
  <2> HIDE DEF i, s, t, u, w, o
  <2>5. /\ s \o u \in Seq(PlanSteps) /\ t \o w \in Seq(PlanSteps)
        /\ Len(s \o u) = Len(s) + o /\ Len(t \o w) = Len(s) + o
    <3>1. s \in Seq(PlanSteps) /\ t \in Seq(PlanSteps) /\ Len(s) = Len(t)
      BY <2>3
    <3>2. u \in Seq(PlanSteps) /\ w \in Seq(PlanSteps) /\ Len(u) = o /\ Len(w) = o
      BY <2>2
    <3>3. s \o u \in Seq(PlanSteps) /\ Len(s \o u) = Len(s) + Len(u)
      BY <3>1, <3>2, Concatenated, Zenon
    <3>4. t \o w \in Seq(PlanSteps) /\ Len(t \o w) = Len(t) + Len(w)
      BY <3>1, <3>2, Concatenated, Zenon
    <3> QED BY <3>1, <3>2, <3>3, <3>4, Zenon
  <2>6. ASSUME NEW k \in 1..Len(s \o u)
        PROVE  \E j \in 1..Len(a) : (s \o u)[k] = a[j] /\ (t \o w)[k] = b[j]
    <3>1. CASE k <= Len(s)
      <4>1. k \in 1..Len(s) /\ (s \o u)[k] = s[k] /\ (t \o w)[k] = t[k]
        BY <2>2, <2>3, <3>1
      <4> QED BY <2>3, <4>1
    <3>2. CASE k > Len(s)
      <4>1. k - Len(s) \in 1..o /\ (s \o u)[k] = u[k - Len(s)]
            /\ (t \o w)[k] = w[k - Len(s)]
        BY <2>1, <2>2, <2>3, <2>5, <3>2
      <4> QED BY <2>1, <2>2, <4>1
    <3>3. k \in Int /\ Len(s) \in Nat
      BY <2>3, <2>5
    <3>4. k <= Len(s) \/ k > Len(s)
      BY <3>3
    <3> QED BY <3>1, <3>2, <3>4, Zenon
  <2>7. Alike(PA[i], PB[i])
    BY <2>4, <2>5, <2>6
  <2> QED BY <2>1, <2>7 DEF i
<1>4. Len(a) \in S
  <2> HIDE DEF S
  <2>1. (0..Len(a)) \subseteq S
    BY <1>0, <1>2, <1>3, IntervalInduction
  <2> QED BY <1>0, <2>1
<1> QED BY <1>4, ExpansionIsLastPrefix DEF PA, PB

-----------------------------------------------------------------------------
(* What a step and a plan keep                                             *)

TaskPlans ==
    [version: Nat \ {0}, def: PlanDefinitions, gen: Nat, steps: Seq(PlanSteps),
     status: PlanStatus]

\* The fields of a step that come from its definition.
KeptFields == {"id", "intent", "action", "target", "value", "trigger", "key",
               "timeout", "occurrences", "idem", "effect", "pre", "post"}

SameStep(s, t) == \A f \in KeptFields : s[f] = t[f]

BindingOfStep(s) ==
    s.binding # NoBinding =>
        s.binding.step = s.id /\ s.binding.action = s.action /\ s.binding.target = s.target

\* A step with the binding it had, or with one made for it in a version.
StepMoves(s, t, version) ==
    /\ t \in PlanSteps /\ SameStep(s, t)
    /\ \/ t.binding = s.binding
       \/ BindingOfStep(t) /\ t.binding # NoBinding /\ t.binding.plan = version

\* A plan that is the same version of the same definition.
PlanMoves(plan, r) ==
    /\ r \in TaskPlans /\ r.version = plan.version /\ r.def = plan.def
    /\ Len(r.steps) = Len(plan.steps)
    /\ \A i \in 1..Len(plan.steps) : StepMoves(plan.steps[i], r.steps[i], plan.version)

\* The binding of no step is well typed.
LEMMA NoBindingType == NoBinding \in Bindings
<1>1. {} \in Texts
  BY DEF Texts
<1>2. "none" \in Words
  BY DEF Words
<1> QED BY <1>1, <1>2 DEF NoBinding, Bindings

\* A step with another status.
LEMMA StatusOfStep ==
    ASSUME NEW s \in PlanSteps, NEW st \in {"pending", "grounded"}
    PROVE  /\ [s EXCEPT !.status = st] \in PlanSteps
           /\ SameStep(s, [s EXCEPT !.status = st])
           /\ [s EXCEPT !.status = st].status = st
           /\ [s EXCEPT !.status = st].binding = s.binding
BY DEF PlanSteps, SameStep, KeptFields

\* A step with another status and binding.
Regrounded(s, st, b) == [s EXCEPT !.status = st, !.binding = b]

\* What grounding changes of a step: its status and its binding.
LEMMA GroundingOfStep ==
    ASSUME NEW s \in PlanSteps, NEW st \in {"pending", "grounded"}, NEW b \in Bindings
    PROVE  /\ Regrounded(s, st, b) \in PlanSteps /\ SameStep(s, Regrounded(s, st, b))
           /\ Regrounded(s, st, b).status = st /\ Regrounded(s, st, b).binding = b
BY DEF PlanSteps, SameStep, KeptFields, Regrounded

\* A step whose binding is made again for a version.
LEMMA RebindingOfStep ==
    ASSUME NEW s \in PlanSteps, NEW v \in Nat
    PROVE  LET t == [s EXCEPT !.binding.plan = v, !.binding.step = s.id]
           IN  /\ t \in PlanSteps /\ SameStep(s, t) /\ t.status = s.status
               /\ t.binding.plan = v /\ t.binding.step = s.id
               /\ t.binding.action = s.binding.action
               /\ t.binding.target = s.binding.target
BY DEF PlanSteps, SameStep, KeptFields, Bindings

\* A step keeps itself.
LEMMA StepStays == ASSUME NEW s \in PlanSteps, NEW v PROVE StepMoves(s, s, v)
BY DEF StepMoves, SameStep

\* Another status of a plan, another generation, other steps.
Updated(plan, g, st, steps) == [plan EXCEPT !.gen = g, !.status = st, !.steps = steps]

\* Update gives a plan that differs in generation, status and steps only.
LEMMA PlanUpdated ==
    ASSUME NEW plan \in TaskPlans, NEW st \in PlanStatus, NEW g \in Nat,
           NEW steps \in Seq(PlanSteps)
    PROVE  /\ Updated(plan, g, st, steps) \in TaskPlans
           /\ Updated(plan, g, st, steps).version = plan.version
           /\ Updated(plan, g, st, steps).def = plan.def
           /\ Updated(plan, g, st, steps).gen = g
           /\ Updated(plan, g, st, steps).status = st
           /\ Updated(plan, g, st, steps).steps = steps
BY DEF TaskPlans, Updated

\* The shorter updates are cases of that one.
LEMMA PlanUpdates ==
    ASSUME NEW plan \in TaskPlans, NEW st \in PlanStatus, NEW g \in Nat,
           NEW steps \in Seq(PlanSteps)
    PROVE  /\ [plan EXCEPT !.status = st] = Updated(plan, plan.gen, st, plan.steps)
           /\ [plan EXCEPT !.gen = g, !.status = st] = Updated(plan, g, st, plan.steps)
           /\ [plan EXCEPT !.steps = steps, !.status = st] =
                Updated(plan, plan.gen, st, steps)
           /\ [plan EXCEPT !.status = st, !.steps = steps] =
                Updated(plan, plan.gen, st, steps)
           /\ [plan EXCEPT !.steps = steps] =
                Updated(plan, plan.gen, plan.status, steps)
BY DEF TaskPlans, Updated

\* An update of the status, and one of the status and the generation.
LEMMA StatusUpdate ==
    ASSUME NEW plan \in TaskPlans, NEW st
    PROVE  [plan EXCEPT !.status = st] = Updated(plan, plan.gen, st, plan.steps)
BY DEF TaskPlans, Updated

\* Recording a generation leaves the steps.
LEMMA GenUpdate ==
    ASSUME NEW plan \in TaskPlans, NEW st, NEW g
    PROVE  [plan EXCEPT !.gen = g, !.status = st] = Updated(plan, g, st, plan.steps)
BY DEF TaskPlans, Updated

\* The fields of a plan.
LEMMA PlanFields ==
    ASSUME NEW plan \in TaskPlans
    PROVE  /\ plan.version \in Nat \ {0} /\ plan.gen \in Nat /\ plan.status \in PlanStatus
           /\ plan.steps \in Seq(PlanSteps) /\ DOMAIN plan.steps = 1..Len(plan.steps)
           /\ Len(plan.steps) \in Nat /\ plan.def \in PlanDefinitions
BY DEF TaskPlans

\* An update whose steps move is a move of the plan.
LEMMA UpdateMoves ==
    ASSUME NEW plan \in TaskPlans, NEW st \in PlanStatus, NEW g \in Nat,
           NEW steps, DOMAIN steps = DOMAIN plan.steps,
           steps = [i \in DOMAIN plan.steps |-> steps[i]],
           \A i \in DOMAIN plan.steps : StepMoves(plan.steps[i], steps[i], plan.version)
    PROVE  /\ steps \in Seq(PlanSteps)
           /\ PlanMoves(plan, Updated(plan, g, st, steps))
<1>1. DOMAIN plan.steps = 1..Len(plan.steps) /\ Len(plan.steps) \in Nat
  BY PlanFields
<1>2. \A i \in 1..Len(plan.steps) : steps[i] \in PlanSteps
  BY <1>1 DEF StepMoves
<1>3. steps \in [1..Len(plan.steps) -> PlanSteps]
  BY <1>1, <1>2
<1>4. steps \in Seq(PlanSteps) /\ Len(steps) = Len(plan.steps)
  BY <1>1, <1>3
<1>5. /\ Updated(plan, g, st, steps) \in TaskPlans
      /\ Updated(plan, g, st, steps).version = plan.version
      /\ Updated(plan, g, st, steps).def = plan.def
      /\ Updated(plan, g, st, steps).steps = steps
  BY <1>4, PlanUpdated
<1> QED BY <1>1, <1>4, <1>5 DEF PlanMoves

-----------------------------------------------------------------------------
(* What the service makes of a plan                                        *)

\* A normalised definition is one, and nothing in it is grounded.
LEMMA NormalizedType ==
    ASSUME NEW def \in PlanDefinitions, Ungrounded(def.steps)
    PROVE  /\ Normalized(def) \in PlanDefinitions
           /\ Ungrounded(Normalized(def).steps)
<1> DEFINE norm(s) == [s EXCEPT !.occurrences = IF @ = 0 THEN 1 ELSE @]
           steps == [i \in DOMAIN def.steps |-> norm(def.steps[i])]
<1>1. def.steps \in Seq(PlanSteps) /\ DOMAIN def.steps = 1..Len(def.steps)
  BY DEF PlanDefinitions
<1>2. ASSUME NEW s \in PlanSteps
      PROVE  norm(s) \in PlanSteps /\ norm(s).status = s.status /\ norm(s).binding = s.binding
  BY DEF PlanSteps
<1>3. Normalized(def) = [def EXCEPT !.steps = steps]
  BY DEF Normalized
<1> HIDE DEF norm
<1>4. /\ steps \in Seq(PlanSteps)
      /\ \A i \in DOMAIN steps : steps[i].status = def.steps[i].status
                                 /\ steps[i].binding = def.steps[i].binding
      /\ DOMAIN steps = DOMAIN def.steps
  BY <1>1, <1>2
<1> HIDE DEF steps
<1>5. [def EXCEPT !.steps = steps] \in PlanDefinitions /\ [def EXCEPT !.steps = steps].steps = steps
  BY <1>4 DEF PlanDefinitions
<1> QED BY <1>3, <1>4, <1>5 DEF Ungrounded

\* The steps of a new version: of the definition, each bound to itself or to nothing,
\* with no binding that a previous step did not have.
LEMMA CarriedSteps ==
    ASSUME NEW steps \in Seq(PlanSteps), NEW previous \in Seq(PlanSteps),
           Ungrounded(steps), NEW v \in Nat,
           \A j \in DOMAIN previous : BindingOfStep(previous[j]) /\ previous[j].binding.plan <= v
    PROVE  LET r == CarryForwardGrounding(steps, previous)
           IN  /\ r \in Seq(PlanSteps) /\ Len(r) = Len(steps)
               /\ \A i \in 1..Len(steps) :
                    /\ SameStep(steps[i], r[i])
                    /\ BindingOfStep(r[i]) /\ r[i].binding.plan <= v
<1> DEFINE kept(i) == {j \in DOMAIN previous : /\ previous[j].id = steps[i].id
                                               /\ previous[j].status = "grounded"
                                               /\ SameStepSemantics(previous[j], steps[i])}
           carried(i) == IF kept(i) = {} THEN steps[i]
                         ELSE [steps[i] EXCEPT
                                 !.status = "grounded",
                                 !.binding = previous[CHOOSE j \in kept(i) : TRUE].binding]
           r == CarryForwardGrounding(steps, previous)
<1>1. r = [i \in DOMAIN steps |-> carried(i)]
  BY DEF CarryForwardGrounding
<1>2. ASSUME NEW i \in DOMAIN steps
      PROVE  /\ carried(i) \in PlanSteps /\ SameStep(steps[i], carried(i))
             /\ BindingOfStep(carried(i)) /\ carried(i).binding.plan <= v
  <2>1. steps[i] \in PlanSteps
    OBVIOUS
  <2>2. CASE kept(i) = {}
    <3>1. carried(i) = steps[i]
      BY <2>2
    <3>2. steps[i].binding = NoBinding /\ NoBinding.plan <= v
      BY DEF Ungrounded, NoBinding
    <3> HIDE DEF carried
    <3> QED BY <2>1, <3>1, <3>2 DEF SameStep, BindingOfStep
  <2>3. CASE kept(i) # {}
    <3> DEFINE j == CHOOSE k \in kept(i) : TRUE
               b == previous[j].binding
    <3>1. j \in kept(i)
      BY <2>3
    <3> HIDE DEF j
    <3>2. /\ j \in DOMAIN previous /\ previous[j].id = steps[i].id
          /\ SameStepSemantics(previous[j], steps[i])
      BY <3>1
    <3>3. previous[j] \in PlanSteps
      BY <3>2
    <3>9. b \in Bindings
      BY <3>3 DEF PlanSteps
    <3>4. previous[j].action = steps[i].action /\ previous[j].target = steps[i].target
      BY <3>2 DEF SameStepSemantics
    <3>5. carried(i) = [steps[i] EXCEPT !.status = "grounded", !.binding = b]
      BY <2>3 DEF j
    <3>6. /\ b.plan <= v
          /\ b # NoBinding => /\ b.step = steps[i].id /\ b.action = steps[i].action
                              /\ b.target = steps[i].target
      BY <3>2, <3>4 DEF BindingOfStep
    <3> HIDE DEF carried, b
    <3>7. carried(i) \in PlanSteps /\ SameStep(steps[i], carried(i)) /\ carried(i).binding = b
      <4>1. [steps[i] EXCEPT !.status = "grounded", !.binding = b] =
              Regrounded(steps[i], "grounded", b)
        BY DEF Regrounded
      <4> QED BY <2>1, <3>9, <3>5, <4>1, GroundingOfStep
    <3>8. carried(i).id = steps[i].id /\ carried(i).action = steps[i].action
          /\ carried(i).target = steps[i].target
      BY <3>7 DEF SameStep, KeptFields
    <3> QED BY <3>6, <3>7, <3>8 DEF BindingOfStep
  <2> QED BY <2>2, <2>3
<1> HIDE DEF carried, r
<1>3. DOMAIN steps = 1..Len(steps) /\ Len(steps) \in Nat
  OBVIOUS
<1>4. r \in [1..Len(steps) -> PlanSteps]
  BY <1>1, <1>2, <1>3
<1>5. r \in Seq(PlanSteps) /\ Len(r) = Len(steps)
  BY <1>3, <1>4
<1> QED BY <1>1, <1>2, <1>3, <1>5 DEF r

\* What a new version is.
LEMMA NewPlanFits ==
    ASSUME NEW def \in PlanDefinitions, Ungrounded(def.steps), ValidateDefinition(def),
           NEW previous, previous = <<>> \/ previous[1] \in TaskPlans,
           NEW version \in Nat \ {0},
           previous # <<>> =>
             \A j \in DOMAIN previous[1].steps :
                /\ BindingOfStep(previous[1].steps[j])
                /\ previous[1].steps[j].binding.plan <= version
    PROVE  LET r == NewPlan(def, previous, version)
           IN  /\ r \in TaskPlans /\ r.version = version /\ r.def = def /\ r.gen = 0
               /\ r.status \in {"grounding", "ready_for_generation"}
               /\ r.status = "ready_for_generation" => AllGrounded(r.steps)
               /\ \A i \in DOMAIN r.steps :
                    /\ BindingOfStep(r.steps[i]) /\ r.steps[i].binding.plan <= version
                    /\ r.steps[i].action \in PlanActions
<1> DEFINE steps == IF previous = <<>> THEN def.steps
                    ELSE CarryForwardGrounding(def.steps, previous[1].steps)
           status == IF previous # <<>> /\ AllGrounded(steps)
                     THEN "ready_for_generation" ELSE "grounding"
           r == NewPlan(def, previous, version)
<1>1. r = [version |-> version, def |-> def, gen |-> 0, steps |-> steps, status |-> status]
  BY DEF NewPlan
<1>2. def.steps \in Seq(PlanSteps)
  BY DEF PlanDefinitions
<1>3. \A i \in DOMAIN def.steps : def.steps[i].action \in PlanActions
  BY Zenon DEF ValidateDefinition
<1>4. /\ steps \in Seq(PlanSteps) /\ Len(steps) = Len(def.steps)
      /\ \A i \in 1..Len(def.steps) :
           /\ SameStep(def.steps[i], steps[i])
           /\ BindingOfStep(steps[i]) /\ steps[i].binding.plan <= version
  <2>1. CASE previous = <<>>
    <3>1. steps = def.steps
      BY <2>1
    <3>2. \A i \in 1..Len(def.steps) : def.steps[i].binding = NoBinding
      BY <1>2 DEF Ungrounded
    <3> HIDE DEF steps
    <3> QED BY <1>2, <3>1, <3>2 DEF SameStep, BindingOfStep, NoBinding
  <2>2. CASE previous # <<>>
    <3>1. steps = CarryForwardGrounding(def.steps, previous[1].steps)
      BY <2>2
    <3>2. previous[1].steps \in Seq(PlanSteps)
      BY <2>2, PlanFields
    <3> HIDE DEF steps
    <3> QED BY <1>2, <2>2, <3>1, <3>2, CarriedSteps
  <2> QED BY <2>1, <2>2
<1>5. status \in {"grounding", "ready_for_generation"}
      /\ (status = "ready_for_generation" => AllGrounded(steps))
  OBVIOUS
<1> HIDE DEF steps, status, r
<1>6. r \in TaskPlans
  BY <1>1, <1>4, <1>5 DEF TaskPlans, PlanStatus
<1>7. \A i \in DOMAIN steps : steps[i].action \in PlanActions
                              /\ BindingOfStep(steps[i]) /\ steps[i].binding.plan <= version
  <2>1. DOMAIN steps = 1..Len(def.steps) /\ DOMAIN def.steps = 1..Len(def.steps)
    BY <1>2, <1>4
  <2> QED BY <1>3, <1>4, <2>1 DEF SameStep, KeptFields
<1> QED BY <1>1, <1>5, <1>6, <1>7 DEF r

\* What the rebinding of carried targets makes of a plan.
LEMMA RebindMoves ==
    ASSUME NEW plan \in TaskPlans, \A i \in DOMAIN plan.steps : BindingOfStep(plan.steps[i])
    PROVE  LET r == RebindCarriedTargetBindings(plan)
           IN  /\ PlanMoves(plan, r) /\ r.gen = plan.gen /\ r.status = plan.status
               /\ AllGrounded(plan.steps) => AllGrounded(r.steps)
               /\ \A i \in DOMAIN r.steps :
                    r.steps[i].binding = NoBinding \/ r.steps[i].binding.plan = plan.version
<1> DEFINE again(s) == [s EXCEPT !.binding.plan = plan.version, !.binding.step = s.id]
           step(s) == IF s.binding = NoBinding THEN s ELSE again(s)
           steps == [i \in DOMAIN plan.steps |-> step(plan.steps[i])]
           r == RebindCarriedTargetBindings(plan)
<1>1. r = [plan EXCEPT !.steps = steps]
  BY DEF RebindCarriedTargetBindings
<1>2. plan.version \in Nat \ {0} /\ plan.steps \in Seq(PlanSteps) /\ plan.gen \in Nat
      /\ DOMAIN plan.steps = 1..Len(plan.steps) /\ plan.status \in PlanStatus
  BY PlanFields
<1>3. ASSUME NEW s \in PlanSteps, BindingOfStep(s)
      PROVE  /\ StepMoves(s, step(s), plan.version) /\ step(s).status = s.status
             /\ step(s).binding = NoBinding <=> s.binding = NoBinding
             /\ step(s).binding = NoBinding \/ step(s).binding.plan = plan.version
             /\ step(s).action = s.action
  <2>1. CASE s.binding = NoBinding
    <3>1. step(s) = s
      BY <2>1
    <3> HIDE DEF step
    <3> QED BY <2>1, <3>1, StepStays
  <2>2. CASE s.binding # NoBinding
    <3>1. step(s) = again(s)
      BY <2>2
    <3>2. /\ again(s) \in PlanSteps /\ SameStep(s, again(s)) /\ again(s).status = s.status
          /\ again(s).binding.plan = plan.version /\ again(s).binding.step = s.id
          /\ again(s).binding.action = s.binding.action
          /\ again(s).binding.target = s.binding.target
      BY <1>2, RebindingOfStep
    <3> HIDE DEF step, again
    <3>3. again(s).binding # NoBinding
      BY <1>2, <3>2 DEF NoBinding
    <3>4. again(s).id = s.id /\ again(s).action = s.action /\ again(s).target = s.target
      BY <3>2 DEF SameStep, KeptFields
    <3> QED BY <1>3, <2>2, <3>1, <3>2, <3>3, <3>4 DEF StepMoves, BindingOfStep
  <2> QED BY <2>1, <2>2
<1> HIDE DEF step, r
<1>4. /\ steps = [i \in DOMAIN plan.steps |-> steps[i]] /\ DOMAIN steps = DOMAIN plan.steps
      /\ \A i \in DOMAIN plan.steps : steps[i] = step(plan.steps[i]) /\ plan.steps[i] \in PlanSteps
  BY <1>2
<1> HIDE DEF steps
<1>5. \A i \in DOMAIN plan.steps : StepMoves(plan.steps[i], steps[i], plan.version)
  BY <1>3, <1>4
<1>6. steps \in Seq(PlanSteps) /\ PlanMoves(plan, Updated(plan, plan.gen, plan.status, steps))
  BY <1>2, <1>4, <1>5, UpdateMoves
<1>7. r = Updated(plan, plan.gen, plan.status, steps)
  BY <1>1, <1>2, <1>6, PlanUpdates
<1>8. r.gen = plan.gen /\ r.status = plan.status /\ r.steps = steps
  BY <1>2, <1>6, <1>7, PlanUpdated
<1>9. AllGrounded(plan.steps) => AllGrounded(steps)
  BY <1>3, <1>4 DEF AllGrounded
<1>10. \A i \in DOMAIN steps : steps[i].binding = NoBinding \/ steps[i].binding.plan = plan.version
  BY <1>3, <1>4
<1> QED BY <1>6, <1>7, <1>8, <1>9, <1>10 DEF r

\* What a probe makes of a plan that is being grounded.
LEMMA ExplorationMoves ==
    ASSUME NEW plan \in TaskPlans, plan.status = "grounding", NEW probe, NEW result,
           result.obs \in Nat
    PROVE  LET r == RecordExploration(plan, probe, result)
           IN  /\ PlanMoves(plan, r) /\ r.gen = plan.gen
               /\ r.status \in {"grounding", "ready_for_generation"}
               /\ r.status = "ready_for_generation" => AllGrounded(r.steps)
<1> DEFINE window == ContiguousPendingSteps(plan.steps, probe.ids)
           grounded == {i \in window : \A j \in window :
                          j <= i => Groundable(plan, probe, result, j)}
           bound(s) == s.id \in BoundSteps(plan, probe, result)
           made(s) == BuildResolvedTargetBinding(plan, s, result.obs)
           step(s) == [s EXCEPT !.status = "grounded",
                                !.binding = IF bound(s) THEN made(s) ELSE @]
           steps == [i \in DOMAIN plan.steps |->
                       IF i \notin grounded THEN plan.steps[i] ELSE step(plan.steps[i])]
           status == IF AllGrounded(steps) THEN "ready_for_generation" ELSE plan.status
           r == RecordExploration(plan, probe, result)
<1>1. r = [plan EXCEPT !.steps = steps, !.status = status]
  BY Zenon DEF RecordExploration
<1>2. plan.version \in Nat \ {0} /\ plan.steps \in Seq(PlanSteps) /\ plan.gen \in Nat
      /\ DOMAIN plan.steps = 1..Len(plan.steps) /\ plan.status \in PlanStatus
  BY PlanFields
<1> HIDE DEF grounded, bound
<1>3. ASSUME NEW s \in PlanSteps PROVE StepMoves(s, step(s), plan.version)
  <2>1. s.binding \in Bindings /\ s.id \in Words /\ s.action \in Words /\ s.target \in Texts
    BY DEF PlanSteps
  <2>2. /\ made(s) \in Bindings /\ made(s).plan = plan.version /\ made(s).step = s.id
        /\ made(s).action = s.action /\ made(s).target = s.target /\ made(s) # NoBinding
    BY <1>2, <2>1 DEF BuildResolvedTargetBinding, Bindings, NoBinding
  <2> HIDE DEF made
  <2>3. CASE bound(s)
    <3>1. step(s) = Regrounded(s, "grounded", made(s))
      BY <2>3 DEF Regrounded
    <3> HIDE DEF step
    <3>2. step(s) \in PlanSteps /\ SameStep(s, step(s)) /\ step(s).binding = made(s)
      BY <2>2, <3>1, GroundingOfStep
    <3>3. step(s).id = s.id /\ step(s).action = s.action /\ step(s).target = s.target
      BY <3>2 DEF SameStep, KeptFields
    <3> QED BY <2>2, <3>2, <3>3 DEF StepMoves, BindingOfStep
  <2>4. CASE ~bound(s)
    <3>1. step(s) = Regrounded(s, "grounded", s.binding)
      BY <2>4 DEF Regrounded, PlanSteps
    <3> HIDE DEF step
    <3> QED BY <2>1, <3>1, GroundingOfStep DEF StepMoves
  <2> QED BY <2>3, <2>4
<1> HIDE DEF step, r
<1>4. /\ steps = [i \in DOMAIN plan.steps |-> steps[i]] /\ DOMAIN steps = DOMAIN plan.steps
      /\ \A i \in DOMAIN plan.steps : steps[i] \in {plan.steps[i], step(plan.steps[i])}
      /\ \A i \in DOMAIN plan.steps : plan.steps[i] \in PlanSteps
  BY <1>2
<1>5. status \in {"grounding", "ready_for_generation"} /\ status \in PlanStatus
      /\ (status = "ready_for_generation" => AllGrounded(steps))
  BY DEF PlanStatus
<1> HIDE DEF steps, status
<1>6. \A i \in DOMAIN plan.steps : StepMoves(plan.steps[i], steps[i], plan.version)
  BY <1>3, <1>4, StepStays
<1>7. steps \in Seq(PlanSteps) /\ PlanMoves(plan, Updated(plan, plan.gen, status, steps))
  BY <1>2, <1>4, <1>5, <1>6, UpdateMoves
<1>8. r = Updated(plan, plan.gen, status, steps)
  <2>1. status \in PlanStatus /\ steps \in Seq(PlanSteps)
    BY <1>5, <1>7
  <2>2. [plan EXCEPT !.steps = steps, !.status = status] = Updated(plan, plan.gen, status, steps)
    BY <2>1 DEF TaskPlans, Updated
  <2> QED BY <1>1, <2>2, Zenon
<1>9. r.gen = plan.gen /\ r.status = status /\ r.steps = steps
  BY <1>2, <1>5, <1>7, <1>8, PlanUpdated
<1> QED BY <1>5, <1>7, <1>8, <1>9 DEF r

\* Steps sent back to grounding keep their bindings.
LEMMA UngroundMoves ==
    ASSUME NEW plan \in TaskPlans, NEW st \in PlanStatus, NEW g \in Nat, NEW back
    PROVE  LET steps == [i \in DOMAIN plan.steps |->
                          IF i \in back THEN [plan.steps[i] EXCEPT !.status = "pending"]
                          ELSE plan.steps[i]]
           IN  /\ steps \in Seq(PlanSteps)
               /\ PlanMoves(plan, Updated(plan, g, st, steps))
<1> DEFINE step(s) == [s EXCEPT !.status = "pending"]
           steps == [i \in DOMAIN plan.steps |->
                       IF i \in back THEN step(plan.steps[i]) ELSE plan.steps[i]]
<1>1. plan.steps \in Seq(PlanSteps) /\ DOMAIN plan.steps = 1..Len(plan.steps)
  BY PlanFields
<1>2. ASSUME NEW s \in PlanSteps PROVE StepMoves(s, step(s), plan.version)
  BY StatusOfStep DEF StepMoves
<1> HIDE DEF step
<1>3. /\ steps = [i \in DOMAIN plan.steps |-> steps[i]] /\ DOMAIN steps = DOMAIN plan.steps
      /\ \A i \in DOMAIN plan.steps : steps[i] \in {plan.steps[i], step(plan.steps[i])}
      /\ \A i \in DOMAIN plan.steps : plan.steps[i] \in PlanSteps
  BY <1>1
<1> HIDE DEF steps
<1>4. \A i \in DOMAIN plan.steps : StepMoves(plan.steps[i], steps[i], plan.version)
  BY <1>2, <1>3, StepStays
<1>5. steps \in Seq(PlanSteps) /\ PlanMoves(plan, Updated(plan, g, st, steps))
  BY <1>3, <1>4, UpdateMoves
<1> QED BY <1>5 DEF steps, step

\* A plan with another status or generation moves.
LEMMA StatusMoves ==
    ASSUME NEW plan \in TaskPlans, NEW st \in PlanStatus, NEW g \in Nat
    PROVE  /\ PlanMoves(plan, plan)
           /\ PlanMoves(plan, Updated(plan, g, st, plan.steps))
<1>1. plan.steps \in Seq(PlanSteps) /\ DOMAIN plan.steps = 1..Len(plan.steps)
  BY PlanFields
<1>2. \A i \in DOMAIN plan.steps : StepMoves(plan.steps[i], plan.steps[i], plan.version)
  BY <1>1, StepStays
<1>3. PlanMoves(plan, plan)
  BY <1>1, <1>2 DEF PlanMoves
<1>4. plan.steps = [i \in DOMAIN plan.steps |-> plan.steps[i]]
  BY <1>1
<1> QED BY <1>2, <1>3, <1>4, UpdateMoves

-----------------------------------------------------------------------------
(* Drafts and cases                                                        *)

DraftConditions == [kind: Words, value: Texts]

DraftSteps ==
    [id: Words, action: Words, value: Texts, target: Texts, trigger: Words,
     key: Words, timeout: Int, idem: Words, effect: Words, intent: Texts,
     owned: BOOLEAN, binding: Bindings, pre: SUBSET DraftConditions,
     post: SUBSET DraftConditions]

\* A case that repeats the steps of a plan, on targets bound for these steps.
CaseRepeats(case, steps) ==
    LET planned == ExpandedPlanSteps(steps) IN
    /\ Len(case) = Len(planned)
    /\ \A i \in DOMAIN case :
        /\ \A f \in {"id", "action", "target", "value", "trigger", "key",
                     "idem", "effect"} : case[i][f] = planned[i][f]
        /\ case[i].binding # NoBinding => case[i].binding.target = planned[i].target

\* The expansion of a plan consists of its steps.
LEMMA ExpandedType ==
    ASSUME NEW steps \in Seq(PlanSteps)
    PROVE  /\ ExpandedPlanSteps(steps) \in Seq(PlanSteps)
           /\ \A k \in 1..Len(ExpandedPlanSteps(steps)) : \E i \in 1..Len(steps) :
                ExpandedPlanSteps(steps)[k] = steps[i]
BY ExpandAlike

\* A case repeats every later state of the version it repeats.
LEMMA CaseKept ==
    ASSUME NEW case \in Seq(DraftSteps), NEW a \in Seq(PlanSteps), NEW b \in Seq(PlanSteps),
           Len(b) = Len(a), \A i \in 1..Len(a) : SameStep(a[i], b[i]), CaseRepeats(case, a)
    PROVE  CaseRepeats(case, b)
<1> DEFINE A == ExpandedPlanSteps(a)
           B == ExpandedPlanSteps(b)
<1>1. \A i \in 1..Len(a) : a[i].occurrences \in Nat /\ b[i].occurrences = a[i].occurrences
  <2>1. \A i \in 1..Len(a) : a[i].occurrences \in Nat
    BY OccurrencesType
  <2> QED BY <2>1 DEF SameStep, KeptFields
<1>2. /\ Len(A) = Len(B)
      /\ \A k \in 1..Len(A) : \E i \in 1..Len(a) : A[k] = a[i] /\ B[k] = b[i]
  <2> HIDE DEF A, B
  <2>1. Len(a) = Len(b)
    OBVIOUS
  <2> QED BY <1>1, <2>1, ExpandAlike DEF A, B
<1>3. Len(case) = Len(A) /\ DOMAIN case = 1..Len(A)
  BY DEF CaseRepeats
<1> HIDE DEF A, B
<1>4. ASSUME NEW i \in DOMAIN case
      PROVE  /\ \A f \in {"id", "action", "target", "value", "trigger", "key",
                          "idem", "effect"} : case[i][f] = B[i][f]
             /\ case[i].binding # NoBinding => case[i].binding.target = B[i].target
  <2>1. SameStep(A[i], B[i])
    BY <1>2, <1>3
  <2>2. /\ \A f \in {"id", "action", "target", "value", "trigger", "key",
                     "idem", "effect"} : case[i][f] = A[i][f]
        /\ case[i].binding # NoBinding => case[i].binding.target = A[i].target
    BY DEF CaseRepeats, A
  <2>3. A[i].target = B[i].target
    BY <2>1 DEF SameStep, KeptFields
  <2>4. \A f \in {"id", "action", "target", "value", "trigger", "key", "idem", "effect"} :
          A[i][f] = B[i][f]
    BY <2>1 DEF SameStep, KeptFields
  <2> QED BY <2>2, <2>3, <2>4
<1> QED BY <1>2, <1>3, <1>4 DEF CaseRepeats, B

\* The compiler keeps what the draft repeats and writes target and binding itself.
LEMMA CompiledRepeats ==
    ASSUME NEW plan \in TaskPlans, NEW draft \in Seq(DraftSteps),
           ValidateDraftCaseSemantics(plan, draft),
           \A i \in DOMAIN plan.steps : BindingOfStep(plan.steps[i])
    PROVE  /\ CompileDraftCase(plan, draft) \in Seq(DraftSteps)
           /\ CaseRepeats(CompileDraftCase(plan, draft), plan.steps)
<1> DEFINE P == ExpandedPlanSteps(plan.steps)
           C == CompileDraftCase(plan, draft)
           step(d, s) == [d EXCEPT !.binding = s.binding, !.target = s.target]
<1>1. plan.steps \in Seq(PlanSteps) /\ DOMAIN plan.steps = 1..Len(plan.steps)
  BY PlanFields
<1>2. P \in Seq(PlanSteps) /\ \A k \in 1..Len(P) : \E i \in 1..Len(plan.steps) : P[k] = plan.steps[i]
  BY <1>1, ExpandedType
<1>3. Len(draft) = Len(P) /\ \A i \in DOMAIN draft : PlanStepSemanticChecks(draft[i], P[i])
  BY Zenon DEF ValidateDraftCaseSemantics, CompileDraftStep
<1>4. C = [i \in DOMAIN draft |-> step(draft[i], P[i])]
  BY DEF CompileDraftCase
<1> HIDE DEF P, C
<1>5. ASSUME NEW d \in DraftSteps, NEW s \in PlanSteps, PlanStepSemanticChecks(d, s),
             BindingOfStep(s)
      PROVE  /\ step(d, s) \in DraftSteps
             /\ \A f \in {"id", "action", "target", "value", "trigger", "key",
                          "idem", "effect"} : step(d, s)[f] = s[f]
             /\ step(d, s).binding # NoBinding => step(d, s).binding.target = s.target
  <2>1. s.binding \in Bindings /\ s.target \in Texts
    BY DEF PlanSteps
  <2>2. /\ step(d, s) \in DraftSteps
        /\ step(d, s).binding = s.binding /\ step(d, s).target = s.target
        /\ \A f \in {"id", "action", "value", "trigger", "key", "idem", "effect"} :
             step(d, s)[f] = d[f]
    BY <2>1 DEF DraftSteps
  <2>3. \A f \in {"id", "action", "value", "trigger", "key", "idem", "effect"} : d[f] = s[f]
    BY <1>5, Zenon DEF PlanStepSemanticChecks
  <2> HIDE DEF step
  <2> QED BY <1>5, <2>2, <2>3 DEF BindingOfStep
<1> HIDE DEF step
<1>6. DOMAIN draft = 1..Len(P) /\ \A i \in DOMAIN draft : draft[i] \in DraftSteps
  BY <1>3
<1>7. \A i \in DOMAIN draft : P[i] \in PlanSteps /\ BindingOfStep(P[i])
  <2>1. ASSUME NEW i \in DOMAIN draft PROVE P[i] \in PlanSteps /\ BindingOfStep(P[i])
    <3>1. PICK j \in 1..Len(plan.steps) : P[i] = plan.steps[j]
      BY <1>2, <1>6
    <3> QED BY <1>1, <3>1
  <2> QED BY <2>1
<1>8. \A i \in DOMAIN draft : C[i] = step(draft[i], P[i])
  BY <1>4
<1>9. \A i \in DOMAIN draft :
        /\ C[i] \in DraftSteps
        /\ \A f \in {"id", "action", "target", "value", "trigger", "key",
                     "idem", "effect"} : C[i][f] = P[i][f]
        /\ C[i].binding # NoBinding => C[i].binding.target = P[i].target
  BY <1>3, <1>5, <1>6, <1>7, <1>8
<1>10. C \in Seq(DraftSteps) /\ Len(C) = Len(P) /\ DOMAIN C = DOMAIN draft
  <2>1. DOMAIN C = 1..Len(P) /\ Len(P) \in Nat
    BY <1>2, <1>4, <1>6
  <2>2. C \in [1..Len(P) -> DraftSteps]
    BY <1>4, <1>6, <1>8, <1>9
  <2> QED BY <1>6, <2>1, <2>2
<1> QED BY <1>9, <1>10 DEF CaseRepeats, C, P
=============================================================================
