-------------------------- MODULE TrajectoryProofs --------------------------
(***************************************************************************)
(* Proofs about Trajectory for logs of any length.  The places of the      *)
(* units are numbers in which the digits of an event, a job, an attempt    *)
(* and a step are put side by side: the theorems on the order hold as long *)
(* as the digits suffice (PlacesFit), which projector.go does not check.   *)
(* The theorems on the cost, the metrics and the stability of the places   *)
(* need no such bound: they rest on LogInv, what a log can look like when  *)
(* the loop stopped at any point.                                          *)
(***************************************************************************)
EXTENDS Trajectory, FiniteSetTheorems, WellFoundedInduction, TLAPS

\* The jobs, attempts and steps that fit the places projector.go gives them.
PlacesFit == Jobs \subseteq 0..99 /\ MaxRetries <= 9 /\ Steps \subseteq 0..998

-----------------------------------------------------------------------------
(* Lemmas about the operators                                              *)

\* The bounds are natural numbers.
LEMMA BoundFacts ==
    /\ MaxModelCalls \in Nat /\ MaxAttempts \in Nat /\ MaxToolCalls \in Nat /\ MaxRetries \in Nat
    /\ 0 \in 0..MaxModelCalls /\ 0 \in 0..MaxAttempts /\ 0 \in 0..MaxToolCalls /\ 0 \in 0..MaxRetries
    /\ ToolIds \subseteq 0..MaxToolCalls
<1>1. MaxModelCalls \in Nat /\ MaxAttempts \in Nat /\ MaxToolCalls \in Nat /\ MaxRetries \in Nat
  BY TrajectoryAssumption
<1> QED BY <1>1 DEF ToolIds

\* Least returns the smallest member of a set of numbers that has one.
LEMMA LeastIn ==
    ASSUME NEW S, S \subseteq Nat, S # {}
    PROVE  Least(S) \in S /\ \A j \in S : Least(S) <= j
<1>1. PICK x \in S : \A y \in S : ~(<<y, x>> \in OpToRel(<, Nat))
  BY WFMin, NatLessThanWellFounded
<1>2. \A y \in S : x <= y
  <2> SUFFICES ASSUME NEW y \in S, ~(x <= y) PROVE FALSE OBVIOUS
  <2>1. x \in Nat /\ y \in Nat /\ y < x
    OBVIOUS
  <2>2. <<y, x>> \in Nat \X Nat /\ <<y, x>>[1] < <<y, x>>[2]
    BY <2>1
  <2>3. <<y, x>> \in OpToRel(<, Nat)
    BY <2>2 DEF OpToRel
  <2> QED BY <1>1, <2>3
<1>3. \E i \in S : \A j \in S : i <= j
  BY <1>2
<1>4. LET i == CHOOSE i \in S : \A j \in S : i <= j IN i \in S /\ \A j \in S : i <= j
  BY <1>3
<1> QED BY <1>4 DEF Least

\* Every unit of the agent is placed at an event of the log.
LEMMA AgentUnitPlaced ==
    ASSUME TypeOK, NEW u \in projectAgentUnits(log)
    PROVE  \E i \in DOMAIN log : u.order = i * SeqUnit
<1>1. DOMAIN log \subseteq Nat
  BY DEF TypeOK
<1>2. CASE \E c \in ToolCalls(log) : u = projectToolCall(log, c)
  <2>1. PICK c \in ToolCalls(log) : u = projectToolCall(log, c)
    BY <1>2
  <2> DEFINE S == ToolEvents(log, c) \cup EventsLinked(log, c)
  <2>2. S # {} /\ S \subseteq DOMAIN log
    BY <2>1 DEF ToolCalls, ToolEvents, EventsLinked, EventsOfModel, LlmEvents
  <2>3. FirstSeq(log, c) = Least(S) /\ S \subseteq Nat
    BY <1>1, <2>2 DEF FirstSeq
  <2> HIDE DEF S
  <2>4. FirstSeq(log, c) \in DOMAIN log
    BY <2>2, <2>3, LeastIn
  <2>5. u.order = FirstSeq(log, c) * SeqUnit
    BY <2>1 DEF projectToolCall, Unit
  <2> QED BY <2>4, <2>5
<1>3. CASE \E m \in Standalone(log) : u = projectStandaloneModelCall(log, m)
  <2>1. PICK m \in Standalone(log) : u = projectStandaloneModelCall(log, m)
    BY <1>3
  <2>2. EventsOfModel(log, m) # {} /\ EventsOfModel(log, m) \subseteq DOMAIN log
    BY <2>1 DEF Standalone, ModelCalls, EventsOfModel, LlmEvents
  <2>3. Least(EventsOfModel(log, m)) \in DOMAIN log
    BY <1>1, <2>2, LeastIn
  <2>4. u.order = Least(EventsOfModel(log, m)) * SeqUnit
    BY <2>1 DEF projectStandaloneModelCall, Unit
  <2> QED BY <2>3, <2>4
<1>4. CASE \E i \in Unknown(log) : u = projectUnknownEvent(i)
  <2>1. PICK i \in Unknown(log) : u = projectUnknownEvent(i)
    BY <1>4
  <2>2. i \in DOMAIN log /\ u.order = i * SeqUnit
    BY <2>1 DEF Unknown, projectUnknownEvent, Unit
  <2> QED BY <2>2
<1> QED BY <1>2, <1>3, <1>4 DEF projectAgentUnits

\* Every step of a report is placed right after the event of its batch.
LEMMA StepUnitPlaced ==
    ASSUME TypeOK, PlacesFit, NEW u \in projectExecutionUnits(log, reports)
    PROVE  LET a == Least(Anchors(log)) IN
           /\ a \in Anchors(log) /\ a \in Nat /\ a <= Len(log)
           /\ \E j \in 0..99, n \in 1..9, s \in 0..998 :
                 u = projectExecutionStep(a, j, n, s)
<1> DEFINE a == Least(Anchors(log))
<1>1. PICK x \in Jobs \X (1..MaxRetries) \X Steps :
         Anchors(log) # {} /\ u = projectExecutionStep(a, x[1], x[2], x[3])
  BY DEF projectExecutionUnits
<1>2. Anchors(log) \subseteq Nat /\ Anchors(log) \subseteq 1..Len(log)
  BY DEF Anchors, TypeOK
<1>3. a \in Anchors(log)
  BY <1>1, <1>2, LeastIn
<1>4. a \in Nat /\ a <= Len(log)
  BY <1>2, <1>3
<1>5. x[1] \in Jobs /\ x[2] \in 1..MaxRetries /\ x[3] \in Steps
  BY <1>1
<1>6. x[1] \in 0..99 /\ x[2] \in 1..9 /\ x[3] \in 0..998
  <2>1. Jobs \subseteq 0..99 /\ MaxRetries <= 9 /\ Steps \subseteq 0..998 /\ MaxRetries \in Nat
    BY BoundFacts DEF PlacesFit
  <2>2. x[2] \in 1..9
    BY <1>5, <2>1
  <2>3. \A j \in Jobs : j \in 0..99
    BY <2>1
  <2>4. \A t \in Steps : t \in 0..998
    BY <2>1
  <2>5. x[1] \in 0..99
    BY <1>5, <2>3
  <2>6. x[3] \in 0..998
    BY <1>5, <2>4
  <2> QED BY <2>2, <2>5, <2>6
<1> QED BY <1>1, <1>3, <1>4, <1>6

-----------------------------------------------------------------------------
(* Type correctness                                                        *)

Turns == [model : 0..MaxModelCalls, attempt : 0..MaxAttempts, last : 0..MaxAttempts,
          ok : BOOLEAN, calls : Seq(ToolIds), call : 0..MaxToolCalls]

\* A trace is an event.
LEMMA TraceEvent == Trace \in Events
BY BoundFacts DEF Trace, Events, KnownTypes

\* The events of a tool and of a run are events.
LEMMA ToolEvent ==
    ASSUME NEW type \in KnownTypes, NEW c \in 0..MaxToolCalls
    PROVE  Tool(type, c) \in Events /\ RunEvent(type) \in Events
<1>1. Trace \in Events
  BY TraceEvent
<1> HIDE DEF Trace
<1> QED BY <1>1 DEF Tool, RunEvent, Events

\* So is the empty turn a turn.
LEMMA NoTurnType == NoTurn \in Turns
BY BoundFacts DEF NoTurn, Turns

\* The model calls of a log can be counted.
LEMMA ModelCallsCount ==
    ASSUME TypeOK
    PROVE  Cardinality(ModelCalls(log)) \in Nat
<1>1. ModelCalls(log) \subseteq 0..MaxModelCalls
  <2>1. \A i \in DOMAIN log : log[i] \in Events
    BY DEF TypeOK
  <2> QED BY <2>1 DEF ModelCalls, LlmEvents, Events
<1>2. IsFiniteSet(0..MaxModelCalls)
  BY FS_Interval, BoundFacts
<1>3. IsFiniteSet(ModelCalls(log))
  BY <1>1, <1>2, FS_Subset
<1> QED BY <1>3, FS_CardinalityType

\* Writing events keeps the log well typed.
LEMMA WriteKeeps ==
    ASSUME TypeOK, NEW events \in Seq(Events), Write(events)
    PROVE  log' \in Seq(Events)
BY DEF TypeOK, Write

\* A list of one event.
LEMMA OneEvent ==
    ASSUME NEW e \in Events
    PROVE  <<e>> \in Seq(Events)
OBVIOUS

\* Every action of the loop keeps the types.
LEMMA NextKeepsType == TypeOK /\ [Next]_vars => TypeOK'
<1> SUFFICES ASSUME TypeOK, [Next]_vars PROVE TypeOK' OBVIOUS
<1> USE DEF Turns
<1>1. /\ log \in Seq(Events) /\ turn \in Turns /\ reports \in [Jobs -> 0..MaxRetries]
      /\ status \in {"running", "waiting_user", "completed", "failed"}
  BY DEF TypeOK
<1>2. /\ turn.model \in 0..MaxModelCalls /\ turn.attempt \in 0..MaxAttempts
      /\ turn.last \in 0..MaxAttempts /\ turn.calls \in Seq(ToolIds) /\ turn.call \in 0..MaxToolCalls
      /\ turn.ok \in BOOLEAN
  BY <1>1
<1> SUFFICES /\ log' \in Seq(Events) /\ turn' \in Turns /\ reports' \in [Jobs -> 0..MaxRetries]
             /\ status' \in {"running", "waiting_user", "completed", "failed"}
  BY DEF TypeOK
<1>3. ASSUME NEW n \in 1..MaxAttempts, NEW ok \in BOOLEAN, NEW calls \in CallSequences,
             ModelAnswers(n, ok, calls)
      PROVE  turn' \in Turns /\ UNCHANGED <<log, status, reports>>
  <2> DEFINE m == Cardinality(ModelCalls(log)) + 1
  <2>1. m \in 0..MaxModelCalls
    BY <1>3, ModelCallsCount, BoundFacts DEF ModelAnswers
  <2> HIDE DEF m
  <2>2. calls \in Seq(ToolIds)
    <3>1. CASE calls = << >>
      BY <3>1
    <3>2. CASE \E c \in ToolIds : calls = <<c>>
      BY <3>2
    <3>3. CASE \E c, d \in ToolIds : calls = <<c, d>>
      BY <3>3
    <3> QED BY <3>1, <3>2, <3>3 DEF CallSequences
  <2>3. n \in 0..MaxAttempts
    BY BoundFacts
  <2>4. turn' = [NoTurn EXCEPT !.model = m, !.last = n, !.ok = ok, !.calls = calls]
    BY <1>3 DEF ModelAnswers, m
  <2>5. turn' \in Turns
    <3> HIDE DEF NoTurn
    <3> QED BY <2>1, <2>2, <2>3, <2>4, NoTurnType
  <2> QED BY <1>3, <2>5 DEF ModelAnswers
<1>4. CASE RecordAttempt
  <2> DEFINE good == turn.ok /\ turn.attempt + 1 = turn.last
             calls == IF good THEN {turn.calls[i] : i \in DOMAIN turn.calls} ELSE {}
             e == Llm(turn.model, AttemptNumber(turn), good, calls)
             t == turn.attempt + 1
  <2>1. t \in 0..MaxAttempts /\ AttemptNumber(turn) = t
    BY <1>2, <1>4, BoundFacts DEF RecordAttempt, AttemptNumber
  <2>2. good \in BOOLEAN
    OBVIOUS
  <2>3. calls \in SUBSET ToolIds
    BY <1>2
  <2> HIDE DEF good, calls, t
  <2>4. e \in Events
    BY <1>2, <2>1, <2>2, <2>3, BoundFacts DEF Llm, Events, KnownTypes
  <2>5. <<e, Trace>> \in Seq(Events)
    <3> HIDE DEF e, Trace
    <3> QED BY <2>4, TraceEvent
  <2>6. Write(<<e, Trace>>) /\ turn' = [turn EXCEPT !.attempt = t] /\ UNCHANGED <<status, reports>>
    BY <1>4 DEF RecordAttempt, good, calls, t
  <2>7. turn' \in Turns
    BY <1>1, <2>1, <2>6
  <2> QED BY <1>1, <2>5, <2>6, <2>7, WriteKeeps
<1>5. CASE StartTool
  <2> DEFINE h == Head(turn.calls)
             r == Tail(turn.calls)
  <2>1. h \in ToolIds /\ r \in Seq(ToolIds)
    BY <1>2, <1>5 DEF StartTool
  <2>2. Tool("tool.started", h) \in Events
    BY <2>1, ToolEvent, BoundFacts DEF KnownTypes, ToolTypes
  <2>3. /\ Write(<<Tool("tool.started", h)>>) /\ UNCHANGED <<status, reports>>
        /\ turn' = [turn EXCEPT !.call = h, !.calls = r]
    BY <1>5 DEF StartTool
  <2>4. h \in 0..MaxToolCalls
    BY <2>1, BoundFacts
  <2> HIDE DEF h, r
  <2>5. turn' \in Turns
    BY <1>1, <2>1, <2>3, <2>4
  <2>6. log' \in Seq(Events)
    BY <2>2, <2>3, OneEvent, WriteKeeps
  <2> QED BY <1>1, <2>3, <2>5, <2>6
<1>6. ASSUME NEW artifact \in BOOLEAN, ToolReturns(artifact)
      PROVE  log' \in Seq(Events) /\ turn' \in Turns /\ UNCHANGED <<status, reports>>
  <2> DEFINE e == Tool("tool.result", turn.call)
             f == Tool("artifact.published", turn.call)
             es == <<e>> \o IF artifact THEN <<f>> ELSE << >>
  <2>1. e \in Events /\ f \in Events
    BY <1>2, ToolEvent DEF KnownTypes, ToolTypes
  <2>2. /\ Write(es) /\ turn' = [turn EXCEPT !.call = 0] /\ UNCHANGED <<status, reports>>
    BY <1>6 DEF ToolReturns
  <2> HIDE DEF e, f
  <2>3. es \in Seq(Events)
    BY <2>1
  <2> HIDE DEF es
  <2>4. turn' \in Turns
    BY <1>1, <2>2, BoundFacts
  <2> QED BY <2>2, <2>3, <2>4, WriteKeeps
<1>7. CASE ToolFails
  <2>1. Tool("tool.failed", turn.call) \in Events
    BY <1>2, ToolEvent DEF KnownTypes, ToolTypes
  <2>2. /\ Write(<<Tool("tool.failed", turn.call)>>) /\ turn' = [turn EXCEPT !.call = 0]
        /\ UNCHANGED <<status, reports>>
    BY <1>7 DEF ToolFails
  <2>3. turn' \in Turns
    BY <1>1, <2>2, BoundFacts
  <2>4. log' \in Seq(Events)
    BY <2>1, <2>2, OneEvent, WriteKeeps
  <2> QED BY <1>1, <2>2, <2>3, <2>4
<1>8. CASE ToolAsks
  <2>1. Tool("tool.pending", turn.call) \in Events
    BY <1>2, ToolEvent DEF KnownTypes, ToolTypes
  <2>2. /\ Write(<<Tool("tool.pending", turn.call)>>) /\ turn' = [turn EXCEPT !.calls = << >>]
        /\ status' = "waiting_user" /\ UNCHANGED reports
    BY <1>8 DEF ToolAsks
  <2>3. turn' \in Turns
    <3>1. << >> \in Seq(ToolIds)
      OBVIOUS
    <3> QED BY <1>1, <2>2, <3>1
  <2>4. log' \in Seq(Events)
    BY <2>1, <2>2, OneEvent, WriteKeeps
  <2> QED BY <1>1, <2>2, <2>3, <2>4
<1>9. CASE UserAnswers
  <2>1. Tool("tool.result", turn.call) \in Events
    BY <1>2, ToolEvent DEF KnownTypes, ToolTypes
  <2>2. /\ Write(<<Tool("tool.result", turn.call)>>) /\ turn' = NoTurn
        /\ status' = "running" /\ UNCHANGED reports
    BY <1>9 DEF UserAnswers
  <2>3. log' \in Seq(Events)
    BY <2>1, <2>2, OneEvent, WriteKeeps
  <2> QED BY <1>1, <2>2, <2>3, NoTurnType
<1>10. CASE TurnEnds
  BY <1>1, <1>10, NoTurnType DEF TurnEnds
<1>11. ASSUME NEW s \in {"completed", "failed"}, RunEnds(s)
       PROVE  /\ log' \in Seq(Events) /\ turn' \in Turns /\ UNCHANGED reports
              /\ status' \in {"running", "waiting_user", "completed", "failed"}
  <2> DEFINE type == IF s = "completed" THEN "run.finished" ELSE "run.failed"
  <2>1. type \in KnownTypes
    BY DEF KnownTypes
  <2>2. Write(<<RunEvent(type)>>) /\ turn' = NoTurn /\ status' = s /\ UNCHANGED reports
    BY <1>11 DEF RunEnds
  <2> HIDE DEF type
  <2>3. RunEvent(type) \in Events
    BY <2>1, ToolEvent, BoundFacts
  <2>4. log' \in Seq(Events)
    BY <2>2, <2>3, OneEvent, WriteKeeps
  <2> QED BY <2>2, <2>4, NoTurnType
<1>12. ASSUME NEW j \in Jobs, JobReported(j)
       PROVE  reports' \in [Jobs -> 0..MaxRetries] /\ UNCHANGED <<log, turn, status>>
  <2>1. /\ reports[j] < MaxRetries /\ reports' = [reports EXCEPT ![j] = reports[j] + 1]
        /\ UNCHANGED <<log, turn, status>>
    BY <1>12 DEF JobReported
  <2>2. reports[j] + 1 \in 0..MaxRetries
    BY <1>1, <2>1, BoundFacts
  <2> QED BY <1>1, <2>1, <2>2
<1>13. CASE UNCHANGED vars
  BY <1>1, <1>13 DEF vars
<1> HIDE DEF Turns
<1> QED BY <1>1, <1>3, <1>4, <1>5, <1>6, <1>7, <1>8, <1>9, <1>10, <1>11, <1>12, <1>13 DEF Next

\* Type correctness: the agent loop writes well-formed logs of any length.
THEOREM TypeCorrect == Spec => []TypeOK
<1>1. Init => TypeOK
  <2> SUFFICES ASSUME Init PROVE TypeOK OBVIOUS
  <2>1. RunEvent("run.started") \in Events
    BY ToolEvent, BoundFacts DEF KnownTypes
  <2>2. log \in Seq(Events)
    BY <2>1, OneEvent DEF Init
  <2>3. turn \in Turns /\ reports \in [Jobs -> 0..MaxRetries] /\ status = "running"
    BY NoTurnType, BoundFacts DEF Init
  <2> QED BY <2>2, <2>3 DEF TypeOK, Turns
<1> QED BY <1>1, NextKeepsType, PTL DEF Spec

-----------------------------------------------------------------------------
(* Order                                                                   *)

\* projectTerminalUnit: whatever was written and reported, and in whatever
\* order, the terminal unit is the last one, as long as the places suffice.
THEOREM TerminalUnitLast ==
    ASSUME PlacesFit
    PROVE  Spec => []TerminalIsLast
<1>1. TypeOK => TerminalIsLast
  <2> SUFFICES ASSUME TypeOK, NEW u \in Units(log, reports), u.kind # "terminal"
               PROVE  Before(u, projectTerminalUnit(log))
    BY DEF TerminalIsLast
  <2>1. Len(log) \in Nat /\ DOMAIN log = 1..Len(log)
    BY DEF TypeOK
  <2>2. projectTerminalUnit(log).order = Len(log) * SeqUnit + (SeqUnit - 1)
    BY DEF projectTerminalUnit, Unit, TerminalOrder
  <2>3. CASE u \in projectAgentUnits(log)
    <3>1. PICK i \in DOMAIN log : u.order = i * SeqUnit
      BY <2>3, AgentUnitPlaced
    <3>2. u.order < Len(log) * SeqUnit + (SeqUnit - 1)
      BY <2>1, <3>1 DEF SeqUnit
    <3> QED BY <2>2, <3>2 DEF Before
  <2>4. CASE u \in projectExecutionUnits(log, reports)
    <3> DEFINE a == Least(Anchors(log))
    <3>1. /\ a \in Nat /\ a <= Len(log)
          /\ \E j \in 0..99, n \in 1..9, s \in 0..998 : u = projectExecutionStep(a, j, n, s)
      BY <2>4, StepUnitPlaced
    <3> HIDE DEF a
    <3>2. PICK j \in 0..99, n \in 1..9, s \in 0..998 : u = projectExecutionStep(a, j, n, s)
      BY <3>1
    <3>3. u.order = StepOrder(a, j, n, s)
      BY <3>2 DEF projectExecutionStep, Unit
    <3>4. StepOrder(a, j, n, s) \in Nat /\ StepOrder(a, j, n, s) < a * SeqUnit + (SeqUnit - 1)
      BY <3>1 DEF StepOrder, SeqUnit, JobUnit, AttemptUnit
    <3>5. u.order < Len(log) * SeqUnit + (SeqUnit - 1)
      BY <2>1, <3>1, <3>3, <3>4 DEF SeqUnit
    <3> QED BY <2>2, <3>5 DEF Before
  <2>5. u # projectTerminalUnit(log)
    BY DEF projectTerminalUnit, Unit
  <2> QED BY <2>3, <2>4, <2>5 DEF Units
<1> QED BY <1>1, TypeCorrect, PTL

\* projectExecutionStep: a step comes after the tool call that published its
\* batch, before every unit that starts later, and the attempts of a job follow
\* each other, as long as the places suffice.
THEOREM StepsFollowCauses ==
    ASSUME PlacesFit
    PROVE  Spec => []StepsInOrder
<1>1. TypeOK => StepsInOrder
  <2> DEFINE a == Least(Anchors(log))
  <2> SUFFICES ASSUME TypeOK, NEW u \in projectExecutionUnits(log, reports)
               PROVE  /\ Before(projectToolCall(log, log[a].call), u)
                      /\ \A v \in projectAgentUnits(log) : v.order > a * SeqUnit => Before(u, v)
                      /\ \A v \in projectExecutionUnits(log, reports) :
                            u.id[1] = v.id[1] /\ u.id[2] < v.id[2] => Before(u, v)
    BY DEF StepsInOrder
  <2>1. Len(log) \in Nat /\ DOMAIN log = 1..Len(log)
    BY DEF TypeOK
  <2>2. /\ a \in Anchors(log) /\ a \in Nat
        /\ \E j \in 0..99, n \in 1..9, s \in 0..998 : u = projectExecutionStep(a, j, n, s)
    BY StepUnitPlaced
  <2>3. \A v \in projectExecutionUnits(log, reports) :
          \E j \in 0..99, n \in 1..9, s \in 0..998 : v = projectExecutionStep(a, j, n, s)
    BY StepUnitPlaced
  <2> HIDE DEF a
  <2>4. PICK j \in 0..99, n \in 1..9, s \in 0..998 : u = projectExecutionStep(a, j, n, s)
    BY <2>2
  <2>5. u.order = StepOrder(a, j, n, s) /\ u.id = <<j, n, s>>
    BY <2>4 DEF projectExecutionStep, Unit
  <2>6. /\ u.order \in Nat /\ a * SeqUnit < u.order /\ u.order < a * SeqUnit + (SeqUnit - 1)
    <3>1. /\ StepOrder(a, j, n, s) \in Nat /\ a * SeqUnit < StepOrder(a, j, n, s)
          /\ StepOrder(a, j, n, s) < a * SeqUnit + (SeqUnit - 1)
      BY <2>2 DEF StepOrder, SeqUnit, JobUnit, AttemptUnit
    <3> QED BY <2>5, <3>1
  <2>7. Before(projectToolCall(log, log[a].call), u)
    <3> DEFINE c == log[a].call
               S == ToolEvents(log, c) \cup EventsLinked(log, c)
    <3>1. a \in S
      BY <2>2 DEF Anchors, ToolEvents, ToolTypes
    <3>2. S \subseteq Nat
      BY <2>1 DEF ToolEvents, EventsLinked, EventsOfModel, LlmEvents
    <3>3. FirstSeq(log, c) = Least(S)
      BY DEF FirstSeq
    <3> HIDE DEF S
    <3>4. FirstSeq(log, c) \in Nat /\ FirstSeq(log, c) <= a
      <4>1. S # {}
        BY <3>1
      <4>2. Least(S) \in S /\ \A i \in S : Least(S) <= i
        BY <3>2, <4>1, LeastIn
      <4> QED BY <3>1, <3>2, <3>3, <4>2
    <3>5. projectToolCall(log, c).order = FirstSeq(log, c) * SeqUnit
      BY DEF projectToolCall, Unit
    <3>6. projectToolCall(log, c).order < u.order
      BY <2>2, <2>6, <3>4, <3>5 DEF SeqUnit
    <3> QED BY <3>6 DEF Before
  <2>8. ASSUME NEW v \in projectAgentUnits(log), v.order > a * SeqUnit
        PROVE  Before(u, v)
    <3>1. PICK i \in DOMAIN log : v.order = i * SeqUnit
      BY AgentUnitPlaced
    <3>2. i \in Nat /\ i >= a + 1
      BY <2>1, <2>2, <2>8, <3>1 DEF SeqUnit
    <3>3. u.order < v.order
      BY <2>2, <2>6, <3>1, <3>2 DEF SeqUnit
    <3> QED BY <3>3 DEF Before
  <2>9. ASSUME NEW v \in projectExecutionUnits(log, reports), u.id[1] = v.id[1], u.id[2] < v.id[2]
        PROVE  Before(u, v)
    <3>1. PICK i \in 0..99, k \in 1..9, t \in 0..998 : v = projectExecutionStep(a, i, k, t)
      BY <2>3
    <3>2. v.order = StepOrder(a, i, k, t) /\ v.id = <<i, k, t>>
      BY <3>1 DEF projectExecutionStep, Unit
    <3>3. i = j /\ n < k
      BY <2>5, <2>9, <3>2
    <3>4. j \in Nat /\ n \in Nat /\ k \in Nat /\ t \in Nat
      OBVIOUS
    <3>5. StepOrder(a, j, n, s) < StepOrder(a, j, k, t)
      BY <2>2, <3>3, <3>4 DEF StepOrder, SeqUnit, JobUnit, AttemptUnit
    <3>6. u.order < v.order
      BY <2>5, <3>2, <3>3, <3>5
    <3> QED BY <3>6 DEF Before
  <2> QED BY <2>7, <2>8, <2>9
<1> QED BY <1>1, TypeCorrect, PTL

-----------------------------------------------------------------------------
(* The log of the agent loop                                               *)

AttemptsOf(l, m) == {l[i].attempt : i \in EventsOfModel(l, m)}

\* A tool call is named by the events of one model call only.
CallsApart ==
    \A i, j \in LlmEvents(log) :
        log[i].calls \cap log[j].calls # {} => log[i].model = log[j].model

\* No attempt is recorded twice.
AttemptsApart ==
    \A i, j \in LlmEvents(log) :
        log[i].model = log[j].model /\ log[i].attempt = log[j].attempt => i = j

\* The attempts of a model call are numbered in a row; the loop knows how many there are.
AttemptsInRow ==
    \A m \in 0..MaxModelCalls : \E n \in 0..MaxAttempts :
        /\ AttemptsOf(log, m) = 1..n
        /\ m = turn.model /\ m # 0 => n = turn.attempt

\* So are the model calls: the next one has its own number.
ModelsInRow ==
    \E k \in 0..MaxModelCalls :
        /\ ModelCalls(log) = 1..k
        /\ turn.model # 0 => turn.model = IF turn.attempt = 0 THEN k + 1 ELSE k

\* Until its answer is recorded, a turn has started no tool, and nothing in the log
\* bears the ids of its calls.
TurnShape ==
    turn.attempt < turn.last =>
        /\ turn.model # 0 /\ turn.call = 0
        /\ \A x \in DOMAIN turn.calls, k \in DOMAIN log :
              turn.calls[x] # log[k].call /\ turn.calls[x] \notin log[k].calls

LogInv == CallsApart /\ AttemptsApart /\ AttemptsInRow /\ ModelsInRow /\ TurnShape

\* What a write leaves of the log and what it adds.
LEMMA Extends ==
    ASSUME TypeOK, NEW events \in Seq(Events), Write(events)
    PROVE  /\ Len(log) \in Nat /\ DOMAIN log = 1..Len(log)
           /\ Len(log') = Len(log) + Len(events) /\ DOMAIN log' = 1..Len(log')
           /\ \A i \in DOMAIN log : i \in DOMAIN log' /\ log'[i] = log[i]
           /\ \A i \in DOMAIN log' \ DOMAIN log :
                 i > Len(log) /\ i - Len(log) \in DOMAIN events
                 /\ log'[i] = events[i - Len(log)]
<1>1. log \in Seq(Events) /\ log' = log \o events
  BY DEF TypeOK, Write
<1>2. /\ Len(log') = Len(log) + Len(events) /\ DOMAIN log' = 1..Len(log')
      /\ Len(log) \in Nat /\ DOMAIN log = 1..Len(log) /\ DOMAIN events = 1..Len(events)
      /\ Len(events) \in Nat
  BY <1>1
<1>3. \A i \in DOMAIN log' :
        log'[i] = IF i <= Len(log) THEN log[i] ELSE events[i - Len(log)]
  BY <1>1, <1>2
<1>4. \A i \in DOMAIN log : i \in DOMAIN log' /\ log'[i] = log[i]
  BY <1>2, <1>3
<1>5. \A i \in DOMAIN log' \ DOMAIN log : i > Len(log) /\ i - Len(log) \in DOMAIN events
  BY <1>2
<1> QED BY <1>2, <1>3, <1>4, <1>5

\* No event of a model call is added, and none is changed.
Plain == LlmEvents(log') = LlmEvents(log) /\ \A i \in LlmEvents(log) : log'[i] = log[i]

\* The events of a tool and of a run are not those of a model call.
LEMMA PlainWrite ==
    ASSUME TypeOK, NEW events \in Seq(Events), Write(events),
           \A k \in DOMAIN events : events[k].type # "research.llm_call"
    PROVE  Plain
<1>1. \A i \in DOMAIN log : i \in DOMAIN log' /\ log'[i] = log[i]
  BY Extends
<1>2. \A i \in DOMAIN log' \ DOMAIN log : log'[i].type # "research.llm_call"
  BY Extends
<1> QED BY <1>1, <1>2 DEF Plain, LlmEvents

\* The models and attempts of the log, when no model call is written.
LEMMA PlainSame ==
    ASSUME Plain
    PROVE  /\ ModelCalls(log') = ModelCalls(log)
           /\ \A m : EventsOfModel(log', m) = EventsOfModel(log, m)
                     /\ AttemptsOf(log', m) = AttemptsOf(log, m)
<1>1. \A m : EventsOfModel(log', m) = EventsOfModel(log, m)
  BY DEF Plain, EventsOfModel
<1>2. \A m : AttemptsOf(log', m) = AttemptsOf(log, m)
  <2> SUFFICES ASSUME NEW m PROVE AttemptsOf(log', m) = AttemptsOf(log, m) OBVIOUS
  <2>1. \A i \in EventsOfModel(log, m) : log'[i] = log[i]
    BY DEF Plain, EventsOfModel
  <2> QED BY <1>1, <2>1 DEF AttemptsOf
<1>3. ModelCalls(log') = ModelCalls(log)
  BY DEF Plain, ModelCalls
<1> QED BY <1>1, <1>2, <1>3

\* A step that records no attempt, and leaves the turn as it is or ends it.
LEMMA PlainKeeps ==
    ASSUME LogInv, Plain, ~(turn'.attempt < turn'.last),
           turn'.model # 0 => turn'.model = turn.model /\ turn'.attempt = turn.attempt
    PROVE  LogInv'
<1>1. CallsApart'
  BY DEF LogInv, Plain, CallsApart
<1>2. AttemptsApart'
  BY DEF LogInv, Plain, AttemptsApart
<1>3. AttemptsInRow'
  <2> SUFFICES ASSUME NEW m \in 0..MaxModelCalls
               PROVE  \E n \in 0..MaxAttempts :
                        /\ AttemptsOf(log', m) = 1..n
                        /\ m = turn'.model /\ m # 0 => n = turn'.attempt
    BY DEF AttemptsInRow
  <2>1. PICK n \in 0..MaxAttempts : /\ AttemptsOf(log, m) = 1..n
                                    /\ m = turn.model /\ m # 0 => n = turn.attempt
    BY DEF LogInv, AttemptsInRow
  <2> QED BY <2>1, PlainSame
<1>4. ModelsInRow'
  BY PlainSame DEF LogInv, ModelsInRow
<1>5. TurnShape'
  BY DEF TurnShape
<1> QED BY <1>1, <1>2, <1>3, <1>4, <1>5 DEF LogInv

\* The types of the events a tool or a run writes.
LEMMA PlainTypes ==
    \A type \in KnownTypes, c \in 0..MaxToolCalls :
        Tool(type, c).type = type /\ RunEvent(type).type = type
BY DEF Tool, RunEvent, Trace

\* One event that is not of a model call.
LEMMA PlainEvent ==
    ASSUME TypeOK, NEW type \in KnownTypes \ {"research.llm_call"}, NEW c \in 0..MaxToolCalls,
           Write(<<Tool(type, c)>>) \/ Write(<<RunEvent(type)>>)
    PROVE  Plain
<1>1. ASSUME NEW e \in Events, e.type = type, Write(<<e>>) PROVE Plain
  <2>1. <<e>> \in Seq(Events) /\ \A k \in DOMAIN <<e>> : <<e>>[k].type # "research.llm_call"
    BY <1>1
  <2> QED BY <1>1, <2>1, PlainWrite
<1>2. /\ Tool(type, c) \in Events /\ RunEvent(type) \in Events
      /\ Tool(type, c).type = type /\ RunEvent(type).type = type
  BY ToolEvent, PlainTypes
<1> QED BY <1>1, <1>2

\* What the record of an attempt adds.
LEMMA RecordAdds ==
    ASSUME TypeOK, RecordAttempt
    PROVE  LET n == Len(log) + 1
               good == turn.ok /\ turn.attempt + 1 = turn.last
               calls == IF good THEN {turn.calls[i] : i \in DOMAIN turn.calls} ELSE {}
           IN  /\ n \in Nat /\ n \notin DOMAIN log
               /\ DOMAIN log' = DOMAIN log \cup {n, n + 1} /\ DOMAIN log = 1..(n - 1)
               /\ \A i \in DOMAIN log : log'[i] = log[i]
               /\ log'[n] = Llm(turn.model, turn.attempt + 1, good, calls)
               /\ log'[n + 1] = Trace
               /\ LlmEvents(log') = LlmEvents(log) \cup {n}
               /\ turn' = [turn EXCEPT !.attempt = turn.attempt + 1]
               /\ calls \in SUBSET ToolIds /\ turn.attempt + 1 \in 1..MaxAttempts
               /\ turn' \in Turns
<1> DEFINE n == Len(log) + 1
           good == turn.ok /\ turn.attempt + 1 = turn.last
           calls == IF good THEN {turn.calls[i] : i \in DOMAIN turn.calls} ELSE {}
           e == Llm(turn.model, turn.attempt + 1, good, calls)
<1>1. /\ turn \in Turns /\ log \in Seq(Events) /\ turn.calls \in Seq(ToolIds)
      /\ turn.attempt \in Nat /\ turn.last \in 0..MaxAttempts /\ turn.model \in 0..MaxModelCalls
      /\ turn.attempt < turn.last
  BY BoundFacts DEF TypeOK, Turns, RecordAttempt
<1>2. turn.attempt + 1 \in 1..MaxAttempts /\ turn.attempt + 1 \in 0..MaxAttempts
  BY <1>1, BoundFacts
<1>3. calls \in SUBSET ToolIds
  BY <1>1
<1>4. /\ Write(<<e, Trace>>) /\ turn' = [turn EXCEPT !.attempt = turn.attempt + 1]
  BY DEF RecordAttempt, AttemptNumber
<1>5. turn' \in Turns
  BY <1>1, <1>2, <1>4 DEF Turns
<1> HIDE DEF good, calls
<1>6. e.type = "research.llm_call" /\ Trace.type # "research.llm_call"
  BY DEF Llm, Trace
<1>7. log' = log \o <<e, Trace>>
  BY <1>4 DEF Write
<1> HIDE DEF e, Trace
<1>8. /\ n \in Nat /\ n \notin DOMAIN log /\ DOMAIN log = 1..(n - 1)
      /\ DOMAIN log' = DOMAIN log \cup {n, n + 1}
      /\ \A i \in DOMAIN log : log'[i] = log[i]
      /\ log'[n] = e /\ log'[n + 1] = Trace
  BY <1>1, <1>7
<1>9. LlmEvents(log') = LlmEvents(log) \cup {n}
  BY <1>6, <1>8 DEF LlmEvents
<1> QED BY <1>2, <1>3, <1>4, <1>5, <1>8, <1>9 DEF e, good, calls

\* An attempt is recorded: the next one of the model call under way, and when it
\* names tool calls, nothing has named them before.
LEMMA RecordKeeps ==
    ASSUME TypeOK, LogInv, RecordAttempt
    PROVE  LogInv'
<1> DEFINE n == Len(log) + 1
           good == turn.ok /\ turn.attempt + 1 = turn.last
           calls == IF good THEN {turn.calls[i] : i \in DOMAIN turn.calls} ELSE {}
           e == Llm(turn.model, turn.attempt + 1, good, calls)
<1>1. /\ n \in Nat /\ n \notin DOMAIN log
      /\ DOMAIN log' = DOMAIN log \cup {n, n + 1}
      /\ \A i \in DOMAIN log : log'[i] = log[i]
      /\ log'[n] = e /\ log'[n + 1] = Trace
      /\ LlmEvents(log') = LlmEvents(log) \cup {n}
      /\ turn' = [turn EXCEPT !.attempt = turn.attempt + 1]
      /\ calls \in SUBSET ToolIds /\ turn.attempt + 1 \in 1..MaxAttempts
  BY RecordAdds
<1>2. /\ turn.attempt \in Nat /\ turn.model \in 0..MaxModelCalls /\ turn.attempt < turn.last
      /\ turn.calls \in Seq(ToolIds)
      /\ turn'.attempt = turn.attempt + 1 /\ turn'.model = turn.model
      /\ turn'.calls = turn.calls /\ turn'.call = turn.call /\ turn'.last = turn.last
  BY <1>1 DEF TypeOK, RecordAttempt
<1>3. /\ turn.model # 0 /\ turn.call = 0
      /\ \A x \in DOMAIN turn.calls, k \in DOMAIN log :
            turn.calls[x] # log[k].call /\ turn.calls[x] \notin log[k].calls
  BY <1>2 DEF LogInv, TurnShape
<1>4. \A i \in LlmEvents(log) : calls \cap log[i].calls = {}
  BY <1>3 DEF LlmEvents
<1>5. e.model = turn.model /\ e.attempt = turn.attempt + 1 /\ e.calls = calls /\ e.call = 0
  BY DEF Llm
<1>6. LlmEvents(log) \subseteq DOMAIN log /\ n \notin LlmEvents(log)
  BY <1>1 DEF LlmEvents
<1>7. AttemptsOf(log, turn.model) = 1..turn.attempt
  BY <1>2, <1>3 DEF LogInv, AttemptsInRow
<1> HIDE DEF n, good, calls, e
<1>8. /\ \A i \in LlmEvents(log) : log'[i] = log[i]
      /\ \A i \in LlmEvents(log') : i # n => i \in LlmEvents(log)
  BY <1>1, <1>6
<1>9. CallsApart'
  BY <1>1, <1>4, <1>5, <1>8 DEF LogInv, CallsApart
<1>10. AttemptsApart'
  <2>1. \A i \in LlmEvents(log) : log[i].model = turn.model => log[i].attempt # turn.attempt + 1
    <3> SUFFICES ASSUME NEW i \in LlmEvents(log), log[i].model = turn.model
                 PROVE  log[i].attempt # turn.attempt + 1
      OBVIOUS
    <3>1. log[i].attempt \in AttemptsOf(log, turn.model)
      BY DEF AttemptsOf, EventsOfModel
    <3> QED BY <1>2, <1>7, <3>1
  <2> QED BY <1>1, <1>5, <1>8, <2>1 DEF LogInv, AttemptsApart
<1>11. \A m : EventsOfModel(log', m) =
                IF m = turn.model THEN EventsOfModel(log, m) \cup {n} ELSE EventsOfModel(log, m)
  BY <1>1, <1>5, <1>8 DEF EventsOfModel
<1>12. \A m : AttemptsOf(log', m) =
                IF m = turn.model THEN AttemptsOf(log, m) \cup {turn.attempt + 1}
                ELSE AttemptsOf(log, m)
  <2> SUFFICES ASSUME NEW m
               PROVE  AttemptsOf(log', m) =
                        IF m = turn.model THEN AttemptsOf(log, m) \cup {turn.attempt + 1}
                        ELSE AttemptsOf(log, m)
    OBVIOUS
  <2>1. \A i \in EventsOfModel(log, m) : log'[i] = log[i]
    BY <1>8 DEF EventsOfModel
  <2>2. log'[n].attempt = turn.attempt + 1
    BY <1>1, <1>5
  <2> QED BY <1>11, <2>1, <2>2 DEF AttemptsOf
<1>13. AttemptsInRow'
  <2> SUFFICES ASSUME NEW m \in 0..MaxModelCalls
               PROVE  \E k \in 0..MaxAttempts :
                        /\ AttemptsOf(log', m) = 1..k
                        /\ m = turn'.model /\ m # 0 => k = turn'.attempt
    BY DEF AttemptsInRow
  <2>1. CASE m = turn.model
    <3>1. 1..turn.attempt \cup {turn.attempt + 1} = 1..(turn.attempt + 1)
      BY <1>2
    <3>2. turn.attempt + 1 \in 0..MaxAttempts
      BY <1>1, BoundFacts
    <3> QED BY <1>2, <1>7, <1>12, <2>1, <3>1, <3>2
  <2>2. CASE m # turn.model
    BY <1>2, <1>12, <2>2 DEF LogInv, AttemptsInRow
  <2> QED BY <2>1, <2>2
<1>14. ModelsInRow'
  <2>1. PICK k \in 0..MaxModelCalls :
          /\ ModelCalls(log) = 1..k
          /\ turn.model = IF turn.attempt = 0 THEN k + 1 ELSE k
    BY <1>3 DEF LogInv, ModelsInRow
  <2>2. ModelCalls(log') = ModelCalls(log) \cup {turn.model}
    <3>1. \A i \in LlmEvents(log) : log'[i].model = log[i].model
      BY <1>8
    <3>2. log'[n].model = turn.model
      BY <1>1, <1>5
    <3> QED BY <1>1, <3>1, <3>2 DEF ModelCalls
  <2>3. ModelCalls(log') = 1..turn.model
    <3>1. CASE turn.attempt = 0
      <4>1. turn.model = k + 1 /\ 1..(k + 1) = 1..k \cup {k + 1}
        BY <2>1, <3>1, BoundFacts
      <4> QED BY <2>1, <2>2, <4>1
    <3>2. CASE turn.attempt # 0
      <4>1. turn.model = k /\ k \in 1..k
        BY <1>3, <2>1, <3>2, BoundFacts
      <4> QED BY <2>1, <2>2, <4>1
    <3> QED BY <3>1, <3>2
  <2> QED BY <1>2, <2>3 DEF ModelsInRow
<1>15. TurnShape'
  <2> SUFFICES ASSUME NEW x \in DOMAIN turn.calls, NEW k \in DOMAIN log', turn'.attempt < turn'.last
               PROVE  turn.calls[x] # log'[k].call /\ turn.calls[x] \notin log'[k].calls
    BY <1>2, <1>3 DEF TurnShape
  <2>1. CASE k \in DOMAIN log
    BY <1>1, <1>3, <2>1
  <2>2. turn.calls[x] # 0
    <3>1. turn.calls[x] \in ToolIds
      BY <1>2
    <3>2. 0 \notin ToolIds
      BY BoundFacts DEF ToolIds
    <3> QED BY <3>1, <3>2
  <2>3. CASE k = n
    <3>1. ~good
      BY <1>2 DEF good
    <3> QED BY <1>1, <1>5, <2>2, <2>3, <3>1 DEF calls
  <2>4. CASE k = n + 1
    BY <1>1, <2>2, <2>4 DEF Trace
  <2> QED BY <1>1, <2>1, <2>3, <2>4
<1> QED BY <1>9, <1>10, <1>13, <1>14, <1>15 DEF LogInv

\* The model answers: its call has the next number and the ids are new.
LEMMA AnswerKeeps ==
    ASSUME TypeOK, LogInv, TypeOK', NEW n \in 1..MaxAttempts, NEW ok \in BOOLEAN,
           NEW calls \in CallSequences, ModelAnswers(n, ok, calls)
    PROVE  LogInv'
<1>1. PICK k \in 0..MaxModelCalls : ModelCalls(log) = 1..k
  BY DEF LogInv, ModelsInRow
<1>2. Cardinality(1..k) = k /\ k \in Nat
  BY FS_Interval, BoundFacts
<1>3. /\ turn'.model = k + 1 /\ turn'.attempt = 0 /\ turn'.call = 0 /\ turn'.calls = calls
      /\ UNCHANGED log
  BY <1>1, <1>2 DEF ModelAnswers, NoTurn
<1>4. CallsApart' /\ AttemptsApart'
  BY <1>3 DEF LogInv, CallsApart, AttemptsApart
<1>5. AttemptsInRow'
  <2> SUFFICES ASSUME NEW m \in 0..MaxModelCalls
               PROVE  \E a \in 0..MaxAttempts :
                        AttemptsOf(log, m) = 1..a /\ (m = k + 1 => a = 0)
    BY <1>3 DEF AttemptsInRow
  <2>1. CASE m = k + 1
    <3>1. m \notin ModelCalls(log)
      BY <1>1, <1>2, <2>1
    <3>2. AttemptsOf(log, m) = {}
      BY <3>1 DEF AttemptsOf, EventsOfModel, ModelCalls
    <3> QED BY <3>2, BoundFacts
  <2>2. CASE m # k + 1
    BY <2>2 DEF LogInv, AttemptsInRow
  <2> QED BY <2>1, <2>2
<1>6. ModelsInRow'
  BY <1>1, <1>3 DEF ModelsInRow
<1>7. TurnShape'
  BY <1>2, <1>3 DEF TurnShape, ModelAnswers, FreshCalls
<1> QED BY <1>4, <1>5, <1>6, <1>7 DEF LogInv

\* A step writes events at the end of the log or leaves it, and of the events of a
\* model call only RecordAttempt writes any.
LEMMA LogSteps ==
    ASSUME TypeOK, [Next]_vars
    PROVE  /\ UNCHANGED log \/ \E events \in Seq(Events) : Write(events)
           /\ RecordAttempt \/ Plain
<1> DEFINE Goal == /\ UNCHANGED log \/ \E events \in Seq(Events) : Write(events)
                   /\ RecordAttempt \/ Plain
<1>0. turn \in Turns /\ turn.call \in 0..MaxToolCalls
  BY DEF TypeOK, Turns
<1>1. ASSUME NEW type \in KnownTypes \ {"research.llm_call"}, NEW c \in 0..MaxToolCalls,
             Write(<<Tool(type, c)>>) \/ Write(<<RunEvent(type)>>)
      PROVE  Goal
  <2>1. <<Tool(type, c)>> \in Seq(Events) /\ <<RunEvent(type)>> \in Seq(Events)
    BY ToolEvent, OneEvent
  <2> QED BY <1>1, <2>1, PlainEvent
<1>2. ASSUME UNCHANGED log PROVE Goal
  BY <1>2 DEF Plain
<1>3. ASSUME NEW n, NEW ok, NEW calls, ModelAnswers(n, ok, calls) PROVE Goal
  BY <1>2, <1>3 DEF ModelAnswers
<1>4. CASE RecordAttempt
  <2>1. PICK good, calls : Write(<<Llm(turn.model, turn.attempt + 1, good, calls), Trace>>)
                           /\ good \in BOOLEAN /\ calls \in SUBSET ToolIds
    <3> DEFINE good == turn.ok /\ turn.attempt + 1 = turn.last
               calls == IF good THEN {turn.calls[i] : i \in DOMAIN turn.calls} ELSE {}
    <3>1. calls \in SUBSET ToolIds
      BY <1>0 DEF Turns
    <3>2. good \in BOOLEAN
      OBVIOUS
    <3>3. Write(<<Llm(turn.model, turn.attempt + 1, good, calls), Trace>>)
      BY <1>4 DEF RecordAttempt, AttemptNumber
    <3> HIDE DEF good, calls
    <3> QED BY <3>1, <3>2, <3>3
  <2> DEFINE e == Llm(turn.model, turn.attempt + 1, good, calls)
  <2>2. turn.model \in 0..MaxModelCalls /\ turn.attempt + 1 \in 0..MaxAttempts
    BY <1>0, <1>4, BoundFacts DEF Turns, RecordAttempt
  <2>3. e \in Events
    BY <2>1, <2>2, BoundFacts DEF Llm, Events, KnownTypes
  <2> HIDE DEF e
  <2>4. <<e, Trace>> \in Seq(Events)
    BY <2>3, TraceEvent
  <2> QED BY <1>4, <2>1, <2>4 DEF e
<1>5. CASE StartTool
  <2>1. Head(turn.calls) \in 0..MaxToolCalls
    BY <1>0, <1>5, BoundFacts DEF StartTool, Turns
  <2> QED BY <1>1, <1>5, <2>1 DEF StartTool, KnownTypes, ToolTypes
<1>6. ASSUME NEW artifact \in BOOLEAN, ToolReturns(artifact) PROVE Goal
  <2> DEFINE e == Tool("tool.result", turn.call)
             f == Tool("artifact.published", turn.call)
             es == <<e>> \o <<f>>
  <2>1. e \in Events /\ f \in Events /\ e.type = "tool.result" /\ f.type = "artifact.published"
    BY <1>0, ToolEvent, PlainTypes DEF KnownTypes, ToolTypes
  <2>2. Write(<<e>> \o IF artifact THEN <<f>> ELSE << >>)
    BY <1>6 DEF ToolReturns
  <2> HIDE DEF e, f
  <2>3. CASE artifact
    <3>1. es \in Seq(Events) /\ \A k \in DOMAIN es : es[k] \in {e, f}
      BY <2>1
    <3>2. Write(es)
      BY <2>2, <2>3
    <3> HIDE DEF es
    <3>3. \A k \in DOMAIN es : es[k].type # "research.llm_call"
      BY <2>1, <3>1
    <3> QED BY <3>1, <3>2, <3>3, PlainWrite
  <2>4. CASE ~artifact
    <3>1. <<e>> \o << >> = <<e>> /\ <<e>> \in Seq(Events)
          /\ \A k \in DOMAIN <<e>> : <<e>>[k].type # "research.llm_call"
      BY <2>1
    <3>2. Write(<<e>>)
      BY <2>2, <2>4, <3>1
    <3> QED BY <3>1, <3>2, PlainWrite
  <2> QED BY <2>3, <2>4
<1>7. CASE ToolFails \/ ToolAsks \/ UserAnswers
  BY <1>0, <1>1, <1>7 DEF ToolFails, ToolAsks, UserAnswers, KnownTypes, ToolTypes
<1>8. CASE TurnEnds
  BY <1>2, <1>8 DEF TurnEnds
<1>9. ASSUME NEW s \in {"completed", "failed"}, RunEnds(s) PROVE Goal
  <2>1. PICK type \in {"run.finished", "run.failed"} : Write(<<RunEvent(type)>>)
    BY <1>9 DEF RunEnds
  <2> QED BY <1>0, <1>1, <2>1 DEF KnownTypes
<1>10. ASSUME NEW j \in Jobs, JobReported(j) PROVE Goal
  BY <1>2, <1>10 DEF JobReported
<1>11. CASE UNCHANGED vars
  BY <1>2, <1>11 DEF vars
<1> QED BY <1>3, <1>4, <1>5, <1>6, <1>7, <1>8, <1>9, <1>10, <1>11 DEF Next

\* Preservation of LogInv: one step per action of the loop.
LEMMA LogKept == TypeOK /\ LogInv /\ [Next]_vars => LogInv'
<1> SUFFICES ASSUME TypeOK, LogInv, [Next]_vars PROVE LogInv' OBVIOUS
<1>0. /\ TypeOK' /\ turn \in Turns /\ turn.attempt \in Nat /\ turn.last \in Nat
  BY NextKeepsType, BoundFacts DEF TypeOK, Turns
<1>1. CASE RecordAttempt
  BY <1>1, RecordKeeps
<1>2. ASSUME NEW n \in 1..MaxAttempts, NEW ok \in BOOLEAN, NEW calls \in CallSequences,
             ModelAnswers(n, ok, calls)
      PROVE  LogInv'
  BY <1>0, <1>2, AnswerKeeps
<1>3. ASSUME ~RecordAttempt, turn' = NoTurn PROVE LogInv'
  <2>1. /\ NoTurn.model = 0 /\ ~(NoTurn.attempt < NoTurn.last)
    BY DEF NoTurn
  <2> QED BY <1>3, <2>1, LogSteps, PlainKeeps
<1>4. ASSUME ~RecordAttempt, turn.call # 0 \/ TurnWritten, turn'.last = turn.last,
             turn'.model = turn.model, turn'.attempt = turn.attempt
      PROVE  LogInv'
  <2>1. ~(turn.attempt < turn.last)
    BY <1>0, <1>4 DEF LogInv, TurnShape, TurnWritten
  <2> QED BY <1>4, <2>1, LogSteps, PlainKeeps
<1>5. CASE StartTool \/ ToolFails \/ ToolAsks \/ \E artifact \in BOOLEAN : ToolReturns(artifact)
  <2>1. /\ turn.call # 0 \/ TurnWritten
        /\ turn'.last = turn.last /\ turn'.model = turn.model /\ turn'.attempt = turn.attempt
    BY <1>0, <1>5 DEF StartTool, ToolFails, ToolAsks, ToolReturns, Turns
  <2> QED BY <1>1, <1>4, <2>1
<1>6. CASE UserAnswers \/ TurnEnds \/ \E s \in {"completed", "failed"} : RunEnds(s)
  BY <1>1, <1>3, <1>6 DEF UserAnswers, TurnEnds, RunEnds
<1>7. ASSUME UNCHANGED <<log, turn>> PROVE LogInv'
  BY <1>7 DEF LogInv, CallsApart, AttemptsApart, AttemptsInRow, ModelsInRow, TurnShape
<1>8. ASSUME NEW j \in Jobs, JobReported(j) PROVE LogInv'
  BY <1>7, <1>8 DEF JobReported
<1>9. CASE UNCHANGED vars
  BY <1>7, <1>9 DEF vars
<1> QED BY <1>1, <1>2, <1>5, <1>6, <1>8, <1>9 DEF Next

\* The events of the model calls are in order, whatever write failed.
THEOREM LogInvariance == Spec => []LogInv
<1>1. Init => LogInv
  <2> SUFFICES ASSUME Init PROVE LogInv OBVIOUS
  <2>1. LlmEvents(log) = {} /\ turn.model = 0 /\ ~(turn.attempt < turn.last)
    BY DEF Init, LlmEvents, RunEvent, Trace, NoTurn
  <2>2. ModelCalls(log) = {} /\ \A m : AttemptsOf(log, m) = {}
    BY <2>1 DEF ModelCalls, AttemptsOf, EventsOfModel
  <2>3. AttemptsInRow /\ ModelsInRow
    <3>1. 1..0 = {} /\ turn.attempt = 0
      BY DEF Init, NoTurn
    <3> QED BY <2>1, <2>2, <3>1, BoundFacts DEF AttemptsInRow, ModelsInRow
  <2> QED BY <2>1, <2>3 DEF LogInv, CallsApart, AttemptsApart, TurnShape
<1> QED BY <1>1, LogKept, TypeCorrect, PTL DEF Spec

-----------------------------------------------------------------------------
(* Cost                                                                    *)

\* The smallest call of an answer is one of its calls.
LEMMA LeastCall ==
    ASSUME TypeOK, NEW m
    PROVE  CallsOfModel(log, m) # {} => Least(CallsOfModel(log, m)) \in CallsOfModel(log, m)
<1>1. \A j \in DOMAIN log : log[j] \in Events
  BY DEF TypeOK
<1>2. \A e \in Events : e.calls \subseteq ToolIds
  BY DEF Events
<1>3. ToolIds \subseteq Nat
  BY BoundFacts
<1>4. \A j \in EventsOfModel(log, m) : log[j].calls \subseteq Nat
  BY <1>1, <1>2, <1>3 DEF EventsOfModel, LlmEvents
<1>5. CallsOfModel(log, m) \subseteq Nat
  BY <1>4 DEF CallsOfModel
<1> QED BY <1>5, LeastIn

\* The tool call that pays for an attempt is the smallest of its answer.
LEMMA ToolPays ==
    ASSUME TypeOK, LogInv, NEW i \in LlmEvents(log), NEW c
    PROVE  LET S == CallsOfModel(log, log[i].model)
           IN  i \in projectToolCall(log, c).cost <=> c \in S /\ c = Least(S)
<1> DEFINE m == log[i].model
           S == CallsOfModel(log, m)
<1>1. m \in ModelCalls(log) /\ i \in EventsOfModel(log, m)
  BY DEF ModelCalls, EventsOfModel
<1>2. projectToolCall(log, c).cost = IF CostOwner(log, c) = c THEN EventsLinked(log, c) ELSE {}
  BY DEF projectToolCall, Unit
<1>3. i \in EventsLinked(log, c) <=> c \in S
  BY <1>1 DEF EventsLinked, LinkedModels, EventsOfModel
<1>4. ASSUME c \in S PROVE CostOwner(log, c) = Least(S)
  <2>1. PICK j \in EventsOfModel(log, m) : c \in log[j].calls
    BY <1>4 DEF CallsOfModel
  <2>2. j \in LlmEvents(log) /\ log[j].model = m
    BY <2>1 DEF EventsOfModel
  <2>3. \A k \in LinkedModels(log, c) : k = m
    <3> SUFFICES ASSUME NEW k \in LinkedModels(log, c) PROVE k = m OBVIOUS
    <3>1. PICK h \in EventsOfModel(log, k) : c \in log[h].calls
      BY DEF LinkedModels, CallsOfModel
    <3>2. h \in LlmEvents(log) /\ log[h].model = k
      BY <3>1 DEF EventsOfModel
    <3> QED BY <2>1, <2>2, <3>1, <3>2 DEF LogInv, CallsApart
  <2>4. m \in LinkedModels(log, c)
    BY <1>1, <1>4 DEF LinkedModels
  <2>5. EventsLinked(log, c) = EventsOfModel(log, m)
    BY <2>3, <2>4 DEF EventsLinked
  <2>6. {c} \cup UNION {log[h].calls : h \in EventsLinked(log, c)} = S
    BY <1>4, <2>5 DEF CallsOfModel
  <2> QED BY <2>6 DEF CostOwner
<1> QED BY <1>2, <1>3, <1>4

\* A standalone unit pays for the attempts of its model call.
LEMMA StandalonePays ==
    ASSUME NEW i \in LlmEvents(log), NEW m
    PROVE  i \in projectStandaloneModelCall(log, m).cost <=> m = log[i].model
BY DEF projectStandaloneModelCall, Unit, EventsOfModel

\* The units that pay for an attempt.
LEMMA Payers ==
    ASSUME TypeOK, LogInv, NEW i \in LlmEvents(log), NEW u \in Units(log, reports)
    PROVE  LET m == log[i].model
               S == CallsOfModel(log, m)
           IN  i \in u.cost <=>
                 \/ /\ S # {} /\ Least(S) \in ToolCalls(log)
                    /\ u = projectToolCall(log, Least(S))
                 \/ /\ S \cap ToolCalls(log) = {}
                    /\ u = projectStandaloneModelCall(log, m)
<1> DEFINE m == log[i].model
           S == CallsOfModel(log, m)
           Tool1 == S # {} /\ Least(S) \in ToolCalls(log) /\ u = projectToolCall(log, Least(S))
           Alone == S \cap ToolCalls(log) = {} /\ u = projectStandaloneModelCall(log, m)
<1>1. S # {} => Least(S) \in S
  BY LeastCall
<1>2. m \in ModelCalls(log)
  BY DEF ModelCalls
<1>3. \A c : i \in projectToolCall(log, c).cost <=> c \in S /\ c = Least(S)
  BY ToolPays
<1>4. \A k : i \in projectStandaloneModelCall(log, k).cost <=> k = m
  BY StandalonePays
<1>5. \A c, k : projectToolCall(log, c) # projectStandaloneModelCall(log, k)
  BY DEF projectToolCall, projectStandaloneModelCall, Unit
<1> HIDE DEF S, m
<1>6. CASE \E c \in ToolCalls(log) : u = projectToolCall(log, c)
  <2>1. PICK c \in ToolCalls(log) : u = projectToolCall(log, c)
    BY <1>6
  <2>2. ~Alone
    BY <1>5, <2>1
  <2>3. i \in u.cost => Tool1
    BY <1>3, <2>1
  <2>4. Tool1 => i \in u.cost
    BY <1>1, <1>3
  <2> QED BY <2>2, <2>3, <2>4 DEF m, S
<1>7. CASE \E k \in Standalone(log) : u = projectStandaloneModelCall(log, k)
  <2>1. PICK k \in Standalone(log) : u = projectStandaloneModelCall(log, k)
    BY <1>7
  <2>2. ~Tool1
    BY <1>5, <2>1
  <2>3. k = m => S \cap ToolCalls(log) = {}
    BY <2>1 DEF Standalone, S
  <2>4. i \in u.cost <=> k = m
    BY <1>4, <2>1
  <2>5. Alone => i \in u.cost
    BY <1>4
  <2> QED BY <2>1, <2>2, <2>3, <2>4, <2>5 DEF m, S
<1>8. CASE u.kind \notin {"tool", "model"}
  <2>1. u.cost = {}
    BY <1>8 DEF Units, projectAgentUnits, projectExecutionUnits, projectTerminalUnit,
                projectToolCall, projectStandaloneModelCall, projectUnknownEvent,
                projectExecutionStep, Unit
  <2>2. ~Tool1 /\ ~Alone
    BY <1>8 DEF projectToolCall, projectStandaloneModelCall, Unit
  <2> QED BY <2>1, <2>2 DEF m, S
<1>9. \/ \E c \in ToolCalls(log) : u = projectToolCall(log, c)
      \/ \E k \in Standalone(log) : u = projectStandaloneModelCall(log, k)
      \/ u.kind \notin {"tool", "model"}
  BY DEF Units, projectAgentUnits, projectExecutionUnits, projectTerminalUnit,
         projectUnknownEvent, projectExecutionStep, Unit
<1> QED BY <1>6, <1>7, <1>8, <1>9

\* projectDecisionAndCost: every attempt is paid for by one unit, except those of
\* an answer whose smallest call was not started while another was.
LEMMA CostSplit ==
    ASSUME TypeOK, LogInv, NEW i \in LlmEvents(log)
    PROVE  LET Paying == {u \in Units(log, reports) : i \in u.cost}
           IN  /\ Cardinality(Paying) = IF Orphaned(log, log[i].model) THEN 0 ELSE 1
               /\ Paying = {} <=> Orphaned(log, log[i].model)
<1> DEFINE m == log[i].model
           S == CallsOfModel(log, m)
           T == ToolCalls(log)
           Paying == {u \in Units(log, reports) : i \in u.cost}
           t == projectToolCall(log, Least(S))
           a == projectStandaloneModelCall(log, m)
<1>1. \A u \in Units(log, reports) :
        i \in u.cost <=> \/ S # {} /\ Least(S) \in T /\ u = t
                         \/ S \cap T = {} /\ u = a
  BY Payers
<1>2. m \in ModelCalls(log)
  BY DEF ModelCalls
<1>3. Least(S) \in T => t \in Units(log, reports)
  BY DEF Units, projectAgentUnits
<1>4. S \cap T = {} => a \in Units(log, reports)
  BY <1>2 DEF Units, projectAgentUnits, Standalone
<1>5. S # {} => Least(S) \in S
  BY LeastCall
<1>6. Orphaned(log, m) <=> S \cap T # {} /\ Least(S) \notin T
  BY DEF Orphaned
<1> HIDE DEF S, T, t, a, m
<1>7. CASE S \cap T = {}
  <2>1. Paying = {a}
    BY <1>1, <1>4, <1>5, <1>7
  <2> QED BY <1>6, <1>7, <2>1, FS_Singleton DEF m
<1>8. CASE S \cap T # {} /\ Least(S) \in T
  <2>1. Paying = {t}
    BY <1>1, <1>3, <1>8
  <2> QED BY <1>6, <1>8, <2>1, FS_Singleton DEF m
<1>9. CASE S \cap T # {} /\ Least(S) \notin T
  <2>1. Paying = {}
    BY <1>1, <1>9
  <2> QED BY <1>6, <1>9, <2>1, FS_EmptySet DEF m
<1> QED BY <1>7, <1>8, <1>9

\* projectDecisionAndCost: in every log a run can leave behind, an attempt of a
\* model call is paid for by exactly one unit, the orphaned ones by none.
THEOREM CostPaidOnce == Spec => []CostPartitioned
<1>1. TypeOK /\ LogInv => CostPartitioned
  BY CostSplit DEF CostPartitioned
<1> QED BY <1>1, TypeCorrect, LogInvariance, PTL

-----------------------------------------------------------------------------
(* Metrics                                                                 *)

\* As many values as there are arguments, when no two share one.
LEMMA ImageCount ==
    ASSUME NEW S, IsFiniteSet(S), NEW f, \A x, y \in S : f[x] = f[y] => x = y
    PROVE  LET T == {f[x] : x \in S}
           IN  IsFiniteSet(T) /\ Cardinality(T) = Cardinality(S)
<1> DEFINE T == {f[x] : x \in S}
           g == [x \in S |-> f[x]]
<1>1. g \in Surjection(S, T) /\ g \in Injection(S, T)
  BY DEF Surjection, Injection, IsInjective
<1> HIDE DEF g, T
<1>2. IsFiniteSet(T) /\ Cardinality(T) = Cardinality(S)
  BY <1>1, FS_Surjection
<1> QED BY <1>2 DEF T

\* The events of the log are finitely many.
LEMMA LlmFinite ==
    ASSUME TypeOK
    PROVE  \A S \in SUBSET LlmEvents(log) : IsFiniteSet(S) /\ Cardinality(S) \in Nat
<1>1. Len(log) \in Nat /\ DOMAIN log = 1..Len(log)
  BY DEF TypeOK
<1>2. IsFiniteSet(DOMAIN log)
  BY <1>1, FS_Interval
<1>3. \A S \in SUBSET LlmEvents(log) : S \in SUBSET DOMAIN log
  BY DEF LlmEvents
<1> QED BY <1>2, <1>3, FS_Subset, FS_CardinalityType

\* The attempts of a model call: 1, 2, ..., at least one.
LEMMA AttemptsOfCall ==
    ASSUME TypeOK, LogInv, NEW m \in ModelCalls(log)
    PROVE  \E n \in Nat \ {0} : AttemptsOf(log, m) = 1..n
<1>1. m \in 0..MaxModelCalls
  BY BoundFacts DEF LogInv, ModelsInRow
<1>2. PICK n \in 0..MaxAttempts : AttemptsOf(log, m) = 1..n
  BY <1>1 DEF LogInv, AttemptsInRow
<1>3. AttemptsOf(log, m) # {}
  BY DEF ModelCalls, AttemptsOf, EventsOfModel
<1> QED BY <1>2, <1>3, BoundFacts

\* validateModelAttempts accepts every log of the loop.
LEMMA AttemptsValid ==
    ASSUME TypeOK, LogInv, NEW m \in ModelCalls(log)
    PROVE  validateModelAttempts(log, m)
<1> DEFINE E == EventsOfModel(log, m)
           f == [i \in E |-> log[i].attempt]
<1>1. \A i, j \in E : log[i].attempt = log[j].attempt => i = j
  BY DEF EventsOfModel, LogInv, AttemptsApart
<1>2. PICK n \in Nat \ {0} : AttemptsOf(log, m) = 1..n
  BY AttemptsOfCall
<1>3. IsFiniteSet(E)
  BY LlmFinite DEF EventsOfModel
<1>4. {f[i] : i \in E} = AttemptsOf(log, m)
  BY DEF AttemptsOf
<1>5. \A i, j \in E : f[i] = f[j] => i = j
  BY <1>1
<1> HIDE DEF f, E
<1>6. Cardinality(1..n) = Cardinality(E)
  <2>1. Cardinality({f[i] : i \in E}) = Cardinality(E)
    BY <1>3, <1>5, ImageCount
  <2> QED BY <1>2, <1>4, <2>1
<1>7. Cardinality(E) = n
  BY <1>6, FS_Interval
<1> QED BY <1>1, <1>2, <1>7 DEF validateModelAttempts, AttemptsOf, E

\* The latency: an attempt is in a unit that pays for it, or orphaned.
LEMMA LatencyAgrees ==
    ASSUME TypeOK, LogInv
    PROVE  LET paid == UNION {u.cost : u \in Units(log, reports)}
               orphaned == {i \in LlmEvents(log) : Orphaned(log, log[i].model)}
           IN  projectLatency(log) =
                 Cardinality(paid) + Cardinality(orphaned) + Cardinality(Steps)
<1> DEFINE paid == UNION {u.cost : u \in Units(log, reports)}
           orphaned == {i \in LlmEvents(log) : Orphaned(log, log[i].model)}
<1>1. paid \subseteq LlmEvents(log)
  <2>1. \A c : EventsLinked(log, c) \subseteq LlmEvents(log)
    BY DEF EventsLinked, EventsOfModel
  <2>2. \A u \in Units(log, reports) : u.cost \subseteq LlmEvents(log)
    <3>1. \A c : projectToolCall(log, c).cost \subseteq LlmEvents(log)
      BY <2>1 DEF projectToolCall, Unit
    <3>2. \A m : projectStandaloneModelCall(log, m).cost \subseteq LlmEvents(log)
      BY DEF projectStandaloneModelCall, Unit, EventsOfModel
    <3>3. /\ \A i : projectUnknownEvent(i).cost = {}
          /\ \A a, j, n, s : projectExecutionStep(a, j, n, s).cost = {}
          /\ projectTerminalUnit(log).cost = {}
      BY DEF projectUnknownEvent, projectExecutionStep, projectTerminalUnit, Unit
    <3> QED BY <3>1, <3>2, <3>3 DEF Units, projectAgentUnits, projectExecutionUnits
  <2> QED BY <2>2
<1>2. \A i \in LlmEvents(log) : i \in paid <=> i \notin orphaned
  <2> SUFFICES ASSUME NEW i \in LlmEvents(log) PROVE i \in paid <=> i \notin orphaned OBVIOUS
  <2> DEFINE Paying == {u \in Units(log, reports) : i \in u.cost}
  <2>1. Paying = {} <=> i \in orphaned
    BY CostSplit
  <2>2. i \in paid <=> Paying # {}
    OBVIOUS
  <2> QED BY <2>1, <2>2
<1>3. paid = LlmEvents(log) \ orphaned
  BY <1>1, <1>2
<1>4. Cardinality(paid) = Cardinality(LlmEvents(log)) - Cardinality(orphaned)
  <2>1. LlmEvents(log) \cap orphaned = orphaned
    OBVIOUS
  <2> QED BY <1>3, <2>1, LlmFinite, FS_Difference
<1>5. /\ Cardinality(LlmEvents(log)) \in Nat /\ Cardinality(orphaned) \in Nat
      /\ Cardinality(Steps) \in Nat
  BY LlmFinite, FS_CardinalityType, TrajectoryAssumption
<1> QED BY <1>4, <1>5 DEF projectLatency

\* The retries: attempts beyond the first of each model call, and of each job.
LEMMA RetriesAgree ==
    ASSUME TypeOK, LogInv
    PROVE  projectRetries(log, reports) + projectLLMCalls(log) =
             Cardinality(LlmEvents(log)) + JobRetries(reports)
<1> DEFINE Events1 == {i \in LlmEvents(log) : log[i].attempt = 1}
           Later == {i \in LlmEvents(log) : log[i].attempt > 1}
           f == [i \in Events1 |-> log[i].model]
           g == [i \in Later |-> <<log[i].model, log[i].attempt>>]
<1>1. \A i \in LlmEvents(log) : log[i].attempt \in Nat \ {0}
  <2> SUFFICES ASSUME NEW i \in LlmEvents(log) PROVE log[i].attempt \in Nat \ {0} OBVIOUS
  <2>1. log[i].model \in ModelCalls(log) /\ log[i].attempt \in AttemptsOf(log, log[i].model)
    BY DEF ModelCalls, AttemptsOf, EventsOfModel
  <2> QED BY <2>1, AttemptsOfCall
<1>2. Later = LlmEvents(log) \ Events1 /\ LlmEvents(log) \cap Events1 = Events1
  BY <1>1
<1>3. IsFiniteSet(Events1) /\ IsFiniteSet(Later) /\ IsFiniteSet(LlmEvents(log))
      /\ Cardinality(Events1) \in Nat /\ Cardinality(LlmEvents(log)) \in Nat
  BY LlmFinite
<1>4. Cardinality(Later) = Cardinality(LlmEvents(log)) - Cardinality(Events1)
  <2>1. Cardinality(LlmEvents(log) \ Events1) =
          Cardinality(LlmEvents(log)) - Cardinality(LlmEvents(log) \cap Events1)
    BY <1>3, FS_Difference
  <2> QED BY <1>2, <2>1
<1>5. Cardinality(ModelCalls(log)) = Cardinality(Events1)
  <2>1. {f[i] : i \in Events1} = ModelCalls(log)
    <3>1. \A i \in Events1 : f[i] \in ModelCalls(log)
      BY DEF ModelCalls
    <3>2. ASSUME NEW m \in ModelCalls(log) PROVE \E i \in Events1 : f[i] = m
      <4>1. 1 \in AttemptsOf(log, m)
        BY AttemptsOfCall
      <4>2. PICK i \in EventsOfModel(log, m) : log[i].attempt = 1
        BY <4>1 DEF AttemptsOf
      <4> QED BY <4>2 DEF EventsOfModel
    <3> QED BY <3>1, <3>2
  <2>2. \A i, j \in Events1 : f[i] = f[j] => i = j
    BY DEF LogInv, AttemptsApart
  <2> HIDE DEF f, Events1
  <2> QED BY <1>3, <2>1, <2>2, ImageCount
<1>6. llmPhysicalRetries(log) = Cardinality(Later)
  <2>1. {g[i] : i \in Later} = {<<log[i].model, log[i].attempt>> : i \in Later}
    OBVIOUS
  <2>2. \A i, j \in Later : g[i] = g[j] => i = j
    BY DEF LogInv, AttemptsApart
  <2>3. llmPhysicalRetries(log) = Cardinality({g[i] : i \in Later})
    BY <2>1 DEF llmPhysicalRetries
  <2> HIDE DEF g, Later
  <2> QED BY <1>3, <2>2, <2>3, ImageCount
<1>7. JobRetries(reports) \in Nat
  <2> DEFINE R == {x \in Jobs \X (1..MaxRetries) : x[2] > 1 /\ x[2] <= reports[x[1]]}
  <2>1. IsFiniteSet(1..MaxRetries)
    BY BoundFacts, FS_Interval
  <2>2. IsFiniteSet(Jobs \X (1..MaxRetries))
    BY <2>1, FS_Product, TrajectoryAssumption
  <2>3. R \in SUBSET (Jobs \X (1..MaxRetries))
    OBVIOUS
  <2> HIDE DEF R
  <2>4. Cardinality(R) \in Nat
    BY <2>2, <2>3, FS_Subset, FS_CardinalityType
  <2> QED BY <2>4 DEF JobRetries, R
<1> HIDE DEF Events1, Later
<1> QED BY <1>3, <1>4, <1>5, <1>6, <1>7 DEF projectRetries, projectLLMCalls

\* The trajectory and the metrics read the same log alike: validateModelAttempts
\* accepts it, and latency and retries are what the units of Project add up to.
THEOREM ProjectorsAgree == Spec => []MetricsAgree
<1>1. TypeOK /\ LogInv => MetricsAgree
  BY AttemptsValid, LatencyAgrees, RetriesAgree DEF MetricsAgree
<1> QED BY <1>1, TypeCorrect, LogInvariance, PTL

-----------------------------------------------------------------------------
(* Places                                                                  *)

\* Larger numbers do not change which is the smallest.
LEMMA LeastKept ==
    ASSUME NEW S, S # {}, NEW R \in SUBSET Nat, S \subseteq R,
           \A x \in R \ S, y \in S : y < x
    PROVE  Least(R) = Least(S)
<1>1. Least(S) \in S /\ \A y \in S : Least(S) <= y
  BY LeastIn
<1>2. Least(R) \in R /\ \A y \in R : Least(R) <= y
  BY LeastIn
<1>3. Least(R) <= Least(S) /\ Least(R) \in Nat /\ Least(S) \in Nat
  BY <1>1, <1>2
<1>4. Least(R) \in S
  BY <1>1, <1>2, <1>3
<1> QED BY <1>1, <1>3, <1>4

\* The log grows at its end, and no event to come names a call that has begun.
LogGrows ==
    /\ DOMAIN log' \subseteq Nat
    /\ \A i \in DOMAIN log : i \in DOMAIN log' /\ log'[i] = log[i]
    /\ \A i \in DOMAIN log' \ DOMAIN log : \A k \in DOMAIN log : k < i
    /\ \A i \in LlmEvents(log') \ LlmEvents(log) : log'[i].calls \cap ToolCalls(log) = {}

\* Every step keeps what is in the log, and its calls keep their model calls.
LEMMA StepGrows ==
    ASSUME TypeOK, LogInv, [Next]_vars
    PROVE  LogGrows
<1>1. Len(log) \in Nat /\ DOMAIN log = 1..Len(log) /\ DOMAIN log \subseteq Nat
  BY DEF TypeOK
<1>2. /\ DOMAIN log' \subseteq Nat
      /\ \A i \in DOMAIN log : i \in DOMAIN log' /\ log'[i] = log[i]
      /\ \A i \in DOMAIN log' \ DOMAIN log : \A k \in DOMAIN log : k < i
  <2>1. CASE UNCHANGED log
    BY <1>1, <2>1
  <2>2. ASSUME NEW events \in Seq(Events), Write(events)
        PROVE  /\ DOMAIN log' \subseteq Nat
               /\ \A i \in DOMAIN log : i \in DOMAIN log' /\ log'[i] = log[i]
               /\ \A i \in DOMAIN log' \ DOMAIN log : \A k \in DOMAIN log : k < i
    <3>1. /\ DOMAIN log' = 1..Len(log') /\ Len(log') = Len(log) + Len(events)
          /\ Len(events) \in Nat
          /\ \A i \in DOMAIN log : i \in DOMAIN log' /\ log'[i] = log[i]
      BY <2>2, Extends
    <3> QED BY <1>1, <3>1
  <2> QED BY <2>1, <2>2, LogSteps
<1>3. \A i \in LlmEvents(log') \ LlmEvents(log) : log'[i].calls \cap ToolCalls(log) = {}
  <2>1. CASE Plain
    BY <2>1 DEF Plain
  <2>2. CASE RecordAttempt
    <3> DEFINE n == Len(log) + 1
               good == turn.ok /\ turn.attempt + 1 = turn.last
               calls == IF good THEN {turn.calls[i] : i \in DOMAIN turn.calls} ELSE {}
    <3>1. /\ LlmEvents(log') = LlmEvents(log) \cup {n}
          /\ log'[n] = Llm(turn.model, turn.attempt + 1, good, calls)
      BY <2>2, RecordAdds
    <3>2. log'[n].calls = calls
      BY <3>1 DEF Llm
    <3>3. turn.attempt < turn.last
      BY <2>2 DEF RecordAttempt
    <3>4. \A x \in DOMAIN turn.calls, k \in DOMAIN log : turn.calls[x] # log[k].call
      BY <3>3 DEF LogInv, TurnShape
    <3>5. calls \cap ToolCalls(log) = {}
      BY <3>4 DEF ToolCalls
    <3> HIDE DEF n, good, calls
    <3> QED BY <3>1, <3>2, <3>5
  <2> QED BY <2>1, <2>2, LogSteps
<1> QED BY <1>2, <1>3 DEF LogGrows

\* A tool call that has begun keeps its first event and its model calls.
LEMMA ToolPlaceKept ==
    ASSUME TypeOK, LogGrows, NEW c \in ToolCalls(log)
    PROVE  c \in ToolCalls(log') /\ FirstSeq(log', c) = FirstSeq(log, c)
<1> DEFINE S == ToolEvents(log, c) \cup EventsLinked(log, c)
           R == ToolEvents(log', c) \cup EventsLinked(log', c)
<1>1. c \in ToolCalls(log')
  BY DEF ToolCalls, LogGrows
<1>2. S # {} /\ S \subseteq DOMAIN log /\ R \subseteq DOMAIN log'
  BY DEF ToolCalls, ToolEvents, EventsLinked, EventsOfModel, LlmEvents
<1>3. \A i \in DOMAIN log : i \in ToolEvents(log', c) <=> i \in ToolEvents(log, c)
  BY DEF ToolEvents, LogGrows
<1>4. \A i \in DOMAIN log : i \in LlmEvents(log') <=> i \in LlmEvents(log)
  BY DEF LlmEvents, LogGrows
<1>5. \A m : \A i \in DOMAIN log : i \in EventsOfModel(log', m) <=> i \in EventsOfModel(log, m)
  BY <1>4 DEF EventsOfModel, LogGrows
<1>6. \A m : m \in LinkedModels(log', c) <=> m \in LinkedModels(log, c)
  <2> SUFFICES ASSUME NEW m
               PROVE  m \in LinkedModels(log', c) <=> m \in LinkedModels(log, c)
    OBVIOUS
  <2>1. ASSUME NEW l PROVE m \in LinkedModels(l, c) <=>
                             \E i \in EventsOfModel(l, m) : c \in l[i].calls
    BY DEF LinkedModels, CallsOfModel, EventsOfModel, ModelCalls
  <2>2. \A i \in EventsOfModel(log', m) : c \in log'[i].calls => i \in EventsOfModel(log, m)
    <3> SUFFICES ASSUME NEW i \in EventsOfModel(log', m), c \in log'[i].calls
                 PROVE  i \in EventsOfModel(log, m)
      OBVIOUS
    <3>1. i \in LlmEvents(log)
      BY DEF LogGrows, EventsOfModel
    <3> QED BY <1>5, <3>1 DEF LlmEvents
  <2>3. \A i \in EventsOfModel(log, m) : i \in EventsOfModel(log', m) /\ log'[i] = log[i]
    BY <1>5 DEF EventsOfModel, LlmEvents, LogGrows
  <2> QED BY <2>1, <2>2, <2>3
<1>7. \A i \in DOMAIN log : i \in EventsLinked(log', c) <=> i \in EventsLinked(log, c)
  BY <1>5, <1>6 DEF EventsLinked
<1>8. \A i \in DOMAIN log : i \in R <=> i \in S
  BY <1>3, <1>7
<1>9. FirstSeq(log, c) = Least(S) /\ FirstSeq(log', c) = Least(R)
  BY DEF FirstSeq
<1> HIDE DEF S, R
<1>10. S \subseteq R
  BY <1>2, <1>8
<1>11. R \in SUBSET Nat /\ \A x \in R \ S, y \in S : y < x
  BY <1>2, <1>8 DEF LogGrows
<1>12. Least(R) = Least(S)
  BY <1>2, <1>10, <1>11, LeastKept
<1> QED BY <1>1, <1>9, <1>12

\* The batch of the run keeps its anchor.
LEMMA AnchorKept ==
    ASSUME TypeOK, LogGrows, Anchors(log) # {}
    PROVE  Anchors(log') # {} /\ Least(Anchors(log')) = Least(Anchors(log))
<1>1. \A i \in DOMAIN log : i \in Anchors(log') <=> i \in Anchors(log)
  BY DEF Anchors, LogGrows
<1>2. Anchors(log) \subseteq DOMAIN log /\ Anchors(log') \subseteq DOMAIN log'
  BY DEF Anchors
<1>3. Anchors(log) \subseteq Anchors(log')
  BY <1>1, <1>2
<1>4. Anchors(log') \in SUBSET Nat /\ \A x \in Anchors(log') \ Anchors(log), y \in Anchors(log) : y < x
  BY <1>1, <1>2 DEF LogGrows
<1> QED BY <1>3, <1>4, LeastKept

\* A report is not taken back.
LEMMA ReportsGrow ==
    ASSUME TypeOK, [Next]_vars, NEW j \in Jobs
    PROVE  reports[j] \in Nat /\ reports'[j] \in Nat /\ reports[j] <= reports'[j]
<1>1. reports \in [Jobs -> 0..MaxRetries] /\ reports[j] \in Nat
  BY BoundFacts DEF TypeOK
<1>2. CASE UNCHANGED reports
  BY <1>1, <1>2
<1>3. ASSUME NEW k \in Jobs, JobReported(k)
      PROVE  reports'[j] \in Nat /\ reports[j] <= reports'[j]
  <2>1. reports' = [reports EXCEPT ![k] = reports[k] + 1] /\ reports[k] \in Nat
    BY <1>1, <1>3, BoundFacts DEF JobReported
  <2> QED BY <1>1, <2>1
<1>4. UNCHANGED reports \/ \E k \in Jobs : JobReported(k)
  BY DEF Next, vars, ModelAnswers, RecordAttempt, StartTool, ToolReturns, ToolFails, ToolAsks,
         UserAnswers, TurnEnds, RunEnds
<1> QED BY <1>1, <1>2, <1>3, <1>4

\* Project, run again after more events and reports, has the units it had at the
\* places they had.
LEMMA PlacesStep ==
    ASSUME TypeOK, LogInv, [Next]_vars
    PROVE  Places(log, reports) \subseteq Places(log', reports')
<1> SUFFICES ASSUME NEW u \in Units(log, reports), u.kind \in {"tool", "unknown", "step"}
             PROVE  <<u.kind, u.id, u.order>> \in Places(log', reports')
  BY DEF Places
<1>1. LogGrows
  BY StepGrows
<1>2. ASSUME NEW v \in Units(log', reports'), v.kind = u.kind, v.id = u.id, v.order = u.order
      PROVE  <<u.kind, u.id, u.order>> \in Places(log', reports')
  BY <1>2 DEF Places
<1>3. ASSUME NEW c \in ToolCalls(log), u = projectToolCall(log, c)
      PROVE  <<u.kind, u.id, u.order>> \in Places(log', reports')
  <2> DEFINE v == projectToolCall(log', c)
  <2>1. c \in ToolCalls(log') /\ FirstSeq(log', c) = FirstSeq(log, c)
    BY <1>1, ToolPlaceKept
  <2>2. v \in Units(log', reports')
    BY <2>1 DEF Units, projectAgentUnits
  <2>3. v.kind = u.kind /\ v.id = u.id /\ v.order = u.order
    BY <1>3, <2>1 DEF projectToolCall, Unit
  <2> HIDE DEF v
  <2> QED BY <1>2, <2>2, <2>3
<1>4. ASSUME NEW i \in Unknown(log), u = projectUnknownEvent(i)
      PROVE  <<u.kind, u.id, u.order>> \in Places(log', reports')
  <2>1. i \in Unknown(log')
    BY <1>1 DEF Unknown, LogGrows
  <2>2. u \in Units(log', reports')
    BY <1>4, <2>1 DEF Units, projectAgentUnits
  <2> QED BY <1>2, <2>2
<1>5. ASSUME u \in projectExecutionUnits(log, reports)
      PROVE  <<u.kind, u.id, u.order>> \in Places(log', reports')
  <2>1. PICK x \in Jobs \X (1..MaxRetries) \X Steps :
          /\ Anchors(log) # {} /\ x[2] <= reports[x[1]]
          /\ u = projectExecutionStep(Least(Anchors(log)), x[1], x[2], x[3])
    BY <1>5 DEF projectExecutionUnits
  <2>2. /\ Anchors(log') # {}
        /\ u = projectExecutionStep(Least(Anchors(log')), x[1], x[2], x[3])
    BY <1>1, <2>1, AnchorKept
  <2>3. x[2] <= reports'[x[1]]
    <3>1. x[1] \in Jobs /\ x[2] \in Nat
      BY BoundFacts
    <3>2. \A j \in Jobs : reports[j] \in Nat /\ reports'[j] \in Nat /\ reports[j] <= reports'[j]
      BY ReportsGrow
    <3> QED BY <2>1, <3>1, <3>2
  <2>4. u \in projectExecutionUnits(log', reports')
    BY <2>2, <2>3 DEF projectExecutionUnits
  <2> QED BY <1>2, <2>4 DEF Units
<1>6. \/ \E c \in ToolCalls(log) : u = projectToolCall(log, c)
      \/ \E i \in Unknown(log) : u = projectUnknownEvent(i)
      \/ u \in projectExecutionUnits(log, reports)
  BY DEF Units, projectAgentUnits, projectTerminalUnit, projectStandaloneModelCall, Unit
<1> QED BY <1>3, <1>4, <1>5, <1>6

\* A trajectory read while the run goes on is the beginning of a history: tool
\* calls, unknown events and steps keep their places whatever is added, for logs
\* of any length, and also when the places do not suffice to order them.
THEOREM PlacesStay == Spec => PlacesAreKept
<1>1. TypeOK /\ LogInv /\ [Next]_vars => Places(log, reports) \subseteq Places(log', reports')
  BY PlacesStep
<1>2. TypeOK /\ LogInv /\ [Next]_vars => [Places(log, reports) \subseteq Places(log', reports')]_vars
  BY <1>1
<1> QED BY <1>2, TypeCorrect, LogInvariance, PTL DEF Spec, PlacesAreKept
=============================================================================
