--------------------------- MODULE ResearchProofs ---------------------------
(***************************************************************************)
(* Proofs about Research for any number of requests, runs, generations and *)
(* links.  Requests read the store and act on it many statements later, so *)
(* the invariant says what a request may still believe of the store        *)
(* (RequestOK); it survives the steps of others because the store only     *)
(* moves in one direction (StoreGrows).                                    *)
(***************************************************************************)
EXTENDS Research, TLAPS

Begun == experiment \in {"active", "completed"}
AllScheduled == \A r \in Runs : runs[r].status # "none"

\* s was read from the source of run r, now or earlier.
Taken(s, r) ==
    /\ linksExtend(s.links, runs[r].links)
    /\ s.status = "completed" => agent[r].status = "completed" /\ s.log = agent[r].log
    /\ \A g \in Generations : HasReport(s.exec[g]) => HasReport(agent[r].exec[g])

\* Stored metrics belong to a final snapshot and to the decision of the oracle.
MetricsOK(r) ==
    runs[r].metrics # << >> =>
        LET m == runs[r].metrics[1] IN
        /\ validateImmutableMetricInputs(m.snap) /\ Taken(m.snap, r)
        /\ m.orc = oracle[r] /\ oracle[r] # << >>

StoreOK ==
    /\ experiment \in {"none", "draft", "active", "completed"}
    /\ runs \in [Runs -> Rows] /\ \A r \in Runs : RowOK(runs[r])
    /\ oracle \in [Runs -> Optional(Verdicts)] /\ proj \in [Runs -> Optional(Snapshots)]
    /\ acked \in [Runs -> SUBSET Statuses]
    /\ Begun => AllScheduled
    /\ (\E r \in Runs : runs[r].started) => Begun
    /\ experiment = "completed" => AllRunsTerminal
    /\ \A r \in Runs : acked[r] # {} => acked[r] = {runs[r].status} /\ Terminal(runs[r].status)
    /\ \A r \in Runs : runs[r].status = "none" => runs[r] = NoRow
    /\ \A r \in Runs : runs[r].status = "completed" => runs[r].metrics # << >>
    /\ \A r \in Runs : MetricsOK(r)

AgentsOK ==
    /\ agent \in [Runs -> Agents]
    /\ \A r \in Runs : agent[r].approved <= agent[r].latest

\* The operation a request is at that statement for.
OpFits(q) ==
    /\ q.pc \in {"experiment", "cas"} => q.op \in {"start", "complete", "fail", "cancel"}
    /\ q.pc \in {"settle", "finish"} => q.op \in {"complete", "fail", "cancel"}
    /\ q.pc \in {"source", "replace"} => q.op \in {"measure", "complete", "export"}
    /\ q.pc \in {"oracle", "state", "list"} => q.op \in {"measure", "complete"}
    /\ q.pc = "write" => q.op = "measure"

\* What the request that is starting the experiment has created.
Created(q) ==
    /\ q.pc = "create" => \A r \in Runs : r < q.run => runs[r].status # "none"
    /\ q.pc = "activate" => AllScheduled
    /\ q.pc \in {"create", "activate"} => q.row = NoRow /\ q.snap = << >> /\ q.orc = << >>

\* What a request knows of the statuses.
Knows(q) ==
    /\ q.pc = "cas" /\ q.op = "start" => Begun
    /\ q.pc = "cas" /\ q.op = "complete" => runs[q.run].metrics # << >>
    /\ q.pc \in {"settle", "finish"} => runs[q.run].status = Target(q.op)
    /\ q.pc = "finish" => AllRunsTerminal
    /\ q.pc # "idle" /\ Terminal(q.row.status) => runs[q.run].status = q.row.status
    /\ q.pc # "idle" /\ q.row.metrics # << >> => runs[q.run].metrics # << >>

\* What a request that measures holds of the evidence.
Holds(q) ==
    /\ q.pc \in {"oracle", "state", "replace", "list", "write"} => q.snap # << >>
    /\ q.pc \in {"state", "list", "write"} \/ (q.pc = "replace" /\ q.op # "export") => q.orc # << >>
    /\ q.pc # "idle" /\ q.snap # << >> => Taken(q.snap[1], q.run)
    /\ q.pc # "idle" /\ q.orc # << >> => q.orc = oracle[q.run]
    /\ q.pc = "write" => validateImmutableMetricInputs(q.snap[1])

RequestOK(q) ==
    /\ q \in RequestStates
    /\ q.pc # "idle" => q.run \in Runs
    /\ OpFits(q) /\ Created(q) /\ Knows(q) /\ Holds(q)

IInv ==
    /\ StoreOK /\ AgentsOK
    /\ req \in [Requests -> RequestStates]
    /\ \A p \in Requests : RequestOK(req[p])

\* The direction the store moves in.
StoreGrows ==
    /\ Begun => Begun'
    /\ \A r \in Runs :
          /\ runs[r].status # "none" => runs'[r].status # "none"
          /\ Terminal(runs[r].status) => runs'[r].status = runs[r].status
          /\ linksExtend(runs[r].links, runs'[r].links)
          /\ runs[r].metrics # << >> => runs'[r].metrics = runs[r].metrics
          /\ oracle[r] # << >> => oracle'[r] = oracle[r]
          /\ agent[r].status = "completed" =>
                agent'[r].status = "completed" /\ agent'[r].log = agent[r].log
          /\ \A g \in Generations : HasReport(agent[r].exec[g]) => HasReport(agent'[r].exec[g])

-----------------------------------------------------------------------------
(* Links and rows                                                          *)

\* Links extend themselves.
LEMMA LinksReflexive == \A l : linksExtend(l, l)
BY DEF linksExtend, pointerExtends

\* Links that were extended twice were extended.
LEMMA LinksTransitive ==
    ASSUME NEW a, NEW b, NEW c, linksExtend(a, b), linksExtend(b, c)
    PROVE  linksExtend(a, c)
BY DEF linksExtend, pointerExtends

\* Complete links cannot be extended.
LEMMA CompleteLinksStay ==
    ASSUME NEW a \in Links, NEW b \in Links, completeRunLinks(a), linksExtend(a, b)
    PROVE  b = a
<1>1. a.agent = TRUE /\ b.agent = TRUE /\ a.sha = TRUE /\ b.sha = TRUE
  BY DEF completeRunLinks, linksExtend, Links
<1>2. a.gen = b.gen /\ a.batch = b.batch /\ a.exec = b.exec
  BY DEF completeRunLinks, linksExtend, pointerExtends
<1> QED BY <1>1, <1>2 DEF Links

\* A run starts with links that are an ordered prefix.
LEMMA NoLinksOK == NoLinks \in Links /\ OrderedPrefix(NoLinks)
<1>1. 0 \in 0..MaxGenerations
  BY GenerationAssumption
<1> QED BY <1>1 DEF NoLinks, Links, OrderedPrefix

\* An optional column may be NULL.
LEMMA EmptyOptional == \A S : << >> \in Optional(S)
BY DEF Optional

\* An optional column may hold one value.
LEMMA SingleOptional ==
    ASSUME NEW S, NEW x \in S
    PROVE  <<x>> \in Optional(S) /\ <<x>> # << >> /\ <<x>>[1] = x
<1>1. <<x>> \in Seq(S) /\ Len(<<x>>) = 1
  OBVIOUS
<1> QED BY <1>1 DEF Optional

\* An optional column that is not NULL holds one value.
LEMMA OptionalElement ==
    ASSUME NEW S, NEW s \in Optional(S), s # << >>
    PROVE  s[1] \in S /\ s = <<s[1]>>
<1>1. s \in Seq(S) /\ Len(s) <= 1
  BY DEF Optional
<1>2. Len(s) = 1
  BY <1>1
<1> QED BY <1>1, <1>2

\* The row CreateRun inserts is one the schema allows.
LEMMA NoRowOK == NoRow \in Rows /\ RowOK(NoRow) /\ NewRow \in Rows /\ RowOK(NewRow)
<1>1. NoRow \in Rows
  BY NoLinksOK, EmptyOptional DEF NoRow, Rows, Statuses
<1>2. /\ NoRow.status = "none" /\ NoRow.started = FALSE /\ NoRow.links = NoLinks
      /\ NoRow.metrics = << >>
  BY DEF NoRow
<1> HIDE DEF NoRow
<1>3. NewRow \in Rows
  BY <1>1 DEF NewRow, Rows, Statuses
<1>4. NewRow.status = "pending" /\ NewRow.started = FALSE /\ NewRow.links = NoLinks
  BY <1>1, <1>2 DEF NewRow, Rows
<1> HIDE DEF NewRow
<1> QED BY <1>1, <1>2, <1>3, <1>4, NoLinksOK DEF RowOK

\* The schedule is not empty and starts with run 1.
LEMMA RunsFacts == Runs \subseteq Nat \ {0} /\ 1 \in Runs
BY ScheduleAssumption DEF Runs

\* What a request that has not started holds.
LEMMA IdleFacts ==
    /\ Idle \in RequestStates /\ Idle.pc = "idle" /\ Idle.row = NoRow
    /\ Idle.snap = << >> /\ Idle.orc = << >> /\ Idle.tr = << >>
<1>1. Idle.pc = "idle" /\ Idle.row = NoRow /\ Idle.snap = << >> /\ Idle.orc = << >> /\ Idle.tr = << >>
  BY DEF Idle
<1>2. Idle \in RequestStates
  <2> HIDE DEF NoRow
  <2> QED BY NoRowOK, EmptyOptional DEF Idle, RequestStates
<1> QED BY <1>1, <1>2

\* A request that has returned believes nothing.
LEMMA IdleOK == RequestOK(Idle)
<1> HIDE DEF Idle, NoRow
<1> QED BY IdleFacts DEF RequestOK, OpFits, Created, Knows, Holds

-----------------------------------------------------------------------------
(* Requests and the store                                                  *)

\* A snapshot that was read stays one, and stored metrics stay right.
LEMMA TakenStays ==
    ASSUME StoreGrows, NEW r \in Runs, NEW s, Taken(s, r)
    PROVE  Taken(s, r)'
<1>1. linksExtend(s.links, runs[r].links) /\ linksExtend(runs[r].links, runs'[r].links)
  BY DEF Taken, StoreGrows
<1>2. linksExtend(s.links, runs'[r].links)
  BY <1>1, LinksTransitive
<1>3. s.status = "completed" => agent'[r].status = "completed" /\ s.log = agent'[r].log
  BY DEF Taken, StoreGrows
<1>4. \A g \in Generations : HasReport(s.exec[g]) => HasReport(agent'[r].exec[g])
  BY DEF Taken, StoreGrows
<1> QED BY <1>2, <1>3, <1>4 DEF Taken

\* Metrics that are not written again stay those of their evidence.
LEMMA MetricsStay ==
    ASSUME StoreGrows, NEW r \in Runs, MetricsOK(r), runs'[r].metrics = runs[r].metrics
    PROVE  MetricsOK(r)'
<1> SUFFICES ASSUME runs[r].metrics # << >> PROVE MetricsOK(r)'
  BY DEF MetricsOK
<1> DEFINE m == runs[r].metrics[1]
<1>1. /\ validateImmutableMetricInputs(m.snap) /\ Taken(m.snap, r)
      /\ m.orc = oracle[r] /\ oracle[r] # << >>
  BY DEF MetricsOK
<1>2. Taken(m.snap, r)'
  <2> HIDE DEF m
  <2>1. m' = m
    BY DEF m
  <2>2. \A s : Taken(s, r) => Taken(s, r)'
    BY TakenStays
  <2> QED BY <1>1, <2>1, <2>2 DEF Taken
<1>3. oracle'[r] = oracle[r]
  BY <1>1 DEF StoreGrows
<1>4. runs'[r].metrics[1] = m
  OBVIOUS
<1> HIDE DEF m
<1> QED BY <1>1, <1>2, <1>3, <1>4 DEF MetricsOK, Taken, m

\* A request that stops, or goes on to new, keeps its beliefs while the store grows.
LEMMA Believes ==
    ASSUME StoreOK, StoreGrows, NEW p \in Requests, NEW new, RequestOK(new), req'[p] = new
    PROVE  RequestOK(req[p])'
<1>1. new \in RequestStates /\ (new.pc # "idle" => new.run \in Runs)
      /\ OpFits(new) /\ Created(new) /\ Knows(new) /\ Holds(new)
  BY DEF RequestOK
<1>2. OpFits(req[p])'
  BY <1>1 DEF OpFits
<1>3. Created(req[p])'
  BY <1>1 DEF Created, AllScheduled, StoreGrows
<1>4. Knows(req[p])'
  <2>1. new.pc = "cas" /\ new.op = "start" => Begun'
    BY <1>1 DEF Knows, StoreGrows
  <2>2. new.pc \in {"settle", "finish"} => runs'[new.run].status = Target(new.op)
    <3> SUFFICES ASSUME new.pc \in {"settle", "finish"}
                 PROVE  runs'[new.run].status = Target(new.op) OBVIOUS
    <3>1. new.run \in Runs /\ runs[new.run].status = Target(new.op)
          /\ new.op \in {"complete", "fail", "cancel"}
      BY <1>1 DEF Knows, OpFits
    <3>2. Terminal(Target(new.op))
      BY <3>1 DEF Terminal, Target
    <3> QED BY <3>1, <3>2 DEF StoreGrows
  <2>3. new.pc = "finish" => AllRunsTerminal'
    BY <1>1 DEF Knows, StoreGrows, AllRunsTerminal
  <2>4. new.pc # "idle" /\ Terminal(new.row.status) => runs'[new.run].status = new.row.status
    BY <1>1 DEF Knows, StoreGrows
  <2>5. /\ new.pc # "idle" /\ new.row.metrics # << >> => runs'[new.run].metrics # << >>
        /\ new.pc = "cas" /\ new.op = "complete" => runs'[new.run].metrics # << >>
    BY <1>1 DEF Knows, StoreGrows
  <2> QED BY <2>1, <2>2, <2>3, <2>4, <2>5 DEF Knows
<1>5. Holds(req[p])'
  <2>1. new.pc # "idle" /\ new.snap # << >> => Taken(new.snap[1], new.run)'
    BY <1>1, TakenStays DEF Holds
  <2>2. new.pc # "idle" /\ new.orc # << >> => new.orc = oracle'[new.run]
    BY <1>1 DEF Holds, StoreGrows
  <2> QED BY <1>1, <2>1, <2>2 DEF Holds
<1> QED BY <1>1, <1>2, <1>3, <1>4, <1>5 DEF RequestOK

\* A step of the store that no request takes part in.
LEMMA StoreStep ==
    ASSUME IInv, StoreGrows, StoreOK', AgentsOK', UNCHANGED req
    PROVE  IInv' /\ StoreGrows
<1>1. \A p \in Requests : RequestOK(req[p])'
  <2> SUFFICES ASSUME NEW p \in Requests PROVE RequestOK(req[p])' OBVIOUS
  <2>1. RequestOK(req[p]) /\ req'[p] = req[p] /\ StoreOK
    BY DEF IInv
  <2> QED BY <2>1, Believes
<1> QED BY <1>1 DEF IInv

\* A step of one request, whose new state fits the new store.
LEMMA RequestStepNew ==
    ASSUME IInv, StoreGrows, StoreOK', AgentsOK', NEW p \in Requests, NEW new \in RequestStates,
           Go(p, new), RequestOK(req[p])'
    PROVE  IInv' /\ StoreGrows
<1>1. req' = [req EXCEPT ![p] = new] /\ req \in [Requests -> RequestStates] /\ StoreOK
  BY DEF Go, IInv
<1>2. req' \in [Requests -> RequestStates]
  BY <1>1
<1>3. \A o \in Requests : RequestOK(req[o])'
  <2> SUFFICES ASSUME NEW o \in Requests PROVE RequestOK(req[o])' OBVIOUS
  <2>1. CASE o = p
    BY <2>1
  <2>2. CASE o # p
    <3>1. req'[o] = req[o] /\ RequestOK(req[o])
      BY <1>1, <2>2 DEF IInv
    <3> QED BY <1>1, <3>1, Believes
  <2> QED BY <2>1, <2>2
<1> QED BY <1>2, <1>3 DEF IInv

\* A step of one request, whose new state fitted the old store.
LEMMA RequestStepOld ==
    ASSUME IInv, StoreGrows, StoreOK', AgentsOK', NEW p \in Requests, NEW new,
           Go(p, new), RequestOK(new)
    PROVE  IInv' /\ StoreGrows
<1>1. new \in RequestStates /\ StoreOK /\ req'[p] = new
  BY DEF RequestOK, IInv, Go
<1>2. RequestOK(req[p])'
  BY <1>1, Believes
<1> QED BY <1>1, <1>2, RequestStepNew

\* A step that only reads.
LEMMA StoreSameGrows ==
    ASSUME IInv, StoreSame
    PROVE  StoreGrows /\ StoreOK' /\ AgentsOK'
<1>1. /\ experiment' = experiment /\ runs' = runs /\ oracle' = oracle /\ proj' = proj
      /\ agent' = agent /\ acked' = acked
  BY DEF StoreSame
<1>2. StoreGrows
  BY <1>1, LinksReflexive DEF StoreGrows, Begun
<1>3. StoreOK'
  BY <1>1 DEF IInv, StoreOK, Begun, AllScheduled, AllRunsTerminal, MetricsOK, Taken
<1>4. AgentsOK'
  BY <1>1 DEF IInv, AgentsOK
<1> QED BY <1>2, <1>3, <1>4

\* A statement that only reads, after which the request goes on with new.
LEMMA ReadStep ==
    ASSUME IInv, StoreSame, NEW p \in Requests, NEW new, Go(p, new), RequestOK(new)
    PROVE  IInv' /\ StoreGrows
BY StoreSameGrows, RequestStepOld

\* A statement that only reads, after which the request is over.
LEMMA ReturnStep ==
    ASSUME IInv, StoreSame, NEW p \in Requests, Return(p)
    PROVE  IInv' /\ StoreGrows
BY IdleOK, ReadStep DEF Return

-----------------------------------------------------------------------------
(* How a request goes on                                                   *)

\* What Continue keeps of a request on its way to a compare-and-swap.
Reduced(q, next) ==
    [Idle EXCEPT !.op = q.op, !.run = q.run, !.pc = next, !.exp = q.exp,
                 !.row.status = IF next = "cas" THEN q.row.status ELSE @]

\* The fields of a request on its way to a compare-and-swap or its answer.
LEMMA ReducedFields ==
    ASSUME NEW q \in RequestStates, NEW next \in {"cas", "settle"}
    PROVE  LET new == Reduced(q, next) IN
           /\ new \in RequestStates
           /\ new.op = q.op /\ new.run = q.run /\ new.pc = next /\ new.exp = q.exp
           /\ new.row.status = IF next = "cas" THEN q.row.status ELSE "none"
           /\ new.row.metrics = << >>
           /\ new.snap = << >> /\ new.orc = << >> /\ new.tr = << >>
<1> DEFINE st == IF next = "cas" THEN q.row.status ELSE "none"
           row == [NoRow EXCEPT !.status = st]
           new == [op |-> q.op, run |-> q.run, pc |-> next, row |-> row, exp |-> q.exp,
                   snap |-> << >>, orc |-> << >>, tr |-> << >>]
<1>1. q.row \in Rows /\ q.row.status \in Statuses
  BY DEF RequestStates, Rows
<1>2. st \in Statuses
  BY <1>1 DEF Statuses
<1>3. NoRow.status = "none" /\ NoRow.metrics = << >>
  BY DEF NoRow
<1>4. Reduced(q, next) = new
  <2>1. Idle.row = NoRow /\ Idle.row.status = "none"
    BY <1>3 DEF Idle
  <2>2. [Idle.row EXCEPT !.status = IF next = "cas" THEN q.row.status ELSE @] = row
    BY <2>1
  <2> HIDE DEF row
  <2>3. Reduced(q, next) = [Idle EXCEPT !.op = q.op, !.run = q.run, !.pc = next, !.exp = q.exp,
                                        !.row = row]
    BY <2>2 DEF Reduced
  <2> QED BY <2>3 DEF Idle
<1> HIDE DEF st
<1>5. row \in Rows /\ row.status = st /\ row.metrics = << >>
  <2> HIDE DEF NoRow
  <2> QED BY <1>2, <1>3, NoRowOK DEF Rows
<1> HIDE DEF row
<1>6. new \in RequestStates
  BY <1>5, EmptyOptional DEF RequestStates
<1> QED BY <1>4, <1>5, <1>6 DEF st

\* The three ways in which a request goes on.
LEMMA ContinueCases ==
    ASSUME NEW p \in Requests, NEW q, NEW next, Continue(p, q, next)
    PROVE  /\ next = "idle" => Return(p)
           /\ next \in {"cas", "settle"} => Go(p, Reduced(q, next))
           /\ next \notin {"idle", "cas", "settle"} => Go(p, [q EXCEPT !.pc = next])
<1>1. CASE next = "idle"
  BY <1>1 DEF Continue
<1>2. CASE next \in {"cas", "settle"}
  BY <1>2 DEF Continue, Reduced
<1>3. CASE next \notin {"idle", "cas", "settle"}
  BY <1>3 DEF Continue
<1> QED BY <1>1, <1>2, <1>3

\* On its way to a compare-and-swap, with what it must know.
LEMMA CasOK ==
    ASSUME NEW q \in RequestStates, q.run \in Runs, q.op \in {"start", "complete", "fail", "cancel"},
           q.op = "start" => Begun, q.op = "complete" => runs[q.run].metrics # << >>,
           Terminal(q.row.status) => runs[q.run].status = q.row.status
    PROVE  RequestOK(Reduced(q, "cas"))
<1> DEFINE new == Reduced(q, "cas")
<1>1. /\ new \in RequestStates
      /\ new.op = q.op /\ new.run = q.run /\ new.pc = "cas" /\ new.row.status = q.row.status
      /\ new.row.metrics = << >> /\ new.snap = << >> /\ new.orc = << >>
  BY ReducedFields
<1> HIDE DEF new
<1>2. OpFits(new) /\ Created(new) /\ Knows(new) /\ Holds(new)
  BY <1>1 DEF OpFits, Created, Knows, Holds
<1> QED BY <1>1, <1>2 DEF RequestOK, new

\* On its way to its answer, the outcome being stored.
LEMMA SettleOK ==
    ASSUME NEW q \in RequestStates, q.run \in Runs, q.op \in {"complete", "fail", "cancel"},
           runs[q.run].status = Target(q.op)
    PROVE  RequestOK(Reduced(q, "settle"))
<1> DEFINE new == Reduced(q, "settle")
<1>1. /\ new \in RequestStates
      /\ new.op = q.op /\ new.run = q.run /\ new.pc = "settle" /\ new.row.status = "none"
      /\ new.row.metrics = << >> /\ new.snap = << >> /\ new.orc = << >>
  BY ReducedFields
<1> HIDE DEF new
<1>2. OpFits(new) /\ Created(new) /\ Knows(new) /\ Holds(new)
  BY <1>1 DEF OpFits, Created, Knows, Holds, Terminal
<1> QED BY <1>1, <1>2 DEF RequestOK, new

\* FinishRun decides on the row it read.
LEMMA FinishGoesOn ==
    ASSUME IInv, NEW p \in Requests, NEW q \in RequestStates, q.run \in Runs,
           q.op \in {"complete", "fail"},
           Terminal(q.row.status) => runs[q.run].status = q.row.status,
           q.op = "complete" => runs[q.run].metrics # << >>,
           Continue(p, q, FinishDecision(q))
    PROVE  \E new : Go(p, new) /\ RequestOK(new)
<1>1. CASE FinishDecision(q) = "settle"
  <2>1. q.row.status = Target(q.op)
    BY <1>1 DEF FinishDecision
  <2>2. runs[q.run].status = Target(q.op)
    BY <2>1 DEF Target, Terminal
  <2>3. RequestOK(Reduced(q, "settle"))
    BY <2>2, SettleOK
  <2> QED BY <1>1, <2>3, ContinueCases
<1>2. CASE FinishDecision(q) = "cas"
  <2>1. RequestOK(Reduced(q, "cas"))
    BY CasOK
  <2> QED BY <1>2, <2>1, ContinueCases
<1>3. CASE FinishDecision(q) = "idle"
  BY <1>3, ContinueCases, IdleOK DEF Return
<1> QED BY <1>1, <1>2, <1>3 DEF FinishDecision

-----------------------------------------------------------------------------
(* The experiment                                                          *)

\* CreateExperiment keeps the invariant.
LEMMA CreateExperimentKeeps ==
    ASSUME IInv, CreateExperiment
    PROVE  IInv' /\ StoreGrows
<1>1. /\ experiment = "none" /\ experiment' = "draft" /\ runs' = runs /\ oracle' = oracle
      /\ proj' = proj /\ agent' = agent /\ req' = req /\ acked' = acked
  BY DEF CreateExperiment
<1>2. StoreOK /\ AgentsOK
  BY DEF IInv
<1>3. ~Begun /\ ~Begun'
  BY <1>1 DEF Begun
<1>4. StoreGrows
  BY <1>1, <1>3, LinksReflexive DEF StoreGrows
<1>5. StoreOK'
  BY <1>1, <1>2, <1>3 DEF StoreOK, AllRunsTerminal, MetricsOK, Taken
<1>6. AgentsOK'
  BY <1>1, <1>2 DEF AgentsOK
<1> QED BY <1>1, <1>4, <1>5, <1>6, StoreStep

\* StartExperiment begins with nothing created.
LEMMA StartExperimentKeeps ==
    ASSUME IInv, NEW p \in Requests, StartExperiment(p)
    PROVE  IInv' /\ StoreGrows
<1> DEFINE new == [Idle EXCEPT !.op = "begin", !.run = 1, !.pc = "create", !.exp = experiment]
<1>1. Go(p, new) /\ StoreSame /\ experiment \in {"draft", "active"}
  BY DEF StartExperiment
<1>2. /\ new \in RequestStates /\ new.pc = "create" /\ new.run = 1 /\ new.row = NoRow
      /\ new.snap = << >> /\ new.orc = << >>
  <2> HIDE DEF Idle
  <2> QED BY <1>1, IdleFacts, RunsFacts DEF RequestStates
<1>3. NoRow.status = "none" /\ NoRow.metrics = << >>
  BY DEF NoRow
<1> HIDE DEF new, NoRow
<1>4. OpFits(new) /\ Holds(new)
  BY <1>2 DEF OpFits, Holds
<1>5. Created(new)
  BY <1>2, RunsFacts DEF Created
<1>6. Knows(new)
  BY <1>2, <1>3 DEF Knows, Terminal
<1>7. RequestOK(new)
  BY <1>2, <1>4, <1>5, <1>6, RunsFacts DEF RequestOK
<1> QED BY <1>1, <1>7, ReadStep

\* CreateRun adds the next row of the schedule, or finds it.
LEMMA CreateRunKeeps ==
    ASSUME IInv, NEW p \in Requests, CreateRun(p)
    PROVE  IInv' /\ StoreGrows
<1> DEFINE q == req[p]
           r == q.run
<1>1. RequestOK(q) /\ StoreOK /\ AgentsOK /\ q.pc = "create"
  BY DEF IInv, CreateRun, At
<1>2. /\ q \in RequestStates /\ r \in Runs /\ Created(q) /\ q.row = NoRow
      /\ q.snap = << >> /\ q.orc = << >>
  BY <1>1 DEF RequestOK, Created
<1>3. /\ runs' = [runs EXCEPT ![r] = IF @.status = "none" THEN NewRow ELSE @]
      /\ experiment' = experiment /\ oracle' = oracle /\ proj' = proj /\ agent' = agent
      /\ acked' = acked
  BY DEF CreateRun
<1>4. runs \in [Runs -> Rows]
  BY <1>1 DEF StoreOK
<1>5. /\ NoRow.status = "none" /\ ~NoRow.started /\ NoRow.links = NoLinks /\ NoRow.metrics = << >>
      /\ NewRow.status = "pending" /\ ~NewRow.started /\ NewRow.links = NoLinks
      /\ NewRow.metrics = << >>
  BY DEF NoRow, NewRow
<1>6. \A o \in Runs : runs'[o] = runs[o] \/ (o = r /\ runs[o] = NoRow /\ runs'[o] = NewRow)
  BY <1>1, <1>2, <1>3, <1>4 DEF StoreOK
<1>7. runs' \in [Runs -> Rows] /\ runs'[r].status # "none"
  <2> HIDE DEF NewRow
  <2> QED BY <1>2, <1>3, <1>4, <1>5, NoRowOK
<1> HIDE DEF NoRow, NewRow
<1>8. StoreGrows
  <2>1. Begun => Begun'
    BY <1>3 DEF Begun
  <2> QED BY <1>3, <1>5, <1>6, <2>1, LinksReflexive DEF StoreGrows, Terminal
<1>9. StoreOK'
  <2>1. \A o \in Runs : RowOK(runs'[o])
    BY <1>1, <1>6, NoRowOK DEF StoreOK
  <2>2. Begun' <=> Begun
    BY <1>3 DEF Begun
  <2>3. Begun' => AllScheduled'
    BY <1>1, <1>8, <2>2 DEF StoreOK, AllScheduled, StoreGrows
  <2>4. (\E o \in Runs : runs'[o].started) => Begun'
    BY <1>1, <1>5, <1>6, <2>2 DEF StoreOK
  <2>5. experiment' = "completed" => AllRunsTerminal'
    BY <1>1, <1>3, <1>8 DEF StoreOK, AllRunsTerminal, StoreGrows
  <2>6. \A o \in Runs : acked'[o] # {} => acked'[o] = {runs'[o].status} /\ Terminal(runs'[o].status)
    BY <1>1, <1>3, <1>8 DEF StoreOK, StoreGrows
  <2>7. \A o \in Runs : /\ runs'[o].status = "none" => runs'[o] = NoRow
                        /\ runs'[o].status = "completed" => runs'[o].metrics # << >>
    BY <1>1, <1>5, <1>6 DEF StoreOK
  <2>8. \A o \in Runs : MetricsOK(o)'
    BY <1>1, <1>5, <1>6, <1>8, MetricsStay DEF StoreOK
  <2> QED BY <1>1, <1>3, <1>7, <2>1, <2>3, <2>4, <2>5, <2>6, <2>7, <2>8 DEF StoreOK
<1>10. AgentsOK'
  BY <1>1, <1>3 DEF AgentsOK
<1>11. \A o \in Runs : o < r + 1 => runs'[o].status # "none"
  <2> SUFFICES ASSUME NEW o \in Runs, o < r + 1 PROVE runs'[o].status # "none" OBVIOUS
  <2>1. CASE o = r
    BY <1>7, <2>1
  <2>2. CASE o # r
    <3>1. o \in Nat /\ r \in Nat
      BY <1>2, RunsFacts
    <3>2. o < r
      BY <2>2, <3>1
    <3>3. runs[o].status # "none"
      BY <1>1, <1>2, <3>2 DEF Created
    <3> QED BY <1>8, <3>3 DEF StoreGrows
  <2> QED BY <2>1, <2>2
<1>12. CASE r + 1 \in Runs
  <2> DEFINE new == [q EXCEPT !.run = r + 1]
  <2>1. Go(p, new)
    BY <1>12 DEF CreateRun
  <2>2. /\ new \in RequestStates /\ new.run = r + 1 /\ new.pc = "create" /\ new.row = NoRow
        /\ new.snap = << >> /\ new.orc = << >>
    <3> HIDE DEF q
    <3> QED BY <1>1, <1>2, <1>12 DEF RequestStates
  <2>3. req'[p] = new
    BY <2>1 DEF Go, IInv
  <2> HIDE DEF new
  <2>4. (OpFits(req[p]) /\ Holds(req[p]))'
    BY <2>2, <2>3 DEF OpFits, Holds
  <2>5. Created(req[p])'
    BY <1>11, <2>2, <2>3 DEF Created
  <2>6. Knows(req[p])'
    BY <1>5, <2>2, <2>3 DEF Knows, Terminal
  <2>7. RequestOK(req[p])'
    BY <1>12, <2>2, <2>3, <2>4, <2>5, <2>6 DEF RequestOK
  <2> QED BY <1>8, <1>9, <1>10, <2>1, <2>2, <2>7, RequestStepNew
<1>13. CASE r + 1 \notin Runs /\ q.exp = "draft"
  <2> DEFINE new == [q EXCEPT !.pc = "activate"]
  <2>1. Go(p, new)
    BY <1>13 DEF CreateRun, Step
  <2>2. /\ new \in RequestStates /\ new.run = r /\ new.pc = "activate" /\ new.row = NoRow
        /\ new.snap = << >> /\ new.orc = << >>
    <3> HIDE DEF q
    <3> QED BY <1>1, <1>2 DEF RequestStates
  <2>3. req'[p] = new
    BY <2>1 DEF Go, IInv
  <2>4. AllScheduled'
    <3>1. \A o \in Runs : o < r + 1
      BY <1>2, <1>13, ScheduleAssumption DEF Runs
    <3> QED BY <1>11, <3>1 DEF AllScheduled
  <2> HIDE DEF new
  <2>5. (OpFits(req[p]) /\ Holds(req[p]))'
    BY <2>2, <2>3 DEF OpFits, Holds
  <2>6. Created(req[p])'
    BY <2>2, <2>3, <2>4 DEF Created
  <2>7. Knows(req[p])'
    BY <1>5, <2>2, <2>3 DEF Knows, Terminal
  <2>8. RequestOK(req[p])'
    BY <1>2, <2>2, <2>3, <2>5, <2>6, <2>7 DEF RequestOK
  <2> QED BY <1>8, <1>9, <1>10, <2>1, <2>2, <2>8, RequestStepNew
<1>14. CASE r + 1 \notin Runs /\ q.exp # "draft"
  <2>1. Go(p, Idle)
    BY <1>14 DEF CreateRun, Return
  <2> QED BY <1>8, <1>9, <1>10, <2>1, IdleOK, RequestStepOld
<1> QED BY <1>12, <1>13, <1>14

\* Activate, with the whole schedule stored.
LEMMA ActivateKeeps ==
    ASSUME IInv, NEW p \in Requests, Activate(p)
    PROVE  IInv' /\ StoreGrows
<1>1. StoreOK /\ AgentsOK /\ AllScheduled
  BY DEF IInv, Activate, At, RequestOK, Created
<1>2. /\ experiment' = IF experiment = "draft" THEN "active" ELSE experiment
      /\ runs' = runs /\ oracle' = oracle /\ proj' = proj /\ agent' = agent /\ acked' = acked
      /\ Go(p, Idle)
  BY DEF Activate, Return
<1>3. (Begun => Begun') /\ AllScheduled'
  BY <1>1, <1>2 DEF Begun, AllScheduled
<1>4. StoreGrows
  BY <1>2, <1>3, LinksReflexive DEF StoreGrows
<1>5. StoreOK'
  BY <1>1, <1>2, <1>3 DEF StoreOK, AllRunsTerminal, MetricsOK, Taken
<1>6. AgentsOK'
  BY <1>1, <1>2 DEF AgentsOK
<1> QED BY <1>2, <1>4, <1>5, <1>6, IdleOK, RequestStepOld

-----------------------------------------------------------------------------
(* Reads and decisions                                                     *)

\* The columns an operation goes on with are those of a row.
LEMMA UsedFacts ==
    ASSUME NEW row \in Rows, NEW op
    PROVE  /\ Used(op, row) \in Rows
           /\ Used(op, row).status \in {row.status, "none"}
           /\ Used(op, row).metrics \in {row.metrics, << >>}
<1>1. NoRow \in Rows /\ NoRow.status = "none" /\ NoRow.metrics = << >>
  <2>1. NoRow.status = "none" /\ NoRow.metrics = << >>
    BY DEF NoRow
  <2> QED BY <2>1, NoRowOK
<1> HIDE DEF NoRow
<1>2. CASE op = "complete"
  BY <1>2 DEF Used
<1>3. CASE op = "measure"
  <2>1. Used(op, row) = [NoRow EXCEPT !.links = row.links]
    BY <1>3 DEF Used
  <2> QED BY <1>1, <2>1 DEF Rows
<1>4. CASE op \notin {"complete", "measure"}
  <2>1. Used(op, row) = [NoRow EXCEPT !.status = row.status, !.started = row.started]
    BY <1>4 DEF Used
  <2> QED BY <1>1, <2>1 DEF Rows
<1> QED BY <1>2, <1>3, <1>4

\* GetRun: what was read of the row is still true, or only grows.
LEMMA ReadRowKeeps ==
    ASSUME IInv, NEW p \in Requests, NEW op \in Operations, NEW r \in Runs, ReadRow(p, op, r)
    PROVE  IInv' /\ StoreGrows
<1> DEFINE row == Used(op, runs[r])
           pc == IF op = "measure" THEN "source" ELSE "experiment"
           new == [Idle EXCEPT !.op = op, !.run = r, !.row = row, !.pc = pc]
<1>1. Go(p, new) /\ StoreSame
  BY DEF ReadRow
<1>2. runs[r] \in Rows
  BY DEF IInv, StoreOK
<1>3. row \in Rows /\ row.status \in {runs[r].status, "none"} /\ row.metrics \in {runs[r].metrics, << >>}
  BY <1>2, UsedFacts
<1> HIDE DEF row
<1>4. /\ new \in RequestStates /\ new.op = op /\ new.pc = pc /\ new.run = r /\ new.row = row
      /\ new.snap = << >> /\ new.orc = << >>
  <2> HIDE DEF Idle
  <2>1. pc \in {"source", "experiment"}
    OBVIOUS
  <2> HIDE DEF pc
  <2> QED BY <1>3, <2>1, IdleFacts DEF RequestStates
<1> HIDE DEF new
<1>5. OpFits(new)
  BY <1>4 DEF OpFits, Operations
<1>6. Created(new) /\ Holds(new)
  BY <1>4 DEF Created, Holds
<1>7. Knows(new)
  BY <1>3, <1>4 DEF Knows, Terminal
<1>8. RequestOK(new)
  BY <1>4, <1>5, <1>6, <1>7 DEF RequestOK
<1> QED BY <1>1, <1>8, ReadStep

\* GetExperiment, and the decision on the two rows that were read.
LEMMA ReadExperimentKeeps ==
    ASSUME IInv, NEW p \in Requests, ReadExperiment(p)
    PROVE  IInv' /\ StoreGrows
<1> DEFINE o == req[p]
           q == [o EXCEPT !.exp = experiment]
<1>1. Continue(p, q, Decision(q)) /\ StoreSame /\ o.pc = "experiment"
  BY DEF ReadExperiment, At
<1>2. RequestOK(o) /\ o \in RequestStates /\ StoreOK
  BY DEF IInv
<1>3. /\ o.run \in Runs /\ o.op \in {"start", "complete", "fail", "cancel"}
      /\ Terminal(o.row.status) => runs[o.run].status = o.row.status
      /\ o.row.metrics # << >> => runs[o.run].metrics # << >>
      /\ Holds(o)
  BY <1>1, <1>2 DEF RequestOK, OpFits, Knows
<1>4. experiment \in {"none", "draft", "active", "completed"}
  BY <1>2 DEF StoreOK
<1>5. /\ q \in RequestStates /\ q.op = o.op /\ q.run = o.run /\ q.row = o.row
      /\ q.exp = experiment /\ q.snap = o.snap /\ q.orc = o.orc
  <2> HIDE DEF o
  <2> QED BY <1>2, <1>4 DEF RequestStates
<1> HIDE DEF q
<1>6. CASE Decision(q) = "idle"
  BY <1>1, <1>6, ContinueCases, ReturnStep
<1>7. CASE o.op = "start" /\ Decision(q) # "idle"
  <2>1. Decision(q) = "cas" /\ q.exp = "active"
    BY <1>5, <1>7 DEF Decision, StartDecision
  <2>2. RequestOK(Reduced(q, "cas"))
    BY <1>3, <1>5, <1>7, <2>1, CasOK DEF Begun
  <2> QED BY <1>1, <2>1, <2>2, ContinueCases, ReadStep
<1>8. CASE o.op = "complete" /\ Decision(q) # "idle"
  <2>1. Decision(q) = "source"
    BY <1>5, <1>8 DEF Decision, EvidenceDecision
  <2> DEFINE new == [q EXCEPT !.pc = "source"]
  <2>2. Go(p, new)
    BY <1>1, <2>1, ContinueCases
  <2>3. /\ new \in RequestStates /\ new.op = o.op /\ new.pc = "source" /\ new.run = o.run
        /\ new.row = o.row /\ new.snap = o.snap /\ new.orc = o.orc
    BY <1>5 DEF RequestStates
  <2> HIDE DEF new
  <2>4. OpFits(new) /\ Created(new)
    BY <1>8, <2>3 DEF OpFits, Created
  <2>5. Knows(new)
    BY <1>3, <2>3 DEF Knows
  <2>6. Holds(new)
    BY <1>1, <1>3, <2>3 DEF Holds
  <2>7. RequestOK(new)
    BY <1>3, <2>3, <2>4, <2>5, <2>6 DEF RequestOK
  <2> QED BY <1>1, <2>2, <2>7, ReadStep
<1>9. CASE o.op = "fail" /\ Decision(q) # "idle"
  <2>1. Decision(q) = FinishDecision(q)
    BY <1>5, <1>9 DEF Decision
  <2>2. PICK new : Go(p, new) /\ RequestOK(new)
    BY <1>1, <1>3, <1>5, <1>9, <2>1, FinishGoesOn
  <2> QED BY <1>1, <2>2, ReadStep
<1>10. CASE o.op = "cancel" /\ Decision(q) # "idle"
  <2>1. Decision(q) = CancelDecision(q)
    BY <1>5, <1>10 DEF Decision
  <2>2. CASE q.row.status = "cancelled"
    <3>1. Decision(q) = "settle" /\ runs[q.run].status = Target(q.op)
      BY <1>3, <1>5, <1>10, <2>1, <2>2 DEF CancelDecision, Terminal, Target
    <3>2. RequestOK(Reduced(q, "settle"))
      BY <1>3, <1>5, <1>10, <3>1, SettleOK
    <3> QED BY <1>1, <3>1, <3>2, ContinueCases, ReadStep
  <2>3. CASE q.row.status # "cancelled"
    <3>1. Decision(q) = "cas"
      BY <1>10, <2>1, <2>3 DEF CancelDecision
    <3>2. RequestOK(Reduced(q, "cas"))
      BY <1>3, <1>5, <1>10, CasOK
    <3> QED BY <1>1, <3>1, <3>2, ContinueCases, ReadStep
  <2> QED BY <2>2, <2>3
<1> QED BY <1>3, <1>6, <1>7, <1>8, <1>9, <1>10

-----------------------------------------------------------------------------
(* Status changes                                                          *)

\* A compare-and-swap that changes the row follows CanTransition.
LEMMA SwappedFacts ==
    ASSUME NEW row \in Rows, RowOK(row), NEW from, NEW to \in Statuses
    PROVE  \/ Swapped(row, from, to) = row
           \/ LET new == Swapped(row, from, to) IN
              /\ CanTransition(row.status, to) /\ new \in Rows /\ RowOK(new)
              /\ new.status = to /\ new.links = row.links /\ new.metrics = row.metrics
              /\ new.started => row.started \/ to = "running"
<1> SUFFICES ASSUME row.status = from, CanTransition(from, to)
             PROVE  LET new == Swapped(row, from, to) IN
                    /\ new \in Rows /\ RowOK(new)
                    /\ new.status = to /\ new.links = row.links /\ new.metrics = row.metrics
                    /\ new.started => row.started \/ to = "running"
  BY DEF Swapped
<1> DEFINE st == row.started \/ to = "running"
           new == [row EXCEPT !.status = to, !.started = st]
<1>1. Swapped(row, from, to) = new
  BY DEF Swapped
<1>2. st \in BOOLEAN
  OBVIOUS
<1>3. (st => row.started \/ to = "running") /\ (row.started \/ to = "running" => st)
  OBVIOUS
<1> HIDE DEF st
<1>4. new \in Rows /\ new.status = to /\ new.started = st /\ new.links = row.links /\ new.metrics = row.metrics
  BY <1>2 DEF Rows
<1> HIDE DEF new
<1>5. OrderedPrefix(row.links) /\ (from = "running" => row.started)
  BY DEF RowOK
<1>6. to \in {"running", "completed", "failed"} => st
  BY <1>3, <1>5 DEF CanTransition
<1>7. to \notin {"none", "pending"}
  BY DEF CanTransition
<1>8. RowOK(new)
  BY <1>4, <1>5, <1>6, <1>7 DEF RowOK
<1> QED BY <1>1, <1>3, <1>4, <1>8

\* CompareAndSwapRunStatus: of the racing requests one writes the status.
LEMMA CompareAndSwapRunStatusKeeps ==
    ASSUME IInv, NEW p \in Requests, CompareAndSwapRunStatus(p)
    PROVE  IInv' /\ StoreGrows
<1> DEFINE q == req[p]
           r == q.run
           from == IF q.op = "start" THEN "pending"
                   ELSE IF q.op = "cancel" THEN q.row.status ELSE "running"
           to == Target(q.op)
           next == IF runs'[r] # runs[r] /\ q.op # "start" THEN "settle" ELSE "idle"
<1>1. /\ q.pc = "cas" /\ runs' = [runs EXCEPT ![r] = Swapped(runs[r], from, to)]
      /\ experiment' = experiment /\ oracle' = oracle /\ proj' = proj /\ agent' = agent
      /\ acked' = acked
  BY DEF CompareAndSwapRunStatus, At
<1>2. Continue(p, q, next)
  BY DEF CompareAndSwapRunStatus
<1>3. StoreOK /\ AgentsOK /\ RequestOK(q)
  BY DEF IInv
<1>4. /\ q \in RequestStates /\ r \in Runs /\ q.op \in {"start", "complete", "fail", "cancel"}
      /\ q.op = "start" => Begun
      /\ q.op = "complete" => runs[r].metrics # << >>
  BY <1>1, <1>3 DEF RequestOK, OpFits, Knows
<1>5. runs \in [Runs -> Rows] /\ runs[r] \in Rows /\ RowOK(runs[r])
  BY <1>3, <1>4 DEF StoreOK
<1>6. to \in {"running", "completed", "failed", "cancelled"} /\ (to = "running" => q.op = "start")
      /\ (to = "completed" => q.op = "complete")
  BY <1>4 DEF Target
<1>7. to \in Statuses
  BY <1>6 DEF Statuses
<1> HIDE DEF from, to
<1>8. \/ runs'[r] = runs[r]
      \/ /\ CanTransition(runs[r].status, to) /\ runs'[r] \in Rows /\ RowOK(runs'[r])
         /\ runs'[r].status = to /\ runs'[r].links = runs[r].links
         /\ runs'[r].metrics = runs[r].metrics
         /\ runs'[r].started => runs[r].started \/ to = "running"
  <2>1. runs'[r] = Swapped(runs[r], from, to)
    BY <1>1, <1>4, <1>5
  <2> QED BY <2>1, <1>5, <1>7, SwappedFacts
<1>9. \A o \in Runs : o # r => runs'[o] = runs[o]
  BY <1>1, <1>5
<1>10. DOMAIN runs' = Runs /\ runs' = [o \in Runs |-> runs'[o]]
  BY <1>1, <1>5
<1>11. CASE runs'[r] = runs[r]
  <2>1. runs' = runs
    BY <1>1, <1>4, <1>5, <1>11
  <2>2. StoreSame
    BY <1>1, <2>1 DEF StoreSame
  <2>3. next = "idle"
    BY <1>11
  <2> HIDE DEF next
  <2> QED BY <1>2, <2>2, <2>3, ContinueCases, ReturnStep
<1>12. CASE runs'[r] # runs[r]
  <2>1. /\ CanTransition(runs[r].status, to) /\ runs'[r] \in Rows /\ RowOK(runs'[r])
        /\ runs'[r].status = to /\ runs'[r].links = runs[r].links
        /\ runs'[r].metrics = runs[r].metrics
        /\ runs'[r].started => runs[r].started \/ to = "running"
    BY <1>8, <1>12
  <2>2. ~Terminal(runs[r].status) /\ runs[r].status # "none" /\ to # "none"
    BY <2>1 DEF CanTransition, Terminal
  <2>3. Begun' <=> Begun
    BY <1>1 DEF Begun
  <2>4. StoreGrows
    <3> SUFFICES ASSUME NEW o \in Runs
                 PROVE  /\ runs[o].status # "none" => runs'[o].status # "none"
                        /\ Terminal(runs[o].status) => runs'[o].status = runs[o].status
                        /\ linksExtend(runs[o].links, runs'[o].links)
                        /\ runs[o].metrics # << >> => runs'[o].metrics = runs[o].metrics
      BY <1>1, <2>3 DEF StoreGrows
    <3>1. CASE o = r
      BY <2>1, <2>2, <3>1, LinksReflexive
    <3>2. CASE o # r
      BY <1>9, <3>2, LinksReflexive
    <3> QED BY <3>1, <3>2
  <2>5. StoreOK'
    <3>1. runs' \in [Runs -> Rows] /\ \A o \in Runs : RowOK(runs'[o])
      BY <1>3, <1>5, <1>9, <1>10, <2>1 DEF StoreOK
    <3>2. Begun' => AllScheduled'
      BY <1>3, <2>3, <2>4 DEF StoreOK, AllScheduled, StoreGrows
    <3>3. (\E o \in Runs : runs'[o].started) => Begun'
      BY <1>3, <1>4, <1>6, <1>9, <2>1, <2>3 DEF StoreOK
    <3>4. experiment' = "completed" => AllRunsTerminal'
      BY <1>1, <1>3, <1>4, <2>2 DEF StoreOK, AllRunsTerminal
    <3>5. \A o \in Runs : acked'[o] # {} => acked'[o] = {runs'[o].status} /\ Terminal(runs'[o].status)
      BY <1>1, <1>3, <1>9, <2>2 DEF StoreOK
    <3>6. \A o \in Runs : /\ runs'[o].status = "none" => runs'[o] = NoRow
                          /\ runs'[o].status = "completed" => runs'[o].metrics # << >>
      BY <1>3, <1>4, <1>6, <1>9, <2>1, <2>2 DEF StoreOK
    <3>7. \A o \in Runs : MetricsOK(o)'
      BY <1>3, <1>9, <2>1, <2>4, MetricsStay DEF StoreOK
    <3> QED BY <1>1, <1>3, <3>1, <3>2, <3>3, <3>4, <3>5, <3>6, <3>7 DEF StoreOK
  <2>6. AgentsOK'
    BY <1>1, <1>3 DEF AgentsOK
  <2>7. CASE q.op = "start"
    <3>1. next = "idle"
      BY <2>7
    <3> HIDE DEF next
    <3> QED BY <1>2, <2>4, <2>5, <2>6, <3>1, ContinueCases, IdleOK, RequestStepOld DEF Return
  <2>8. CASE q.op # "start"
    <3>1. next = "settle"
      BY <1>12, <2>8
    <3> HIDE DEF next
    <3> DEFINE new == Reduced(q, "settle")
    <3>2. Go(p, new)
      BY <1>2, <3>1, ContinueCases
    <3>3. /\ new \in RequestStates
          /\ new.op = q.op /\ new.run = r /\ new.pc = "settle" /\ new.row.status = "none"
          /\ new.row.metrics = << >> /\ new.snap = << >> /\ new.orc = << >>
      BY <1>4, ReducedFields
    <3> HIDE DEF new
    <3>4. req'[p] = new
      BY <3>2 DEF Go, IInv
    <3>5. (OpFits(req[p]) /\ Created(req[p]) /\ Holds(req[p]))'
      BY <1>4, <2>8, <3>3, <3>4 DEF OpFits, Created, Holds
    <3>6. Knows(req[p])'
      BY <2>1, <3>3, <3>4 DEF Knows, Terminal, to
    <3>7. RequestOK(req[p])'
      BY <1>4, <3>3, <3>4, <3>5, <3>6 DEF RequestOK
    <3> QED BY <2>4, <2>5, <2>6, <3>2, <3>3, <3>7, RequestStepNew
  <2> QED BY <2>7, <2>8
<1> QED BY <1>11, <1>12

\* Reporting the stored outcome of a run that has ended.
LEMMA AcknowledgeOK ==
    ASSUME StoreOK, NEW p \in Requests, req[p].run \in Runs,
           runs[req[p].run].status = Target(req[p].op),
           req[p].op \in {"complete", "fail", "cancel"},
           Acknowledge(p)
    PROVE  /\ acked' \in [Runs -> SUBSET Statuses]
           /\ \A r \in Runs : acked'[r] # {} => acked'[r] = {runs[r].status} /\ Terminal(runs[r].status)
<1> DEFINE r == req[p].run
           to == Target(req[p].op)
<1>1. acked' = [acked EXCEPT ![r] = acked[r] \cup {to}] /\ acked \in [Runs -> SUBSET Statuses]
  BY DEF Acknowledge, StoreOK
<1>2. to \in Statuses /\ Terminal(to)
  BY DEF Target, Statuses, Terminal
<1> HIDE DEF to
<1>3. acked[r] \cup {to} \in SUBSET Statuses
  BY <1>1, <1>2
<1>4. acked' \in [Runs -> SUBSET Statuses]
  BY <1>1, <1>3
<1>5. acked[r] \cup {to} = {to}
  BY DEF StoreOK, to
<1>6. \A o \in Runs : acked'[o] # {} => acked'[o] = {runs[o].status} /\ Terminal(runs[o].status)
  <2> SUFFICES ASSUME NEW o \in Runs, acked'[o] # {}
               PROVE  acked'[o] = {runs[o].status} /\ Terminal(runs[o].status) OBVIOUS
  <2>1. CASE o = r
    <3>1. acked'[o] = {to}
      BY <1>1, <1>5, <2>1
    <3> QED BY <1>2, <2>1, <3>1 DEF to
  <2>2. CASE o # r
    BY <1>1, <2>2 DEF StoreOK
  <2> QED BY <2>1, <2>2
<1> QED BY <1>4, <1>6

\* ListRuns after the status was written: all are terminal, or the request ends.
LEMMA SettleKeeps ==
    ASSUME IInv, NEW p \in Requests, Settle(p)
    PROVE  IInv' /\ StoreGrows
<1> DEFINE q == req[p]
<1>1. q.pc = "settle" /\ StoreOK /\ AgentsOK /\ RequestOK(q)
  BY DEF Settle, At, IInv
<1>2. /\ q \in RequestStates /\ q.run \in Runs /\ q.op \in {"complete", "fail", "cancel"}
      /\ runs[q.run].status = Target(q.op) /\ Knows(q) /\ Holds(q)
  BY <1>1 DEF RequestOK, OpFits, Knows
<1>3. /\ experiment' = experiment /\ runs' = runs /\ oracle' = oracle /\ proj' = proj
      /\ agent' = agent
  BY DEF Settle
<1>4. CASE q.exp = "active" /\ AllRunsTerminal
  <2> DEFINE new == [q EXCEPT !.pc = "finish"]
  <2>1. Go(p, new) /\ StoreSame
    BY <1>3, <1>4 DEF Settle, Step, StoreSame
  <2>2. /\ new \in RequestStates /\ new.op = q.op /\ new.pc = "finish" /\ new.run = q.run
        /\ new.row = q.row /\ new.snap = q.snap /\ new.orc = q.orc
    <3> HIDE DEF q
    <3> QED BY <1>2 DEF RequestStates
  <2> HIDE DEF new
  <2>3. OpFits(new) /\ Created(new)
    BY <1>2, <2>2 DEF OpFits, Created
  <2>4. Knows(new)
    BY <1>1, <1>2, <1>4, <2>2 DEF Knows
  <2>5. Holds(new)
    BY <1>1, <1>2, <2>2 DEF Holds
  <2>6. RequestOK(new)
    BY <1>2, <2>2, <2>3, <2>4, <2>5 DEF RequestOK
  <2> QED BY <2>1, <2>6, ReadStep
<1>5. CASE ~(q.exp = "active" /\ AllRunsTerminal)
  <2>1. Go(p, Idle) /\ Acknowledge(p)
    BY <1>5 DEF Settle, Return
  <2>2. /\ acked' \in [Runs -> SUBSET Statuses]
        /\ \A r \in Runs : acked'[r] # {} => acked'[r] = {runs[r].status} /\ Terminal(runs[r].status)
    BY <1>1, <1>2, <2>1, AcknowledgeOK
  <2>3. StoreGrows
    BY <1>3, LinksReflexive DEF StoreGrows, Begun
  <2>4. StoreOK'
    BY <1>1, <1>3, <2>2 DEF StoreOK, Begun, AllScheduled, AllRunsTerminal, MetricsOK, Taken
  <2>5. AgentsOK'
    BY <1>1, <1>3 DEF AgentsOK
  <2> QED BY <2>1, <2>3, <2>4, <2>5, IdleOK, RequestStepOld
<1> QED BY <1>4, <1>5

\* CompareAndSwapExperimentStatus, after all runs were seen terminal.
LEMMA CompleteExperimentKeeps ==
    ASSUME IInv, NEW p \in Requests, CompleteExperiment(p)
    PROVE  IInv' /\ StoreGrows
<1> DEFINE q == req[p]
<1>1. q.pc = "finish" /\ StoreOK /\ AgentsOK /\ RequestOK(q)
  BY DEF CompleteExperiment, At, IInv
<1>2. /\ q.run \in Runs /\ q.op \in {"complete", "fail", "cancel"}
      /\ runs[q.run].status = Target(q.op) /\ AllRunsTerminal
  BY <1>1 DEF RequestOK, OpFits, Knows
<1>3. /\ experiment' = IF experiment = "active" THEN "completed" ELSE experiment
      /\ runs' = runs /\ oracle' = oracle /\ proj' = proj /\ agent' = agent
      /\ Go(p, Idle) /\ Acknowledge(p)
  BY DEF CompleteExperiment, Return
<1>4. /\ acked' \in [Runs -> SUBSET Statuses]
      /\ \A r \in Runs : acked'[r] # {} => acked'[r] = {runs[r].status} /\ Terminal(runs[r].status)
  BY <1>1, <1>2, <1>3, AcknowledgeOK
<1>5. (Begun' <=> Begun) /\ AllRunsTerminal'
  BY <1>2, <1>3 DEF Begun, AllRunsTerminal
<1>6. StoreGrows
  BY <1>3, <1>5, LinksReflexive DEF StoreGrows
<1>7. StoreOK'
  BY <1>1, <1>3, <1>4, <1>5 DEF StoreOK, AllScheduled, MetricsOK, Taken
<1>8. AgentsOK'
  BY <1>1, <1>3 DEF AgentsOK
<1> QED BY <1>3, <1>6, <1>7, <1>8, IdleOK, RequestStepOld

-----------------------------------------------------------------------------
(* The evidence                                                            *)

\* What the source reader returns was read from the source.
LEMMA SnapshotTaken ==
    ASSUME StoreOK, AgentsOK, NEW r \in Runs
    PROVE  LET s == Snapshot(agent[r], runs[r].links) IN s \in Snapshots /\ Taken(s, r)
<1> DEFINE a == agent[r]
           l == runs[r].links
           e == [g \in Generations |-> IF g \in readBatches(a.log) THEN a.exec[g] ELSE "none"]
           s == [status |-> a.status, log |-> a.log, exec |-> e, links |-> l]
<1>1. a \in Agents /\ l \in Links
  BY DEF AgentsOK, StoreOK, Rows
<1>2. a.status \in AgentStatuses /\ a.log \in Seq(Events) /\ a.exec \in [Generations -> Executions]
  BY <1>1 DEF Agents
<1>3. e \in [Generations -> Executions]
  BY <1>2 DEF Executions
<1>4. \A g \in Generations : HasReport(e[g]) => HasReport(a.exec[g])
  BY DEF HasReport
<1>5. Snapshot(a, l) = s
  BY DEF Snapshot
<1> HIDE DEF e, a, l
<1>6. s \in Snapshots
  BY <1>1, <1>2, <1>3 DEF Snapshots
<1>7. s.status = a.status /\ s.log = a.log /\ s.exec = e /\ s.links = l
  OBVIOUS
<1> HIDE DEF s
<1>8. Taken(s, r)
  BY <1>4, <1>7, LinksReflexive DEF Taken, a, l
<1> QED BY <1>5, <1>6, <1>8 DEF a, l

\* PostgresSourceReader.Read.
LEMMA ReadSourceKeeps ==
    ASSUME IInv, NEW p \in Requests, ReadSource(p)
    PROVE  IInv' /\ StoreGrows
<1> DEFINE q == req[p]
           r == q.run
           s == Snapshot(agent[r], runs[r].links)
           pc == IF q.op = "export" THEN "replace" ELSE "oracle"
           row == [q.row EXCEPT !.links = NoLinks, !.started = FALSE]
           new == [q EXCEPT !.snap = <<s>>, !.row = row, !.pc = pc]
<1>1. StoreSame /\ q.pc = "source" /\ StoreOK /\ AgentsOK /\ RequestOK(q)
  BY DEF ReadSource, At, IInv
<1>2. /\ q \in RequestStates /\ r \in Runs /\ q.op \in {"measure", "complete", "export"}
      /\ Knows(q) /\ Holds(q)
  BY <1>1 DEF RequestOK, OpFits
<1>3. Return(p) \/ Go(p, new)
  <2>1. CASE Readable(agent[r], runs[r].links) /\ (q.op # "export" => runs[r].links = q.row.links)
    <3>1. Go(p, [q EXCEPT !.snap = <<s>>, !.row.links = NoLinks, !.row.started = FALSE, !.pc = pc])
      BY <2>1 DEF ReadSource
    <3> QED BY <3>1
  <2>2. CASE ~(Readable(agent[r], runs[r].links) /\ (q.op # "export" => runs[r].links = q.row.links))
    BY <2>2 DEF ReadSource
  <2> QED BY <2>1, <2>2
<1>4. CASE Return(p)
  BY <1>1, <1>4, ReturnStep
<1>5. CASE Go(p, new)
  <2>1. s \in Snapshots /\ Taken(s, r)
    BY <1>1, <1>2, SnapshotTaken
  <2> HIDE DEF s
  <2>2. <<s>> \in Optional(Snapshots) /\ <<s>> # << >> /\ <<s>>[1] = s
    BY <2>1, SingleOptional
  <2>3. row \in Rows /\ row.status = q.row.status /\ row.metrics = q.row.metrics
    <3>1. q.row \in Rows
      BY <1>2 DEF RequestStates
    <3> HIDE DEF NoLinks, q
    <3> QED BY <3>1, NoLinksOK DEF Rows
  <2>4. pc \in {"replace", "oracle"} /\ (pc = "replace" => q.op = "export")
        /\ (pc = "oracle" => q.op \in {"measure", "complete"})
    BY <1>2
  <2> HIDE DEF pc, row
  <2> DEFINE sn == <<s>>
  <2> HIDE DEF sn
  <2>5. new = [q EXCEPT !.snap = sn, !.row = row, !.pc = pc] /\ sn \in Optional(Snapshots)
        /\ sn # << >> /\ sn[1] = s
    BY <2>2 DEF sn
  <2>6. /\ new \in RequestStates /\ new.op = q.op /\ new.pc = pc /\ new.run = r /\ new.row = row
        /\ new.snap = sn /\ new.orc = q.orc
    <3> HIDE DEF q, new
    <3> QED BY <1>2, <2>3, <2>4, <2>5 DEF RequestStates
  <2> HIDE DEF new
  <2>7. OpFits(new) /\ Created(new)
    BY <2>4, <2>6 DEF OpFits, Created
  <2>8. Knows(new)
    BY <1>1, <1>2, <2>3, <2>4, <2>6 DEF Knows
  <2>9. Holds(new)
    BY <1>1, <1>2, <2>1, <2>4, <2>5, <2>6 DEF Holds
  <2>10. RequestOK(new)
    BY <1>2, <2>6, <2>7, <2>8, <2>9 DEF RequestOK
  <2> QED BY <1>1, <1>5, <2>10, ReadStep
<1> QED BY <1>3, <1>4, <1>5

\* GetOracle: a decision that is there stays.
LEMMA ReadOracleKeeps ==
    ASSUME IInv, NEW p \in Requests, ReadOracle(p)
    PROVE  IInv' /\ StoreGrows
<1> DEFINE q == req[p]
           o == oracle[q.run]
           new == [q EXCEPT !.orc = o, !.pc = "state"]
<1>1. StoreSame /\ q.pc = "oracle" /\ StoreOK /\ RequestOK(q)
  BY DEF ReadOracle, At, IInv
<1>2. /\ q \in RequestStates /\ q.run \in Runs /\ q.op \in {"measure", "complete"}
      /\ Knows(q) /\ Holds(q)
  BY <1>1 DEF RequestOK, OpFits
<1>3. CASE o = << >>
  BY <1>1, <1>3, ReturnStep DEF ReadOracle
<1>4. CASE o # << >>
  <2>1. Go(p, new)
    BY <1>4 DEF ReadOracle
  <2>2. o \in Optional(Verdicts)
    BY <1>1, <1>2 DEF StoreOK
  <2>3. /\ new \in RequestStates /\ new.op = q.op /\ new.pc = "state" /\ new.run = q.run
        /\ new.row = q.row /\ new.snap = q.snap /\ new.orc = o
    <3> HIDE DEF q, o
    <3> QED BY <1>2, <2>2 DEF RequestStates
  <2> HIDE DEF new
  <2>4. OpFits(new) /\ Created(new)
    BY <1>2, <2>3 DEF OpFits, Created
  <2>5. Knows(new)
    BY <1>1, <1>2, <2>3 DEF Knows
  <2>6. Holds(new)
    BY <1>1, <1>2, <1>4, <2>3 DEF Holds
  <2>7. RequestOK(new)
    BY <1>2, <2>3, <2>4, <2>5, <2>6 DEF RequestOK
  <2> QED BY <1>1, <2>1, <2>7, ReadStep
<1> QED BY <1>3, <1>4

\* GetProjectionState.
LEMMA ReadProjectionStateKeeps ==
    ASSUME IInv, NEW p \in Requests, ReadProjectionState(p)
    PROVE  IInv' /\ StoreGrows
<1> DEFINE q == req[p]
           pc == IF proj[q.run] = << >> THEN "replace" ELSE "list"
           new == [q EXCEPT !.pc = pc]
<1>1. StoreSame /\ q.pc = "state" /\ StoreOK /\ RequestOK(q) /\ Go(p, new)
  BY DEF ReadProjectionState, At, IInv, Step
<1>2. /\ q \in RequestStates /\ q.run \in Runs /\ q.op \in {"measure", "complete"}
      /\ Knows(q) /\ Holds(q)
  BY <1>1 DEF RequestOK, OpFits
<1>3. pc \in {"replace", "list"}
  OBVIOUS
<1> HIDE DEF pc
<1>4. /\ new \in RequestStates /\ new.op = q.op /\ new.pc = pc /\ new.run = q.run
      /\ new.row = q.row /\ new.snap = q.snap /\ new.orc = q.orc
  <2> HIDE DEF q
  <2> QED BY <1>2, <1>3 DEF RequestStates
<1> HIDE DEF new
<1>5. OpFits(new) /\ Created(new)
  BY <1>2, <1>3, <1>4 DEF OpFits, Created
<1>6. Knows(new)
  BY <1>1, <1>2, <1>3, <1>4 DEF Knows
<1>7. Holds(new)
  BY <1>1, <1>2, <1>3, <1>4 DEF Holds
<1>8. RequestOK(new)
  BY <1>2, <1>4, <1>5, <1>6, <1>7 DEF RequestOK
<1> QED BY <1>1, <1>8, ReadStep

\* An export begins with no beliefs about the run.
LEMMA RefreshProjectionKeeps ==
    ASSUME IInv, NEW p \in Requests, NEW r \in Runs, RefreshProjection(p, r)
    PROVE  IInv' /\ StoreGrows
<1> DEFINE t == proj[r]
           new == [Idle EXCEPT !.op = "export", !.run = r, !.pc = "source", !.tr = t]
<1>1. Go(p, new) /\ StoreSame
  BY DEF RefreshProjection
<1>2. t \in Optional(Snapshots)
  BY DEF IInv, StoreOK
<1> HIDE DEF t
<1>3. /\ new \in RequestStates /\ new.op = "export" /\ new.pc = "source" /\ new.run = r
      /\ new.row = NoRow /\ new.snap = << >> /\ new.orc = << >>
  <2> HIDE DEF Idle
  <2> QED BY <1>2, IdleFacts DEF RequestStates
<1>4. NoRow.status = "none" /\ NoRow.metrics = << >>
  BY DEF NoRow
<1> HIDE DEF new, NoRow
<1>5. OpFits(new) /\ Created(new) /\ Holds(new)
  BY <1>3 DEF OpFits, Created, Holds
<1>6. Knows(new)
  BY <1>3, <1>4 DEF Knows, Terminal
<1>7. RequestOK(new)
  BY <1>3, <1>5, <1>6 DEF RequestOK
<1> QED BY <1>1, <1>7, ReadStep

\* What follows immutableMetricSource.
LEMMA AfterSourceGoesOn ==
    ASSUME IInv, NEW p \in Requests, req[p].pc \in {"replace", "list"}, req[p].op \in {"measure", "complete"},
           NEW stored, Continue(p, req[p], AfterSource(req[p], stored))
    PROVE  \E new : Go(p, new) /\ RequestOK(new)
<1> DEFINE q == req[p]
<1>1. RequestOK(q)
  BY DEF IInv
<1>2. q \in RequestStates /\ q.run \in Runs /\ Knows(q) /\ Holds(q)
  BY <1>1 DEF RequestOK
<1>3. q.snap # << >> /\ q.orc # << >>
  BY <1>2 DEF Holds
<1>4. CASE AfterSource(q, stored) = "idle"
  BY <1>4, ContinueCases, IdleOK DEF Return
<1>5. CASE q.op = "measure" /\ AfterSource(q, stored) # "idle"
  <2>1. AfterSource(q, stored) = "write" /\ NewMetricSource(q, stored)
    BY <1>5 DEF AfterSource
  <2>2. validateImmutableMetricInputs(q.snap[1])
    BY <2>1 DEF NewMetricSource
  <2> DEFINE new == [q EXCEPT !.pc = "write"]
  <2>3. Go(p, new)
    BY <2>1, ContinueCases
  <2>4. /\ new \in RequestStates /\ new.op = q.op /\ new.pc = "write" /\ new.run = q.run
        /\ new.row = q.row /\ new.snap = q.snap /\ new.orc = q.orc
    <3> HIDE DEF q
    <3> QED BY <1>2 DEF RequestStates
  <2> HIDE DEF new
  <2>5. OpFits(new) /\ Created(new)
    BY <1>5, <2>4 DEF OpFits, Created
  <2>6. Knows(new)
    BY <1>2, <2>4 DEF Knows
  <2>7. Holds(new)
    BY <1>2, <1>3, <2>2, <2>4 DEF Holds
  <2>8. RequestOK(new)
    BY <1>2, <2>4, <2>5, <2>6, <2>7 DEF RequestOK
  <2> QED BY <2>3, <2>8
<1>6. CASE q.op = "complete" /\ AfterSource(q, stored) # "idle"
  <2>1. AfterSource(q, stored) = FinishDecision(q) /\ q.row.metrics = Metrics(q)
    BY <1>6 DEF AfterSource
  <2>2. Metrics(q) # << >>
    BY DEF Metrics
  <2>3. runs[q.run].metrics # << >>
    BY <1>2, <2>1, <2>2 DEF Knows
  <2>4. Terminal(q.row.status) => runs[q.run].status = q.row.status
    BY <1>2 DEF Knows
  <2> QED BY <1>2, <1>6, <2>1, <2>3, <2>4, FinishGoesOn
<1> QED BY <1>4, <1>5, <1>6

\* ListTransitions.
LEMMA ListTransitionsKeeps ==
    ASSUME IInv, NEW p \in Requests, ListTransitions(p)
    PROVE  IInv' /\ StoreGrows
<1>1. /\ StoreSame /\ req[p].pc = "list" /\ RequestOK(req[p])
      /\ Continue(p, req[p], AfterSource(req[p], proj[req[p].run]))
  BY DEF ListTransitions, At, IInv
<1>2. req[p].op \in {"measure", "complete"}
  BY <1>1 DEF RequestOK, OpFits
<1>3. PICK new : Go(p, new) /\ RequestOK(new)
  BY <1>1, <1>2, AfterSourceGoesOn
<1> QED BY <1>1, <1>3, ReadStep

\* ReplaceProjection writes a projection or leaves it.
LEMMA ReplaceProjectionKeeps ==
    ASSUME IInv, NEW p \in Requests, ReplaceProjection(p)
    PROVE  IInv' /\ StoreGrows
<1> DEFINE q == req[p]
           replaced == CursorUnchanged(q) /\ ProjectionUnchanged(q)
           next == IF q.op = "export" THEN "idle"
                   ELSE IF replaced THEN AfterSource(q, q.snap)
                   ELSE IF CursorUnchanged(q) THEN "list" ELSE "idle"
<1>1. /\ q.pc = "replace" /\ Continue(p, q, next) /\ experiment' = experiment /\ runs' = runs
      /\ oracle' = oracle /\ agent' = agent /\ acked' = acked
      /\ proj' = IF replaced THEN [proj EXCEPT ![q.run] = q.snap] ELSE proj
  BY DEF ReplaceProjection, At
<1>2. StoreOK /\ AgentsOK /\ RequestOK(q)
  BY DEF IInv
<1>3. /\ q \in RequestStates /\ q.run \in Runs /\ q.op \in {"measure", "complete", "export"}
      /\ q.snap \in Optional(Snapshots) /\ Knows(q) /\ Holds(q)
  BY <1>1, <1>2 DEF RequestOK, OpFits, RequestStates
<1>4. StoreGrows
  BY <1>1, LinksReflexive DEF StoreGrows, Begun
<1>5. proj' \in [Runs -> Optional(Snapshots)]
  BY <1>1, <1>2, <1>3 DEF StoreOK
<1>6. StoreOK'
  BY <1>1, <1>2, <1>5 DEF StoreOK, Begun, AllScheduled, AllRunsTerminal, MetricsOK, Taken
<1>7. AgentsOK'
  BY <1>1, <1>2 DEF AgentsOK
<1>8. CASE next = "idle"
  <2> HIDE DEF next
  <2>1. Go(p, Idle)
    BY <1>1, <1>8, ContinueCases DEF Return
  <2> QED BY <1>4, <1>6, <1>7, <2>1, IdleOK, RequestStepOld
<1>9. CASE q.op # "export" /\ replaced
  <2>1. next = AfterSource(q, q.snap)
    BY <1>9
  <2> HIDE DEF next
  <2>2. PICK new : Go(p, new) /\ RequestOK(new)
    BY <1>1, <1>3, <1>9, <2>1, AfterSourceGoesOn
  <2> QED BY <1>4, <1>6, <1>7, <2>2, RequestStepOld
<1>10. CASE q.op # "export" /\ ~replaced /\ next # "idle"
  <2>1. next = "list"
    BY <1>10
  <2> HIDE DEF next
  <2> DEFINE new == [q EXCEPT !.pc = "list"]
  <2>2. Go(p, new)
    BY <1>1, <2>1, ContinueCases
  <2>3. /\ new \in RequestStates /\ new.op = q.op /\ new.pc = "list" /\ new.run = q.run
        /\ new.row = q.row /\ new.snap = q.snap /\ new.orc = q.orc
    <3> HIDE DEF q
    <3> QED BY <1>3 DEF RequestStates
  <2> HIDE DEF new
  <2>4. OpFits(new) /\ Created(new)
    BY <1>3, <1>10, <2>3 DEF OpFits, Created
  <2>5. Knows(new)
    BY <1>1, <1>3, <2>3 DEF Knows
  <2>6. Holds(new)
    BY <1>1, <1>3, <1>10, <2>3 DEF Holds
  <2>7. RequestOK(new)
    BY <1>3, <2>3, <2>4, <2>5, <2>6 DEF RequestOK
  <2> QED BY <1>4, <1>6, <1>7, <2>2, <2>7, RequestStepOld
<1>11. q.op = "export" => next = "idle"
  OBVIOUS
<1> HIDE DEF next
<1> QED BY <1>8, <1>9, <1>10, <1>11

\* The metrics a request writes are those of a final snapshot.
LEMMA CompareAndSwapRunMetricsKeeps ==
    ASSUME IInv, NEW p \in Requests, CompareAndSwapRunMetrics(p)
    PROVE  IInv' /\ StoreGrows
<1> DEFINE q == req[p]
           r == q.run
           m == [snap |-> q.snap[1], orc |-> q.orc]
<1>1. /\ q.pc = "write" /\ StoreOK /\ AgentsOK /\ RequestOK(q) /\ Go(p, Idle)
      /\ experiment' = experiment /\ oracle' = oracle /\ proj' = proj /\ agent' = agent
      /\ acked' = acked
  BY DEF CompareAndSwapRunMetrics, At, IInv, Return
<1>2. /\ q \in RequestStates /\ r \in Runs /\ q.snap # << >> /\ q.orc # << >>
      /\ Taken(q.snap[1], r) /\ q.orc = oracle[r] /\ validateImmutableMetricInputs(q.snap[1])
  BY <1>1 DEF RequestOK, Holds
<1>3. runs \in [Runs -> Rows] /\ runs[r] \in Rows /\ RowOK(runs[r])
  BY <1>1, <1>2 DEF StoreOK
<1>4. CASE runs[r].metrics # << >>
  <2>1. runs' = [runs EXCEPT ![r].metrics = IF @ = << >> THEN Metrics(q) ELSE @]
    BY DEF CompareAndSwapRunMetrics
  <2>2. [runs[r] EXCEPT !.metrics = IF @ = << >> THEN Metrics(q) ELSE @] = runs[r]
    BY <1>3, <1>4 DEF Rows
  <2>3. runs' = runs
    BY <1>2, <1>3, <2>1, <2>2
  <2>4. StoreSame
    BY <1>1, <2>3 DEF StoreSame
  <2> QED BY <1>1, <2>4, ReturnStep DEF Return
<1>5. CASE runs[r].metrics = << >>
  <2>1. m \in Measurements
    <3>1. q.snap \in Optional(Snapshots) /\ q.orc \in Optional(Verdicts)
      BY <1>2 DEF RequestStates
    <3>2. q.snap[1] \in Snapshots
      BY <1>2, <3>1, OptionalElement
    <3> QED BY <3>1, <3>2 DEF Measurements
  <2>2. m.snap = q.snap[1] /\ m.orc = q.orc
    OBVIOUS
  <2> DEFINE mm == <<m>>
             row == [runs[r] EXCEPT !.metrics = mm]
  <2>3. runs' = [runs EXCEPT ![r] = row]
    <3>1. runs' = [runs EXCEPT ![r].metrics = IF @ = << >> THEN Metrics(q) ELSE @]
      BY DEF CompareAndSwapRunMetrics
    <3>2. Metrics(q) = mm
      BY DEF Metrics
    <3> QED BY <1>5, <3>1, <3>2
  <2> HIDE DEF m
  <2>4. mm \in Optional(Measurements) /\ mm # << >> /\ mm[1] = m
    BY <2>1, SingleOptional
  <2> HIDE DEF mm
  <2>5. /\ row \in Rows /\ row.status = runs[r].status /\ row.started = runs[r].started
        /\ row.links = runs[r].links /\ row.metrics = mm
    BY <1>3, <2>4 DEF Rows
  <2> HIDE DEF row
  <2>6. /\ runs' \in [Runs -> Rows] /\ runs'[r] = row /\ \A o \in Runs : o # r => runs'[o] = runs[o]
    BY <1>2, <1>3, <2>3, <2>5
  <2>7. runs[r].status # "none"
    <3>1. completeRunLinks(q.snap[1].links) /\ linksExtend(q.snap[1].links, runs[r].links)
      BY <1>2 DEF validateImmutableMetricInputs, Taken
    <3>2. runs[r].links.exec # 0
      BY <3>1 DEF completeRunLinks, linksExtend, pointerExtends
    <3>3. NoRow.links.exec = 0
      BY DEF NoRow, NoLinks
    <3> HIDE DEF NoRow
    <3> QED BY <1>1, <1>2, <3>2, <3>3 DEF StoreOK
  <2>8. \A o \in Runs : /\ runs'[o].status = runs[o].status /\ runs'[o].started = runs[o].started
                        /\ runs'[o].links = runs[o].links
                        /\ runs[o].metrics # << >> => runs'[o] = runs[o]
    BY <1>5, <2>5, <2>6
  <2>9. Begun' <=> Begun
    BY <1>1 DEF Begun
  <2>10. StoreGrows
    BY <1>1, <2>8, <2>9, LinksReflexive DEF StoreGrows
  <2>11. StoreOK'
    <3>1. \A o \in Runs : RowOK(runs'[o])
      BY <1>1, <2>8 DEF StoreOK, RowOK
    <3>2. Begun' => AllScheduled'
      BY <1>1, <2>8, <2>9 DEF StoreOK, AllScheduled
    <3>3. (\E o \in Runs : runs'[o].started) => Begun'
      BY <1>1, <2>8, <2>9 DEF StoreOK
    <3>4. experiment' = "completed" => AllRunsTerminal'
      BY <1>1, <2>8 DEF StoreOK, AllRunsTerminal
    <3>5. \A o \in Runs : acked'[o] # {} => acked'[o] = {runs'[o].status} /\ Terminal(runs'[o].status)
      BY <1>1, <2>8 DEF StoreOK
    <3>6. \A o \in Runs : /\ runs'[o].status = "none" => runs'[o] = NoRow
                          /\ runs'[o].status = "completed" => runs'[o].metrics # << >>
      BY <1>1, <2>6, <2>7, <2>8 DEF StoreOK
    <3>7. \A o \in Runs : MetricsOK(o)'
      <4> SUFFICES ASSUME NEW o \in Runs PROVE MetricsOK(o)' OBVIOUS
      <4>1. CASE o # r
        BY <1>1, <2>6, <2>10, <4>1, MetricsStay DEF StoreOK
      <4>2. CASE o = r
        <5>1. runs'[r].metrics = mm /\ runs'[r].metrics[1] = m
          BY <2>4, <2>5, <2>6
        <5>2. PICK s : s = q.snap[1]
          OBVIOUS
        <5>3. Taken(s, o)
          BY <1>2, <4>2, <5>2
        <5>4. Taken(s, o)'
          BY <1>2, <2>10, <5>3, TakenStays
        <5>5. runs'[o].metrics[1].snap = s /\ runs'[o].metrics[1].orc = oracle'[o]
          BY <1>1, <1>2, <2>2, <4>2, <5>1, <5>2
        <5>6. validateImmutableMetricInputs(s) /\ oracle'[o] # << >>
          BY <1>1, <1>2, <4>2, <5>2
        <5> QED BY <5>4, <5>5, <5>6 DEF MetricsOK, Taken
      <4> QED BY <4>1, <4>2
    <3> QED BY <1>1, <2>6, <3>1, <3>2, <3>3, <3>4, <3>5, <3>6, <3>7 DEF StoreOK
  <2>12. AgentsOK'
    BY <1>1 DEF AgentsOK
  <2> QED BY <1>1, <2>10, <2>11, <2>12, IdleOK, RequestStepOld
<1> QED BY <1>4, <1>5

-----------------------------------------------------------------------------
(* Clients and agents                                                      *)

\* UpdateRunLinks extends the links, so nothing measured changes.
LEMMA UpdateRunLinksKeeps ==
    ASSUME IInv, NEW r \in Runs, NEW l \in Links, UpdateRunLinks(r, l)
    PROVE  IInv' /\ StoreGrows
<1> DEFINE row == [runs[r] EXCEPT !.links = l]
<1>1. /\ StoreOK /\ AgentsOK /\ runs[r].status # "none" /\ OrderedPrefix(l)
      /\ linksExtend(runs[r].links, l) /\ runs' = [runs EXCEPT ![r] = row]
      /\ experiment' = experiment /\ oracle' = oracle /\ proj' = proj /\ agent' = agent
      /\ acked' = acked /\ req' = req
  BY DEF UpdateRunLinks, IInv
<1>2. runs \in [Runs -> Rows] /\ runs[r] \in Rows /\ RowOK(runs[r])
  BY <1>1 DEF StoreOK
<1>3. /\ row \in Rows /\ row.status = runs[r].status /\ row.started = runs[r].started
      /\ row.links = l /\ row.metrics = runs[r].metrics
  BY <1>2 DEF Rows
<1> HIDE DEF row
<1>4. runs' \in [Runs -> Rows] /\ runs'[r] = row /\ \A o \in Runs : o # r => runs'[o] = runs[o]
  BY <1>1, <1>2, <1>3
<1>5. \A o \in Runs : /\ runs'[o].status = runs[o].status /\ runs'[o].started = runs[o].started
                      /\ runs'[o].metrics = runs[o].metrics
                      /\ linksExtend(runs[o].links, runs'[o].links)
  BY <1>1, <1>3, <1>4, LinksReflexive
<1>6. Begun' <=> Begun
  BY <1>1 DEF Begun
<1>7. StoreGrows
  BY <1>1, <1>5, <1>6 DEF StoreGrows
<1>8. StoreOK'
  <2>1. RowOK(row)
    BY <1>1, <1>2, <1>3 DEF RowOK
  <2>2. \A o \in Runs : RowOK(runs'[o])
    BY <1>1, <1>4, <2>1 DEF StoreOK
  <2>3. Begun' => AllScheduled'
    BY <1>1, <1>5, <1>6 DEF StoreOK, AllScheduled
  <2>4. (\E o \in Runs : runs'[o].started) => Begun'
    BY <1>1, <1>5, <1>6 DEF StoreOK
  <2>5. experiment' = "completed" => AllRunsTerminal'
    BY <1>1, <1>5 DEF StoreOK, AllRunsTerminal
  <2>6. \A o \in Runs : acked'[o] # {} => acked'[o] = {runs'[o].status} /\ Terminal(runs'[o].status)
    BY <1>1, <1>5 DEF StoreOK
  <2>7. \A o \in Runs : /\ runs'[o].status = "none" => runs'[o] = NoRow
                        /\ runs'[o].status = "completed" => runs'[o].metrics # << >>
    BY <1>1, <1>4, <1>5 DEF StoreOK
  <2>8. \A o \in Runs : MetricsOK(o)'
    BY <1>1, <1>5, <1>7, MetricsStay DEF StoreOK
  <2> QED BY <1>1, <1>4, <2>2, <2>3, <2>4, <2>5, <2>6, <2>7, <2>8 DEF StoreOK
<1>9. AgentsOK'
  BY <1>1 DEF AgentsOK
<1> QED BY <1>1, <1>7, <1>8, <1>9, StoreStep

\* PutOracle writes a decision where there is none.
LEMMA PutOracleKeeps ==
    ASSUME IInv, NEW r \in Runs, NEW v \in Verdicts, PutOracle(r, v)
    PROVE  IInv' /\ StoreGrows
<1> DEFINE o == <<v>>
<1>1. /\ StoreOK /\ AgentsOK /\ oracle[r] = << >> /\ oracle' = [oracle EXCEPT ![r] = o]
      /\ experiment' = experiment /\ runs' = runs /\ proj' = proj /\ agent' = agent
      /\ acked' = acked /\ req' = req
  BY DEF PutOracle, IInv
<1>2. o \in Optional(Verdicts) /\ oracle \in [Runs -> Optional(Verdicts)]
  BY <1>1, SingleOptional DEF StoreOK
<1> HIDE DEF o
<1>3. oracle' \in [Runs -> Optional(Verdicts)] /\ \A x \in Runs : oracle[x] # << >> => oracle'[x] = oracle[x]
  BY <1>1, <1>2
<1>4. StoreGrows
  BY <1>1, <1>3, LinksReflexive DEF StoreGrows, Begun
<1>5. \A x \in Runs : MetricsOK(x)'
  BY <1>1, <1>4, MetricsStay DEF StoreOK
<1>6. StoreOK'
  BY <1>1, <1>3, <1>5 DEF StoreOK, Begun, AllScheduled, AllRunsTerminal
<1>7. AgentsOK'
  BY <1>1 DEF AgentsOK
<1> QED BY <1>1, <1>4, <1>6, <1>7, StoreStep

\* A step of the agent run or of one of its executions.
LEMMA AgentMoves ==
    ASSUME IInv, NEW r \in Runs, NEW new \in Agents, agent' = [agent EXCEPT ![r] = new],
           UNCHANGED <<experiment, runs, oracle, proj, req, acked>>,
           new.approved <= new.latest, agent[r].status # "completed" \/
              (new.status = "completed" /\ new.log = agent[r].log),
           \A g \in Generations : HasReport(agent[r].exec[g]) => HasReport(new.exec[g])
    PROVE  IInv' /\ StoreGrows
<1>1. /\ experiment' = experiment /\ runs' = runs /\ oracle' = oracle /\ proj' = proj
      /\ acked' = acked /\ req' = req
  OBVIOUS
<1>2. StoreOK /\ AgentsOK
  BY DEF IInv
<1>3. agent \in [Runs -> Agents] /\ agent' \in [Runs -> Agents] /\ agent'[r] = new
      /\ \A o \in Runs : o # r => agent'[o] = agent[o]
  BY <1>2 DEF AgentsOK
<1>4. StoreGrows
  <2>1. \A o \in Runs :
          /\ agent[o].status = "completed" => agent'[o].status = "completed" /\ agent'[o].log = agent[o].log
          /\ \A g \in Generations : HasReport(agent[o].exec[g]) => HasReport(agent'[o].exec[g])
    BY <1>3
  <2> QED BY <1>1, <2>1, LinksReflexive DEF StoreGrows, Begun
<1>5. \A o \in Runs : MetricsOK(o)'
  BY <1>1, <1>2, <1>4, MetricsStay DEF StoreOK
<1>6. StoreOK'
  BY <1>1, <1>2, <1>5 DEF StoreOK, Begun, AllScheduled, AllRunsTerminal
<1>7. AgentsOK'
  BY <1>2, <1>3 DEF AgentsOK
<1> QED BY <1>1, <1>4, <1>6, <1>7, StoreStep

\* What agent_runs holds for a run.
LEMMA AgentFacts ==
    ASSUME IInv, NEW r \in Runs
    PROVE  /\ agent[r] \in Agents /\ agent[r].status \in AgentStatuses
           /\ agent[r].log \in Seq(Events) /\ agent[r].latest \in 0..MaxGenerations
           /\ agent[r].approved \in 0..MaxGenerations /\ agent[r].approved <= agent[r].latest
           /\ agent[r].exec \in [Generations -> Executions]
BY DEF IInv, AgentsOK, Agents

\* The agent run and its executions move on without losing evidence.
LEMMA AgentStepKeeps ==
    ASSUME IInv, NEW r \in Runs, AgentStep(r)
    PROVE  IInv' /\ StoreGrows
<1> DEFINE a == agent[r]
<1>1. /\ a \in Agents /\ a.log \in Seq(Events) /\ a.exec \in [Generations -> Executions]
      /\ a.latest \in 0..MaxGenerations /\ a.approved \in 0..MaxGenerations /\ a.approved <= a.latest
  BY AgentFacts
<1>2. MaxGenerations \in Nat
  BY GenerationAssumption
<1>3. CASE AgentGenerates(r)
  <2> DEFINE g == a.latest + 1
             log == a.log \o <<Generated(g), Pending(g)>>
             new == [a EXCEPT !.latest = g, !.log = log]
  <2>1. /\ g \in Generations /\ a.status = "running" /\ agent' = [agent EXCEPT ![r] = new]
        /\ UNCHANGED <<experiment, runs, oracle, proj, req, acked>>
    BY <1>3 DEF AgentGenerates, AgentDoes
  <2>2. g \in 0..MaxGenerations /\ a.approved <= g
    BY <1>1, <1>2, <2>1 DEF Generations
  <2>3. Generated(g) \in Events /\ Pending(g) \in Events
    BY <2>1 DEF Events
  <2>4. log \in Seq(Events)
    BY <1>1, <2>3
  <2> HIDE DEF a, g, log
  <2>5. /\ new \in Agents /\ new.approved = a.approved /\ new.latest = g /\ new.exec = a.exec
    BY <1>1, <2>2, <2>4 DEF Agents
  <2> HIDE DEF new
  <2> QED BY <2>1, <2>2, <2>5, AgentMoves DEF a
<1>4. CASE AgentAnswered(r)
  <2> DEFINE log == Append(a.log, Answered(a.latest))
             new == [a EXCEPT !.log = log, !.approved = a.latest]
  <2>1. /\ a.approved # a.latest /\ a.status = "running" /\ agent' = [agent EXCEPT ![r] = new]
        /\ UNCHANGED <<experiment, runs, oracle, proj, req, acked>>
    BY <1>4 DEF AgentAnswered, AgentDoes
  <2>2. a.latest \in Generations
    BY <1>1, <1>2, <2>1 DEF Generations
  <2>3. Answered(a.latest) \in Events
    BY <2>2 DEF Events
  <2>4. log \in Seq(Events)
    BY <1>1, <2>3
  <2> HIDE DEF a, log
  <2>5. /\ new \in Agents /\ new.approved = a.latest /\ new.latest = a.latest /\ new.exec = a.exec
    BY <1>1, <2>4 DEF Agents
  <2> HIDE DEF new
  <2>6. new.approved <= new.latest
    BY <1>1, <2>5
  <2> QED BY <2>1, <2>5, <2>6, AgentMoves DEF a
<1>5. CASE AgentExecutes(r)
  <2> DEFINE log == Append(a.log, BatchMade(a.approved))
             e == [a.exec EXCEPT ![a.approved] = "running"]
             new == [a EXCEPT !.exec = e, !.log = log]
  <2>1. /\ a.approved # 0 /\ a.exec[a.approved] = "none" /\ a.status = "running"
        /\ agent' = [agent EXCEPT ![r] = new]
        /\ UNCHANGED <<experiment, runs, oracle, proj, req, acked>>
    BY <1>5 DEF AgentExecutes, AgentDoes
  <2>2. a.approved \in Generations
    BY <1>1, <1>2, <2>1 DEF Generations
  <2>3. BatchMade(a.approved) \in Events
    BY <2>2 DEF Events
  <2>4. log \in Seq(Events)
    BY <1>1, <2>3
  <2>5. e \in [Generations -> Executions]
    BY <1>1 DEF Executions
  <2>6. \A g \in Generations : HasReport(a.exec[g]) => HasReport(e[g])
    BY <1>1, <2>1, <2>2 DEF HasReport
  <2> HIDE DEF a, log, e
  <2>7. /\ new \in Agents /\ new.approved = a.approved /\ new.latest = a.latest /\ new.exec = e
    BY <1>1, <2>4, <2>5 DEF Agents
  <2> HIDE DEF new
  <2> QED BY <1>1, <2>1, <2>6, <2>7, AgentMoves DEF a
<1>6. ASSUME NEW s \in AgentEndings, AgentEnds(r, s)
      PROVE  IInv' /\ StoreGrows
  <2> DEFINE log == Append(a.log, Finished)
             new == [a EXCEPT !.status = s, !.log = log]
  <2>1. /\ a.status = "running" /\ agent' = [agent EXCEPT ![r] = new]
        /\ UNCHANGED <<experiment, runs, oracle, proj, req, acked>>
    BY <1>6 DEF AgentEnds, AgentDoes
  <2>2. s \in AgentStatuses /\ Finished \in Events
    BY ScheduleAssumption DEF AgentStatuses, Events
  <2>3. log \in Seq(Events)
    BY <1>1, <2>2
  <2> HIDE DEF a, log
  <2>4. /\ new \in Agents /\ new.approved = a.approved /\ new.latest = a.latest /\ new.exec = a.exec
    BY <1>1, <2>2, <2>3 DEF Agents
  <2> HIDE DEF new
  <2> QED BY <1>1, <2>1, <2>4, AgentMoves DEF a
<1>7. ASSUME NEW g \in Generations, NEW s \in ExecutionEndings, ExecutionEnds(r, g, s)
      PROVE  IInv' /\ StoreGrows
  <2> DEFINE e == [a.exec EXCEPT ![g] = s]
             new == [a EXCEPT !.exec = e]
  <2>1. /\ a.exec[g] = "running" /\ agent' = [agent EXCEPT ![r] = new]
        /\ UNCHANGED <<experiment, runs, oracle, proj, req, acked>>
    BY <1>7 DEF ExecutionEnds
  <2>2. s \in Executions
    BY ScheduleAssumption DEF Executions
  <2>3. e \in [Generations -> Executions]
    BY <1>1, <2>2
  <2>4. \A x \in Generations : HasReport(a.exec[x]) => HasReport(e[x])
    BY <1>1, <2>1 DEF HasReport
  <2> HIDE DEF a, e
  <2>5. /\ new \in Agents /\ new.approved = a.approved /\ new.latest = a.latest /\ new.exec = e
        /\ new.status = a.status /\ new.log = a.log
    BY <1>1, <2>3 DEF Agents
  <2> HIDE DEF new
  <2>6. a.status # "completed" \/ (new.status = "completed" /\ new.log = a.log)
    BY <2>5
  <2>7. new.approved <= new.latest /\ \A x \in Generations : HasReport(a.exec[x]) => HasReport(new.exec[x])
    BY <1>1, <2>4, <2>5
  <2> QED BY <2>1, <2>5, <2>6, <2>7, AgentMoves DEF a
<1> QED BY <1>3, <1>4, <1>5, <1>6, <1>7 DEF AgentStep

-----------------------------------------------------------------------------
(* The specification                                                       *)

\* The invariant holds of an empty store.
LEMMA InitEstablishes == Init => IInv
<1> SUFFICES ASSUME Init PROVE IInv OBVIOUS
<1>1. /\ experiment = "none" /\ runs = [r \in Runs |-> NoRow] /\ oracle = [r \in Runs |-> << >>]
      /\ proj = [r \in Runs |-> << >>] /\ agent = [r \in Runs |-> NewAgent]
      /\ req = [p \in Requests |-> Idle] /\ acked = [r \in Runs |-> {}]
  BY DEF Init
<1>2. NewAgent \in Agents /\ NewAgent.approved <= NewAgent.latest
  <2>1. 0 \in 0..MaxGenerations /\ 0 <= 0
    BY GenerationAssumption
  <2>2. [g \in Generations |-> "none"] \in [Generations -> Executions]
    BY DEF Executions
  <2>3. << >> \in Seq(Events)
    OBVIOUS
  <2> QED BY <2>1, <2>2, <2>3 DEF NewAgent, Agents, AgentStatuses
<1>3. AgentsOK
  <2> HIDE DEF NewAgent
  <2> QED BY <1>1, <1>2 DEF AgentsOK
<1>4. NoRow.status = "none" /\ ~NoRow.started /\ NoRow.metrics = << >>
  BY DEF NoRow
<1>5. StoreOK
  <2> HIDE DEF NoRow
  <2>1. runs \in [Runs -> Rows] /\ \A r \in Runs : runs[r] = NoRow
    BY <1>1, NoRowOK
  <2>2. oracle \in [Runs -> Optional(Verdicts)] /\ proj \in [Runs -> Optional(Snapshots)]
    BY <1>1, EmptyOptional
  <2>3. acked \in [Runs -> SUBSET Statuses] /\ \A r \in Runs : acked[r] = {}
    BY <1>1
  <2>4. ~Begun /\ experiment # "completed" /\ experiment \in {"none", "draft", "active", "completed"}
    BY <1>1 DEF Begun
  <2>5. \A r \in Runs : RowOK(runs[r]) /\ ~runs[r].started /\ runs[r].status # "completed" /\ MetricsOK(r)
    BY <1>4, <2>1, NoRowOK DEF MetricsOK
  <2> QED BY <2>1, <2>2, <2>3, <2>4, <2>5 DEF StoreOK
<1>6. req \in [Requests -> RequestStates] /\ \A p \in Requests : RequestOK(req[p])
  <2> HIDE DEF Idle
  <2> QED BY <1>1, IdleFacts, IdleOK
<1> QED BY <1>3, <1>5, <1>6 DEF IInv

\* Every statement of a request keeps the invariant.
LEMMA RequestStepKeeps ==
    ASSUME IInv, NEW p \in Requests, RequestStep(p)
    PROVE  IInv' /\ StoreGrows
<1>1. CASE StartExperiment(p) \/ CreateRun(p) \/ Activate(p) \/ ReadExperiment(p)
  BY <1>1, StartExperimentKeeps, CreateRunKeeps, ActivateKeeps, ReadExperimentKeeps
<1>2. CASE CompareAndSwapRunStatus(p) \/ Settle(p) \/ CompleteExperiment(p)
  BY <1>2, CompareAndSwapRunStatusKeeps, SettleKeeps, CompleteExperimentKeeps
<1>3. CASE ReadSource(p) \/ ReadOracle(p) \/ ReadProjectionState(p) \/ ReplaceProjection(p)
  BY <1>3, ReadSourceKeeps, ReadOracleKeeps, ReadProjectionStateKeeps, ReplaceProjectionKeeps
<1>4. CASE ListTransitions(p) \/ CompareAndSwapRunMetrics(p)
  BY <1>4, ListTransitionsKeeps, CompareAndSwapRunMetricsKeeps
<1>5. CASE Abandon(p)
  BY <1>5, ReturnStep DEF Abandon
<1>6. CASE \E r \in Runs, op \in Operations : <<op, r>> \in Offered /\ ReadRow(p, op, r)
  BY <1>6, ReadRowKeeps
<1>7. CASE \E r \in Runs : <<"export", r>> \in Offered /\ RefreshProjection(p, r)
  BY <1>7, RefreshProjectionKeeps
<1> QED BY <1>1, <1>2, <1>3, <1>4, <1>5, <1>6, <1>7 DEF RequestStep

\* Every step keeps the invariant, and moves the store in its direction.
LEMMA NextKeeps == IInv /\ [Next]_vars => IInv' /\ StoreGrows
<1> SUFFICES ASSUME IInv, [Next]_vars PROVE IInv' /\ StoreGrows OBVIOUS
<1>1. CASE UNCHANGED vars
  <2>1. StoreSame /\ UNCHANGED req
    BY <1>1 DEF vars, StoreSame
  <2> QED BY <2>1, StoreSameGrows, StoreStep
<1>2. CASE CreateExperiment
  BY <1>2, CreateExperimentKeeps
<1>3. CASE \E p \in Requests : RequestStep(p)
  BY <1>3, RequestStepKeeps
<1>4. CASE \E r \in Measured : ClientStep(r) \/ AgentStep(r)
  <2>1. PICK r \in Measured : ClientStep(r) \/ AgentStep(r)
    BY <1>4
  <2>2. r \in Runs /\ ClientLinks \subseteq Links
    BY ScheduleAssumption DEF Runs
  <2> QED BY <2>1, <2>2, UpdateRunLinksKeeps, PutOracleKeeps, AgentStepKeeps DEF ClientStep
<1> QED BY <1>1, <1>2, <1>3, <1>4 DEF Next

\* The inductive invariant, for any number of requests, runs, generations and links.
THEOREM Invariant == Spec => []IInv
BY InitEstablishes, NextKeeps, PTL DEF Spec

\* Type correctness, and what the schema and types.go demand of a stored run,
\* for any number of requests, runs, generations and links.
THEOREM TypeCorrect == Spec => []TypeOK
<1>1. IInv => TypeOK
  BY DEF IInv, StoreOK, AgentsOK, TypeOK
<1> QED BY <1>1, Invariant, PTL

\* FinishRun(completed): a completed run has metrics, of the links and the
\* decision it still has, of a completed agent run whose log has not moved.
THEOREM CompletedRunMeasured == Spec => []CompletedIsMeasured
<1>1. IInv => CompletedIsMeasured
  <2> SUFFICES ASSUME IInv, NEW r \in Runs, runs[r].status = "completed"
               PROVE  /\ runs[r].metrics # << >> /\ completeRunLinks(runs[r].links)
                      /\ LET m == runs[r].metrics[1] IN
                           /\ m.snap.links = runs[r].links /\ m.orc = oracle[r]
                           /\ agent[r].status = "completed" /\ m.snap.log = agent[r].log
                           /\ HasReport(agent[r].exec[runs[r].links.exec])
    BY DEF CompletedIsMeasured
  <2> DEFINE m == runs[r].metrics[1]
  <2>1. runs[r].metrics # << >> /\ MetricsOK(r) /\ runs[r] \in Rows
    BY DEF IInv, StoreOK
  <2>2. validateImmutableMetricInputs(m.snap) /\ Taken(m.snap, r) /\ m.orc = oracle[r]
    BY <2>1 DEF MetricsOK
  <2>3. m \in Measurements
    <3>1. runs[r].metrics \in Optional(Measurements)
      BY <2>1 DEF Rows
    <3> QED BY <2>1, <3>1, OptionalElement
  <2> HIDE DEF m
  <2>4. m.snap.links \in Links /\ runs[r].links \in Links
    <3>1. m.snap \in Snapshots
      BY <2>3 DEF Measurements
    <3> QED BY <2>1, <3>1 DEF Snapshots, Rows
  <2>5. completeRunLinks(m.snap.links) /\ linksExtend(m.snap.links, runs[r].links)
        /\ m.snap.status = "completed" /\ HasReport(m.snap.exec[m.snap.links.exec])
    BY <2>2 DEF validateImmutableMetricInputs, Taken
  <2>6. runs[r].links = m.snap.links
    BY <2>4, <2>5, CompleteLinksStay
  <2>7. m.snap.links.exec \in Generations
    BY <2>4, <2>5, GenerationAssumption DEF Links, completeRunLinks, Generations
  <2>8. agent[r].status = "completed" /\ m.snap.log = agent[r].log
        /\ HasReport(agent[r].exec[m.snap.links.exec])
    BY <2>2, <2>5, <2>7 DEF Taken
  <2> QED BY <2>1, <2>2, <2>5, <2>6, <2>8 DEF m
<1> QED BY <1>1, Invariant, PTL

\* CompareAndSwapRunStatus: clients are told one outcome, the stored one.
THEOREM OutcomeReportedOnce == Spec => []OneOutcomeReported
<1>1. IInv => OneOutcomeReported
  BY DEF IInv, StoreOK, OneOutcomeReported
<1> QED BY <1>1, Invariant, PTL

\* completeExperimentIfAllRunsTerminal, racing with everything.
THEOREM ExperimentCompletedWhenDone == Spec => []CompletedExperimentIsDone
<1>1. IInv => CompletedExperimentIsDone
  BY DEF IInv, StoreOK, CompletedExperimentIsDone, AllRunsTerminal
<1> QED BY <1>1, Invariant, PTL

\* StartRun under StartExperiment: a run starts once the whole schedule is stored.
THEOREM RunStartsWhenScheduled == Spec => []StartedMeansScheduled
<1>1. IInv => StartedMeansScheduled
  BY DEF IInv, StoreOK, StartedMeansScheduled, Begun, AllScheduled
<1> QED BY <1>1, Invariant, PTL

\* Requests still in flight never move a run that has ended.
THEOREM TerminalRunStays == Spec => TerminalRunIsFinal
<1>1. IInv /\ [Next]_vars =>
        [\A r \in Runs : Terminal(runs[r].status) => runs'[r].status = runs[r].status]_vars
  BY NextKeeps DEF StoreGrows
<1> QED BY <1>1, Invariant, PTL DEF Spec, TerminalRunIsFinal

\* CompareAndSwapRunMetrics, PutOracle and UpdateRunLinks are write-once, and
\* metrics need complete links and a decision: the evidence of a measured run
\* is frozen.
THEOREM EvidenceFrozen == Spec => MeasuredEvidenceFrozen
<1>1. ASSUME IInv, IInv', StoreGrows, NEW r \in Runs, runs[r].metrics # << >>
      PROVE  /\ runs'[r].metrics = runs[r].metrics /\ runs'[r].links = runs[r].links
             /\ oracle'[r] = oracle[r]
  <2>1. runs[r] \in Rows /\ runs'[r] \in Rows /\ MetricsOK(r)
    BY <1>1 DEF IInv, StoreOK
  <2>2. runs[r].links \in Links /\ runs'[r].links \in Links
    BY <2>1 DEF Rows
  <2>3. runs'[r].metrics = runs[r].metrics /\ linksExtend(runs[r].links, runs'[r].links)
    BY <1>1 DEF StoreGrows
  <2>4. oracle'[r] = oracle[r]
    BY <1>1, <2>1 DEF MetricsOK, StoreGrows
  <2>5. completeRunLinks(runs[r].links)
    <3> DEFINE l == runs[r].metrics[1].snap.links
    <3>1. completeRunLinks(l) /\ linksExtend(l, runs[r].links)
      BY <1>1, <2>1 DEF MetricsOK, Taken, validateImmutableMetricInputs
    <3> QED BY <3>1 DEF completeRunLinks, linksExtend, pointerExtends
  <2> QED BY <2>2, <2>3, <2>4, <2>5, CompleteLinksStay
<1>2. IInv /\ [Next]_vars =>
        [\A r \in Runs : runs[r].metrics # << >> =>
           /\ runs'[r].metrics = runs[r].metrics /\ runs'[r].links = runs[r].links
           /\ oracle'[r] = oracle[r]]_vars
  BY <1>1, NextKeeps
<1> QED BY <1>2, Invariant, PTL DEF Spec, MeasuredEvidenceFrozen
-----------------------------------------------------------------------------
(* Projections.  ReplaceProjection writes a snapshot that was read some    *)
(* statements earlier over transitions that were read earlier still.  What *)
(* both were read from has only moved on, in the way SourceGrows says: the *)
(* log and the batches the source reader takes from it, the links, and the *)
(* executions that have ended.                                             *)

\* s was read from the source of run r, now or at an earlier time.
Earlier(s, r) ==
    /\ s \in Snapshots
    /\ Len(s.log) <= Len(agent[r].log) /\ linksExtend(s.links, runs[r].links)
    /\ \A g \in Generations : isTerminalExecutionStatus(s.exec[g]) =>
          agent[r].exec[g] = s.exec[g] /\ g \in readBatches(agent[r].log)

\* The snapshot and the transitions a request holds, the transitions not being
\* the newer of the two; only an export holds transitions.
Behind(q) ==
    /\ q.pc # "idle" /\ q.snap # << >> => Earlier(q.snap[1], q.run)
    /\ q.pc = "source" /\ q.tr # << >> => Earlier(q.tr[1], q.run)
    /\ q.pc = "replace" /\ q.tr # << >> => NotOlder(q.tr[1], q.snap[1])
    /\ q.tr # << >> => q.op = "export" /\ q.pc \in {"source", "replace"}

ProjInv ==
    /\ \A r \in Runs : proj[r] # << >> => Earlier(proj[r][1], r)
    /\ \A p \in Requests : Behind(req[p])

\* The direction the source of a run moves in.
SourceGrows ==
    \A r \in Runs :
        /\ linksExtend(runs[r].links, runs'[r].links)
        /\ Len(agent[r].log) <= Len(agent'[r].log)
        /\ readBatches(agent[r].log) \subseteq readBatches(agent'[r].log)
        /\ \A g \in Generations : isTerminalExecutionStatus(agent[r].exec[g]) =>
              agent'[r].exec[g] = agent[r].exec[g]

\* Batches are read once something is approved, so a longer log has them all.
LEMMA BatchesKept ==
    ASSUME NEW a \in Seq(Events), NEW b \in Seq(Events),
           Len(a) <= Len(b), \A i \in 1..Len(a) : b[i] = a[i]
    PROVE  readBatches(a) \subseteq readBatches(b)
<1>1. DOMAIN a = 1..Len(a) /\ DOMAIN b = 1..Len(b) /\ DOMAIN a \subseteq DOMAIN b
  OBVIOUS
<1>2. \A i \in DOMAIN a : b[i] = a[i]
  BY <1>1
<1>3. executionBatchArtifactIDs(a) \subseteq executionBatchArtifactIDs(b)
  <2> SUFFICES ASSUME NEW g \in Generations, NEW i \in DOMAIN a, a[i] = BatchMade(g)
               PROVE  \E j \in DOMAIN b : b[j] = BatchMade(g)
    BY DEF executionBatchArtifactIDs
  <2> QED BY <1>1, <1>2
<1>4. Approvals(a) \subseteq Approvals(b)
  BY <1>1, <1>2 DEF Approvals
<1>5. approvedGenerations(a) # {} => approvedGenerations(b) # {}
  <2> SUFFICES ASSUME approvedGenerations(a) # {} PROVE approvedGenerations(b) # {} OBVIOUS
  <2>1. PICK n : n \in Approvals(a)
    BY DEF approvedGenerations
  <2>2. ApprovedBy(b, n) \in approvedGenerations(b)
    BY <1>4, <2>1 DEF approvedGenerations
  <2> QED BY <2>2
<1> QED BY <1>3, <1>5 DEF readBatches

\* The agent run of r moves from agent[r] to new without losing anything a
\* snapshot shows.
LEMMA SourceMoves ==
    ASSUME IInv, StoreGrows, NEW r \in Runs, NEW new \in Agents, agent' = [agent EXCEPT ![r] = new],
           Len(agent[r].log) <= Len(new.log), \A i \in 1..Len(agent[r].log) : new.log[i] = agent[r].log[i],
           \A g \in Generations : isTerminalExecutionStatus(agent[r].exec[g]) => new.exec[g] = agent[r].exec[g]
    PROVE  SourceGrows
<1>1. agent \in [Runs -> Agents] /\ agent'[r] = new /\ \A o \in Runs : o # r => agent'[o] = agent[o]
  BY DEF IInv, AgentsOK
<1>2. \A o \in Runs : agent[o].log \in Seq(Events)
  BY <1>1 DEF Agents
<1>3. new.log \in Seq(Events)
  BY DEF Agents
<1>4. readBatches(agent[r].log) \subseteq readBatches(new.log)
  BY <1>2, <1>3, BatchesKept
<1>5. \A o \in Runs : linksExtend(runs[o].links, runs'[o].links)
  BY DEF StoreGrows
<1> SUFFICES ASSUME NEW o \in Runs
             PROVE  /\ Len(agent[o].log) <= Len(agent'[o].log)
                    /\ readBatches(agent[o].log) \subseteq readBatches(agent'[o].log)
                    /\ \A g \in Generations : isTerminalExecutionStatus(agent[o].exec[g]) =>
                          agent'[o].exec[g] = agent[o].exec[g]
  BY <1>5 DEF SourceGrows
<1>6. CASE o = r
  BY <1>1, <1>4, <1>6
<1>7. CASE o # r
  <2>1. Len(agent[o].log) \in Nat
    BY <1>2
  <2> QED BY <1>1, <1>7, <2>1
<1> QED BY <1>6, <1>7

\* A step that leaves the agent runs alone.
LEMMA SourceStands ==
    ASSUME IInv, StoreGrows, UNCHANGED agent
    PROVE  SourceGrows
<1>1. \A o \in Runs : agent[o].log \in Seq(Events)
  BY DEF IInv, AgentsOK, Agents
<1>2. \A o \in Runs : Len(agent[o].log) \in Nat
  BY <1>1
<1>3. \A o \in Runs : linksExtend(runs[o].links, runs'[o].links)
  BY DEF StoreGrows
<1> QED BY <1>2, <1>3 DEF SourceGrows

\* What follows a log keeps it.
LEMMA LogLengthens ==
    ASSUME NEW log \in Seq(Events), NEW e \in Events, NEW f \in Events
    PROVE  /\ Append(log, e) \in Seq(Events) /\ log \o <<e, f>> \in Seq(Events)
           /\ Len(log) <= Len(Append(log, e)) /\ Len(log) <= Len(log \o <<e, f>>)
           /\ \A i \in 1..Len(log) : Append(log, e)[i] = log[i] /\ (log \o <<e, f>>)[i] = log[i]
OBVIOUS

\* Every event and every execution that ends adds to what the source shows.
LEMMA AgentStepMoves ==
    ASSUME IInv, StoreGrows, NEW r \in Runs, AgentStep(r)
    PROVE  SourceGrows
<1> DEFINE a == agent[r]
<1>1. /\ a \in Agents /\ a.log \in Seq(Events) /\ a.exec \in [Generations -> Executions]
      /\ a.latest \in 0..MaxGenerations /\ a.approved \in 0..MaxGenerations /\ a.approved <= a.latest
  BY AgentFacts
<1>2. MaxGenerations \in Nat
  BY GenerationAssumption
<1>3. CASE AgentGenerates(r)
  <2> DEFINE g == a.latest + 1
             log == a.log \o <<Generated(g), Pending(g)>>
             new == [a EXCEPT !.latest = g, !.log = log]
  <2>1. g \in Generations /\ agent' = [agent EXCEPT ![r] = new]
    BY <1>3 DEF AgentGenerates, AgentDoes
  <2>2. Generated(g) \in Events /\ Pending(g) \in Events /\ g \in 0..MaxGenerations
    BY <1>1, <1>2, <2>1 DEF Events, Generations
  <2>3. log \in Seq(Events) /\ Len(a.log) <= Len(log) /\ \A i \in 1..Len(a.log) : log[i] = a.log[i]
    <3> HIDE DEF a, g
    <3> QED BY <1>1, <2>2, LogLengthens
  <2> HIDE DEF a, g, log
  <2>4. new \in Agents /\ new.log = log /\ new.exec = a.exec
    BY <1>1, <2>2, <2>3 DEF Agents
  <2> HIDE DEF new
  <2> QED BY <2>1, <2>3, <2>4, SourceMoves DEF a
<1>4. CASE AgentAnswered(r)
  <2> DEFINE log == Append(a.log, Answered(a.latest))
             new == [a EXCEPT !.log = log, !.approved = a.latest]
  <2>1. a.approved # a.latest /\ agent' = [agent EXCEPT ![r] = new]
    BY <1>4 DEF AgentAnswered, AgentDoes
  <2>2. a.latest \in Generations
    BY <1>1, <1>2, <2>1 DEF Generations
  <2>3. Answered(a.latest) \in Events
    BY <2>2 DEF Events
  <2>4. log \in Seq(Events) /\ Len(a.log) <= Len(log) /\ \A i \in 1..Len(a.log) : log[i] = a.log[i]
    <3> HIDE DEF a
    <3> QED BY <1>1, <2>3, LogLengthens
  <2> HIDE DEF a, log
  <2>5. new \in Agents /\ new.log = log /\ new.exec = a.exec
    BY <1>1, <2>4 DEF Agents
  <2> HIDE DEF new
  <2> QED BY <2>1, <2>4, <2>5, SourceMoves DEF a
<1>5. CASE AgentExecutes(r)
  <2> DEFINE log == Append(a.log, BatchMade(a.approved))
             e == [a.exec EXCEPT ![a.approved] = "running"]
             new == [a EXCEPT !.exec = e, !.log = log]
  <2>1. /\ a.approved # 0 /\ a.exec[a.approved] = "none"
        /\ agent' = [agent EXCEPT ![r] = new]
    BY <1>5 DEF AgentExecutes, AgentDoes
  <2>2. a.approved \in Generations
    BY <1>1, <1>2, <2>1 DEF Generations
  <2>3. BatchMade(a.approved) \in Events
    BY <2>2 DEF Events
  <2>4. log \in Seq(Events) /\ Len(a.log) <= Len(log) /\ \A i \in 1..Len(a.log) : log[i] = a.log[i]
    <3> HIDE DEF a
    <3> QED BY <1>1, <2>3, LogLengthens
  <2>5. e \in [Generations -> Executions]
    BY <1>1 DEF Executions
  <2>6. \A g \in Generations : isTerminalExecutionStatus(a.exec[g]) => e[g] = a.exec[g]
    BY <1>1, <2>1, <2>2 DEF isTerminalExecutionStatus
  <2> HIDE DEF a, log, e
  <2>7. new \in Agents /\ new.log = log /\ new.exec = e
    BY <1>1, <2>4, <2>5 DEF Agents
  <2> HIDE DEF new
  <2> QED BY <2>1, <2>4, <2>6, <2>7, SourceMoves DEF a
<1>6. ASSUME NEW s \in AgentEndings, AgentEnds(r, s)
      PROVE  SourceGrows
  <2> DEFINE log == Append(a.log, Finished)
             new == [a EXCEPT !.status = s, !.log = log]
  <2>1. agent' = [agent EXCEPT ![r] = new]
    BY <1>6 DEF AgentEnds, AgentDoes
  <2>2. s \in AgentStatuses /\ Finished \in Events
    BY ScheduleAssumption DEF AgentStatuses, Events
  <2>3. log \in Seq(Events) /\ Len(a.log) <= Len(log) /\ \A i \in 1..Len(a.log) : log[i] = a.log[i]
    <3> HIDE DEF a
    <3> QED BY <1>1, <2>2, LogLengthens
  <2> HIDE DEF a, log
  <2>4. new \in Agents /\ new.log = log /\ new.exec = a.exec
    BY <1>1, <2>2, <2>3 DEF Agents
  <2> HIDE DEF new
  <2> QED BY <2>1, <2>3, <2>4, SourceMoves DEF a
<1>7. ASSUME NEW g \in Generations, NEW s \in ExecutionEndings, ExecutionEnds(r, g, s)
      PROVE  SourceGrows
  <2> DEFINE e == [a.exec EXCEPT ![g] = s]
             new == [a EXCEPT !.exec = e]
  <2>1. a.exec[g] = "running" /\ agent' = [agent EXCEPT ![r] = new]
    BY <1>7 DEF ExecutionEnds
  <2>2. s \in Executions
    BY ScheduleAssumption DEF Executions
  <2>3. e \in [Generations -> Executions]
    BY <1>1, <2>2
  <2>4. \A x \in Generations : isTerminalExecutionStatus(a.exec[x]) => e[x] = a.exec[x]
    BY <1>1, <2>1 DEF isTerminalExecutionStatus
  <2>5. Len(a.log) <= Len(a.log)
    BY <1>1
  <2> HIDE DEF a, e
  <2>6. new \in Agents /\ new.exec = e /\ new.log = a.log
    BY <1>1, <2>3 DEF Agents
  <2> HIDE DEF new
  <2> QED BY <2>1, <2>4, <2>5, <2>6, SourceMoves DEF a
<1> QED BY <1>3, <1>4, <1>5, <1>6, <1>7 DEF AgentStep

\* No step takes from the source what a snapshot may have shown.
LEMMA NextMovesSource == IInv /\ [Next]_vars => SourceGrows
<1> SUFFICES ASSUME IInv, [Next]_vars PROVE SourceGrows OBVIOUS
<1>1. StoreGrows
  BY NextKeeps
<1>2. UNCHANGED agent \/ \E r \in Runs : AgentStep(r)
  <2>1. CASE UNCHANGED vars
    BY <2>1 DEF vars
  <2>2. CASE CreateExperiment
    BY <2>2 DEF CreateExperiment
  <2>3. ASSUME NEW p \in Requests, RequestStep(p) PROVE UNCHANGED agent
    BY <2>3 DEF RequestStep, ReadRow, RefreshProjection, StartExperiment, CreateRun, Activate,
                ReadExperiment, CompareAndSwapRunStatus, Settle, CompleteExperiment, ReadSource,
                ReadOracle, ReadProjectionState, ReplaceProjection, ListTransitions,
                CompareAndSwapRunMetrics, Abandon, StoreSame
  <2>4. ASSUME NEW r \in Measured, ClientStep(r) PROVE UNCHANGED agent
    BY <2>4 DEF ClientStep, UpdateRunLinks, PutOracle
  <2>5. Measured \subseteq Runs
    BY ScheduleAssumption DEF Runs
  <2> QED BY <2>1, <2>2, <2>3, <2>4, <2>5 DEF Next
<1> QED BY <1>1, <1>2, SourceStands, AgentStepMoves

\* A snapshot of the past stays one.
LEMMA EarlierStays ==
    ASSUME IInv, IInv', SourceGrows, NEW r \in Runs, NEW s, Earlier(s, r)
    PROVE  Earlier(s, r)'
<1>1. Len(s.log) \in Nat /\ Len(agent[r].log) \in Nat /\ Len(agent'[r].log) \in Nat
  <2>1. s.log \in Seq(Events)
    BY DEF Earlier, Snapshots
  <2>2. agent[r].log \in Seq(Events) /\ agent'[r].log \in Seq(Events)
    BY DEF IInv, AgentsOK, Agents
  <2> QED BY <2>1, <2>2
<1>2. Len(s.log) <= Len(agent'[r].log)
  BY <1>1 DEF Earlier, SourceGrows
<1>3. linksExtend(s.links, runs'[r].links)
  BY LinksTransitive DEF Earlier, SourceGrows
<1>4. \A g \in Generations : isTerminalExecutionStatus(s.exec[g]) =>
          agent'[r].exec[g] = s.exec[g] /\ g \in readBatches(agent'[r].log)
  BY DEF Earlier, SourceGrows
<1> QED BY <1>2, <1>3, <1>4 DEF Earlier

\* What is read from the source is not older than what was read before.
LEMMA SnapshotNotOlder ==
    ASSUME IInv, NEW r \in Runs
    PROVE  LET s == Snapshot(agent[r], runs[r].links) IN
           Earlier(s, r) /\ \A a : Earlier(a, r) => NotOlder(a, s)
<1> DEFINE s == Snapshot(agent[r], runs[r].links)
<1>1. s \in Snapshots
  BY SnapshotTaken DEF IInv
<1>2. /\ s.log = agent[r].log /\ s.links = runs[r].links
      /\ \A g \in Generations :
           s.exec[g] = IF g \in readBatches(agent[r].log) THEN agent[r].exec[g] ELSE "none"
  BY DEF Snapshot
<1>3. Len(agent[r].log) <= Len(agent[r].log)
  <2>1. agent[r].log \in Seq(Events)
    BY AgentFacts
  <2> QED BY <2>1
<1> HIDE DEF s
<1>4. Earlier(s, r)
  BY <1>1, <1>2, <1>3, LinksReflexive DEF Earlier, isTerminalExecutionStatus
<1>5. ASSUME NEW a, Earlier(a, r) PROVE NotOlder(a, s)
  BY <1>2, <1>5 DEF Earlier, NotOlder
<1> QED BY <1>4, <1>5 DEF s

\* A request that holds nothing, or goes on with the snapshot it has.
LEMMA BareIsBehind ==
    ASSUME NEW q, q.snap = << >>, q.tr = << >>
    PROVE  Behind(q)
BY DEF Behind

\* A request that goes on with the snapshot it has.
LEMMA CarriesOn ==
    ASSUME NEW q, Behind(q), q.pc # "idle", q.tr = << >>,
           NEW new, new.snap = q.snap, new.run = q.run, new.tr = << >>
    PROVE  Behind(new)
BY DEF Behind

\* A request that returns.
LEMMA ReturnIsBehind ==
    ASSUME NEW p \in Requests, Return(p)
    PROVE  \E new : Go(p, new) /\ Behind(new)
BY IdleFacts, BareIsBehind DEF Return

\* A request that goes on after a decision.
LEMMA ContinueIsBehind ==
    ASSUME NEW p \in Requests, NEW q \in RequestStates, Behind(q), q.pc # "idle", q.tr = << >>,
           NEW next, Continue(p, q, next)
    PROVE  \E new : Go(p, new) /\ Behind(new)
<1>1. CASE next = "idle"
  BY <1>1, ContinueCases, ReturnIsBehind
<1>2. CASE next \in {"cas", "settle"}
  <2>1. Reduced(q, next).snap = << >> /\ Reduced(q, next).tr = << >>
    BY <1>2, ReducedFields
  <2>2. Behind(Reduced(q, next))
    BY <2>1, BareIsBehind
  <2> QED BY <1>2, <2>2, ContinueCases
<1>3. CASE next \notin {"idle", "cas", "settle"}
  <2> DEFINE new == [q EXCEPT !.pc = next]
  <2>1. new.snap = q.snap /\ new.run = q.run /\ new.tr = q.tr
    BY DEF RequestStates
  <2>2. Go(p, new)
    BY <1>3, ContinueCases
  <2> HIDE DEF new
  <2>3. Behind(new)
    BY <2>1, CarriesOn
  <2> QED BY <2>2, <2>3
<1> QED BY <1>1, <1>2, <1>3

\* A request that goes on to the next statement.
LEMMA StepIsBehind ==
    ASSUME NEW p \in Requests, req[p] \in RequestStates, Behind(req[p]),
           req[p].pc # "idle", req[p].tr = << >>, NEW next, Step(p, next)
    PROVE  \E new : Go(p, new) /\ Behind(new)
<1> DEFINE new == [req[p] EXCEPT !.pc = next]
<1>1. Go(p, new)
  BY DEF Step
<1>2. new.snap = req[p].snap /\ new.run = req[p].run /\ new.tr = req[p].tr
  BY DEF RequestStates
<1> HIDE DEF new
<1>3. Behind(new)
  BY <1>2, CarriesOn
<1> QED BY <1>1, <1>3

\* ReadSource: the transitions of an export were read before the source.
LEMMA ReadSourceIsBehind ==
    ASSUME IInv, ProjInv, NEW p \in Requests, ReadSource(p)
    PROVE  \E new : Go(p, new) /\ Behind(new)
<1> DEFINE q == req[p]
           r == q.run
           s == Snapshot(agent[r], runs[r].links)
           pc == IF q.op = "export" THEN "replace" ELSE "oracle"
           row == [q.row EXCEPT !.links = NoLinks, !.started = FALSE]
           new == [q EXCEPT !.snap = <<s>>, !.row = row, !.pc = pc]
<1>1. q.pc = "source" /\ RequestOK(q) /\ Behind(q)
  BY DEF ReadSource, At, IInv, ProjInv
<1>2. q \in RequestStates /\ r \in Runs
  BY <1>1 DEF RequestOK
<1>3. Return(p) \/ Go(p, new)
  <2>1. CASE Readable(agent[r], runs[r].links) /\ (q.op # "export" => runs[r].links = q.row.links)
    <3>1. Go(p, [q EXCEPT !.snap = <<s>>, !.row.links = NoLinks, !.row.started = FALSE, !.pc = pc])
      BY <2>1 DEF ReadSource
    <3> QED BY <3>1
  <2>2. CASE ~(Readable(agent[r], runs[r].links) /\ (q.op # "export" => runs[r].links = q.row.links))
    BY <2>2 DEF ReadSource
  <2> QED BY <2>1, <2>2
<1>4. CASE Return(p)
  BY <1>4, ReturnIsBehind
<1>5. CASE Go(p, new)
  <2>1. Earlier(s, r) /\ \A a : Earlier(a, r) => NotOlder(a, s)
    BY <1>2, SnapshotNotOlder
  <2>2. pc \in {"replace", "oracle"} /\ (q.op = "export" => pc = "replace")
    OBVIOUS
  <2> HIDE DEF s, pc, row
  <2>3. /\ new.snap = <<s>> /\ new.tr = q.tr /\ new.op = q.op /\ new.run = r /\ new.pc = pc
    <3> HIDE DEF q
    <3> QED BY <1>2 DEF RequestStates
  <2>4. <<s>>[1] = s
    OBVIOUS
  <2> HIDE DEF new
  <2>5. Behind(new)
    <3>1. q.tr # << >> => Earlier(q.tr[1], r) /\ q.op = "export"
      BY <1>1 DEF Behind
    <3>2. new.pc # "idle" /\ new.snap # << >> => Earlier(new.snap[1], new.run)
      BY <2>1, <2>3, <2>4
    <3>3. new.pc = "replace" /\ new.tr # << >> => NotOlder(new.tr[1], new.snap[1])
      BY <2>1, <2>3, <2>4, <3>1
    <3> QED BY <2>2, <2>3, <3>1, <3>2, <3>3 DEF Behind
  <2> QED BY <1>5, <2>5
<1> QED BY <1>3, <1>4, <1>5

\* RefreshProjection reads the transitions with which the export starts.
LEMMA RefreshIsBehind ==
    ASSUME IInv, ProjInv, NEW p \in Requests, NEW r \in Runs, RefreshProjection(p, r)
    PROVE  \E new : Go(p, new) /\ Behind(new)
<1> DEFINE t == proj[r]
           new == [Idle EXCEPT !.op = "export", !.run = r, !.pc = "source", !.tr = t]
<1>1. Go(p, new)
  BY DEF RefreshProjection
<1>2. t # << >> => Earlier(t[1], r)
  BY DEF ProjInv
<1> HIDE DEF t
<1>3. /\ new.op = "export" /\ new.run = r /\ new.pc = "source" /\ new.tr = t /\ new.snap = << >>
  <2> HIDE DEF Idle
  <2> QED BY IdleFacts DEF RequestStates
<1> HIDE DEF new
<1>4. Behind(new)
  BY <1>2, <1>3 DEF Behind
<1> QED BY <1>1, <1>4

\* Whatever a request does, it goes on with nothing newer than what it will write.
LEMMA RequestStaysBehind ==
    ASSUME IInv, ProjInv, NEW p \in Requests, RequestStep(p)
    PROVE  \E new : Go(p, new) /\ Behind(new)
<1> DEFINE q == req[p]
<1>1. q \in RequestStates /\ RequestOK(q) /\ Behind(q)
  BY DEF IInv, RequestOK, ProjInv
<1>2. q.pc \notin {"source", "replace"} => q.tr = << >>
  BY <1>1 DEF Behind
<1>3. ASSUME NEW r \in Runs, NEW op \in Operations, ReadRow(p, op, r)
      PROVE  \E new : Go(p, new) /\ Behind(new)
  <2> DEFINE new == [Idle EXCEPT !.op = op, !.run = r, !.row = Used(op, runs[r]),
                                 !.pc = IF op = "measure" THEN "source" ELSE "experiment"]
  <2>1. Go(p, new)
    BY <1>3 DEF ReadRow
  <2>2. new.snap = << >> /\ new.tr = << >>
    <3> HIDE DEF Idle
    <3> QED BY IdleFacts DEF RequestStates
  <2> HIDE DEF new
  <2> QED BY <2>1, <2>2, BareIsBehind
<1>4. CASE StartExperiment(p)
  <2> DEFINE new == [Idle EXCEPT !.op = "begin", !.run = 1, !.pc = "create", !.exp = experiment]
  <2>1. Go(p, new)
    BY <1>4 DEF StartExperiment
  <2>2. new.snap = << >> /\ new.tr = << >>
    <3> HIDE DEF Idle
    <3> QED BY IdleFacts DEF RequestStates
  <2> HIDE DEF new
  <2> QED BY <2>1, <2>2, BareIsBehind
<1>5. CASE CreateRun(p)
  <2> DEFINE new == [q EXCEPT !.run = q.run + 1]
  <2>1. q.pc = "create"
    BY <1>5 DEF CreateRun, At
  <2>2. q.snap = << >> /\ q.tr = << >>
    BY <1>1, <1>2, <2>1 DEF RequestOK, Created
  <2>3. Go(p, new) \/ Step(p, "activate") \/ Return(p)
    BY <1>5 DEF CreateRun
  <2>4. CASE Go(p, new)
    <3>1. new.snap = q.snap /\ new.tr = q.tr
      BY <1>1 DEF RequestStates
    <3> HIDE DEF new
    <3> QED BY <2>2, <2>4, <3>1, BareIsBehind
  <2> QED BY <1>1, <2>1, <2>2, <2>3, <2>4, StepIsBehind, ReturnIsBehind
<1>6. CASE ReadExperiment(p)
  <2> DEFINE q2 == [q EXCEPT !.exp = experiment]
  <2>1. q.pc = "experiment" /\ Continue(p, q2, Decision(q2))
    BY <1>6 DEF ReadExperiment, At
  <2>2. q2 \in RequestStates /\ q2.pc = q.pc /\ q2.snap = q.snap /\ q2.run = q.run /\ q2.tr = q.tr
    <3>1. experiment \in {"none", "draft", "active", "completed"}
      BY DEF IInv, StoreOK
    <3> HIDE DEF q
    <3> QED BY <1>1, <3>1 DEF RequestStates
  <2> HIDE DEF q2
  <2>3. q.tr = << >> /\ Behind(q2)
    BY <1>1, <1>2, <2>1, <2>2, CarriesOn
  <2> QED BY <2>1, <2>2, <2>3, ContinueIsBehind
<1>7. CASE CompareAndSwapRunStatus(p)
  <2>1. q.pc = "cas" /\ \E next : Continue(p, q, next)
    BY <1>7 DEF CompareAndSwapRunStatus, At
  <2> QED BY <1>1, <1>2, <2>1, ContinueIsBehind
<1>8. CASE Settle(p)
  <2>1. q.pc = "settle" /\ (Step(p, "finish") \/ Return(p))
    BY <1>8 DEF Settle, At
  <2> QED BY <1>1, <1>2, <2>1, StepIsBehind, ReturnIsBehind
<1>9. CASE ReadOracle(p)
  <2> DEFINE o == oracle[q.run]
             new == [q EXCEPT !.orc = o, !.pc = "state"]
  <2>1. q.pc = "oracle" /\ (Return(p) \/ Go(p, new))
    BY <1>9 DEF ReadOracle, At
  <2> HIDE DEF o
  <2>2. new.snap = q.snap /\ new.run = q.run /\ new.tr = q.tr
    BY <1>1 DEF RequestStates
  <2> HIDE DEF new
  <2>3. Behind(new)
    BY <1>1, <1>2, <2>1, <2>2, CarriesOn
  <2> QED BY <2>1, <2>3, ReturnIsBehind
<1>10. CASE ReadProjectionState(p)
  <2>1. q.pc = "state" /\ \E next : Step(p, next)
    BY <1>10 DEF ReadProjectionState, At
  <2> QED BY <1>1, <1>2, <2>1, StepIsBehind
<1>11. CASE ReplaceProjection(p)
  <2>1. q.pc = "replace" /\ \E next : Continue(p, q, next) /\ (q.op = "export" => next = "idle")
    BY <1>11 DEF ReplaceProjection, At
  <2>2. CASE q.op = "export"
    BY <2>1, <2>2, ContinueCases, ReturnIsBehind
  <2>3. CASE q.op # "export"
    <3>1. q.tr = << >>
      BY <1>1, <2>3 DEF Behind
    <3> QED BY <1>1, <2>1, <3>1, ContinueIsBehind
  <2> QED BY <2>2, <2>3
<1>12. CASE ListTransitions(p)
  <2>1. q.pc = "list" /\ \E next : Continue(p, q, next)
    BY <1>12 DEF ListTransitions, At
  <2> QED BY <1>1, <1>2, <2>1, ContinueIsBehind
<1>13. CASE Activate(p) \/ CompleteExperiment(p) \/ CompareAndSwapRunMetrics(p) \/ Abandon(p)
  <2>1. Return(p)
    BY <1>13 DEF Activate, CompleteExperiment, CompareAndSwapRunMetrics, Abandon
  <2> QED BY <2>1, ReturnIsBehind
<1> QED BY <1>3, <1>4, <1>5, <1>6, <1>7, <1>8, <1>9, <1>10, <1>11, <1>12, <1>13,
           ReadSourceIsBehind, RefreshIsBehind DEF RequestStep

\* ReplaceProjection compares with the transitions that were read first, so what
\* it replaces is not newer than what it writes.
LEMMA ReplacedIsNotNewer ==
    ASSUME IInv, ProjInv, [Next]_vars, NEW r \in Runs, proj'[r] # proj[r]
    PROVE  /\ proj'[r] # << >> /\ Earlier(proj'[r][1], r)
           /\ proj[r] # << >> => NotOlder(proj[r][1], proj'[r][1])
<1>1. \E p \in Requests : ReplaceProjection(p)
  <2>1. CASE UNCHANGED vars
    BY <2>1 DEF vars
  <2>2. CASE CreateExperiment
    BY <2>2 DEF CreateExperiment
  <2>3. ASSUME NEW p \in Requests, RequestStep(p) PROVE ReplaceProjection(p)
    BY <2>3 DEF RequestStep, ReadRow, RefreshProjection, StartExperiment, CreateRun, Activate,
                ReadExperiment, CompareAndSwapRunStatus, Settle, CompleteExperiment, ReadSource,
                ReadOracle, ReadProjectionState, ListTransitions,
                CompareAndSwapRunMetrics, Abandon, StoreSame
  <2>4. ASSUME NEW o \in Measured, ClientStep(o) \/ AgentStep(o) PROVE FALSE
    BY <2>4 DEF ClientStep, UpdateRunLinks, PutOracle, AgentStep, AgentGenerates, AgentAnswered,
                AgentExecutes, AgentEnds, AgentDoes, ExecutionEnds
  <2> QED BY <2>1, <2>2, <2>3, <2>4 DEF Next
<1>2. PICK p \in Requests : ReplaceProjection(p)
  BY <1>1
<1> DEFINE q == req[p]
<1>3. q.pc = "replace" /\ RequestOK(q) /\ Behind(q) /\ proj \in [Runs -> Optional(Snapshots)]
  BY <1>2 DEF ReplaceProjection, At, IInv, ProjInv, StoreOK
<1>4. q.run \in Runs /\ q.snap # << >>
  BY <1>3 DEF RequestOK, Holds
<1>5. proj[q.run] = q.tr /\ proj' = [proj EXCEPT ![q.run] = q.snap]
  BY <1>2 DEF ReplaceProjection, ProjectionUnchanged
<1>6. r = q.run /\ proj'[r] = q.snap /\ proj[r] = q.tr
  BY <1>3, <1>4, <1>5
<1> QED BY <1>3, <1>4, <1>6 DEF Behind

\* Every step keeps the invariant of projections.
LEMMA ProjectionsKept ==
    ASSUME IInv, IInv', ProjInv, [Next]_vars
    PROVE  ProjInv'
<1>1. SourceGrows
  BY NextMovesSource
<1>2. \A r \in Runs : \A s : Earlier(s, r) => Earlier(s, r)'
  BY <1>1, EarlierStays
<1>3. ASSUME NEW r \in Runs, proj'[r] # << >> PROVE Earlier(proj[r][1], r)'
  <2>1. Earlier(proj'[r][1], r)
    <3>1. CASE proj'[r] = proj[r]
      BY <1>3, <3>1 DEF ProjInv
    <3>2. CASE proj'[r] # proj[r]
      BY <3>2, ReplacedIsNotNewer
    <3> QED BY <3>1, <3>2
  <2> QED BY <1>2, <2>1 DEF Earlier
<1>4. ASSUME NEW o \in Requests, NEW q, Behind(q), req'[o] = q
      PROVE  Behind(req[o])'
  <2>1. q.pc # "idle" => q.run \in Runs
    BY <1>4 DEF IInv, RequestOK
  <2>2. q.pc # "idle" /\ q.snap # << >> => Earlier(q.snap[1], q.run)'
    BY <1>2, <1>4, <2>1 DEF Behind
  <2>3. q.pc = "source" /\ q.tr # << >> => Earlier(q.tr[1], q.run)'
    BY <1>2, <1>4, <2>1 DEF Behind
  <2> QED BY <1>4, <2>2, <2>3 DEF Behind
<1>5. ASSUME NEW o \in Requests PROVE Behind(req[o])'
  <2>1. \E q : Behind(q) /\ req'[o] = q
    <3>1. Behind(req[o])
      BY DEF ProjInv
    <3>2. CASE req' = req
      BY <3>1, <3>2
    <3>3. ASSUME NEW p \in Requests, RequestStep(p) PROVE \E q : Behind(q) /\ req'[o] = q
      <4>1. PICK new : Go(p, new) /\ Behind(new)
        BY <3>3, RequestStaysBehind
      <4>2. req' = [req EXCEPT ![p] = new] /\ req \in [Requests -> RequestStates]
        BY <4>1 DEF Go, IInv
      <4> QED BY <3>1, <4>1, <4>2
    <3>4. req' = req \/ \E p \in Requests : RequestStep(p)
      <4>1. ASSUME NEW r \in Measured, ClientStep(r) \/ AgentStep(r) PROVE req' = req
        BY <4>1 DEF ClientStep, UpdateRunLinks, PutOracle, AgentStep, AgentGenerates, AgentAnswered,
                    AgentExecutes, AgentEnds, AgentDoes, ExecutionEnds
      <4>2. CASE UNCHANGED vars
        BY <4>2 DEF vars
      <4>3. CASE CreateExperiment
        BY <4>3 DEF CreateExperiment
      <4> QED BY <4>1, <4>2, <4>3 DEF Next
    <3> QED BY <3>2, <3>3, <3>4
  <2> QED BY <1>4, <2>1
<1> QED BY <1>3, <1>5 DEF ProjInv

\* At first nothing is projected.
LEMMA InitProjects == Init => ProjInv
<1> SUFFICES ASSUME Init PROVE ProjInv OBVIOUS
<1>1. \A r \in Runs : proj[r] = << >>
  BY DEF Init
<1>2. \A p \in Requests : req[p] = Idle
  BY DEF Init
<1>3. Behind(Idle)
  BY IdleFacts, BareIsBehind
<1> HIDE DEF Idle
<1> QED BY <1>1, <1>2, <1>3 DEF ProjInv

\* Stored transitions, and the snapshot and transitions of every request in
\* flight, belong to the source as it was now or earlier.
THEOREM ProjectionsOfThePast == Spec => []ProjInv
<1>1. IInv /\ IInv' /\ ProjInv /\ [Next]_vars => ProjInv'
  BY ProjectionsKept
<1> QED BY <1>1, InitProjects, Invariant, PTL DEF Spec

\* ReplaceProjection: a slow writer never puts an older snapshot's transitions
\* over newer ones.
THEOREM ProjectionsAdvance == Spec => ProjectionNeverRegresses
<1>1. IInv /\ ProjInv /\ [Next]_vars =>
        [\A r \in Runs : proj[r] # << >> /\ proj'[r] # proj[r] =>
            proj'[r] # << >> /\ NotOlder(proj[r][1], proj'[r][1])]_vars
  BY ReplacedIsNotNewer
<1> QED BY <1>1, Invariant, ProjectionsOfThePast, PTL DEF Spec, ProjectionNeverRegresses
=============================================================================
