------------------------------ MODULE AgentRun ------------------------------
(***************************************************************************)
(* One agent run of backend-go: its row and event log (agentservice), the  *)
(* goroutines that drive its model/tool loop (harness, agent.Loop) and the *)
(* HTTP requests that start, resume and cancel it.                         *)
(*                                                                         *)
(* Every statement on the database is one step, as is every critical       *)
(* section of activeMu; a goroutine keeps a private copy of the row        *)
(* between them and writes the whole copy back.  Events nobody waits for   *)
(* (trace, telemetry, message and plan events) are folded into the write   *)
(* that follows them: both are refused under the same condition and with   *)
(* the same error.                                                         *)
(***************************************************************************)
EXTENDS Naturals, Sequences, FiniteSets

CONSTANTS
    Procs,           \* goroutines: the start and each resume request
    Cancels,         \* cancel requests
    MaxTurns,        \* turns of one agent.Loop, turnBudget included
    MaxModelCalls,   \* RunCostLimits.MaxModelCalls
    CallsPerTurn,    \* bound on the tool calls of one model response
    MaxCalls,        \* bound on the tool calls of the run
    MaxFaults,       \* bound on failed statements, refused approvals, restarts
    DuplicateResume, \* may a client send two resumes for one tool call
    NoProc           \* no entry in activeRuns

ASSUME AgentAssumption ==
    /\ MaxTurns \in Nat \ {0}
    /\ MaxModelCalls \in Nat \ {0}
    /\ CallsPerTurn \in Nat \ {0}
    /\ MaxCalls \in Nat
    /\ MaxFaults \in Nat
    /\ DuplicateResume \in BOOLEAN
    /\ NoProc \notin Procs

VARIABLES
    \* agent_runs and agent_events
    row,       \* status, pending_tool_call_id and the transcript of the run
    asked,     \* tool calls with a tool.pending event
    results,   \* tool.result events by tool call
    outcome,   \* run.finished, run.failed and run.cancelled, in order
    \* Harness.activeRuns
    active,    \* the goroutine whose activeRun is registered
    ctxDone,   \* goroutines whose runContext is cancelled
    spent,     \* activeRun.modelCalls
    \* the goroutines
    pc,
    target,    \* the tool call a resume request answers
    previous,  \* Continue's previous, still to be cancelled
    local,     \* the goroutine's copy of the row
    queue,     \* response.ToolCalls still to be handled
    turns,     \* used
    \* the cancel requests
    cpc,
    victim,    \* the activeRun CancelOwned found
    \* environment and history
    nextCall,  \* the next tool call id the model hands out
    faults

dbVars     == <<row, asked, results, outcome>>
activeVars == <<active, ctxDone, spent>>
procVars   == <<pc, target, previous, local, queue, turns>>
cancelVars == <<cpc, victim>>
envVars    == <<nextCall, faults>>
vars       == <<dbVars, activeVars, procVars, cancelVars, envVars>>

Calls  == 1..MaxCalls
NoCall == 0

\* The transcript is kept as the tool calls its assistant messages hold and the
\* ones its tool messages answer.
Rows == [status : {"absent", "running", "waiting_user", "completed", "failed",
                   "cancelled"},
         pending : Calls \cup {NoCall},
         called : SUBSET Calls,
         answered : SUBSET Calls]

NoRow == [status |-> "absent", pending |-> NoCall, called |-> {}, answered |-> {}]

\* Where a goroutine is: in Resume, in Continue before the run is read, in the
\* loop and its error path.
Resuming == {"starting", "answering", "resuming", "approving", "resaving"}
Entering == {"registered", "reading"}
Driving  == {"turn", "calling", "tools", "storing", "requesting", "parking",
             "completing", "finishing", "failing", "announcing"}

Init ==
    /\ row = NoRow
    /\ asked = {}
    /\ results = [c \in Calls |-> 0]
    /\ outcome = <<>>
    /\ active = NoProc
    /\ ctxDone = {}
    /\ spent = [p \in Procs |-> 0]
    /\ pc = [p \in Procs |-> "idle"]
    /\ target = [p \in Procs |-> NoCall]
    /\ previous = [p \in Procs |-> NoProc]
    /\ local = [p \in Procs |-> NoRow]
    /\ queue = [p \in Procs |-> <<>>]
    /\ turns = [p \in Procs |-> 0]
    /\ cpc = [k \in Cancels |-> "idle"]
    /\ victim = [k \in Cancels |-> NoProc]
    /\ nextCall = 1
    /\ faults = 0

-----------------------------------------------------------------------------
(* Writes                                                                  *)

\* Faulty form of RowOpen: the WHERE clause is dropped.
RowAlwaysOpen == TRUE

\* status <> 'cancelled', the WHERE clause of SaveRun and of AppendEvent.
RowOpen == row.status # "cancelled"

\* A statement of p goes through: its context is live and the run not cancelled.
CanWrite(p) == p \notin ctxDone /\ RowOpen

Goto(p, to) == pc' = [pc EXCEPT ![p] = to]

\* SaveRun: every column is overwritten with the copy of p.
SaveRun(p, copy) ==
    /\ row' = copy
    /\ local' = [local EXCEPT ![p] = copy]

-----------------------------------------------------------------------------
(* Start and resume                                                        *)

\* StartOwnedProjectRun: the row is inserted.
StartRun(p) ==
    /\ pc[p] = "idle"
    /\ row.status = "absent"
    /\ row' = [NoRow EXCEPT !.status = "running"]
    /\ Goto(p, "starting")
    /\ UNCHANGED <<asked, results, outcome, activeVars, target, previous, local,
                   queue, turns, cancelVars, envVars>>

\* run.started is appended and the goroutine that calls Continue is started.
RunStarted(p) ==
    /\ pc[p] = "starting"
    /\ CanWrite(p)
    /\ Goto(p, "continue")
    /\ UNCHANGED <<dbVars, activeVars, target, previous, local, queue, turns,
                   cancelVars, envVars>>

\* ResumeToolCall's check.  Any other state of the row is a conflict and changes
\* nothing.
ResumeToolCall(p, c) ==
    /\ pc[p] = "idle"
    /\ c \in asked
    /\ DuplicateResume \/ \A q \in Procs : target[q] # c
    /\ row.status = "waiting_user"
    /\ row.pending = c
    /\ target' = [target EXCEPT ![p] = c]
    /\ local' = [local EXCEPT ![p] = row]
    /\ Goto(p, "answering")
    /\ UNCHANGED <<dbVars, activeVars, previous, queue, turns, cancelVars, envVars>>

\* The answer becomes the tool.result event (and tool.finished).
ResumeResult(p) ==
    /\ pc[p] = "answering"
    /\ CanWrite(p)
    /\ results' = [results EXCEPT ![target[p]] = @ + 1]
    /\ Goto(p, "resuming")
    /\ UNCHANGED <<row, asked, outcome, activeVars, target, previous, local, queue,
                   turns, cancelVars, envVars>>

\* ResumeToolCall saves the copy with status running.
ResumeSave(p) ==
    /\ pc[p] = "resuming"
    /\ CanWrite(p)
    /\ SaveRun(p, [local[p] EXCEPT !.status = "running", !.pending = NoCall])
    /\ Goto(p, "approving")
    /\ UNCHANGED <<asked, results, outcome, activeVars, target, previous, queue,
                   turns, cancelVars, envVars>>

\* The answers hold no approval, or the task plan accepts it.
Approve(p) ==
    /\ pc[p] = "approving"
    /\ CanWrite(p)
    /\ Goto(p, "resaving")
    /\ UNCHANGED <<dbVars, activeVars, target, previous, local, queue, turns,
                   cancelVars, envVars>>

\* Resume saves the transcript with the tool message and calls Continue.
ResumeTranscript(p) ==
    /\ pc[p] = "resaving"
    /\ CanWrite(p)
    /\ SaveRun(p, [local[p] EXCEPT !.answered = @ \cup {target[p]}])
    /\ Goto(p, "continue")
    /\ UNCHANGED <<asked, results, outcome, activeVars, target, previous, queue,
                   turns, cancelVars, envVars>>

-----------------------------------------------------------------------------
(* Continue                                                                *)

\* A new activeRun replaces the registered one.
Register(p) ==
    /\ pc[p] = "continue"
    /\ active' = p
    /\ previous' = [previous EXCEPT ![p] = active]
    /\ Goto(p, "registered")
    /\ UNCHANGED <<dbVars, ctxDone, spent, target, local, queue, turns, cancelVars,
                   envVars>>

\* previous.cancel(), after activeMu was released.
CancelPrevious(p) ==
    /\ pc[p] = "registered"
    /\ ctxDone' = ctxDone \cup ({previous[p]} \cap Procs)
    /\ previous' = [previous EXCEPT ![p] = NoProc]
    /\ Goto(p, "reading")
    /\ UNCHANGED <<dbVars, active, spent, target, local, queue, turns, cancelVars,
                   envVars>>

\* Faulty form of Drivable: any run is driven.
DrivableAny == TRUE

Drivable == row.status = "running"

\* continueRun reads the row; only a running one is driven.
ReadRun(p) ==
    /\ pc[p] = "reading"
    /\ p \notin ctxDone
    /\ local' = [local EXCEPT ![p] = row]
    /\ Goto(p, IF Drivable THEN "turn" ELSE "leaving")
    /\ UNCHANGED <<dbVars, activeVars, target, previous, queue, turns, cancelVars,
                   envVars>>

StillRegistered(p) == active = p

\* Continue's deferred function.
Unregister(p) ==
    /\ pc[p] = "leaving"
    /\ active' = IF StillRegistered(p) THEN NoProc ELSE active
    /\ ctxDone' = ctxDone \cup {p}
    /\ Goto(p, "done")
    /\ UNCHANGED <<dbVars, spent, target, previous, local, queue, turns, cancelVars,
                   envVars>>

-----------------------------------------------------------------------------
(* The loop                                                                *)

\* A turn begins with a model call, unless the budget is used up.
BeginTurn(p) ==
    /\ pc[p] = "turn"
    /\ Goto(p, IF turns[p] < MaxTurns THEN "calling" ELSE "failing")
    /\ turns' = IF turns[p] < MaxTurns THEN [turns EXCEPT ![p] = @ + 1] ELSE turns
    /\ UNCHANGED <<dbVars, activeVars, target, previous, local, queue, cancelVars,
                   envVars>>

\* updateCost: the call is charged to the activeRun that is registered now.
Charge == IF active \in Procs THEN [spent EXCEPT ![active] = @ + 1] ELSE spent

\* exceed
FuseTrips == active \in Procs /\ Charge[active] > MaxModelCalls

\* The tool call ids of a response with n calls.
NewCalls(n) == [i \in 1..n |-> nextCall + i - 1]

\* The model answers with n tool calls.
ModelToolCalls(p, n) ==
    /\ pc[p] = "calling"
    /\ CanWrite(p)
    /\ ~FuseTrips
    /\ nextCall + n - 1 <= MaxCalls
    /\ spent' = Charge
    /\ nextCall' = nextCall + n
    /\ queue' = [queue EXCEPT ![p] = NewCalls(n)]
    /\ local' = [local EXCEPT ![p].called = @ \cup (nextCall..(nextCall + n - 1))]
    /\ Goto(p, "tools")
    /\ UNCHANGED <<dbVars, active, ctxDone, target, previous, turns, cancelVars,
                   faults>>

\* The model answers with text and the task plan is completed.
ModelFinalText(p) ==
    /\ pc[p] = "calling"
    /\ CanWrite(p)
    /\ ~FuseTrips
    /\ spent' = Charge
    /\ Goto(p, "completing")
    /\ UNCHANGED <<dbVars, active, ctxDone, target, previous, local, queue, turns,
                   cancelVars, nextCall, faults>>

\* The call fails, its cost trips the fuse, or it is text while the task plan is
\* not completed.
ModelFails(p) ==
    /\ pc[p] = "calling"
    /\ CanWrite(p)
    /\ spent' = Charge
    /\ Goto(p, "failing")
    /\ UNCHANGED <<dbVars, active, ctxDone, target, previous, local, queue, turns,
                   cancelVars, nextCall, faults>>

\* A tool has run: its result is appended to the log.
ToolResult(p) ==
    /\ pc[p] = "tools"
    /\ CanWrite(p)
    /\ results' = [results EXCEPT ![Head(queue[p])] = @ + 1]
    /\ Goto(p, "storing")
    /\ UNCHANGED <<row, asked, outcome, activeVars, target, previous, local, queue,
                   turns, cancelVars, envVars>>

Remaining(q) == Tail(q)

\* The copy with the tool message of the call at the head of the queue.
WithToolMessage(p) == [local[p] EXCEPT !.answered = @ \cup {Head(queue[p])}]

\* That copy is saved, and the next call or the next turn begins.
StoreToolMessage(p) ==
    /\ CanWrite(p)
    /\ SaveRun(p, WithToolMessage(p))
    /\ queue' = [queue EXCEPT ![p] = Remaining(@)]
    /\ Goto(p, IF Remaining(queue[p]) = <<>> THEN "turn" ELSE "tools")
    /\ UNCHANGED <<asked, results, outcome, activeVars, target, previous, turns,
                   cancelVars, envVars>>

ToolSave(p) == pc[p] = "storing" /\ StoreToolMessage(p)

\* recordRecoverableToolFailure: the call was rejected or failed.
ToolFailed(p) == pc[p] = "tools" /\ StoreToolMessage(p)

\* The plan cannot be read or advanced, or the result cannot be recorded.
ToolAborts(p) ==
    /\ pc[p] \in {"tools", "storing"}
    /\ CanWrite(p)
    /\ Goto(p, "failing")
    /\ UNCHANGED <<dbVars, activeVars, target, previous, local, queue, turns,
                   cancelVars, envVars>>

\* The transcript fuse trips behind the save, or the lineage cannot be traced.
TranscriptFuse(p) ==
    /\ pc[p] = "storing"
    /\ CanWrite(p)
    /\ SaveRun(p, WithToolMessage(p))
    /\ Goto(p, "failing")
    /\ UNCHANGED <<asked, results, outcome, activeVars, target, previous, queue,
                   turns, cancelVars, envVars>>

\* Faulty form of AskUser: the transcript is not saved first.
AskUserUnsaved(p) ==
    /\ pc[p] = "tools"
    /\ CanWrite(p)
    /\ Goto(p, "requesting")
    /\ UNCHANGED <<dbVars, activeVars, target, previous, local, queue, turns,
                   cancelVars, envVars>>

\* The tool is ask_user_question: the transcript is saved first.
AskUser(p) ==
    /\ pc[p] = "tools"
    /\ CanWrite(p)
    /\ SaveRun(p, local[p])
    /\ Goto(p, "requesting")
    /\ UNCHANGED <<asked, results, outcome, activeVars, target, previous, queue,
                   turns, cancelVars, envVars>>

\* RequestUserInputForCall reads the row again and appends tool.pending.  Its check
\* fails for a cancelled row only (Refused): whoever could have changed the status
\* otherwise has cancelled p before.
RequestUserInput(p) ==
    /\ pc[p] = "requesting"
    /\ CanWrite(p)
    /\ row.status = "running"
    /\ local' = [local EXCEPT ![p] = row]
    /\ asked' = asked \cup {Head(queue[p])}
    /\ Goto(p, "parking")
    /\ UNCHANGED <<row, results, outcome, activeVars, target, previous, queue, turns,
                   cancelVars, envVars>>

\* Faulty forms of ParkRun: the handler goes on with the next turn; the status is
\* not set.
ParkRunContinues(p) ==
    /\ pc[p] = "parking"
    /\ CanWrite(p)
    /\ SaveRun(p, [local[p] EXCEPT !.status = "waiting_user", !.pending = Head(queue[p])])
    /\ queue' = [queue EXCEPT ![p] = <<>>]
    /\ Goto(p, "turn")
    /\ UNCHANGED <<asked, results, outcome, activeVars, target, previous, turns,
                   cancelVars, envVars>>

ParkRunStillRunning(p) ==
    /\ pc[p] = "parking"
    /\ CanWrite(p)
    /\ SaveRun(p, [local[p] EXCEPT !.pending = Head(queue[p])])
    /\ queue' = [queue EXCEPT ![p] = <<>>]
    /\ Goto(p, "leaving")
    /\ UNCHANGED <<asked, results, outcome, activeVars, target, previous, turns,
                   cancelVars, envVars>>

\* The run waits for the user and the loop ends, whatever is left of the queue.
ParkRun(p) ==
    /\ pc[p] = "parking"
    /\ CanWrite(p)
    /\ SaveRun(p, [local[p] EXCEPT !.status = "waiting_user", !.pending = Head(queue[p])])
    /\ queue' = [queue EXCEPT ![p] = <<>>]
    /\ Goto(p, "leaving")
    /\ UNCHANGED <<asked, results, outcome, activeVars, target, previous, turns,
                   cancelVars, envVars>>

\* CompleteRun and FailRun: the status first, the event after it.
CloseRun(p, status, to) ==
    /\ CanWrite(p)
    /\ SaveRun(p, [local[p] EXCEPT !.status = status, !.pending = NoCall])
    /\ Goto(p, to)
    /\ UNCHANGED <<asked, results, outcome, activeVars, target, previous, queue,
                   turns, cancelVars, envVars>>

\* Faulty form of CompleteRun: no event follows the status.
CompleteRunSilently(p) == pc[p] = "completing" /\ CloseRun(p, "completed", "leaving")

CompleteRun(p) == pc[p] = "completing" /\ CloseRun(p, "completed", "finishing")
FailRun(p)     == pc[p] = "failing" /\ CloseRun(p, "failed", "announcing")

\* run.finished or run.failed
Announce(p) ==
    /\ pc[p] \in {"finishing", "announcing"}
    /\ CanWrite(p)
    /\ outcome' = Append(outcome, IF pc[p] = "finishing" THEN "run.finished"
                                                         ELSE "run.failed")
    /\ Goto(p, "leaving")
    /\ UNCHANGED <<row, asked, results, activeVars, target, previous, local, queue,
                   turns, cancelVars, envVars>>

\* A statement or model call is refused because the context is cancelled or the
\* run is: Resume returns the error, continueRun leaves the row as it is.
Refused(p) ==
    /\ pc[p] \in (Resuming \cup Driving \cup {"reading"}) \ {"turn"}
    /\ pc[p] = "reading" => p \in ctxDone
    /\ ~CanWrite(p)
    /\ Goto(p, IF pc[p] \in Resuming THEN "done" ELSE "leaving")
    /\ UNCHANGED <<dbVars, activeVars, target, previous, local, queue, turns,
                   cancelVars, envVars>>

-----------------------------------------------------------------------------
(* CancelOwned                                                             *)

\* CancelRun: a run that is running or waiting is cancelled together with its
\* event; a finished one is returned as it is.
CancelRun(k) ==
    /\ cpc[k] = "idle"
    /\ row.status # "absent"
    /\ IF row.status \in {"running", "waiting_user"}
       THEN /\ row' = [row EXCEPT !.status = "cancelled", !.pending = NoCall]
            /\ outcome' = Append(outcome, "run.cancelled")
       ELSE UNCHANGED <<row, outcome>>
    /\ cpc' = [cpc EXCEPT ![k] = IF row.status \in {"completed", "failed"}
                                 THEN "refused" ELSE "cancelled"]
    /\ UNCHANGED <<asked, results, activeVars, procVars, victim, envVars>>

\* The registered activeRun is looked up under activeMu ...
FindActive(k) ==
    /\ cpc[k] = "cancelled"
    /\ victim' = [victim EXCEPT ![k] = active]
    /\ cpc' = [cpc EXCEPT ![k] = "found"]
    /\ UNCHANGED <<dbVars, activeVars, procVars, envVars>>

\* ... and its context cancelled after the lock is released.
CancelActive(k) ==
    /\ cpc[k] = "found"
    /\ ctxDone' = ctxDone \cup ({victim[k]} \cap Procs)
    /\ cpc' = [cpc EXCEPT ![k] = "done"]
    /\ UNCHANGED <<dbVars, active, spent, procVars, victim, envVars>>

-----------------------------------------------------------------------------
(* Faults                                                                  *)

\* A statement of p fails, or Approve does not match the plan.  A tool message
\* whose save failed stays in the copy.  The errors of RequestUserInputForCall and
\* CompleteRun replace the run by an empty one, so that FailRun finds no row; those
\* of Resume are only returned.
StatementFails(p) ==
    /\ faults < MaxFaults
    /\ pc[p] \in (Resuming \cup Driving \cup {"reading"}) \ {"turn", "calling"}
    /\ faults' = faults + 1
    /\ Goto(p, IF pc[p] \in Resuming THEN "done"
               ELSE IF pc[p] \in {"tools", "storing"} THEN "failing" ELSE "leaving")
    /\ local' = IF pc[p] \in {"tools", "storing"}
                THEN [local EXCEPT ![p] = WithToolMessage(p)] ELSE local
    /\ UNCHANGED <<dbVars, activeVars, target, previous, queue, turns, cancelVars,
                   nextCall>>

\* The API server restarts: goroutines, contexts and activeRuns are gone.
Restart ==
    /\ faults < MaxFaults
    /\ faults' = faults + 1
    /\ active' = NoProc
    /\ pc' = [p \in Procs |-> IF pc[p] = "idle" THEN "idle" ELSE "done"]
    /\ previous' = [p \in Procs |-> NoProc]
    /\ cpc' = [k \in Cancels |-> IF cpc[k] = "idle" THEN "idle" ELSE "lost"]
    /\ UNCHANGED <<dbVars, ctxDone, spent, target, local, queue, turns, victim,
                   nextCall>>

-----------------------------------------------------------------------------
Request(p) ==
    \/ StartRun(p)
    \/ \E c \in Calls : ResumeToolCall(p, c)

ResumeStep(p) ==
    \/ RunStarted(p)
    \/ ResumeResult(p)
    \/ ResumeSave(p)
    \/ Approve(p)
    \/ ResumeTranscript(p)

Continue(p) ==
    \/ Register(p)
    \/ CancelPrevious(p)
    \/ ReadRun(p)
    \/ Unregister(p)

LoopStep(p) ==
    \/ BeginTurn(p)
    \/ \E n \in 1..CallsPerTurn : ModelToolCalls(p, n)
    \/ ModelFinalText(p)
    \/ ModelFails(p)
    \/ ToolResult(p)
    \/ ToolSave(p)
    \/ ToolFailed(p)
    \/ ToolAborts(p)
    \/ TranscriptFuse(p)
    \/ AskUser(p)
    \/ RequestUserInput(p)
    \/ ParkRun(p)
    \/ CompleteRun(p)
    \/ FailRun(p)
    \/ Announce(p)

Work(p) == ResumeStep(p) \/ Continue(p) \/ LoopStep(p) \/ Refused(p)

CancelOwned(k) == CancelRun(k) \/ FindActive(k) \/ CancelActive(k)

Next ==
    \/ \E p \in Procs : Request(p) \/ Work(p) \/ StatementFails(p)
    \/ \E k \in Cancels : CancelOwned(k)
    \/ Restart

Spec == Init /\ [][Next]_vars

\* A goroutine keeps running and the model answers or times out; nothing makes a
\* user send requests.
FairSpec == Spec /\ \A p \in Procs : WF_vars(Work(p))

-----------------------------------------------------------------------------
(* Properties                                                              *)

\* Type invariant of the row, the log, activeRuns and the goroutines.
TypeOK ==
    /\ row \in Rows
    /\ asked \subseteq Calls
    /\ results \in [Calls -> Nat]
    /\ outcome \in Seq({"run.finished", "run.failed", "run.cancelled"})
    /\ active \in Procs \cup {NoProc}
    /\ ctxDone \subseteq Procs
    /\ spent \in [Procs -> Nat]
    /\ pc \in [Procs -> Resuming \cup Entering \cup Driving
                        \cup {"idle", "continue", "leaving", "done"}]
    /\ target \in [Procs -> Calls \cup {NoCall}]
    /\ \A p \in Procs : pc[p] \in {"answering", "resuming", "approving", "resaving"}
                            => target[p] \in Calls
    /\ previous \in [Procs -> Procs \cup {NoProc}]
    /\ local \in [Procs -> Rows]
    /\ queue \in [Procs -> Seq(Calls)]
    /\ \A p \in Procs : pc[p] \in {"tools", "storing", "requesting", "parking"}
                            => queue[p] # <<>>
    /\ turns \in [Procs -> 0..MaxTurns]
    /\ cpc \in [Cancels -> {"idle", "cancelled", "found", "done", "refused", "lost"}]
    /\ victim \in [Cancels -> Procs \cup {NoProc}]
    /\ nextCall \in 1..(MaxCalls + 1)
    /\ faults \in 0..MaxFaults

\* The context of p is cancelled, or Continue is about to cancel it.
Stopped(p) == p \in ctxDone \/ \E q \in Procs : previous[q] = p

\* A goroutine that is no longer the registered one has lost its context or is
\* about to: however resumes overlap, activeRuns never forgets a live driver.
SupersededIsStopped ==
    \A p \in Procs : pc[p] \in Entering \cup Driving /\ active # p => Stopped(p)

\* When CancelOwned has returned, no goroutine is left that drives the run with a
\* live context: the row is cancelled before activeRuns is read, so a driver that
\* the lookup misses reads the cancelled row.
CancelReachesDriver ==
    \A k \in Cancels : cpc[k] = "done"
        => \A p \in Procs : pc[p] \in Driving => Stopped(p)

\* A cancelled run is final: no late save of a goroutine's older copy changes the
\* row and no event is appended behind run.cancelled.
CancelIsFinal ==
    [][row.status = "cancelled" => UNCHANGED dbVars]_vars

\* The log of a run closes once, although completing, failing and cancelling are
\* each several statements and race with one another.
OneOutcome == Len(outcome) <= 1

\* Two goroutines never both hold a copy of the row that they can still write
\* back: SaveRun compares no version, so one would undo what the other saved.
OneWriter ==
    \A p, q \in Procs :
        /\ pc[p] \in (Resuming \cup Driving) /\ p \notin ctxDone
        /\ pc[q] \in (Resuming \cup Driving) /\ q \notin ctxDone
        => p = q

\* A run that waits holds, in the saved transcript, the call it waits for, asked
\* and not yet answered, and a tool message never lacks its assistant message.
TranscriptConsistent ==
    /\ row.answered \subseteq row.called
    /\ row.status = "waiting_user"
         => row.pending \in (asked \cap row.called) \ row.answered

\* A running run comes to rest: every path of the loop, its error path and Resume
\* ends in a terminal status or waits for the user, unless the server was restarted
\* or a statement failed.
RunComesToRest == row.status = "running" ~> row.status # "running" \/ faults > 0

\* A run that ended says so in its log: the status is saved before the event, and
\* nothing that follows the save may lose the event but a restart or a failed
\* statement.
EndIsAnnounced ==
    row.status \in {"completed", "failed"} ~> outcome # <<>> \/ faults > 0

-----------------------------------------------------------------------------
(* What the documentation says and the code does not do.                   *)

\* docs/api-reference.md:176: resume must match the pending tool call, so a tool
\* call gets one result.  It holds when clients do not send a resume twice.
OneResultPerCall == \A c \in Calls : results[c] <= 1
=============================================================================
