--------------------------- MODULE AgentRunProofs ---------------------------
(***************************************************************************)
(* Proofs about AgentRun for any number of goroutines and requests, with   *)
(* or without clients that send a resume twice.                            *)
(***************************************************************************)
EXTENDS AgentRun, TLAPS

USE DEF NoCall

-----------------------------------------------------------------------------
(* Types                                                                   *)

\* The tool calls of a response are new ids, in a sequence that is not empty.
LEMMA NewCallsType ==
    ASSUME nextCall \in 1..(MaxCalls + 1), NEW n \in Nat \ {0},
           nextCall + n - 1 <= MaxCalls
    PROVE  /\ NewCalls(n) \in Seq(Calls)
           /\ NewCalls(n) # <<>>
           /\ (nextCall..(nextCall + n - 1)) \subseteq Calls
<1>1. \A i \in 1..n : nextCall + i - 1 \in Calls
  BY AgentAssumption DEF Calls
<1>2. NewCalls(n) \in [1..n -> Calls]
  BY <1>1 DEF NewCalls
<1>3. NewCalls(n) \in Seq(Calls) /\ Len(NewCalls(n)) = n
  BY <1>2
<1>4. (nextCall..(nextCall + n - 1)) \subseteq Calls
  BY AgentAssumption DEF Calls
<1> QED BY <1>3, <1>4

\* Before the run is started everything is well typed.
LEMMA InitType == Init => TypeOK
<1> SUFFICES ASSUME Init PROVE TypeOK OBVIOUS
<1>1. NoRow \in Rows
  BY DEF NoRow, Rows
<1>2. <<>> \in Seq(Calls) /\ <<>> \in Seq({"run.finished", "run.failed", "run.cancelled"})
  OBVIOUS
<1> QED
  BY <1>1, <1>2, AgentAssumption
     DEF Init, TypeOK, Resuming, Entering, Driving

\* A goroutine's step to a program counter that carries no obligation.
LEMMA GotoType ==
    ASSUME TypeOK, NEW p \in Procs, NEW to \in Resuming \cup Entering \cup Driving
                                      \cup {"idle", "continue", "leaving", "done"},
           Goto(p, to), UNCHANGED <<target, queue>>,
           to \notin {"answering", "resuming", "approving", "resaving", "tools",
                      "storing", "requesting", "parking"}
    PROVE  /\ pc' \in [Procs -> Resuming \cup Entering \cup Driving
                                \cup {"idle", "continue", "leaving", "done"}]
           /\ \A q \in Procs : pc'[q] \in {"answering", "resuming", "approving",
                                           "resaving"} => target'[q] \in Calls
           /\ \A q \in Procs : pc'[q] \in {"tools", "storing", "requesting", "parking"}
                                 => queue'[q] # <<>>
BY DEF Goto, TypeOK

\* A save keeps the copies and the row well typed.
LEMMA SaveRunType ==
    ASSUME TypeOK, NEW p \in Procs, NEW copy \in Rows, SaveRun(p, copy)
    PROVE  row' \in Rows /\ local' \in [Procs -> Rows]
BY DEF SaveRun, TypeOK

\* The columns a goroutine sets in its copy stay within their types.
LEMMA CopyType ==
    ASSUME TypeOK, NEW p \in Procs, NEW c \in Calls \cup {NoCall},
           NEW s \in {"running", "waiting_user", "completed", "failed", "cancelled"},
           NEW D \in SUBSET Calls
    PROVE  /\ [local[p] EXCEPT !.status = s, !.pending = c] \in Rows
           /\ [local[p] EXCEPT !.answered = @ \cup D] \in Rows
           /\ [local[p] EXCEPT !.called = @ \cup D] \in Rows
           /\ [row EXCEPT !.status = s, !.pending = c] \in Rows
           /\ [NoRow EXCEPT !.status = s] \in Rows
BY DEF TypeOK, Rows, NoRow

\* Every step keeps the types.
LEMMA NextType == TypeOK /\ [Next]_vars => TypeOK'
<1> SUFFICES ASSUME TypeOK, [Next]_vars PROVE TypeOK' OBVIOUS
<1> USE AgentAssumption
<1> DEFINE Pcs == Resuming \cup Entering \cup Driving
                  \cup {"idle", "continue", "leaving", "done"}
           PcOK == /\ pc' \in [Procs -> Pcs]
                   /\ \A q \in Procs : pc'[q] \in {"answering", "resuming", "approving",
                                                   "resaving"} => target'[q] \in Calls
                   /\ \A q \in Procs : pc'[q] \in {"tools", "storing", "requesting",
                                                   "parking"} => queue'[q] # <<>>
<1>1. ASSUME NEW p \in Procs, StartRun(p) PROVE TypeOK'
  <2>1. row' \in Rows
    BY <1>1, CopyType DEF StartRun
  <2>2. PcOK
    BY <1>1, GotoType DEF StartRun, Resuming
  <2> QED BY <1>1, <2>1, <2>2 DEF StartRun, TypeOK, activeVars, cancelVars, envVars
<1>2. ASSUME NEW p \in Procs, NEW c \in Calls, ResumeToolCall(p, c) PROVE TypeOK'
  <2>1. PcOK
    BY <1>2 DEF ResumeToolCall, Goto, TypeOK, Resuming
  <2> QED BY <1>2, <2>1 DEF ResumeToolCall, TypeOK, dbVars, activeVars, cancelVars, envVars
<1>3. ASSUME NEW p \in Procs, ResumeResult(p) PROVE TypeOK'
  <2>1. PcOK
    BY <1>3 DEF ResumeResult, Goto, TypeOK, Resuming
  <2>2. results' \in [Calls -> Nat]
    BY <1>3 DEF ResumeResult, TypeOK
  <2> QED BY <1>3, <2>1, <2>2 DEF ResumeResult, TypeOK, activeVars, cancelVars, envVars
<1>4. ASSUME NEW p \in Procs, ResumeSave(p) PROVE TypeOK'
  <2>1. PcOK
    BY <1>4 DEF ResumeSave, Goto, TypeOK, Resuming
  <2>2. row' \in Rows /\ local' \in [Procs -> Rows]
    BY <1>4, CopyType, SaveRunType DEF ResumeSave
  <2> QED BY <1>4, <2>1, <2>2 DEF ResumeSave, TypeOK, activeVars, cancelVars, envVars
<1>5. ASSUME NEW p \in Procs, ResumeTranscript(p) PROVE TypeOK'
  <2>1. PcOK
    BY <1>5, GotoType DEF ResumeTranscript
  <2>2. target[p] \in Calls
    BY <1>5 DEF ResumeTranscript, TypeOK
  <2>3. row' \in Rows /\ local' \in [Procs -> Rows]
    BY <1>5, <2>2, CopyType, SaveRunType DEF ResumeTranscript
  <2> QED BY <1>5, <2>1, <2>3 DEF ResumeTranscript, TypeOK, activeVars, cancelVars, envVars
<1>6. ASSUME NEW p \in Procs,
             RunStarted(p) \/ Approve(p) \/ ToolAborts(p) \/ Refused(p)
      PROVE  TypeOK'
  <2>1. PcOK
    <3>1. UNCHANGED <<target, queue>>
      BY <1>6 DEF RunStarted, Approve, ToolAborts, Refused
    <3>2. CASE Approve(p)
      BY <3>2 DEF Approve, Goto, TypeOK, Resuming
    <3>3. CASE ~Approve(p)
      <4>1. \E to \in {"continue", "failing", "leaving", "done"} : Goto(p, to)
        BY <1>6, <3>3 DEF RunStarted, ToolAborts, Refused
      <4> QED BY <3>1, <4>1, GotoType DEF Driving
    <3> QED BY <3>2, <3>3
  <2> QED
    BY <1>6, <2>1
       DEF RunStarted, Approve, ToolAborts, Refused, TypeOK,
           dbVars, activeVars, cancelVars, envVars
<1>7. ASSUME NEW p \in Procs, Register(p) \/ CancelPrevious(p) \/ Unregister(p)
      PROVE  TypeOK'
  <2>1. PcOK
    <3>1. \E to \in {"registered", "reading", "done"} : Goto(p, to)
      BY <1>7 DEF Register, CancelPrevious, Unregister
    <3>2. UNCHANGED <<target, queue>>
      BY <1>7 DEF Register, CancelPrevious, Unregister
    <3> QED BY <3>1, <3>2, GotoType DEF Entering
  <2>2. ctxDone' \subseteq Procs
    BY <1>7 DEF Register, CancelPrevious, Unregister, TypeOK
  <2>3. active' \in Procs \cup {NoProc} /\ previous' \in [Procs -> Procs \cup {NoProc}]
    <3>1. CASE Register(p)
      BY <3>1 DEF Register, TypeOK
    <3>2. CASE CancelPrevious(p)
      BY <3>2 DEF CancelPrevious, TypeOK
    <3>3. CASE Unregister(p)
      BY <3>3 DEF Unregister, TypeOK
    <3> QED BY <1>7, <3>1, <3>2, <3>3
  <2>4. UNCHANGED <<dbVars, spent, target, local, queue, turns, cancelVars, envVars>>
    BY <1>7 DEF Register, CancelPrevious, Unregister
  <2> QED BY <2>1, <2>2, <2>3, <2>4 DEF TypeOK, dbVars, cancelVars, envVars
<1>8. ASSUME NEW p \in Procs, ReadRun(p) PROVE TypeOK'
  <2>1. PcOK
    BY <1>8 DEF ReadRun, Goto, TypeOK, Driving
  <2>2. local' \in [Procs -> Rows]
    BY <1>8 DEF ReadRun, TypeOK
  <2> QED BY <1>8, <2>1, <2>2 DEF ReadRun, TypeOK, dbVars, activeVars, cancelVars, envVars
<1>9. ASSUME NEW p \in Procs, BeginTurn(p) PROVE TypeOK'
  <2>1. PcOK
    BY <1>9 DEF BeginTurn, Goto, TypeOK, Driving
  <2>2. turns' \in [Procs -> 0..MaxTurns]
    BY <1>9 DEF BeginTurn, TypeOK
  <2> QED BY <1>9, <2>1, <2>2 DEF BeginTurn, TypeOK, dbVars, activeVars, cancelVars, envVars
<1>10. Charge \in [Procs -> Nat]
  BY DEF Charge, TypeOK
<1>11. ASSUME NEW p \in Procs, NEW n \in 1..CallsPerTurn, ModelToolCalls(p, n)
       PROVE  TypeOK'
  <2>0. n \in Nat \ {0} /\ nextCall + n - 1 <= MaxCalls /\ nextCall \in 1..(MaxCalls + 1)
    <3>1. nextCall + n - 1 <= MaxCalls
      BY <1>11 DEF ModelToolCalls
    <3>2. nextCall \in 1..(MaxCalls + 1)
      BY DEF TypeOK
    <3> QED BY <3>1, <3>2
  <2>1. /\ NewCalls(n) \in Seq(Calls) /\ NewCalls(n) # <<>>
        /\ (nextCall..(nextCall + n - 1)) \subseteq Calls
    BY <2>0, NewCallsType
  <2>2. queue' = [queue EXCEPT ![p] = NewCalls(n)] /\ Goto(p, "tools") /\ UNCHANGED target
    BY <1>11 DEF ModelToolCalls
  <2>3. PcOK /\ queue' \in [Procs -> Seq(Calls)]
    <3>1. queue' \in [Procs -> Seq(Calls)] /\ queue'[p] # <<>>
      BY <2>1, <2>2 DEF TypeOK
    <3>2. \A q \in Procs \ {p} : queue'[q] = queue[q] /\ pc'[q] = pc[q]
      BY <2>2 DEF TypeOK, Goto
    <3>3. pc' \in [Procs -> Pcs] /\ pc'[p] = "tools"
      BY <2>2 DEF TypeOK, Goto, Driving
    <3> QED BY <2>2, <3>1, <3>2, <3>3 DEF TypeOK
  <2>4. local' \in [Procs -> Rows]
    <3> DEFINE new == nextCall..(nextCall + n - 1)
    <3>1. [local[p] EXCEPT !.called = @ \cup new] \in Rows
      BY <2>1, CopyType
    <3>2. local' = [local EXCEPT ![p] = [local[p] EXCEPT !.called = @ \cup new]]
      BY <1>11 DEF ModelToolCalls
    <3> HIDE DEF new
    <3> QED BY <3>1, <3>2 DEF TypeOK
  <2>5. nextCall' \in 1..(MaxCalls + 1)
    <3>1. nextCall' = nextCall + n
      BY <1>11 DEF ModelToolCalls, TypeOK
    <3> QED BY <2>0, <3>1
  <2>6. spent' = Charge
        /\ UNCHANGED <<dbVars, active, ctxDone, target, previous, turns, cancelVars, faults>>
    BY <1>11 DEF ModelToolCalls
  <2> QED BY <1>10, <2>3, <2>4, <2>5, <2>6 DEF TypeOK, dbVars, cancelVars
<1>12. ASSUME NEW p \in Procs, ModelFinalText(p) \/ ModelFails(p) PROVE TypeOK'
  <2>1. PcOK
    BY <1>12 DEF ModelFinalText, ModelFails, Goto, TypeOK, Driving
  <2>2. /\ spent' = Charge
        /\ UNCHANGED <<dbVars, active, ctxDone, target, previous, local, queue, turns,
                       cancelVars, nextCall, faults>>
    BY <1>12 DEF ModelFinalText, ModelFails
  <2> QED BY <1>10, <2>1, <2>2 DEF TypeOK, dbVars, cancelVars
<1>13. ASSUME NEW p \in Procs, pc[p] \in {"tools", "storing", "requesting", "parking"}
       PROVE  queue[p] \in Seq(Calls) /\ queue[p] # <<>> /\ Head(queue[p]) \in Calls
              /\ Tail(queue[p]) \in Seq(Calls)
  <2>1. queue[p] \in Seq(Calls) /\ queue[p] # <<>>
    BY <1>13 DEF TypeOK
  <2> QED BY <2>1
<1>14. ASSUME NEW p \in Procs, ToolResult(p) PROVE TypeOK'
  <2>1. PcOK
    BY <1>14 DEF ToolResult, Goto, TypeOK, Driving
  <2>2. results' \in [Calls -> Nat]
    BY <1>13, <1>14 DEF ToolResult, TypeOK
  <2> QED BY <1>14, <2>1, <2>2 DEF ToolResult, TypeOK, activeVars, cancelVars, envVars
<1>15. ASSUME NEW p \in Procs, ToolSave(p) \/ ToolFailed(p) PROVE TypeOK'
  <2>1. pc[p] \in {"tools", "storing"} /\ StoreToolMessage(p)
    BY <1>15 DEF ToolSave, ToolFailed
  <2>2. row' \in Rows /\ local' \in [Procs -> Rows]
    BY <1>13, <2>1, CopyType, SaveRunType DEF StoreToolMessage, WithToolMessage
  <2>3. /\ Goto(p, IF Tail(queue[p]) = <<>> THEN "turn" ELSE "tools")
        /\ queue' = [queue EXCEPT ![p] = Tail(queue[p])] /\ UNCHANGED target
    BY <2>1 DEF StoreToolMessage, Remaining
  <2>4. PcOK /\ queue' \in [Procs -> Seq(Calls)]
    BY <1>13, <2>1, <2>3 DEF Goto, TypeOK, Driving
  <2> QED
    BY <2>1, <2>2, <2>4 DEF StoreToolMessage, TypeOK, activeVars, cancelVars, envVars
<1>16. ASSUME NEW p \in Procs, AskUser(p) PROVE TypeOK'
  <2>1. PcOK
    BY <1>16 DEF AskUser, Goto, TypeOK, Driving
  <2>2. row' \in Rows /\ local' \in [Procs -> Rows]
    BY <1>16, SaveRunType DEF AskUser, TypeOK
  <2> QED BY <1>16, <2>1, <2>2 DEF AskUser, TypeOK, activeVars, cancelVars, envVars
<1>17. ASSUME NEW p \in Procs, RequestUserInput(p) PROVE TypeOK'
  <2>1. PcOK
    BY <1>17 DEF RequestUserInput, Goto, TypeOK, Driving
  <2>2. asked' \subseteq Calls /\ local' \in [Procs -> Rows]
    BY <1>13, <1>17 DEF RequestUserInput, TypeOK
  <2> QED BY <1>17, <2>1, <2>2 DEF RequestUserInput, TypeOK, activeVars, cancelVars, envVars
<1>18. ASSUME NEW p \in Procs, ParkRun(p) PROVE TypeOK'
  <2>1. PcOK /\ queue' \in [Procs -> Seq(Calls)]
    BY <1>18 DEF ParkRun, Goto, TypeOK
  <2>2. row' \in Rows /\ local' \in [Procs -> Rows]
    BY <1>13, <1>18, CopyType, SaveRunType DEF ParkRun
  <2> QED BY <1>18, <2>1, <2>2 DEF ParkRun, TypeOK, activeVars, cancelVars, envVars
<1>19. ASSUME NEW p \in Procs, CompleteRun(p) \/ FailRun(p) PROVE TypeOK'
  <2>1. \/ CloseRun(p, "completed", "finishing")
        \/ CloseRun(p, "failed", "announcing")
    BY <1>19 DEF CompleteRun, FailRun
  <2>2. PcOK
    BY <2>1 DEF CloseRun, Goto, TypeOK, Driving
  <2>3. row' \in Rows /\ local' \in [Procs -> Rows]
    BY <2>1, CopyType, SaveRunType DEF CloseRun
  <2> QED BY <2>1, <2>2, <2>3 DEF CloseRun, TypeOK, activeVars, cancelVars, envVars
<1>20. ASSUME NEW p \in Procs, Announce(p) PROVE TypeOK'
  <2>1. PcOK
    BY <1>20 DEF Announce, Goto, TypeOK
  <2>2. outcome' \in Seq({"run.finished", "run.failed", "run.cancelled"})
    BY <1>20 DEF Announce, TypeOK
  <2> QED BY <1>20, <2>1, <2>2 DEF Announce, TypeOK, activeVars, cancelVars, envVars
<1>21. ASSUME NEW k \in Cancels, CancelRun(k) PROVE TypeOK'
  <2>1. \/ /\ row' = [row EXCEPT !.status = "cancelled", !.pending = NoCall]
           /\ outcome' = Append(outcome, "run.cancelled")
        \/ UNCHANGED <<row, outcome>>
    BY <1>21 DEF CancelRun
  <2>2. row' \in Rows /\ outcome' \in Seq({"run.finished", "run.failed", "run.cancelled"})
    <3>1. [row EXCEPT !.status = "cancelled", !.pending = NoCall] \in Rows
      BY DEF TypeOK, Rows
    <3>2. /\ row \in Rows
          /\ outcome \in Seq({"run.finished", "run.failed", "run.cancelled"})
      BY DEF TypeOK
    <3> QED BY <2>1, <3>1, <3>2
  <2> QED BY <1>21, <2>2 DEF CancelRun, TypeOK, activeVars, procVars, envVars
<1>22. ASSUME NEW k \in Cancels, FindActive(k) \/ CancelActive(k) PROVE TypeOK'
  <2>1. CASE FindActive(k)
    BY <2>1 DEF FindActive, TypeOK, dbVars, activeVars, procVars, envVars
  <2>2. CASE CancelActive(k)
    BY <2>2 DEF CancelActive, TypeOK, dbVars, procVars, envVars
  <2> QED BY <1>22, <2>1, <2>2
<1>23. CASE Restart
  <2>1. PcOK
    BY <1>23 DEF Restart, TypeOK
  <2> QED BY <1>23, <2>1 DEF Restart, TypeOK, dbVars
<1>24. ASSUME NEW p \in Procs, TranscriptFuse(p) PROVE TypeOK'
  <2>1. PcOK
    BY <1>24, GotoType DEF TranscriptFuse, Driving
  <2>2. row' \in Rows /\ local' \in [Procs -> Rows]
    BY <1>13, <1>24, CopyType, SaveRunType DEF TranscriptFuse, WithToolMessage
  <2> QED BY <1>24, <2>1, <2>2 DEF TranscriptFuse, TypeOK, activeVars, cancelVars, envVars
<1>25. ASSUME NEW p \in Procs, StatementFails(p) PROVE TypeOK'
  <2>1. PcOK
    <3>1. \E to \in {"failing", "leaving", "done"} : Goto(p, to)
      BY <1>25 DEF StatementFails
    <3>2. UNCHANGED <<target, queue>>
      BY <1>25 DEF StatementFails
    <3> QED BY <3>1, <3>2, GotoType DEF Driving
  <2>2. local' \in [Procs -> Rows]
    <3>1. CASE pc[p] \in {"tools", "storing"}
      <4>1. WithToolMessage(p) \in Rows
        BY <1>13, <3>1, CopyType DEF WithToolMessage
      <4>2. local' = [local EXCEPT ![p] = WithToolMessage(p)]
        BY <1>25, <3>1 DEF StatementFails
      <4> QED BY <4>1, <4>2 DEF TypeOK
    <3>2. CASE pc[p] \notin {"tools", "storing"}
      BY <1>25, <3>2 DEF StatementFails, TypeOK
    <3> QED BY <3>1, <3>2
  <2>3. /\ faults' \in 0..MaxFaults
        /\ UNCHANGED <<dbVars, activeVars, target, previous, queue, turns, cancelVars,
                       nextCall>>
    BY <1>25 DEF StatementFails, TypeOK
  <2> QED BY <2>1, <2>2, <2>3 DEF TypeOK, dbVars, activeVars, cancelVars
<1>26. CASE UNCHANGED vars
  BY <1>26 DEF vars, dbVars, activeVars, procVars, cancelVars, envVars, TypeOK
<1> QED
  BY <1>1, <1>2, <1>3, <1>4, <1>5, <1>6, <1>7, <1>8, <1>9, <1>11, <1>12, <1>14, <1>15,
     <1>16, <1>17, <1>18, <1>19, <1>20, <1>21, <1>22, <1>23, <1>24, <1>25, <1>26
     DEF Next, Request, Work, ResumeStep, Continue, LoopStep, CancelOwned

\* Whatever the requests, faults and answers of the model, the row, the log,
\* activeRuns and the goroutines keep their types.
THEOREM TypeCorrect == Spec => []TypeOK
BY InitType, NextType, PTL DEF Spec

-----------------------------------------------------------------------------
(* A cancelled run is final                                                *)

\* Every statement on the run is guarded: none of them changes a cancelled run.
LEMMA CancelledUnchanged ==
    ASSUME row.status = "cancelled", [Next]_vars
    PROVE  UNCHANGED dbVars
<1>1. ASSUME NEW p \in Procs, Request(p) PROVE UNCHANGED dbVars
  BY <1>1 DEF Request, StartRun, ResumeToolCall
<1>2. ASSUME NEW p \in Procs, ResumeStep(p) PROVE UNCHANGED dbVars
  BY <1>2 DEF ResumeStep, RunStarted, ResumeResult, ResumeSave, Approve, ResumeTranscript,
              CanWrite, RowOpen
<1>3. ASSUME NEW p \in Procs, Continue(p) PROVE UNCHANGED dbVars
  BY <1>3 DEF Continue, Register, CancelPrevious, ReadRun, Unregister
<1>4. ASSUME NEW p \in Procs, LoopStep(p) PROVE UNCHANGED dbVars
  BY <1>4 DEF LoopStep, BeginTurn, ModelToolCalls, ModelFinalText, ModelFails, ToolResult,
              ToolSave, ToolFailed, StoreToolMessage, ToolAborts, TranscriptFuse, AskUser,
              RequestUserInput, ParkRun, CompleteRun, FailRun, CloseRun,
              Announce, CanWrite, RowOpen
<1>5. ASSUME NEW p \in Procs, Refused(p) \/ StatementFails(p) PROVE UNCHANGED dbVars
  BY <1>5 DEF Refused, StatementFails
<1>6. ASSUME NEW k \in Cancels, CancelOwned(k) PROVE UNCHANGED dbVars
  BY <1>6 DEF CancelOwned, CancelRun, FindActive, CancelActive, dbVars
<1>7. CASE Restart
  BY <1>7 DEF Restart
<1>8. CASE UNCHANGED vars
  BY <1>8 DEF vars
<1> QED
  BY <1>1, <1>2, <1>3, <1>4, <1>5, <1>6, <1>7, <1>8 DEF Next, Work

\* Once CancelRun has committed, no goroutine with an older copy of the row, no
\* late tool result and no end of the loop changes the run or extends its log.
THEOREM CancelledForever == Spec => CancelIsFinal
<1>1. [Next]_vars => [row.status = "cancelled" => UNCHANGED dbVars]_vars
  BY CancelledUnchanged
<1> QED BY <1>1, PTL DEF Spec, CancelIsFinal

-----------------------------------------------------------------------------
(* activeRuns and cancellation                                             *)

\* previous is set only between Continue's critical section and its cancel.
PreviousShape == \A p \in Procs : pc[p] # "registered" => previous[p] = NoProc

\* CancelOwned looks at activeRuns only when the row is cancelled.
CancelMarksRow ==
    \A k \in Cancels : cpc[k] \in {"cancelled", "found", "done"} => row.status = "cancelled"

\* The activeRun that CancelOwned found is the only driver left to be stopped.
FoundIsLast ==
    \A k \in Cancels : cpc[k] = "found"
        => \A p \in Procs : pc[p] \in Driving => victim[k] = p \/ Stopped(p)

\* The inductive invariant.
IInv ==
    /\ TypeOK
    /\ PreviousShape
    /\ SupersededIsStopped
    /\ CancelMarksRow
    /\ FoundIsLast
    /\ CancelReachesDriver

\* What a goroutine's steps outside activeMu do to the control state: only a
\* goroutine that Continue registered drives, and only after it read a running row.
LEMMA StepEffect ==
    ASSUME TypeOK, NEW p \in Procs,
           Request(p) \/ ResumeStep(p) \/ ReadRun(p) \/ LoopStep(p) \/ Refused(p)
           \/ StatementFails(p)
    PROVE  /\ UNCHANGED <<active, ctxDone, previous, cpc, victim>>
           /\ \A q \in Procs \ {p} : pc'[q] = pc[q]
           /\ pc[p] # "registered" /\ pc'[p] # "registered"
           /\ pc'[p] \in Entering \cup Driving => pc[p] \in Entering \cup Driving
           /\ pc'[p] \in Driving => pc[p] \in Driving \/ row.status = "running"
<1>0. pc \in [Procs -> Resuming \cup Entering \cup Driving
                       \cup {"idle", "continue", "leaving", "done"}]
  BY DEF TypeOK
<1>1. CASE Request(p)
  BY <1>0, <1>1 DEF Request, StartRun, ResumeToolCall, Goto, activeVars, cancelVars,
                    Entering, Driving
<1>2. CASE ResumeStep(p)
  BY <1>0, <1>2 DEF ResumeStep, RunStarted, ResumeResult, ResumeSave, Approve,
                    ResumeTranscript, Goto, activeVars, cancelVars, Entering, Driving
<1>3. CASE ReadRun(p)
  BY <1>0, <1>3 DEF ReadRun, Drivable, Goto, activeVars, cancelVars, Entering, Driving
<1>4. CASE LoopStep(p)
  <2>1. CASE BeginTurn(p)
    BY <1>0, <2>1 DEF BeginTurn, Goto, activeVars, cancelVars, Entering, Driving
  <2>2. CASE \E n \in 1..CallsPerTurn : ModelToolCalls(p, n)
    BY <1>0, <2>2 DEF ModelToolCalls, Goto, cancelVars, Entering, Driving
  <2>3. CASE ModelFinalText(p) \/ ModelFails(p)
    BY <1>0, <2>3 DEF ModelFinalText, ModelFails, Goto, cancelVars, Entering, Driving
  <2>4. CASE ToolResult(p) \/ ToolAborts(p) \/ TranscriptFuse(p) \/ AskUser(p)
    BY <1>0, <2>4 DEF ToolResult, ToolAborts, TranscriptFuse, AskUser, Goto, activeVars, cancelVars,
                      Entering, Driving
  <2>5. CASE ToolSave(p) \/ ToolFailed(p)
    BY <1>0, <2>5 DEF ToolSave, ToolFailed, StoreToolMessage, Goto, activeVars, cancelVars,
                      Entering, Driving
  <2>6. CASE RequestUserInput(p) \/ ParkRun(p)
    BY <1>0, <2>6 DEF RequestUserInput, ParkRun, Goto, activeVars,
                      cancelVars, Entering, Driving
  <2>7. CASE CompleteRun(p) \/ FailRun(p) \/ Announce(p)
    BY <1>0, <2>7 DEF CompleteRun, FailRun, CloseRun, Announce, Goto, activeVars,
                      cancelVars, Entering, Driving
  <2> QED BY <1>4, <2>1, <2>2, <2>3, <2>4, <2>5, <2>6, <2>7 DEF LoopStep
<1>5. CASE Refused(p) \/ StatementFails(p)
  <2>1. /\ pc[p] \in (Resuming \cup Driving \cup {"reading"})
        /\ \E to \in {"done", "leaving", "failing"} :
             /\ pc' = [pc EXCEPT ![p] = to]
             /\ to = "failing" => pc[p] \in {"tools", "storing"}
        /\ UNCHANGED <<active, ctxDone, previous, cpc, victim>>
    BY <1>5 DEF Refused, StatementFails, Goto, activeVars, cancelVars
  <2> QED BY <1>0, <2>1 DEF Resuming, Entering, Driving
<1> QED BY <1>1, <1>2, <1>3, <1>4, <1>5

\* The empty system satisfies the invariant.
LEMMA InitInv == Init => IInv
<1> SUFFICES ASSUME Init PROVE IInv OBVIOUS
<1> QED
  BY InitType DEF Init, IInv, PreviousShape, SupersededIsStopped, CancelMarksRow,
                  FoundIsLast, CancelReachesDriver, Entering, Driving

\* Every step preserves the invariant.
LEMMA NextInv == IInv /\ [Next]_vars => IInv'
<1> SUFFICES ASSUME IInv, [Next]_vars PROVE IInv' OBVIOUS
<1> USE AgentAssumption
<1>0. TypeOK'
  BY NextType DEF IInv
<1>c. row.status = "cancelled" => row'.status = "cancelled"
  BY CancelledUnchanged DEF dbVars
<1>1. ASSUME NEW p \in Procs,
             Request(p) \/ ResumeStep(p) \/ ReadRun(p) \/ LoopStep(p) \/ Refused(p)
             \/ StatementFails(p)
      PROVE  IInv'
  <2>1. /\ UNCHANGED <<active, ctxDone, previous, cpc, victim>>
        /\ \A q \in Procs \ {p} : pc'[q] = pc[q]
        /\ pc[p] # "registered" /\ pc'[p] # "registered"
        /\ pc'[p] \in Entering \cup Driving => pc[p] \in Entering \cup Driving
        /\ pc'[p] \in Driving => pc[p] \in Driving \/ row.status = "running"
    BY <1>1, StepEffect DEF IInv
  <2>2. \A q \in Procs : Stopped(q)' <=> Stopped(q)
    BY <2>1 DEF Stopped
  <2>3. PreviousShape'
    BY <2>1 DEF IInv, PreviousShape
  <2>4. SupersededIsStopped'
    BY <2>1, <2>2 DEF IInv, SupersededIsStopped
  <2>5. CancelMarksRow'
    BY <1>c, <2>1 DEF IInv, CancelMarksRow
  <2>6. \A k \in Cancels : cpc[k] \in {"cancelled", "found", "done"}
          => \A q \in Procs : pc'[q] \in Driving => pc[q] \in Driving
    BY <2>1 DEF IInv, CancelMarksRow
  <2>7. FoundIsLast' /\ CancelReachesDriver'
    BY <2>1, <2>2, <2>6 DEF IInv, FoundIsLast, CancelReachesDriver
  <2> QED BY <1>0, <2>3, <2>4, <2>5, <2>7 DEF IInv
<1>2. ASSUME NEW p \in Procs, Register(p) PROVE IInv'
  <2>1. /\ pc[p] = "continue" /\ pc' = [pc EXCEPT ![p] = "registered"]
        /\ active' = p /\ previous' = [previous EXCEPT ![p] = active]
        /\ UNCHANGED <<row, ctxDone, cpc, victim>>
    BY <1>2 DEF Register, Goto, dbVars, cancelVars
  <2>2. previous[p] = NoProc
    BY <2>1 DEF IInv, PreviousShape
  <2>3. \A q \in Procs : Stopped(q) => Stopped(q)'
    BY <2>1, <2>2 DEF Stopped, IInv, TypeOK
  <2>4. \A q \in Procs : active = q => Stopped(q)'
    BY <2>1 DEF Stopped, IInv, TypeOK
  <2>5. \A q \in Procs \ {p} : pc'[q] = pc[q]
    BY <2>1 DEF IInv, TypeOK
  <2>6. pc'[p] = "registered"
    BY <2>1 DEF IInv, TypeOK
  <2>7. PreviousShape'
    BY <2>1, <2>5, <2>6 DEF IInv, PreviousShape, TypeOK
  <2>8. SupersededIsStopped'
    BY <2>1, <2>3, <2>4, <2>5 DEF IInv, SupersededIsStopped
  <2>9. CancelMarksRow'
    BY <2>1 DEF IInv, CancelMarksRow
  <2>10. FoundIsLast' /\ CancelReachesDriver'
    BY <2>1, <2>3, <2>5, <2>6 DEF IInv, FoundIsLast, CancelReachesDriver, Driving
  <2> QED BY <1>0, <2>7, <2>8, <2>9, <2>10 DEF IInv
<1>3. ASSUME NEW p \in Procs, CancelPrevious(p) PROVE IInv'
  <2>1. /\ pc[p] = "registered" /\ pc' = [pc EXCEPT ![p] = "reading"]
        /\ ctxDone' = ctxDone \cup ({previous[p]} \cap Procs)
        /\ previous' = [previous EXCEPT ![p] = NoProc]
        /\ UNCHANGED <<row, active, cpc, victim>>
    BY <1>3 DEF CancelPrevious, Goto, dbVars, cancelVars
  <2>2. \A q \in Procs : Stopped(q) => Stopped(q)'
    <3> SUFFICES ASSUME NEW q \in Procs, Stopped(q) PROVE Stopped(q)' OBVIOUS
    <3>1. CASE q \in ctxDone
      BY <2>1, <3>1 DEF Stopped
    <3>2. CASE \E r \in Procs : previous[r] = q
      <4>1. PICK r \in Procs : previous[r] = q
        BY <3>2
      <4>2. CASE r = p
        BY <2>1, <4>1, <4>2 DEF Stopped
      <4>3. CASE r # p
        BY <2>1, <4>1, <4>3 DEF Stopped, IInv, TypeOK
      <4> QED BY <4>2, <4>3
    <3> QED BY <3>1, <3>2 DEF Stopped
  <2>3. \A q \in Procs : pc'[q] \in Entering \cup Driving => pc[q] \in Entering \cup Driving
    BY <2>1 DEF IInv, TypeOK, Entering
  <2>4. \A q \in Procs : pc'[q] \in Driving => pc[q] \in Driving
    BY <2>1 DEF IInv, TypeOK, Driving
  <2>5. PreviousShape'
    BY <2>1 DEF IInv, PreviousShape, TypeOK
  <2>6. SupersededIsStopped' /\ CancelMarksRow'
    BY <2>1, <2>2, <2>3 DEF IInv, SupersededIsStopped, CancelMarksRow
  <2>7. FoundIsLast' /\ CancelReachesDriver'
    BY <2>1, <2>2, <2>4 DEF IInv, FoundIsLast, CancelReachesDriver
  <2> QED BY <1>0, <2>5, <2>6, <2>7 DEF IInv
<1>4. ASSUME NEW p \in Procs, Unregister(p) PROVE IInv'
  <2>1. /\ pc[p] = "leaving" /\ pc' = [pc EXCEPT ![p] = "done"]
        /\ active' = IF active = p THEN NoProc ELSE active
        /\ ctxDone' = ctxDone \cup {p}
        /\ UNCHANGED <<row, previous, cpc, victim>>
    BY <1>4 DEF Unregister, StillRegistered, Goto, dbVars, cancelVars
  <2>2. \A q \in Procs : Stopped(q) => Stopped(q)'
    BY <2>1 DEF Stopped
  <2>3. pc'[p] = "done" /\ \A q \in Procs \ {p} : pc'[q] = pc[q]
    BY <2>1 DEF IInv, TypeOK
  <2>4. PreviousShape'
    BY <2>1, <2>3 DEF IInv, PreviousShape
  <2>5. SupersededIsStopped'
    BY <2>1, <2>2, <2>3 DEF IInv, SupersededIsStopped, Entering, Driving
  <2>6. CancelMarksRow'
    BY <2>1 DEF IInv, CancelMarksRow
  <2>7. FoundIsLast' /\ CancelReachesDriver'
    BY <2>1, <2>2, <2>3 DEF IInv, FoundIsLast, CancelReachesDriver, Driving
  <2> QED BY <1>0, <2>4, <2>5, <2>6, <2>7 DEF IInv
<1>5. ASSUME NEW k \in Cancels, CancelRun(k) PROVE IInv'
  <2>1. /\ cpc[k] = "idle" /\ UNCHANGED <<active, ctxDone, pc, previous, victim>>
        /\ \E to \in {"refused", "cancelled"} : cpc' = [cpc EXCEPT ![k] = to]
    BY <1>5 DEF CancelRun, activeVars, procVars
  <2>2. \A q \in Procs : Stopped(q)' <=> Stopped(q)
    BY <2>1 DEF Stopped
  <2>3. PreviousShape' /\ SupersededIsStopped'
    BY <2>1, <2>2 DEF IInv, PreviousShape, SupersededIsStopped
  <2>4. cpc'[k] = "cancelled" => row'.status = "cancelled"
    <3>1. row \in Rows /\ row.status # "absent"
      BY <1>5 DEF CancelRun, IInv, TypeOK
    <3>2. CASE row.status \in {"running", "waiting_user"}
      <4>1. row' = [row EXCEPT !.status = "cancelled", !.pending = NoCall]
        BY <1>5, <3>2 DEF CancelRun
      <4> QED BY <3>1, <4>1 DEF Rows
    <3>3. CASE row.status \in {"completed", "failed"}
      <4>1. cpc' = [cpc EXCEPT ![k] = "refused"]
        BY <1>5, <3>3 DEF CancelRun
      <4> QED BY <4>1 DEF IInv, TypeOK
    <3>4. CASE row.status = "cancelled"
      BY <1>c, <3>4
    <3> QED BY <3>1, <3>2, <3>3, <3>4 DEF Rows
  <2>5. \A m \in Cancels \ {k} : cpc'[m] = cpc[m]
    BY <2>1 DEF IInv, TypeOK
  <2>6. cpc'[k] \in {"refused", "cancelled"}
    BY <2>1 DEF IInv, TypeOK
  <2>7. CancelMarksRow'
    BY <1>c, <2>4, <2>5, <2>6 DEF IInv, CancelMarksRow
  <2>8. FoundIsLast' /\ CancelReachesDriver'
    BY <2>1, <2>2, <2>5, <2>6 DEF IInv, FoundIsLast, CancelReachesDriver
  <2> QED BY <1>0, <2>3, <2>7, <2>8 DEF IInv
<1>6. ASSUME NEW k \in Cancels, FindActive(k) PROVE IInv'
  <2>1. /\ cpc[k] = "cancelled" /\ cpc' = [cpc EXCEPT ![k] = "found"]
        /\ victim' = [victim EXCEPT ![k] = active]
        /\ UNCHANGED <<row, active, ctxDone, pc, previous>>
    BY <1>6 DEF FindActive, dbVars, activeVars, procVars
  <2>2. \A q \in Procs : Stopped(q)' <=> Stopped(q)
    BY <2>1 DEF Stopped
  <2>3. PreviousShape' /\ SupersededIsStopped'
    BY <2>1, <2>2 DEF IInv, PreviousShape, SupersededIsStopped
  <2>4. cpc'[k] = "found" /\ victim'[k] = active
    BY <2>1 DEF IInv, TypeOK
  <2>5. \A m \in Cancels \ {k} : cpc'[m] = cpc[m] /\ victim'[m] = victim[m]
    BY <2>1 DEF IInv, TypeOK
  <2>6. CancelMarksRow'
    BY <2>1, <2>5 DEF IInv, CancelMarksRow
  <2>7. \A q \in Procs : pc[q] \in Driving => active = q \/ Stopped(q)
    BY DEF IInv, SupersededIsStopped
  <2>8. FoundIsLast' /\ CancelReachesDriver'
    BY <2>1, <2>2, <2>4, <2>5, <2>7 DEF IInv, FoundIsLast, CancelReachesDriver
  <2> QED BY <1>0, <2>3, <2>6, <2>8 DEF IInv
<1>7. ASSUME NEW k \in Cancels, CancelActive(k) PROVE IInv'
  <2>1. /\ cpc[k] = "found" /\ cpc' = [cpc EXCEPT ![k] = "done"]
        /\ ctxDone' = ctxDone \cup ({victim[k]} \cap Procs)
        /\ UNCHANGED <<row, active, pc, previous, victim>>
    BY <1>7 DEF CancelActive, dbVars, procVars
  <2>2. \A q \in Procs : Stopped(q) \/ victim[k] = q => Stopped(q)'
    BY <2>1 DEF Stopped
  <2>3. PreviousShape' /\ SupersededIsStopped'
    BY <2>1, <2>2 DEF IInv, PreviousShape, SupersededIsStopped
  <2>4. \A m \in Cancels \ {k} : cpc'[m] = cpc[m]
    BY <2>1 DEF IInv, TypeOK
  <2>5. cpc'[k] = "done"
    BY <2>1 DEF IInv, TypeOK
  <2>6. CancelMarksRow'
    BY <2>1, <2>4 DEF IInv, CancelMarksRow
  <2>7. \A q \in Procs : pc[q] \in Driving => victim[k] = q \/ Stopped(q)
    BY <2>1 DEF IInv, FoundIsLast
  <2>8. FoundIsLast' /\ CancelReachesDriver'
    BY <2>1, <2>2, <2>4, <2>5, <2>7 DEF IInv, FoundIsLast, CancelReachesDriver
  <2> QED BY <1>0, <2>3, <2>6, <2>8 DEF IInv
<1>8. CASE Restart
  <2>1. /\ \A q \in Procs : pc'[q] \in {"idle", "done"} /\ previous'[q] = NoProc
        /\ \A k \in Cancels : cpc'[k] \in {"idle", "lost"}
    BY <1>8 DEF Restart
  <2> QED
    BY <1>0, <2>1 DEF IInv, PreviousShape, SupersededIsStopped, CancelMarksRow,
                      FoundIsLast, CancelReachesDriver, Entering, Driving
<1>9. CASE UNCHANGED vars
  <2>1. UNCHANGED <<row, active, ctxDone, pc, previous, cpc, victim>>
    BY <1>9 DEF vars, dbVars, activeVars, procVars, cancelVars
  <2>2. \A q \in Procs : Stopped(q)' <=> Stopped(q)
    BY <2>1 DEF Stopped
  <2> QED
    BY <1>0, <2>1, <2>2 DEF IInv, PreviousShape, SupersededIsStopped, CancelMarksRow,
                            FoundIsLast, CancelReachesDriver
<1> QED
  BY <1>1, <1>2, <1>3, <1>4, <1>5, <1>6, <1>7, <1>8, <1>9
     DEF Next, Work, Continue, CancelOwned

\* The invariant holds in every reachable state.
THEOREM Invariance == Spec => []IInv
BY InitInv, NextInv, PTL DEF Spec

\* However resumes overlap, a goroutine that lost its place in activeRuns has lost
\* its context or is about to: no driver of the run escapes CancelOwned.
THEOREM NoForgottenDriver == Spec => []SupersededIsStopped
BY Invariance, PTL DEF IInv

\* When CancelOwned returns, every goroutine that drives the run has been told to
\* stop, whenever it registered.
THEOREM CancelStopsTheLoop == Spec => []CancelReachesDriver
BY Invariance, PTL DEF IInv
-----------------------------------------------------------------------------
(* One goroutine at a time, for clients that resume a tool call once       *)

\* The goroutines that hold the run: from the request that found it absent or
\* waiting to the save, refusal or fault that ends their part.
Busy == Resuming \cup {"continue"} \cup Entering \cup Driving

OneBusy == \A p, q \in Procs : pc[p] \in Busy /\ pc[q] \in Busy => p = q

\* What the status of the row is while p holds the run.
StatusFits(p) ==
    /\ pc[p] \in {"answering", "resuming"} =>
         \/ row.status = "cancelled"
         \/ row.status = "waiting_user" /\ row.pending = target[p] /\ local[p] = row
    /\ pc[p] = "finishing" => row.status = "completed"
    /\ pc[p] = "announcing" => row.status = "failed"
    /\ pc[p] \in Busy \ {"answering", "resuming", "finishing", "announcing"} =>
         row.status \in {"running", "cancelled"}
    /\ pc[p] \in {"approving", "resaving"} \cup (Driving \ {"finishing", "announcing"}) =>
         local[p].status = "running"

\* A transcript whose tool messages have their calls, made of calls handed out.
Paired(copy) ==
    /\ copy.answered \subseteq copy.called
    /\ \A c \in copy.called : c < nextCall

\* The calls still to be handled are different calls that the copy leaves open.
QueueOpen(p) ==
    \A i, j \in 1..Len(queue[p]) :
        /\ queue[p][i] \in local[p].called /\ queue[p][i] \notin local[p].answered
        /\ queue[p][i] = queue[p][j] => i = j

\* What p's copy of the transcript holds, where p goes on to use it.
CopyFits(p) ==
    /\ pc[p] \in {"answering", "resuming", "approving", "resaving"} \cup Driving =>
         Paired(local[p])
    /\ pc[p] \in {"approving", "resaving"} => target[p] \in local[p].called
    /\ pc[p] \in {"tools", "storing", "requesting", "parking"} => QueueOpen(p)
    /\ pc[p] = "requesting" /\ row.status = "running" => row = local[p]
    /\ pc[p] = "parking" => Head(queue[p]) \in asked

\* The saved transcript is paired, and a waiting run waits for an open question.
RowFits ==
    /\ Paired(row)
    /\ row.status = "waiting_user"
         => row.pending \in asked /\ row.pending \in row.called
            /\ row.pending \notin row.answered

\* The log has an outcome only when the status is terminal and nobody is left to
\* announce it.
LogCloses ==
    outcome # <<>> =>
        /\ Len(outcome) = 1
        /\ row.status \in {"completed", "failed", "cancelled"}
        /\ \A p \in Procs : pc[p] \notin {"finishing", "announcing"}

\* The inductive invariant.
SoloInv ==
    /\ OneBusy
    /\ \A p \in Procs : StatusFits(p) /\ CopyFits(p)
    /\ RowFits
    /\ LogCloses

-----------------------------------------------------------------------------
\* Nobody else holds the run while p does, so only p's part can change.
LEMMA OthersFit ==
    ASSUME OneBusy, NEW p \in Procs, pc[p] \in Busy,
           \A q \in Procs \ {p} : pc'[q] = pc[q]
    PROVE  /\ OneBusy'
           /\ \A q \in Procs \ {p} : StatusFits(q)' /\ CopyFits(q)'
           /\ \A q \in Procs \ {p} : pc'[q] \notin Busy
<1>1. \A q \in Procs \ {p} : pc'[q] \notin Busy
  BY DEF OneBusy
<1>2. OneBusy'
  BY <1>1 DEF OneBusy
<1>3. ASSUME NEW q \in Procs \ {p} PROVE StatusFits(q)' /\ CopyFits(q)'
  BY <1>1, <1>3 DEF StatusFits, CopyFits, Busy, Resuming, Driving
<1> QED BY <1>1, <1>2, <1>3

\* A goroutine that holds the run has left the others idle; what is left to show of
\* its step is p's own part, the row and the log.
LEMMA HolderStep ==
    ASSUME TypeOK, SoloInv, NEW p \in Procs, pc[p] \in Busy, NEW to, Goto(p, to),
           StatusFits(p)', CopyFits(p)', RowFits',
           outcome' # <<>> =>
              /\ Len(outcome') = 1
              /\ row'.status \in {"completed", "failed", "cancelled"}
              /\ to \notin {"finishing", "announcing"}
    PROVE  SoloInv'
<1>1. \A q \in Procs \ {p} : pc'[q] = pc[q]
  BY DEF Goto, TypeOK
<1>2. pc'[p] = to
  BY DEF Goto, TypeOK
<1>3. /\ OneBusy' /\ \A q \in Procs \ {p} : StatusFits(q)' /\ CopyFits(q)'
      /\ \A q \in Procs \ {p} : pc'[q] \notin Busy
  BY <1>1, OthersFit DEF SoloInv
<1>4. LogCloses'
  BY <1>2, <1>3 DEF LogCloses, Busy, Driving
<1> QED BY <1>3, <1>4 DEF SoloInv

\* At the start nobody holds the run and the log is open.
LEMMA SoloInit == Init => SoloInv
BY DEF Init, SoloInv, OneBusy, StatusFits, CopyFits, RowFits, LogCloses, Paired, NoRow,
       Busy, Resuming, Entering, Driving

\* A start or a resume finds nobody who holds the run.
LEMMA RequestSolo ==
    ASSUME TypeOK, SoloInv, ~DuplicateResume, NEW p \in Procs, Request(p)
    PROVE  SoloInv'
<1>0. pc[p] = "idle"
  BY DEF Request, StartRun, ResumeToolCall
<1>1. CASE StartRun(p)
  <2>1. /\ row.status = "absent" /\ row' = [NoRow EXCEPT !.status = "running"]
        /\ pc' = [pc EXCEPT ![p] = "starting"]
        /\ UNCHANGED <<asked, outcome, target, local, queue, nextCall>>
    BY <1>1 DEF StartRun, Goto, envVars
  <2>2. \A q \in Procs : pc[q] \notin Busy
    BY <2>1 DEF SoloInv, StatusFits, Busy, Resuming, Driving
  <2>3. pc'[p] = "starting" /\ \A q \in Procs \ {p} : pc'[q] \notin Busy
    BY <2>1, <2>2 DEF TypeOK
  <2>4. OneBusy'
    BY <2>3 DEF OneBusy
  <2>5. row'.status = "running" /\ row'.called = {} /\ row'.answered = {}
    BY <2>1 DEF NoRow
  <2>6. \A q \in Procs : StatusFits(q)' /\ CopyFits(q)'
    BY <2>3, <2>5 DEF StatusFits, CopyFits, Busy, Resuming, Driving
  <2>7. RowFits'
    BY <2>5 DEF RowFits, Paired
  <2>8. LogCloses'
    BY <2>1 DEF SoloInv, LogCloses
  <2> QED BY <2>4, <2>6, <2>7, <2>8 DEF SoloInv
<1>2. ASSUME NEW c \in Calls, ResumeToolCall(p, c) PROVE SoloInv'
  <2>1. /\ row.status = "waiting_user" /\ row.pending = c
        /\ \A q \in Procs : target[q] # c
        /\ target' = [target EXCEPT ![p] = c] /\ local' = [local EXCEPT ![p] = row]
        /\ pc' = [pc EXCEPT ![p] = "answering"]
        /\ UNCHANGED <<row, asked, outcome, queue, nextCall>>
    BY <1>2 DEF ResumeToolCall, Goto, dbVars, envVars
  <2>2. \A q \in Procs : pc[q] \notin Busy
    BY <2>1 DEF SoloInv, StatusFits, Busy, Resuming, Driving
  <2>3. pc'[p] = "answering" /\ \A q \in Procs \ {p} : pc'[q] \notin Busy
    BY <2>1, <2>2 DEF TypeOK
  <2>4. OneBusy'
    BY <2>3 DEF OneBusy
  <2>5. target'[p] = c /\ local'[p] = row'
    BY <2>1 DEF TypeOK
  <2>6. RowFits' /\ LogCloses'
    BY <2>1 DEF SoloInv, RowFits, LogCloses, Paired
  <2>7. StatusFits(p)' /\ CopyFits(p)'
    BY <2>1, <2>3, <2>5, <2>6 DEF StatusFits, CopyFits, Busy, Resuming, Driving, RowFits
  <2>8. \A q \in Procs \ {p} : StatusFits(q)' /\ CopyFits(q)'
    BY <2>3 DEF StatusFits, CopyFits, Busy, Resuming, Driving
  <2> QED BY <2>4, <2>6, <2>7, <2>8 DEF SoloInv
<1> QED BY <1>1, <1>2 DEF Request

\* The steps of Resume before Continue.
LEMMA ResumeSolo ==
    ASSUME TypeOK, SoloInv, NEW p \in Procs, ResumeStep(p)
    PROVE  SoloInv'
<1>0. /\ StatusFits(p) /\ CopyFits(p) /\ RowFits /\ LogCloses
      /\ local \in [Procs -> Rows] /\ pc \in [Procs -> Busy \cup {"idle", "leaving", "done"}]
      /\ row \in Rows
  BY DEF SoloInv, TypeOK, Busy
<1>1. CASE RunStarted(p) \/ Approve(p) \/ ResumeResult(p)
  <2>1. PICK to \in {"continue", "resaving", "resuming"} :
          /\ Goto(p, to) /\ UNCHANGED <<row, asked, outcome, target, local, queue, nextCall>>
          /\ pc[p] \in {"starting", "approving", "answering"}
          /\ to = "resuming" => pc[p] = "answering"
          /\ to = "resaving" => pc[p] = "approving"
          /\ to = "continue" => pc[p] = "starting"
    BY <1>1 DEF RunStarted, Approve, ResumeResult, dbVars, envVars
  <2>2. pc'[p] = to
    BY <1>0, <2>1 DEF Goto
  <2>3. StatusFits(p)' /\ CopyFits(p)'
    BY <1>0, <2>1, <2>2 DEF StatusFits, CopyFits, Paired, Busy, Resuming, Driving
  <2>4. RowFits'
    BY <1>0, <2>1 DEF RowFits, Paired
  <2>5. pc[p] \in Busy
    BY <2>1 DEF Busy, Resuming
  <2> QED BY <1>0, <2>1, <2>3, <2>4, <2>5, HolderStep DEF LogCloses
<1>2. CASE ResumeSave(p)
  <2> DEFINE copy == [local[p] EXCEPT !.status = "running", !.pending = NoCall]
  <2>1. /\ pc[p] = "resuming" /\ row.status # "cancelled" /\ Goto(p, "approving")
        /\ row' = copy /\ local' = [local EXCEPT ![p] = copy]
        /\ UNCHANGED <<asked, outcome, target, queue, nextCall>>
    BY <1>2 DEF ResumeSave, SaveRun, CanWrite, RowOpen, envVars
  <2>2. pc'[p] = "approving" /\ local'[p] = copy
    BY <1>0, <2>1 DEF Goto
  <2>3. /\ copy.status = "running" /\ copy.called = local[p].called
        /\ copy.answered = local[p].answered
    BY <1>0 DEF Rows
  <2>4. local[p] = row /\ target[p] = row.pending /\ row.status = "waiting_user"
    BY <1>0, <2>1 DEF StatusFits
  <2> HIDE DEF copy
  <2>5. Paired(local[p])' /\ Paired(row)' /\ target'[p] \in local'[p].called
    BY <1>0, <2>1, <2>2, <2>3, <2>4 DEF RowFits, Paired
  <2>6. StatusFits(p)' /\ CopyFits(p)' /\ RowFits'
    BY <2>1, <2>2, <2>3, <2>5 DEF StatusFits, CopyFits, RowFits, Busy, Resuming, Driving
  <2>7. outcome' = <<>>
    BY <1>0, <2>1, <2>4 DEF LogCloses
  <2> QED BY <2>1, <2>6, <2>7, HolderStep DEF Busy, Resuming
<1>3. CASE ResumeTranscript(p)
  <2> DEFINE copy == [local[p] EXCEPT !.answered = @ \cup {target[p]}]
  <2>1. /\ pc[p] = "resaving" /\ row.status # "cancelled" /\ Goto(p, "continue")
        /\ row' = copy /\ local' = [local EXCEPT ![p] = copy]
        /\ UNCHANGED <<asked, outcome, target, queue, nextCall>>
    BY <1>3 DEF ResumeTranscript, SaveRun, CanWrite, RowOpen, envVars
  <2>2. pc'[p] = "continue"
    BY <1>0, <2>1 DEF Goto
  <2>3. /\ copy.status = local[p].status /\ copy.called = local[p].called
        /\ copy.answered = local[p].answered \cup {target[p]}
    BY <1>0 DEF Rows
  <2> HIDE DEF copy
  <2>4. Paired(row)'
    BY <1>0, <2>1, <2>3 DEF CopyFits, Paired
  <2>5. row.status = "running" /\ local[p].status = "running"
    BY <1>0, <2>1 DEF StatusFits, Busy, Resuming
  <2>6. StatusFits(p)' /\ CopyFits(p)' /\ RowFits'
    BY <2>1, <2>2, <2>3, <2>4, <2>5 DEF StatusFits, CopyFits, RowFits, Busy, Resuming, Driving
  <2>7. outcome' = <<>>
    BY <1>0, <2>1, <2>5 DEF LogCloses
  <2> QED BY <2>1, <2>6, <2>7, HolderStep DEF Busy, Resuming
<1> QED BY <1>1, <1>2, <1>3 DEF ResumeStep

\* Continue: only its read of the row gives the goroutine something to hold.
LEMMA ContinueSolo ==
    ASSUME TypeOK, SoloInv, NEW p \in Procs, Continue(p)
    PROVE  SoloInv'
<1>0. /\ StatusFits(p) /\ CopyFits(p) /\ RowFits /\ LogCloses
      /\ local \in [Procs -> Rows] /\ pc \in [Procs -> Busy \cup {"idle", "leaving", "done"}]
      /\ row \in Rows
  BY DEF SoloInv, TypeOK, Busy
<1>1. CASE Register(p) \/ CancelPrevious(p)
  <2>1. PICK to \in {"registered", "reading"} :
          /\ Goto(p, to) /\ pc[p] \in {"continue", "registered"}
          /\ UNCHANGED <<row, asked, outcome, target, local, queue, nextCall>>
    BY <1>1 DEF Register, CancelPrevious, dbVars, envVars
  <2>2. pc'[p] = to
    BY <1>0, <2>1 DEF Goto
  <2>3. StatusFits(p)' /\ CopyFits(p)' /\ RowFits'
    BY <1>0, <2>1, <2>2
       DEF StatusFits, CopyFits, RowFits, Paired, Busy, Resuming, Entering, Driving
  <2>4. pc[p] \in Busy
    BY <2>1 DEF Busy, Entering
  <2> QED BY <1>0, <2>1, <2>3, <2>4, HolderStep DEF LogCloses
<1>2. CASE ReadRun(p)
  <2>1. PICK to \in {"turn", "leaving"} :
          /\ Goto(p, to) /\ pc[p] = "reading" /\ local' = [local EXCEPT ![p] = row]
          /\ to = "turn" => row.status = "running"
          /\ UNCHANGED <<row, asked, outcome, target, queue, nextCall>>
    BY <1>2 DEF ReadRun, Drivable, dbVars, envVars
  <2>2. pc'[p] = to /\ local'[p] = row
    BY <1>0, <2>1 DEF Goto
  <2>3. StatusFits(p)' /\ CopyFits(p)' /\ RowFits'
    BY <1>0, <2>1, <2>2
       DEF StatusFits, CopyFits, RowFits, Paired, Busy, Resuming, Entering, Driving
  <2>4. pc[p] \in Busy
    BY <2>1 DEF Busy, Entering
  <2> QED BY <1>0, <2>1, <2>3, <2>4, HolderStep DEF LogCloses
<1>3. CASE Unregister(p)
  <2>1. /\ pc[p] = "leaving" /\ pc' = [pc EXCEPT ![p] = "done"]
        /\ UNCHANGED <<row, asked, outcome, target, local, queue, nextCall>>
    BY <1>3 DEF Unregister, Goto, dbVars, envVars
  <2>2. pc'[p] = "done" /\ \A q \in Procs \ {p} : pc'[q] = pc[q]
    BY <1>0, <2>1
  <2>3. OneBusy'
    BY <2>2 DEF SoloInv, OneBusy, Busy, Resuming, Entering, Driving
  <2>4. StatusFits(p)' /\ CopyFits(p)'
    BY <2>2 DEF StatusFits, CopyFits, Busy, Resuming, Entering, Driving
  <2>5. \A q \in Procs \ {p} : StatusFits(q)' /\ CopyFits(q)'
    BY <2>1, <2>2 DEF SoloInv, StatusFits, CopyFits, QueueOpen, Paired
  <2>6. RowFits' /\ LogCloses'
    BY <1>0, <2>1, <2>2 DEF RowFits, Paired, LogCloses
  <2> QED BY <2>3, <2>4, <2>5, <2>6 DEF SoloInv
<1> QED BY <1>1, <1>2, <1>3 DEF Continue

\* A save of a driver: the row becomes the copy, which the driver keeps.
LEMMA DriverSaves ==
    ASSUME TypeOK, SoloInv, NEW p \in Procs, pc[p] \in Driving \ {"finishing", "announcing"},
           NEW copy \in Rows, SaveRun(p, copy), CanWrite(p), NEW to, Goto(p, to),
           UNCHANGED <<asked, outcome, target, nextCall>>, Paired(copy),
           copy.status = "waiting_user" =>
             copy.pending \in asked /\ copy.pending \in copy.called
             /\ copy.pending \notin copy.answered,
           \/ to \in Driving \ {"finishing", "announcing", "parking"} /\ copy.status = "running"
           \/ to = "leaving"
           \/ to = "finishing" /\ copy.status = "completed"
           \/ to = "announcing" /\ copy.status = "failed",
           to \in {"tools", "storing", "requesting"} => QueueOpen(p)'
    PROVE  SoloInv'
<1>0. /\ StatusFits(p) /\ CopyFits(p) /\ RowFits /\ LogCloses
      /\ local \in [Procs -> Rows] /\ pc \in [Procs -> Busy \cup {"idle", "leaving", "done"}]
  BY DEF SoloInv, TypeOK, Busy
<1>1. pc'[p] = to /\ local'[p] = copy /\ row' = copy
  BY <1>0 DEF Goto, SaveRun
<1>2. Paired(local[p])' /\ Paired(row)'
  BY <1>1 DEF Paired
<1>3. StatusFits(p)' /\ CopyFits(p)' /\ RowFits'
  BY <1>1, <1>2 DEF StatusFits, CopyFits, RowFits, Busy, Resuming, Entering, Driving
<1>4. pc[p] \in Busy /\ row.status = "running"
  BY <1>0 DEF StatusFits, Busy, Driving, CanWrite, RowOpen
<1>5. outcome' = <<>>
  BY <1>0, <1>4 DEF LogCloses
<1> QED BY <1>3, <1>4, <1>5, HolderStep

\* A driver's step that leaves row and log alone.
LEMMA DriverMoves ==
    ASSUME TypeOK, SoloInv, NEW p \in Procs, pc[p] \in Driving \ {"finishing", "announcing"},
           NEW to \in {"turn", "calling", "tools", "storing", "completing", "failing", "leaving"},
           Goto(p, to), UNCHANGED <<row, asked, outcome, target>>,
           nextCall' \in Nat /\ nextCall' >= nextCall,
           local'[p].status = "running", Paired(local[p])',
           to \in {"tools", "storing"} => QueueOpen(p)'
    PROVE  SoloInv'
<1>0. /\ StatusFits(p) /\ CopyFits(p) /\ RowFits /\ LogCloses
      /\ pc \in [Procs -> Busy \cup {"idle", "leaving", "done"}]
      /\ row \in Rows /\ nextCall \in Nat
  BY AgentAssumption DEF SoloInv, TypeOK, Busy
<1>1. pc'[p] = to
  BY <1>0 DEF Goto
<1>2. pc[p] \in Busy
  BY DEF Busy
<1>3. row.status \in {"running", "cancelled"}
  BY <1>0, <1>2 DEF StatusFits, Driving
<1>4. StatusFits(p)' /\ CopyFits(p)'
  BY <1>1, <1>3 DEF StatusFits, CopyFits, Busy, Resuming, Entering, Driving
<1>5. RowFits'
  <2>1. \A c \in row.called : c \in Nat /\ c < nextCall'
    BY <1>0, AgentAssumption DEF RowFits, Paired, Rows, Calls
  <2> QED BY <1>0, <2>1 DEF RowFits, Paired
<1> QED BY <1>0, <1>1, <1>2, <1>4, <1>5, HolderStep DEF LogCloses

\* The call at the head of the queue gets its tool message.
LEMMA HeadAnswered ==
    ASSUME TypeOK, SoloInv, NEW p \in Procs, pc[p] \in {"tools", "storing"}
    PROVE  /\ WithToolMessage(p) \in Rows
           /\ WithToolMessage(p).status = "running" /\ Paired(WithToolMessage(p))
           /\ WithToolMessage(p).called = local[p].called
           /\ WithToolMessage(p).answered = local[p].answered \cup {Head(queue[p])}
           /\ queue[p] \in Seq(Calls) /\ queue[p] # <<>>
<1>0. /\ StatusFits(p) /\ CopyFits(p) /\ local[p] \in Rows
      /\ queue[p] \in Seq(Calls) /\ queue[p] # <<>>
  BY DEF SoloInv, TypeOK
<1>1. Head(queue[p]) \in Calls /\ Head(queue[p]) = queue[p][1] /\ 1 \in 1..Len(queue[p])
  BY <1>0
<1>2. /\ WithToolMessage(p) \in Rows /\ WithToolMessage(p).status = local[p].status
      /\ WithToolMessage(p).called = local[p].called
      /\ WithToolMessage(p).answered = local[p].answered \cup {Head(queue[p])}
  BY <1>0, <1>1 DEF WithToolMessage, Rows
<1>3. /\ local[p].status = "running" /\ Paired(local[p]) /\ Head(queue[p]) \in local[p].called
  BY <1>0, <1>1 DEF StatusFits, CopyFits, QueueOpen, Driving
<1> QED BY <1>0, <1>2, <1>3 DEF Paired

\* The loop: one driver, whose saves are the only ones.
LEMMA LoopSolo ==
    ASSUME TypeOK, SoloInv, NEW p \in Procs, LoopStep(p)
    PROVE  SoloInv'
<1>0. /\ StatusFits(p) /\ CopyFits(p) /\ RowFits /\ LogCloses
      /\ local \in [Procs -> Rows] /\ queue \in [Procs -> Seq(Calls)]
      /\ pc \in [Procs -> Busy \cup {"idle", "leaving", "done"}]
      /\ row \in Rows /\ nextCall \in Nat /\ MaxCalls \in Nat
  BY AgentAssumption DEF SoloInv, TypeOK, Busy
<1>d. pc[p] \in Driving
  BY DEF LoopStep, BeginTurn, ModelToolCalls, ModelFinalText, ModelFails, ToolResult,
         ToolSave, ToolFailed, ToolAborts, TranscriptFuse, AskUser, RequestUserInput,
         ParkRun, CompleteRun, FailRun, Announce, Driving
<1>p. pc[p] \notin {"finishing", "announcing"} =>
        Paired(local[p]) /\ local[p].status = "running"
  BY <1>0, <1>d DEF StatusFits, CopyFits
<1>1. CASE BeginTurn(p) \/ ModelFinalText(p) \/ ModelFails(p) \/ ToolResult(p) \/ ToolAborts(p)
  <2>1. PICK to \in {"calling", "failing", "completing", "storing"} :
          /\ Goto(p, to) /\ pc[p] \notin {"finishing", "announcing"}
          /\ to = "storing" => pc[p] = "tools"
          /\ UNCHANGED <<row, asked, outcome, target, local, queue, nextCall>>
    BY <1>1 DEF BeginTurn, ModelFinalText, ModelFails, ToolResult, ToolAborts, dbVars, envVars
  <2>2. local'[p].status = "running" /\ Paired(local[p])'
    BY <1>p, <2>1 DEF Paired
  <2>3. to \in {"tools", "storing"} => QueueOpen(p)'
    BY <1>0, <2>1 DEF CopyFits, QueueOpen
  <2> QED BY <1>0, <1>d, <2>1, <2>2, <2>3, DriverMoves
<1>2. ASSUME NEW n \in 1..CallsPerTurn, ModelToolCalls(p, n) PROVE SoloInv'
  <2> DEFINE new == nextCall..(nextCall + n - 1)
             copy == [local[p] EXCEPT !.called = @ \cup new]
  <2>1. /\ pc[p] = "calling" /\ Goto(p, "tools") /\ n \in Nat \ {0}
        /\ nextCall' = nextCall + n
        /\ queue' = [queue EXCEPT ![p] = NewCalls(n)]
        /\ local' = [local EXCEPT ![p] = copy]
        /\ UNCHANGED <<row, asked, outcome, target>>
    BY <1>2, AgentAssumption DEF ModelToolCalls, dbVars
  <2>2. local'[p] = copy /\ queue'[p] = NewCalls(n)
    BY <1>0, <2>1
  <2>3. copy.status = "running" /\ copy.called = local[p].called \cup new
        /\ copy.answered = local[p].answered
    BY <1>0, <1>p, <2>1 DEF Rows
  <2>4. Paired(local[p]) /\ local[p].called \subseteq Calls
    BY <1>0, <1>p, <2>1 DEF Rows
  <2> HIDE DEF copy
  <2>5. Paired(local[p])'
    <3>1. \A c \in local[p].called : c < nextCall'
      BY <1>0, <2>1, <2>4 DEF Paired, Calls
    <3>2. \A c \in new : c < nextCall'
      BY <1>0, <2>1
    <3> HIDE DEF new
    <3> QED BY <2>2, <2>3, <2>4, <3>1, <3>2 DEF Paired
  <2>6. QueueOpen(p)'
    <3>1. Len(NewCalls(n)) = n /\ \A i \in 1..n : NewCalls(n)[i] = nextCall + i - 1
      BY <2>1 DEF NewCalls
    <3>2. \A i \in 1..n : nextCall + i - 1 \in new
      BY <1>0, <2>1
    <3>3. \A c \in new : c >= nextCall
      BY <1>0, <2>1
    <3>4. \A c \in new : c \notin local[p].answered
      BY <1>0, <2>4, <3>3 DEF Paired, Calls
    <3> HIDE DEF new
    <3> QED BY <1>0, <2>1, <2>2, <2>3, <3>1, <3>2, <3>4 DEF QueueOpen
  <2>7. nextCall' \in Nat /\ nextCall' >= nextCall
    BY <1>0, <2>1
  <2> QED BY <1>d, <2>1, <2>2, <2>3, <2>5, <2>6, <2>7, DriverMoves
<1>3. CASE ToolSave(p) \/ ToolFailed(p)
  <2>1. /\ pc[p] \in {"tools", "storing"} /\ CanWrite(p)
        /\ SaveRun(p, WithToolMessage(p))
        /\ queue' = [queue EXCEPT ![p] = Tail(queue[p])]
        /\ Goto(p, IF Tail(queue[p]) = <<>> THEN "turn" ELSE "tools")
        /\ UNCHANGED <<asked, outcome, target, nextCall>>
    BY <1>3 DEF ToolSave, ToolFailed, StoreToolMessage, Remaining, envVars
  <2>2. /\ WithToolMessage(p) \in Rows
        /\ WithToolMessage(p).status = "running" /\ Paired(WithToolMessage(p))
        /\ WithToolMessage(p).called = local[p].called
        /\ WithToolMessage(p).answered = local[p].answered \cup {Head(queue[p])}
        /\ queue[p] \in Seq(Calls) /\ queue[p] # <<>>
    BY <2>1, HeadAnswered
  <2>3. QueueOpen(p)'
    <3>1. local'[p] = WithToolMessage(p) /\ queue'[p] = Tail(queue[p])
      BY <1>0, <2>1 DEF SaveRun
    <3>2. /\ Len(Tail(queue[p])) = Len(queue[p]) - 1 /\ Head(queue[p]) = queue[p][1]
          /\ \A i \in 1..Len(Tail(queue[p])) :
                Tail(queue[p])[i] = queue[p][i + 1] /\ i + 1 \in 1..Len(queue[p])
          /\ Len(queue[p]) \in Nat /\ 1 \in 1..Len(queue[p])
      BY <2>2
    <3>3. QueueOpen(p)
      BY <1>0, <2>1 DEF CopyFits
    <3>4. \A i \in 2..Len(queue[p]) : queue[p][i] # queue[p][1]
      BY <3>2, <3>3 DEF QueueOpen
    <3> QED BY <2>2, <3>1, <3>2, <3>3, <3>4 DEF QueueOpen
  <2>4. pc[p] \in Driving \ {"finishing", "announcing"}
    BY <2>1 DEF Driving
  <2> HIDE DEF WithToolMessage
  <2> DEFINE to == IF Tail(queue[p]) = <<>> THEN "turn" ELSE "tools"
  <2>5. Goto(p, to) /\ to \in Driving \ {"finishing", "announcing", "parking"}
    BY <2>1 DEF Driving
  <2> HIDE DEF to
  <2> QED BY <2>1, <2>2, <2>3, <2>4, <2>5, DriverSaves
<1>4. CASE TranscriptFuse(p)
  <2>1. /\ pc[p] = "storing" /\ CanWrite(p) /\ SaveRun(p, WithToolMessage(p))
        /\ Goto(p, "failing") /\ UNCHANGED <<asked, outcome, target, nextCall>>
    BY <1>4 DEF TranscriptFuse, envVars
  <2>2. /\ WithToolMessage(p) \in Rows
        /\ WithToolMessage(p).status = "running" /\ Paired(WithToolMessage(p))
    BY <2>1, HeadAnswered
  <2> QED BY <1>d, <2>1, <2>2, DriverSaves DEF Driving
<1>5. CASE AskUser(p)
  <2>1. /\ pc[p] = "tools" /\ CanWrite(p) /\ SaveRun(p, local[p])
        /\ Goto(p, "requesting") /\ UNCHANGED <<asked, outcome, target, nextCall, queue>>
    BY <1>5 DEF AskUser, envVars
  <2>2. local'[p] = local[p] /\ QueueOpen(p)
    BY <1>0, <2>1 DEF SaveRun, CopyFits
  <2>3. QueueOpen(p)'
    BY <2>1, <2>2 DEF QueueOpen
  <2> QED BY <1>0, <1>d, <1>p, <2>1, <2>3, DriverSaves DEF Driving
<1>6. CASE RequestUserInput(p)
  <2>1. /\ pc[p] = "requesting" /\ row.status = "running" /\ Goto(p, "parking")
        /\ local' = [local EXCEPT ![p] = row] /\ asked' = asked \cup {Head(queue[p])}
        /\ UNCHANGED <<row, outcome, target, nextCall, queue>>
    BY <1>6 DEF RequestUserInput, envVars
  <2>2. pc'[p] = "parking" /\ local'[p] = local[p] /\ local[p] = row
    BY <1>0, <2>1 DEF Goto, CopyFits
  <2>3. Paired(local[p])' /\ QueueOpen(p)'
    BY <1>0, <1>p, <2>1, <2>2 DEF CopyFits, QueueOpen, Paired
  <2>4. StatusFits(p)' /\ CopyFits(p)'
    BY <1>p, <2>1, <2>2, <2>3 DEF StatusFits, CopyFits, Busy, Resuming, Entering, Driving
  <2>5. RowFits'
    BY <1>0, <2>1 DEF RowFits, Paired
  <2>6. pc[p] \in Busy /\ outcome' = <<>>
    BY <1>0, <1>d, <2>1 DEF Busy, LogCloses
  <2> QED BY <2>1, <2>4, <2>5, <2>6, HolderStep
<1>7. CASE ParkRun(p)
  <2> DEFINE copy == [local[p] EXCEPT !.status = "waiting_user", !.pending = Head(queue[p])]
  <2>1. /\ pc[p] = "parking" /\ CanWrite(p) /\ SaveRun(p, copy)
        /\ Goto(p, "leaving") /\ UNCHANGED <<asked, outcome, target, nextCall>>
    BY <1>7 DEF ParkRun, envVars
  <2>2. queue[p] # <<>> /\ queue[p] \in Seq(Calls)
    BY <1>0, <2>1 DEF TypeOK
  <2>3. Head(queue[p]) \in Calls /\ Head(queue[p]) = queue[p][1] /\ 1 \in 1..Len(queue[p])
    BY <2>2
  <2>4. /\ Head(queue[p]) \in asked /\ Head(queue[p]) \in local[p].called
        /\ Head(queue[p]) \notin local[p].answered
    BY <1>0, <2>1, <2>3 DEF CopyFits, QueueOpen
  <2>5. /\ copy \in Rows /\ copy.pending = Head(queue[p]) /\ copy.called = local[p].called
        /\ copy.answered = local[p].answered
    BY <1>0, <2>3 DEF Rows
  <2> HIDE DEF copy
  <2>6. Paired(copy)
    BY <1>p, <2>1, <2>5 DEF Paired
  <2> QED BY <1>d, <2>1, <2>4, <2>5, <2>6, DriverSaves
<1>8. CASE CompleteRun(p) \/ FailRun(p)
  <2>1. PICK s \in {"completed", "failed"}, to \in {"finishing", "announcing"} :
          /\ CloseRun(p, s, to) /\ pc[p] \in {"completing", "failing"}
          /\ s = "completed" <=> to = "finishing"
    BY <1>8 DEF CompleteRun, FailRun
  <2> DEFINE copy == [local[p] EXCEPT !.status = s, !.pending = NoCall]
  <2>2. /\ CanWrite(p) /\ SaveRun(p, copy) /\ Goto(p, to)
        /\ UNCHANGED <<asked, outcome, target, nextCall>>
    BY <2>1 DEF CloseRun, envVars
  <2>3. /\ copy \in Rows /\ copy.status = s /\ copy.called = local[p].called
        /\ copy.answered = local[p].answered
    BY <1>0 DEF Rows
  <2> HIDE DEF copy
  <2>4. Paired(copy)
    BY <1>p, <2>1, <2>3 DEF Paired
  <2> QED BY <1>d, <2>1, <2>2, <2>3, <2>4, DriverSaves
<1>9. CASE Announce(p)
  <2>1. /\ pc[p] \in {"finishing", "announcing"} /\ Goto(p, "leaving")
        /\ \E e : outcome' = Append(outcome, e)
        /\ UNCHANGED <<row, asked, target, local, queue, nextCall>>
    BY <1>9 DEF Announce, envVars
  <2>2. outcome = <<>>
    BY <1>0, <2>1 DEF LogCloses
  <2>3. Len(outcome') = 1
    BY <2>1, <2>2
  <2>4. row.status \in {"completed", "failed"}
    BY <1>0, <2>1 DEF StatusFits
  <2>5. pc'[p] = "leaving"
    BY <1>0, <2>1 DEF Goto
  <2>6. StatusFits(p)' /\ CopyFits(p)'
    BY <2>5 DEF StatusFits, CopyFits, Busy, Resuming, Entering, Driving
  <2>7. RowFits'
    BY <1>0, <2>1 DEF RowFits, Paired
  <2>8. pc[p] \in Busy
    BY <1>d DEF Busy
  <2> QED BY <2>1, <2>3, <2>4, <2>6, <2>7, <2>8, HolderStep
<1> QED BY <1>1, <1>2, <1>3, <1>4, <1>5, <1>6, <1>7, <1>8, <1>9 DEF LoopStep

\* A refused or failed statement ends p's part, or sends it to FailRun with a copy
\* that is still paired.
LEMMA FailureSolo ==
    ASSUME TypeOK, SoloInv, NEW p \in Procs, Refused(p) \/ StatementFails(p)
    PROVE  SoloInv'
<1>0. /\ StatusFits(p) /\ CopyFits(p) /\ RowFits /\ LogCloses
      /\ local \in [Procs -> Rows]
      /\ pc \in [Procs -> Busy \cup {"idle", "leaving", "done"}]
      /\ row \in Rows
  BY DEF SoloInv, TypeOK, Busy
<1>1. CASE StatementFails(p) /\ pc[p] \in {"tools", "storing"}
  <2>1. /\ Goto(p, "failing") /\ local' = [local EXCEPT ![p] = WithToolMessage(p)]
        /\ UNCHANGED <<row, asked, outcome, target, nextCall>>
    BY <1>1 DEF StatementFails, Resuming, dbVars
  <2>2. local'[p] = WithToolMessage(p)
    BY <1>0, <2>1
  <2>3. local'[p].status = "running" /\ Paired(local[p])'
    BY <1>1, <2>1, <2>2, HeadAnswered DEF Paired
  <2>4. nextCall' \in Nat /\ nextCall' >= nextCall
    BY <2>1, AgentAssumption DEF TypeOK
  <2> QED BY <1>1, <2>1, <2>3, <2>4, DriverMoves DEF Driving
<1>2. CASE ~(StatementFails(p) /\ pc[p] \in {"tools", "storing"})
  <2>1. PICK to \in {"done", "leaving"} :
          /\ Goto(p, to) /\ pc[p] \in Busy
          /\ UNCHANGED <<row, asked, outcome, target, nextCall>>
    BY <1>2 DEF Refused, StatementFails, dbVars, envVars, Busy, Entering
  <2>2. pc'[p] = to
    BY <1>0, <2>1 DEF Goto
  <2>3. StatusFits(p)' /\ CopyFits(p)'
    BY <2>2 DEF StatusFits, CopyFits, Busy, Resuming, Entering, Driving
  <2>4. RowFits'
    BY <1>0, <2>1 DEF RowFits, Paired
  <2> QED BY <1>0, <2>1, <2>3, <2>4, HolderStep DEF LogCloses
<1> QED BY <1>1, <1>2

\* A cancel closes the log of an open run; it does not touch who holds it.
LEMMA CancelSolo ==
    ASSUME TypeOK, SoloInv, NEW k \in Cancels, CancelOwned(k)
    PROVE  SoloInv'
<1>1. UNCHANGED <<pc, target, local, queue, asked, nextCall>>
  BY DEF CancelOwned, CancelRun, FindActive, CancelActive, dbVars, procVars, envVars
<1>2. CASE CancelRun(k) /\ row.status \in {"running", "waiting_user"}
  <2>1. /\ row' = [row EXCEPT !.status = "cancelled", !.pending = NoCall]
        /\ outcome' = Append(outcome, "run.cancelled")
    BY <1>2 DEF CancelRun
  <2>2. row'.status = "cancelled" /\ row'.called = row.called /\ row'.answered = row.answered
    BY <2>1 DEF TypeOK, Rows
  <2>3. outcome = <<>>
    BY <1>2 DEF SoloInv, LogCloses
  <2>4. Len(outcome') = 1
    BY <2>1, <2>3
  <2>5. OneBusy'
    BY <1>1 DEF SoloInv, OneBusy
  <2>6. ASSUME NEW p \in Procs
        PROVE  StatusFits(p)' /\ CopyFits(p)' /\ pc[p] \notin {"finishing", "announcing"}
    <3>1. StatusFits(p) /\ CopyFits(p)
      BY DEF SoloInv
    <3>2. pc[p] \notin {"finishing", "announcing"}
      BY <1>2, <3>1 DEF StatusFits
    <3>3. StatusFits(p)'
      BY <1>1, <2>2, <3>1, <3>2 DEF StatusFits
    <3>4. CopyFits(p)'
      BY <1>1, <2>2, <3>1 DEF CopyFits, Paired, QueueOpen
    <3> QED BY <3>2, <3>3, <3>4
  <2>7. RowFits'
    BY <1>1, <2>2 DEF SoloInv, RowFits, Paired
  <2>8. LogCloses'
    BY <1>1, <2>2, <2>4, <2>6 DEF LogCloses
  <2> QED BY <2>5, <2>6, <2>7, <2>8 DEF SoloInv
<1>3. CASE ~(CancelRun(k) /\ row.status \in {"running", "waiting_user"})
  <2>1. UNCHANGED <<row, outcome>>
    BY <1>3 DEF CancelOwned, CancelRun, FindActive, CancelActive, dbVars
  <2> QED
    BY <1>1, <2>1 DEF SoloInv, OneBusy, StatusFits, CopyFits, QueueOpen, RowFits, Paired,
                      LogCloses
<1> QED BY <1>2, <1>3

\* Every step keeps the run with one goroutine, its transcript paired and its log
\* closed at most once.
LEMMA SoloNext ==
    ASSUME ~DuplicateResume, TypeOK, SoloInv, [Next]_vars
    PROVE  SoloInv'
<1>1. ASSUME NEW p \in Procs, Request(p) \/ Work(p) \/ StatementFails(p) PROVE SoloInv'
  BY <1>1, RequestSolo, ResumeSolo, ContinueSolo, LoopSolo, FailureSolo DEF Work
<1>2. ASSUME NEW k \in Cancels, CancelOwned(k) PROVE SoloInv'
  BY <1>2, CancelSolo
<1>3. CASE Restart
  <2>1. /\ \A p \in Procs : pc'[p] \in {"idle", "done"}
        /\ UNCHANGED <<row, asked, outcome, nextCall>>
    BY <1>3 DEF Restart, dbVars
  <2>2. OneBusy' /\ \A p \in Procs : StatusFits(p)' /\ CopyFits(p)'
    BY <2>1 DEF OneBusy, StatusFits, CopyFits, Busy, Resuming, Entering, Driving
  <2>3. RowFits' /\ LogCloses'
    BY <2>1 DEF SoloInv, RowFits, Paired, LogCloses
  <2> QED BY <2>2, <2>3 DEF SoloInv
<1>4. CASE UNCHANGED vars
  BY <1>4 DEF vars, dbVars, procVars, envVars, SoloInv, OneBusy, StatusFits, CopyFits,
              QueueOpen, RowFits, Paired, LogCloses
<1> QED BY <1>1, <1>2, <1>3, <1>4 DEF Next

\* With clients that resume a tool call once, one goroutine at a time holds the run.
THEOREM SoloInvariance == ~DuplicateResume /\ Spec => []SoloInv
<1>1. TypeOK /\ ~DuplicateResume /\ SoloInv /\ [Next]_vars => SoloInv'
  BY SoloNext
<1>2. Init => SoloInv
  BY SoloInit
<1>3. CASE DuplicateResume
  BY <1>3, PTL
<1>4. CASE ~DuplicateResume
  <2>1. TypeOK /\ SoloInv /\ [Next]_vars => SoloInv'
    BY <1>1, <1>4
  <2> QED BY <1>2, <2>1, TypeCorrect, PTL DEF Spec
<1> QED BY <1>3, <1>4

\* Two goroutines never hold a copy of the row that each can still write back: a
\* start, resumes, cancels, faults and restarts hand the run from one to the next.
THEOREM SingleWriter == ~DuplicateResume /\ Spec => []OneWriter
<1>1. SoloInv => OneWriter
  BY DEF SoloInv, OneBusy, OneWriter, Busy
<1> QED BY <1>1, SoloInvariance, PTL

\* The log closes once: completing, failing and cancelling exclude one another
\* although the status and its event are separate statements.
THEOREM SingleOutcome == ~DuplicateResume /\ Spec => []OneOutcome
<1>1. SoloInv => OneOutcome
  <2> SUFFICES ASSUME SoloInv PROVE OneOutcome OBVIOUS
  <2>1. CASE outcome = <<>>
    BY <2>1 DEF OneOutcome
  <2>2. CASE outcome # <<>>
    <3>1. Len(outcome) = 1
      BY <2>2 DEF SoloInv, LogCloses
    <3> QED BY <3>1 DEF OneOutcome
  <2> QED BY <2>1, <2>2
<1> QED BY <1>1, SoloInvariance, PTL

\* The saved transcript answers only calls it holds, and a run that waits does so
\* for a question that was asked and has no answer yet.
THEOREM TranscriptKept == ~DuplicateResume /\ Spec => []TranscriptConsistent
<1>1. SoloInv => TranscriptConsistent
  BY DEF SoloInv, RowFits, Paired, TranscriptConsistent
<1> QED BY <1>1, SoloInvariance, PTL

-----------------------------------------------------------------------------
(* One result per tool call                                                *)

\* A result is recorded for a call that has none: a call not handed out, one still
\* in a queue, the one a resume is about to answer or a question nobody has resumed.
ResultsFit ==
    /\ \A c \in Calls : results[c] <= 1 /\ (c >= nextCall => results[c] = 0)
    /\ row.status = "waiting_user" /\ (\A q \in Procs : target[q] # row.pending)
         => results[row.pending] = 0
    /\ \A p \in Procs :
         /\ pc[p] = "answering" => results[target[p]] = 0
         /\ pc[p] \in {"tools", "requesting", "parking"} =>
              \A i \in 1..Len(queue[p]) : results[queue[p][i]] = 0
         /\ pc[p] = "storing" => \A i \in 2..Len(queue[p]) : results[queue[p][i]] = 0

\* A step of p that records no result, hands out no call and moves p only along its
\* queue keeps the results.
LEMMA ResultsKept ==
    ASSUME ResultsFit, NEW p \in Procs, UNCHANGED <<results, nextCall, target>>,
           \A q \in Procs \ {p} : pc'[q] = pc[q] /\ queue'[q] = queue[q],
           row'.status = "waiting_user" =>
             row' = row \/ results[row'.pending] = 0,
           \/ pc'[p] \notin {"answering", "tools", "storing", "requesting", "parking"}
           \/ pc[p] = "tools" /\ pc'[p] = "requesting" /\ queue'[p] = queue[p]
           \/ pc[p] = "requesting" /\ pc'[p] = "parking" /\ queue'[p] = queue[p]
    PROVE  ResultsFit'
BY DEF ResultsFit

\* A driver's copy says running, so that what it saves of it does too.
LEMMA CopyRuns ==
    ASSUME SoloInv, TypeOK, NEW p \in Procs,
           pc[p] \in {"approving", "resaving"} \cup (Driving \ {"finishing", "announcing"})
    PROVE  /\ local[p].status = "running"
           /\ \A D : [local[p] EXCEPT !.answered = @ \cup D].status = "running"
BY DEF SoloInv, StatusFits, TypeOK, Rows

\* Nothing is recorded twice in a step.
LEMMA ResultsNext ==
    ASSUME ~DuplicateResume, TypeOK, SoloInv, ResultsFit, [Next]_vars
    PROVE  ResultsFit'
<1>0. /\ pc \in [Procs -> Busy \cup {"idle", "leaving", "done"}]
      /\ local \in [Procs -> Rows] /\ queue \in [Procs -> Seq(Calls)]
      /\ target \in [Procs -> Calls \cup {NoCall}] /\ results \in [Calls -> Nat]
      /\ row \in Rows /\ nextCall \in Nat /\ MaxCalls \in Nat
      /\ OneBusy /\ RowFits /\ \A p \in Procs : StatusFits(p) /\ CopyFits(p)
  BY AgentAssumption DEF TypeOK, Busy, SoloInv
<1>1. ASSUME NEW p \in Procs, StartRun(p) PROVE ResultsFit'
  <2>1. /\ row'.status = "running" /\ pc' = [pc EXCEPT ![p] = "starting"]
        /\ UNCHANGED <<results, nextCall, target, queue>>
    BY <1>1 DEF StartRun, Goto, NoRow, envVars
  <2> QED BY <1>0, <2>1, ResultsKept
<1>2. ASSUME NEW p \in Procs, NEW c \in Calls, ResumeToolCall(p, c) PROVE ResultsFit'
  <2>1. /\ row.status = "waiting_user" /\ row.pending = c /\ \A q \in Procs : target[q] # c
        /\ target' = [target EXCEPT ![p] = c] /\ pc' = [pc EXCEPT ![p] = "answering"]
        /\ UNCHANGED <<row, results, nextCall, queue>>
    BY <1>2 DEF ResumeToolCall, Goto, dbVars, envVars
  <2>2. target'[p] = c /\ pc'[p] = "answering" /\ results[c] = 0
        /\ \A q \in Procs \ {p} : target'[q] = target[q] /\ pc'[q] = pc[q]
    BY <1>0, <2>1 DEF ResultsFit
  <2> QED BY <2>1, <2>2 DEF ResultsFit
<1>3. ASSUME NEW p \in Procs, ResumeResult(p) PROVE ResultsFit'
  <2>1. /\ pc[p] = "answering" /\ row.status # "cancelled"
        /\ results' = [results EXCEPT ![target[p]] = @ + 1]
        /\ pc' = [pc EXCEPT ![p] = "resuming"]
        /\ UNCHANGED <<row, nextCall, target, queue>>
    BY <1>3 DEF ResumeResult, CanWrite, RowOpen, Goto, envVars
  <2>2. row.pending = target[p] /\ row.status = "waiting_user"
    BY <1>0, <2>1 DEF StatusFits
  <2>3. target[p] \in Calls /\ target[p] < nextCall /\ results[target[p]] = 0
    BY <1>0, <2>1, <2>2 DEF RowFits, Paired, ResultsFit, TypeOK
  <2>4. \A c \in Calls : results'[c] = IF c = target[p] THEN 1 ELSE results[c]
    BY <1>0, <2>1, <2>3
  <2>5. pc'[p] = "resuming" /\ \A q \in Procs \ {p} : pc'[q] \notin Busy
    <3>1. pc[p] \in Busy /\ \A q \in Procs \ {p} : pc'[q] = pc[q]
      BY <1>0, <2>1 DEF Busy, Resuming
    <3> QED BY <1>0, <2>1, <3>1 DEF OneBusy
  <2>6. \A c \in Calls : results'[c] <= 1 /\ (c >= nextCall' => results'[c] = 0)
    BY <1>0, <2>1, <2>3, <2>4 DEF ResultsFit, Calls
  <2> QED BY <2>1, <2>2, <2>5, <2>6 DEF ResultsFit, Busy, Resuming, Driving
<1>4. ASSUME NEW p \in Procs, NEW n \in 1..CallsPerTurn, ModelToolCalls(p, n)
      PROVE  ResultsFit'
  <2>1. /\ pc[p] = "calling" /\ pc' = [pc EXCEPT ![p] = "tools"] /\ n \in Nat \ {0}
        /\ nextCall' = nextCall + n /\ nextCall + n - 1 <= MaxCalls
        /\ queue' = [queue EXCEPT ![p] = NewCalls(n)]
        /\ UNCHANGED <<row, results, target>>
    BY <1>4, AgentAssumption DEF ModelToolCalls, Goto, dbVars
  <2>2. /\ Len(NewCalls(n)) = n
        /\ \A i \in 1..n : NewCalls(n)[i] = nextCall + i - 1
    BY <2>1 DEF NewCalls
  <2>3. \A i \in 1..n : nextCall + i - 1 \in Calls /\ nextCall + i - 1 >= nextCall
    BY <1>0, <2>1 DEF Calls, TypeOK
  <2>4. \A i \in 1..Len(NewCalls(n)) : results[NewCalls(n)[i]] = 0
    BY <2>2, <2>3 DEF ResultsFit
  <2>5. \A c \in Calls : c >= nextCall' => c >= nextCall
    BY <1>0, <2>1 DEF Calls
  <2>6. /\ pc'[p] = "tools" /\ queue'[p] = NewCalls(n)
        /\ \A q \in Procs \ {p} : pc'[q] = pc[q] /\ queue'[q] = queue[q]
    BY <1>0, <2>1
  <2> QED BY <2>1, <2>4, <2>5, <2>6 DEF ResultsFit
<1>5. ASSUME NEW p \in Procs, ToolResult(p) PROVE ResultsFit'
  <2>1. /\ pc[p] = "tools" /\ row.status # "cancelled"
        /\ results' = [results EXCEPT ![Head(queue[p])] = @ + 1]
        /\ pc' = [pc EXCEPT ![p] = "storing"]
        /\ UNCHANGED <<row, nextCall, target, queue>>
    BY <1>5 DEF ToolResult, CanWrite, RowOpen, Goto, envVars
  <2> DEFINE h == Head(queue[p])
  <2>2. queue[p] \in Seq(Calls) /\ queue[p] # <<>>
    BY <1>0, <2>1 DEF TypeOK
  <2>3. h \in Calls /\ h = queue[p][1] /\ 1 \in 1..Len(queue[p]) /\ Len(queue[p]) \in Nat
    BY <2>2
  <2>4. QueueOpen(p) /\ Paired(local[p]) /\ row.status = "running"
    BY <1>0, <2>1 DEF CopyFits, StatusFits, Busy, Driving
  <2>5. h < nextCall /\ results[h] = 0
    BY <2>1, <2>3, <2>4 DEF QueueOpen, Paired, ResultsFit
  <2>6. \A i \in 2..Len(queue[p]) : queue[p][i] # h /\ queue[p][i] \in Calls
    BY <2>2, <2>3, <2>4 DEF QueueOpen
  <2>7. \A c \in Calls : results'[c] = IF c = h THEN 1 ELSE results[c]
    BY <1>0, <2>1, <2>3, <2>5
  <2> HIDE DEF h
  <2>8. \A c \in Calls : results'[c] <= 1 /\ (c >= nextCall' => results'[c] = 0)
    BY <1>0, <2>1, <2>3, <2>5, <2>7 DEF ResultsFit, Calls
  <2>9. \A i \in 2..Len(queue[p]) : results[queue[p][i]] = 0
    BY <2>1, <2>3 DEF ResultsFit
  <2>10. \A i \in 2..Len(queue'[p]) : results'[queue'[p][i]] = 0
    BY <2>1, <2>6, <2>7, <2>9
  <2>11. pc'[p] = "storing" /\ \A q \in Procs \ {p} : pc'[q] \notin Busy
    <3>1. pc[p] \in Busy /\ \A q \in Procs \ {p} : pc'[q] = pc[q]
      BY <1>0, <2>1 DEF Busy, Driving
    <3> QED BY <1>0, <2>1, <3>1 DEF OneBusy
  <2> QED BY <2>1, <2>4, <2>8, <2>10, <2>11 DEF ResultsFit, Busy, Resuming, Driving
<1>6. ASSUME NEW p \in Procs, ToolSave(p) \/ ToolFailed(p) PROVE ResultsFit'
  <2>1. /\ pc[p] \in {"tools", "storing"} /\ row' = WithToolMessage(p)
        /\ queue' = [queue EXCEPT ![p] = Tail(queue[p])]
        /\ pc' = [pc EXCEPT ![p] = IF Tail(queue[p]) = <<>> THEN "turn" ELSE "tools"]
        /\ UNCHANGED <<results, nextCall, target>>
    BY <1>6 DEF ToolSave, ToolFailed, StoreToolMessage, SaveRun, Remaining, Goto, envVars
  <2>2. row'.status = "running"
    BY <2>1, HeadAnswered
  <2>3. queue[p] \in Seq(Calls) /\ queue[p] # <<>>
    BY <1>0, <2>1 DEF TypeOK
  <2>4. \A i \in 1..Len(Tail(queue[p])) :
           Tail(queue[p])[i] = queue[p][i + 1] /\ i + 1 \in 2..Len(queue[p])
    BY <2>3
  <2>5. \A i \in 2..Len(queue[p]) : results[queue[p][i]] = 0
    BY <1>0, <2>1, <2>3 DEF ResultsFit
  <2>6. /\ pc'[p] \in {"turn", "tools"} /\ queue'[p] = Tail(queue[p])
        /\ \A q \in Procs \ {p} : pc'[q] = pc[q] /\ queue'[q] = queue[q]
    BY <1>0, <2>1
  <2>7. \A i \in 1..Len(queue'[p]) : results'[queue'[p][i]] = 0
    <3>1. \A i \in 1..Len(Tail(queue[p])) : results[Tail(queue[p])[i]] = 0
      BY <2>4, <2>5
    <3> QED BY <2>1, <2>6, <3>1
  <2>8. \A q \in Procs \ {p} :
          /\ pc'[q] = "answering" => results'[target'[q]] = 0
          /\ pc'[q] \in {"tools", "requesting", "parking"} =>
               \A i \in 1..Len(queue'[q]) : results'[queue'[q][i]] = 0
          /\ pc'[q] = "storing" => \A i \in 2..Len(queue'[q]) : results'[queue'[q][i]] = 0
    BY <2>1, <2>6 DEF ResultsFit
  <2>9. \A c \in Calls : results'[c] <= 1 /\ (c >= nextCall' => results'[c] = 0)
    BY <2>1 DEF ResultsFit
  <2> QED BY <2>2, <2>6, <2>7, <2>8, <2>9 DEF ResultsFit
<1>7. ASSUME NEW p \in Procs,
             AskUser(p) \/ RequestUserInput(p) \/ ParkRun(p)
      PROVE  ResultsFit'
  <2>1. CASE AskUser(p)
    <3>1. /\ pc[p] = "tools" /\ row' = local[p] /\ pc' = [pc EXCEPT ![p] = "requesting"]
          /\ UNCHANGED <<results, nextCall, target, queue>>
      BY <2>1 DEF AskUser, SaveRun, Goto, envVars
    <3>2. row'.status = "running"
      BY <3>1, CopyRuns DEF Driving
    <3> QED BY <1>0, <3>1, <3>2, ResultsKept
  <2>2. CASE RequestUserInput(p)
    <3>1. /\ pc[p] = "requesting" /\ pc' = [pc EXCEPT ![p] = "parking"]
          /\ UNCHANGED <<row, results, nextCall, target, queue>>
      BY <2>2 DEF RequestUserInput, Goto, envVars
    <3> QED BY <1>0, <3>1, ResultsKept
  <2>3. CASE ParkRun(p)
    <3>1. /\ pc[p] = "parking" /\ pc' = [pc EXCEPT ![p] = "leaving"]
          /\ row' = [local[p] EXCEPT !.status = "waiting_user", !.pending = Head(queue[p])]
          /\ queue' = [queue EXCEPT ![p] = <<>>]
          /\ UNCHANGED <<results, nextCall, target>>
      BY <2>3 DEF ParkRun, SaveRun, Goto, envVars
    <3>2. queue[p] \in Seq(Calls) /\ queue[p] # <<>>
      BY <1>0, <3>1 DEF TypeOK
    <3>3. Head(queue[p]) = queue[p][1] /\ 1 \in 1..Len(queue[p])
      BY <3>2
    <3>4. results[Head(queue[p])] = 0
      BY <3>1, <3>3 DEF ResultsFit
    <3>5. row'.pending = Head(queue[p])
      BY <1>0, <3>1 DEF Rows
    <3> QED BY <1>0, <3>1, <3>4, <3>5, ResultsKept
  <2> QED BY <1>7, <2>1, <2>2, <2>3
<1>8. ASSUME NEW p \in Procs,
             \/ RunStarted(p) \/ Approve(p) \/ Continue(p) \/ BeginTurn(p)
             \/ ModelFinalText(p) \/ ModelFails(p) \/ ToolAborts(p) \/ Announce(p)
             \/ Refused(p) \/ StatementFails(p)
      PROVE  ResultsFit'
  <2>1. /\ UNCHANGED <<row, results, nextCall, target, queue>>
        /\ \E to \in {"continue", "resaving", "registered", "reading", "turn", "leaving",
                      "done", "calling", "failing", "completing"} : pc' = [pc EXCEPT ![p] = to]
    BY <1>8 DEF RunStarted, Approve, Continue, Register, CancelPrevious, ReadRun, Unregister,
                BeginTurn, ModelFinalText, ModelFails, ToolAborts, Announce, Refused,
                StatementFails, Goto, dbVars, envVars
  <2> QED BY <1>0, <2>1, ResultsKept
<1>9. ASSUME NEW p \in Procs,
             \/ ResumeSave(p) \/ ResumeTranscript(p) \/ TranscriptFuse(p)
             \/ CompleteRun(p) \/ FailRun(p)
      PROVE  ResultsFit'
  <2>1. /\ UNCHANGED <<results, nextCall, target, queue>>
        /\ \E to \in {"approving", "continue", "failing", "finishing", "announcing"} :
             pc' = [pc EXCEPT ![p] = to]
    BY <1>9 DEF ResumeSave, ResumeTranscript, TranscriptFuse, CompleteRun, FailRun, CloseRun,
                Goto, envVars
  <2>2. row'.status # "waiting_user"
    <3>1. CASE ResumeSave(p) \/ CompleteRun(p) \/ FailRun(p)
      BY <1>0, <3>1 DEF ResumeSave, CompleteRun, FailRun, CloseRun, SaveRun, Rows
    <3>2. CASE ResumeTranscript(p)
      BY <3>2, CopyRuns DEF ResumeTranscript, SaveRun
    <3>3. CASE TranscriptFuse(p)
      BY <3>3, HeadAnswered DEF TranscriptFuse, SaveRun
    <3> QED BY <1>9, <3>1, <3>2, <3>3
  <2> QED BY <1>0, <2>1, <2>2, ResultsKept
<1>10. ASSUME NEW k \in Cancels, CancelOwned(k) PROVE ResultsFit'
  <2>1. UNCHANGED <<pc, target, queue, results, nextCall>>
    BY <1>10 DEF CancelOwned, CancelRun, FindActive, CancelActive, dbVars, procVars, envVars
  <2>2. row' = row \/ row'.status = "cancelled"
    BY <1>0, <1>10 DEF CancelOwned, CancelRun, FindActive, CancelActive, dbVars, Rows
  <2> QED BY <2>1, <2>2 DEF ResultsFit
<1>11. CASE Restart
  BY <1>11 DEF Restart, ResultsFit, dbVars
<1>12. CASE UNCHANGED vars
  BY <1>12 DEF vars, dbVars, procVars, envVars, ResultsFit
<1> QED
  BY <1>1, <1>2, <1>3, <1>4, <1>5, <1>6, <1>7, <1>8, <1>9, <1>10, <1>11, <1>12
     DEF Next, Request, Work, ResumeStep, LoopStep

\* docs/api-reference.md:176 holds of clients that do not send a resume twice: over
\* questions, failures, restarts and cancels a tool call gets at most one result.
THEOREM OneAnswer == ~DuplicateResume /\ Spec => []OneResultPerCall
<1>1. Init => ResultsFit
  BY AgentAssumption DEF Init, ResultsFit, NoRow
<1>2. ResultsFit => OneResultPerCall
  BY DEF ResultsFit, OneResultPerCall
<1>3. CASE DuplicateResume
  BY <1>3, PTL
<1>4. CASE ~DuplicateResume
  <2>1. TypeOK /\ SoloInv /\ ResultsFit /\ [Next]_vars => ResultsFit'
    BY <1>4, ResultsNext
  <2> QED BY <1>1, <1>2, <1>4, <2>1, TypeCorrect, SoloInvariance, PTL DEF Spec
<1> QED BY <1>3, <1>4
=============================================================================
