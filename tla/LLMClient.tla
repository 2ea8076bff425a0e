----------------------------- MODULE LLMClient -----------------------------
(***************************************************************************)
(* The model client of internal/platform/llm/openai.go: Complete with its  *)
(* attempts, waits, per-attempt deadline, body watchdog and cancellation,  *)
(* the circuit breaker all runs of the process share, and the telemetry    *)
(* Complete hands to RecordModelTelemetry before it returns.  The provider *)
(* may refuse, fail, stall, trickle or never answer; a telemetry write may *)
(* fail; the server may crash.                                             *)
(*                                                                         *)
(* Time is abstract: cooling says that openUntil is in the future, fresh   *)
(* that bytes arrived since the watchdog last ticked.                      *)
(***************************************************************************)
EXTENDS Naturals, Sequences, FiniteSets

CONSTANTS Calls,        \* goroutines that call Complete
          MaxAttempts,  \* maxAttempts of the client
          MaxFailures   \* maxFailures of the breaker

ASSUME LLMAssumption ==
    /\ IsFiniteSet(Calls) /\ MaxAttempts \in Nat \ {0} /\ MaxFailures \in Nat \ {0}

VARIABLES call,       \* the state of each call of Complete
          ledger,     \* research.llm_call events stored for the caller's last call
          failures,   \* callBreaker.failures
          cooling,    \* time.Now().Before(callBreaker.openUntil)
          streak,     \* failed calls recorded since the last success, at most MaxFailures
          burst       \* requests sent since the circuit was opened

breaker == <<failures, cooling>>
vars == <<call, ledger, failures, cooling, streak, burst>>

Pcs == {"idle", "request", "body", "wait", "emit", "record"}
Statuses == {"none", "ok", "busy", "rejected"}
Causes == {"timeout", "stalled", "reset", "refused", "cancelled", "invalid", "none"}
Verdicts == {"none", "failure", "success"}

\* Faulty form: attempts are numbered from zero.
AttemptFromZero(n, ok) == [attempt |-> n - 1, ok |-> ok]

\* One attempt as telemetry reports it.
Attempt(n, ok) == [attempt |-> n, ok |-> ok]

Attempts == [attempt : 1..MaxAttempts, ok : BOOLEAN]

Idle == [pc |-> "idle", attempt |-> 0, status |-> "none", fresh |-> FALSE,
         cancelled |-> FALSE, log |-> << >>, lastErr |-> "none", verdict |-> "none"]

Init == /\ call = [c \in Calls |-> Idle]
        /\ ledger = [c \in Calls |-> << >>]
        /\ failures = 0 /\ cooling = FALSE
        /\ streak = 0 /\ burst = 0

At(c, pc) == call[c].pc = pc
Go(c, new) == call' = [call EXCEPT ![c] = new]
Return(c) == Go(c, Idle)
-----------------------------------------------------------------------------
(***************************************************************************)
(* The circuit breaker.                                                    *)
(***************************************************************************)
Open == failures >= MaxFailures

\* Faulty form: the failures are not looked at.
allowAlways == TRUE

\* Past the cooldown the count starts again and every caller is let through.
allow == ~Open \/ ~cooling

AfterAllow == IF Open THEN 0 ELSE failures

\* A request goes out; while the circuit is open it is counted.
Sent == burst' = IF cooling THEN burst + 1 ELSE burst

\* Complete: the circuit is asked once, before the first attempt.
Complete(c) ==
    /\ At(c, "idle")
    /\ ledger' = [ledger EXCEPT ![c] = << >>]
    /\ IF allow
       THEN /\ Go(c, [Idle EXCEPT !.pc = "request", !.attempt = 1])
            /\ failures' = AfterAllow
            /\ Sent
       ELSE Go(c, [Idle EXCEPT !.pc = "emit"]) /\ UNCHANGED <<failures, burst>>
    /\ UNCHANGED <<cooling, streak>>

\* time passes openUntil.
CooldownElapses ==
    /\ cooling
    /\ cooling' = FALSE /\ burst' = 0
    /\ UNCHANGED <<call, ledger, failures, streak>>

\* Faulty form: one failed call opens the circuit.
recordFailureAtOnce ==
    /\ failures' = failures + 1
    /\ cooling' = TRUE
    /\ burst' = IF cooling THEN burst ELSE 0

recordFailure ==
    /\ failures' = failures + 1
    /\ cooling' = (cooling \/ failures + 1 >= MaxFailures)
    /\ burst' = IF cooling THEN burst ELSE 0

recordSuccess == failures' = 0 /\ cooling' = FALSE /\ burst' = 0
-----------------------------------------------------------------------------
(***************************************************************************)
(* One attempt: doRequest.                                                 *)
(***************************************************************************)

\* classifyCallError: an HTTP error is retryable by its status (408, 429, 500,
\* 502, 503, 504), whatever ended the read of its body; otherwise by the cause.
Retryable(status, cause) ==
    IF status \in {"busy", "rejected"} THEN status = "busy"
    ELSE cause \in {"timeout", "stalled", "reset"}

MayRetry(k, cause) == Retryable(k.status, cause) /\ k.attempt < MaxAttempts

\* The code of the ModelError.
Code(status, cause) == IF status \in {"busy", "rejected"} THEN status ELSE cause

\* The attempt failed: report it, then wait for the next one or give up.  A
\* cancelled call does not count against the provider.
Failed(c, cause) ==
    LET k == call[c]
        log == Append(k.log, Attempt(k.attempt, FALSE))
        retry == MayRetry(k, cause)
    IN  /\ Go(c, [k EXCEPT !.log = log, !.lastErr = Code(k.status, cause),
                           !.status = "none", !.fresh = FALSE,
                           !.pc = IF retry THEN "wait" ELSE "emit",
                           !.verdict = IF retry \/ cause = "cancelled" THEN "none" ELSE "failure"])
        /\ UNCHANGED <<ledger, failures, cooling, streak, burst>>

\* httpClient.Do fails before a response: connection reset, or for good.
TransportFails(c, cause) ==
    /\ At(c, "request") /\ cause \in {"reset", "refused"}
    /\ Failed(c, cause)

Headers(c, status) ==
    /\ At(c, "request") /\ status # "none"
    /\ Go(c, [call[c] EXCEPT !.pc = "body", !.status = status])
    /\ UNCHANGED <<ledger, failures, cooling, streak, burst>>

\* progressReader.Read touches the progress.
BytesArrive(c) ==
    /\ At(c, "body") /\ ~call[c].fresh
    /\ Go(c, [call[c] EXCEPT !.fresh = TRUE])
    /\ UNCHANGED <<ledger, failures, cooling, streak, burst>>

\* The body ends: a usable answer, an answer that does not parse, or the
\* connection breaks; the body of an HTTP error is only read.
BodyEnds(c, cause) ==
    /\ At(c, "body") /\ cause \in {"none", "invalid", "reset"}
    /\ IF call[c].status = "ok" /\ cause = "none"
       THEN /\ Go(c, [call[c] EXCEPT !.pc = "emit", !.status = "none", !.fresh = FALSE,
                                     !.log = Append(@, Attempt(call[c].attempt, TRUE)), !.lastErr = "none",
                                     !.verdict = "success"])
            /\ UNCHANGED <<ledger, failures, cooling, streak, burst>>
       ELSE Failed(c, cause)

\* readWithWatchdog: no byte since the last tick.
WatchdogTicks(c) ==
    /\ At(c, "body")
    /\ IF call[c].fresh
       THEN /\ Go(c, [call[c] EXCEPT !.fresh = FALSE])
            /\ UNCHANGED <<ledger, failures, cooling, streak, burst>>
       ELSE Failed(c, "stalled")

\* Faulty form: the deadline covers the time to the response headers only.
HeadersTimeOut(c) == At(c, "request") /\ Failed(c, "timeout")

AttemptTimesOut(c) ==
    /\ call[c].pc \in {"request", "body"}
    /\ Failed(c, "timeout")

\* The caller cancels the run's context; the attempt notices.
Cancel(c) ==
    /\ call[c].pc \in {"request", "body", "wait"} /\ ~call[c].cancelled
    /\ Go(c, [call[c] EXCEPT !.cancelled = TRUE])
    /\ UNCHANGED <<ledger, failures, cooling, streak, burst>>

CancelEndsAttempt(c) ==
    /\ call[c].pc \in {"request", "body"} /\ call[c].cancelled
    /\ Failed(c, "cancelled")

\* Between two attempts: the timer, or the context.
Retry(c) ==
    /\ At(c, "wait")
    /\ Go(c, [call[c] EXCEPT !.pc = "request", !.attempt = @ + 1, !.lastErr = "none"])
    /\ Sent
    /\ UNCHANGED <<ledger, failures, cooling, streak>>

CancelEndsWait(c) ==
    /\ At(c, "wait") /\ call[c].cancelled
    /\ Go(c, [call[c] EXCEPT !.pc = "emit"])
    /\ UNCHANGED <<ledger, failures, cooling, streak, burst>>
-----------------------------------------------------------------------------
(***************************************************************************)
(* EmitTelemetry, with the context's cancellation removed: one event for   *)
(* each attempt (RecordModelTelemetry), then the run's cost.  Any write    *)
(* may fail; then Complete returns that error and the breaker hears        *)
(* nothing.                                                                *)
(***************************************************************************)
Unreported(c) == Len(ledger[c]) < Len(call[c].log)

RecordAttempt(c) ==
    /\ At(c, "emit") /\ Unreported(c)
    /\ ledger' = [ledger EXCEPT ![c] = Append(@, call[c].log[Len(@) + 1])]
    /\ UNCHANGED <<call, failures, cooling, streak, burst>>

EmitFails(c) ==
    /\ At(c, "emit") /\ call[c].log # << >>
    /\ Return(c)
    /\ UNCHANGED <<ledger, failures, cooling, streak, burst>>

Reported(c) == ~Unreported(c)

EmitDone(c) ==
    /\ At(c, "emit") /\ Reported(c)
    /\ IF call[c].verdict = "none" THEN Return(c)
       ELSE Go(c, [call[c] EXCEPT !.pc = "record"])
    /\ UNCHANGED <<ledger, failures, cooling, streak, burst>>

\* The breaker learns of the outcome and Complete returns it.
RecordOutcome(c) ==
    /\ At(c, "record")
    /\ IF call[c].verdict = "success"
       THEN recordSuccess /\ streak' = 0
       ELSE recordFailure /\ streak' = IF streak < MaxFailures THEN streak + 1 ELSE streak
    /\ Return(c)
    /\ UNCHANGED ledger

\* The process dies: calls and breaker are memory, events are not.
Crash ==
    /\ call' = [c \in Calls |-> Idle]
    /\ failures' = 0 /\ cooling' = FALSE /\ streak' = 0 /\ burst' = 0
    /\ UNCHANGED ledger
-----------------------------------------------------------------------------
Provider(c) ==
    \/ \E cause \in Causes : TransportFails(c, cause) \/ BodyEnds(c, cause)
    \/ \E status \in Statuses : Headers(c, status)
    \/ BytesArrive(c)

\* What the client does by itself, timers included.
Client(c) ==
    \/ WatchdogTicks(c) \/ AttemptTimesOut(c) \/ CancelEndsAttempt(c)
    \/ Retry(c) \/ CancelEndsWait(c)
    \/ RecordAttempt(c) \/ EmitFails(c) \/ EmitDone(c) \/ RecordOutcome(c)

Next == \/ \E c \in Calls : Complete(c) \/ Provider(c) \/ Client(c) \/ Cancel(c)
        \/ CooldownElapses
        \/ Crash

Spec == Init /\ [][Next]_vars

(***************************************************************************)
(* The deadline of an attempt fires even while bytes keep coming, a timer  *)
(* and a goroutine that can go on do so, the cooldown ends.  Nothing is    *)
(* assumed of the provider or of the caller.                               *)
(***************************************************************************)
Fairness ==
    /\ \A c \in Calls : /\ WF_vars(AttemptTimesOut(c)) /\ WF_vars(Retry(c))
                        /\ WF_vars(RecordAttempt(c)) /\ WF_vars(EmitDone(c))
                        /\ WF_vars(RecordOutcome(c))
    /\ WF_vars(CooldownElapses)

FairSpec == Spec /\ Fairness
-----------------------------------------------------------------------------
TypeOK ==
    /\ call \in [Calls -> [pc : Pcs, attempt : 0..MaxAttempts, status : Statuses,
                           fresh : BOOLEAN, cancelled : BOOLEAN, log : Seq(Attempts),
                           lastErr : Causes \cup Statuses, verdict : Verdicts]]
    /\ ledger \in [Calls -> Seq(Attempts)]
    /\ failures \in Nat /\ cooling \in BOOLEAN
    /\ streak \in 0..MaxFailures /\ burst \in Nat

(***************************************************************************)
(* What validateModelAttempts of internal/research demands of the events   *)
(* of one logical call, or the whole run can never be measured: attempts   *)
(* 1, 2, ... without gap or repetition, and only the last one succeeded.   *)
(* It must hold at any time, since a write may fail and the server may die *)
(* between two events.                                                     *)
(***************************************************************************)
RecordedAttemptsContiguous ==
    \A c \in Calls : \A i \in 1..Len(ledger[c]) :
        /\ ledger[c][i].attempt = i
        /\ ledger[c][i].ok => i = Len(ledger[c])

(***************************************************************************)
(* Complete emits before it returns: an outcome the breaker or the agent   *)
(* loop sees belongs to a call whose every attempt is in the event log, so *)
(* the run's cost is never counted short by a call that was used.          *)
(***************************************************************************)
UsedMeansReported ==
    \A c \in Calls : At(c, "record") =>
        Len(ledger[c]) = call[c].attempt /\ call[c].attempt > 0

(***************************************************************************)
(* The breaker is shared and hears of outcomes late, from calls admitted   *)
(* before it opened: it is never open without MaxFailures failed calls     *)
(* since the last success.                                                 *)
(***************************************************************************)
OpenedByFailures == cooling => streak = MaxFailures

(***************************************************************************)
(* An open circuit takes the load off the provider: while it stays open    *)
(* only the calls already admitted go on, each with its own further        *)
(* attempts.                                                               *)
(***************************************************************************)
OpenCircuitBoundsLoad ==
    cooling => burst <= (Cardinality(Calls) - 1) * (MaxAttempts - 1)

(***************************************************************************)
(* Whatever the provider does, and while other calls go on, Complete       *)
(* returns: every attempt has its deadline and there are finitely many.    *)
(***************************************************************************)
CallReturns == \A c \in Calls : ~At(c, "idle") ~> At(c, "idle")
=============================================================================
