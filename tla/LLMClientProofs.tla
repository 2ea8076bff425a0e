-------------------------- MODULE LLMClientProofs --------------------------
(***************************************************************************)
(* Proofs about LLMClient for any number of concurrent calls, attempts and *)
(* failures.  A call is proved about by itself, as the pair of its state   *)
(* and of the events stored for it: no step of another call touches them.  *)
(***************************************************************************)
EXTENDS LLMClient, FiniteSetTheorems, TLAPS

CallStates == [pc : Pcs, attempt : 0..MaxAttempts, status : Statuses,
               fresh : BOOLEAN, cancelled : BOOLEAN, log : Seq(Attempts),
               lastErr : Causes \cup Statuses, verdict : Verdicts]

\* Attempts 1, 2, ..., and only the last one succeeded.
Contiguous(s) ==
    \A i \in 1..Len(s) : s[i].attempt = i /\ (s[i].ok => i = Len(s))

AllFailed(s) == \A i \in 1..Len(s) : ~s[i].ok

\* How far a call is, what it has noted and what is stored of it.
Progress(k, stored) ==
    /\ k.pc \in {"request", "body"} => k.attempt >= 1 /\ Len(k.log) = k.attempt - 1
    /\ k.pc \in {"wait", "emit", "record"} => Len(k.log) = k.attempt
    /\ k.pc = "wait" => k.attempt >= 1 /\ k.attempt < MaxAttempts
    /\ k.pc \in {"request", "body", "wait"} => stored = << >> /\ AllFailed(k.log)
    /\ k.pc = "emit" => /\ Len(stored) <= Len(k.log)
                        /\ \A i \in 1..Len(stored) : stored[i] = k.log[i]
                        /\ k.verdict # "none" => k.attempt >= 1
    /\ k.pc = "record" => k.attempt >= 1 /\ Len(stored) = k.attempt

Shape(k, stored) ==
    /\ k \in CallStates /\ stored \in Seq(Attempts)
    /\ Contiguous(k.log) /\ Contiguous(stored)
    /\ Progress(k, stored)

CallsShape ==
    /\ call \in [Calls -> CallStates] /\ ledger \in [Calls -> Seq(Attempts)]
    /\ \A c \in Calls : Shape(call[c], ledger[c])

\* The breaker's count lags behind the failed calls, and it opened for a reason.
BreakerShape ==
    /\ failures \in Nat /\ cooling \in BOOLEAN
    /\ streak \in 0..MaxFailures /\ burst \in Nat
    /\ streak < MaxFailures => failures <= streak
    /\ cooling => streak = MaxFailures

IInv == CallsShape /\ BreakerShape

-----------------------------------------------------------------------------
(* One call                                                                *)

\* A call that has not begun has nothing noted.
LEMMA IdleShape ==
    ASSUME NEW stored \in Seq(Attempts), Contiguous(stored)
    PROVE  Shape(Idle, stored)
<1>1. Idle \in CallStates
  BY LLMAssumption DEF Idle, CallStates, Pcs, Statuses, Causes, Verdicts
<1>2. Contiguous(Idle.log)
  BY DEF Idle, Contiguous
<1>3. Progress(Idle, stored)
  BY DEF Idle, Progress
<1> QED BY <1>1, <1>2, <1>3 DEF Shape

\* The empty list of attempts is contiguous.
LEMMA NothingStored == << >> \in Seq(Attempts) /\ Contiguous(<< >>) /\ AllFailed(<< >>)
BY DEF Contiguous, AllFailed

\* Noting the attempt that follows failed ones keeps the list contiguous.
LEMMA NoteAttempt ==
    ASSUME NEW s \in Seq(Attempts), Contiguous(s), AllFailed(s),
           Len(s) + 1 \in 1..MaxAttempts, NEW ok \in BOOLEAN
    PROVE  LET t == Append(s, Attempt(Len(s) + 1, ok)) IN
           /\ t \in Seq(Attempts) /\ Len(t) = Len(s) + 1
           /\ Contiguous(t) /\ (ok = FALSE => AllFailed(t))
<1> DEFINE a == Attempt(Len(s) + 1, ok)
           t == Append(s, a)
<1>1. a \in Attempts /\ a.attempt = Len(s) + 1 /\ a.ok = ok
  BY DEF Attempt, Attempts
<1> HIDE DEF a
<1>2. t \in Seq(Attempts) /\ Len(t) = Len(s) + 1
  BY <1>1
<1>3. \A i \in 1..Len(t) : IF i = Len(t) THEN t[i] = a ELSE i \in 1..Len(s) /\ t[i] = s[i]
  BY <1>1, <1>2
<1> HIDE DEF t
<1>4. Contiguous(t)
  BY <1>1, <1>2, <1>3 DEF Contiguous, AllFailed
<1>5. ok = FALSE => AllFailed(t)
  BY <1>1, <1>2, <1>3 DEF AllFailed
<1> QED BY <1>2, <1>4, <1>5 DEF t, a

\* A step of one call, with the new state and events in shape.
LEMMA OneCall ==
    ASSUME CallsShape, NEW c \in Calls, NEW k, NEW s, Shape(k, s),
           call' = [call EXCEPT ![c] = k], ledger' = [ledger EXCEPT ![c] = s]
    PROVE  CallsShape'
<1>1. call' \in [Calls -> CallStates] /\ ledger' \in [Calls -> Seq(Attempts)]
  BY DEF CallsShape, Shape
<1>2. \A d \in Calls : Shape(call'[d], ledger'[d])
  <2> SUFFICES ASSUME NEW d \in Calls PROVE Shape(call'[d], ledger'[d]) OBVIOUS
  <2>1. CASE d = c
    <3>1. call'[d] = k /\ ledger'[d] = s
      BY <2>1 DEF CallsShape
    <3> QED BY <3>1
  <2>2. CASE d # c
    <3>1. call'[d] = call[d] /\ ledger'[d] = ledger[d]
      BY <2>2 DEF CallsShape
    <3> QED BY <3>1 DEF CallsShape
  <2> QED BY <2>1, <2>2
<1> QED BY <1>1, <1>2 DEF CallsShape

\* A step of one call that stores nothing.
LEMMA OneCallOnly ==
    ASSUME CallsShape, NEW c \in Calls, NEW k, Shape(k, ledger[c]),
           Go(c, k), UNCHANGED ledger
    PROVE  CallsShape'
<1>1. ledger' = [ledger EXCEPT ![c] = ledger[c]]
  BY DEF CallsShape
<1>2. call' = [call EXCEPT ![c] = k]
  BY DEF Go
<1> QED BY <1>1, <1>2, OneCall

\* Complete may return at any time.
LEMMA ReturnKeeps ==
    ASSUME CallsShape, NEW c \in Calls, Return(c), UNCHANGED ledger
    PROVE  CallsShape'
<1>1. Shape(Idle, ledger[c])
  BY IdleShape DEF CallsShape, Shape
<1> QED BY <1>1, OneCallOnly DEF Return

\* A failed attempt is noted under its number.
LEMMA FailedKeeps ==
    ASSUME CallsShape, NEW c \in Calls, call[c].pc \in {"request", "body"},
           NEW cause \in Causes, Failed(c, cause)
    PROVE  CallsShape' /\ UNCHANGED <<failures, cooling, streak, burst>>
<1> DEFINE k == call[c]
           log == Append(k.log, Attempt(k.attempt, FALSE))
           retry == MayRetry(k, cause)
           new == [k EXCEPT !.log = log, !.lastErr = Code(k.status, cause),
                            !.status = "none", !.fresh = FALSE,
                            !.pc = IF retry THEN "wait" ELSE "emit",
                            !.verdict = IF retry \/ cause = "cancelled" THEN "none" ELSE "failure"]
<1>1. k \in CallStates /\ Shape(k, ledger[c])
  BY DEF CallsShape
<1>2. /\ k.log \in Seq(Attempts) /\ Contiguous(k.log) /\ AllFailed(k.log)
      /\ k.attempt \in 1..MaxAttempts /\ Len(k.log) + 1 = k.attempt
      /\ ledger[c] = << >> /\ ledger[c] \in Seq(Attempts)
  BY <1>1, LLMAssumption DEF Shape, Progress, CallStates
<1>3. /\ log \in Seq(Attempts) /\ Len(log) = k.attempt
      /\ Contiguous(log) /\ AllFailed(log)
  BY <1>2, NoteAttempt
<1>4. retry => k.attempt < MaxAttempts
  BY DEF MayRetry
<1>5. Code(k.status, cause) \in Causes \cup Statuses
  BY <1>1 DEF Code, CallStates
<1> HIDE DEF retry, log
<1>6. new \in CallStates
  BY <1>1, <1>3, <1>5 DEF CallStates, Pcs, Verdicts, Statuses
<1>7. /\ new.log = log /\ new.attempt = k.attempt
      /\ new.pc = IF retry THEN "wait" ELSE "emit"
  BY <1>1 DEF CallStates
<1> HIDE DEF new, k
<1>8. Progress(new, ledger[c])
  BY <1>2, <1>3, <1>4, <1>7 DEF Progress
<1>9. Shape(new, ledger[c])
  BY <1>2, <1>3, <1>6, <1>7, <1>8, NothingStored DEF Shape
<1>10. Go(c, new) /\ UNCHANGED <<ledger, failures, cooling, streak, burst>>
  BY DEF Failed, new, log, retry, k
<1>11. UNCHANGED ledger /\ UNCHANGED <<failures, cooling, streak, burst>>
  BY <1>10
<1> QED BY <1>9, <1>10, <1>11, OneCallOnly

\* The first attempt, or a refusal by the breaker.
LEMMA CompleteKeeps ==
    ASSUME CallsShape, NEW c \in Calls, Complete(c)
    PROVE  CallsShape'
<1> DEFINE k1 == [Idle EXCEPT !.pc = "request", !.attempt = 1]
           k2 == [Idle EXCEPT !.pc = "emit"]
<1>1. ledger' = [ledger EXCEPT ![c] = << >>]
  BY DEF Complete
<1>2. Idle \in CallStates /\ Idle.log = << >> /\ Idle.attempt = 0 /\ Idle.verdict = "none"
  BY IdleShape, NothingStored DEF Shape, Idle
<1>3. Shape(k1, << >>)
  <2>0. 1 \in 0..MaxAttempts
    BY LLMAssumption
  <2>1. k1 \in CallStates
    BY <1>2, <2>0 DEF CallStates, Pcs
  <2>2. k1.pc = "request" /\ k1.attempt = 1 /\ k1.log = << >>
    BY <1>2 DEF CallStates
  <2> HIDE DEF k1
  <2>3. Progress(k1, << >>)
    BY <2>2, NothingStored DEF Progress
  <2> QED BY <2>1, <2>2, <2>3, NothingStored DEF Shape
<1>4. Shape(k2, << >>)
  <2>1. k2 \in CallStates
    BY <1>2 DEF CallStates, Pcs
  <2>2. k2.pc = "emit" /\ k2.attempt = 0 /\ k2.log = << >> /\ k2.verdict = "none"
    BY <1>2 DEF CallStates
  <2> HIDE DEF k2
  <2>3. Progress(k2, << >>)
    BY <2>2, NothingStored DEF Progress
  <2> QED BY <2>1, <2>2, <2>3, NothingStored DEF Shape
<1>5. Go(c, k1) \/ Go(c, k2)
  BY DEF Complete
<1> HIDE DEF k1, k2
<1> QED BY <1>1, <1>3, <1>4, <1>5, OneCall DEF Go

\* A step of a call that changes neither its list nor how far it is.
LEMMA SameProgress ==
    ASSUME CallsShape, NEW c \in Calls, NEW new \in CallStates, Go(c, new), UNCHANGED ledger,
           new.log = call[c].log, new.attempt = call[c].attempt, new.verdict = call[c].verdict,
           \/ new.pc = call[c].pc
           \/ new.pc = "body" /\ call[c].pc = "request"
           \/ new.pc = "emit" /\ call[c].pc = "wait"
    PROVE  CallsShape'
<1>1. Shape(call[c], ledger[c])
  BY DEF CallsShape
<1>2. Progress(new, ledger[c])
  <2>1. CASE new.pc = call[c].pc
    BY <1>1, <2>1 DEF Shape, Progress
  <2>2. CASE new.pc = "body" /\ call[c].pc = "request"
    BY <1>1, <2>2 DEF Shape, Progress
  <2>3. CASE new.pc = "emit" /\ call[c].pc = "wait"
    <3>1. ledger[c] = << >> /\ call[c].attempt >= 1 /\ Len(call[c].log) = call[c].attempt
      BY <1>1, <2>3 DEF Shape, Progress
    <3> QED BY <2>3, <3>1 DEF Progress
  <2> QED BY <2>1, <2>2, <2>3
<1>3. Shape(new, ledger[c])
  BY <1>1, <1>2 DEF Shape
<1> QED BY <1>3, OneCallOnly

\* The answer arrives in parts, or the caller cancels.
LEMMA WaitingKeeps ==
    ASSUME CallsShape, NEW c \in Calls, NEW st \in Statuses,
           Headers(c, st) \/ BytesArrive(c) \/ Cancel(c) \/ CancelEndsWait(c)
    PROVE  CallsShape' /\ UNCHANGED <<failures, cooling, streak, burst>>
<1>1. call[c] \in CallStates
  BY DEF CallsShape
<1>2. CASE Headers(c, st)
  <2> DEFINE new == [call[c] EXCEPT !.pc = "body", !.status = st]
  <2>1. Go(c, new) /\ call[c].pc = "request"
    BY <1>2 DEF Headers, At
  <2>2. /\ new \in CallStates /\ new.log = call[c].log /\ new.attempt = call[c].attempt
        /\ new.verdict = call[c].verdict /\ new.pc = "body"
    BY <1>1 DEF CallStates, Pcs
  <2>3. UNCHANGED ledger /\ UNCHANGED <<failures, cooling, streak, burst>>
    BY <1>2 DEF Headers
  <2> HIDE DEF new
  <2> QED BY <2>1, <2>2, <2>3, SameProgress
<1>3. CASE BytesArrive(c)
  <2> DEFINE new == [call[c] EXCEPT !.fresh = TRUE]
  <2>1. Go(c, new)
    BY <1>3 DEF BytesArrive
  <2>2. /\ new \in CallStates /\ new.log = call[c].log /\ new.attempt = call[c].attempt
        /\ new.verdict = call[c].verdict /\ new.pc = call[c].pc
    BY <1>1 DEF CallStates
  <2>3. UNCHANGED ledger /\ UNCHANGED <<failures, cooling, streak, burst>>
    BY <1>3 DEF BytesArrive
  <2> HIDE DEF new
  <2> QED BY <2>1, <2>2, <2>3, SameProgress
<1>4. CASE Cancel(c)
  <2> DEFINE new == [call[c] EXCEPT !.cancelled = TRUE]
  <2>1. Go(c, new)
    BY <1>4 DEF Cancel
  <2>2. /\ new \in CallStates /\ new.log = call[c].log /\ new.attempt = call[c].attempt
        /\ new.verdict = call[c].verdict /\ new.pc = call[c].pc
    BY <1>1 DEF CallStates
  <2>3. UNCHANGED ledger /\ UNCHANGED <<failures, cooling, streak, burst>>
    BY <1>4 DEF Cancel
  <2> HIDE DEF new
  <2> QED BY <2>1, <2>2, <2>3, SameProgress
<1>5. CASE CancelEndsWait(c)
  <2> DEFINE new == [call[c] EXCEPT !.pc = "emit"]
  <2>1. Go(c, new) /\ call[c].pc = "wait"
    BY <1>5 DEF CancelEndsWait, At
  <2>2. /\ new \in CallStates /\ new.log = call[c].log /\ new.attempt = call[c].attempt
        /\ new.verdict = call[c].verdict /\ new.pc = "emit"
    BY <1>1 DEF CallStates, Pcs
  <2>3. UNCHANGED ledger /\ UNCHANGED <<failures, cooling, streak, burst>>
    BY <1>5 DEF CancelEndsWait
  <2> HIDE DEF new
  <2> QED BY <2>1, <2>2, <2>3, SameProgress
<1> QED BY <1>2, <1>3, <1>4, <1>5

\* A usable answer is noted as the last attempt.
LEMMA BodyEndsKeeps ==
    ASSUME CallsShape, NEW c \in Calls, NEW cause \in Causes, BodyEnds(c, cause)
    PROVE  CallsShape' /\ UNCHANGED <<failures, cooling, streak, burst>>
<1> DEFINE k == call[c]
           log == Append(k.log, Attempt(k.attempt, TRUE))
           new == [k EXCEPT !.pc = "emit", !.status = "none", !.fresh = FALSE,
                            !.log = log, !.lastErr = "none", !.verdict = "success"]
<1>1. k \in CallStates /\ Shape(k, ledger[c]) /\ k.pc = "body"
  BY DEF CallsShape, BodyEnds, At
<1>2. CASE Failed(c, cause)
  BY <1>1, <1>2, FailedKeeps
<1>3. CASE Go(c, new) /\ UNCHANGED <<ledger, failures, cooling, streak, burst>>
  <2>1. /\ k.log \in Seq(Attempts) /\ Contiguous(k.log) /\ AllFailed(k.log)
        /\ k.attempt \in 1..MaxAttempts /\ Len(k.log) + 1 = k.attempt
        /\ ledger[c] = << >> /\ ledger[c] \in Seq(Attempts)
    BY <1>1, LLMAssumption DEF Shape, Progress, CallStates
  <2>2. log \in Seq(Attempts) /\ Len(log) = k.attempt /\ Contiguous(log)
    BY <2>1, NoteAttempt
  <2> HIDE DEF log
  <2>3. new \in CallStates
    BY <1>1, <2>2 DEF CallStates, Pcs, Verdicts, Statuses, Causes
  <2>4. new.log = log /\ new.attempt = k.attempt /\ new.pc = "emit"
    BY <1>1 DEF CallStates
  <2> HIDE DEF new, k
  <2>5. Progress(new, ledger[c])
    BY <2>1, <2>2, <2>4 DEF Progress
  <2>6. Shape(new, ledger[c])
    BY <2>1, <2>2, <2>3, <2>4, <2>5, NothingStored DEF Shape
  <2>7. UNCHANGED ledger /\ UNCHANGED <<failures, cooling, streak, burst>>
    BY <1>3
  <2> QED BY <1>3, <2>6, <2>7, OneCallOnly
<1>4. Failed(c, cause) \/ (Go(c, new) /\ UNCHANGED <<ledger, failures, cooling, streak, burst>>)
  BY DEF BodyEnds
<1> QED BY <1>2, <1>3, <1>4

\* The watchdog finds fresh bytes or ends the attempt.
LEMMA WatchdogKeeps ==
    ASSUME CallsShape, NEW c \in Calls, WatchdogTicks(c)
    PROVE  CallsShape' /\ UNCHANGED <<failures, cooling, streak, burst>>
<1> DEFINE new == [call[c] EXCEPT !.fresh = FALSE]
<1>1. call[c] \in CallStates /\ call[c].pc = "body"
  BY DEF CallsShape, WatchdogTicks, At
<1>2. CASE Failed(c, "stalled")
  BY <1>1, <1>2, FailedKeeps DEF Causes
<1>3. CASE Go(c, new) /\ UNCHANGED <<ledger, failures, cooling, streak, burst>>
  <2>1. /\ new \in CallStates /\ new.log = call[c].log /\ new.attempt = call[c].attempt
        /\ new.verdict = call[c].verdict /\ new.pc = call[c].pc
    BY <1>1 DEF CallStates
  <2>2. UNCHANGED ledger /\ UNCHANGED <<failures, cooling, streak, burst>>
    BY <1>3
  <2> HIDE DEF new
  <2> QED BY <1>3, <2>1, <2>2, SameProgress
<1>4. Failed(c, "stalled") \/ (Go(c, new) /\ UNCHANGED <<ledger, failures, cooling, streak, burst>>)
  BY DEF WatchdogTicks
<1> QED BY <1>2, <1>3, <1>4

\* The next attempt.
LEMMA RetryKeeps ==
    ASSUME CallsShape, NEW c \in Calls, Retry(c)
    PROVE  CallsShape'
<1> DEFINE k == call[c]
           new == [k EXCEPT !.pc = "request", !.attempt = @ + 1, !.lastErr = "none"]
<1>1. k \in CallStates /\ Shape(k, ledger[c]) /\ k.pc = "wait"
  BY DEF CallsShape, Retry, At
<1>2. /\ k.attempt \in Nat /\ k.attempt >= 1 /\ k.attempt < MaxAttempts
      /\ Len(k.log) = k.attempt
      /\ ledger[c] = << >> /\ AllFailed(k.log) /\ Contiguous(k.log)
  BY <1>1 DEF Shape, Progress, CallStates
<1>3. new \in CallStates
  <2>1. k.attempt + 1 \in 0..MaxAttempts
    BY <1>2, LLMAssumption
  <2> QED BY <1>1, <2>1 DEF CallStates, Pcs, Causes, Statuses
<1>4. new.log = k.log /\ new.attempt = k.attempt + 1 /\ new.pc = "request"
  BY <1>1 DEF CallStates
<1>5. Go(c, new) /\ UNCHANGED ledger
  BY DEF Retry
<1> HIDE DEF new, k
<1>6. Progress(new, ledger[c])
  BY <1>2, <1>4 DEF Progress
<1>7. Shape(new, ledger[c])
  BY <1>2, <1>3, <1>4, <1>6, NothingStored DEF Shape
<1> QED BY <1>5, <1>7, OneCallOnly

\* Events are stored in the order they were noted.
LEMMA RecordAttemptKeeps ==
    ASSUME CallsShape, NEW c \in Calls, RecordAttempt(c)
    PROVE  CallsShape'
<1> DEFINE k == call[c]
           old == ledger[c]
           new == Append(old, k.log[Len(old) + 1])
<1>1. /\ k \in CallStates /\ Shape(k, old) /\ k.pc = "emit" /\ old \in Seq(Attempts)
      /\ k.log \in Seq(Attempts)
  BY DEF CallsShape, RecordAttempt, At, Shape, CallStates
<1>2. Len(old) < Len(k.log) /\ \A i \in 1..Len(old) : old[i] = k.log[i]
  BY <1>1 DEF RecordAttempt, Unreported, Shape, Progress
<1>3. Len(old) + 1 \in 1..Len(k.log) /\ k.log[Len(old) + 1] \in Attempts
  BY <1>1, <1>2
<1>4. new \in Seq(Attempts) /\ Len(new) = Len(old) + 1
  BY <1>1, <1>3
<1>5. \A i \in 1..Len(new) : new[i] = k.log[i]
  BY <1>1, <1>2, <1>3, <1>4
<1>6. call' = [call EXCEPT ![c] = k] /\ ledger' = [ledger EXCEPT ![c] = new]
  BY DEF RecordAttempt, CallsShape
<1>7. Contiguous(k.log) /\ (k.verdict # "none" => k.attempt >= 1) /\ Len(k.log) = k.attempt
  BY <1>1 DEF Shape, Progress
<1> HIDE DEF new, k, old
<1>8. Contiguous(new)
  BY <1>1, <1>2, <1>4, <1>5, <1>7 DEF Contiguous
<1>9. Progress(k, new)
  BY <1>1, <1>2, <1>4, <1>5, <1>7 DEF Progress
<1>10. Shape(k, new)
  BY <1>1, <1>4, <1>7, <1>8, <1>9 DEF Shape
<1> QED BY <1>6, <1>10, OneCall

\* Everything noted is stored when Complete goes on.
LEMMA EmitDoneKeeps ==
    ASSUME CallsShape, NEW c \in Calls, EmitDone(c)
    PROVE  CallsShape'
<1> DEFINE k == call[c]
           new == [k EXCEPT !.pc = "record"]
<1>1. UNCHANGED ledger
  BY DEF EmitDone
<1>2. CASE Return(c)
  BY <1>1, <1>2, ReturnKeeps
<1>3. CASE Go(c, new) /\ k.verdict # "none"
  <2>1. k \in CallStates /\ Shape(k, ledger[c]) /\ k.pc = "emit"
    BY DEF CallsShape, EmitDone, At
  <2>2. /\ k.log \in Seq(Attempts) /\ ledger[c] \in Seq(Attempts)
        /\ k.attempt >= 1 /\ Len(k.log) = k.attempt /\ Len(ledger[c]) <= Len(k.log)
    BY <1>3, <2>1 DEF Shape, Progress, CallStates
  <2>3. Len(ledger[c]) = k.attempt
    BY <2>2 DEF EmitDone, Reported, Unreported
  <2>4. new \in CallStates /\ new.log = k.log /\ new.attempt = k.attempt /\ new.pc = "record"
    BY <2>1 DEF CallStates, Pcs
  <2> HIDE DEF new, k
  <2>5. Progress(new, ledger[c])
    BY <2>2, <2>3, <2>4 DEF Progress
  <2>6. Shape(new, ledger[c])
    BY <2>1, <2>4, <2>5 DEF Shape
  <2> QED BY <1>1, <1>3, <2>6, OneCallOnly
<1> QED BY <1>2, <1>3 DEF EmitDone

\* A crash leaves the events.
LEMMA CrashKeeps ==
    ASSUME CallsShape, Crash
    PROVE  CallsShape'
<1>1. \A c \in Calls : Shape(Idle, ledger[c])
  BY IdleShape DEF CallsShape, Shape
<1>2. Idle \in CallStates
  BY IdleShape, NothingStored DEF Shape
<1>3. call' = [c \in Calls |-> Idle] /\ ledger' = ledger
  BY DEF Crash
<1> HIDE DEF Idle
<1> QED BY <1>1, <1>2, <1>3 DEF CallsShape

-----------------------------------------------------------------------------
(* The breaker                                                             *)

\* Letting a call through starts the count again, which only lowers it.
LEMMA AllowKeeps ==
    ASSUME BreakerShape, NEW c \in Calls, Complete(c)
    PROVE  BreakerShape'
<1>1. streak' = streak /\ cooling' = cooling
  BY DEF Complete
<1>2. failures' \in Nat /\ failures' <= failures
  BY DEF Complete, AfterAllow, BreakerShape
<1>3. burst' \in Nat
  BY DEF Complete, Sent, BreakerShape
<1> QED BY <1>1, <1>2, <1>3 DEF BreakerShape

\* A breaker that starts anew.
LEMMA BreakerNew == 0 \in 0..MaxFailures
BY LLMAssumption

\* An outcome that arrives late.
LEMMA OutcomeKeeps ==
    ASSUME BreakerShape, NEW c \in Calls, RecordOutcome(c)
    PROVE  BreakerShape'
<1>1. CASE recordSuccess /\ streak' = 0
  <2>1. failures' = 0 /\ streak' = 0 /\ burst' = 0 /\ cooling' = FALSE
    BY <1>1 DEF recordSuccess
  <2>2. ~cooling' /\ cooling' \in BOOLEAN
    BY <2>1, Zenon
  <2> QED BY <2>1, <2>2, BreakerNew DEF BreakerShape
<1>2. CASE recordFailure /\ streak' = IF streak < MaxFailures THEN streak + 1 ELSE streak
  <2>1. /\ failures' = failures + 1 /\ failures \in Nat
        /\ streak \in 0..MaxFailures /\ MaxFailures \in Nat \ {0}
        /\ streak < MaxFailures => failures <= streak
    BY <1>2, LLMAssumption DEF BreakerShape, recordFailure
  <2>2. streak' \in 0..MaxFailures /\ (streak' < MaxFailures => failures' <= streak')
    BY <1>2, <2>1
  <2>3. cooling' \in BOOLEAN /\ burst' \in Nat
    BY <1>2 DEF BreakerShape, recordFailure
  <2>4. cooling' => cooling \/ failures + 1 >= MaxFailures
    BY <1>2 DEF recordFailure
  <2>5. cooling => streak = MaxFailures
    BY DEF BreakerShape
  <2>6. cooling' => streak' = MaxFailures
    BY <1>2, <2>1, <2>4, <2>5
  <2>7. failures' \in Nat
    BY <2>1
  <2> QED BY <2>2, <2>3, <2>6, <2>7 DEF BreakerShape
<1> QED BY <1>1, <1>2 DEF RecordOutcome

\* A step that leaves the breaker alone.
LEMMA BreakerSame ==
    ASSUME BreakerShape, UNCHANGED <<failures, cooling, streak, burst>>
    PROVE  BreakerShape'
BY DEF BreakerShape

-----------------------------------------------------------------------------
(* The theorems                                                            *)

\* The invariant is inductive, action by action.
LEMMA NextKeeps ==
    ASSUME IInv, [Next]_vars
    PROVE  IInv'
<1>0. CallsShape /\ BreakerShape
  BY DEF IInv
<1>1. CASE UNCHANGED vars
  <2>1. UNCHANGED <<call, ledger>> /\ UNCHANGED <<failures, cooling, streak, burst>>
    BY <1>1 DEF vars
  <2>2. CallsShape'
    BY <1>0, <2>1 DEF CallsShape
  <2> QED BY <1>0, <2>1, <2>2, BreakerSame DEF IInv
<1>2. CASE CooldownElapses
  <2>1. UNCHANGED <<call, ledger>>
    BY <1>2 DEF CooldownElapses
  <2>2. CallsShape'
    BY <1>0, <2>1 DEF CallsShape
  <2>3. BreakerShape'
    BY <1>0, <1>2 DEF CooldownElapses, BreakerShape
  <2> QED BY <2>2, <2>3 DEF IInv
<1>3. CASE Crash
  <2>1. BreakerShape'
    <3>1. failures' = 0 /\ streak' = 0 /\ burst' = 0 /\ cooling' = FALSE
      BY <1>3 DEF Crash
    <3>2. ~cooling' /\ cooling' \in BOOLEAN
      BY <3>1, Zenon
    <3> QED BY <3>1, <3>2, BreakerNew DEF BreakerShape
  <2> QED BY <1>0, <1>3, <2>1, CrashKeeps DEF IInv
<1>4. ASSUME NEW c \in Calls, Complete(c) PROVE IInv'
  BY <1>0, <1>4, CompleteKeeps, AllowKeeps DEF IInv
<1>5. ASSUME NEW c \in Calls, Provider(c) PROVE IInv'
  <2>1. ASSUME NEW cause \in Causes, TransportFails(c, cause) PROVE IInv'
    <3>1. call[c].pc \in {"request", "body"} /\ Failed(c, cause)
      BY <2>1 DEF TransportFails, At
    <3> QED BY <1>0, <3>1, FailedKeeps, BreakerSame DEF IInv
  <2>2. ASSUME NEW cause \in Causes, BodyEnds(c, cause) PROVE IInv'
    BY <1>0, <2>2, BodyEndsKeeps, BreakerSame DEF IInv
  <2>3. ASSUME NEW st \in Statuses, Headers(c, st) PROVE IInv'
    BY <1>0, <2>3, WaitingKeeps, BreakerSame DEF IInv
  <2>4. CASE BytesArrive(c)
    <3>1. "ok" \in Statuses
      BY DEF Statuses
    <3> QED BY <1>0, <2>4, <3>1, WaitingKeeps, BreakerSame DEF IInv
  <2> QED BY <1>5, <2>1, <2>2, <2>3, <2>4 DEF Provider
<1>6. ASSUME NEW c \in Calls, Client(c) PROVE IInv'
  <2>1. CASE WatchdogTicks(c)
    BY <1>0, <2>1, WatchdogKeeps, BreakerSame DEF IInv
  <2>2. CASE AttemptTimesOut(c)
    <3>1. call[c].pc \in {"request", "body"} /\ Failed(c, "timeout") /\ "timeout" \in Causes
      BY <2>2 DEF AttemptTimesOut, Causes
    <3> QED BY <1>0, <3>1, FailedKeeps, BreakerSame DEF IInv
  <2>3. CASE CancelEndsAttempt(c)
    <3>1. call[c].pc \in {"request", "body"} /\ Failed(c, "cancelled") /\ "cancelled" \in Causes
      BY <2>3 DEF CancelEndsAttempt, Causes
    <3> QED BY <1>0, <3>1, FailedKeeps, BreakerSame DEF IInv
  <2>4. CASE Retry(c)
    <3>1. BreakerShape'
      <4>1. failures' = failures /\ cooling' = cooling /\ streak' = streak
        BY <2>4 DEF Retry
      <4>2. burst' \in Nat
        BY <1>0, <2>4 DEF Retry, Sent, BreakerShape
      <4> QED BY <1>0, <4>1, <4>2 DEF BreakerShape
    <3> QED BY <1>0, <2>4, <3>1, RetryKeeps DEF IInv
  <2>5. CASE CancelEndsWait(c)
    <3>1. "ok" \in Statuses
      BY DEF Statuses
    <3> QED BY <1>0, <2>5, <3>1, WaitingKeeps, BreakerSame DEF IInv
  <2>6. CASE RecordAttempt(c)
    <3>1. UNCHANGED <<failures, cooling, streak, burst>>
      BY <2>6 DEF RecordAttempt
    <3> QED BY <1>0, <2>6, <3>1, RecordAttemptKeeps, BreakerSame DEF IInv
  <2>7. CASE EmitFails(c)
    <3>1. Return(c) /\ UNCHANGED ledger /\ UNCHANGED <<failures, cooling, streak, burst>>
      BY <2>7 DEF EmitFails
    <3> QED BY <1>0, <3>1, ReturnKeeps, BreakerSame DEF IInv
  <2>8. CASE EmitDone(c)
    <3>1. UNCHANGED <<failures, cooling, streak, burst>>
      BY <2>8 DEF EmitDone
    <3> QED BY <1>0, <2>8, <3>1, EmitDoneKeeps, BreakerSame DEF IInv
  <2>9. CASE RecordOutcome(c)
    <3>1. Return(c) /\ UNCHANGED ledger
      BY <2>9 DEF RecordOutcome
    <3> QED BY <1>0, <2>9, <3>1, ReturnKeeps, OutcomeKeeps DEF IInv
  <2> QED BY <1>6, <2>1, <2>2, <2>3, <2>4, <2>5, <2>6, <2>7, <2>8, <2>9 DEF Client
<1>7. ASSUME NEW c \in Calls, Cancel(c) PROVE IInv'
  <2>1. "ok" \in Statuses
    BY DEF Statuses
  <2> QED BY <1>0, <1>7, <2>1, WaitingKeeps, BreakerSame DEF IInv
<1> QED BY <1>1, <1>2, <1>3, <1>4, <1>5, <1>6, <1>7 DEF Next

\* At first nobody asks.
LEMMA InitShape == Init => IInv
<1> SUFFICES ASSUME Init PROVE IInv OBVIOUS
<1>1. Idle \in CallStates /\ Shape(Idle, << >>)
  BY IdleShape, NothingStored DEF Shape
<1>2. call = [c \in Calls |-> Idle] /\ ledger = [c \in Calls |-> << >>]
  BY DEF Init
<1>3. CallsShape
  <2> HIDE DEF Idle
  <2> QED BY <1>1, <1>2, NothingStored DEF CallsShape
<1>4. BreakerShape
  <2>1. failures = 0 /\ streak = 0 /\ burst = 0 /\ cooling = FALSE
    BY DEF Init
  <2>2. ~cooling /\ cooling \in BOOLEAN
    BY <2>1, Zenon
  <2> QED BY <2>1, <2>2, BreakerNew DEF BreakerShape
<1> QED BY <1>3, <1>4 DEF IInv

\* Every call keeps to its attempts, what it notes and what is stored fit
\* together, and the breaker's count never runs ahead of the failed calls: the
\* invariant the other theorems follow from.
THEOREM CallsInShape == Spec => []IInv
<1>1. IInv /\ [Next]_vars => IInv'
  BY NextKeeps
<1> QED BY <1>1, InitShape, PTL DEF Spec

\* The calls, the stored events and the breaker keep their types, for any number
\* of calls and attempts; no call makes more than MaxAttempts attempts.
THEOREM TypeCorrect == Spec => []TypeOK
<1>1. IInv => TypeOK
  BY DEF IInv, CallsShape, BreakerShape, TypeOK, CallStates
<1> QED BY <1>1, CallsInShape, PTL

\* RecordModelTelemetry and validateModelAttempts agree at any moment, whatever
\* write failed or process died: attempts are stored as 1, 2, ... and only the
\* last one succeeded.
THEOREM EventsContiguous == Spec => []RecordedAttemptsContiguous
<1>1. IInv => RecordedAttemptsContiguous
  BY DEF IInv, CallsShape, Shape, Contiguous, RecordedAttemptsContiguous
<1> QED BY <1>1, CallsInShape, PTL

\* EmitTelemetry before the outcome: a call whose outcome the breaker learns of
\* has all its attempts stored.
THEOREM OutcomeAfterEvents == Spec => []UsedMeansReported
<1>1. IInv => UsedMeansReported
  <2> SUFFICES ASSUME IInv, NEW c \in Calls, At(c, "record")
               PROVE  Len(ledger[c]) = call[c].attempt /\ call[c].attempt > 0
    BY DEF UsedMeansReported
  <2>1. Progress(call[c], ledger[c]) /\ call[c].attempt \in 0..MaxAttempts /\ call[c].pc = "record"
    BY DEF IInv, CallsShape, Shape, CallStates, At
  <2> QED BY <2>1 DEF Progress
<1> QED BY <1>1, CallsInShape, PTL

\* callBreaker is open only after MaxFailures failed calls since the last
\* success, for any number of calls that share it and report late.
THEOREM BreakerOpensForAReason == Spec => []OpenedByFailures
<1>1. IInv => OpenedByFailures
  BY DEF IInv, BreakerShape, OpenedByFailures
<1> QED BY <1>1, CallsInShape, PTL

-----------------------------------------------------------------------------
(* The load on the provider while the circuit is open                      *)

\* A call with an attempt under way, or waiting for the next one.
Asking == {"request", "body", "wait"}

\* The further attempts that the calls already admitted may still make.
ToCome ==
    {p \in Calls \X (2..MaxAttempts) : call[p[1]].pc \in Asking /\ p[2] > call[p[1]].attempt}

Bound == (Cardinality(Calls) - 1) * (MaxAttempts - 1)

\* An open circuit admits nobody, and each request it sees is one that was to come.
LoadShape ==
    cooling => /\ failures >= MaxFailures
               /\ burst + Cardinality(ToCome) <= Bound

\* The further attempts are finitely many.
LEMMA ToComeFinite ==
    /\ IsFiniteSet(ToCome) /\ Cardinality(ToCome) \in Nat
    /\ \A T \in SUBSET ToCome : IsFiniteSet(T) /\ Cardinality(T) <= Cardinality(ToCome)
                                /\ Cardinality(T) \in Nat
<1>1. IsFiniteSet(2..MaxAttempts)
  BY FS_Interval, LLMAssumption
<1>2. IsFiniteSet(Calls \X (2..MaxAttempts))
  BY <1>1, FS_Product, LLMAssumption
<1>3. ToCome \in SUBSET (Calls \X (2..MaxAttempts))
  BY DEF ToCome
<1>4. IsFiniteSet(ToCome)
  BY <1>2, <1>3, FS_Subset
<1> QED BY <1>4, FS_Subset, FS_CardinalityType

\* When one call has no attempt to come, the others are within the bound.
LEMMA OthersBound ==
    ASSUME NEW c \in Calls, NEW T \in SUBSET (Calls \X (2..MaxAttempts)),
           \A p \in T : p[1] # c
    PROVE  Cardinality(T) <= Bound
<1> DEFINE Others == Calls \ {c}
           Further == 2..MaxAttempts
<1>1. IsFiniteSet(Others) /\ Cardinality(Others) = Cardinality(Calls) - 1
  BY FS_RemoveElement, LLMAssumption
<1>2. IsFiniteSet(Further) /\ Cardinality(Further) = MaxAttempts - 1
  BY FS_Interval, LLMAssumption
<1>3. T \in SUBSET (Others \X Further)
  OBVIOUS
<1> HIDE DEF Others, Further
<1>4. IsFiniteSet(Others \X Further) /\ Cardinality(Others \X Further) = Bound
  BY <1>1, <1>2, FS_Product DEF Bound
<1> QED BY <1>3, <1>4, FS_Subset

\* A call whose step begins no attempt leaves no more to come.
LEMMA NothingAdded ==
    ASSUME CallsShape, NEW c \in Calls, NEW new, Go(c, new),
           new.pc \in Asking => call[c].pc \in Asking /\ new.attempt = call[c].attempt
    PROVE  ToCome' \subseteq ToCome
<1> SUFFICES ASSUME NEW p \in ToCome' PROVE p \in ToCome OBVIOUS
<1>1. /\ p \in Calls \X (2..MaxAttempts) /\ p[1] \in Calls
      /\ call'[p[1]].pc \in Asking /\ p[2] > call'[p[1]].attempt
  BY DEF ToCome
<1>2. call'[p[1]] = IF p[1] = c THEN new ELSE call[p[1]]
  BY <1>1 DEF Go, CallsShape
<1>3. CASE p[1] = c
  BY <1>1, <1>2, <1>3 DEF ToCome
<1>4. CASE p[1] # c
  BY <1>1, <1>2, <1>4 DEF ToCome
<1> QED BY <1>3, <1>4

\* A failed attempt leaves no more to come.
LEMMA FailedAdds ==
    ASSUME CallsShape, NEW c \in Calls, call[c].pc \in {"request", "body"},
           NEW cause \in Causes, Failed(c, cause)
    PROVE  ToCome' \subseteq ToCome
<1>1. PICK log, err, pc, verdict :
        Go(c, [call[c] EXCEPT !.log = log, !.lastErr = err, !.status = "none",
                              !.fresh = FALSE, !.pc = pc, !.verdict = verdict])
  BY DEF Failed
<1> DEFINE new == [call[c] EXCEPT !.log = log, !.lastErr = err, !.status = "none",
                                  !.fresh = FALSE, !.pc = pc, !.verdict = verdict]
<1>2. new.attempt = call[c].attempt
  BY DEF CallsShape, CallStates
<1> HIDE DEF new
<1> QED BY <1>1, <1>2, NothingAdded DEF Asking, new

\* A call in no attempt has none to come.
LEMMA RestingAdds ==
    ASSUME CallsShape, NEW c \in Calls, NEW new, Go(c, new), new.pc \notin Asking
    PROVE  ToCome' \subseteq ToCome
BY NothingAdded

\* While the circuit is open and stays so, only a retry sends a request; the
\* count of the failures and the circuit itself change at an outcome only.
LEMMA OpenStep ==
    ASSUME IInv, LoadShape, [Next]_vars, cooling, cooling'
    PROVE  /\ failures' >= MaxFailures
           /\ \/ ToCome' \subseteq ToCome /\ burst' = burst
              \/ \E c \in Calls : Retry(c)
<1> DEFINE Quiet == ToCome' \subseteq ToCome /\ burst' = burst
           Goal == failures' >= MaxFailures /\ (Quiet \/ \E c \in Calls : Retry(c))
<1>0. CallsShape /\ failures >= MaxFailures /\ failures \in Nat /\ MaxFailures \in Nat \ {0}
  BY LLMAssumption DEF IInv, LoadShape, BreakerShape
<1>1. CASE UNCHANGED vars
  BY <1>0, <1>1 DEF vars, ToCome
<1>2. ~CooldownElapses /\ ~Crash
  BY Zenon DEF CooldownElapses, Crash
<1>3. ASSUME NEW c \in Calls, Complete(c) PROVE Goal
  <2>1. ~allow
    BY <1>0 DEF allow, Open
  <2>2. Go(c, [Idle EXCEPT !.pc = "emit"]) /\ UNCHANGED <<failures, burst>>
    BY <1>3, <2>1 DEF Complete
  <2>3. [Idle EXCEPT !.pc = "emit"].pc = "emit"
    BY DEF Idle
  <2>4. ToCome' \subseteq ToCome
    BY <1>0, <2>2, <2>3, RestingAdds DEF Asking
  <2> QED BY <1>0, <2>2, <2>4
<1>4. ASSUME NEW c \in Calls, NEW cause \in Causes, call[c].pc \in {"request", "body"},
             Failed(c, cause)
      PROVE  Goal
  BY <1>0, <1>4, FailedAdds DEF Failed
<1>5. ASSUME NEW c \in Calls, NEW new, Go(c, new), UNCHANGED <<failures, burst>>,
             new.pc \in Asking => call[c].pc \in Asking /\ new.attempt = call[c].attempt
      PROVE  Goal
  BY <1>0, <1>5, NothingAdded
<1>6. ASSUME NEW c \in Calls, call[c].pc \in Asking, UNCHANGED <<failures, burst>>,
             \/ \E st \in Statuses : Go(c, [call[c] EXCEPT !.pc = "body", !.status = st])
             \/ \E b \in BOOLEAN : Go(c, [call[c] EXCEPT !.fresh = b])
             \/ Go(c, [call[c] EXCEPT !.cancelled = TRUE])
      PROVE  Goal
  <2>1. /\ \A st : [call[c] EXCEPT !.pc = "body", !.status = st].attempt = call[c].attempt
        /\ \A b : [call[c] EXCEPT !.fresh = b].attempt = call[c].attempt
        /\ [call[c] EXCEPT !.cancelled = TRUE].attempt = call[c].attempt
    BY <1>0 DEF CallsShape, CallStates
  <2> QED BY <1>5, <1>6, <2>1
<1>7. ASSUME NEW c \in Calls, UNCHANGED <<failures, burst>>, NEW new, Go(c, new),
             new.pc \notin Asking
      PROVE  Goal
  BY <1>0, <1>7, RestingAdds
<1>8. ASSUME NEW c \in Calls, UNCHANGED <<failures, burst>>, Return(c) PROVE Goal
  <2>1. Go(c, Idle) /\ Idle.pc \notin Asking
    BY <1>8 DEF Return, Idle, Asking
  <2> HIDE DEF Idle
  <2> QED BY <1>7, <1>8, <2>1
<1>9. ASSUME NEW c \in Calls, Provider(c) PROVE Goal
  <2>1. ASSUME NEW cause \in Causes, TransportFails(c, cause) PROVE Goal
    BY <1>4, <2>1 DEF TransportFails, At
  <2>2. ASSUME NEW cause \in Causes, BodyEnds(c, cause) PROVE Goal
    <3> DEFINE log == Append(call[c].log, Attempt(call[c].attempt, TRUE))
               new == [call[c] EXCEPT !.pc = "emit", !.status = "none", !.fresh = FALSE,
                                      !.log = log, !.lastErr = "none", !.verdict = "success"]
    <3>1. call[c].pc = "body"
      BY <2>2 DEF BodyEnds, At
    <3>2. CASE Failed(c, cause)
      BY <1>4, <3>1, <3>2
    <3>3. CASE Go(c, new) /\ UNCHANGED <<ledger, failures, cooling, streak, burst>>
      <4>1. new.pc \notin Asking
        BY <1>0 DEF CallsShape, CallStates, Asking
      <4> HIDE DEF new
      <4> QED BY <1>7, <3>3, <4>1
    <3> QED BY <2>2, <3>2, <3>3 DEF BodyEnds
  <2>3. ASSUME NEW st \in Statuses, Headers(c, st) PROVE Goal
    BY <1>6, <2>3 DEF Headers, At, Asking
  <2>4. CASE BytesArrive(c)
    BY <1>6, <2>4 DEF BytesArrive, At, Asking
  <2> QED BY <1>9, <2>1, <2>2, <2>3, <2>4 DEF Provider
<1>10. ASSUME NEW c \in Calls, Client(c), ~Retry(c) PROVE Goal
  <2>1. CASE WatchdogTicks(c)
    <3>1. call[c].pc = "body" /\ call[c].pc \in Asking
      BY <2>1 DEF WatchdogTicks, At, Asking
    <3>2. CASE Failed(c, "stalled")
      BY <1>4, <3>1, <3>2 DEF Causes
    <3>3. CASE Go(c, [call[c] EXCEPT !.fresh = FALSE])
               /\ UNCHANGED <<ledger, failures, cooling, streak, burst>>
      BY <1>6, <3>1, <3>3
    <3> QED BY <2>1, <3>2, <3>3 DEF WatchdogTicks
  <2>2. CASE AttemptTimesOut(c) \/ CancelEndsAttempt(c)
    <3>1. call[c].pc \in {"request", "body"} /\ \E cause \in Causes : Failed(c, cause)
      BY <2>2 DEF AttemptTimesOut, CancelEndsAttempt, Causes
    <3> QED BY <1>4, <3>1
  <2>3. CASE CancelEndsWait(c)
    <3> DEFINE new == [call[c] EXCEPT !.pc = "emit"]
    <3>1. Go(c, new) /\ UNCHANGED <<failures, burst>>
      BY <2>3 DEF CancelEndsWait
    <3>2. new.pc \notin Asking
      BY <1>0 DEF CallsShape, CallStates, Asking
    <3> HIDE DEF new
    <3> QED BY <1>7, <3>1, <3>2
  <2>4. CASE RecordAttempt(c)
    BY <1>0, <2>4 DEF RecordAttempt, ToCome
  <2>5. CASE EmitFails(c)
    BY <1>8, <2>5 DEF EmitFails
  <2>6. CASE EmitDone(c)
    <3> DEFINE new == [call[c] EXCEPT !.pc = "record"]
    <3>1. (Return(c) \/ Go(c, new)) /\ UNCHANGED <<failures, burst>>
      BY <2>6 DEF EmitDone
    <3>2. new.pc \notin Asking
      BY <1>0 DEF CallsShape, CallStates, Asking
    <3> HIDE DEF new
    <3> QED BY <1>7, <1>8, <3>1, <3>2
  <2>7. CASE RecordOutcome(c)
    <3>1. recordFailure /\ Return(c)
      BY <2>7, Zenon DEF RecordOutcome, recordSuccess
    <3>2. failures' >= MaxFailures /\ burst' = burst
      BY <1>0, <3>1 DEF recordFailure
    <3>3. Go(c, Idle) /\ Idle.pc \notin Asking
      BY <3>1 DEF Return, Idle, Asking
    <3> HIDE DEF Idle
    <3>4. ToCome' \subseteq ToCome
      BY <1>0, <3>3, RestingAdds
    <3> QED BY <3>2, <3>4
  <2> QED BY <1>10, <2>1, <2>2, <2>3, <2>4, <2>5, <2>6, <2>7 DEF Client
<1>11. ASSUME NEW c \in Calls, Cancel(c) PROVE Goal
  BY <1>6, <1>11 DEF Cancel, Asking
<1>12. ASSUME NEW c \in Calls, Retry(c) PROVE Goal
  BY <1>0, <1>12 DEF Retry
<1> QED BY <1>1, <1>2, <1>3, <1>9, <1>10, <1>11, <1>12 DEF Next

\* A retry takes one of the attempts to come.
LEMMA RetryTakes ==
    ASSUME IInv, NEW c \in Calls, Retry(c), cooling
    PROVE  /\ burst' = burst + 1 /\ IsFiniteSet(ToCome')
           /\ Cardinality(ToCome') + 1 <= Cardinality(ToCome) /\ Cardinality(ToCome') \in Nat
<1> DEFINE k == call[c]
           new == [k EXCEPT !.pc = "request", !.attempt = @ + 1, !.lastErr = "none"]
           p == <<c, k.attempt + 1>>
           Rest == ToCome \ {p}
<1>1. call \in [Calls -> CallStates] /\ Shape(k, ledger[c]) /\ k.pc = "wait"
  BY DEF IInv, CallsShape, Retry, At
<1>2. k.attempt \in Nat /\ k.attempt >= 1 /\ k.attempt < MaxAttempts
  BY <1>1 DEF Shape, Progress, CallStates
<1>3. /\ Go(c, new) /\ burst' = burst + 1
      /\ new.pc = "request" /\ new.attempt = k.attempt + 1
  BY <1>1 DEF Retry, Sent, CallStates
<1>4. p \in ToCome
  BY <1>1, <1>2, LLMAssumption DEF ToCome, Asking
<1>5. IsFiniteSet(Rest) /\ Cardinality(Rest) = Cardinality(ToCome) - 1
  BY <1>4, ToComeFinite, FS_RemoveElement
<1> HIDE DEF new
<1>6. ToCome' \subseteq Rest
  <2> SUFFICES ASSUME NEW q \in ToCome' PROVE q \in Rest OBVIOUS
  <2>1. /\ q \in Calls \X (2..MaxAttempts) /\ q[1] \in Calls /\ q[2] \in Nat
        /\ call'[q[1]].pc \in Asking /\ q[2] > call'[q[1]].attempt
    BY DEF ToCome
  <2>2. call'[q[1]] = IF q[1] = c THEN new ELSE call[q[1]]
    BY <1>1, <1>3, <2>1 DEF Go
  <2>3. CASE q[1] = c
    <3>1. q[2] > k.attempt + 1
      BY <1>3, <2>1, <2>2, <2>3
    <3>2. q # p /\ q[2] > k.attempt
      BY <1>2, <2>1, <3>1
    <3> QED BY <1>1, <2>1, <2>3, <3>2 DEF ToCome, Asking
  <2>4. CASE q[1] # c
    BY <2>1, <2>2, <2>4 DEF ToCome
  <2> QED BY <2>3, <2>4
<1> HIDE DEF Rest
<1>7. /\ IsFiniteSet(ToCome') /\ Cardinality(ToCome') <= Cardinality(Rest)
      /\ Cardinality(ToCome') \in Nat
  BY <1>5, <1>6, FS_Subset, FS_CardinalityType
<1> QED BY <1>3, <1>5, <1>7, ToComeFinite

\* The circuit opens with the outcome of a call that has no attempt to come.
LEMMA OpensWithinBound ==
    ASSUME IInv, [Next]_vars, ~cooling, cooling'
    PROVE  LoadShape'
<1>1. ASSUME NEW c \in Calls, Complete(c) \/ Provider(c) \/ Cancel(c)
      PROVE  cooling' = cooling
  BY <1>1 DEF Complete, Provider, Cancel, TransportFails, BodyEnds, Headers, BytesArrive, Failed
<1>2. ASSUME NEW c \in Calls, Client(c), ~RecordOutcome(c)
      PROVE  cooling' = cooling
  BY <1>2 DEF Client, WatchdogTicks, AttemptTimesOut, CancelEndsAttempt, Retry, CancelEndsWait,
              RecordAttempt, EmitFails, EmitDone, Failed
<1>3. ~CooldownElapses /\ ~Crash /\ ~UNCHANGED vars
  BY Zenon DEF CooldownElapses, Crash, vars
<1>4. PICK c \in Calls : RecordOutcome(c)
  BY <1>1, <1>2, <1>3, Zenon DEF Next
<1>5. recordFailure /\ Return(c)
  BY <1>4, Zenon DEF RecordOutcome, recordSuccess
<1>6. failures' >= MaxFailures /\ burst' = 0
  BY <1>5 DEF recordFailure, IInv, BreakerShape
<1>7. ToCome' \in SUBSET (Calls \X (2..MaxAttempts)) /\ \A p \in ToCome' : p[1] # c
  <2>1. call'[c] = Idle /\ Idle.pc \notin Asking
    BY <1>5 DEF Return, Go, IInv, CallsShape, Idle, Asking
  <2> HIDE DEF Idle
  <2> QED BY <2>1 DEF ToCome
<1>8. Cardinality(ToCome') <= Bound /\ Cardinality(ToCome') \in Nat
  <2>1. IsFiniteSet(Calls \X (2..MaxAttempts))
    <3>1. IsFiniteSet(2..MaxAttempts)
      BY FS_Interval, LLMAssumption
    <3> QED BY <3>1, FS_Product, LLMAssumption
  <2> QED BY <1>7, <2>1, OthersBound, FS_Subset, FS_CardinalityType
<1> QED BY <1>6, <1>8 DEF LoadShape

\* Every step keeps the load within the bound.
LEMMA LoadKept == IInv /\ LoadShape /\ [Next]_vars => LoadShape'
<1> SUFFICES ASSUME IInv, LoadShape, [Next]_vars, cooling' PROVE LoadShape'
  BY DEF LoadShape
<1>1. CASE ~cooling
  BY <1>1, OpensWithinBound
<1>2. CASE cooling
  <2>1. /\ burst \in Nat /\ Cardinality(ToCome) \in Nat /\ Bound \in Int
        /\ burst + Cardinality(ToCome) <= Bound
    BY <1>2, ToComeFinite, FS_CardinalityType, LLMAssumption
       DEF IInv, BreakerShape, LoadShape, Bound
  <2>2. failures' >= MaxFailures
    BY <1>2, OpenStep
  <2>3. CASE ToCome' \subseteq ToCome /\ burst' = burst
    <3>1. Cardinality(ToCome') <= Cardinality(ToCome) /\ Cardinality(ToCome') \in Nat
      BY <2>3, ToComeFinite
    <3> QED BY <2>1, <2>2, <2>3, <3>1 DEF LoadShape
  <2>4. ASSUME NEW c \in Calls, Retry(c) PROVE LoadShape'
    <3>1. /\ burst' = burst + 1 /\ Cardinality(ToCome') \in Nat
          /\ Cardinality(ToCome') + 1 <= Cardinality(ToCome)
      BY <1>2, <2>4, RetryTakes
    <3> QED BY <2>1, <2>2, <3>1 DEF LoadShape
  <2> QED BY <1>2, <2>3, <2>4, OpenStep
<1> QED BY <1>1, <1>2

\* callBreaker.allow takes the load off the provider: while the circuit is open
\* it sees the further attempts of the calls already admitted and no other, for
\* any number of calls, attempts and failures.
THEOREM OpenCircuitIsBounded == Spec => []OpenCircuitBoundsLoad
<1>1. Init => LoadShape
  <2> SUFFICES ASSUME Init PROVE ~cooling
    BY DEF LoadShape
  <2> QED BY Zenon DEF Init
<1>2. IInv /\ LoadShape => OpenCircuitBoundsLoad
  <2> SUFFICES ASSUME IInv, LoadShape, cooling PROVE burst <= Bound
    BY DEF OpenCircuitBoundsLoad, Bound
  <2>1. /\ burst \in Nat /\ Cardinality(ToCome) \in Nat /\ Bound \in Int
        /\ burst + Cardinality(ToCome) <= Bound
    BY ToComeFinite, FS_CardinalityType, LLMAssumption
       DEF IInv, BreakerShape, LoadShape, Bound
  <2> QED BY <2>1
<1> QED BY <1>1, <1>2, LoadKept, CallsInShape, PTL DEF Spec
=============================================================================
