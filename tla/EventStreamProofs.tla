------------------------- MODULE EventStreamProofs -------------------------
(***************************************************************************)
(* Proofs about EventStream for any number of streams, refreshes, events   *)
(* and mishaps.                                                            *)
(***************************************************************************)
EXTENDS EventStream, WellFoundedInduction, TLAPS

-----------------------------------------------------------------------------
(* Lemmas about the operators                                              *)

\* A set of events up to n that is not empty has a last one.
LEMMA LastExists ==
    ASSUME NEW n \in Nat, NEW S \in SUBSET (1..n), S # {}
    PROVE  \E x \in S : \A m \in S : m <= x
<1> DEFINE U == {k \in Nat : \A m \in S : m <= k}
<1>1. U \subseteq Nat /\ n \in U
  OBVIOUS
<1>2. PICK x \in U : \A y \in U : ~(<<y, x>> \in OpToRel(<, Nat))
  <2>1. U # {}
    BY <1>1
  <2> HIDE DEF U
  <2> QED BY <1>1, <2>1, WFMin, NatLessThanWellFounded
<1>3. \A y \in U : ~(y < x)
  <2> SUFFICES ASSUME NEW y \in U, y < x PROVE FALSE OBVIOUS
  <2>1. <<y, x>> \in Nat \X Nat /\ <<y, x>>[1] < <<y, x>>[2]
    BY <1>1, <1>2
  <2>2. <<y, x>> \in OpToRel(<, Nat)
    BY <2>1 DEF OpToRel
  <2> QED BY <1>2, <2>2
<1>4. x \in Nat /\ \A k \in S : k \in Nat /\ k >= 1 /\ k <= x
  OBVIOUS
<1>5. x \in S
  <2> SUFFICES ASSUME x \notin S PROVE FALSE OBVIOUS
  <2>1. PICK m \in S : TRUE
    OBVIOUS
  <2>2. \A k \in S : k <= x - 1
    <3> SUFFICES ASSUME NEW k \in S PROVE k <= x - 1 OBVIOUS
    <3>1. k # x
      OBVIOUS
    <3> HIDE DEF U
    <3> QED BY <1>4, <3>1
  <2>3. x >= 1
    <3> HIDE DEF U
    <3> QED BY <1>4, <2>1
  <2>4. x - 1 \in Nat
    BY <1>4, <2>3
  <2>5. x - 1 \in U
    BY <2>2, <2>4
  <2> QED BY <1>3, <1>4, <2>4, <2>5
<1> QED BY <1>4, <1>5

\* Last returns an event of the set, or 0.
LEMMA LastType ==
    ASSUME NEW n \in Nat, NEW S \in SUBSET (1..n)
    PROVE  Last(S) \in 0..n
<1>1. CASE S = {}
  BY <1>1 DEF Last
<1>2. CASE S # {}
  <2>1. \E x \in S : \A m \in S : m <= x
    BY <1>2, LastExists
  <2>2. (CHOOSE x \in S : \A m \in S : m <= x) \in S
    BY <2>1
  <2>3. Last(S) \in S
    BY <1>2, <2>2 DEF Last
  <2>4. \A x \in S : x \in 0..n
    OBVIOUS
  <2> QED BY <2>3, <2>4
<1> QED BY <1>1, <1>2

\* The last event of a prefix of the log is the length of the prefix.
LEMMA LastOfPrefix ==
    ASSUME NEW hi \in Nat
    PROVE  Last(1..hi) = hi
<1>1. CASE hi = 0
  BY <1>1 DEF Last
<1>2. CASE hi # 0
  <2>1. hi \in 1..hi /\ \A m \in 1..hi : m <= hi
    BY <1>2
  <2>2. \A x \in 1..hi : (\A m \in 1..hi : m <= x) => x = hi
    BY <2>1
  <2>3. (CHOOSE x \in 1..hi : \A m \in 1..hi : m <= x) = hi
    BY <2>1, <2>2, Zenon
  <2> QED BY <2>1, <2>3 DEF Last
<1> QED BY <1>1, <1>2

\* What the API returns of the run.
LEMMA RowType ==
    ASSUME TypeOK
    PROVE  Row \in Runs
<1>1. Question \in Nat
  <2>1. Len(log) \in Nat
    BY DEF TypeOK
  <2> QED BY <2>1, LastType DEF Question
<1> QED BY <1>1 DEF Row, Runs, TypeOK

\* The events that a new stream is asked to skip are events of the log.
LEMMA AfterSeqType ==
    ASSUME NEW n \in Nat, NEW S \in SUBSET (1..n)
    PROVE  AfterSeq(S) \in 0..n
BY LastType DEF AfterSeq

-----------------------------------------------------------------------------
(* The inductive invariant                                                 *)

\* A completed run has no goroutine that could park or resume it, and a resume
\* request names a question.
DriverShape ==
    /\ status = "completed" => dpc \in {"ending", "gone"}
    /\ post.state \in {"posted", "orphan"} => post.question # 0

\* How far a stream has come: received, written, listed, appended.
StreamShape(s) ==
    /\ received[s] <= lastSeq[s]
    /\ lastSeq[s] <= batch[s]
    /\ batch[s] <= Len(log)
    /\ spc[s] \in {"writing", "flushing"} => lastSeq[s] < batch[s]
    /\ spc[s] \in {"checking", "waiting", "draining"} => lastSeq[s] = batch[s]

\* Between a list and the next one, an event behind the list has left a token or
\* is still to be published.
Woken(s) ==
    spc[s] \in {"writing", "checking", "waiting"} /\ batch[s] < Len(log)
        => s \in wake \/ unpublished # {}

\* The last list of a stream follows a terminal status; nothing is appended to a
\* cancelled run.
Drained(s) ==
    /\ spc[s] \in {"draining", "flushing", "ended"} => status \in Terminal
    /\ spc[s] = "flushing" /\ status = "cancelled" => batch[s] = Len(log)
    /\ spc[s] = "ended" /\ status = "cancelled" => lastSeq[s] = Len(log)

\* What the tab shows reaches at least to where its stream is.
SeenShape ==
    failures = 0 => \E hi \in 0..Len(log) :
                        /\ seen = 1..hi
                        /\ \A s \in Streams : current = s => received[s] <= hi

IInv ==
    /\ TypeOK
    /\ DriverShape
    /\ \A s \in Streams : StreamShape(s) /\ Woken(s) /\ Drained(s)
    /\ SeenShape

\* The states of a handler.
StreamStates == {"closed", "subscribing", "listing", "writing", "checking",
                 "waiting", "draining", "flushing", "ended"}

\* The initial state satisfies the invariant.
LEMMA InitIInv == Init => IInv
<1> SUFFICES ASSUME Init PROVE IInv OBVIOUS
<1>1. Nothing \in Runs /\ Unread \in Runs
  BY DEF Nothing, Unread, Runs
<1>2. log \in Seq(Events) /\ Len(log) = 1
  BY DEF Init, Events
<1>3. TypeOK
  BY <1>1, <1>2, StreamAssumption DEF Init, TypeOK, Statuses, NoPost
<1>4. DriverShape
  BY DEF Init, DriverShape, NoPost
<1>5. ASSUME NEW s \in Streams PROVE StreamShape(s) /\ Woken(s) /\ Drained(s)
  <2>1. spc[s] = "closed" /\ received[s] = 0 /\ lastSeq[s] = 0 /\ batch[s] = 0
    BY DEF Init
  <2> QED BY <1>2, <2>1 DEF StreamShape, Woken, Drained
<1>6. SeenShape
  <2>1. 0 \in 0..Len(log) /\ seen = 1..0 /\ \A s \in Streams : received[s] <= 0
    BY <1>2 DEF Init
  <2> QED BY <2>1 DEF SeenShape
<1> QED BY <1>3, <1>4, <1>5, <1>6 DEF IInv

-----------------------------------------------------------------------------
(* The writers                                                             *)

\* An append: the log grows, and its writer has not published yet.
LEMMA AppendStep ==
    ASSUME IInv, NEW w \in {"driver", "canceller"}, NEW e \in Events, AppendEvent(w, e),
           DriverShape', status' \in Statuses,
           dpc' \in {"working", "parking", "parked", "resaving", "ending", "gone"},
           post' \in [state : {"none", "posted", "driving", "replied", "orphan"},
                      question : Nat],
           status' = status \/ status \notin Terminal,
           UNCHANGED <<streamVars, current, received, seen, ui, readVars, reply, envVars>>
    PROVE  IInv'
<1>1. /\ log' \in Seq(Events) /\ Len(log') = Len(log) + 1 /\ Len(log) \in Nat
      /\ Len(log') \in Nat
  BY DEF IInv, TypeOK, AppendEvent
<1>2. 1..Len(log) \subseteq 1..Len(log') /\ 0..Len(log) \subseteq 0..Len(log')
  BY <1>1
<1>3. UNCHANGED <<spc, wake, lastSeq, batch, current, received, seen, ui, rpc, readRun,
                  readLog, reply, mishaps, failures>>
  BY DEF streamVars, readVars, envVars
<1>4. unpublished' = unpublished \cup {w} /\ unpublished' # {} /\ status # "cancelled"
  BY DEF AppendEvent
<1>5. seen' \subseteq 1..Len(log') /\ readLog' \in [Refreshes -> 0..Len(log')]
  BY <1>2, <1>3 DEF IInv, TypeOK
<1>6. TypeOK'
  <2>1. TypeOK
    BY DEF IInv
  <2> QED BY <2>1, <1>1, <1>3, <1>4, <1>5 DEF TypeOK
<1>7. ASSUME NEW s \in Streams PROVE (StreamShape(s) /\ Woken(s) /\ Drained(s))'
  <2>1. batch[s] \in Nat /\ lastSeq[s] \in Nat /\ received[s] \in Nat
    BY DEF IInv, TypeOK
  <2>2. StreamShape(s)'
    BY <1>1, <1>3, <2>1 DEF IInv, StreamShape
  <2>3. Woken(s)'
    BY <1>4 DEF Woken
  <2>4. Drained(s)'
    BY <1>3, <1>4 DEF IInv, Drained, Terminal
  <2> QED BY <2>2, <2>3, <2>4
<1>8. SeenShape'
  BY <1>2, <1>3 DEF IInv, SeenShape
<1> QED BY <1>6, <1>7, <1>8 DEF IInv

\* A new status without an event; it is never that of a terminal run.
LEMMA StatusStep ==
    ASSUME IInv, DriverShape', status' \in Statuses,
           dpc' \in {"working", "parking", "parked", "resaving", "ending", "gone"},
           status' = status \/ (status \notin Terminal /\ status' # "cancelled"),
           UNCHANGED <<log, unpublished, streamVars, current, received, seen, ui,
                       readVars, postVars, envVars>>
    PROVE  IInv'
<1>1. UNCHANGED <<log, unpublished, spc, wake, lastSeq, batch, current, received, seen, ui,
                  rpc, readRun, readLog, post, reply, mishaps, failures>>
  BY DEF streamVars, readVars, postVars, envVars
<1>2. TypeOK'
  <2>1. TypeOK
    BY DEF IInv
  <2> QED BY <2>1, <1>1 DEF TypeOK
<1>3. ASSUME NEW s \in Streams PROVE (StreamShape(s) /\ Woken(s) /\ Drained(s))'
  BY <1>1 DEF IInv, StreamShape, Woken, Drained, Terminal
<1>4. SeenShape'
  BY <1>1 DEF IInv, SeenShape
<1> QED BY <1>2, <1>3, <1>4 DEF IInv

\* The goroutine of the run, the answer to a question and a cancel request.
LEMMA WriterStep ==
    ASSUME IInv, Driver \/ ResumeAccepted \/ CancelRun
    PROVE  IInv'
<1>0. TypeOK /\ DriverShape
  BY DEF IInv
<1> USE DEF DriverShape
<1>1. CASE DriverEvent
  BY <1>0, <1>1, AppendStep DEF DriverEvent, Events, postVars, TypeOK
<1>2. CASE DriverAsk
  BY <1>0, <1>2, AppendStep DEF DriverAsk, Events, postVars, TypeOK
<1>3. CASE DriverPark
  BY <1>0, <1>3, StatusStep DEF DriverPark, Statuses, Terminal, postVars, TypeOK
<1>4. CASE DriverResaves
  BY <1>0, <1>4, StatusStep DEF DriverResaves, Statuses, Terminal, postVars, TypeOK
<1>5. CASE DriverEnd
  BY <1>0, <1>5, StatusStep DEF DriverEnd, Statuses, Terminal, postVars, TypeOK
<1>6. CASE DriverAnnounce
  BY <1>0, <1>6, AppendStep DEF DriverAnnounce, Events, postVars, TypeOK
<1>7. CASE DriverRefused
  BY <1>0, <1>7, StatusStep DEF DriverRefused, dbVars, postVars, TypeOK
<1>8. CASE ResumeAccepted
  <2>1. status = "waiting_user"
    BY <1>0, <1>8 DEF ResumeAccepted, Row, TypeOK
  <2>2. /\ post' \in [state : {"none", "posted", "driving", "replied", "orphan"},
                      question : Nat]
        /\ post'.state \notin {"posted", "orphan"}
    BY <1>0, <1>8 DEF ResumeAccepted, NoPost, TypeOK
  <2>3. DriverShape' /\ status' = status /\ dpc' = "resaving"
    BY <1>8, <2>1, <2>2 DEF ResumeAccepted
  <2> QED BY <1>0, <1>8, <2>2, <2>3, AppendStep DEF ResumeAccepted, Events, TypeOK
<1>9. CASE CancelRun
  BY <1>0, <1>9, AppendStep DEF CancelRun, Events, Statuses, Terminal, postVars, TypeOK
<1> QED BY <1>1, <1>2, <1>3, <1>4, <1>5, <1>6, <1>7, <1>8, <1>9 DEF Driver

-----------------------------------------------------------------------------
(* The handlers                                                            *)

\* A step of one handler leaves the invariant of the others alone.
LEMMA OneStream ==
    ASSUME \A t \in Streams : StreamShape(t) /\ Woken(t) /\ Drained(t),
           NEW s \in Streams,
           \A t \in Streams \ {s} :
               /\ spc'[t] = spc[t] /\ lastSeq'[t] = lastSeq[t] /\ batch'[t] = batch[t]
               /\ received'[t] = received[t] /\ (t \in wake => t \in wake'),
           UNCHANGED <<log, status, unpublished>>,
           StreamShape(s)', Woken(s)', Drained(s)'
    PROVE  (\A t \in Streams : StreamShape(t) /\ Woken(t) /\ Drained(t))'
<1> SUFFICES ASSUME NEW t \in Streams
             PROVE  (StreamShape(t) /\ Woken(t) /\ Drained(t))'
  OBVIOUS
<1>1. CASE t = s
  BY <1>1
<1>2. CASE t # s
  <2>1. /\ spc'[t] = spc[t] /\ lastSeq'[t] = lastSeq[t] /\ batch'[t] = batch[t]
        /\ received'[t] = received[t] /\ (t \in wake => t \in wake')
    BY <1>2
  <2>2. StreamShape(t) /\ Woken(t) /\ Drained(t)
    OBVIOUS
  <2> QED BY <2>1, <2>2 DEF StreamShape, Woken, Drained
<1> QED BY <1>1, <1>2

\* What a step of a handler that neither lists nor writes leaves as it is, and
\* what the others see of any step.
LEMMA StreamStepEffect ==
    ASSUME TypeOK, NEW s \in Streams, NEW from, NEW to \in StreamStates,
           StreamStep(s, from, to)
    PROVE  /\ spc[s] = from /\ spc'[s] = to
           /\ spc' \in [Streams -> StreamStates]
           /\ \A t \in Streams \ {s} : spc'[t] = spc[t]
           /\ UNCHANGED <<log, status, dpc, unpublished, current, received, seen, ui, rpc,
                          readRun, readLog, post, reply, mishaps, failures>>
BY DEF StreamStep, TypeOK, StreamStates, dbVars, writerVars, readVars, postVars, envVars

\* A step of a handler that keeps the invariant of its stream keeps all of it.
LEMMA HandlerKeeps ==
    ASSUME IInv, NEW s \in Streams, NEW from, NEW to \in StreamStates,
           StreamStep(s, from, to),
           wake' \subseteq Streams, \A t \in Streams \ {s} : t \in wake => t \in wake',
           lastSeq' \in [Streams -> Nat], batch' \in [Streams -> Nat],
           \A t \in Streams \ {s} : lastSeq'[t] = lastSeq[t] /\ batch'[t] = batch[t],
           StreamShape(s)', Woken(s)', Drained(s)'
    PROVE  IInv'
<1>1. /\ TypeOK /\ DriverShape /\ SeenShape
      /\ \A t \in Streams : StreamShape(t) /\ Woken(t) /\ Drained(t)
  BY DEF IInv
<1>2. /\ spc' \in [Streams -> StreamStates]
      /\ \A t \in Streams \ {s} : spc'[t] = spc[t]
      /\ UNCHANGED <<log, status, dpc, unpublished, current, received, seen, ui, rpc,
                     readRun, readLog, post, reply, mishaps, failures>>
  BY <1>1, StreamStepEffect
<1>3. (\A t \in Streams : StreamShape(t) /\ Woken(t) /\ Drained(t))'
  BY <1>1, <1>2, OneStream
<1>4. TypeOK'
  BY <1>1, <1>2 DEF TypeOK, StreamStates
<1>5. DriverShape'
  BY <1>1, <1>2 DEF DriverShape
<1>6. SeenShape'
  BY <1>1, <1>2 DEF SeenShape
<1> QED BY <1>3, <1>4, <1>5, <1>6 DEF IInv

\* The steps of a handler.
LEMMA HandlerStep ==
    ASSUME IInv, NEW s \in Streams, Handler(s)
    PROVE  IInv'
<1>0. /\ TypeOK /\ Len(log) \in Nat /\ wake \subseteq Streams
      /\ lastSeq \in [Streams -> Nat] /\ batch \in [Streams -> Nat]
      /\ lastSeq[s] \in Nat /\ batch[s] \in Nat /\ received[s] \in Nat
      /\ StreamShape(s) /\ Woken(s) /\ Drained(s)
  BY DEF IInv, TypeOK
<1>1. CASE Subscribe(s)
  <2> DEFINE to == "listing"
  <2>1. StreamStep(s, "subscribing", to) /\ to \in StreamStates
    BY <1>1 DEF Subscribe, StreamStates
  <2>2. wake' = wake \ {s} /\ lastSeq' = lastSeq /\ batch' = batch
    BY <1>0, <1>1 DEF Subscribe
  <2>3. /\ spc[s] = "subscribing" /\ spc'[s] = to
        /\ UNCHANGED <<log, status, unpublished, received>>
    BY <1>0, <2>1, StreamStepEffect
  <2>4. StreamShape(s)' /\ Woken(s)' /\ Drained(s)'
    BY <1>0, <1>1, <2>2, <2>3 DEF Subscribe, StreamShape, Woken, Drained, Terminal
  <2> HIDE DEF to
  <2> QED BY <1>0, <2>1, <2>2, <2>4, HandlerKeeps
<1>2. CASE List(s)
  <2> DEFINE to == IF lastSeq[s] < Listed(s) THEN "writing" ELSE "checking"
  <2>1. StreamStep(s, "listing", to) /\ to \in StreamStates
    BY <1>2 DEF List, Listed, StreamStates
  <2>2. /\ wake' = wake /\ lastSeq' = lastSeq /\ batch' \in [Streams -> Nat]
        /\ batch'[s] = Len(log) /\ \A t \in Streams \ {s} : batch'[t] = batch[t]
    BY <1>0, <1>2 DEF List, Listed
  <2>3. /\ spc[s] = "listing" /\ spc'[s] = to
        /\ UNCHANGED <<log, status, unpublished, received>>
    BY <1>0, <2>1, StreamStepEffect
  <2>4. StreamShape(s)' /\ Woken(s)' /\ Drained(s)'
    BY <1>0, <1>2, <2>2, <2>3 DEF List, Listed, StreamShape, Woken, Drained, Terminal
  <2> HIDE DEF to
  <2> QED BY <1>0, <2>1, <2>2, <2>4, HandlerKeeps
<1>3. CASE WriteEvent(s, "writing", "checking")
  <2> DEFINE to == IF lastSeq[s] + 1 < batch[s] THEN "writing" ELSE "checking"
  <2>1. StreamStep(s, "writing", to) /\ to \in StreamStates
    BY <1>3 DEF WriteEvent, StreamStates
  <2>2. /\ wake' = wake /\ batch' = batch /\ lastSeq' \in [Streams -> Nat]
        /\ lastSeq'[s] = lastSeq[s] + 1 /\ \A t \in Streams \ {s} : lastSeq'[t] = lastSeq[t]
    BY <1>0, <1>3 DEF WriteEvent
  <2>3. /\ spc[s] = "writing" /\ spc'[s] = to
        /\ UNCHANGED <<log, status, unpublished, received>>
    BY <1>0, <2>1, StreamStepEffect
  <2>4. StreamShape(s)' /\ Woken(s)' /\ Drained(s)'
    BY <1>0, <1>3, <2>2, <2>3 DEF WriteEvent, StreamShape, Woken, Drained, Terminal
  <2> HIDE DEF to
  <2> QED BY <1>0, <2>1, <2>2, <2>4, HandlerKeeps
<1>4. CASE WriteEvent(s, "flushing", "ended")
  <2> DEFINE to == IF lastSeq[s] + 1 < batch[s] THEN "flushing" ELSE "ended"
  <2>1. StreamStep(s, "flushing", to) /\ to \in StreamStates
    BY <1>4 DEF WriteEvent, StreamStates
  <2>2. /\ wake' = wake /\ batch' = batch /\ lastSeq' \in [Streams -> Nat]
        /\ lastSeq'[s] = lastSeq[s] + 1 /\ \A t \in Streams \ {s} : lastSeq'[t] = lastSeq[t]
    BY <1>0, <1>4 DEF WriteEvent
  <2>3. /\ spc[s] = "flushing" /\ spc'[s] = to
        /\ UNCHANGED <<log, status, unpublished, received>>
    BY <1>0, <2>1, StreamStepEffect
  <2>4. StreamShape(s)' /\ Woken(s)' /\ Drained(s)'
    BY <1>0, <1>4, <2>2, <2>3 DEF WriteEvent, StreamShape, Woken, Drained, Terminal
  <2> HIDE DEF to
  <2> QED BY <1>0, <2>1, <2>2, <2>4, HandlerKeeps
<1>5. CASE CheckRun(s)
  <2> DEFINE to == IF status \in Terminal THEN "draining" ELSE "waiting"
  <2>1. StreamStep(s, "checking", to) /\ to \in StreamStates
    BY <1>5 DEF CheckRun, StreamStates
  <2>2. wake' = wake /\ lastSeq' = lastSeq /\ batch' = batch
    BY <1>0, <1>5 DEF CheckRun
  <2>3. /\ spc[s] = "checking" /\ spc'[s] = to
        /\ UNCHANGED <<log, status, unpublished, received>>
    BY <1>0, <2>1, StreamStepEffect
  <2>4. StreamShape(s)' /\ Woken(s)' /\ Drained(s)'
    BY <1>0, <1>5, <2>2, <2>3 DEF CheckRun, StreamShape, Woken, Drained, Terminal
  <2> HIDE DEF to
  <2> QED BY <1>0, <2>1, <2>2, <2>4, HandlerKeeps
<1>6. CASE Wake(s)
  <2> DEFINE to == "listing"
  <2>1. StreamStep(s, "waiting", to) /\ to \in StreamStates
    BY <1>6 DEF Wake, StreamStates
  <2>2. wake' = wake \ {s} /\ lastSeq' = lastSeq /\ batch' = batch
    BY <1>0, <1>6 DEF Wake
  <2>3. /\ spc[s] = "waiting" /\ spc'[s] = to
        /\ UNCHANGED <<log, status, unpublished, received>>
    BY <1>0, <2>1, StreamStepEffect
  <2>4. StreamShape(s)' /\ Woken(s)' /\ Drained(s)'
    BY <1>0, <1>6, <2>2, <2>3 DEF Wake, StreamShape, Woken, Drained, Terminal
  <2> HIDE DEF to
  <2> QED BY <1>0, <2>1, <2>2, <2>4, HandlerKeeps
<1>7. CASE KeepAlive(s)
  <2> DEFINE to == "checking"
  <2>1. StreamStep(s, "waiting", to) /\ to \in StreamStates
    BY <1>7 DEF KeepAlive, StreamStates
  <2>2. wake' = wake /\ lastSeq' = lastSeq /\ batch' = batch
    BY <1>0, <1>7 DEF KeepAlive
  <2>3. /\ spc[s] = "waiting" /\ spc'[s] = to
        /\ UNCHANGED <<log, status, unpublished, received>>
    BY <1>0, <2>1, StreamStepEffect
  <2>4. StreamShape(s)' /\ Woken(s)' /\ Drained(s)'
    BY <1>0, <1>7, <2>2, <2>3 DEF KeepAlive, StreamShape, Woken, Drained, Terminal
  <2> HIDE DEF to
  <2> QED BY <1>0, <2>1, <2>2, <2>4, HandlerKeeps
<1>8. CASE Drain(s)
  <2> DEFINE to == IF lastSeq[s] < Listed(s) THEN "flushing" ELSE "ended"
  <2>1. StreamStep(s, "draining", to) /\ to \in StreamStates
    BY <1>8 DEF Drain, Listed, StreamStates
  <2>2. /\ wake' = wake /\ lastSeq' = lastSeq /\ batch' \in [Streams -> Nat]
        /\ batch'[s] = Len(log) /\ \A t \in Streams \ {s} : batch'[t] = batch[t]
    BY <1>0, <1>8 DEF Drain, Listed
  <2>3. /\ spc[s] = "draining" /\ spc'[s] = to
        /\ UNCHANGED <<log, status, unpublished, received>>
    BY <1>0, <2>1, StreamStepEffect
  <2>4. StreamShape(s)' /\ Woken(s)' /\ Drained(s)'
    BY <1>0, <1>8, <2>2, <2>3 DEF Drain, Listed, StreamShape, Woken, Drained, Terminal
  <2> HIDE DEF to
  <2> QED BY <1>0, <2>1, <2>2, <2>4, HandlerKeeps
<1>9. CASE StreamGone(s)
  <2>1. /\ current # s
        /\ spc' = [spc EXCEPT ![s] = "closed"] /\ wake' = wake \ {s}
        /\ lastSeq' = [lastSeq EXCEPT ![s] = 0] /\ batch' = [batch EXCEPT ![s] = 0]
        /\ received' = [received EXCEPT ![s] = 0]
        /\ UNCHANGED <<log, status, dpc, unpublished, current, seen, ui, rpc, readRun,
                       readLog, post, reply, mishaps, failures>>
    BY <1>9 DEF StreamGone, dbVars, writerVars, readVars, postVars, envVars
  <2>2. /\ spc'[s] = "closed" /\ lastSeq'[s] = 0 /\ batch'[s] = 0 /\ received'[s] = 0
        /\ \A t \in Streams \ {s} :
              /\ spc'[t] = spc[t] /\ lastSeq'[t] = lastSeq[t] /\ batch'[t] = batch[t]
              /\ received'[t] = received[t] /\ (t \in wake => t \in wake')
    BY <1>0, <2>1 DEF TypeOK
  <2>3. StreamShape(s)' /\ Woken(s)' /\ Drained(s)'
    BY <1>0, <2>1, <2>2 DEF StreamShape, Woken, Drained
  <2>4. (\A t \in Streams : StreamShape(t) /\ Woken(t) /\ Drained(t))'
    BY <2>1, <2>2, <2>3, OneStream DEF IInv
  <2>5. TypeOK'
    BY <1>0, <2>1 DEF TypeOK
  <2>6. DriverShape'
    BY <2>1 DEF IInv, DriverShape
  <2>7. SeenShape'
    BY <2>1, <2>2 DEF IInv, SeenShape
  <2> QED BY <2>4, <2>5, <2>6, <2>7 DEF IInv
<1> QED BY <1>1, <1>2, <1>3, <1>4, <1>5, <1>6, <1>7, <1>8, <1>9 DEF Handler

\* Publish wakes every stream that has listed.
LEMMA PublishStep ==
    ASSUME IInv, NEW w \in {"driver", "canceller"}, Publish(w)
    PROVE  IInv'
<1>1. /\ unpublished' \subseteq unpublished
      /\ wake' = wake \cup {s \in Streams : Subscribed(s)}
      /\ UNCHANGED <<log, status, dpc, spc, lastSeq, batch, current, received, seen, ui,
                     rpc, readRun, readLog, post, reply, mishaps, failures>>
  BY DEF Publish, dbVars, readVars, postVars, envVars
<1>2. TypeOK'
  <2>1. TypeOK
    BY DEF IInv
  <2> QED BY <1>1, <2>1 DEF TypeOK
<1>3. ASSUME NEW s \in Streams PROVE (StreamShape(s) /\ Woken(s) /\ Drained(s))'
  <2>1. StreamShape(s) /\ Woken(s) /\ Drained(s)
    BY DEF IInv
  <2>2. StreamShape(s)' /\ Drained(s)'
    BY <1>1, <2>1 DEF StreamShape, Drained
  <2>3. Woken(s)'
    BY <1>1 DEF Woken, Subscribed
  <2> QED BY <2>2, <2>3
<1>4. DriverShape'
  BY <1>1 DEF IInv, DriverShape
<1>5. SeenShape'
  BY <1>1 DEF IInv, SeenShape
<1> QED BY <1>2, <1>3, <1>4, <1>5 DEF IInv

-----------------------------------------------------------------------------
(* The tab                                                                 *)

\* The types of what the tab holds.
TabTypes ==
    /\ seen \subseteq 1..Len(log)
    /\ ui \in Runs
    /\ rpc \in [Refreshes -> {"idle", "nothing", "connect"}]
    /\ readRun \in [Refreshes -> Runs]
    /\ readLog \in [Refreshes -> 0..Len(log)]
    /\ post \in [state : {"none", "posted", "driving", "replied", "orphan"},
                 question : Nat]
    /\ reply \in Runs
    /\ mishaps \in 0..MaxMishaps
    /\ failures \in Nat

\* A step of the tab that opens no stream.
LEMMA TabKeeps ==
    ASSUME IInv, UNCHANGED <<log, status, dpc, unpublished, spc, wake, lastSeq, batch>>,
           TabTypes', current' \in Streams \cup {NoStream}, received' \in [Streams -> Nat],
           \A s \in Streams : received'[s] <= lastSeq[s],
           post' = post \/ (post'.state \in {"posted", "orphan"} => post'.question # 0),
           SeenShape'
    PROVE  IInv'
<1>1. TypeOK'
  <2>1. TypeOK
    BY DEF IInv
  <2> QED BY <2>1 DEF TypeOK, TabTypes
<1>2. DriverShape'
  BY DEF IInv, DriverShape
<1>3. ASSUME NEW s \in Streams PROVE (StreamShape(s) /\ Woken(s) /\ Drained(s))'
  <2>1. StreamShape(s) /\ Woken(s) /\ Drained(s)
    BY DEF IInv
  <2> QED BY <2>1 DEF StreamShape, Woken, Drained
<1> QED BY <1>1, <1>2, <1>3 DEF IInv

\* A step of the tab that opens a stream behind an event that it shows.
LEMMA ConnectKeeps ==
    ASSUME IInv, UNCHANGED <<log, status, dpc, unpublished>>,
           TabTypes', NEW s \in Streams, NEW after \in 0..Len(log), Connect(s, after),
           post' = post \/ (post'.state \in {"posted", "orphan"} => post'.question # 0),
           failures' = 0 => \E hi \in 0..Len(log) : after <= hi /\ seen' = 1..hi
    PROVE  IInv'
<1>0. TypeOK /\ Len(log) \in Nat /\ after \in Nat
  BY DEF IInv, TypeOK
<1>1. /\ current' = s /\ wake' = wake
      /\ spc' = [spc EXCEPT ![s] = "subscribing"] /\ lastSeq' = [lastSeq EXCEPT ![s] = after]
      /\ batch' = [batch EXCEPT ![s] = after] /\ received' = [received EXCEPT ![s] = after]
  BY DEF Connect
<1>2. /\ spc'[s] = "subscribing" /\ lastSeq'[s] = after /\ batch'[s] = after
      /\ received'[s] = after
      /\ \A t \in Streams \ {s} :
            /\ spc'[t] = spc[t] /\ lastSeq'[t] = lastSeq[t] /\ batch'[t] = batch[t]
            /\ received'[t] = received[t] /\ (t \in wake => t \in wake')
  BY <1>0, <1>1 DEF TypeOK
<1>3. StreamShape(s)' /\ Woken(s)' /\ Drained(s)'
  BY <1>0, <1>2 DEF StreamShape, Woken, Drained
<1>4. (\A t \in Streams : StreamShape(t) /\ Woken(t) /\ Drained(t))'
  BY <1>2, <1>3, OneStream DEF IInv
<1>5. TypeOK'
  BY <1>0, <1>1 DEF TypeOK, TabTypes
<1>6. DriverShape'
  BY DEF IInv, DriverShape
<1>7. SeenShape'
  <2> SUFFICES ASSUME failures' = 0
               PROVE  \E hi \in 0..Len(log)' :
                          /\ seen' = 1..hi
                          /\ \A t \in Streams : current' = t => received'[t] <= hi
    BY DEF SeenShape
  <2>1. PICK hi \in 0..Len(log) : after <= hi /\ seen' = 1..hi
    OBVIOUS
  <2> QED BY <1>1, <1>2, <2>1
<1> QED BY <1>4, <1>5, <1>6, <1>7 DEF IInv

\* The steps of the tab that leave its events and its stream as they are, or close
\* the stream.
LEMMA QuietStep ==
    ASSUME IInv, UNCHANGED <<dbVars, writerVars, streamVars, received, seen>>,
           TabTypes', current' \in {current, NoStream}, failures' = failures,
           post' = post \/ (post'.state \in {"posted", "orphan"} => post'.question # 0)
    PROVE  IInv'
<1>1. UNCHANGED <<log, status, dpc, unpublished, spc, wake, lastSeq, batch>>
  BY DEF dbVars, writerVars, streamVars
<1>2. /\ current' \in Streams \cup {NoStream} /\ received' \in [Streams -> Nat]
      /\ \A s \in Streams : received'[s] <= lastSeq[s]
  BY DEF IInv, TypeOK, StreamShape
<1>3. SeenShape'
  BY <1>1, StreamAssumption DEF IInv, SeenShape
<1> QED BY <1>1, <1>2, <1>3, TabKeeps

\* The events of a refresh join those that are shown: both begin at the first.
LEMMA PrefixUnion ==
    ASSUME NEW n \in Nat, NEW a \in 0..n, NEW b \in 0..n
    PROVE  \E hi \in 0..n : a <= hi /\ b <= hi /\ 1..a \cup 1..b = 1..hi
<1>1. CASE a <= b
  <2>1. 1..a \cup 1..b = 1..b
    BY <1>1
  <2> QED BY <1>1, <2>1
<1>2. CASE ~(a <= b)
  <2>1. 1..a \cup 1..b = 1..a
    BY <1>2
  <2> QED BY <1>2, <2>1
<1> QED BY <1>1, <1>2

\* A stream brings the next event.
LEMMA ReceiveStep ==
    ASSUME IInv, NEW s \in Streams, NEW r \in Refreshes, Receive(s, r)
    PROVE  IInv'
<1>0. TypeOK /\ SeenShape /\ StreamShape(s) /\ Len(log) \in Nat /\ received[s] \in Nat
      /\ lastSeq[s] \in Nat /\ batch[s] \in Nat
  BY DEF IInv, TypeOK
<1> DEFINE n == received[s] + 1
<1>1. /\ UNCHANGED <<log, status, dpc, unpublished, spc, wake, lastSeq, batch, ui, readRun,
                     readLog, post, reply, mishaps, failures>>
      /\ rpc' \in [Refreshes -> {"idle", "nothing", "connect"}]
      /\ current' \in {current, NoStream} /\ current = s
      /\ seen' = seen \cup {n} /\ n <= lastSeq[s]
      /\ received' = [received EXCEPT ![s] = n]
  <2>1. /\ UNCHANGED <<log, status, dpc, unpublished, spc, wake, lastSeq, batch, ui,
                       post, reply, mishaps, failures>>
        /\ current = s /\ seen' = seen \cup {n} /\ received[s] < lastSeq[s]
        /\ received' = [received EXCEPT ![s] = n]
    BY DEF Receive, dbVars, writerVars, streamVars, postVars, envVars
  <2>2. \/ current' = NoStream /\ Refresh(r, "nothing")
        \/ UNCHANGED <<current, readVars>>
    BY DEF Receive
  <2>3. /\ UNCHANGED <<readRun, readLog>> /\ current' \in {current, NoStream}
        /\ rpc' \in [Refreshes -> {"idle", "nothing", "connect"}]
    BY <1>0, <2>2 DEF Refresh, readVars, TypeOK
  <2>4. n <= lastSeq[s]
    BY <1>0, <2>1
  <2> QED BY <2>1, <2>3, <2>4
<1>2. n \in 1..Len(log)
  BY <1>0, <1>1 DEF StreamShape
<1>3. /\ received' \in [Streams -> Nat] /\ received'[s] = n
      /\ \A t \in Streams \ {s} : received'[t] = received[t]
  BY <1>0, <1>1, <1>2 DEF TypeOK
<1> HIDE DEF n
<1>4. \A t \in Streams : received'[t] <= lastSeq[t]
  BY <1>1, <1>3 DEF IInv, StreamShape
<1>5. TabTypes'
  BY <1>0, <1>1, <1>2 DEF TypeOK, TabTypes
<1>6. SeenShape'
  <2> SUFFICES ASSUME failures = 0
               PROVE  \E hi \in 0..Len(log) :
                          /\ seen' = 1..hi
                          /\ \A t \in Streams : current' = t => received'[t] <= hi
    BY <1>1 DEF SeenShape
  <2>1. PICK hi \in 0..Len(log) : seen = 1..hi /\ received[s] <= hi
    BY <1>0, <1>1 DEF SeenShape
  <2>2. n <= hi + 1
    BY <1>0, <2>1 DEF n
  <2>3. CASE n <= hi
    <3>1. seen' = 1..hi
      BY <1>1, <1>2, <2>1, <2>3
    <3> QED BY <1>1, <1>3, <2>3, <3>1, StreamAssumption
  <2>4. CASE n = hi + 1
    <3>1. seen' = 1..n
      BY <1>1, <1>2, <2>1, <2>4
    <3>2. n \in 0..Len(log) /\ n <= n
      BY <1>2
    <3> QED BY <1>1, <1>3, <3>1, <3>2, StreamAssumption
  <2> QED BY <1>2, <2>1, <2>2, <2>3, <2>4
<1> QED BY <1>0, <1>1, <1>3, <1>4, <1>5, <1>6, TabKeeps DEF TypeOK

\* A refresh is answered.
LEMMA RefreshApplyStep ==
    ASSUME IInv, NEW r \in Refreshes, RefreshApply(r)
    PROVE  IInv'
<1> DEFINE n == readLog[r]
<1>0. /\ TypeOK /\ SeenShape /\ Len(log) \in Nat /\ n \in 0..Len(log)
      /\ \A s \in Streams : StreamShape(s)
      /\ seen \in SUBSET (1..Len(log))
  BY DEF IInv, TypeOK
<1>1. /\ UNCHANGED <<log, status, dpc, unpublished, post, reply, mishaps, failures>>
      /\ ui' = readRun[r] /\ seen' = seen \cup 1..n
      /\ rpc' = [rpc EXCEPT ![r] = "idle"]
      /\ readRun' = [readRun EXCEPT ![r] = Unread]
      /\ readLog' = [readLog EXCEPT ![r] = 0]
  BY DEF RefreshApply, RefreshDone, dbVars, writerVars, postVars, envVars
<1>2. seen' \in SUBSET (1..Len(log))
  <2>1. 1..n \subseteq 1..Len(log)
    BY <1>0
  <2>2. seen' = seen \cup 1..n
    BY <1>1
  <2>3. seen \in SUBSET (1..Len(log))
    BY <1>0
  <2> QED BY <2>1, <2>2, <2>3, Zenon
<1>3. TabTypes'
  <2>1. Unread \in Runs
    BY DEF Unread, Nothing, Runs
  <2> QED BY <1>0, <1>1, <1>2, <2>1 DEF TypeOK, TabTypes
<1>4. failures = 0 => \E old, hi \in 0..Len(log) :
                          /\ seen = 1..old /\ seen' = 1..hi /\ old <= hi
                          /\ \A s \in Streams : current = s => received[s] <= old
  <2> SUFFICES ASSUME failures = 0
               PROVE  \E old, hi \in 0..Len(log) :
                          /\ seen = 1..old /\ seen' = 1..hi /\ old <= hi
                          /\ \A s \in Streams : current = s => received[s] <= old
    OBVIOUS
  <2>1. PICK old \in 0..Len(log) :
            seen = 1..old /\ \A s \in Streams : current = s => received[s] <= old
    BY <1>0 DEF SeenShape
  <2>2. PICK hi \in 0..Len(log) : old <= hi /\ 1..old \cup 1..n = 1..hi
    BY <1>0, <2>1, PrefixUnion
  <2> QED BY <1>1, <2>1, <2>2
<1> HIDE DEF n
<1>5. CASE UNCHANGED <<streamVars, current, received>>
  <2>1. UNCHANGED <<spc, wake, lastSeq, batch, current, received>>
    BY <1>5 DEF streamVars
  <2>2. /\ current' \in Streams \cup {NoStream} /\ received' \in [Streams -> Nat]
        /\ \A s \in Streams : received[s] \in Nat
        /\ \A s \in Streams : received'[s] <= lastSeq[s]
    BY <1>0, <2>1 DEF TypeOK, StreamShape
  <2>3. SeenShape'
    <3> SUFFICES ASSUME failures = 0
                 PROVE  \E hi \in 0..Len(log) :
                            /\ seen' = 1..hi
                            /\ \A s \in Streams : current = s => received[s] <= hi
      BY <1>1, <2>1 DEF SeenShape
    <3>1. PICK old \in 0..Len(log), hi \in 0..Len(log) :
              /\ seen = 1..old /\ seen' = 1..hi /\ old <= hi
              /\ \A s \in Streams : current = s => received[s] <= old
      BY <1>4
    <3> QED BY <2>2, <3>1
  <2> QED BY <1>1, <1>3, <2>1, <2>2, <2>3, TabKeeps
<1>6. ASSUME NEW s \in Streams, NEW S \in {seen, seen'}, Connect(s, AfterSeq(S))
      PROVE  IInv'
  <2>1. AfterSeq(S) \in 0..Len(log)
    BY <1>0, <1>2, <1>6, AfterSeqType
  <2>2. failures' = 0 => \E hi \in 0..Len(log) : AfterSeq(S) <= hi /\ seen' = 1..hi
    <3> SUFFICES ASSUME failures = 0
                 PROVE  \E hi \in 0..Len(log) : AfterSeq(S) <= hi /\ seen' = 1..hi
      BY <1>1
    <3>1. PICK old \in 0..Len(log), hi \in 0..Len(log) :
              seen = 1..old /\ seen' = 1..hi /\ old <= hi
      BY <1>4
    <3>2. Last(1..old) = old /\ Last(1..hi) = hi
      BY <3>1, LastOfPrefix
    <3>3. AfterSeq(S) \in {old, hi}
      BY <1>6, <3>1, <3>2 DEF AfterSeq
    <3> QED BY <1>0, <3>1, <3>3
  <2> HIDE DEF AfterSeq
  <2> QED BY <1>1, <1>3, <1>6, <2>1, <2>2, ConnectKeeps
<1> QED BY <1>5, <1>6 DEF RefreshApply

\* The steps of the user that open a stream.
LEMMA OpenStep ==
    ASSUME IInv, NEW s \in Streams, Start(s) \/ Resume(s)
    PROVE  IInv'
<1>0. TypeOK /\ SeenShape /\ Len(log) \in Nat /\ seen \in SUBSET (1..Len(log))
  BY DEF IInv, TypeOK
<1>1. CASE Start(s)
  <2>1. /\ UNCHANGED <<log, status, dpc, unpublished, rpc, readRun, readLog, post, reply,
                       mishaps, failures>>
        /\ ui' = [status |-> "running", pending |-> 0] /\ seen' = {} /\ Connect(s, 0)
    BY <1>1 DEF Start, dbVars, writerVars, readVars, postVars, envVars
  <2>2. TabTypes'
    BY <1>0, <2>1 DEF TypeOK, TabTypes, Runs, Statuses
  <2>3. 0 \in 0..Len(log) /\ 0 <= 0 /\ seen' = 1..0
    BY <1>0, <2>1
  <2> QED BY <2>1, <2>2, <2>3, ConnectKeeps
<1>2. CASE Resume(s)
  <2>1. /\ UNCHANGED <<log, status, dpc, unpublished, seen, rpc, readRun, readLog, reply,
                       mishaps, failures>>
        /\ ui.pending # 0 /\ post' = [state |-> "posted", question |-> ui.pending]
        /\ ui' = [ui EXCEPT !.status = "running"] /\ Connect(s, AfterSeq(seen))
    BY <1>2 DEF Resume, dbVars, writerVars, readVars, envVars
  <2>2. TabTypes'
    BY <1>0, <2>1 DEF TypeOK, TabTypes, Runs, Statuses
  <2>3. AfterSeq(seen) \in 0..Len(log)
    BY <1>0, AfterSeqType
  <2>4. failures' = 0 => \E hi \in 0..Len(log) : AfterSeq(seen) <= hi /\ seen' = 1..hi
    <3> SUFFICES ASSUME failures = 0
                 PROVE  \E hi \in 0..Len(log) : AfterSeq(seen) <= hi /\ seen' = 1..hi
      BY <2>1
    <3>1. PICK hi \in 0..Len(log) : seen = 1..hi
      BY <1>0 DEF SeenShape
    <3>2. AfterSeq(seen) = hi
      BY <3>1, LastOfPrefix DEF AfterSeq
    <3> QED BY <1>0, <2>1, <3>1, <3>2
  <2> QED BY <2>1, <2>2, <2>3, <2>4, ConnectKeeps
<1> QED BY <1>1, <1>2

\* A resume request that the tab no longer waits for still names its question.
LEMMA AbandonedType ==
    ASSUME TypeOK, DriverShape
    PROVE  /\ Abandoned \in [state : {"none", "posted", "driving", "replied", "orphan"},
                             question : Nat]
           /\ Abandoned.state \in {"posted", "orphan"} => Abandoned.question # 0
<1>1. CASE post.state \in {"posted", "orphan"}
  <2>1. Abandoned = [post EXCEPT !.state = "orphan"]
    BY <1>1 DEF Abandoned
  <2> QED BY <1>1, <2>1 DEF TypeOK, DriverShape
<1>2. CASE post.state \notin {"posted", "orphan"}
  BY <1>2 DEF Abandoned, NoPost
<1> QED BY <1>1, <1>2

\* The other steps of the tab and of the resume request.
LEMMA OtherTabStep ==
    ASSUME IInv, \/ \E s \in Streams, r \in Refreshes : StreamEnd(s, r) \/ StreamDrops(s, r)
                 \/ \E r \in Refreshes : \/ Reload(r) \/ Reconnect(r) \/ ResumeReturns(r)
                                         \/ RefreshReadsRun(r) \/ RefreshReadsLog(r)
                                         \/ RefreshFails(r)
                 \/ ResumeEnds \/ ResumeRejected \/ ResumeFails
    PROVE  IInv'
<1>0. /\ TypeOK /\ DriverShape /\ Len(log) \in Nat /\ Row \in Runs
      /\ Nothing \in Runs /\ Unread \in Runs /\ MaxMishaps \in Nat
      /\ Abandoned \in [state : {"none", "posted", "driving", "replied", "orphan"},
                        question : Nat]
      /\ Abandoned.state \in {"posted", "orphan"} => Abandoned.question # 0
  <2>1. TypeOK /\ DriverShape /\ Len(log) \in Nat /\ MaxMishaps \in Nat
    BY StreamAssumption DEF IInv, TypeOK
  <2>2. Nothing \in Runs /\ Unread \in Runs
    BY DEF Nothing, Unread, Runs
  <2> QED BY <2>1, <2>2, RowType, AbandonedType
<1>1. ASSUME NEW s \in Streams, NEW r \in Refreshes, StreamEnd(s, r) PROVE IInv'
  <2>1. /\ UNCHANGED <<dbVars, writerVars, streamVars, received, seen, failures>>
        /\ current' \in {current, NoStream}
        /\ post' = post \/ (post'.state \in {"posted", "orphan"} => post'.question # 0)
    BY <1>0, <1>1 DEF StreamEnd, Disconnected, Refresh, postVars, envVars
  <2>2. TabTypes'
    BY <1>0, <1>1 DEF StreamEnd, Disconnected, Refresh, dbVars, postVars, envVars,
                      TypeOK, TabTypes
  <2> QED BY <2>1, <2>2, QuietStep
<1>2. ASSUME NEW s \in Streams, NEW r \in Refreshes, StreamDrops(s, r) PROVE IInv'
  <2>1. /\ UNCHANGED <<dbVars, writerVars, streamVars, received, seen, failures>>
        /\ current' \in {current, NoStream}
        /\ post' = post \/ (post'.state \in {"posted", "orphan"} => post'.question # 0)
    BY <1>0, <1>2 DEF StreamDrops, Mishap, Disconnected, Refresh, dbVars, postVars,
                      DriverShape
  <2>2. TabTypes'
    BY <1>0, <1>2 DEF StreamDrops, Mishap, Disconnected, Refresh, dbVars, postVars,
                      TypeOK, TabTypes
  <2> QED BY <2>1, <2>2, QuietStep
<1>3. ASSUME NEW r \in Refreshes, Reconnect(r) PROVE IInv'
  <2>1. /\ UNCHANGED <<dbVars, writerVars, streamVars, received, seen, failures>>
        /\ current' \in {current, NoStream}
        /\ post' = post \/ (post'.state \in {"posted", "orphan"} => post'.question # 0)
    BY <1>0, <1>3 DEF Reconnect, Mishap, Refresh, dbVars, postVars, DriverShape
  <2>2. TabTypes'
    BY <1>0, <1>3 DEF Reconnect, Mishap, Refresh, dbVars, postVars, TypeOK, TabTypes
  <2> QED BY <2>1, <2>2, QuietStep
<1>4. ASSUME NEW r \in Refreshes, ResumeReturns(r) PROVE IInv'
  <2>1. /\ UNCHANGED <<dbVars, writerVars, streamVars, received, seen, failures>>
        /\ current' \in {current, NoStream}
        /\ post' = post \/ (post'.state \in {"posted", "orphan"} => post'.question # 0)
    BY <1>0, <1>4 DEF ResumeReturns, Refresh, NoPost, dbVars, envVars, DriverShape
  <2>2. TabTypes'
    BY <1>0, <1>4 DEF ResumeReturns, Refresh, NoPost, dbVars, envVars, TypeOK, TabTypes
  <2> QED BY <2>1, <2>2, QuietStep
<1>5. ASSUME NEW r \in Refreshes, RefreshReadsRun(r) PROVE IInv'
  <2>1. /\ UNCHANGED <<dbVars, writerVars, streamVars, received, seen, failures>>
        /\ current' \in {current, NoStream}
        /\ post' = post \/ (post'.state \in {"posted", "orphan"} => post'.question # 0)
    BY <1>0, <1>5 DEF RefreshReadsRun, dbVars, postVars, envVars, DriverShape
  <2>2. TabTypes'
    BY <1>0, <1>5 DEF RefreshReadsRun, dbVars, postVars, envVars, TypeOK, TabTypes
  <2> QED BY <2>1, <2>2, QuietStep
<1>6. ASSUME NEW r \in Refreshes, RefreshReadsLog(r) PROVE IInv'
  <2>1. /\ UNCHANGED <<dbVars, writerVars, streamVars, received, seen, failures>>
        /\ current' \in {current, NoStream}
        /\ post' = post \/ (post'.state \in {"posted", "orphan"} => post'.question # 0)
    BY <1>0, <1>6 DEF RefreshReadsLog, dbVars, postVars, envVars, DriverShape
  <2>2. TabTypes'
    BY <1>0, <1>6 DEF RefreshReadsLog, dbVars, postVars, envVars, TypeOK, TabTypes
  <2> QED BY <2>1, <2>2, QuietStep
<1>7. ASSUME ResumeEnds PROVE IInv'
  <2>1. /\ UNCHANGED <<dbVars, writerVars, streamVars, received, seen, failures>>
        /\ current' \in {current, NoStream}
        /\ post' = post \/ (post'.state \in {"posted", "orphan"} => post'.question # 0)
    BY <1>0, <1>7 DEF ResumeEnds, dbVars, readVars, envVars, DriverShape
  <2>2. TabTypes'
    BY <1>0, <1>7 DEF ResumeEnds, dbVars, readVars, envVars, TypeOK, TabTypes
  <2> QED BY <2>1, <2>2, QuietStep
<1>8. ASSUME ResumeRejected PROVE IInv'
  <2>1. /\ UNCHANGED <<dbVars, writerVars, streamVars, received, seen, failures>>
        /\ current' \in {current, NoStream}
        /\ post' = post \/ (post'.state \in {"posted", "orphan"} => post'.question # 0)
    BY <1>0, <1>8 DEF ResumeRejected, Disconnected, NoPost, dbVars, readVars, envVars,
                      DriverShape
  <2>2. TabTypes'
    BY <1>0, <1>8 DEF ResumeRejected, Disconnected, NoPost, dbVars, readVars, envVars,
                      TypeOK, TabTypes
  <2> QED BY <2>1, <2>2, QuietStep
<1>9. ASSUME ResumeFails PROVE IInv'
  <2>1. /\ UNCHANGED <<dbVars, writerVars, streamVars, received, seen, failures>>
        /\ current' \in {current, NoStream}
        /\ post' = post \/ (post'.state \in {"posted", "orphan"} => post'.question # 0)
    BY <1>0, <1>9 DEF ResumeFails, Disconnected
  <2>2. TabTypes'
    BY <1>0, <1>9 DEF ResumeFails, Mishap, Disconnected, dbVars, readVars, TypeOK, TabTypes
  <2> QED BY <2>1, <2>2, QuietStep
<1>10. ASSUME NEW r \in Refreshes, Reload(r) \/ RefreshFails(r) PROVE IInv'
  <2>1. /\ UNCHANGED <<log, status, dpc, unpublished, spc, wake, lastSeq, batch, received>>
        /\ seen' = {} /\ current' \in {current, NoStream}
        /\ (failures' = failures /\ current' = NoStream) \/ failures' = failures + 1
        /\ post' \in {post, Abandoned}
    <3>1. CASE Reload(r)
      BY <3>1 DEF Reload, Disconnected, dbVars, writerVars, streamVars
    <3>2. CASE RefreshFails(r)
      BY <3>2 DEF RefreshFails, dbVars, writerVars, streamVars, postVars
    <3> QED BY <1>10, <3>1, <3>2
  <2>2. TabTypes'
    <3>1. /\ ui' \in Runs /\ reply' \in Runs /\ mishaps' \in 0..MaxMishaps
          /\ failures' \in Nat
      <4>1. mishaps' = mishaps + 1 /\ mishaps < MaxMishaps
        BY <1>10 DEF Reload, RefreshFails, Mishap
      <4>2. ui' = Nothing /\ reply' \in {reply, Nothing}
        BY <1>10 DEF Reload, RefreshFails, postVars
      <4> QED BY <1>0, <2>1, <4>1, <4>2 DEF TypeOK
    <3>2. /\ rpc' \in [Refreshes -> {"idle", "nothing", "connect"}]
          /\ readRun' \in [Refreshes -> Runs] /\ readLog' \in [Refreshes -> 0..Len(log)]
      <4>1. CASE Reload(r)
        BY <1>0, <4>1 DEF Reload
      <4>2. CASE RefreshFails(r)
        BY <1>0, <4>2 DEF RefreshFails, RefreshDone, TypeOK
      <4> QED BY <1>10, <4>1, <4>2
    <3>3. post' \in [state : {"none", "posted", "driving", "replied", "orphan"},
                     question : Nat]
      BY <1>0, <2>1 DEF TypeOK
    <3> QED BY <2>1, <3>1, <3>2, <3>3 DEF TabTypes
  <2>3. /\ current' \in Streams \cup {NoStream} /\ received' \in [Streams -> Nat]
        /\ \A s \in Streams : received'[s] <= lastSeq[s]
    BY <1>0, <2>1 DEF IInv, TypeOK, StreamShape
  <2>4. SeenShape'
    <3> SUFFICES ASSUME failures' = 0
                 PROVE  \E hi \in 0..Len(log)' :
                            /\ seen' = 1..hi
                            /\ \A s \in Streams : current' = s => received'[s] <= hi
      BY DEF SeenShape
    <3>1. current' = NoStream
      BY <1>0, <2>1 DEF TypeOK
    <3>2. 0 \in 0..Len(log)' /\ seen' = 1..0
      BY <1>0, <2>1
    <3> QED BY <3>1, <3>2, StreamAssumption
  <2> QED BY <1>0, <2>1, <2>2, <2>3, <2>4, TabKeeps
<1> QED BY <1>1, <1>2, <1>3, <1>4, <1>5, <1>6, <1>7, <1>8, <1>9, <1>10

-----------------------------------------------------------------------------
(* The theorems                                                            *)

\* Every step keeps the invariant.
LEMMA NextIInv == IInv /\ [Next]_vars => IInv'
<1> SUFFICES ASSUME IInv, [Next]_vars PROVE IInv' OBVIOUS
<1>1. CASE Driver \/ ResumeAccepted \/ CancelRun
  BY <1>1, WriterStep
<1>2. CASE \E w \in {"driver", "canceller"} : Publish(w)
  BY <1>2, PublishStep
<1>3. CASE \E s \in Streams : Handler(s)
  BY <1>3, HandlerStep
<1>4. CASE Tab \/ ResumeEnds
  BY <1>4, ReceiveStep, OtherTabStep DEF Tab
<1>5. CASE \E r \in Refreshes : RefreshStep(r)
  BY <1>5, RefreshApplyStep, OtherTabStep DEF RefreshStep
<1>6. CASE User
  BY <1>6, OpenStep, OtherTabStep DEF User
<1>7. CASE Fault
  BY <1>7, OtherTabStep DEF Fault
<1>8. CASE UNCHANGED vars
  <2>1. UNCHANGED <<log, status, dpc, unpublished, spc, wake, lastSeq, batch, current,
                    received, seen, ui, rpc, readRun, readLog, post, reply, mishaps,
                    failures>>
    BY <1>8 DEF vars, dbVars, writerVars, streamVars, readVars, postVars, envVars
  <2>2. TypeOK' /\ DriverShape' /\ SeenShape'
    BY <2>1 DEF IInv, TypeOK, DriverShape, SeenShape
  <2>3. ASSUME NEW s \in Streams PROVE (StreamShape(s) /\ Woken(s) /\ Drained(s))'
    BY <2>1 DEF IInv, StreamShape, Woken, Drained
  <2> QED BY <2>2, <2>3 DEF IInv
<1> QED BY <1>1, <1>2, <1>3, <1>4, <1>5, <1>6, <1>7, <1>8 DEF Next

\* The invariant holds in every reachable state.
THEOREM Invariance == Spec => []IInv
BY InitIInv, NextIInv, PTL DEF Spec

\* The log, the handlers and the tab keep their types; the tab shows no event that
\* is not in the log.
THEOREM TypeCorrect == Spec => []TypeOK
<1>1. IInv => TypeOK
  BY DEF IInv
<1> QED BY <1>1, Invariance, PTL

\* Publish, subscribeAndList and the select of streamEvents lose no wakeup, for any
\* number of streams and events.
THEOREM WakeupsKept == Spec => []NoLostWakeup
<1>1. IInv => NoLostWakeup
  BY DEF IInv, StreamShape, Woken, NoLostWakeup
<1> QED BY <1>1, Invariance, PTL

\* streamEvents ends on a cancelled run with the whole log sent.
THEOREM CancelReachesStream == Spec => []CancelDelivered
<1>1. IInv => CancelDelivered
  BY DEF IInv, Drained, CancelDelivered
<1> QED BY <1>1, Invariance, PTL

\* The events that useAgentRun shows have no gap while no refresh has failed.
THEOREM NoGapShown == Spec => []SeenIsPrefix
<1>1. IInv => SeenIsPrefix
  BY DEF IInv, SeenShape, SeenIsPrefix
<1> QED BY <1>1, Invariance, PTL
=============================================================================
