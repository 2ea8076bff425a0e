---------------------------- MODULE EventStream ----------------------------
(***************************************************************************)
(* How a browser follows an agent run: the event log and status that the   *)
(* run's goroutine writes, the in-process EventBroker, the SSE handlers    *)
(* (streamEvents) and the hook of one browser tab (useAgentRun).           *)
(*                                                                         *)
(* An event's seq is its place in the log.  An event is appended in one    *)
(* transaction and published in a later step; every statement, every wait  *)
(* and every response is a step of its own.  The driver here is what       *)
(* AgentRun shows of a run: one goroutine at a time, and a cancel request. *)
(***************************************************************************)
EXTENDS Naturals, Sequences

CONSTANTS
    Streams,       \* stream requests; an id is used again after it was closed
    Refreshes,     \* refresh calls of the tab; likewise
    MaxEvents,     \* bound on the events before the run must end
    MaxMishaps,    \* bound on reloads, reconnects, drops and failed requests
    NoStream       \* the tab has no EventSource

ASSUME StreamAssumption ==
    /\ MaxEvents \in Nat
    /\ MaxMishaps \in Nat
    /\ NoStream \notin Streams

VARIABLES
    \* agent_runs and agent_events
    log,
    status,
    \* the writers
    dpc,          \* the run's goroutine
    unpublished,  \* writers between the commit of an event and Publish
    \* the stream handlers
    spc,
    wake,         \* handlers whose Subscription.Wake holds a token
    lastSeq,
    batch,        \* the last event of the list that is being written
    \* the tab
    current,      \* the stream of its EventSource
    received,     \* the last event that reached the tab, by stream
    seen,         \* events, by seq
    ui,           \* run: the status and pending call that the tab shows
    rpc,          \* refresh calls: what follows them, or idle
    readRun,      \* their responses
    readLog,
    post,         \* the resume request: its progress and the question it answers
    reply,        \* its response
    \* environment and history
    mishaps,      \* reloads, clicks on reconnect and faults so far
    failures      \* refreshes that failed

dbVars     == <<log, status>>
writerVars == <<dpc, unpublished>>
streamVars == <<spc, wake, lastSeq, batch>>
readVars   == <<rpc, readRun, readLog>>
postVars   == <<post, reply>>
envVars    == <<mishaps, failures>>
vars       == <<dbVars, writerVars, streamVars, current, received, seen, ui,
                readVars, postVars, envVars>>

Events   == {"step", "tool.pending", "tool.result", "run.finished", "run.cancelled"}
Statuses == {"running", "waiting_user", "completed", "cancelled"}
Terminal == {"completed", "cancelled"}

\* The tab closes its stream at these events and reads the run again.
Closing == {"tool.pending", "run.finished", "run.cancelled"}

Nothing == [status |-> "none", pending |-> 0]
Unread  == Nothing
NoPost  == [state |-> "none", question |-> 0]

Runs == [status : Statuses \cup {"none"}, pending : Nat]

\* The last of a set of events, 0 if there is none.
Last(S) == IF S = {} THEN 0 ELSE CHOOSE n \in S : \A m \in S : m <= n

\* The last question in the log.
Question == Last({n \in 1..Len(log) : log[n] = "tool.pending"})

\* The row as the API returns it.
Row == [status |-> status,
        pending |-> IF status = "waiting_user" THEN Question ELSE 0]

Init ==
    /\ log = <<"step">>
    /\ status = "running"
    /\ dpc = "working"
    /\ unpublished = {}
    /\ spc = [s \in Streams |-> "closed"]
    /\ wake = {}
    /\ lastSeq = [s \in Streams |-> 0]
    /\ batch = [s \in Streams |-> 0]
    /\ current = NoStream
    /\ received = [s \in Streams |-> 0]
    /\ seen = {}
    /\ ui = Nothing
    /\ rpc = [r \in Refreshes |-> "idle"]
    /\ readRun = [r \in Refreshes |-> Unread]
    /\ readLog = [r \in Refreshes |-> 0]
    /\ post = NoPost
    /\ reply = Nothing
    /\ mishaps = 0
    /\ failures = 0

-----------------------------------------------------------------------------
(* The run                                                                 *)

\* appendEvent up to its commit.
AppendEvent(w, type) ==
    /\ w \notin unpublished
    /\ status # "cancelled"
    /\ log' = Append(log, type)
    /\ unpublished' = unpublished \cup {w}

\* The goroutine appends an event that changes nothing but the log.
DriverEvent ==
    /\ dpc = "working"
    /\ Len(log) < MaxEvents
    /\ AppendEvent("driver", "step")
    /\ UNCHANGED <<status, dpc, streamVars, current, received, seen, ui, readVars,
                   postVars, envVars>>

\* RequestUserInputForCall: tool.pending first ...
DriverAsk ==
    /\ dpc = "working"
    /\ Len(log) < MaxEvents
    /\ AppendEvent("driver", "tool.pending")
    /\ dpc' = "parking"
    /\ UNCHANGED <<status, streamVars, current, received, seen, ui, readVars,
                   postVars, envVars>>

\* ... then the status.
DriverPark ==
    /\ dpc = "parking"
    /\ "driver" \notin unpublished
    /\ status # "cancelled"
    /\ status' = "waiting_user"
    /\ dpc' = "parked"
    /\ UNCHANGED <<log, unpublished, streamVars, current, received, seen, ui,
                   readVars, postVars, envVars>>

\* ResumeToolCall accepts the answer: the result first ...
ResumeAccepted ==
    /\ post.state \in {"posted", "orphan"}
    /\ Row.pending = post.question
    /\ AppendEvent("driver", "tool.result")
    /\ dpc' = "resaving"
    /\ post' = IF post.state = "posted" THEN [post EXCEPT !.state = "driving"] ELSE NoPost
    /\ UNCHANGED <<status, streamVars, current, received, seen, ui, readVars, reply,
                   envVars>>

\* ... then the status, and the loop goes on.
DriverResaves ==
    /\ dpc = "resaving"
    /\ "driver" \notin unpublished
    /\ status # "cancelled"
    /\ status' = "running"
    /\ dpc' = "working"
    /\ UNCHANGED <<log, unpublished, streamVars, current, received, seen, ui,
                   readVars, postVars, envVars>>

\* CompleteRun and FailRun: the status first, then the event.
DriverEnd ==
    /\ dpc = "working"
    /\ "driver" \notin unpublished
    /\ status # "cancelled"
    /\ status' = "completed"
    /\ dpc' = "ending"
    /\ UNCHANGED <<log, unpublished, streamVars, current, received, seen, ui,
                   readVars, postVars, envVars>>

DriverAnnounce ==
    /\ dpc = "ending"
    /\ AppendEvent("driver", "run.finished")
    /\ dpc' = "gone"
    /\ UNCHANGED <<status, streamVars, current, received, seen, ui, readVars,
                   postVars, envVars>>

\* A write of the goroutine is refused: the run was cancelled.
DriverRefused ==
    /\ dpc \in {"working", "parking", "resaving"}
    /\ "driver" \notin unpublished
    /\ status = "cancelled"
    /\ dpc' = "gone"
    /\ UNCHANGED <<dbVars, unpublished, streamVars, current, received, seen, ui,
                   readVars, postVars, envVars>>

\* CancelRun: the status and run.cancelled in one transaction.
CancelRun ==
    /\ status \in {"running", "waiting_user"}
    /\ AppendEvent("canceller", "run.cancelled")
    /\ status' = "cancelled"
    /\ UNCHANGED <<dpc, streamVars, current, received, seen, ui, readVars, postVars,
                   envVars>>

-----------------------------------------------------------------------------
(* The broker and the stream handlers                                      *)

\* Faulty form of Subscribed: a channel for each wait only.
SubscribedToWait(s) == spc[s] = "waiting"

\* The broker holds the channel of s.
Subscribed(s) == spc[s] \notin {"closed", "subscribing", "ended"}

\* Publish: a token for every subscriber that has none.
Publish(w) ==
    /\ w \in unpublished
    /\ unpublished' = unpublished \ {w}
    /\ wake' = wake \cup {s \in Streams : Subscribed(s)}
    /\ UNCHANGED <<dbVars, dpc, spc, lastSeq, batch, current, received, seen, ui,
                   readVars, postVars, envVars>>

StreamStep(s, from, to) ==
    /\ spc[s] = from
    /\ spc' = [spc EXCEPT ![s] = to]
    /\ UNCHANGED <<dbVars, writerVars, current, received, seen, ui, readVars,
                   postVars, envVars>>

\* subscribeAndList: a new channel ...
Subscribe(s) ==
    /\ StreamStep(s, "subscribing", "listing")
    /\ wake' = wake \ {s}
    /\ UNCHANGED <<lastSeq, batch>>

\* Faulty form of Listed: one event at a time.
ListedOne(s) == IF lastSeq[s] < Len(log) THEN lastSeq[s] + 1 ELSE lastSeq[s]

\* ListEvents: all events behind lastSeq.
Listed(s) == Len(log)

\* ... and the history; later, the list after a token.
List(s) ==
    /\ StreamStep(s, "listing", IF lastSeq[s] < Listed(s) THEN "writing" ELSE "checking")
    /\ batch' = [batch EXCEPT ![s] = Listed(s)]
    /\ UNCHANGED <<wake, lastSeq>>

\* One event of the list is written; the last one ends the loop over the list.
WriteEvent(s, from, to) ==
    /\ StreamStep(s, from, IF lastSeq[s] + 1 < batch[s] THEN from ELSE to)
    /\ lastSeq' = [lastSeq EXCEPT ![s] = @ + 1]
    /\ UNCHANGED <<wake, batch>>

\* GetOwnedRun: a terminal status ends the stream.
CheckRun(s) ==
    /\ StreamStep(s, "checking", IF status \in Terminal THEN "draining" ELSE "waiting")
    /\ UNCHANGED <<wake, lastSeq, batch>>

\* The select takes the token ...
Wake(s) ==
    /\ s \in wake
    /\ StreamStep(s, "waiting", "listing")
    /\ wake' = wake \ {s}
    /\ UNCHANGED <<lastSeq, batch>>

\* ... or the keep-alive tick, which lists nothing.
KeepAlive(s) ==
    /\ StreamStep(s, "waiting", "checking")
    /\ UNCHANGED <<wake, lastSeq, batch>>

\* The last list, and the end of the response: the subscription is cancelled.
Drain(s) ==
    /\ StreamStep(s, "draining", IF lastSeq[s] < Listed(s) THEN "flushing" ELSE "ended")
    /\ batch' = [batch EXCEPT ![s] = Listed(s)]
    /\ UNCHANGED <<wake, lastSeq>>

\* The tab has closed the stream: a write, a statement or the select notices.
StreamGone(s) ==
    /\ spc[s] # "closed"
    /\ current # s
    /\ spc' = [spc EXCEPT ![s] = "closed"]
    /\ wake' = wake \ {s}
    /\ lastSeq' = [lastSeq EXCEPT ![s] = 0]
    /\ batch' = [batch EXCEPT ![s] = 0]
    /\ received' = [received EXCEPT ![s] = 0]
    /\ UNCHANGED <<dbVars, writerVars, current, seen, ui, readVars, postVars, envVars>>

-----------------------------------------------------------------------------
(* The tab                                                                 *)

\* Faulty form of AfterSeq: off by one.
AfterSeqNext(S) == Last(S) + 1

\* eventsRef.current.at(-1)?.seq ?? 0
AfterSeq(S) == Last(S)

\* connect: the old EventSource is closed and a new one opened.
Connect(s, after) ==
    /\ spc[s] = "closed"
    /\ s # current
    /\ current' = s
    /\ spc' = [spc EXCEPT ![s] = "subscribing"]
    /\ lastSeq' = [lastSeq EXCEPT ![s] = after]
    /\ batch' = [batch EXCEPT ![s] = after]
    /\ received' = [received EXCEPT ![s] = after]
    /\ UNCHANGED wake

Disconnected == current' = NoStream /\ UNCHANGED <<streamVars, received>>

\* refresh: two requests are sent.
Refresh(r, then) ==
    /\ rpc[r] = "idle"
    /\ rpc' = [rpc EXCEPT ![r] = then]
    /\ UNCHANGED <<readRun, readLog>>

RefreshDone(r) ==
    /\ rpc' = [rpc EXCEPT ![r] = "idle"]
    /\ readRun' = [readRun EXCEPT ![r] = Unread]
    /\ readLog' = [readLog EXCEPT ![r] = 0]

Mishap == mishaps < MaxMishaps /\ mishaps' = mishaps + 1

\* The tab no longer waits for the resume request; it may still be on its way.
Abandoned ==
    IF post.state \in {"posted", "orphan"} THEN [post EXCEPT !.state = "orphan"] ELSE NoPost

\* start: the response with the new run, and a stream from its beginning.
Start(s) ==
    /\ ui = Nothing
    /\ mishaps = 0
    /\ ui' = [status |-> "running", pending |-> 0]
    /\ seen' = {}
    /\ Connect(s, 0)
    /\ UNCHANGED <<dbVars, writerVars, readVars, postVars, envVars>>

\* The page is loaded again: nothing is left of the tab but the stored run id.
Reload(r) ==
    /\ Mishap
    /\ ui # Nothing \/ mishaps > 0
    /\ failures = 0
    /\ ui' = Nothing
    /\ seen' = {}
    /\ Disconnected
    /\ rpc' = [q \in Refreshes |-> IF q = r THEN "connect" ELSE "idle"]
    /\ readRun' = [q \in Refreshes |-> Unread]
    /\ readLog' = [q \in Refreshes |-> 0]
    /\ post' = Abandoned
    /\ reply' = Nothing
    /\ UNCHANGED <<dbVars, writerVars, failures>>

\* mount and reconnect read the run and connect if it is running.
Reconnect(r) ==
    /\ Mishap
    /\ ui # Nothing
    /\ Refresh(r, "connect")
    /\ UNCHANGED <<dbVars, writerVars, streamVars, current, received, seen, ui,
                   postVars, failures>>

\* The next event reaches the tab.
Receive(s, r) ==
    /\ current = s
    /\ received[s] < lastSeq[s]
    /\ seen' = seen \cup {received[s] + 1}
    /\ received' = [received EXCEPT ![s] = @ + 1]
    /\ IF log[received[s] + 1] \in Closing
       THEN current' = NoStream /\ Refresh(r, "nothing")
       ELSE UNCHANGED <<current, readVars>>
    /\ UNCHANGED <<dbVars, writerVars, streamVars, ui, postVars, envVars>>

\* The response has ended: onerror, which does not connect again.
StreamEnd(s, r) ==
    /\ current = s
    /\ spc[s] = "ended"
    /\ received[s] = lastSeq[s]
    /\ Disconnected
    /\ Refresh(r, "nothing")
    /\ UNCHANGED <<dbVars, writerVars, seen, ui, postVars, envVars>>

\* The connection drops, with what was on its way.
StreamDrops(s, r) ==
    /\ current = s
    /\ Mishap
    /\ Disconnected
    /\ Refresh(r, "nothing")
    /\ UNCHANGED <<dbVars, writerVars, seen, ui, postVars, failures>>

\* The two requests of a refresh are answered, in either order.
RefreshReadsRun(r) ==
    /\ rpc[r] # "idle"
    /\ readRun[r] = Unread
    /\ readRun' = [readRun EXCEPT ![r] = Row]
    /\ UNCHANGED <<dbVars, writerVars, streamVars, current, received, seen, ui, rpc,
                   readLog, postVars, envVars>>

RefreshReadsLog(r) ==
    /\ rpc[r] # "idle"
    /\ readLog[r] = 0
    /\ readLog' = [readLog EXCEPT ![r] = Len(log)]
    /\ UNCHANGED <<dbVars, writerVars, streamVars, current, received, seen, ui, rpc,
                   readRun, postVars, envVars>>

\* Both are there: the tab shows them.  connect may still find the events of
\* before in eventsRef.
RefreshApply(r) ==
    /\ rpc[r] # "idle"
    /\ readRun[r] # Unread
    /\ readLog[r] # 0
    /\ ui' = readRun[r]
    /\ seen' = seen \cup 1..readLog[r]
    /\ RefreshDone(r)
    /\ IF rpc[r] = "connect" /\ readRun[r].status = "running"
       THEN \E s \in Streams, S \in {seen, seen'} : Connect(s, AfterSeq(S))
       ELSE UNCHANGED <<streamVars, current, received>>
    /\ UNCHANGED <<dbVars, writerVars, postVars, envVars>>

\* A request fails: the tab forgets the run and its events, but not its stream.
RefreshFails(r) ==
    /\ rpc[r] # "idle"
    /\ Mishap
    /\ ui' = Nothing
    /\ seen' = {}
    /\ RefreshDone(r)
    /\ failures' = failures + 1
    /\ UNCHANGED <<dbVars, writerVars, streamVars, current, received, postVars>>

\* The question is shown, and not as answered.
Answerable ==
    /\ ui.pending \in seen
    /\ \A n \in seen : n > ui.pending => log[n] # "tool.result"

\* resume: the stream is opened first, then the request sent.
Resume(s) ==
    /\ ui.pending # 0
    /\ Answerable
    /\ post.state \in {"none", "orphan"}
    /\ post' = [state |-> "posted", question |-> ui.pending]
    /\ ui' = [ui EXCEPT !.status = "running"]
    /\ Connect(s, AfterSeq(seen))
    /\ UNCHANGED <<dbVars, writerVars, seen, readVars, reply, envVars>>

\* The server answers when the loop rests, or at once if the question is not
\* pending.
ResumeEnds ==
    /\ post.state = "driving"
    /\ dpc \in {"parked", "gone"}
    /\ reply' = Row
    /\ post' = [post EXCEPT !.state = "replied"]
    /\ UNCHANGED <<dbVars, writerVars, streamVars, current, received, seen, ui,
                   readVars, envVars>>

ResumeReturns(r) ==
    /\ post.state = "replied"
    /\ ui' = reply
    /\ reply' = Nothing
    /\ post' = NoPost
    /\ Refresh(r, "nothing")
    /\ UNCHANGED <<dbVars, writerVars, streamVars, current, received, seen, envVars>>

\* The error path of resume closes the stream and leaves the run as it is shown.
ResumeRejected ==
    /\ post.state = "posted"
    /\ Row.pending # post.question
    /\ post' = NoPost
    /\ Disconnected
    /\ UNCHANGED <<dbVars, writerVars, seen, ui, readVars, reply, envVars>>

ResumeFails ==
    /\ post.state \in {"posted", "driving", "replied"}
    /\ Mishap
    /\ post' = Abandoned
    /\ reply' = Nothing
    /\ Disconnected
    /\ UNCHANGED <<dbVars, writerVars, seen, ui, readVars, failures>>

-----------------------------------------------------------------------------
Driver ==
    \/ DriverEvent
    \/ DriverAsk
    \/ DriverPark
    \/ DriverResaves
    \/ DriverEnd
    \/ DriverAnnounce
    \/ DriverRefused

Handler(s) ==
    \/ Subscribe(s)
    \/ List(s)
    \/ WriteEvent(s, "writing", "checking")
    \/ WriteEvent(s, "flushing", "ended")
    \/ CheckRun(s)
    \/ Wake(s)
    \/ KeepAlive(s)
    \/ Drain(s)
    \/ StreamGone(s)

\* What the tab does without the user.
Tab ==
    \/ \E s \in Streams, r \in Refreshes : Receive(s, r) \/ StreamEnd(s, r)
    \/ \E r \in Refreshes : ResumeReturns(r)
    \/ ResumeRejected

RefreshStep(r) == RefreshReadsRun(r) \/ RefreshReadsLog(r) \/ RefreshApply(r)

User ==
    \/ \E s \in Streams : Start(s) \/ Resume(s)
    \/ \E r \in Refreshes : Reload(r) \/ Reconnect(r)

Fault ==
    \/ \E s \in Streams, r \in Refreshes : StreamDrops(s, r)
    \/ \E r \in Refreshes : RefreshFails(r)
    \/ ResumeFails

Next ==
    \/ Driver
    \/ ResumeAccepted
    \/ ResumeEnds
    \/ CancelRun
    \/ \E w \in {"driver", "canceller"} : Publish(w)
    \/ \E s \in Streams : Handler(s)
    \/ Tab
    \/ \E r \in Refreshes : RefreshStep(r)
    \/ User
    \/ Fault

Spec == Init /\ [][Next]_vars

\* Goroutines, handlers and requests keep running; the select of a handler takes
\* a token that stays there, although keep-alive ticks come in between.
FairSpec ==
    /\ Spec
    /\ WF_vars(Driver)
    /\ WF_vars(ResumeAccepted)
    /\ WF_vars(ResumeEnds)
    /\ \A w \in {"driver", "canceller"} : WF_vars(Publish(w))
    /\ \A s \in Streams : WF_vars(Handler(s)) /\ SF_vars(Wake(s))
    /\ WF_vars(Tab)
    /\ \A r \in Refreshes : WF_vars(RefreshStep(r))

-----------------------------------------------------------------------------
(* Properties                                                              *)

\* Type invariant of the log, the handlers and the tab.
TypeOK ==
    /\ log \in Seq(Events)
    /\ status \in Statuses
    /\ dpc \in {"working", "parking", "parked", "resaving", "ending", "gone"}
    /\ unpublished \subseteq {"driver", "canceller"}
    /\ spc \in [Streams -> {"closed", "subscribing", "listing", "writing", "checking",
                            "waiting", "draining", "flushing", "ended"}]
    /\ wake \subseteq Streams
    /\ lastSeq \in [Streams -> Nat]
    /\ batch \in [Streams -> Nat]
    /\ current \in Streams \cup {NoStream}
    /\ received \in [Streams -> Nat]
    /\ seen \subseteq 1..Len(log)
    /\ ui \in Runs
    /\ rpc \in [Refreshes -> {"idle", "nothing", "connect"}]
    /\ readRun \in [Refreshes -> Runs]
    /\ readLog \in [Refreshes -> 0..Len(log)]
    /\ post \in [state : {"none", "posted", "driving", "replied", "orphan"},
                 question : Nat]
    /\ reply \in Runs
    /\ mishaps \in 0..MaxMishaps
    /\ failures \in Nat

\* A handler that is about to block has sent everything, or holds a token, or a
\* writer is about to publish: no append between its list and its select is lost,
\* although Publish drops a token when one is there already.
NoLostWakeup ==
    \A s \in Streams : spc[s] = "waiting" /\ lastSeq[s] < Len(log)
                        => s \in wake \/ unpublished # {}

\* A stream that ends on a cancelled run has sent the whole log, run.cancelled
\* included: the status it read and the event are one transaction.
CancelDelivered ==
    \A s \in Streams : spc[s] = "ended" /\ status = "cancelled"
                        => lastSeq[s] = Len(log)

\* What the tab shows of the log has no gap, over reloads, reconnects, dropped
\* connections and lists that overlap the stream; a failed refresh is the exception.
SeenIsPrefix == failures = 0 => \E hi \in 0..Len(log) : seen = 1..hi

\* An event reaches a tab whose stream stays open.
StreamDelivers ==
    \A s \in Streams, n \in 1..(MaxEvents + 3) :
        (n <= Len(log) /\ current = s) ~> (n \in seen \/ current # s)
=============================================================================
