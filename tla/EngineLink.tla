------------------------------ MODULE EngineLink ------------------------------
(* The link between the desktop application and the engine: the client's      *)
(* socket with its reconnection, handshake, pending requests and timeouts     *)
(* (ipc/engine_client.dart), the engine's connection tasks and its broadcast  *)
(* of events (ipc/server.rs, lib.rs), and the two users of the link that      *)
(* depend on the order of messages: the inbox (inbox_state.dart) and the      *)
(* summary of a meeting (engine_summary_service.dart).  Of the jobs there     *)
(* remains what is visible on the link; Pipeline says how they run.           *)
EXTENDS Integers, Sequences, FiniteSets, SequencesExt, TLC

CONSTANTS MaxTasks,       \* bound: meetings submitted and retried, and jobs resumed
          MaxFaults,      \* bound: crashes, and timeouts of a running client's requests
          Capacity,       \* EVENT_CHANNEL_CAPACITY
          Versions,       \* whether an engine speaks the client's protocol
          None

ASSUME CapacityAssumption == Capacity \in Nat \ {0}

VARIABLES
  engine,    \* [up, same]: whether it runs, and speaks the client's protocol
  conns,     \* the connections accepted, each with its queues
  jobs,      \* the jobs created; one that captures a meeting gives it its number
  status,    \* the processing status of each captured meeting
  client,    \* the state of EngineClient
  inbox,     \* the inbox: its items and whether it shows an error
  spent,     \* the tasks and the faults so far
  summary    \* the latest summary and what it has heard

vars == <<engine, conns, jobs, status, client, inbox, spent, summary>>

Terminal == {"completed", "failed"}
Listening == {"submit", "await"}
Failure == 0   \* the result of a summary that heard a failed job; meetings count from 1
NoReply == [kind |-> "none"]
NewConn == [up |-> <<>>, reply |-> NoReply, down |-> <<>>, feed |-> <<>>, alive |-> TRUE,
            lagged |-> FALSE]
Closed == [NewConn EXCEPT !.alive = FALSE]
Ended(how) == [at |-> how, serial |-> 0, meeting |-> None, result |-> None,
               foreign |-> FALSE]

\* The client has been started: it dials.
Init ==
  /\ engine \in [up : BOOLEAN, same : Versions]
  /\ conns = <<>> /\ jobs = <<>> /\ status = <<>>
  /\ client = [state |-> "connecting", running |-> TRUE, way |-> "dial", socket |-> None,
               pending |-> <<>>, sent |-> 0, crossed |-> FALSE]
  /\ inbox = [items |-> <<>>, error |-> FALSE]
  /\ summary = Ended("idle") /\ spent = [tasks |-> 0, faults |-> 0]

------------------------------------------------------------------------------
(* Requests.  A request carries, beside its id, the serial number of its send, *)
(* which only the properties read.                                             *)

\* Mutant of NextId: the first id under which no request waits.
NextIdFree(cl) == CHOOSE i \in 1 .. cl.sent + 1 :
                    /\ i \notin DOMAIN cl.pending
                    /\ \A j \in 1 .. i - 1 : j \in DOMAIN cl.pending

\* _nextRequestId++: no id is given out twice, on any connection.
NextId(cl) == cl.sent + 1

Connected == client.socket # None /\ client.state # "incompatible"

Request(cl, what, arg) ==
  [what |-> what, arg |-> arg, id |-> NextId(cl), serial |-> cl.sent + 1]

\* send on a live socket: a completer is registered and the line is written.
Sending(cl, what, arg) ==
  [cl EXCEPT !.pending = [i \in DOMAIN @ \cup {NextId(cl)} |->
                            IF i = NextId(cl) THEN Request(cl, what, arg) ELSE @[i]],
             !.sent = @ + 1]
Written(cs, cl, what, arg) == [cs EXCEPT ![cl.socket].up = Append(@, Request(cl, what, arg))]

\* The request of an id is over.
Without(cl, ids) == [cl EXCEPT !.pending = [i \in DOMAIN @ \ ids |-> @[i]]]

\* InboxController: refresh and retry, when the request ends with this body.
InboxAfter(box, what, body) ==
  IF what = "list" /\ body.kind = "meetings" THEN [items |-> body.items, error |-> FALSE]
  ELSE IF what = "list" \/ (what = "retry" /\ body.kind # "accepted")
       THEN [box EXCEPT !.error = TRUE] ELSE box

\* EngineSummaryService: the two awaited requests.
SummaryAfter(what, body) ==
  CASE what = "submit" /\ body.kind = "accepted" -> [summary EXCEPT !.at = "await"]
    [] what = "mom" /\ body.kind = "mom" -> [summary EXCEPT !.at = "done"]
    [] what \in {"submit", "mom"} -> Ended("failed")
    [] OTHER -> summary

Task == spent.tasks < MaxTasks /\ spent' = [spent EXCEPT !.tasks = @ + 1]
Fault == spent.faults < MaxFaults /\ spent' = [spent EXCEPT !.faults = @ + 1]

Broken == [kind |-> "unavailable"]

------------------------------------------------------------------------------
(* The connection, as the client sees it *)

TimerFires ==
  /\ client.way = "timer"
  /\ client' = [client EXCEPT !.way = "dial", !.state = "connecting"]
  /\ UNCHANGED <<engine, conns, jobs, status, inbox, summary, spent>>

\* _connect: the listeners hear of the connection before the handshake is sent,
\* so the inbox asks first.  The engine's connection task subscribes to the
\* events before it reads a request.
Dial ==
  /\ client.way = "dial" /\ engine.up
  /\ LET open == [client EXCEPT !.state = "connected", !.way = "none",
                                !.socket = Len(conns) + 1]
         listed == Sending(open, "list", None)
         cs == Written(Append(conns, NewConn), open, "list", None)
     IN  /\ client' = Sending(listed, "health", None)
         /\ conns' = Written(cs, listed, "health", None)
  /\ UNCHANGED <<engine, jobs, status, inbox, summary, spent>>

\* Mutant of Disconnected: the timer is not armed.
DisconnectedForGood(cl) ==
  [Without(cl, DOMAIN cl.pending) EXCEPT
     !.state = "disconnected", !.way = "none", !.socket = None]

\* Mutant of Disconnected: the pending requests wait on.
DisconnectedOnly(cl) == [cl EXCEPT !.state = "disconnected", !.way = "timer", !.socket = None]

\* _onDisconnected: every pending request fails and the timer is armed.
Disconnected(cl) ==
  [Without(cl, DOMAIN cl.pending) EXCEPT
     !.state = "disconnected", !.way = "timer", !.socket = None]

DialFails ==
  /\ client.way = "dial" /\ ~engine.up
  /\ client' = Disconnected(client)
  /\ UNCHANGED <<engine, conns, jobs, status, inbox, summary, spent>>

\* The socket reports that the engine is gone; what it still held is dropped.
ConnectionLost ==
  /\ client.socket # None /\ ~conns[client.socket].alive
  /\ client' = Disconnected(client)
  /\ LET whats == {client.pending[i].what : i \in DOMAIN client.pending}
     IN  /\ inbox' = IF whats \cap {"list", "retry"} # {} THEN [inbox EXCEPT !.error = TRUE]
                     ELSE inbox
         /\ summary' = IF whats \cap {"submit", "mom"} # {}
                       THEN Ended("failed") ELSE summary
  /\ conns' = [conns EXCEPT ![client.socket] = Closed]
  /\ UNCHANGED <<engine, jobs, status, spent>>

\* Mutant of Refused: the client goes on running.
RefusedRunning(cl) == [cl EXCEPT !.state = "incompatible", !.way = "timer", !.socket = None]

\* The verdict of the handshake on an engine of another version.
Refused(cl) == [cl EXCEPT !.state = "incompatible", !.running = FALSE, !.socket = None]

------------------------------------------------------------------------------
(* What the client hears *)

\* Take the first line from the socket.
Heard(cs) == [cs EXCEPT ![client.socket].down = Tail(@)]

\* _handleLine for a response; one that nobody waits for is dropped.
HearResponse ==
  /\ client.socket # None /\ conns[client.socket].down # <<>>
  /\ LET line == Head(conns[client.socket].down)
     IN  /\ line.kind = "response"
         /\ conns' = Heard(conns)
         /\ IF line.id \notin DOMAIN client.pending THEN UNCHANGED <<client, inbox, summary>>
            ELSE LET req == client.pending[line.id]
                     over == [Without(client, {line.id}) EXCEPT
                                !.crossed = @ \/ line.serial # req.serial]
                 IN  /\ client' = IF req.what = "health" /\ line.body.kind = "mismatch"
                                  THEN Refused(over) ELSE over
                     /\ inbox' = InboxAfter(inbox, req.what, line.body)
                     /\ summary' = SummaryAfter(req.what, line.body)
  /\ UNCHANGED <<engine, jobs, status, spent>>

\* The listener of the summary: the first terminal event is the result, of
\* whatever job; foreign remembers that an event of another job was heard.
Listen(s, ev) ==
  IF s.result # None THEN s
  ELSE [s EXCEPT !.meeting = IF ev.type = "started" THEN ev.meeting ELSE @,
                 !.foreign = @ \/ jobs[ev.job].serial # s.serial,
                 !.result = CASE ev.type = "completed" -> ev.meeting
                              [] ev.type = "failed" -> Failure
                              [] OTHER -> None]

\* Mutant of Reloads: only an event of success makes the inbox reload.
ReloadsOnSuccess(type) == type = "completed"

\* InboxController.start: the events on which the inbox reloads.
Reloads(type) == type \in Terminal

\* _handleLine for an event: a terminal one makes the inbox reload.
HearEvent ==
  /\ client.socket # None /\ conns[client.socket].down # <<>>
  /\ LET ev == Head(conns[client.socket].down)
     IN  /\ ev.kind = "event"
         /\ summary' = IF summary.at \in Listening THEN Listen(summary, ev) ELSE summary
         /\ IF Reloads(ev.type)
            THEN /\ client' = Sending(client, "list", None)
                 /\ conns' = Written(Heard(conns), client, "list", None)
            ELSE conns' = Heard(conns) /\ UNCHANGED client
  /\ UNCHANGED <<engine, jobs, status, inbox, spent>>

\* The timeout of a request: of those with the same timeout the oldest is first.
RequestTimesOut ==
  /\ IF client.running THEN Fault ELSE UNCHANGED spent
  /\ \E i \in DOMAIN client.pending :
       LET req == client.pending[i]
       IN  /\ req.what # "health" =>
                \A j \in DOMAIN client.pending :
                  client.pending[j].what = "health" \/ client.pending[j].serial >= req.serial
           /\ client' = Without(client, {i})
           /\ inbox' = InboxAfter(inbox, req.what, Broken)
           /\ summary' = SummaryAfter(req.what, Broken)
  /\ UNCHANGED <<engine, conns, jobs, status>>

------------------------------------------------------------------------------
(* What the user asks for *)

\* A request that the user's task makes, when it can be sent.
TaskSends(what, arg) ==
  /\ Connected /\ Task
  /\ client' = Sending(client, what, arg)
  /\ conns' = Written(conns, client, what, arg)

\* Mutant of Beginning: what an earlier summary has heard is kept.
BeginningWarm(serial) == [summary EXCEPT !.at = "submit", !.serial = serial]

\* _runPipeline starts with a completer and a subscription of its own.
Beginning(serial) == [Ended("submit") EXCEPT !.serial = serial]

\* Summarise a meeting: without a connection the offline summary would be used.
Summarise ==
  /\ summary.at \notin Listening \cup {"mom"}
  /\ TaskSends("submit", None)
  /\ summary' = Beginning(client.sent + 1)
  /\ UNCHANGED <<engine, jobs, status, inbox>>

\* The awaited result is there: fetch the minutes, or give up as deferred.
ResultKnown ==
  /\ summary.at = "await" /\ summary.result # None
  /\ IF summary.result # Failure /\ Connected
     THEN /\ client' = Sending(client, "mom", summary.result)
          /\ conns' = Written(conns, client, "mom", summary.result)
          /\ summary' = [summary EXCEPT !.at = "mom"]
     ELSE /\ summary' = Ended(IF summary.result = Failure THEN "deferred" ELSE "failed")
          /\ UNCHANGED <<client, conns>>
  /\ UNCHANGED <<engine, jobs, status, inbox, spent>>

\* Mutant of ResultTimesOut: the result is only waited for while connected.
ResultTimesOutOnline ==
  /\ summary.at = "await" /\ summary.result = None /\ Connected
  /\ summary' = Ended("deferred")
  /\ UNCHANGED <<engine, conns, jobs, status, client, inbox, spent>>

\* No terminal event was heard in five minutes.
ResultTimesOut ==
  /\ summary.at = "await" /\ summary.result = None
  /\ summary' = Ended("deferred")
  /\ UNCHANGED <<engine, conns, jobs, status, client, inbox, spent>>

\* The inbox offers to retry what it shows as deferred.
Retry ==
  /\ \E m \in DOMAIN inbox.items : inbox.items[m] = "deferred" /\ TaskSends("retry", m)
  /\ UNCHANGED <<engine, jobs, status, inbox, summary>>

------------------------------------------------------------------------------
(* The engine *)

\* What is visible of a job on the link: Pipeline's steps from the insertion of the
\* meeting to "processing" are one, and so are those from there to the status that the
\* job leaves; "deferred" also stands for "failed".  The job's row learns its meeting
\* only when it starts.
NewJob(target, serial) ==
  [target |-> target, meeting |-> None, at |-> "created", ok |-> FALSE, serial |-> serial]

\* start_processing and start_reprocessing: a job, and its acceptance at once.
Starts(req) == CASE req.what = "submit" -> <<NewJob(None, req.serial)>>
                 [] req.what = "retry" -> <<NewJob(req.arg, req.serial)>>
                 [] OTHER -> <<>>

\* health: the version is compared by the client.
Health == [kind |-> "health"]

\* list_meetings: what is stored at this moment.
ListMeetings == [kind |-> "meetings", items |-> status]

\* get_mom: a meeting keeps its minutes once a job has made them.
GetMom(m) == [kind |-> IF \E j \in DOMAIN jobs : jobs[j].meeting = m /\ jobs[j].ok
                       THEN "mom" ELSE "error"]

\* dispatch: the body of the response.
Body(req) == CASE req.what = "health" -> Health
               [] req.what = "list" -> ListMeetings
               [] req.what = "mom" -> GetMom(req.arg)
               [] OTHER -> [kind |-> "accepted"]

\* handle_connection: one request at a time takes effect and yields its response,
\* unless it is of another protocol version.
Dispatch(c) ==
  /\ conns[c].alive /\ conns[c].up # <<>> /\ conns[c].reply = NoReply
  /\ LET req == Head(conns[c].up)
     IN  /\ jobs' = IF engine.same THEN jobs \o Starts(req) ELSE jobs
         /\ conns' = [conns EXCEPT ![c].up = Tail(@), ![c].reply =
              [kind |-> "response", id |-> req.id, serial |-> req.serial,
               body |-> IF engine.same THEN Body(req) ELSE [kind |-> "mismatch"]]]
  /\ UNCHANGED <<engine, status, client, inbox, summary, spent>>

Respond(c) ==
  /\ conns[c].alive /\ conns[c].reply # NoReply
  /\ conns' = [conns EXCEPT ![c].down = Append(@, conns[c].reply), ![c].reply = NoReply]
  /\ UNCHANGED <<engine, jobs, status, client, inbox, summary, spent>>

\* The broadcast channel: a receiver that lags loses the oldest event.
Emit(type, j, meeting) ==
  LET ev == [kind |-> "event", type |-> type, job |-> j, meeting |-> meeting]
  IN  conns' = [c \in DOMAIN conns |->
        IF ~conns[c].alive THEN conns[c]
        ELSE IF Len(conns[c].feed) < Capacity THEN [conns[c] EXCEPT !.feed = Append(@, ev)]
        ELSE [conns[c] EXCEPT !.feed = Append(Tail(@), ev), !.lagged = TRUE]]

\* The event forwarder of a connection.
Forward(c) ==
  /\ conns[c].alive /\ conns[c].feed # <<>>
  /\ conns' = [conns EXCEPT ![c].down = Append(@, Head(conns[c].feed)),
                            ![c].feed = Tail(@)]
  /\ UNCHANGED <<engine, jobs, status, client, inbox, summary, spent>>

\* A job captures its meeting, or takes up the one it was created for.
JobStarts(j) ==
  /\ engine.up /\ jobs[j].at = "created"
  /\ LET m == IF jobs[j].target = None THEN Len(status) + 1 ELSE jobs[j].target
     IN  /\ jobs' = [jobs EXCEPT ![j].at = "running", ![j].target = m, ![j].meeting = m]
         /\ status' = (m :> "processing") @@ status
         /\ Emit("started", j, m)
  /\ UNCHANGED <<engine, client, inbox, summary, spent>>

\* The store fails before anything is captured, or before the rerun has begun.
JobFailsEarly(j) ==
  /\ engine.up /\ jobs[j].at = "created"
  /\ jobs' = [jobs EXCEPT ![j].at = "settled"]
  /\ status' = [m \in DOMAIN status |-> IF m = jobs[j].target THEN "deferred" ELSE status[m]]
  /\ UNCHANGED <<engine, conns, client, inbox, summary, spent>>

\* The status of the meeting is saved before the event is sent.
JobSettles(j) ==
  /\ engine.up /\ jobs[j].at = "running"
  /\ \E ok \in BOOLEAN :
       /\ jobs' = [jobs EXCEPT ![j].at = "settled", ![j].ok = ok]
       /\ status' = [status EXCEPT ![jobs[j].meeting] = IF ok THEN "ready" ELSE "deferred"]
  /\ UNCHANGED <<engine, conns, client, inbox, summary, spent>>

JobReports(j) ==
  /\ engine.up /\ jobs[j].at = "settled"
  /\ jobs' = [jobs EXCEPT ![j].at = "ended"]
  /\ IF jobs[j].ok THEN Emit("completed", j, jobs[j].meeting) ELSE Emit("failed", j, None)
  /\ UNCHANGED <<engine, status, client, inbox, summary, spent>>

\* The process dies: its connections are closed, what they sent may still arrive.
Crash ==
  /\ engine.up /\ Fault
  /\ engine' = [engine EXCEPT !.up = FALSE]
  /\ conns' = [c \in DOMAIN conns |-> [conns[c] EXCEPT
                 !.alive = FALSE, !.up = <<>>, !.reply = NoReply, !.feed = <<>>]]
  /\ UNCHANGED <<jobs, status, client, inbox, summary>>

\* run: recover_interrupted and recover_jobs come before the first connection.
\* A job that had a meeting is resumed, unless its attempts are used up.
EngineStarts ==
  /\ ~engine.up
  /\ \E same \in Versions : engine' = [up |-> TRUE, same |-> same]
  /\ status' = [m \in DOMAIN status |->
       IF status[m] = "processing" THEN "deferred" ELSE status[m]]
  /\ \E resumed \in SUBSET {j \in DOMAIN jobs : /\ jobs[j].at \in {"created", "running"}
                                                 /\ jobs[j].meeting # None} :
       /\ jobs' = [j \in DOMAIN jobs |->
            [jobs[j] EXCEPT !.at = IF j \in resumed THEN "created" ELSE "ended"]]
       /\ spent' = [spent EXCEPT !.tasks = @ + Cardinality(resumed)]
       /\ spent'.tasks <= MaxTasks
  /\ UNCHANGED <<conns, client, inbox, summary>>

------------------------------------------------------------------------------

Connecting == TimerFires \/ Dial \/ DialFails \/ ConnectionLost
Hearing == HearResponse \/ HearEvent
Timeouts == RequestTimesOut \/ ResultTimesOut
EngineStep == \/ \E c \in DOMAIN conns : Dispatch(c) \/ Respond(c) \/ Forward(c)
              \/ \E j \in DOMAIN jobs : JobStarts(j) \/ JobFailsEarly(j) \/ JobSettles(j)
                                          \/ JobReports(j)

Next == \/ Connecting \/ Hearing \/ ResultKnown \/ Timeouts \/ EngineStep
        \/ Summarise \/ Retry \/ Crash \/ EngineStarts

\* The client's event loop and the engine's tasks run, and timers fire; nothing is
\* assumed of the user, and of the engine neither that it stops nor that it starts.
Spec == /\ Init /\ [][Next]_vars
        /\ WF_vars(Connecting) /\ WF_vars(Hearing) /\ WF_vars(ResultKnown)
        /\ WF_vars(Timeouts) /\ WF_vars(EngineStep)

------------------------------------------------------------------------------
(* Properties *)

\* engine_client: no request is ever completed with the response to another one,
\* whatever was lost, timed out or answered late.
RepliesAreOwn == ~client.crossed

\* engine_client and server: while the connection is alive, each request that
\* waits is on its way to the engine, in its hands, or answered on the way back;
\* none is left over from a connection before.
PendingIsServed ==
  client.socket # None /\ conns[client.socket].alive =>
    LET c == conns[client.socket]
        lines == ToSet(c.up) \cup (IF c.reply = NoReply THEN {} ELSE {c.reply})
                   \cup {l \in ToSet(c.down) : l.kind = "response"}
    IN  \A i \in DOMAIN client.pending : \E l \in lines : l.id = i

\* engine_client: after the verdict on the protocol version the client neither
\* connects nor sends anything again.
IncompatibleIsFinal ==
  [][client.state = "incompatible" =>
       /\ client'.state = "incompatible"
       /\ client'.socket = None /\ client'.sent = client.sent]_vars

\* engine_summary_service: the minutes shown for a meeting are those of the job
\* that its own submission created, if no event of another job was heard while
\* the summary listened.
SummaryIsOwn ==
  summary.at \in {"mom", "done"} /\ ~summary.foreign =>
    \E j \in DOMAIN jobs : /\ jobs[j].serial = summary.serial
                           /\ summary.result = jobs[j].meeting

\* engine_client: if the engine stays up and speaks the protocol, the client gets
\* a connection to it.
Reconnects == engine.up /\ client.running ~> client.state \in {"connected", "incompatible"}
                                              \/ ~engine.up

\* engine_summary_service: every summary ends, whatever is lost.
SummaryEnds == summary.at \in Listening \cup {"mom"} ~>
                 summary.at \notin Listening \cup {"mom"}

\* inbox_state: when nothing more happens a connected inbox shows the status of
\* every meeting, or an error, unless the engine dropped events.
InboxCatchesUp ==
  <>[](client.socket = None \/ inbox.error \/ conns[client.socket].lagged
         \/ inbox.items = status)
==============================================================================
