------------------------------ MODULE Shutdown ------------------------------
(***************************************************************************)
(* Graceful shutdown (main.rs, core/shutdown.rs): one cancellation token   *)
(* stops the event handler, the accept loop, the connections and the       *)
(* periodic tasks at once; graceful_shutdown() then waits for LIVE and for *)
(* PROCESSING records to go away, sleeps, and joins the background tasks,  *)
(* all under one timeout.                                                  *)
(*                                                                         *)
(* A connection and its pipeline are reduced to what the wait depends on:  *)
(* the events they send, and whether their encoder still runs.  RtmpIngest *)
(* and LivePipeline have the rest.                                         *)
(***************************************************************************)
EXTENDS Integers, Sequences, FiniteSets

CONSTANTS
    Streams,         \* live streams
    EventCap,        \* EVENT_CHANNEL_CAPACITY
    IngestDrain,     \* INGEST_DRAIN_TIMEOUT_SECS, in units of time
    TranscodeDrain,  \* TRANSCODE_DRAIN_TIMEOUT_SECS
    StorageFlush,    \* STORAGE_FLUSH_TIMEOUT_SECS
    HttpDrain,       \* HTTP_DRAIN_TIMEOUT_SECS
    Total            \* SHUTDOWN_TIMEOUT_SECS

\* In the code 15, 10, 5 and 5 seconds of 30: the first wait has its time, and
\* so have the others with a cleanup cycle and a request to join.
ASSUME ShutdownAssumption ==
    /\ EventCap \in Nat \ {0}
    /\ {IngestDrain, TranscodeDrain, StorageFlush, HttpDrain, Total} \subseteq Nat \ {0}
    /\ IngestDrain < Total
    /\ TranscodeDrain + StorageFlush + 2 * HttpDrain < Total

VARIABLES
    phase,     \* of main(): "serving" until the signal, the four waits,
               \* "returned" from main(), "exited"
    elapsed,   \* time since the signal
    waited,    \* time since the current wait began
    awaiting,  \* background task that is joined
    code,      \* exit code, or NoCode
    task,      \* background tasks: "running", "stopped", "aborted"
    busy,      \* tasks in the middle of a cleanup cycle or of a request
    conn,      \* connection of a stream
    pipe,      \* its transcoder: "none", "open", "draining", "ended"
    events,    \* event channel
    record,    \* state of the stream
    atSignal,  \* history: the records that were LIVE or PROCESSING at the signal
    ingestStuck \* history: the first wait ran out of time

mainVars   == <<phase, elapsed, waited, awaiting, code, atSignal, ingestStuck>>
streamVars == <<conn, pipe, events, record>>
vars == <<mainVars, task, busy, streamVars>>

NoCode == 2

\* background_tasks, in the order in which they are joined.  The uptime, reload
\* and tracker tasks stop alike and stand as one.
Tasks == <<"events", "cleanup", "rtmp", "http", "periodic">>

Cancelled == phase # "serving"
Alive == phase \notin {"returned", "exited"}

Init ==
    /\ phase = "serving" /\ elapsed = 0 /\ waited = 0 /\ awaiting = 1 /\ code = NoCode
    /\ task = [t \in {Tasks[i] : i \in DOMAIN Tasks} |-> "running"]
    /\ busy = {}
    /\ conn = [s \in Streams |-> "none"]
    /\ pipe = [s \in Streams |-> "none"]
    /\ events = <<>>
    /\ record = [s \in Streams |-> "Absent"]
    /\ atSignal = <<>> /\ ingestStuck = FALSE

----------------------------------------------------------------------------
(* Connections, pipelines and the event handler *)

\* A send waits for room; once the handler has dropped the receiver it fails,
\* which every sender ignores.
Send(kind, s) ==
    IF task["events"] = "running"
    THEN Len(events) < EventCap /\ events' = Append(events, [kind |-> kind, stream |-> s])
    ELSE UNCHANGED events

\* The select! of the accept loop may take a connection after the signal too.
Accept(s) ==
    /\ Alive
    /\ task["rtmp"] = "running"
    /\ conn[s] = "none"
    /\ conn' = [conn EXCEPT ![s] = "accepted"]
    /\ UNCHANGED <<mainVars, task, busy, pipe, events, record>>

\* Up to the demux loop nothing looks at the token.
Publish(s) ==
    /\ Alive
    /\ conn[s] = "accepted"
    /\ Send("Started", s)
    /\ record' = [record EXCEPT ![s] = "Pending"]
    /\ conn' = [conn EXCEPT ![s] = "publishing"]
    /\ pipe' = [pipe EXCEPT ![s] = "open"]
    /\ UNCHANGED <<mainVars, task, busy>>

\* Cancelled, closed or silent ends in StreamEnded, too many errors in
\* StreamError.  The ingest channel closes here.
LeaveLoop(s) ==
    /\ Alive
    /\ conn[s] = "publishing"
    /\ \E how \in {"Ended", "Error"} : conn' = [conn EXCEPT ![s] = how]
    /\ pipe' = [pipe EXCEPT ![s] = "draining"]
    /\ UNCHANGED <<mainVars, task, busy, events, record>>

ReportEnd(s) ==
    /\ Alive
    /\ conn[s] \in {"Ended", "Error"}
    /\ Send(conn[s], s)
    /\ conn' = [conn EXCEPT ![s] = "closed"]
    /\ UNCHANGED <<mainVars, task, busy, pipe, record>>

\* The packager reports the last segment without waiting for the writer.
Complete(s) ==
    /\ Alive
    /\ pipe[s] = "draining"
    /\ Send("Complete", s)
    /\ pipe' = [pipe EXCEPT ![s] = "ended"]
    /\ UNCHANGED <<mainVars, task, busy, conn, record>>

After(kind, state) ==
    CASE kind = "Started" /\ state = "Pending" -> "Live"
      [] kind = "Ended" /\ state = "Live" -> "Processing"
      [] kind = "Error" /\ state \in {"Pending", "Live", "Processing"} -> "Error"
      [] kind = "Complete" /\ state = "Processing" -> "Ready"
      [] OTHER -> state

HandleEvent ==
    /\ Alive
    /\ task["events"] = "running"
    /\ events # <<>>
    /\ LET e == Head(events)
       IN  record' = [record EXCEPT ![e.stream] = After(e.kind, @)]
    /\ events' = Tail(events)
    /\ UNCHANGED <<mainVars, task, busy, conn, pipe>>

----------------------------------------------------------------------------
(* Background tasks *)

\* A cleanup cycle or a request runs to its end; after the signal the HTTP
\* server takes no request.
Begin(t) ==
    /\ Alive
    /\ t \in {"cleanup", "http"} \ busy
    /\ task[t] = "running"
    /\ ~Cancelled
    /\ busy' = busy \cup {t}
    /\ UNCHANGED <<mainVars, task, streamVars>>

End(t) ==
    /\ Alive
    /\ t \in busy
    /\ busy' = busy \ {t}
    /\ UNCHANGED <<mainVars, task, streamVars>>

\* The cancelled() branch of a task's select!.  What is in the event channel
\* is lost with its receiver.
Stop(t) ==
    /\ Alive
    /\ Cancelled
    /\ task[t] = "running"
    /\ t \notin busy
    /\ task' = [task EXCEPT ![t] = "stopped"]
    /\ events' = IF t = "events" THEN <<>> ELSE events
    /\ UNCHANGED <<mainVars, busy, conn, pipe, record>>

----------------------------------------------------------------------------
(* main() after the signal *)

Signal ==
    /\ phase = "serving"
    /\ phase' = "ingest" /\ waited' = 0
    /\ atSignal' = [s \in {r \in Streams : record[r] \in {"Live", "Processing"}} |-> record[s]]
    /\ UNCHANGED <<elapsed, awaiting, code, ingestStuck, task, busy, streamVars>>

\* Faulty variant: the limits of the two waits are swapped.
DrainingSwapped ==
    [ingest |-> [state |-> "Live", limit |-> TranscodeDrain, next |-> "transcode"],
     transcode |-> [state |-> "Processing", limit |-> IngestDrain, next |-> "flush"]]

\* What graceful_shutdown() passes to wait_for_state_drain(), and what follows.
Draining == [ingest |-> [state |-> "Live", limit |-> IngestDrain, next |-> "transcode"],
             transcode |-> [state |-> "Processing", limit |-> TranscodeDrain, next |-> "flush"]]

Remaining == {s \in Streams : record[s] = Draining[phase].state}

\* wait_for_state_drain() finds no stream in the state.
DrainCompletes ==
    /\ phase \in {"ingest", "transcode"}
    /\ Remaining = {}
    /\ phase' = Draining[phase].next /\ waited' = 0
    /\ UNCHANGED <<elapsed, awaiting, code, atSignal, ingestStuck, task, busy, streamVars>>

\* Faulty variant: both waits have the limit of the second.
DrainTimesOutEarly ==
    /\ phase \in {"ingest", "transcode"}
    /\ Remaining # {} /\ waited >= TranscodeDrain
    /\ phase' = Draining[phase].next /\ waited' = 0
    /\ ingestStuck' = (ingestStuck \/ phase = "ingest")
    /\ UNCHANGED <<elapsed, awaiting, code, atSignal, task, busy, streamVars>>

DrainTimesOut ==
    /\ phase \in {"ingest", "transcode"}
    /\ Remaining # {} /\ waited >= Draining[phase].limit
    /\ phase' = Draining[phase].next /\ waited' = 0
    /\ ingestStuck' = (ingestStuck \/ phase = "ingest")
    /\ UNCHANGED <<elapsed, awaiting, code, atSignal, task, busy, streamVars>>

\* The flush is a sleep.
FlushEnds ==
    /\ phase = "flush"
    /\ waited >= StorageFlush
    /\ phase' = "join" /\ waited' = 0
    /\ UNCHANGED <<elapsed, awaiting, code, atSignal, ingestStuck, task, busy, streamVars>>

NextTask ==
    /\ waited' = 0
    /\ awaiting' = awaiting + 1
    /\ IF awaiting = Len(Tasks)
       THEN phase' = "returned" /\ code' = 0
       ELSE UNCHANGED <<phase, code>>
    /\ UNCHANGED <<elapsed, atSignal, ingestStuck, busy, conn, pipe, record>>

Joined ==
    /\ phase = "join"
    /\ task[Tasks[awaiting]] # "running"
    /\ NextTask
    /\ UNCHANGED <<task, events>>

JoinTimesOut ==
    /\ phase = "join"
    /\ task[Tasks[awaiting]] = "running" /\ waited >= HttpDrain
    /\ task' = [task EXCEPT ![Tasks[awaiting]] = "aborted"]
    /\ events' = IF Tasks[awaiting] = "events" THEN <<>> ELSE events
    /\ NextTask

\* The timeout around graceful_shutdown().
ForceExit ==
    /\ Alive /\ Cancelled
    /\ elapsed >= Total
    /\ phase' = "returned" /\ code' = 1
    /\ UNCHANGED <<elapsed, waited, awaiting, atSignal, ingestStuck, task, busy, streamVars>>

Limit == CASE phase \in DOMAIN Draining -> Draining[phase].limit
           [] phase = "flush" -> StorageFlush
           [] OTHER -> HttpDrain

\* main() and the idle tasks are prompt: a poll takes a fraction of the unit of
\* time, and a timer that is due fires before more time passes.
Tick ==
    /\ Alive /\ Cancelled
    /\ waited < Limit /\ elapsed < Total
    /\ phase \in DOMAIN Draining => Remaining # {}
    /\ phase = "join" => task[Tasks[awaiting]] = "running"
    /\ \A t \in DOMAIN task : task[t] = "running" => t \in busy
    /\ elapsed' = elapsed + 1 /\ waited' = waited + 1
    /\ UNCHANGED <<phase, awaiting, code, atSignal, ingestStuck, task, busy, streamVars>>

\* Faulty variant: the encoder thread goes on when its segments have no taker.
EncoderNeverEnds(s) == FALSE

\* The runtime drops its tasks, and waits for the encoder threads: they find
\* their channels closed.
EncoderEnds(s) ==
    /\ phase = "returned"
    /\ pipe[s] \in {"open", "draining"}
    /\ pipe' = [pipe EXCEPT ![s] = "ended"]
    /\ UNCHANGED <<mainVars, task, busy, conn, events, record>>

Exit ==
    /\ phase = "returned"
    /\ \A s \in Streams : pipe[s] \notin {"open", "draining"}
    /\ phase' = "exited"
    /\ UNCHANGED <<elapsed, waited, awaiting, code, atSignal, ingestStuck, task, busy, streamVars>>

Main == DrainCompletes \/ DrainTimesOut \/ FlushEnds \/ Joined \/ JoinTimesOut \/ ForceExit

Next ==
    \/ \E s \in Streams :
          \/ Accept(s) \/ Publish(s)
          \/ LeaveLoop(s) \/ ReportEnd(s) \/ Complete(s)
          \/ EncoderEnds(s)
    \/ HandleEvent
    \/ \E t \in DOMAIN task : Begin(t) \/ End(t) \/ Stop(t)
    \/ Signal \/ Tick \/ Main \/ Exit

\* main(), the timers and the idle background tasks are scheduled, and an
\* encoder thread ends; nothing is assumed of streams, requests and cycles.
Spec ==
    /\ Init /\ [][Next]_vars
    /\ WF_vars(Main) /\ WF_vars(Tick) /\ WF_vars(Exit)
    /\ WF_vars(\E t \in DOMAIN task : Stop(t))
    /\ \A s \in Streams : WF_vars(EncoderEnds(s))

----------------------------------------------------------------------------
(* Properties *)

\* After the signal the process exits, whatever streams, requests and cleanup
\* cycles do (main(), graceful_shutdown()).
ProcessExits == Cancelled ~> phase = "exited"

\* Exit 0 with a record still in the state it had at the signal means that the
\* wait for that state used all its time (wait_for_state_drain()).
StreamsGetTheirTime ==
    code = 0 => \A s \in DOMAIN atSignal :
        /\ atSignal[s] = "Live" /\ record[s] = "Live" =>
              elapsed >= IngestDrain + StorageFlush
        /\ atSignal[s] = "Processing" /\ record[s] = "Processing" =>
              elapsed >= TranscodeDrain + StorageFlush

\* With the timeouts of the code the exit is forced only when a LIVE record did
\* not go away: requests, cleanup cycles and transcodes that never end are not
\* enough (graceful_shutdown(), SHUTDOWN_TIMEOUT_SECS).
ForcedExitMeansIngestStuck == code = 1 => ingestStuck

=============================================================================
