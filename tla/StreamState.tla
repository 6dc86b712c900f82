----------------------------- MODULE StreamState -----------------------------
(***************************************************************************)
(* The StreamStateManager (control/state.rs) and the tasks that share it:  *)
(* HTTP handlers, VOD uploads and RTMP connections (Workers), the single   *)
(* event handler (control/events.rs) and the single cleanup task           *)
(* (storage/cleanup.rs).                                                   *)
(*                                                                         *)
(* The grain of atomicity is the code's: everything done while the DashMap *)
(* entry is locked is one step.  The per-state counters are atomics        *)
(* updated after the lock is released, and the Prometheus gauges are       *)
(* copied from the counters after that, so these are steps of their own.   *)
(* Wall-clock values are abstracted to "set or not set".                   *)
(***************************************************************************)
EXTENDS Integers, FiniteSets

CONSTANTS
    StreamIds,    \* stream identifiers (UUIDs)
    Workers,      \* concurrently served HTTP requests and RTMP connections
    Handler,      \* the event handler task
    Cleaner,      \* the cleanup task
    Renditions,   \* rendition names
    Selections,   \* how many renditions a source resolution may select
    None,         \* "no state"
    Watched,      \* the states whose gauge is modelled
    MaxLost       \* bound: records overwritten

States == {"Pending", "Live", "Processing", "Ready", "Error", "Deleted"}
Modes  == {"Live", "Vod"}
Tasks  == Workers \cup {Handler, Cleaner}

ASSUME StreamStateAssumption ==
    /\ IsFiniteSet(StreamIds)
    /\ IsFiniteSet(Workers)
    /\ IsFiniteSet(Renditions)
    /\ Handler \notin Workers
    /\ Cleaner \notin Workers
    /\ Handler # Cleaner
    /\ Selections \subseteq Nat \ {0}
    /\ None \notin States
    /\ Watched \subseteq States
    /\ MaxLost \in Nat

VARIABLES
    (* the records: DashMap<StreamId, StreamEntry> *)
    state,        \* state[s], "Absent" when the map has no entry
    mode,         \* metadata.ingest_mode
    ended,        \* streams whose metadata.ended_at is Some
    failed,       \* streams whose error_message is Some
    known,        \* known[s]: keys of the renditions map
    complete,     \* complete[s]: renditions whose status is Complete
    expected,     \* expected_renditions, 0 for None
    announced,    \* history: the values expected_renditions has had
    used,         \* identifiers generated so far
    (* the counters and the gauges *)
    counts,       \* state_counts
    gauge,        \* the streaminfa_streams_total gauges
    (* the tasks *)
    pc,           \* what each task does next
    sid,          \* the stream it does it to
    sub,          \* the counter decrement it still owes
    add,          \* the counter increment it still owes
    snap,         \* the counter values it has loaded for the gauges
    todo,         \* the cleanup task's snapshot of the streams to treat
    sweep,        \* the phase of the cleanup cycle
    (* history *)
    lost          \* lost[x]: records overwritten while in state x

recVars  == <<state, mode, ended, failed, known, complete, expected, announced>>
taskVars == <<pc, sid, sub, add, snap>>
vars == <<recVars, used, counts, gauge, taskVars, todo, sweep, lost>>

Phases == {"idle", "attach", "accept", "ready", "count", "publish"}
NoSnap == [x \in Watched |-> 0]

Init ==
    /\ state    = [s \in StreamIds |-> "Absent"]
    /\ mode     = [s \in StreamIds |-> "Live"]
    /\ ended    = {}
    /\ failed   = {}
    /\ known    = [s \in StreamIds |-> {}]
    /\ complete = [s \in StreamIds |-> {}]
    /\ expected = [s \in StreamIds |-> 0]
    /\ announced = [s \in StreamIds |-> {}]
    /\ used     = {}
    /\ counts   = [x \in States |-> 0]
    /\ gauge    = NoSnap
    /\ pc   = [t \in Tasks |-> "idle"]
    /\ sid  = [t \in Tasks |-> None]
    /\ sub  = [t \in Tasks |-> None]
    /\ add  = [t \in Tasks |-> None]
    /\ snap = [t \in Tasks |-> NoSnap]
    /\ todo = {}
    /\ sweep = "remove"
    /\ lost = [x \in States |-> 0]

-----------------------------------------------------------------------------
(* The operations of the manager, under the entry's lock.                  *)

\* Faulty variant: DELETED may be entered from any state.
IsValidTransitionAnyDelete(from, to, m) ==
    \/ to \in {"Error", "Deleted"} /\ from # "Deleted"
    \/ <<from, to, m>> \in {<<"Pending", "Live", "Live">>,
                            <<"Live", "Processing", "Live">>,
                            <<"Pending", "Processing", "Vod">>}
    \/ <<from, to>> = <<"Processing", "Ready">>

IsValidTransition(from, to, m) ==
    \/ to = "Error" /\ from # "Deleted"
    \/ <<from, to, m>> \in {<<"Pending", "Live", "Live">>,
                            <<"Live", "Processing", "Live">>,
                            <<"Pending", "Processing", "Vod">>}
    \/ <<from, to>> \in {<<"Processing", "Ready">>,
                         <<"Ready", "Deleted">>,
                         <<"Error", "Deleted">>}

\* Task t has left the lock and owes the counters a decrement and an increment;
\* after that it goes on with stream next, if any.
Owe(t, from, to, next) ==
    /\ pc'  = [pc EXCEPT ![t] = "count"]
    /\ sid' = [sid EXCEPT ![t] = next]
    /\ sub' = [sub EXCEPT ![t] = from]
    /\ add' = [add EXCEPT ![t] = to]
    /\ UNCHANGED snap

Overwritten == lost["Pending"] + lost["Live"] + lost["Processing"]
                 + lost["Ready"] + lost["Error"] + lost["Deleted"]

\* Faulty variant: an entry that is already there keeps its ended_at.
InsertKeepsEnd(t, s, m, next) ==
    /\ state'    = [state EXCEPT ![s] = "Pending"]
    /\ mode'     = [mode EXCEPT ![s] = m]
    /\ failed'   = failed \ {s}
    /\ known'    = [known EXCEPT ![s] = {}]
    /\ complete' = [complete EXCEPT ![s] = {}]
    /\ expected' = [expected EXCEPT ![s] = 0]
    /\ announced' = [announced EXCEPT ![s] = {}]
    /\ used'     = used \cup {s}
    /\ IF state[s] = "Absent"
       THEN UNCHANGED lost
       ELSE /\ Overwritten < MaxLost
            /\ lost' = [lost EXCEPT ![state[s]] = @ + 1]
    /\ Owe(t, None, "Pending", next)
    /\ UNCHANGED ended

\* create_stream: DashMap::insert replaces an entry that is already there.
Insert(t, s, m, next) ==
    /\ state'    = [state EXCEPT ![s] = "Pending"]
    /\ mode'     = [mode EXCEPT ![s] = m]
    /\ ended'    = ended \ {s}
    /\ failed'   = failed \ {s}
    /\ known'    = [known EXCEPT ![s] = {}]
    /\ complete' = [complete EXCEPT ![s] = {}]
    /\ expected' = [expected EXCEPT ![s] = 0]
    /\ announced' = [announced EXCEPT ![s] = {}]
    /\ used'     = used \cup {s}
    /\ IF state[s] = "Absent"
       THEN UNCHANGED lost
       ELSE /\ Overwritten < MaxLost
            /\ lost' = [lost EXCEPT ![state[s]] = @ + 1]
    /\ Owe(t, None, "Pending", next)

\* transition(): an unknown stream or an invalid transition changes nothing.
CanTransition(s, new) ==
    /\ state[s] # "Absent"
    /\ IsValidTransition(state[s], new, mode[s])

Transition(t, s, new) ==
    /\ CanTransition(s, new)
    /\ state' = [state EXCEPT ![s] = new]
    /\ ended' = IF new \in {"Ready", "Error", "Deleted"} THEN ended \cup {s} ELSE ended
    /\ Owe(t, state[s], new, None)
    /\ UNCHANGED <<mode, failed, known, complete, expected, announced, used, lost>>

\* The call on the stream the task holds returns an error.
CannotTransition(t, new) ==
    /\ ~CanTransition(sid[t], new)
    /\ pc'  = [pc EXCEPT ![t] = "idle"]
    /\ sid' = [sid EXCEPT ![t] = None]
    /\ UNCHANGED <<recVars, used, sub, add, snap, lost>>

\* Faulty variant: the stream need not exist.
TransitionToErrorUnchecked(t, s) ==
    /\ state[s] # "Deleted"
    /\ state'  = [state EXCEPT ![s] = "Error"]
    /\ ended'  = ended \cup {s}
    /\ failed' = failed \cup {s}
    /\ Owe(t, state[s], "Error", None)
    /\ UNCHANGED <<mode, known, complete, expected, announced, used, lost>>

TransitionToError(t, s) ==
    /\ state[s] \notin {"Absent", "Deleted"}
    /\ state'  = [state EXCEPT ![s] = "Error"]
    /\ ended'  = ended \cup {s}
    /\ failed' = failed \cup {s}
    /\ Owe(t, state[s], "Error", None)
    /\ UNCHANGED <<mode, known, complete, expected, announced, used, lost>>

\* Are the renditions in done all of the n expected ones?  n is 0 for None.
Enough(done, n) == n > 0 /\ Cardinality(done) >= n

-----------------------------------------------------------------------------
(* Workers: HTTP requests and RTMP connections.                            *)

\* POST /streams and an unmapped stream key create a record under a freshly
\* generated identifier.
CreateStream(w, s, m) ==
    /\ pc[w] = "idle"
    /\ s \notin used
    /\ Insert(w, s, m, None)
    /\ UNCHANGED <<counts, gauge, todo, sweep>>

\* A connection whose key is bound to s looks the record up and finds none
\* (the tombstone has been dropped, the key has not) ...
RtmpLookup(w, s) ==
    /\ pc[w] = "idle"
    /\ s \in used
    /\ state[s] = "Absent"
    /\ pc'  = [pc EXCEPT ![w] = "attach"]
    /\ sid' = [sid EXCEPT ![w] = s]
    /\ UNCHANGED <<recVars, used, counts, gauge, sub, add, snap, todo, sweep, lost>>

\* ... and creates it, without looking again.
RtmpCreate(w) ==
    /\ pc[w] = "attach"
    /\ Insert(w, sid[w], "Live", None)
    /\ UNCHANGED <<counts, gauge, todo, sweep>>

\* process_upload() creates a VOD record under the upload's own identifier and
\* then moves it to PROCESSING.
UploadCreate(w, s) ==
    /\ pc[w] = "idle"
    /\ s \notin used
    /\ Insert(w, s, "Vod", s)
    /\ UNCHANGED <<counts, gauge, todo, sweep>>

UploadAccept(w) ==
    /\ pc[w] = "accept"
    /\ \/ Transition(w, sid[w], "Processing")
       \/ CannotTransition(w, "Processing")
    /\ UNCHANGED <<counts, gauge, todo, sweep>>

\* DELETE /streams/{id}: the result of the transition is ignored, so the
\* request changes the record only where READY or ERROR allows it.
AdminDelete(w, s) ==
    /\ pc[w] = "idle"
    /\ Transition(w, s, "Deleted")
    /\ UNCHANGED <<counts, gauge, todo, sweep>>

\* run_live() / run_vod_from_file() of a transcoder that works for s.  Several
\* connections may have attached to one PENDING record: each announces the
\* number of renditions its own resolution selects, whatever the state is then.
SetExpectedRenditions(s, n) ==
    /\ state[s] # "Absent"
    /\ expected' = [expected EXCEPT ![s] = n]
    /\ announced' = [announced EXCEPT ![s] = @ \cup {n}]
    /\ UNCHANGED <<state, mode, ended, failed, known, complete, used, counts,
                   gauge, taskVars, todo, sweep, lost>>

-----------------------------------------------------------------------------
(* The event handler: one event at a time, from one queue.                 *)

StreamStarted(s) ==
    /\ pc[Handler] = "idle"
    /\ Transition(Handler, s, "Live")
    /\ UNCHANGED <<counts, gauge, todo, sweep>>

StreamEnded(s) ==
    /\ pc[Handler] = "idle"
    /\ Transition(Handler, s, "Processing")
    /\ UNCHANGED <<counts, gauge, todo, sweep>>

StreamError(s) ==
    /\ pc[Handler] = "idle"
    /\ TransitionToError(Handler, s)
    /\ UNCHANGED <<counts, gauge, todo, sweep>>

\* SegmentProduced: update_rendition_progress() adds the rendition if missing.
SegmentProduced(s, r) ==
    /\ pc[Handler] = "idle"
    /\ state[s] # "Absent"
    /\ known' = [known EXCEPT ![s] = @ \cup {r}]
    /\ UNCHANGED <<state, mode, ended, failed, complete, expected, announced, used, counts,
                   gauge, taskVars, todo, sweep, lost>>

\* Faulty variant: counts the renditions that have produced a segment.
RenditionCompleteCountsKnown(s, r) ==
    /\ pc[Handler] = "idle"
    /\ state[s] # "Absent"
    /\ complete' = [complete EXCEPT ![s] = @ \cup ({r} \cap known[s])]
    /\ IF state[s] = "Processing" /\ Enough(known[s], expected[s])
       THEN /\ pc'  = [pc EXCEPT ![Handler] = "ready"]
            /\ sid' = [sid EXCEPT ![Handler] = s]
       ELSE UNCHANGED <<pc, sid>>
    /\ UNCHANGED <<state, mode, ended, failed, known, expected, announced, used, counts,
                   gauge, sub, add, snap, todo, sweep, lost>>

\* RenditionComplete: mark_rendition_complete() decides under the lock whether
\* to move on to READY ...
RenditionComplete(s, r) ==
    /\ pc[Handler] = "idle"
    /\ state[s] # "Absent"
    /\ complete' = [complete EXCEPT ![s] = @ \cup ({r} \cap known[s])]
    /\ IF state[s] = "Processing" /\ Enough(complete'[s], expected[s])
       THEN /\ pc'  = [pc EXCEPT ![Handler] = "ready"]
            /\ sid' = [sid EXCEPT ![Handler] = s]
       ELSE UNCHANGED <<pc, sid>>
    /\ UNCHANGED <<state, mode, ended, failed, known, expected, announced, used, counts,
                   gauge, sub, add, snap, todo, sweep, lost>>

\* ... and calls transition(), which takes the lock again.
AutoReady ==
    /\ pc[Handler] = "ready"
    /\ \/ Transition(Handler, sid[Handler], "Ready")
       \/ CannotTransition(Handler, "Ready")
    /\ UNCHANGED <<counts, gauge, todo, sweep>>

-----------------------------------------------------------------------------
(* The cleanup task: it lists the streams of one state, keeps those old    *)
(* enough, and treats them one after the other.                            *)

\* Retention is 24 hours; a connection between its lookup and its create is
\* not that old when the list is taken.
RetentionExceedsCalls == \A w \in Workers : pc[w] # "attach"

CleanupList(from, to, listed) ==
    /\ pc[Cleaner] = "idle"
    /\ todo = {}
    /\ sweep = from
    /\ RetentionExceedsCalls
    /\ sweep' = to
    /\ todo' \in SUBSET {s \in StreamIds : state[s] = listed}
    /\ UNCHANGED <<recVars, used, counts, gauge, taskVars, lost>>

CleanupListErrors  == CleanupList("remove", "purge", "Error")
CleanupListDeleted == CleanupList("purge", "remove", "Deleted")

\* Phase 2: an expired ERROR stream whose objects are gone becomes DELETED;
\* when deleting its objects fails it is left for the next cycle.
CleanupPurge(s) ==
    /\ pc[Cleaner] = "idle"
    /\ sweep = "purge"
    /\ s \in todo
    /\ todo' = todo \ {s}
    /\ \/ Transition(Cleaner, s, "Deleted")
       \/ UNCHANGED <<recVars, used, taskVars, lost>>
    /\ UNCHANGED <<counts, gauge, sweep>>

\* Faulty variant: the removed record is not subtracted from its counter.
CleanupRemoveUncounted(s) ==
    /\ pc[Cleaner] = "idle"
    /\ sweep = "remove"
    /\ s \in todo
    /\ todo' = todo \ {s}
    /\ state'    = [state EXCEPT ![s] = "Absent"]
    /\ ended'    = ended \ {s}
    /\ failed'   = failed \ {s}
    /\ known'    = [known EXCEPT ![s] = {}]
    /\ complete' = [complete EXCEPT ![s] = {}]
    /\ expected' = [expected EXCEPT ![s] = 0]
    /\ announced' = [announced EXCEPT ![s] = {}]
    /\ UNCHANGED <<mode, taskVars, used, counts, gauge, sweep, lost>>

\* Phase 3: remove_stream() takes whatever entry the identifier has now.
CleanupRemove(s) ==
    /\ pc[Cleaner] = "idle"
    /\ sweep = "remove"
    /\ s \in todo
    /\ todo' = todo \ {s}
    /\ \/ /\ state[s] # "Absent"
          /\ state'    = [state EXCEPT ![s] = "Absent"]
          /\ ended'    = ended \ {s}
          /\ failed'   = failed \ {s}
          /\ known'    = [known EXCEPT ![s] = {}]
          /\ complete' = [complete EXCEPT ![s] = {}]
          /\ expected' = [expected EXCEPT ![s] = 0]
          /\ announced' = [announced EXCEPT ![s] = {}]
          /\ Owe(Cleaner, state[s], None, None)
          /\ UNCHANGED mode
       \/ /\ state[s] = "Absent"
          /\ UNCHANGED <<recVars, taskVars>>
    /\ UNCHANGED <<used, counts, gauge, sweep, lost>>

-----------------------------------------------------------------------------
(* Counters and gauges, outside the lock.                                  *)

CounterSub(t) ==
    /\ pc[t] = "count"
    /\ sub[t] # None
    /\ counts' = [counts EXCEPT ![sub[t]] = @ - 1]
    /\ sub' = [sub EXCEPT ![t] = None]
    /\ UNCHANGED <<recVars, used, gauge, pc, sid, add, snap, todo, sweep, lost>>

CounterAdd(t) ==
    /\ pc[t] = "count"
    /\ sub[t] = None
    /\ add[t] # None
    /\ counts' = [counts EXCEPT ![add[t]] = @ + 1]
    /\ add' = [add EXCEPT ![t] = None]
    /\ UNCHANGED <<recVars, used, gauge, pc, sid, sub, snap, todo, sweep, lost>>

\* update_stream_gauges() copies each counter, clipped at zero, to its gauge.
\* The six copies do not interact: any of them may be watched, and the loop is
\* one load of the watched counters and, later, one store of their gauges.
Clip(n) == IF n < 0 THEN 0 ELSE n

GaugeLoad(t) ==
    /\ pc[t] = "count"
    /\ sub[t] = None
    /\ add[t] = None
    /\ snap' = [snap EXCEPT ![t] = [x \in Watched |-> Clip(counts[x])]]
    /\ pc' = [pc EXCEPT ![t] = "publish"]
    /\ UNCHANGED <<recVars, used, counts, gauge, sid, sub, add, todo, sweep, lost>>

GaugePublish(t) ==
    /\ pc[t] = "publish"
    /\ gauge' = snap[t]
    /\ snap' = [snap EXCEPT ![t] = NoSnap]
    /\ pc' = [pc EXCEPT ![t] = IF sid[t] = None THEN "idle" ELSE "accept"]
    /\ UNCHANGED <<recVars, used, counts, sid, sub, add, todo, sweep, lost>>

-----------------------------------------------------------------------------
WorkerStep(w) ==
    \/ \E s \in StreamIds, m \in Modes : CreateStream(w, s, m)
    \/ \E s \in StreamIds : RtmpLookup(w, s)
    \/ RtmpCreate(w)
    \/ \E s \in StreamIds : UploadCreate(w, s)
    \/ UploadAccept(w)
    \/ \E s \in StreamIds : AdminDelete(w, s)

HandlerStep ==
    \/ \E s \in StreamIds : StreamStarted(s)
    \/ \E s \in StreamIds : StreamEnded(s)
    \/ \E s \in StreamIds : StreamError(s)
    \/ \E s \in StreamIds, r \in Renditions : SegmentProduced(s, r)
    \/ \E s \in StreamIds, r \in Renditions : RenditionComplete(s, r)
    \/ AutoReady

CleanerStep ==
    \/ CleanupListErrors
    \/ CleanupListDeleted
    \/ \E s \in StreamIds : CleanupPurge(s)
    \/ \E s \in StreamIds : CleanupRemove(s)

MetricStep(t) == CounterSub(t) \/ CounterAdd(t) \/ GaugeLoad(t) \/ GaugePublish(t)

Next ==
    \/ \E w \in Workers : WorkerStep(w)
    \/ \E s \in StreamIds, n \in Selections : SetExpectedRenditions(s, n)
    \/ HandlerStep
    \/ CleanerStep
    \/ \E t \in Tasks : MetricStep(t)

Spec == Init /\ [][Next]_vars

-----------------------------------------------------------------------------
(* Properties.                                                             *)

TypeOK ==
    /\ state    \in [StreamIds -> States \cup {"Absent"}]
    /\ mode     \in [StreamIds -> Modes]
    /\ ended    \subseteq StreamIds
    /\ failed   \subseteq StreamIds
    /\ known    \in [StreamIds -> SUBSET Renditions]
    /\ complete \in [StreamIds -> SUBSET Renditions]
    /\ expected \in [StreamIds -> Nat]
    /\ announced \in [StreamIds -> SUBSET Selections]
    /\ used     \subseteq StreamIds
    /\ counts   \in [States -> Int]
    /\ gauge    \in [Watched -> Nat]
    /\ pc   \in [Tasks -> Phases]
    /\ sid  \in [Tasks -> StreamIds \cup {None}]
    /\ sub  \in [Tasks -> States \cup {None}]
    /\ add  \in [Tasks -> States \cup {None}]
    /\ snap \in [Tasks -> [Watched -> Nat]]
    /\ todo \subseteq StreamIds
    /\ sweep \in {"purge", "remove"}
    /\ lost \in [States -> Nat]

\* How many indices f maps to x.
Tally(f, x) == Cardinality({i \in DOMAIN f : f[i] = x})

\* The counters are updated outside the entry's lock, in any interleaving with
\* other calls; still no update is lost or applied twice.  In every state a
\* counter differs from the number of records in its state by exactly the
\* updates that running calls still owe and the records create_stream()
\* overwrote (it counts the new PENDING record but not the disappearance of
\* the old one).
CountersConserved ==
    \A x \in States :
        counts[x] = Tally(state, x) + lost[x] + Tally(sub, x) - Tally(add, x)

\* The record has as many complete renditions as one of its transcoders
\* announced.
AllComplete(s) == \E n \in announced[s] : Enough(complete[s], n)

\* mark_rendition_complete() decides under the lock and transitions after
\* releasing it, and meanwhile the record may be replaced, fail, or get another
\* number of expected renditions.  A stream is nevertheless READY only when this
\* same record had all renditions complete that one of its transcoders
\* announced.  With one transcoder per record these are "All renditions
\* available for playback" (control/state.rs).
ReadyOnlyWhenComplete ==
    \A s \in StreamIds : state[s] = "Ready" => AllComplete(s)

\* ended_at and error_message agree with the state on every path that writes
\* them (transition, transition_to_error, create_stream over an old record):
\* the cleanup task computes a record's age from ended_at.
TerminalRecords ==
    \A s \in StreamIds :
        /\ s \in ended <=> state[s] \in {"Ready", "Error", "Deleted"}
        /\ s \in failed => state[s] \in {"Error", "Deleted"}
        /\ state[s] = "Error" => s \in failed

\* Every interleaving of the callers drives each record through the documented
\* life cycle; in particular the cleanup task, which acts on a list taken
\* earlier, removes only DELETED records.
Lifecycle == INSTANCE StreamLifecycle
    WITH phase <- state, packaged <- {s \in StreamIds : AllComplete(s)}

ImplementsLifecycle == Lifecycle!Spec

=============================================================================
