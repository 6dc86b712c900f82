----------------------------- MODULE RtmpIngest -----------------------------
(***************************************************************************)
(* RTMP connections up to and after the demux loop (ingest/rtmp.rs): the   *)
(* accept loop and its two semaphores, authentication, the attachment to a *)
(* stream record, the announcement of the stream and of its end.  Several  *)
(* connections run concurrently and share the records and the queue of     *)
(* events.                                                                 *)
(*                                                                         *)
(* <<s, n>> is the n-th key made for stream s by the API, StaticKey        *)
(* stands for the keys of the configuration and WrongKey for all others    *)
(* (the configuration has a key: without any, all are accepted).  The      *)
(* bytes of handshake, commands and media are abstracted to whether they   *)
(* are acceptable.  What moves a record otherwise (the end of packaging,   *)
(* deletion, cleanup) is kept to its effect on the state.                  *)
(***************************************************************************)
EXTENDS Integers, Sequences, FiniteSets

CONSTANTS
    StreamIds,        \* stream identifiers
    Connections,      \* TCP connections, each used once
    StaticKey, WrongKey,
    None,             \* no stream, no key
    MaxConnections,   \* max_concurrent_rtmp_connections
    MaxStreams,       \* max_concurrent_live_streams
    EventCap,         \* EVENT_CHANNEL_CAPACITY
    MaxKeys           \* bound: keys made for one stream

ASSUME RtmpIngestAssumption ==
    /\ IsFiniteSet(Connections)
    /\ MaxConnections \in Nat
    /\ MaxStreams \in Nat
    /\ EventCap \in Nat \ {0}
    /\ MaxKeys \in Nat \ {0}
    /\ None \notin StreamIds
    /\ StaticKey # WrongKey
    /\ \A s \in StreamIds, n \in 1..MaxKeys : <<s, n>> \notin {StaticKey, WrongKey}

VARIABLES
    (* the connections *)
    phase,         \* where handle() is
    key,           \* the stream key presented
    stream,        \* the stream the connection publishes to
    (* the server *)
    connPermits,   \* available permits of active_connections
    streamPermits, \* available permits of active_streams
    active,        \* the ingest_active_streams gauge
    (* the control plane *)
    state,         \* state[s], "Absent" when there is no record
    generation,    \* number of keys made for a stream
    bound,         \* keys in the key store that are bound to a stream
    rotating,      \* per stream, the rotations that have dropped the old key
    used,          \* identifiers generated so far
    events,        \* channel to the event handler
    (* history *)
    stranded       \* streams a connection left while they waited to start

serverVars  == <<connPermits, streamPermits, active>>
keyVars     == <<generation, bound, rotating>>
controlVars == <<state, keyVars, used, events>>
vars == <<phase, key, stream, serverVars, controlVars, stranded>>

ApiKeys == {<<s, n>> : s \in StreamIds, n \in 1..MaxKeys}

\* Phases in which handle() owns a permit of active_streams.
Admitted == {"resolve", "create", "header", "start", "live", "ended", "failed"}
States   == {"Absent", "Pending", "Live", "Processing", "Ready", "Error", "Deleted"}
Phases   == {"new", "handshake", "commands", "auth", "permit", "closed"} \cup Admitted

Init ==
    /\ phase  = [c \in Connections |-> "new"]
    /\ key    = [c \in Connections |-> None]
    /\ stream = [c \in Connections |-> None]
    /\ connPermits   = MaxConnections
    /\ streamPermits = MaxStreams
    /\ active = 0
    /\ state  = [s \in StreamIds |-> "Absent"]
    /\ generation = [s \in StreamIds |-> 0]
    /\ bound  = {}
    /\ rotating = [s \in StreamIds |-> 0]
    /\ used   = {}
    /\ events = <<>>
    /\ stranded = {}

-----------------------------------------------------------------------------
(* The server and the connections.                                         *)

\* handle() goes on.
Go(c, to) == phase' = [phase EXCEPT ![c] = to]

\* handle() returns: the permits it owns are dropped with it.
Leave(c) ==
    /\ Go(c, "closed")
    /\ connPermits' = connPermits + 1
    /\ streamPermits' = streamPermits + (IF phase[c] \in Admitted THEN 1 ELSE 0)

\* Faulty variant: the permit is taken without looking.
AcceptUnlimited(c) ==
    /\ phase[c] = "new"
    /\ connPermits' = connPermits - 1
    /\ Go(c, "handshake")
    /\ UNCHANGED <<key, stream, streamPermits, active, controlVars, stranded>>

\* run(): without a permit the connection is dropped.
Accept(c) ==
    /\ phase[c] = "new"
    /\ \/ /\ connPermits > 0
          /\ connPermits' = connPermits - 1
          /\ Go(c, "handshake")
       \/ /\ connPermits = 0
          /\ Go(c, "closed")
          /\ UNCHANGED connPermits
    /\ UNCHANGED <<key, stream, streamPermits, active, controlVars, stranded>>

\* perform_handshake() under a timeout.
Handshake(c) ==
    /\ phase[c] = "handshake"
    /\ \/ Go(c, "commands") /\ UNCHANGED <<connPermits, streamPermits>>
       \/ Leave(c)
    /\ UNCHANGED <<key, stream, active, controlVars, stranded>>

\* process_commands(): a publish with a key ...
Publish(c, k) ==
    /\ phase[c] = "commands"
    /\ key' = [key EXCEPT ![c] = k]
    /\ Go(c, "auth")
    /\ UNCHANGED <<stream, serverVars, controlVars, stranded>>

\* ... or deleteStream, a malformed command, or the end of the connection.
\* There is no timeout here.
CommandsFail(c) ==
    /\ phase[c] = "commands"
    /\ Leave(c)
    /\ UNCHANGED <<key, stream, active, controlVars, stranded>>

\* validate_stream_key_with_ip(): an address with too many failures is refused
\* whatever its key.
Authenticate(c) ==
    /\ phase[c] = "auth"
    /\ \/ /\ key[c] \in bound \cup {StaticKey}
          /\ Go(c, "permit")
          /\ UNCHANGED <<connPermits, streamPermits>>
       \/ Leave(c)
    /\ UNCHANGED <<key, stream, active, controlVars, stranded>>

AcquireStreamPermit(c) ==
    /\ phase[c] = "permit"
    /\ \/ /\ streamPermits > 0
          /\ streamPermits' = streamPermits - 1
          /\ Go(c, "resolve")
          /\ UNCHANGED connPermits
       \/ /\ streamPermits = 0
          /\ Leave(c)
    /\ UNCHANGED <<key, stream, active, controlVars, stranded>>

\* Faulty variant: rejected in the record's state, the connection forgets the
\* permit it has just taken.
ResolveBoundLeaks(c) ==
    /\ phase[c] = "resolve"
    /\ key[c] \in bound
    /\ LET s == key[c][1]
       IN  /\ stream' = [stream EXCEPT ![c] = s]
           /\ \/ state[s] = "Absent" /\ Go(c, "create") /\ UNCHANGED connPermits
              \/ state[s] = "Pending" /\ Go(c, "header") /\ UNCHANGED connPermits
              \/ /\ state[s] \notin {"Absent", "Pending"}
                 /\ Go(c, "closed")
                 /\ connPermits' = connPermits + 1
    /\ UNCHANGED <<key, streamPermits, active, controlVars, stranded>>

\* A bound key attaches to its own record, if that is PENDING.
ResolveBound(c) ==
    /\ phase[c] = "resolve"
    /\ key[c] \in bound
    /\ LET s == key[c][1]
       IN  /\ stream' = [stream EXCEPT ![c] = s]
           /\ \/ /\ state[s] = "Absent"
                 /\ Go(c, "create")
                 /\ UNCHANGED <<connPermits, streamPermits>>
              \/ /\ state[s] = "Pending"
                 /\ Go(c, "header")
                 /\ UNCHANGED <<connPermits, streamPermits>>
              \/ state[s] \notin {"Absent", "Pending"} /\ Leave(c)
    /\ UNCHANGED <<key, active, controlVars, stranded>>

\* The record was gone when looked up: it is created, without looking again.
CreateBound(c) ==
    /\ phase[c] = "create"
    /\ state' = [state EXCEPT ![stream[c]] = "Pending"]
    /\ Go(c, "header")
    /\ UNCHANGED <<key, stream, serverVars, keyVars, used, events, stranded>>

\* Any other key gets a record of its own: a key of the configuration, or one
\* rotated away since it was validated.
ResolveUnbound(c, s) ==
    /\ phase[c] = "resolve"
    /\ key[c] \notin bound
    /\ s \notin used
    /\ used' = used \cup {s}
    /\ state' = [state EXCEPT ![s] = "Pending"]
    /\ stream' = [stream EXCEPT ![c] = s]
    /\ Go(c, "header")
    /\ UNCHANGED <<key, serverVars, keyVars, events, stranded>>

\* wait_for_sequence_header() times out or fails: the record stays PENDING.
HeaderFails(c) ==
    /\ phase[c] = "header"
    /\ Leave(c)
    /\ stranded' = stranded \cup {stream[c]}
    /\ UNCHANGED <<key, stream, active, controlVars>>

\* The header is there and the gauge goes up.  The checks of codecs and
\* resolution that follow cannot fail: the codecs are constants, and the
\* demuxer has refused a header outside the same bounds (HeaderFails).
HeaderArrives(c) ==
    /\ phase[c] = "header"
    /\ active' = active + 1
    /\ Go(c, "start")
    /\ UNCHANGED <<key, stream, connPermits, streamPermits, controlVars, stranded>>

Send(kind, s) ==
    /\ Len(events) < EventCap
    /\ events' = Append(events, [kind |-> kind, stream |-> s])

\* StreamStarted is sent and the pipeline spawned (see LivePipeline).
Start(c) ==
    /\ phase[c] = "start"
    /\ Send("StreamStarted", stream[c])
    /\ Go(c, "live")
    /\ UNCHANGED <<key, stream, serverVars, state, keyVars, used, stranded>>

\* run_demux_loop() returns Ok or, after too many errors, Err.
EndDemux(c, outcome) ==
    /\ phase[c] = "live"
    /\ active' = active - 1
    /\ Go(c, outcome)
    /\ UNCHANGED <<key, stream, connPermits, streamPermits, controlVars, stranded>>

\* Faulty variant: an error is returned without being reported.
ReportOrderly(c) ==
    /\ \/ phase[c] = "ended" /\ Send("StreamEnded", stream[c])
       \/ phase[c] = "failed" /\ UNCHANGED events
    /\ Leave(c)
    /\ UNCHANGED <<key, stream, active, state, keyVars, used, stranded>>

Report(c) ==
    /\ \/ phase[c] = "ended" /\ Send("StreamEnded", stream[c])
       \/ phase[c] = "failed" /\ Send("StreamError", stream[c])
    /\ Leave(c)
    /\ UNCHANGED <<key, stream, active, state, keyVars, used, stranded>>

-----------------------------------------------------------------------------
(* The control plane.                                                      *)

Move(s, from, to) == state' = [state EXCEPT ![s] = IF @ \in from THEN to ELSE @]

\* Faulty variant: a stream whose connection has ended is not started.
HandleEventWhileLive ==
    /\ events # <<>>
    /\ events' = Tail(events)
    /\ LET e == Head(events)
       IN  \/ /\ e.kind = "StreamStarted"
              /\ Move(e.stream, IF \E c \in Connections : phase[c] = "live" /\ stream[c] = e.stream
                                THEN {"Pending"} ELSE {}, "Live")
           \/ e.kind = "StreamEnded" /\ Move(e.stream, {"Live"}, "Processing")
           \/ /\ e.kind = "StreamError"
              /\ Move(e.stream, States \ {"Absent", "Deleted"}, "Error")
    /\ UNCHANGED <<phase, key, stream, serverVars, keyVars, used, stranded>>

HandleEvent ==
    /\ events # <<>>
    /\ events' = Tail(events)
    /\ LET e == Head(events)
       IN  \/ e.kind = "StreamStarted" /\ Move(e.stream, {"Pending"}, "Live")
           \/ e.kind = "StreamEnded" /\ Move(e.stream, {"Live"}, "Processing")
           \/ /\ e.kind = "StreamError"
              /\ Move(e.stream, States \ {"Absent", "Deleted"}, "Error")
    /\ UNCHANGED <<phase, key, stream, serverVars, keyVars, used, stranded>>

\* generate_stream_key_for_stream()
MakeKey(s) ==
    /\ generation' = [generation EXCEPT ![s] = @ + 1]
    /\ bound' = bound \cup {<<s, generation'[s]>>}

\* POST /streams: a record and a key bound to it.
CreateStream(s) ==
    /\ s \notin used
    /\ used' = used \cup {s}
    /\ state' = [state EXCEPT ![s] = "Pending"]
    /\ MakeKey(s)
    /\ UNCHANGED <<phase, key, stream, serverVars, rotating, events, stranded>>

\* POST /streams/{id}/rotate-key drops the old keys and then, the store having
\* been unlocked, adds a new one.  Whoever publishes with the old one stays.
RotateKey(s) ==
    /\ state[s] # "Absent"
    /\ generation[s] + rotating[s] < MaxKeys
    /\ bound' = {k \in bound : k[1] # s}
    /\ rotating' = [rotating EXCEPT ![s] = @ + 1]
    /\ UNCHANGED <<phase, key, stream, serverVars, state, generation, used, events, stranded>>

RotateKeyEnd(s) ==
    /\ rotating[s] > 0
    /\ rotating' = [rotating EXCEPT ![s] = @ - 1]
    /\ MakeKey(s)
    /\ UNCHANGED <<phase, key, stream, serverVars, state, used, events, stranded>>

\* The record moves on without a connection: packaged, deleted, dropped.  Its
\* key stays.
Retire(s) ==
    /\ \E next \in {"Ready", "Deleted", "Absent"} :
          /\ <<state[s], next>> \in {<<"Processing", "Ready">>, <<"Ready", "Deleted">>,
                                     <<"Error", "Deleted">>, <<"Deleted", "Absent">>}
          /\ state' = [state EXCEPT ![s] = next]
    /\ UNCHANGED <<phase, key, stream, serverVars, keyVars, used, events, stranded>>

-----------------------------------------------------------------------------
\* The keys handed out so far.
Known == {k \in ApiKeys : k[2] <= generation[k[1]]}

Step(c) ==
    \/ Accept(c) \/ Handshake(c) \/ CommandsFail(c)
    \/ \E k \in Known \cup {StaticKey, WrongKey} : Publish(c, k)
    \/ Authenticate(c) \/ AcquireStreamPermit(c)
    \/ ResolveBound(c) \/ CreateBound(c)
    \/ \E s \in StreamIds : ResolveUnbound(c, s)
    \/ HeaderFails(c) \/ HeaderArrives(c) \/ Start(c)
    \/ \E outcome \in {"ended", "failed"} : EndDemux(c, outcome)
    \/ Report(c)

Next ==
    \/ \E c \in Connections : Step(c)
    \/ HandleEvent
    \/ \E s \in StreamIds : CreateStream(s) \/ RotateKey(s) \/ RotateKeyEnd(s) \/ Retire(s)

Spec == Init /\ [][Next]_vars

-----------------------------------------------------------------------------
(* Properties.                                                             *)

\* The variables have their types; no permit is given out twice and the gauge
\* never falls below zero.
TypeOK ==
    /\ phase \in [Connections -> Phases]
    /\ key \in [Connections -> ApiKeys \cup {StaticKey, WrongKey, None}]
    /\ stream \in [Connections -> StreamIds \cup {None}]
    /\ connPermits \in 0..MaxConnections
    /\ streamPermits \in 0..MaxStreams
    /\ active \in Nat
    /\ state \in [StreamIds -> States]
    /\ generation \in [StreamIds -> 0..MaxKeys]
    /\ bound \in SUBSET ApiKeys
    /\ rotating \in [StreamIds -> 0..MaxKeys]
    /\ used \in SUBSET StreamIds
    /\ events \in Seq([kind : {"StreamStarted", "StreamEnded", "StreamError"},
                       stream : StreamIds])
    /\ stranded \in SUBSET StreamIds

Owners == {c \in Connections : phase[c] \notin {"new", "closed"}}
Publishers(s) ==
    {c \in Connections : stream[c] = s /\ phase[c] \in {"live", "ended", "failed"}}

\* On every way out of handle(), and there are many early returns, the permits
\* come back: those available and those owned by running connections are the
\* configured numbers.  Likewise the gauge, which nothing drops by itself, counts
\* the connections that are about to start or live and no others.
PermitsConserved ==
    /\ connPermits + Cardinality(Owners) = MaxConnections
    /\ streamPermits + Cardinality({c \in Connections : phase[c] \in Admitted}) = MaxStreams
    /\ active = Cardinality({c \in Connections : phase[c] \in {"start", "live"}})

Ends(s) == {i \in DOMAIN events :
               events[i].stream = s /\ events[i].kind \in {"StreamEnded", "StreamError"}}

\* A record is LIVE only while somebody publishes to it or the report of the
\* end is queued, whichever connections attach, re-create the record or fail
\* around it: a LIVE stream is never orphaned.
LiveHasPublisher ==
    \A s \in StreamIds : state[s] = "Live" => Publishers(s) # {} \/ Ends(s) # {}

\* A record that no key leads to is PENDING only while a connection waits for
\* its sequence header or is about to announce the stream, or the announcement
\* is queued.  The one exception are records whose connection failed or timed
\* out at the sequence header: handle() returns without a word about them.
PendingHasConnection ==
    \A s \in StreamIds \ stranded :
        state[s] = "Pending" /\ generation[s] = 0 /\ rotating[s] = 0 =>
            \/ \E c \in Connections : phase[c] \in {"header", "start"} /\ stream[c] = s
            \/ \E i \in DOMAIN events : events[i] = [kind |-> "StreamStarted", stream |-> s]

=============================================================================
