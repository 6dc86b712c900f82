---------------------------- MODULE LivePipeline ----------------------------
(***************************************************************************)
(* One live stream from the RTMP connection to the object store: the       *)
(* demux loop (ingest/rtmp.rs), the transcoder (transcode/pipeline.rs),    *)
(* the packager (package/runner.rs) and the storage writer                 *)
(* (storage/writer.rs) are tasks joined by bounded channels                *)
(* (control/pipeline.rs); the connection and the packager report to the    *)
(* control plane's event handler (control/events.rs) through a fourth.     *)
(*                                                                         *)
(* A channel is a sequence with a capacity.  Its receiver sees the end of  *)
(* the stream once the sending task is past its last send and the sequence *)
(* is empty.  The stream's cancellation token is never cancelled by the    *)
(* code, so no task has a cancel branch here.  Media data is abstracted to *)
(* packets (pts, keyframe, track); one tick is one packet.                 *)
(***************************************************************************)
EXTENDS SegmentAccumulator, SegmentIndex, SequencesExt

CONSTANTS
    RenditionList,   \* the renditions selected for the stream, in order
    Kinds,           \* kinds of packets the encoder sends
    IngestCap,       \* INGEST_TRANSCODE_CHANNEL_CAP
    SegmentCap,      \* TRANSCODE_PACKAGER_CHANNEL_CAP
    StorageCap,      \* PACKAGER_STORAGE_CHANNEL_CAP
    EventCap,        \* EVENT_CHANNEL_CAPACITY
    MaxFrames,       \* bound: packets the encoder sends
    WithFfmpeg,      \* the ffmpeg build: the transcoder may fail
    StoreMayFail,    \* the object store may refuse a write four times
    NoPlaylist       \* no media.m3u8 stored yet

\* The identifiers of the renditions are distinct, as they are for the profile
\* names that name_to_rendition_id() knows.
ASSUME LivePipelineAssumption ==
    /\ RenditionList \in Seq(STRING) /\ RenditionList # <<>>
    /\ IsInjective(RenditionList)
    /\ Kinds \subseteq {"key", "inter", "audio"}
    /\ {IngestCap, SegmentCap, StorageCap, EventCap} \subseteq Nat \ {0}
    /\ MaxFrames \in Nat
    /\ WithFfmpeg \in BOOLEAN
    /\ StoreMayFail \in BOOLEAN

Renditions == {RenditionList[i] : i \in DOMAIN RenditionList}

VARIABLES
    (* the RTMP connection *)
    conn,       \* "start", "demux", "ended", "failed", "done"
    sent,       \* packets sent so far
    ingest,     \* channel to the transcoder
    (* the transcoder *)
    tx,         \* "off", "start", "run", "flush", "done", "failed"
    acc,        \* acc[r]: the accumulator of rendition r
    txOut,      \* txOut[i]: segment of the i-th rendition, emitted and not yet sent
    segments,   \* channel to the packager
    (* the packager *)
    pk,         \* "off", "run", "final", "done"
    index,      \* index[r]: the segment index of rendition r
    inits,      \* renditions whose init segment was written (rendition_infos)
    pkOut,      \* messages of the current segment, not yet sent
    writes,     \* channel to the storage writer
    (* the storage writer and the object store *)
    wr,         \* "off", "recv", "drain", "exec", "done"
    batch,      \* the writes being collected or executed
    store,      \* the objects under the stream's prefix
    gaveUp,     \* writes abandoned after the last retry
    (* the control plane *)
    events,     \* channel to the event handler
    rec         \* the stream's record

connVars == <<conn, sent, ingest>>
txVars   == <<tx, acc, txOut>>
pkVars   == <<pk, index, inits, pkOut>>
wrVars   == <<wr, batch, store, gaveUp>>
vars == <<connVars, txVars, segments, pkVars, writes, wrVars, events, rec>>

(* What travels through the channels. *)
Segment(r, n, last)   == [kind |-> "segment", rendition |-> r, seq |-> n, last |-> last]
InitWrite(r)          == [to |-> "store", kind |-> "init", rendition |-> r]
SegmentWrite(r, n)    == [to |-> "store", kind |-> "segment", rendition |-> r, seq |-> n]
PlaylistWrite(r, pl)  == [to |-> "store", kind |-> "playlist", rendition |-> r, content |-> pl]
MasterWrite(rs)       == [to |-> "store", kind |-> "master", content |-> rs]
Event(k)              == [to |-> "control", kind |-> k]
RenditionEvent(k, r)  == [to |-> "control", kind |-> k, rendition |-> r]

Init ==
    /\ conn = "start" /\ sent = 0 /\ ingest = <<>>
    /\ tx = "off" /\ acc = [r \in Renditions |-> NewAccumulator] /\ txOut = <<>>
    /\ segments = <<>>
    /\ pk = "off" /\ index = [r \in Renditions |-> NewIndex]
    /\ inits = {} /\ pkOut = <<>>
    /\ writes = <<>>
    /\ wr = "off" /\ batch = <<>> /\ gaveUp = {}
    /\ store = [inits |-> {}, segments |-> {}, master |-> {},
                playlists |-> [r \in Renditions |-> NoPlaylist]]
    /\ events = <<>>
    /\ rec = [state |-> "Pending", expected |-> 0, known |-> {}, complete |-> {}]

-----------------------------------------------------------------------------
(* The connection: handle() and run_demux_loop().                          *)

\* The stream is announced, then the three tasks are spawned.
StartStream ==
    /\ conn = "start"
    /\ Len(events) < EventCap
    /\ events' = Append(events, Event("StreamStarted"))
    /\ conn' = "demux"
    /\ tx' = "start"
    /\ pk' = "run"
    /\ wr' = "recv"
    /\ UNCHANGED <<sent, ingest, acc, txOut, segments, index, inits, pkOut,
                   writes, batch, store, gaveUp, rec>>

\* Faulty variant: the frame is queued without waiting for room.
SendFrameUnbounded(k) ==
    /\ conn = "demux"
    /\ tx \notin {"done", "failed"}
    /\ sent < MaxFrames
    /\ ingest' = Append(ingest, [pts |-> sent, key |-> k = "key", audio |-> k = "audio"])
    /\ sent' = sent + 1
    /\ UNCHANGED <<conn, txVars, segments, pkVars, writes, wrVars, events, rec>>

SendFrame(k) ==
    /\ conn = "demux"
    /\ tx \notin {"done", "failed"}
    /\ sent < MaxFrames
    /\ Len(ingest) < IngestCap
    /\ ingest' = Append(ingest, [pts |-> sent, key |-> k = "key", audio |-> k = "audio"])
    /\ sent' = sent + 1
    /\ UNCHANGED <<conn, txVars, segments, pkVars, writes, wrVars, events, rec>>

\* End of file, inactivity timeout, deleteStream, or the transcoder's end of
\* the channel is gone.  The channel's sender is dropped here, before the
\* event of the next step is sent.
StopDemux ==
    /\ conn = "demux"
    /\ conn' = "ended"
    /\ UNCHANGED <<sent, ingest, txVars, segments, pkVars, writes, wrVars, events, rec>>

\* Ten consecutive read errors.
FailDemux ==
    /\ conn = "demux"
    /\ conn' = "failed"
    /\ UNCHANGED <<sent, ingest, txVars, segments, pkVars, writes, wrVars, events, rec>>

ReportEnd ==
    /\ conn \in {"ended", "failed"}
    /\ Len(events) < EventCap
    /\ events' = Append(events,
                    Event(IF conn = "ended" THEN "StreamEnded" ELSE "StreamError"))
    /\ conn' = "done"
    /\ UNCHANGED <<sent, ingest, txVars, segments, pkVars, writes, wrVars, rec>>

IngestClosed == conn \in {"ended", "failed", "done"}

-----------------------------------------------------------------------------
(* The transcoder: run_live().                                             *)

SetExpected ==
    /\ tx = "start"
    /\ tx' = "run"
    /\ rec' = [rec EXCEPT !.expected = Len(RenditionList)]
    /\ UNCHANGED <<connVars, acc, txOut, segments, pkVars, writes, wrVars, events>>

\* What the accumulators emit, by the position of the rendition in the loop.
ByPosition(out) ==
    [i \in {j \in DOMAIN RenditionList : out[RenditionList[j]] # <<>>} |->
        LET r == RenditionList[i] IN Segment(r, out[r][1].seq, out[r][1].last)]

Unsent == DOMAIN txOut

\* process_frame() fans the packet out to every accumulator.
TranscodeFrame ==
    /\ tx = "run"
    /\ Unsent = {}
    /\ ingest # <<>>
    /\ ingest' = Tail(ingest)
    /\ acc' = [r \in Renditions |-> Push(acc[r], Head(ingest)).acc]
    /\ txOut' = ByPosition([r \in Renditions |-> Push(acc[r], Head(ingest)).out])
    /\ UNCHANGED <<conn, sent, tx, segments, pkVars, writes, wrVars, events, rec>>

\* The ingest channel is closed and drained: every accumulator is flushed.
FlushTranscoder ==
    /\ tx = "run"
    /\ Unsent = {}
    /\ ingest = <<>>
    /\ IngestClosed
    /\ tx' = "flush"
    /\ txOut' = ByPosition([r \in Renditions |-> Flush(acc[r])])
    /\ acc' = [r \in Renditions |->
                IF Flush(acc[r]) = <<>> THEN acc[r] ELSE Reset(acc[r])]
    /\ UNCHANGED <<connVars, segments, pkVars, writes, wrVars, events, rec>>

\* The segments go out in the order of the renditions.
SendSegment ==
    /\ Len(segments) < SegmentCap
    /\ \E i \in Unsent :
          /\ \A j \in Unsent : i <= j
          /\ segments' = Append(segments, txOut[i])
          /\ txOut' = [j \in Unsent \ {i} |-> txOut[j]]
    /\ UNCHANGED <<connVars, tx, acc, pkVars, writes, wrVars, events, rec>>

EndTranscoder ==
    /\ tx = "flush"
    /\ Unsent = {}
    /\ tx' = "done"
    /\ UNCHANGED <<connVars, acc, txOut, segments, pkVars, writes, wrVars, events, rec>>

\* transcode_blocking() returns an error.  The task that awaits it only logs
\* it; both ends of its channels are dropped.
FailTranscoder ==
    /\ WithFfmpeg
    /\ tx = "run"
    /\ tx' = "failed"
    /\ txOut' = <<>>
    /\ ingest' = <<>>
    /\ UNCHANGED <<conn, sent, acc, segments, pkVars, writes, wrVars, events, rec>>

-----------------------------------------------------------------------------
(* The packager: run_packager().                                           *)

\* Faulty variant: the last segment is announced before it is handed over.
MessagesCompleteFirst(seg) ==
    LET r == seg.rendition
        first == IF r \in inits
                 THEN <<>>
                 ELSE <<InitWrite(r), MasterWrite(inits \cup {r})>>
        done  == IF seg.last THEN <<RenditionEvent("RenditionComplete", r)>> ELSE <<>>
    IN  done
        \o first
        \o <<SegmentWrite(r, seg.seq),
             PlaylistWrite(r, GeneratePlaylist(AddSegment(index[r]), seg.last)),
             RenditionEvent("SegmentProduced", r)>>

\* What one segment makes the packager send, in this order.
Messages(seg) ==
    LET r == seg.rendition
        first == IF r \in inits
                 THEN <<>>
                 ELSE <<InitWrite(r), MasterWrite(inits \cup {r})>>
        done  == IF seg.last THEN <<RenditionEvent("RenditionComplete", r)>> ELSE <<>>
    IN  first
        \o <<SegmentWrite(r, seg.seq),
             PlaylistWrite(r, GeneratePlaylist(AddSegment(index[r]), seg.last)),
             RenditionEvent("SegmentProduced", r)>>
        \o done

PackageSegment ==
    /\ pk = "run"
    /\ pkOut = <<>>
    /\ segments # <<>>
    /\ segments' = Tail(segments)
    /\ pkOut' = Messages(Head(segments))
    /\ LET r == Head(segments).rendition
       IN  /\ index' = [index EXCEPT ![r] = AddSegment(@)]
           /\ inits' = inits \cup {r}
    /\ UNCHANGED <<connVars, txVars, pk, writes, wrVars, events, rec>>

SendMessage ==
    /\ pkOut # <<>>
    /\ pkOut' = Tail(pkOut)
    /\ \/ /\ Head(pkOut).to = "store"
          /\ Len(writes) < StorageCap
          /\ writes' = Append(writes, Head(pkOut))
          /\ UNCHANGED events
       \/ /\ Head(pkOut).to = "control"
          /\ Len(events) < EventCap
          /\ events' = Append(events, Head(pkOut))
          /\ UNCHANGED writes
    /\ UNCHANGED <<connVars, txVars, segments, pk, index, inits, wrVars, rec>>

\* Faulty variant: only an orderly end of the transcoder closes the channel.
FinishPackagerOrderly ==
    /\ pk = "run"
    /\ pkOut = <<>>
    /\ segments = <<>>
    /\ tx = "done"
    /\ pk' = "final"
    /\ pkOut' = IF inits = {} THEN <<>> ELSE <<MasterWrite(inits)>>
    /\ UNCHANGED <<connVars, txVars, segments, index, inits, writes, wrVars, events, rec>>

\* The transcoder is gone and its channel drained: a last master playlist.
FinishPackager ==
    /\ pk = "run"
    /\ pkOut = <<>>
    /\ segments = <<>>
    /\ tx \in {"done", "failed"}
    /\ pk' = "final"
    /\ pkOut' = IF inits = {} THEN <<>> ELSE <<MasterWrite(inits)>>
    /\ UNCHANGED <<connVars, txVars, segments, index, inits, writes, wrVars, events, rec>>

EndPackager ==
    /\ pk = "final"
    /\ pkOut = <<>>
    /\ pk' = "done"
    /\ UNCHANGED <<connVars, txVars, segments, index, inits, pkOut, writes, wrVars,
                   events, rec>>

-----------------------------------------------------------------------------
(* The storage writer: run_storage_writer().                               *)

ReceiveWrite ==
    /\ wr = "recv"
    /\ writes # <<>>
    /\ batch' = <<Head(writes)>>
    /\ writes' = Tail(writes)
    /\ wr' = "drain"
    /\ UNCHANGED <<connVars, txVars, segments, pkVars, store, gaveUp, events, rec>>

\* Faulty variant: the drained write replaces the batch collected so far.
DrainWriteReplaces ==
    /\ wr = "drain"
    /\ writes # <<>>
    /\ batch' = <<Head(writes)>>
    /\ writes' = Tail(writes)
    /\ UNCHANGED <<connVars, txVars, segments, pkVars, wr, store, gaveUp, events, rec>>

DrainWrite ==
    /\ wr = "drain"
    /\ writes # <<>>
    /\ batch' = Append(batch, Head(writes))
    /\ writes' = Tail(writes)
    /\ UNCHANGED <<connVars, txVars, segments, pkVars, wr, store, gaveUp, events, rec>>

ExecuteBatch ==
    /\ wr = "drain"
    /\ writes = <<>>
    /\ wr' = "exec"
    /\ UNCHANGED <<connVars, txVars, segments, pkVars, writes, batch, store, gaveUp,
                   events, rec>>

\* The object store after a successful put.
AfterPut(w) ==
    CASE w.kind = "init"     -> [store EXCEPT !.inits = @ \cup {w.rendition}]
      [] w.kind = "segment"  -> [store EXCEPT !.segments = @ \cup {<<w.rendition, w.seq>>}]
      [] w.kind = "playlist" -> [store EXCEPT !.playlists[w.rendition] = w.content]
      [] w.kind = "master"   -> [store EXCEPT !.master = w.content]

\* The writes of a batch run concurrently: any of them may be the next to land.
PutObject(i) ==
    /\ wr = "exec"
    /\ store' = AfterPut(batch[i])
    /\ batch' = RemoveAt(batch, i)
    /\ UNCHANGED <<connVars, txVars, segments, pkVars, writes, wr, gaveUp, events, rec>>

\* The first attempt and MAX_RETRIES more have failed: the error is logged.
AbandonObject(i) ==
    /\ wr = "exec"
    /\ StoreMayFail
    /\ gaveUp' = gaveUp \cup {batch[i]}
    /\ batch' = RemoveAt(batch, i)
    /\ UNCHANGED <<connVars, txVars, segments, pkVars, writes, wr, store, events, rec>>

NextBatch ==
    /\ wr = "exec"
    /\ batch = <<>>
    /\ wr' = "recv"
    /\ UNCHANGED <<connVars, txVars, segments, pkVars, writes, batch, store, gaveUp,
                   events, rec>>

EndWriter ==
    /\ wr = "recv"
    /\ writes = <<>>
    /\ pk = "done"
    /\ wr' = "done"
    /\ UNCHANGED <<connVars, txVars, segments, pkVars, writes, batch, store, gaveUp,
                   events, rec>>

-----------------------------------------------------------------------------
(* The event handler, on this stream's record (see StreamState for the     *)
(* manager's own interleavings).                                           *)

Transitioned(from, to) == IF rec.state = from THEN [rec EXCEPT !.state = to] ELSE rec

\* Faulty variant: the last complete rendition makes a LIVE stream READY too.
MarkCompleteWhileLive(r) ==
    LET done == rec.complete \cup ({r} \cap rec.known)
        full == rec.expected > 0 /\ Cardinality(done) >= rec.expected
    IN  [rec EXCEPT !.complete = done,
                    !.state = IF @ \in {"Live", "Processing"} /\ full THEN "Ready" ELSE @]

MarkComplete(r) ==
    LET done == rec.complete \cup ({r} \cap rec.known)
        full == rec.expected > 0 /\ Cardinality(done) >= rec.expected
    IN  [rec EXCEPT !.complete = done,
                    !.state = IF @ = "Processing" /\ full THEN "Ready" ELSE @]

HandleEvent ==
    /\ events # <<>>
    /\ events' = Tail(events)
    /\ LET e == Head(events)
       IN  rec' = CASE e.kind = "StreamStarted"     -> Transitioned("Pending", "Live")
                    [] e.kind = "StreamEnded"       -> Transitioned("Live", "Processing")
                    [] e.kind = "StreamError"       -> [rec EXCEPT !.state = "Error"]
                    [] e.kind = "SegmentProduced"   -> [rec EXCEPT !.known = @ \cup {e.rendition}]
                    [] e.kind = "RenditionComplete" -> MarkComplete(e.rendition)
    /\ UNCHANGED <<connVars, txVars, segments, pkVars, writes, wrVars>>

-----------------------------------------------------------------------------
Connection == StartStream \/ (\E k \in Kinds : SendFrame(k)) \/ StopDemux
                 \/ FailDemux \/ ReportEnd

Transcoder == SetExpected \/ TranscodeFrame \/ FlushTranscoder \/ SendSegment
                 \/ EndTranscoder \/ FailTranscoder

Packager == PackageSegment \/ SendMessage \/ FinishPackager \/ EndPackager

Writer == ReceiveWrite \/ DrainWrite \/ ExecuteBatch \/ NextBatch \/ EndWriter
             \/ (\E i \in DOMAIN batch : PutObject(i) \/ AbandonObject(i))

Next == Connection \/ Transcoder \/ Packager \/ Writer \/ HandleEvent

\* The runtime schedules every task that can run.  The encoder owes nothing,
\* but the inactivity timeout ends a connection that no longer sends.
Fairness ==
    /\ WF_vars(StartStream \/ ReportEnd)
    /\ WF_vars(StopDemux)
    /\ WF_vars(SetExpected \/ TranscodeFrame \/ FlushTranscoder \/ SendSegment
                 \/ EndTranscoder)
    /\ WF_vars(Packager)
    /\ WF_vars(Writer)
    /\ WF_vars(HandleEvent)

Spec == Init /\ [][Next]_vars /\ Fairness

-----------------------------------------------------------------------------
(* Properties.                                                             *)

Segments == [kind : {"segment"}, rendition : Renditions, seq : Nat, last : BOOLEAN]

Playlists == [files : Seq(Nat), endlist : BOOLEAN]

Writes ==
    [to : {"store"}, kind : {"init"}, rendition : Renditions]
    \cup [to : {"store"}, kind : {"segment"}, rendition : Renditions, seq : Nat]
    \cup [to : {"store"}, kind : {"playlist"}, rendition : Renditions, content : Playlists]
    \cup [to : {"store"}, kind : {"master"}, content : SUBSET Renditions]

Events ==
    [to : {"control"}, kind : {"StreamStarted", "StreamEnded", "StreamError"}]
    \cup [to : {"control"}, kind : {"SegmentProduced", "RenditionComplete"},
          rendition : Renditions]

\* Types of the tasks' states and of what is in the channels, which respect
\* their capacities; only a rendition with a produced segment is complete.
TypeOK ==
    /\ conn \in {"start", "demux", "ended", "failed", "done"}
    /\ sent \in 0..MaxFrames
    /\ tx \in {"off", "start", "run", "flush", "done", "failed"}
    /\ pk \in {"off", "run", "final", "done"}
    /\ wr \in {"off", "recv", "drain", "exec", "done"}
    /\ inits \subseteq Renditions
    /\ Len(ingest) <= IngestCap
    /\ segments \in Seq(Segments) /\ Len(segments) <= SegmentCap
    /\ pkOut \in Seq(Writes \cup Events)
    /\ writes \in Seq(Writes) /\ Len(writes) <= StorageCap
    /\ batch \in Seq(Writes)
    /\ events \in Seq(Events) /\ Len(events) <= EventCap
    /\ rec.state \in {"Pending", "Live", "Processing", "Ready", "Error"}
    /\ rec.known \subseteq Renditions
    /\ rec.complete \subseteq rec.known

\* Where the segments of rendition r are among the messages q.
At(r, q) == {i \in DOMAIN q : q[i].kind = "segment" /\ q[i].rendition = r}

Count(r, q) == Cardinality(At(r, q))

\* They are numbered from n on, without a gap.
Numbered(r, q, n) ==
    \A i \in At(r, q) : q[i].seq = n + Cardinality({j \in At(r, q) : j < i})

Executing(r) == {batch[i].seq : i \in At(r, batch)}

Stored(r) == {x[2] : x \in {y \in store.segments : y[1] = r}}

Abandoned(r) == {w.seq : w \in {v \in gaveUp : v.kind = "segment" /\ v.rendition = r}}

Landed(r) == Stored(r) \cup Abandoned(r)

\* Through four channels, a batching writer and every interleaving of the
\* tasks, no segment is lost, duplicated or overtaken before the store: those
\* landed, those being written and those in flight are 0, 1, 2, ... in this
\* order, up to the last one the accumulator emitted (a failing transcoder
\* drops the ones it had not sent).
SegmentsConserved ==
    \A r \in Renditions :
        LET settled == Landed(r) \cup Executing(r)
            atWrites == Cardinality(settled)
            atPackager == atWrites + Count(r, writes)
            atSegments == atPackager + Count(r, pkOut)
            atTranscoder == atSegments + Count(r, segments)
        IN  /\ settled = 0..(atWrites - 1)
            /\ Landed(r) \cap Executing(r) = {}
            /\ \A i, j \in At(r, batch) : batch[i].seq = batch[j].seq => i = j
            /\ Numbered(r, writes, atWrites)
            /\ Numbered(r, pkOut, atPackager)
            /\ Numbered(r, segments, atSegments)
            /\ Numbered(r, txOut, atTranscoder)
            /\ tx # "failed" => atTranscoder + Count(r, txOut) = acc[r].next

\* RenditionComplete is the last thing the packager says of a rendition: once
\* the control plane has it, no segment of the rendition is left upstream of
\* the writer.  So a READY stream has been packaged to its last segment.
CompleteMeansPackaged ==
    \A r \in rec.complete :
        /\ tx \in {"flush", "done"}
        /\ At(r, segments) = {} /\ At(r, txOut) = {} /\ At(r, pkOut) = {}
        /\ r \in inits

\* READY is reached only by way of the end of the connection, with every
\* rendition packaged.
ReadyIsPackaged ==
    rec.state = "Ready" =>
        /\ conn = "done"
        /\ ingest = <<>> /\ segments = <<>> /\ Unsent = {}
        /\ rec.complete = Renditions

AllDone ==
    /\ conn = "done"
    /\ tx \in {"done", "failed"}
    /\ pk = "done"
    /\ wr = "done"
    /\ events = <<>>

\* The bounded channels never leave the tasks waiting for each other, whether
\* or not the transcoder fails or the store refuses writes: every task of
\* every stream comes to its end.
Drains == <>AllDone

-----------------------------------------------------------------------------
(* What the documentation promises and the code does not keep.             *)

\* "RTMP disconnect mid-stream | ... | Flush buffered frames, finalize
\* segments, add #EXT-X-ENDLIST | LIVE -> PROCESSING -> READY"
\* (docs/architecture/media-lifecycle.md).
DisconnectLeadsToReady == (conn = "ended" /\ sent > 0) ~> (rec.state = "Ready")

=============================================================================
