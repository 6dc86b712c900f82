------------------------------ MODULE VodUpload ------------------------------
(***************************************************************************)
(* One VOD upload: upload_vod() receives the file (delivery/handlers.rs),  *)
(* process_upload() probes and validates it (ingest/http_upload.rs), and   *)
(* start_vod_pipeline_from_file() hands it to the tasks of a pipeline: a   *)
(* feeder that reads the file into the ingest channel, or ffmpeg reading   *)
(* it directly, a transcoder, a packager, and the event handler.           *)
(*                                                                         *)
(* A file is a number of chunks and a frame is a chunk.  Whether a frame   *)
(* closes a segment is open (SegmentAccumulator decides it).  Segments     *)
(* other than the last one of a rendition, the storage writer and the      *)
(* events that only report progress pass through and are left out.         *)
(***************************************************************************)
EXTENDS Integers, Sequences, FiniteSets

CONSTANTS
    Ladders,      \* configured ladders: sequences of [name, height]
    Sources,      \* heights of uploaded videos
    MaxChunks,    \* max_upload_size_bytes, in chunks
    FrameCap,     \* INGEST_TRANSCODE_CHANNEL_CAP
    SegmentCap,   \* TRANSCODE_PACKAGE_CHANNEL_CAP
    EventCap      \* EVENT_CHANNEL_CAPACITY

NameToRenditionId(name) == IF name \in {"high", "medium", "low"} THEN name ELSE "source"

ASSUME VodAssumption ==
    /\ \A l \in Ladders : l \in Seq([name : STRING, height : Nat])
    /\ MaxChunks \in Nat \ {0}
    /\ FrameCap \in Nat \ {0} /\ SegmentCap \in Nat \ {0} /\ EventCap \in Nat \ {0}

VARIABLES
    ffmpeg,       \* whether the build has the ffmpeg feature
    ladder,       \* the configured ladder
    (* the request *)
    handler,      \* where upload_vod() is
    status,       \* the answer it gave
    file,         \* the temporary file: "none" or "there"
    chunks,       \* chunks received
    blame,        \* history: why the file may stay for ever
    (* the pipeline *)
    source,       \* height of the video
    feeder, unread,
    transcoder, buffered,
    frames,       \* ingest channel, as a number of frames
    segments,     \* segment channel: the renditions whose last segment is in it
    (* the control plane *)
    events, record, expected, complete

requestVars  == <<handler, status, chunks>>
recordVars   == <<record, expected, complete>>
vars == <<ffmpeg, ladder, requestVars, file, blame, source, feeder, unread,
          transcoder, buffered, frames, segments, events, recordVars>>

\* The identifiers of the rungs no taller than the source, or the source itself
\* with the settings of the last rung; nothing when there is no ladder.  Rungs
\* may have the same identifier.
SelectRenditions(height) ==
    LET rungs == {i \in DOMAIN ladder : ladder[i].height <= height}
    IN  IF rungs = {} /\ ladder # <<>>
        THEN [i \in {Len(ladder)} |-> "source"]
        ELSE [i \in rungs |-> NameToRenditionId(ladder[i].name)]

Renditions == SelectRenditions(source)

Rungs == DOMAIN Renditions

Ids == {Renditions[i] : i \in Rungs}

Init ==
    /\ ffmpeg \in BOOLEAN
    /\ ladder \in Ladders
    /\ handler = "idle" /\ status = 0 /\ chunks = 0
    /\ file = "none" /\ blame = "nobody"
    /\ source = 0
    /\ feeder = "off" /\ unread = 0
    /\ transcoder = "off" /\ buffered = {}
    /\ frames = 0 /\ segments = <<>> /\ events = <<>>
    /\ record = "Absent" /\ expected = 0 /\ complete = {}

----------------------------------------------------------------------------
(* upload_vod() and process_upload() *)

\* remove_file() may fail, which is only logged.
Cleanup ==
    \/ file' = "none" /\ UNCHANGED blame
    \/ file' = file /\ blame' = "remove"

Answer(code) == handler' = "done" /\ status' = code

pipelineVars == <<source, feeder, unread, transcoder, buffered, frames, segments,
                  events, recordVars>>

\* The upload directory and the file are made, or the request fails.
StartUpload ==
    /\ handler = "idle"
    /\ \/ handler' = "receiving" /\ file' = "there" /\ UNCHANGED status
       \/ Answer(500) /\ UNCHANGED file
    /\ UNCHANGED <<ffmpeg, ladder, chunks, blame, pipelineVars>>

ReceiveChunk ==
    /\ handler = "receiving"
    /\ chunks' = chunks + 1
    /\ \/ chunks < MaxChunks /\ UNCHANGED <<handler, status, file, blame>>
       \/ chunks = MaxChunks /\ Cleanup /\ Answer(413)
    /\ UNCHANGED <<ffmpeg, ladder, pipelineVars>>

\* A broken body, no file part (400), a write or a flush that fails (500).
ReceiveFails ==
    /\ handler = "receiving"
    /\ Cleanup
    /\ \E code \in {400, 500} : Answer(code)
    /\ UNCHANGED <<ffmpeg, ladder, chunks, pipelineVars>>

ReceiveEnds ==
    /\ handler = "receiving"
    /\ handler' = "probing"
    /\ UNCHANGED <<ffmpeg, ladder, status, chunks, file, blame, pipelineVars>>

\* The client goes away: the server drops the handler at its next await.
ClientDisconnects ==
    /\ handler \in {"receiving", "probing"}
    /\ handler' = "dropped"
    /\ blame' = "dropped"
    /\ UNCHANGED <<ffmpeg, ladder, status, chunks, file, pipelineVars>>

\* An empty or unreadable file, or one of another format, is left behind.
ProbeFails ==
    /\ handler = "probing"
    /\ \E code \in {415, 422} : Answer(code)
    /\ blame' = "probe"
    /\ UNCHANGED <<ffmpeg, ladder, chunks, file, pipelineVars>>

\* Faulty variant: a refused file is not removed.
ValidateFailsKeepsFile ==
    /\ handler = "probing"
    /\ chunks > 0
    /\ \E code \in {415, 422} : Answer(code)
    /\ UNCHANGED <<ffmpeg, ladder, chunks, file, blame, pipelineVars>>

\* validate_upload(): container, codecs, duration or resolution.
ValidateFails ==
    /\ handler = "probing"
    /\ chunks > 0
    /\ Cleanup
    /\ \E code \in {415, 422} : Answer(code)
    /\ UNCHANGED <<ffmpeg, ladder, chunks, pipelineVars>>

\* Faulty variant: the file goes with the request, as on the other exits.
AcceptUploadCleansUp(height) ==
    /\ handler = "probing"
    /\ chunks > 0
    /\ Answer(201)
    /\ Cleanup
    /\ record' = "PROCESSING"
    /\ source' = height
    /\ unread' = chunks
    /\ feeder' = IF ffmpeg THEN "off" ELSE "opening"
    /\ transcoder' = "starting"
    /\ UNCHANGED <<ffmpeg, ladder, chunks, buffered, frames, segments,
                   events, expected, complete>>

\* The record is created and moved to PROCESSING and the tasks are spawned,
\* without an await at which the handler could be dropped.
AcceptUpload(height) ==
    /\ handler = "probing"
    /\ chunks > 0
    /\ Answer(201)
    /\ record' = "PROCESSING"
    /\ source' = height
    /\ unread' = chunks
    /\ feeder' = IF ffmpeg THEN "off" ELSE "opening"
    /\ transcoder' = "starting"
    /\ blame' = IF ffmpeg THEN "ffmpeg" ELSE blame
    /\ UNCHANGED <<ffmpeg, ladder, chunks, file, buffered, frames, segments,
                   events, expected, complete>>

----------------------------------------------------------------------------
(* feed_vod_file_to_pipeline() *)

FeederOpens ==
    /\ feeder = "opening"
    /\ feeder' = IF file = "there" THEN "reading" ELSE "failed"
    /\ UNCHANGED <<ffmpeg, ladder, requestVars, file, blame, source, unread,
                   transcoder, buffered, frames, segments, events, recordVars>>

\* The receiver of the frames is gone once the transcoder has ended.
FrameReceiver == transcoder \in {"starting", "running"}

FeedFrame ==
    /\ feeder = "reading"
    /\ unread > 0
    /\ FrameReceiver
    /\ frames < FrameCap
    /\ frames' = frames + 1
    /\ unread' = unread - 1
    /\ UNCHANGED <<ffmpeg, ladder, requestVars, file, blame, source, feeder,
                   transcoder, buffered, segments, events, recordVars>>

\* A frame cannot be enqueued any more.
FeedRefused ==
    /\ feeder = "reading"
    /\ unread > 0
    /\ ~FrameReceiver
    /\ feeder' = "failed"
    /\ blame' = "feeder"
    /\ UNCHANGED <<ffmpeg, ladder, requestVars, file, source, unread,
                   transcoder, buffered, frames, segments, events, recordVars>>

\* Opening or reading fails: the sender is dropped on return, the file stays.
FeedFails ==
    /\ feeder \in {"opening", "reading"}
    /\ feeder' = "failed"
    /\ blame' = "feeder"
    /\ UNCHANGED <<ffmpeg, ladder, requestVars, file, source, unread,
                   transcoder, buffered, frames, segments, events, recordVars>>

\* End of file: the sender is dropped ...
FeedEnds ==
    /\ feeder = "reading"
    /\ unread = 0
    /\ feeder' = "removing"
    /\ UNCHANGED <<ffmpeg, ladder, requestVars, file, blame, source, unread,
                   transcoder, buffered, frames, segments, events, recordVars>>

\* ... and the file removed.
FeederRemoves ==
    /\ feeder = "removing"
    /\ Cleanup
    /\ feeder' = "ended"
    /\ UNCHANGED <<ffmpeg, ladder, requestVars, source, unread, transcoder,
                   buffered, frames, segments, events, recordVars>>

Send(event) ==
    /\ Len(events) < EventCap
    /\ events' = Append(events, event)

FeederReports ==
    /\ feeder = "failed"
    /\ Send([type |-> "StreamError"])
    /\ feeder' = "reported"
    /\ UNCHANGED <<ffmpeg, ladder, requestVars, file, blame, source, unread,
                   transcoder, buffered, frames, segments, recordVars>>

----------------------------------------------------------------------------
(* run_live() without ffmpeg, run_vod_from_file() with it *)

\* Faulty variant: the number of renditions is not announced.
StartTranscoderSilently ==
    /\ transcoder = "starting"
    /\ transcoder' = IF Rungs = {} THEN "failed" ELSE "running"
    /\ UNCHANGED <<ffmpeg, ladder, requestVars, file, blame, source, feeder, unread,
                   buffered, frames, segments, events, recordVars>>

StartTranscoder ==
    /\ transcoder = "starting"
    /\ IF Rungs = {}
       THEN transcoder' = "failed" /\ UNCHANGED expected
       ELSE transcoder' = "running" /\ expected' = Cardinality(Rungs)
    /\ UNCHANGED <<ffmpeg, ladder, requestVars, file, blame, source, feeder, unread,
                   buffered, frames, segments, events, record, complete>>

\* A frame reaches the accumulators of all rungs: it closes a segment
\* that had begun before, or stays buffered.
Transcode ==
    /\ transcoder = "running"
    /\ IF ffmpeg
       THEN unread > 0 /\ unread' = unread - 1 /\ UNCHANGED frames
       ELSE frames > 0 /\ frames' = frames - 1 /\ UNCHANGED unread
    /\ \E closed \in SUBSET buffered : buffered' = Rungs \ closed
    /\ UNCHANGED <<ffmpeg, ladder, requestVars, file, blame, source, feeder,
                   transcoder, segments, events, recordVars>>

\* Decoder, scaler or encoder give up.
TranscodeFails ==
    /\ ffmpeg
    /\ transcoder = "running"
    /\ transcoder' = "failed"
    /\ UNCHANGED <<ffmpeg, ladder, requestVars, file, blame, source, feeder, unread,
                   buffered, frames, segments, events, recordVars>>

InputEnded ==
    IF ffmpeg THEN unread = 0
              ELSE frames = 0 /\ feeder \notin {"opening", "reading"}

\* At the end of the input each accumulator that holds video emits its last
\* segment; one that holds none emits nothing.
FlushTranscoder(i) ==
    /\ transcoder = "running"
    /\ InputEnded
    /\ i \in buffered
    /\ Len(segments) < SegmentCap
    /\ segments' = Append(segments, Renditions[i])
    /\ buffered' = buffered \ {i}
    /\ UNCHANGED <<ffmpeg, ladder, requestVars, file, blame, source, feeder, unread,
                   transcoder, frames, events, recordVars>>

EndTranscoder ==
    /\ transcoder = "running"
    /\ InputEnded
    /\ buffered = {}
    /\ transcoder' = "ended"
    /\ UNCHANGED <<ffmpeg, ladder, requestVars, file, blame, source, feeder, unread,
                   buffered, frames, segments, events, recordVars>>

TranscoderReports ==
    /\ transcoder = "failed"
    /\ Send([type |-> "StreamError"])
    /\ transcoder' = "reported"
    /\ UNCHANGED <<ffmpeg, ladder, requestVars, file, blame, source, feeder, unread,
                   buffered, frames, segments, recordVars>>

----------------------------------------------------------------------------
(* run_packager() and the event handler *)

Package ==
    /\ segments # <<>>
    /\ segments' = Tail(segments)
    /\ Send([type |-> "RenditionComplete", rendition |-> Head(segments)])
    /\ UNCHANGED <<ffmpeg, ladder, requestVars, file, blame, source, feeder, unread,
                   transcoder, buffered, frames, recordVars>>

\* Faulty variant: an error is believed only while the stream is processed.
HandleErrorWhileProcessing ==
    /\ record' = IF record = "PROCESSING" THEN "ERROR" ELSE record
    /\ UNCHANGED complete

\* transition_to_error(): valid from every state but DELETED.
HandleError ==
    /\ record' = IF record = "DELETED" THEN record ELSE "ERROR"
    /\ UNCHANGED complete

\* Faulty variant: one complete rendition is enough.
HandleCompleteFirst(r) ==
    /\ complete' = complete \cup {r}
    /\ record' = IF record = "PROCESSING" THEN "READY" ELSE record

\* mark_rendition_complete()
HandleComplete(r) ==
    /\ complete' = complete \cup {r}
    /\ record' = IF record = "PROCESSING" /\ expected > 0 /\ Cardinality(complete') >= expected
                 THEN "READY" ELSE record

HandleEvent ==
    /\ events # <<>>
    /\ events' = Tail(events)
    /\ IF Head(events).type = "StreamError"
       THEN HandleError
       ELSE HandleComplete(Head(events).rendition)
    /\ UNCHANGED <<ffmpeg, ladder, requestVars, file, blame, source, feeder, unread,
                   transcoder, buffered, frames, segments, expected>>

\* delete_stream() and the cleanup of ERROR streams: nothing tells the
\* pipeline.
Delete ==
    /\ record \in {"READY", "ERROR"}
    /\ record' = "DELETED"
    /\ UNCHANGED <<ffmpeg, ladder, requestVars, file, blame, source, feeder, unread,
                   transcoder, buffered, frames, segments, events, expected, complete>>

Request ==
    \/ StartUpload \/ ReceiveChunk \/ ReceiveFails \/ ReceiveEnds
    \/ ClientDisconnects \/ ProbeFails \/ ValidateFails
    \/ \E height \in Sources : AcceptUpload(height)

Feeder ==
    \/ FeederOpens \/ FeedFrame \/ FeedRefused \/ FeedEnds
    \/ FeederRemoves \/ FeederReports

Transcoder ==
    \/ StartTranscoder \/ Transcode \/ EndTranscoder \/ TranscoderReports
    \/ \E i \in buffered : FlushTranscoder(i)

Next ==
    \/ Request \/ Feeder \/ FeedFails \/ Transcoder \/ TranscodeFails
    \/ Package \/ HandleEvent \/ Delete

\* The tasks of the pipeline and the event handler are scheduled fairly; the
\* client and the administrator owe nothing.
Fairness ==
    /\ WF_vars(Feeder) /\ WF_vars(Transcoder)
    /\ WF_vars(Package) /\ WF_vars(HandleEvent)

Spec == Init /\ [][Next]_vars /\ Fairness

----------------------------------------------------------------------------
(* Properties *)

FeederDone == feeder \in {"off", "ended", "reported"}

TranscoderDone == transcoder \in {"off", "ended", "reported"}

Quiet == FeederDone /\ TranscoderDone /\ segments = <<>> /\ events = <<>>

Failed == feeder \in {"failed", "reported"} \/ transcoder \in {"failed", "reported"}

(* The temporary file is there for as long as the feeder or ffmpeg still   *)
(* has to open or read it, whatever ended the request that made it.        *)
ReaderHasFile ==
    feeder \in {"opening", "reading"} \/ (ffmpeg /\ transcoder \in {"starting", "running"})
        => file = "there"

(* When the request and the pipeline are over, the temporary file is gone, *)
(* on every path but the ones known to leave it: a failing probe, a        *)
(* dropped request, a failing feeder, the ffmpeg build and a failing       *)
(* removal.                                                                *)
TempFileRemoved ==
    handler \in {"done", "dropped"} /\ Quiet /\ file = "there" => blame # "nobody"

(* A stream that is READY when its pipeline has come to rest was read to   *)
(* the end of its file and nothing failed: although a feeder that fails    *)
(* closes the frame channel like one that is done, and the transcoder then *)
(* completes all renditions of the truncated input, the error prevails.    *)
ReadyIsWhole ==
    record = "READY" /\ Quiet =>
        /\ unread = 0
        /\ complete = Ids
        /\ ~Failed

(* A failure of the feeder or of the transcoder reaches the record, even   *)
(* when the other tasks complete the truncated stream first.               *)
FailureIsReported == Failed ~> record \in {"ERROR", "DELETED"}

(* An accepted upload does not stay in PROCESSING, unless an accumulator   *)
(* had nothing left to flush, so that its rendition has no last segment,   *)
(* or two rungs have one identifier, so that fewer renditions complete     *)
(* than the transcoder announced.                                          *)
UploadSettles ==
    record = "PROCESSING" ~> \/ record \in {"READY", "ERROR", "DELETED"}
                             \/ /\ transcoder = "ended"
                                /\ Quiet
                                /\ complete # Ids \/ Cardinality(Ids) < expected

=============================================================================
