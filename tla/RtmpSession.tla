----------------------------- MODULE RtmpSession -----------------------------
(***************************************************************************)
(* What one RTMP connection does with the messages of its encoder          *)
(* (ingest/rtmp.rs, ingest/demuxer.rs): the command stage, the wait for    *)
(* the AVC sequence header, and the demux loop, with the chunk reader and  *)
(* the FLV demuxer they share.  RtmpIngest has the connection among        *)
(* others; here it is authenticated and attached.                          *)
(*                                                                         *)
(* A message is small, or large when it is longer than any chunk size: a   *)
(* large one is read right only with the chunk size the encoder uses.      *)
(* Its header is full, or carries the time since the message before it, or *)
(* leaves out the length as well.  Timestamps count in the units of the    *)
(* 90 kHz clock.                                                           *)
(***************************************************************************)
EXTENDS Integers

CONSTANTS
    MaxMessages,   \* bound: messages of the encoder
    MaxTime,       \* bound: the encoder's timestamps
    Offsets,       \* composition time offsets of video tags
    Sizes,         \* chunk sizes the encoder may announce
    DefaultSize,   \* of a new ChunkReader
    MaxSize,       \* MAX_RTMP_CHUNK_SIZE
    Dimensions,    \* sizes of pictures in a parameter set; 0 cannot be parsed
    MaxDimension,  \* the tallest picture accepted
    MaxErrors,     \* MAX_CONSECUTIVE_ERRORS
    NoPts          \* first_pts: None

ASSUME SessionAssumption ==
    /\ MaxMessages \in Nat /\ MaxTime \in Nat
    /\ MaxErrors \in Nat \ {0}
    /\ Sizes \cup {DefaultSize, MaxSize} \subseteq Nat \ {0}
    /\ Dimensions \subseteq Nat /\ Offsets \subseteq Int
    /\ NoPts \notin Int

VARIABLES
    stage,       \* "commands", "header", "loop", "ended", "failed"
    silent,      \* the encoder sends nothing more
    sent,        \* messages it has sent
    clock,       \* timestamp of its last media message
    wireSize,    \* chunk size it uses
    chunkSize,   \* ChunkReader.chunk_size
    synced,      \* the reader is at the start of a message
    demuxer,     \* FlvDemuxer
    errors,      \* consecutive_errors
    frame,       \* the last frame sent to the transcoder, or NoFrame
    discarded,   \* history: a frame was demuxed and dropped before the loop
    forgotten,   \* history: the chunk size in use was announced before publish
    inARow       \* history: errors since the last message that caused none

wireVars == <<silent, sent, clock, wireSize>>
countVars == <<errors, inARow>>
sessionVars == <<stage, wireVars, chunkSize, synced, demuxer, countVars, frame, discarded, forgotten>>

NoFrame == [track |-> "none"]

SessionInit ==
    /\ stage = "commands"
    /\ silent = FALSE /\ sent = 0 /\ clock = 0 /\ wireSize = DefaultSize
    /\ chunkSize = DefaultSize /\ synced = TRUE
    /\ demuxer = [video |-> FALSE, audio |-> FALSE, height |-> 0,
                  params |-> FALSE, firstPts |-> NoPts]
    /\ errors = 0 /\ inARow = 0
    /\ frame = NoFrame
    /\ discarded = FALSE /\ forgotten = FALSE

Active == stage \notin {"ended", "failed"}

----------------------------------------------------------------------------
(* FlvDemuxer *)

MediaTags ==
    [type : {"avcHeader"}, height : Dimensions, pps : BOOLEAN]
    \cup [type : {"nalu"}, key : BOOLEAN, cts : Offsets]
    \cup [type : {"corrupt", "aacHeader", "aac", "mp3"}]

Result(d, out) == [demuxer |-> d, out |-> out, failed |-> FALSE]
Failure(d)     == [demuxer |-> d, out |-> NoFrame, failed |-> TRUE]

\* Faulty variant: every track starts at zero.
NormalizePerTag(d, pts) == [d EXCEPT !.firstPts = pts]

\* normalize_pts(): the first timestamp it is given counts as zero.
NormalizePts(d, pts) == [d EXCEPT !.firstPts = IF @ = NoPts THEN pts ELSE @]

\* parse_avc_decoder_config() stores what it finds and then checks the size; a
\* parameter set it cannot parse leaves the size as it was.
ParseAvcDecoderConfig(d, tag) ==
    LET height == IF tag.height = 0 THEN d.height ELSE tag.height
        stored == [d EXCEPT !.height = height, !.params = @ \/ tag.pps]
    IN  IF height = 0 \/ height > MaxDimension
        THEN Failure(stored)
        ELSE Result([stored EXCEPT !.video = TRUE], NoFrame)

\* Faulty variant: the decoding time is normalised first.
DemuxVideoByDts(d, tag, ts) ==
    LET e == NormalizePts(d, ts)
    IN  Result(e, [track |-> "video", key |-> tag.key, params |-> tag.key /\ d.params,
                   pts |-> ts + tag.cts - e.firstPts, dts |-> ts - e.firstPts,
                   cts |-> tag.cts])

\* The presentation time is normalised first, the decoding time with it.
DemuxVideo(d, tag, ts) ==
    LET e == NormalizePts(d, ts + tag.cts)
    IN  Result(e, [track |-> "video", key |-> tag.key, params |-> tag.key /\ d.params,
                   pts |-> ts + tag.cts - e.firstPts, dts |-> ts - e.firstPts,
                   cts |-> tag.cts])

DemuxAudio(d, ts) ==
    LET e == NormalizePts(d, ts)
    IN  Result(e, [track |-> "audio", key |-> TRUE, params |-> FALSE,
                   pts |-> ts - e.firstPts, dts |-> ts - e.firstPts, cts |-> 0])

\* demux_flv_tag(): frames before the header of their track are dropped.
DemuxFlvTag(d, tag, ts) ==
    CASE tag.type = "avcHeader" -> ParseAvcDecoderConfig(d, tag)
      [] tag.type = "nalu" /\ d.video -> DemuxVideo(d, tag, ts)
      [] tag.type = "aacHeader" -> Result([d EXCEPT !.audio = TRUE], NoFrame)
      [] tag.type = "aac" /\ d.audio -> DemuxAudio(d, ts)
      [] tag.type = "mp3" -> DemuxAudio(d, ts)
      [] tag.type = "corrupt" -> Failure(d)
      [] OTHER -> Result(d, NoFrame)

----------------------------------------------------------------------------
(* The encoder and read_message() *)

\* A message has been read, which resets the count; if it then does not demux,
\* that is the first error again.
Counted(corrupt) ==
    /\ errors' = IF corrupt THEN 1 ELSE 0
    /\ inARow' = IF corrupt THEN inARow + 1 ELSE 0

\* Too many errors end the loop.
Tolerates == stage' = IF errors' >= MaxErrors THEN "failed" ELSE "loop"

Speaks == ~silent /\ sent < MaxMessages /\ sent' = sent + 1 /\ UNCHANGED silent

\* A large message is split where the encoder's chunks end.
ReadsRight(large) == synced /\ (large => chunkSize = wireSize)

Connected == Active /\ synced

\* The time in the header is taken as it is, a difference too.
TimeRead(ts, full) == IF full THEN ts ELSE ts - clock

\* Faulty variant: the reader's chunk size only grows.
SetChunkSizeGrows(n) ==
    /\ Connected /\ Speaks
    /\ wireSize' = n
    /\ chunkSize' = IF n > MaxSize THEN MaxSize ELSE IF n > chunkSize THEN n ELSE chunkSize
    /\ Counted(FALSE)
    /\ forgotten' = FALSE
    /\ UNCHANGED <<stage, clock, synced, demuxer, frame, discarded>>

\* The encoder announces a chunk size and uses it from there on; the reader
\* takes it over, up to its limit.
SetChunkSize(n) ==
    /\ Connected /\ Speaks
    /\ wireSize' = n
    /\ chunkSize' = IF n > MaxSize THEN MaxSize ELSE n
    /\ Counted(FALSE)
    /\ forgotten' = FALSE
    /\ UNCHANGED <<stage, clock, synced, demuxer, frame, discarded>>

\* A message split at another size, or one whose header leaves out the length,
\* which is taken for zero: the reader takes payload for headers.
LosesSync ==
    /\ Connected /\ Speaks
    /\ synced' = FALSE
    /\ Counted(FALSE)
    /\ UNCHANGED <<stage, clock, wireSize, chunkSize, demuxer, frame, discarded, forgotten>>

\* From there on it reads messages that were never sent: most have no known
\* type, some end the command phase, do not demux or set a chunk size.  Those
\* that happen to be frames are left out; no property speaks of them.
ReadsGarbage ==
    /\ Active /\ ~synced /\ Speaks
    /\ \/ UNCHANGED stage /\ Counted(FALSE)
       \/ stage # "loop" /\ stage' = "failed" /\ Counted(FALSE)
       \/ stage = "loop" /\ Counted(TRUE) /\ Tolerates
    /\ chunkSize' \in 1..MaxSize
    /\ UNCHANGED <<clock, wireSize, synced, demuxer, frame, discarded, forgotten>>

----------------------------------------------------------------------------
(* process_commands() *)

\* connect, releaseStream, FCPublish, createStream and unknown commands are
\* answered or ignored.
Command ==
    /\ stage = "commands" /\ Connected /\ Speaks
    /\ UNCHANGED <<stage, clock, wireSize, chunkSize, synced, demuxer, countVars, frame, discarded, forgotten>>

\* wait_for_sequence_header() begins with a new ChunkReader.
PublishCommand ==
    /\ stage = "commands" /\ Connected /\ Speaks
    /\ stage' = "header"
    /\ chunkSize' = DefaultSize
    /\ forgotten' = (wireSize # DefaultSize)
    /\ UNCHANGED <<clock, wireSize, synced, demuxer, countVars, frame, discarded>>

\* deleteStream, and a command that does not parse.
CommandFails ==
    /\ stage = "commands" /\ Connected /\ Speaks
    /\ stage' = "failed"
    /\ UNCHANGED <<clock, wireSize, chunkSize, synced, demuxer, countVars, frame, discarded, forgotten>>

----------------------------------------------------------------------------
(* wait_for_sequence_header() *)

\* Any failure ends the connection, and frames are dropped.
HeaderMedia(tag, ts, large, full) ==
    /\ stage = "header" /\ ReadsRight(large) /\ Speaks
    /\ clock' = ts
    /\ LET r == DemuxFlvTag(demuxer, tag, TimeRead(ts, full))
       IN  /\ demuxer' = r.demuxer
           /\ stage' = IF r.failed THEN "failed" ELSE IF r.demuxer.video THEN "loop" ELSE "header"
           /\ discarded' = (discarded \/ r.out # NoFrame)
    /\ UNCHANGED <<wireSize, chunkSize, synced, countVars, frame, forgotten>>

\* SEQUENCE_HEADER_TIMEOUT_SECS for the whole wait, a read that fails, or the
\* shutdown.
HeaderTimeout ==
    /\ stage = "header"
    /\ stage' = "failed"
    /\ UNCHANGED <<wireVars, chunkSize, synced, demuxer, countVars, frame, discarded, forgotten>>

----------------------------------------------------------------------------
(* run_demux_loop() *)

\* Faulty variant: a message that is read does not reset the count.
LoopMediaKeepsCount(tag, ts, large, full) ==
    /\ stage = "loop" /\ ReadsRight(large) /\ Speaks
    /\ clock' = ts
    /\ LET r == DemuxFlvTag(demuxer, tag, TimeRead(ts, full))
       IN  /\ demuxer' = r.demuxer
           /\ frame' = IF r.out = NoFrame THEN frame ELSE [out |-> r.out, ts |-> ts, full |-> full]
           /\ errors' = errors + (IF r.failed THEN 1 ELSE 0)
           /\ inARow' = IF r.failed THEN inARow + 1 ELSE 0
    /\ Tolerates
    /\ UNCHANGED <<wireSize, chunkSize, synced, discarded, forgotten>>

\* A frame goes to the transcoder.  A tag that does not demux counts as an
\* error, but the read before it has just reset the count.
LoopMedia(tag, ts, large, full) ==
    /\ stage = "loop" /\ ReadsRight(large) /\ Speaks
    /\ clock' = ts
    /\ LET r == DemuxFlvTag(demuxer, tag, TimeRead(ts, full))
       IN  /\ demuxer' = r.demuxer
           /\ frame' = IF r.out = NoFrame THEN frame ELSE [out |-> r.out, ts |-> ts, full |-> full]
           /\ Counted(r.failed)
    /\ Tolerates
    /\ UNCHANGED <<wireSize, chunkSize, synced, discarded, forgotten>>

\* An error of the socket that is neither its end nor a reset.
ReadFails ==
    /\ stage = "loop" /\ ~silent
    /\ errors' = errors + 1 /\ inARow' = inARow + 1
    /\ Tolerates
    /\ UNCHANGED <<wireVars, chunkSize, synced, demuxer, frame, discarded, forgotten>>

\* The end of the socket, deleteStream, a transcoder that is gone, shutdown.
LoopEnds ==
    /\ stage = "loop"
    /\ stage' = "ended"
    /\ UNCHANGED <<wireVars, chunkSize, synced, demuxer, countVars, frame, discarded, forgotten>>

\* Faulty variant: only a read message starts the timer.
InactivityAfterFrame ==
    /\ stage = "loop" /\ silent /\ frame # NoFrame
    /\ stage' = "ended"
    /\ UNCHANGED <<wireVars, chunkSize, synced, demuxer, countVars, frame, discarded, forgotten>>

\* INACTIVITY_TIMEOUT_SECS without a message.
Inactivity ==
    /\ stage = "loop" /\ silent
    /\ stage' = "ended"
    /\ UNCHANGED <<wireVars, chunkSize, synced, demuxer, countVars, frame, discarded, forgotten>>

\* The encoder stops sending and keeps the connection.
GoesSilent ==
    /\ ~silent
    /\ silent' = TRUE
    /\ UNCHANGED <<stage, sent, clock, wireSize, chunkSize, synced, demuxer, countVars, frame,
                   discarded, forgotten>>

Media(tag, ts, large, full) == HeaderMedia(tag, ts, large, full) \/ LoopMedia(tag, ts, large, full)

\* Timestamps do not go back; gaps of one unit are enough to tell them apart.
SessionNext ==
    \/ \E n \in Sizes : SetChunkSize(n)
    \/ LosesSync \/ ReadsGarbage
    \/ Command \/ PublishCommand \/ CommandFails
    \/ \E tag \in MediaTags, large, full \in BOOLEAN, ts \in clock..MaxTime :
          Media(tag, ts, large, full)
    \/ HeaderTimeout \/ ReadFails \/ LoopEnds \/ Inactivity \/ GoesSilent

\* Timers fire.  Nothing bounds the command phase.
SessionSpec ==
    /\ SessionInit /\ [][SessionNext]_sessionVars
    /\ WF_sessionVars(HeaderTimeout) /\ WF_sessionVars(Inactivity)

----------------------------------------------------------------------------
(* Properties *)

\* From one frame to the next, of the same track or of the other, the times sent
\* to the transcoder advance exactly as the encoder's did: sound and picture
\* stay together, as long as both came with full headers (demux_video(),
\* demux_audio(), normalize_pts(), read_message()).
TracksStayTogether ==
    [][frame # NoFrame /\ frame' # frame /\ frame.full /\ frame'.full =>
          /\ frame'.out.pts - frame.out.pts =
                (frame'.ts + frame'.out.cts) - (frame.ts + frame.out.cts)
          /\ frame'.out.dts - frame.out.dts = frame'.ts - frame.ts]_sessionVars

\* The first frame sent to the transcoder is presented at time zero, unless a
\* frame was dropped while the connection waited for the sequence header
\* (normalize_pts(), wait_for_sequence_header()).
StartsAtZero ==
    [][frame = NoFrame /\ frame' # NoFrame /\ ~discarded => frame'.out.pts = 0]_sessionVars

\* After publish the reader splits messages as the encoder does, as long as the
\* reader is in sync and the encoder's size is within the limit and was not
\* announced before publish (ChunkReader, wait_for_sequence_header(),
\* run_demux_loop()).
ChunkSizesAgree ==
    stage \in {"header", "loop"} /\ synced /\ ~forgotten /\ wireSize <= MaxSize =>
        chunkSize = wireSize

\* "Transient single-frame corruption is logged and skipped"
\* (docs/architecture/ingest.md): the loop gives up only after MaxErrors errors
\* in a row, of the socket or of the demuxer, with no good message in between,
\* although both kinds share one count (run_demux_loop()).
TransientErrorsTolerated ==
    [][stage = "loop" /\ stage' = "failed" => inARow' >= MaxErrors]_sessionVars

\* "Persistent corruption (>10 consecutive errors) triggers disconnect"
\* (docs/architecture/ingest.md): the loop does not go on after more than
\* MaxErrors errors in a row.  It does: every message that is read resets the
\* count before it is demuxed (run_demux_loop()).
CorruptionDisconnects == stage = "loop" => inARow <= MaxErrors

\* A connection that has published and whose encoder falls silent ends, at
\* whatever message it was and in sync or not (wait_for_sequence_header(),
\* run_demux_loop()).
SilenceEndsSession ==
    (stage \in {"header", "loop"} /\ silent) ~> ~Active

=============================================================================
