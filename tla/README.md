# StreamInfa in TLA+

StreamInfa ingests live video over RTMP and files over HTTP, transcodes them
into several renditions, packages these as HLS and writes them to an object
store, from which it serves them. This directory holds TLA+ models of its core,
the TLC configurations that check them, and TLAPS proofs. Paths below are
relative to the repository; line numbers are in `PROJECT.json`.

## 1. The system

### Components, their state and their operations

| Component | State | Operations | Correct when |
|---|---|---|---|
| Stream state manager (`control/state.rs`) | records in a concurrent map; six atomic counters; gauges | create, transition, fail, track renditions, remove | records follow the life cycle; counters agree with records; READY means every rendition is complete |
| Event handler (`control/events.rs`) | one queue of capacity 256 | one event at a time | every event is applied to the record it was meant for |
| Cleanup task (`storage/cleanup.rs`) | snapshot of a list of streams | expire live segments; purge ERROR streams; drop tombstones | acts only on what it may delete although its list is old |
| RTMP server (`ingest/rtmp.rs`) | connection permits, one task per connection, its chunk reader | accept, authenticate, attach to a record, demux loop, final event | permits come back; every record is moved on at the end; messages are split as the encoder split them |
| FLV demuxer (`ingest/demuxer.rs`) | headers seen, parameter sets, first timestamp | demux a tag | both tracks keep their distance in time |
| Rendition selection (`transcode/profile.rs`) | none | rungs for a source | as many renditions are awaited as can complete |
| Live pipeline (`control/pipeline.rs`) | three bounded channels, a cancellation token | wiring, blocking sends | no loss, no reordering, no deadlock |
| Transcoder (`transcode/pipeline.rs`, `ffmpeg.rs`) | an accumulator per rendition | fan out frames, flush | every rendition gets every frame and a final segment |
| Segment accumulator (`transcode/segment.rs`) | buffers, start and last timestamp, sequence number | push, flush | both tracks conserved; segments long enough; segments start with a keyframe |
| Packager (`package/runner.rs`, `segment_index.rs`, `manifest.rs`) | a sliding window per rendition, init segments written | package a segment, final master playlist | announces completion last |
| Storage writer (`storage/writer.rs`) | the current batch | drain, write concurrently, retry | a playlist never refers to a missing segment |
| Object stores (`storage/memory.rs`, `s3.rs`) | objects | put, get, list, delete | reads see whole objects |
| Object cache (`storage/cache.rs`) | LRU map and its size | get, put | size bound; nothing stale beyond its TTL |
| Delivery and control API (`delivery/handlers.rs`) | none of its own | playback, create, list, delete, rotate, upload | answers agree with the record's state |
| VOD upload (`ingest/http_upload.rs`) | a temporary file | probe, validate, start pipeline | file removed and record settled on every path |
| Keys and tokens (`core/auth.rs`) | key store with index, tokens, attempts per address | validate, bind, rotate, reload | exactly the current keys are accepted |
| Startup and shutdown (`main.rs`, `core/shutdown.rs`) | one global token | drain phases, reload on SIGHUP | streams are settled before the process ends |

The remaining files (fMP4 muxer, configuration, validation, redaction, router,
instrumentation) parse, format or check values and share no state; section 7
says why they are left out.

### Interactions

* A connection looks a record up, creates it if needed, sends `StreamStarted`
  and spawns transcoder, packager and writer, joined by channels
  (frames 64, segments 32, writes 32).
* The packager and the connection report to the event handler through one
  shared channel; the event handler alone moves a live record through LIVE,
  PROCESSING, READY and ERROR. The transcoder sets the number of expected
  renditions directly.
* HTTP handlers and the cleanup task change records directly and concurrently.
* Delivery reads record states, the cache and the store; nothing tells the cache
  that an object was replaced or deleted.
* An upload is a request that leaves a file and a record to tasks of its own: a
  feeder (or ffmpeg itself), a transcoder, a packager and a writer.
* SIGHUP replaces the keys and tokens under requests that use them; SIGTERM
  cancels one token that all tasks look at, the event handler included.

### What is hard

Completion and the end of the stream travel to the event handler from two
senders; the manager's counters and gauges live outside its locks; the cleanup
task works from snapshots; the writer executes batches concurrently, and a write
that timed out may still take effect; failures of single tasks are visible to the
others only through closed channels; checks and the actions they guard (a block
and a failed attempt, a state and a cached object, the two halves of a key
rotation) are separated by awaits. The
`hazards` of `PROJECT.json` list these points line by line.

## 2. Modules

| Module | Models | Notes |
|---|---|---|
| `StreamLifecycle` | the promise about one record | abstract; from the state machine in `control/state.rs`'s comments, plus "READY only when the renditions a transcoder announced are packaged" and "removed only when DELETED" |
| `StreamState` | the manager and all tasks that share it | refines `StreamLifecycle` |
| `SegmentAccumulator` | `push`, `flush`, `emit_segment` as operators | used by `LivePipeline` |
| `AccumulatorFeed` | one accumulator from its first packet to its flush | `SegmentAccumulator` by itself |
| `SegmentIndex` | sliding window and media playlist as operators | used by `LivePipeline` |
| `LivePipeline` | one live stream from connection to store | composes the two above with the tasks, the channels and the record |
| `RtmpIngest` | the RTMP connections of the whole server | shared permits, records, keys and event queue |
| `RtmpSession` | the messages of one connection | commands, chunk reader, demuxer, error count, timers |
| `VodUpload` | one upload from request to READY | both builds, with and without ffmpeg |
| `ObjectCache` | the LRU cache as a data type | used by `Delivery` |
| `Delivery` | playback requests against cache, store, record and deletion | |
| `StorageCleanup` | phase 1 of the cleanup against a writer | S3's retries |
| `AuthKeys` | keys, tokens, failed attempts, reload | |
| `Shutdown` | from the signal to the exit | |
| `…Proofs` | | TLAPS proofs about `StreamState`, `LivePipeline` and `AccumulatorFeed` (`LivePipelineProofs`), `RtmpIngest` and `RtmpSession` (`RtmpProofs`), `VodUpload`, `Delivery` (and `ObjectCache`), `StorageCleanup`, `AuthKeys` and `Shutdown` (section 4) |
| `MC…` | instances for TLC | |

Definitions called "faulty variant" are bugs the code does not have. No
specification uses them; each shows that one property can fail.

### StreamState

Records are functions over `StreamIds`; `"Absent"` means the map has no entry.
Time stamps are abstracted to whether they are set. One action is what the code
does while the map entry is locked. What it does afterwards are actions of
their own: `CounterSub`, `CounterAdd`, then `GaugeLoad` and `GaugePublish` for
`update_stream_gauges()`. `Owe` records what a call still has to do.

`Workers` are HTTP requests and RTMP connections. They create records under
fresh identifiers (`CreateStream`), create a record again for a key that
outlived its tombstone (`RtmpLookup`, `RtmpCreate`: check and act are two
steps, so two connections can race), accept an upload (`UploadCreate`,
`UploadAccept`) and delete (`AdminDelete`). `Handler` applies events;
`RenditionComplete` decides under the lock, `AutoReady` transitions under the
next one. `Cleaner` lists (`CleanupListErrors`, `CleanupListDeleted`) and then
treats any subset of the list (those old enough) one at a time.
Events are taken to arrive in any order and number, which covers every sender.
`SetExpectedRenditions` may store any number of `Selections`, in any state and as
often as it likes: connections that attached to the same record each store what their
own resolution selects. `announced` is a history variable, the numbers this record has
been given.

`RetentionExceedsCalls` is the one timing assumption: a record that has been
ERROR or DELETED for 24 hours was not looked up by a connection that is still
between its lookup and its create, which are adjacent statements. `lost` is a
history variable: it counts records that `create_stream()` overwrote, which the
counters keep counting.

### LivePipeline

A channel is a bounded sequence; the receiver sees its end when the sender's
task is past its last send and the sequence is empty. The code never cancels a
stream's own token, so tasks have no cancel branch. The packager's sends of one
segment are queued in `pkOut` in the code's order and sent one by one, each
blocking while its channel is full. The writer drains what is there
(`ReceiveWrite`, `DrainWrite`), then executes the batch in any order
(`PutObject`, or `AbandonObject` after the last retry). The record is the
handler's view of this stream; its own interleavings are `StreamState`'s
subject. `FailTranscoder` stands for every error return of the ffmpeg thread;
the build without ffmpeg has no failing path while its channels are open.
`hls.rs` never returns an error, so the packager's error branches cannot be
taken. The ladder is assumed to select at least one rendition, and renditions
with different identifiers, as the names `high`, `medium` and `low` do; what
happens with other names is `VodUpload`'s subject. `txOut` holds what the
accumulators emitted for one frame and is not sent yet, by the rendition's place
in the fan-out loop.

A packet's timestamp is its index, so `Target = 1` closes a segment on the
second keyframe; segments of more packets arise from inter frames and audio.

### AccumulatorFeed

`SegmentAccumulator` has the methods as operators on a record; this module pushes
packets of both tracks in any order, with timestamps that may go back, and flushes
once. Packets stand for their bytes. `flush()` consumes the accumulator; when it
holds no video, the audio it holds goes with it. `fed` and `cuts` are history
variables: what was pushed on each track, and how many packets that was when each
segment was emitted.

### RtmpIngest

`phase[c]` is where `handle()` of a connection is; every `?` and early return is
a way to `Leave`, which gives back the permits the task owns by then. A
connection is used once. What it does between two awaits that another task could
notice is one action; the lookup of a bound key's record (`ResolveBound`) and
the creation of a missing one (`CreateBound`) are two, and so are the halves of
a key rotation, which locks the key store twice. `HandleEvent` keeps the order
of the queue, unlike `StreamState`, whose handler accepts any order. `Retire`
stands for packaging, deletion and cleanup, which `StreamState` has in detail.
`Authenticate` may refuse any key: the address may be blocked. The demuxer refuses a
sequence header outside the bounds of `validate_resolution()` while the connection
waits for it (`HeaderFails`), so that the checks after the gauge went up cannot fail
(`HeaderArrives`). `stranded` is a history variable: the records whose connection
returned early at the sequence header, which nobody will start.

### RtmpSession

One connection that is authenticated and attached. A message is small or large;
a large one is read right only while `chunkSize` is the size the encoder uses.
Its header is full, carries a time difference, which the code takes for a time
(`TimeRead`), or leaves out its length, which the code takes for zero. After such
a message, or one split at the wrong place, the reader is out of sync and reads
`ReadsGarbage` until the end. `DemuxFlvTag` is the demuxer: what it stores even
when it fails, which frames it drops, and the shared `firstPts`. What the bits of
an SPS say (the picture's height) is an input. `discarded` and `forgotten` are
history variables for the two ways in which the code departs from what the
properties say without them; `inARow` counts the errors since the last message that
caused none, next to the code's own `errors`, which every message resets as soon as
it is read.

### VodUpload

`handler` is where `upload_vod()` is, `feeder` and `transcoder` are its tasks;
`ffmpeg` chooses the build. The client may go away at any await before the
record is created, in which case the server drops the handler. The feeder closes
the frame channel when it is done and when it fails, and its error is an event of
its own. Segments other than a rendition's last one change nothing here and are
left out, and so is the writer. `blame` is a history variable: it names the known
ways in which the temporary file is left behind.

### ObjectCache and Delivery

The cache is a record of its entries in LRU order and its byte counter; each
method is an operator, as it runs under one mutex. The map has a capacity of its
own (`MaxEntries`, 100,000 in the code), and drops the least recently used entry
when it is full, without a word to the caller; `dropped` is a history variable that
adds up the sizes of those entries. In `Delivery` a request is
what `serve_object()` does between awaits: `Check` reads the record's state,
`Hit` or `MissCache` looks the object up, `Fetch` is the moment at which the store
reads it, `Complete` its arrival, which fills the cache. A body carries its
version and the time since the store read it. Meanwhile the writer puts new
versions (`PutObject`, or `PutGivenUp` when all attempts fail) until it stops, an
attempt that timed out may arrive at any later time (`LatePut`), also after newer
versions, after the writer's end and after the deletion, the record moves, `DeletePrefix` (which may stop half-way) and
`DeleteTransition` delete, and `RemoveTombstone` drops the record. `orphans` is another
history variable: the stream became DELETED while it still had objects, or an object
was stored since.

### StorageCleanup

`pending` holds writes that may land, in any order; a write may land and stay
pending, since an attempt that timed out is repeated. The cycle lists
(`ListObjects`), reads the playlist if it was listed (`ReadPlaylist`, which may
fail) and deletes one object at a time. `CleanupAssumption` says that retention
is longer than a playlist's window and the last retry of a write; the defaults
are an hour against half a minute, but nothing checks the configuration.

### AuthKeys

Each action is a section under one of the provider's three locks. `HashOf` may
collide. A client is one call of `validate_stream_key_with_ip()`: the check of the
block, bcrypt under the store's lock, and the record of the outcome. Ages and
remaining times stand for instants. `overlapped` is a history variable for streams
whose rotations ran at the same time.

### Shutdown

Connections and pipelines are reduced to the events they send. `Signal` cancels
the token; every task notices on its own, and the event handler drops its queue
when it stops. `Tick` is time after the signal: `main()` and idle tasks are prompt
compared with the units of the timeouts. `Exit` waits for encoder threads, which
the runtime does not abort.

## 3. Runs

| Run | Instance | Result |
|---|---|---|
| `stream_state` | one identifier, two workers, two renditions of which one or both are announced, one overwritten record | types, `CountersConserved`, `ReadyOnlyWhenComplete`, `TerminalRecords`, and refinement of `StreamLifecycle` hold |
| `segment_accumulator` | all sequences of up to five packets, timestamps up to 4 with reordering by 1, target 2 | `TracksConserved`, `MinimumDuration` hold |
| `live_pipeline` | one rendition, three frames of two kinds, all capacities 1, window 2, failing transcoder and store | types, `SegmentsConserved`, `CompleteMeansPackaged`, `ReadyIsPackaged`, `Drains` hold |
| `live_disconnect` | one rendition, one frame | `DisconnectLeadsToReady` fails: the pipeline outruns `StreamEnded` |
| `rtmp_ingest` | four connections, three connection and two stream permits, one stream with two keys, queue of 2 | types, `PermitsConserved`, `LiveHasPublisher`, `PendingHasConnection` hold |
| `rtmp_session` | six messages, times up to 2, three chunk sizes of which one is above the limit, error limit 2 | `ChunkSizesAgree`, `TracksStayTogether`, `StartsAtZero`, `TransientErrorsTolerated`, `SilenceEndsSession` hold |
| `rtmp_corruption` | six messages, error limit 2 | `CorruptionDisconnects` fails: a run of tags that do not demux is never counted past one |
| `vod_upload` | both builds, three ladders, three source heights, four chunks, capacities 2 | `ReaderHasFile`, `TempFileRemoved`, `ReadyIsWhole`, `FailureIsReported`, `UploadSettles` hold |
| `delivery` | two requests, a playlist and a segment, cache of 5 bytes and one entry, two versions, two attempts per read | `CacheAccounts`, `StalenessBounded`, `RangeInside`, `DeletedNotServed` hold |
| `storage_cleanup` | five segments, window 2, retention 5 | `CleanerSparesListed`, `DeletedStaysDeleted` hold |
| `auth_keys` | two configurations, five keys with colliding hashes, one stream, two administrators, two clients of one address, limit 2 | `LookupCorrect`, `ConfiguredKeysHold`, `RotationReplaces`, `OverrunBounded`, `BlockLasts` hold |
| `shutdown` | two streams, waits of 3, 2, 1 and 1, total 6 | `StreamsGetTheirTime`, `ForcedExitMeansIngestStuck`, `ProcessExits` hold |

The two failing properties are what the documentation says of the program; `findings`
quotes the lines.

Why the bounds suffice. In `stream_state` the conflicts are between calls on one
identifier, and two workers plus handler and cleaner give every pair of callers;
streams only meet in the counters, which the proof covers for any number.
`MaxLost = 1` allows one overwrite; more add nothing but counts. In
`live_pipeline` capacity 1 makes every send block in some run, which is the case
larger capacities hide; three frames give segments closed by a keyframe and a flushed
one, every write may fail, and the transcoder may fail at any point. Two renditions
with all of this are more states than a run of minutes has; what several renditions
share, the channels and the completion of the record, is covered for any number by the
proofs, and by the runs `stream_state` and `vod_upload` for completion. In `rtmp_ingest` one connection is more than
the server accepts and one of three more than may publish, so that both limits
reject while two publishers of the same stream still run side by side. Five
packets allow two closed segments and a remainder.

Six messages of `rtmp_session` are a chunk size, publish, both headers and two
frames, so every pair of tracks follows every kind of beginning; the error limit of 2
is the smallest that tells errors in a row from a single one, and `rtmp_corruption`
has room for publish, a header and three of them. Four chunks of
`vod_upload` let an upload exceed the limit and let the feeder fail with frames
read, queued and unread; the third ladder has two rungs with one identifier. In
`delivery` two objects of up to two bytes in a cache of five bytes let an entry be
replaced by one of another size. The map has room for one of them, so that it drops
entries and the counter drifts until puts evict; a version, once sent, may arrive
late any number of times; caches of more entries are left to the
theorem `CacheIsAccountedFor`. The time to live of the playlist is the
code's one second, the segment's is as long, and the tombstone outlives them and a
fetch, as a day does an hour. Five segments of `storage_cleanup` let three leave
the window, and the retention is the smallest the assumption allows. The limit of
`auth_keys` is the number of clients, so that both can pass the check before either
fails, and three generated keys allow a creation and two rotations that overlap. The waits of `shutdown`
add up to the total, as 15 + 10 + 5 = 30 seconds do in the code.

Deadlock is checked in `stream_state`, `auth_keys` and `storage_cleanup`; in the
other runs the system is meant to stop (`CHECK_DEADLOCK FALSE`), and `Drains`,
`UploadSettles`, `SilenceEndsSession` and `ProcessExits` say that it stops only
where it should.

Symmetry is used for workers, renditions and identifiers of `StreamState`, for
connections and identifiers of `RtmpIngest`, for requests of `Delivery` and for
clients and administrators of `AuthKeys`, which the specifications treat alike;
those runs check no liveness.

### Fairness

`LivePipeline` assumes weak fairness of each task: Tokio polls every task that
can make progress. `StopDemux` is fair because the 30-second inactivity timeout
ends a connection whose encoder falls silent, and the encoder's frames are
bounded. Nothing is assumed of the encoder (`SendFrame`), of failures
(`FailDemux`, `FailTranscoder`) or of which write of a batch comes next.

* `VodUpload`: the feeder, the transcoder, the packager and the event handler are
  scheduled. Nothing is assumed of the client, of the administrator and of failures.
* `RtmpSession`: the two timers fire (`HeaderTimeout` after 10 seconds in all,
  `Inactivity` after 30 seconds without a message). Nothing is assumed of the
  encoder; the command phase has no timer and none is assumed.
* `Shutdown`: `main()`, time, the idle background tasks and, once their channels
  are closed, the encoder threads. Nothing is assumed of streams, requests and
  cleanup cycles, which may never end.

The other specifications state no fairness; all their properties are safety.

## 4. Proofs

Every invariant and action property that a passing run checks is proved for all
values of the constants; only the five liveness properties are left to TLC. Each
proof follows one plan: an inductive invariant in named parts, one lemma per action
or group of actions that says that the parts survive it, and theorems that cite the
invariant. The properties, and the invariants that are larger than they, were
checked with TLC on the instances of section 3 before they were proved. Two proof modules
hold the proofs of two specifications each, which share no variable.

| Module | Theorems (property) | Assumed of the constants |
|---|---|---|
| `StreamStateProofs` | `TypeCorrect`, `CountersAreConserved`, `ReadyIsComplete`, `TerminalRecordsAgree`, `LifecycleImplemented` (refinement of `StreamLifecycle`) | finite sets; the numbers in `Selections` positive, since the transcoder refuses an empty selection |
| `LivePipelineProofs` | `TypeCorrect`, `SegmentsAreConserved`, `CompleteRenditionsArePackaged`, `ReadyStreamsArePackaged` | renditions distinct and not none; capacities positive |
| `LivePipelineProofs`, of `AccumulatorFeed` | `NoPacketLost` (`TracksConserved`), `SegmentsAreLongEnough` (`MinimumDuration`) | nothing: any target, timestamps and number of packets |
| `RtmpProofs`, of `RtmpIngest` | `TypeCorrect`, `PermitsAreConserved`, `LiveStreamsHavePublishers`, `OnlyHeadersStrand` (`PendingHasConnection`) | finitely many connections; keys of different kinds differ |
| `RtmpProofs`, of `RtmpSession` | `ReaderFollowsEncoder` (`ChunkSizesAgree`), `SoundFollowsPicture` (`TracksStayTogether`), `FirstFrameAtZero` (`StartsAtZero`), `OnlyPersistentErrorsEndTheLoop` (`TransientErrorsTolerated`); the last three are action properties | times and offsets are integers, and no time is `None`; the error limit is positive |
| `VodUploadProofs` | `ReadersHaveTheirFile`, `TempFilesAreRemoved`, `ReadyStreamsAreWhole` | ladders are sequences of names and heights; capacities positive |
| `DeliveryProofs` | `CacheIsAccountedFor`, `StalenessIsBounded`, `RangesStayInside`, `DeletedStreamsAreNotServed` | the tombstone outlives every time to live and a fetch (a day; an hour and seconds) |
| `StorageCleanupProofs` | `CleanerSparesListedSegments`, `DeletedSegmentsStayDeleted` (action properties) | `Retention >= Window * Gap + Lag` |
| `AuthKeysProofs` | `TypeCorrect`, `LookupsAgreeWithScan`, `ConfiguredKeysAreAccepted`, `RotationsReplaceKeys`, `OverrunIsBounded`, `BlocksLast` (action property) | generated keys are not configured ones; `Block > Window` (300 and 60 seconds); any hash function |
| `ShutdownProofs` | `ForcedExitNeedsStuckIngest`, `StreamsAreGivenTheirTime` | `IngestDrain < Total`, `TranscodeDrain + StorageFlush + 2 * HttpDrain < Total` (15, 10, 5, 5 of 30 seconds) |

### The inductive invariants

`StreamState`. `TaskInv`: only a task that is counting owes the counters
anything, and a task that holds a stream holds a generated identifier.
`RecordInv`: `expected` is unset or one of the numbers this record was given
(`announced`), which only a new record forgets; so a record that was judged complete
stays complete by that number, although `expected` may become another one before or
after the transition to READY. `CleanupInv`: what the cleanup task's old list says still holds,
since nothing but cleanup leaves DELETED, nothing leaves ERROR except to DELETED,
and (by `RetentionExceedsCalls`) no connection is about to create a listed
stream. `HandlerInv`: between the decision for READY and the transition the record
either still has all the renditions of one announcement or cannot be PROCESSING, because only the
handler, which is busy, moves a live record on, and uploads never reuse an
identifier; without it `ReadyOnlyWhenComplete` is not inductive. The counters rest
on `TallyChange` (how changing one point of a function changes how often it takes
a value). Refinement goes action by action: `TransitionIsMove`, `InsertIsCreate`
and `PackageOne` map the three kinds of change to abstract steps, and everything
else stutters.

`LivePipeline`. `SegmentsConserved` is inductive with the types of what travels and
the finiteness of what has landed (`Countable`); its proof reads it as a `Ledger` of
each rendition, which says which numbers each stage holds, and moves one segment from
stage to stage. Completion needs `Finality`: where the last segment of a rendition is (not
sent, queued, with the packager, announced, recorded), none of its segments is
further upstream (`Upstream`). `Phases` says which tasks have to be over by then.

`RtmpIngest`. Permits: the free permits and the connections in the phases that
own one add up to the limit (`Balanced`), and the gauge is the number of connections
about to start or live (`GaugeCounts`); `CountChange` says what a step of one connection does to such a count. `LiveHasPublisher` is not inductive: a
`StreamStarted` still in the queue could be handled after the publisher has gone.
`StartsAreFollowed` says that its publisher is there or the report of the end is
queued behind it, which holds because a connection's events keep their order;
`Identifiers` keeps a fresh record's keys and events apart from older ones.
`PendingHasConnection` is inductive with the types: what a record without a key waits
for (`Awaited`) is handed on from the waiting connection to the queued announcement,
and a stream never loses all trace of its keys (`Keyless`), since a rotation that has
dropped the old key is counted until it has made the new one.

`RtmpSession`. The action properties compare a frame with the one before it, so the
invariant has to say what a single frame is: `FrameOnTime` says that the last frame,
if its header was full, is at the encoder's time counted from the `firstPts` that the
demuxer has now, and that `firstPts` is unset while no frame was sent and none
dropped. `Demuxed` is the one lemma about all kinds of tags: a tag without a frame
leaves `firstPts` alone, one with a frame sets it at most once and is on time by it.
Two frames then have the same origin (`SameOrigin`). `ErrorsInARow` says that
the code never counts more errors than came in a row; `ChunkSizesAgree` is inductive
as it stands, because the two ways to disagree, a size announced before publish and
the loss of synchronisation, are never undone without a new announcement.

`AccumulatorFeed`. `TracksConserved` says how the packets of a track are cut
(`IsSplit`); with the types and `accumulator.next = Len(emitted)` it is inductive.
`SubSeqAppend` says what a longer sequence does to its parts, `SplitGrows` and
`SplitCuts` that a split survives another packet and another cut. Each end is bounded
by the length of the whole, not only by the next end: the chain of ends would need an
induction over the segments.

`VodUpload`. `FileHasOwner`: a file that is there, and was not left behind on a known
path, has somebody who will remove it. `EndedHasRead` and `ErrorPrevails`: a task that ended
in order saw the whole file, and one that reported a failure has the error queued
or recorded; so READY at rest is whole. `ReadyHasAll` with `RungsFinite` covers
ladders whose rungs share identifiers: no more identifiers complete than there
are rungs.

`Delivery`. `Sound(cache, dropped)` is `CacheAccounts` with the types of the
entries. The counter and the total are recursive functions over the entries; that
the functions exist and solve their equations, and what removing, appending or
cutting off entries does to them, is proved through smallest counterexamples
(`Smallest`, `InductionTo`, `SumsSolve`, `SumsUnique`, `LeftIs`), without the
library's induction theorems. `GoodRequests` and `GoodEntries` bound the time since the
store read what is in flight or cached: by the age of the entry and a fetch, and,
after a clean deletion, from below by the time since the deletion. With
`Tombstone` and `NothingStored` an entry that outlived the tombstone would be older
than its time to live.

`StorageCleanup`. `AgeInv` relates age and number: a live stream cuts a segment in
every `Gap`, so an old segment has many successors. `ExpiredInv` follows from the
assumption when the cycle lists: what has expired is outside the window of every
playlist under way and has no write under way; `PlaylistInv` carries that over
the read of the playlist.

`AuthKeys`. No action touches both the keys and the tracker, so there are two
invariants. `KeyInv`: every record's hash has a slot of
the index and every slot points at a record (`Indexed`), configured keys are bound to no stream and
present (`Configured`), and a stream without overlapping rotations has one key, none
between the halves (`OneKey`). `TrackInv`: an entry at the limit is blocked as long
as its window is open (`AtLimitBlocked`), so that only clients that had passed the check
can add to it (`Overrun`). This needs `Block > Window`: with a block no longer than
the window an address whose block has ended would still be counted in the old
window, and the bound would fail. The code's 300 and 60 seconds are constants.

`Shutdown`. `Frozen`: time passes only after the event handler has stopped, so no
record moves while `main()` waits and each wait lasts to its limit or not at all.
`Budget` adds up what the waits and the joins of the two tasks that can be busy may use
without a stuck LIVE record; `TimeGiven` bounds the waits from below; `MovesOn` says that
records do not go back.

### Only model-checked

Liveness under fairness (`Drains`, `FailureIsReported`, `UploadSettles`,
`SilenceEndsSession`, `ProcessExits`) is out of the prover's reach, and so is
everything `ENABLED` occurs in. `DisconnectLeadsToReady` and `CorruptionDisconnects`
fail.

The other way round, the types of `AuthKeys` are a theorem (`TypeCorrect`) that no run
checks, and the theorems about `LivePipeline` hold for any number of renditions, of
which its run has one.

## 5. Observations

Seen while modelling and proving, beyond the two findings. Documents are under
`docs/`.

Live streams and their records:

* Two encoders with one key can both attach: the record stays PENDING until the
  first one's `StreamStarted` is handled (`rtmp.rs:286`), whereas
  `media-lifecycle.md:302` says the second is rejected.
* Two such connections of different resolutions store different numbers of expected
  renditions in the record (`transcode/pipeline.rs:283`, `state.rs:304`), the later one
  over the earlier and in any state. The record may be READY with the renditions of one
  of them while those of the other are missing; `media-lifecycle.md:78` and
  `state.rs:27` call READY "All renditions available for playback".
* When the last video frame is a keyframe that closes a segment, `flush()` finds
  no video and no segment carries `is_last`: no ENDLIST, no `RenditionComplete`.
  Audio that followed is dropped by the same test.
* The keyframe that closes a segment is its last frame, and the next segment starts
  with the frame after it; `testing-strategy.md:141` wants each segment to start
  with an IDR frame.
* `RenditionComplete` follows the hand-over to the writer's channel, not the
  write: READY does not imply that the objects are stored.
* Writes of one batch run concurrently: a playlist may be stored before the segment
  it lists (`media-lifecycle.md:184` says otherwise), and an older playlist may land
  last, so that a READY stream has none with ENDLIST (`storage-and-delivery.md:403`).
* A write that is given up is only logged; `media-lifecycle.md:300` says the stream
  becomes ERROR. A failing transcoder is logged too: the record goes on to
  PROCESSING and stays there.
* A stale gauge can survive two concurrent state changes until the next one:
  `update_stream_gauges()` loads and stores without a lock.
* Overwriting a record in `create_stream` leaves one counter too high for ever.
* A connection that fails while it waits for the sequence header leaves its record
  PENDING; for an unbound key nothing will ever attach to it or remove it.
* Deleting a stream leaves its key valid; once the tombstone is dropped, the key
  creates the record again.

RTMP messages:

* `process_commands()` has no timeout: a connection that never publishes keeps its
  permit.
* A chunk size announced before publish is forgotten, because
  `wait_for_sequence_header()` makes a new reader. One above the limit is clamped,
  so that large messages are misread; `security.md:155` says the connection is
  dropped.
* Headers of type 1 carry a time difference, which is taken for a time; those of
  type 2 and 3 leave out the length, which is taken for zero.
* Audio that arrives before the video header is demuxed and dropped, although
  `rtmp.rs:623` says no message is lost, and it fixes the zero of the time line.
* A sequence header that is refused in mid-stream has already replaced the
  parameter sets and the size.

Uploads:

* The temporary file stays after a failing probe, a request the client abandons, a
  failing feeder, and always in the build with ffmpeg; `media-lifecycle.md:236`,
  `:250` and `:301` say it is deleted. No timeout covers a body that stalls.
* A ladder whose names are not `high`, `medium` and `low` gives several rungs the
  identifier `source`: they write the same objects, and the stream stays PROCESSING,
  since it waits for as many renditions as there are rungs.
* A feeder that fails may let the stream be READY for a moment before its error
  arrives.

Delivery and storage:

* Nothing calls `invalidate()`: a playlist is up to a second old, a master playlist
  up to its time to live, although `cache.rs:40` and `storage-and-delivery.md:218`
  describe invalidation by the packager.
* Once the map of the cache is full (100,000 entries, with small objects well below
  the byte limit), each new entry drops one whose size stays in `current_size`
  (`cache.rs:128`). The counter never comes down again; when what it has lost reaches
  the byte limit, every `put()` empties the whole cache. `observability.md:105` calls the
  gauge made from it the current memory usage of the cache.
* A playlist of a PROCESSING stream is served with the long `Cache-Control` of a
  finished one.
* A transition's failure in `delete_stream` is ignored: deleting a LIVE stream
  answers "deleted", removes its objects and leaves the record LIVE and its pipeline
  running. Objects that survive a deletion, or are written after it, are served again
  once the tombstone is dropped: a stream without a record is not refused.
* A cycle that cannot read a playlist deletes the old segments it lists. Segments
  just written are safe in every case, because they are not older than the retention;
  the race that `reliability-audit.md`, section 5, describes needs such a failure.

Keys:

* A reload drops every key made through the API; `security.md:74` says they are
  active until the stream is deleted or the key rotated.
* Between the two halves of a rotation the stream has no key, whereas
  `security.md:266` says the old one stays valid. When it was the only key of the
  store, the store accepts every key in between. Two rotations at once leave two keys.
* A key rotated between `validate_stream_key_with_ip()` and
  `resolve_stream_id_for_key()` is no longer bound, and its connection gets a new
  record as if the key came from the configuration.
* A failure that is recorded after the window has run out replaces the entry of its
  address, a block included.

Shutdown:

* The token that ends the connections also ends the event handler, so `StreamEnded`
  is usually lost and a LIVE record stays LIVE: the first wait then runs out, and the
  process exits with the last segments neither flushed nor listed;
  `testing-strategy.md:266` says they are finalised.
* The flush phase is a sleep. The first three limits use up the whole 30 seconds, so
  that the HTTP drain has no time left when they all run out.
* The accept loop may take a connection after the signal, and a connection before its
  demux loop does not look at the token.

## 6. Plan

All components with control of their own are modelled, and every invariant and action
property of the passing runs is a theorem. What is left:

1. The liveness properties, which this prover does not reach (section 4).
2. The gauges that `update_stream_gauges()` copies from the counters without a lock
   (`control/state.rs:399`): `StreamState` has the load and the write as two steps, and a
   gauge can stay stale until the next change (section 5), so nothing is claimed of it.
3. The cache by itself: `Get` and `Put` as operators for any cache that is sound,
   which `DeliveryProofs` has, stated without the requests around them.

## 7. Not modelled

* AMF, SPS, AudioSpecificConfig and fMP4 parsing and formatting (parts of
  `ingest/rtmp.rs` and `ingest/demuxer.rs`, `package/hls.rs`): byte layout without
  shared state.
* ffmpeg and the object store's server: external; they appear as choices
  (a frame or not, a failure or not).
* Configuration, validation, redaction, routing: pure functions of their input.
* Read-only requests (lists, details, health, metrics) and the construction of the
  components at startup.
* Instrumentation other than the stream gauges; `metadata.json`, which is written
  once and never read back; wall-clock values other than "set" and ages.
* Persistence across restarts: there is none; all records are lost with the process.
