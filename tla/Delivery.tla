------------------------------- MODULE Delivery -------------------------------
(***************************************************************************)
(* Playback of one stream: concurrent requests through serve_object()      *)
(* (delivery/handlers.rs), the object cache, the store behind it, and what *)
(* happens to the stream meanwhile: its writer puts new versions, the      *)
(* control plane moves its record, an administrator deletes it, and the    *)
(* cleanup task drops its tombstone.                                       *)
(*                                                                         *)
(* An object is the number of its version, 0 when it is not there; a body  *)
(* is the version and the time that has passed since the store read it.    *)
(* Time passes in ticks and shows in ages, each counted up to the value    *)
(* from which on nothing depends on it.                                    *)
(***************************************************************************)
EXTENDS ObjectCache

CONSTANTS
    Keys,              \* the object paths of the stream
    Requests,          \* concurrent handlers
    Ranges,            \* Range headers with two numbers: <<first, last>>
    NoRange, BadRange, \* no header, one of another form
    NoAnswer,          \* no response was sent in the last step
    SegmentSize,       \* bytes of a segment
    ManifestGrowth,    \* bytes a manifest grows by
    MaxVersion,        \* bound: versions of one object
    MaxFetch,          \* ticks between the read of an object and its arrival
    MaxRetries,        \* MAX_RETRIES of the S3 store
    TombstoneTicks,    \* DELETED_STATE_RETENTION_HOURS
    StoreMayFail       \* whether the store refuses requests

\* A tombstone (24 h) outlives a cached segment (1 h) and a slow fetch.
ASSUME DeliveryAssumption ==
    /\ Keys # {}
    /\ SegmentSize \in Nat /\ ManifestGrowth \in Nat
    /\ MaxVersion \in Nat /\ MaxFetch \in Nat /\ TombstoneTicks \in Nat
    /\ MaxRetries \in Nat \ {0}
    /\ StoreMayFail \in BOOLEAN
    /\ Ranges \subseteq Nat \X Nat
    /\ \A k \in Keys : TombstoneTicks > TtlForKey(k) + MaxFetch

VARIABLES
    store,        \* store[k], the stored version of k
    made,         \* made[k], the versions of k the writer has sent
    record,       \* the stream's state, "Absent" without a record
    cache,        \* the ObjectCache
    request,      \* request[r], the local state of serve_object()
    answer,       \* the response sent in the last step
    deletion,     \* the local state of delete_stream()
    (* its end *)
    deletedFor,   \* ticks since the record became DELETED
    orphans,      \* whether objects were left when it did, or put since
    dropped       \* bytes of entries dropped because the cache's map was full

history == <<deletedFor, orphans, dropped>>
vars == <<store, made, record, cache, request, answer, deletion, history>>

NotDeleted == -1

\* An age above which every entry and every tombstone has expired.
MaxAge == TombstoneTicks

Older(age) == IF age < MaxAge THEN age + 1 ELSE age

OlderData(data) == IF data = Miss THEN data ELSE <<data[1], Older(data[2])>>

\* The data of an entry that has expired is not told apart by its age.
OlderEntry(entry) ==
    LET aged == Aged(entry)
    IN  [aged EXCEPT !.data = IF IsExpired(aged) THEN <<@[1], MaxAge>> ELSE OlderData(@)]

IsManifest(k) == k \in {"master.m3u8", "media.m3u8"}

\* Sizes of bodies: a manifest starts out empty and grows with its versions.
SizeOf(k, v) == IF IsManifest(k) THEN ManifestGrowth * (v - 1) ELSE SegmentSize

Idle == [at |-> "idle", key |-> CHOOSE k \in Keys : TRUE,
         attempt |-> 0, data |-> Miss, afterDelete |-> FALSE]

Init ==
    /\ store = [k \in Keys |-> 0]
    /\ made = [k \in Keys |-> 0]
    /\ record = "PENDING"
    /\ cache = EmptyCache
    /\ request = [r \in Requests |-> Idle]
    /\ answer = NoAnswer
    /\ deletion = "idle"
    /\ deletedFor = NotDeleted
    /\ orphans = FALSE
    /\ dropped = 0

----------------------------------------------------------------------------
(* serve_object() *)

Status(code, first, last) == [status |-> code, from |-> first, to |-> last]

Refusal(code) == Status(code, 0, 0)

\* Faulty variant: the last byte is clamped to the length of the object.
BuildResponseOffByOne(k, v, range) ==
    LET size == SizeOf(k, v)
    IN  CASE range = NoRange -> Status(200, 0, size - 1)
          [] range # NoRange /\ (size = 0 \/ range[1] >= size) -> Refusal(416)
          [] OTHER -> Status(206, range[1], IF range[2] < size THEN range[2] ELSE size)

\* The whole object, or the part of it that the range asks for.
BuildResponse(k, v, range) ==
    LET size == SizeOf(k, v)
    IN  CASE range = NoRange -> Status(200, 0, size - 1)
          [] range # NoRange /\ (size = 0 \/ range[1] >= size) -> Refusal(416)
          [] OTHER -> Status(206, range[1],
                             IF range[2] < size - 1 THEN range[2] ELSE size - 1)

\* The handler ends.
Respond(r, range, data, status) ==
    /\ request' = [request EXCEPT ![r] = Idle]
    /\ answer' = [key |-> request[r].key, afterDelete |-> request[r].afterDelete,
                  data |-> data, range |-> range,
                  status |-> status.status, from |-> status.from, to |-> status.to]

\* Suffixes, lists and reversed ranges are refused.
ParseRangeHeader(raw) ==
    IF raw \in Ranges /\ raw[1] > raw[2] THEN BadRange ELSE raw

Headers == Ranges \cup {NoRange, BadRange}

ValidHeaders == {raw \in Headers : ParseRangeHeader(raw) # BadRange}

\* A new request: the record's state is read once, then the range is parsed;
\* which valid range it was matters first where the response is built.
Check(r, k) ==
    /\ request[r].at = "idle"
    /\ record \notin {"PENDING", "ERROR", "DELETED"}
    /\ request' = [request EXCEPT ![r] =
          [Idle EXCEPT !.at = "lookup", !.key = k,
                       !.afterDelete = (deletedFor # NotDeleted)]]
    /\ UNCHANGED <<store, made, record, cache, deletion, history>>

Refuse(r, range) ==
    /\ request[r].at = "idle"
    /\ \/ record \in {"PENDING", "DELETED"} /\ Respond(r, NoRange, Miss, Refusal(404))
       \/ record = "ERROR" /\ Respond(r, NoRange, Miss, Refusal(410))
       \/ /\ record \notin {"PENDING", "DELETED", "ERROR"}
          /\ ParseRangeHeader(range) = BadRange
          /\ Respond(r, NoRange, Miss, Refusal(416))
    /\ UNCHANGED <<store, made, record, cache, deletion, history>>

Hit(r, range) ==
    /\ request[r].at = "lookup"
    /\ LET k == request[r].key
           found == Get(cache, k)
       IN  /\ found.hit # Miss
           /\ cache' = found.cache
           /\ Respond(r, range, found.hit, BuildResponse(k, found.hit[1], range))
    /\ UNCHANGED <<store, made, record, deletion, history>>

MissCache(r) ==
    /\ request[r].at = "lookup"
    /\ LET found == Get(cache, request[r].key)
       IN  /\ found.hit = Miss
           /\ cache' = found.cache
           /\ request' = [request EXCEPT ![r].at = "fetch", ![r].attempt = 1]
    /\ UNCHANGED <<store, made, record, deletion, history>>

\* get_with_retry(): the store reads the object; the body is on its way.
Fetch(r) ==
    /\ request[r].at = "fetch"
    /\ store[request[r].key] # 0
    /\ request' = [request EXCEPT ![r].at = "fetched",
                                  ![r].data = <<store[request[r].key], 0>>]
    /\ UNCHANGED <<store, made, record, cache, deletion, history>>

FetchNotFound(r) ==
    /\ request[r].at = "fetch"
    /\ store[request[r].key] = 0
    /\ Respond(r, NoRange, Miss, Refusal(404))
    /\ UNCHANGED <<store, made, record, cache, deletion, history>>

\* A failed or timed-out attempt is repeated.
FetchFails(r) ==
    /\ StoreMayFail
    /\ request[r].at = "fetch"
    /\ request[r].attempt < MaxRetries
    /\ request' = [request EXCEPT ![r].attempt = @ + 1]
    /\ UNCHANGED <<store, made, record, cache, deletion, history>>

\* The last attempt failed, or the store forbids the access.
FetchGivenUp(r) ==
    /\ StoreMayFail
    /\ request[r].at = "fetch"
    /\ Respond(r, NoRange, Miss, Refusal(502))
    /\ UNCHANGED <<store, made, record, cache, deletion, history>>

\* The body has arrived: only a whole object is cached.
Complete(r, range) ==
    /\ request[r].at = "fetched"
    /\ LET k == request[r].key
           data == request[r].data
           size == SizeOf(k, data[1])
       IN  /\ IF range = NoRange
              THEN /\ cache' = Put(cache, k, data, size)
                   /\ dropped' = dropped + DroppedBy(cache, k, size)
              ELSE UNCHANGED <<cache, dropped>>
           /\ Respond(r, range, data, BuildResponse(k, data[1], range))
    /\ UNCHANGED <<store, made, record, deletion, deletedFor, orphans>>

----------------------------------------------------------------------------
(* The stream *)

\* The storage writer has a next version of an object; segments are written
\* once.  It may stop at any time: nothing makes it take another step.
Writable(k) ==
    /\ record # "PENDING"
    /\ made[k] < MaxVersion
    /\ IsManifest(k) \/ made[k] = 0

\* What is put after the deletion stays behind.
Stored(k, v) ==
    /\ store' = [store EXCEPT ![k] = v]
    /\ orphans' = (orphans \/ deletedFor # NotDeleted)
    /\ UNCHANGED <<record, cache, request, deletion, deletedFor, dropped>>

PutObject(k) ==
    /\ Writable(k)
    /\ made' = [made EXCEPT ![k] = @ + 1]
    /\ Stored(k, made[k] + 1)

\* Every attempt of put_with_retry() failed or timed out.
PutGivenUp(k) ==
    /\ StoreMayFail
    /\ Writable(k)
    /\ made' = [made EXCEPT ![k] = @ + 1]
    /\ UNCHANGED <<store, record, cache, request, deletion, history>>

\* An attempt that timed out arrives, whatever has become of its retries, of
\* newer versions, of the writer and of the stream.
LatePut(k, v) ==
    /\ StoreMayFail
    /\ v <= made[k]
    /\ Stored(k, v)
    /\ UNCHANGED made

\* The event handler moves the record along its life cycle.
AdvanceRecord ==
    /\ \/ record = "PENDING" /\ record' = "LIVE"
       \/ record = "LIVE" /\ record' = "PROCESSING"
       \/ record = "PROCESSING" /\ record' = "READY"
       \/ record \notin {"Absent", "DELETED", "ERROR"} /\ record' = "ERROR"
    /\ UNCHANGED <<store, made, cache, request, deletion, history>>

----------------------------------------------------------------------------
(* Deletion *)

\* delete_stream() and phase 2 of the cleanup: the prefix is deleted, which
\* may fail after some of its objects.
DeletePrefix(purge) ==
    /\ deletion = "idle"
    /\ IF purge THEN record = "ERROR" ELSE record # "Absent"
    /\ \E gone \in SUBSET {k \in Keys : store[k] # 0} :
          LET whole == \A k \in Keys : store[k] # 0 => k \in gone
          IN  /\ whole \/ StoreMayFail
              /\ store' = [k \in Keys |-> IF k \in gone THEN 0 ELSE store[k]]
              /\ deletion' = IF record = "DELETED" \/ (purge /\ ~whole)
                             THEN "idle" ELSE "transition"
    /\ UNCHANGED <<made, record, cache, request, history>>

\* The transition to DELETED is valid only from READY and ERROR; its error
\* is ignored.
DeleteTransition ==
    /\ deletion = "transition"
    /\ deletion' = "idle"
    /\ IF record \in {"READY", "ERROR"}
       THEN /\ record' = "DELETED"
            /\ deletedFor' = 0
            /\ orphans' = (\E k \in Keys : store[k] # 0)
       ELSE UNCHANGED <<record, deletedFor, orphans>>
    /\ UNCHANGED <<store, made, cache, request, dropped>>

\* Faulty variant: the tombstone goes with the next cleanup.
RemoveTombstoneAtOnce ==
    /\ record = "DELETED"
    /\ record' = "Absent"
    /\ UNCHANGED <<store, made, cache, request, deletion, history>>

\* Phase 3 of the cleanup removes the record after its retention.
RemoveTombstone ==
    /\ record = "DELETED"
    /\ deletedFor >= TombstoneTicks
    /\ record' = "Absent"
    /\ UNCHANGED <<store, made, cache, request, deletion, history>>

\* Time passes, but a body is not on its way for ever.
Tick ==
    /\ \A r \in Requests :
          request[r].at = "fetched" => request[r].data[2] < MaxFetch
    /\ cache' = [cache EXCEPT !.lru = [i \in DOMAIN cache.lru |-> OlderEntry(cache.lru[i])]]
    /\ request' = [r \in Requests |-> [request[r] EXCEPT !.data = OlderData(@)]]
    /\ deletedFor' = IF deletedFor = NotDeleted THEN NotDeleted ELSE Older(deletedFor)
    /\ UNCHANGED <<store, made, record, deletion, orphans, dropped>>

Serve(r) ==
    \/ \E range \in Headers : Refuse(r, range)
    \/ \E range \in ValidHeaders : Hit(r, range) \/ Complete(r, range)
    \/ FetchNotFound(r) \/ FetchGivenUp(r)

Proceed(r) ==
    \/ \E k \in Keys : Check(r, k)
    \/ MissCache(r) \/ Fetch(r) \/ FetchFails(r)

StreamStep ==
    \/ \E k \in Keys : PutObject(k) \/ PutGivenUp(k)
    \/ \E k \in Keys, v \in 1..MaxVersion : LatePut(k, v)
    \/ \E purge \in BOOLEAN : DeletePrefix(purge)
    \/ AdvanceRecord \/ DeleteTransition \/ RemoveTombstone \/ Tick

Next ==
    \/ \E r \in Requests : Serve(r)
    \/ /\ answer' = NoAnswer
       /\ \/ \E r \in Requests : Proceed(r)
          \/ StreamStep

Spec == Init /\ [][Next]_vars

----------------------------------------------------------------------------
(* Properties *)

\* Sums(lru)[n] is the size of the first n entries.
Sums(lru) ==
    LET sum[n \in 0..Len(lru)] == IF n = 0 THEN 0 ELSE sum[n - 1] + lru[n].size
    IN  sum

Total(lru) == Sums(lru)[Len(lru)]

(* The byte counter of the cache is the sum of its entries and of what was *)
(* dropped when the map was full; the entries are within both limits, and  *)
(* no path has two: lookups that expire entries, evictions and             *)
(* replacements of any size in any order never make it drift otherwise     *)
(* (cache.rs keeps it by hand in five places).                             *)
CacheAccounts ==
    /\ cache.size = Total(cache.lru) + dropped
    /\ Total(cache.lru) <= MaxSizeBytes
    /\ Len(cache.lru) <= MaxEntries
    /\ \A i, j \in DOMAIN cache.lru : cache.lru[i].key = cache.lru[j].key => i = j

Served == answer # NoAnswer /\ answer.status \in {200, 206}

(* Nothing invalidates the cache, so an answer may be out of date; it is   *)
(* never out of date by more than the time to live of its object type and  *)
(* the time a fetch may take, however fills, updates and deletions         *)
(* interleave (serve_object() fills the cache after an await).             *)
StalenessBounded ==
    Served => answer.data[2] <= TtlForKey(answer.key) + MaxFetch

(* A range is answered with a part of the object: never empty, never past  *)
(* its end, and starting where it was asked to start, for objects that are *)
(* empty or shorter than the range, from the cache or from the store.      *)
RangeInside ==
    Served /\ answer.range # NoRange =>
        /\ answer.status = 206
        /\ answer.from = answer.range[1]
        /\ answer.to \in answer.from..answer.range[2]
        /\ answer.to < SizeOf(answer.key, answer.data[1])

(* When a stream became DELETED with its prefix empty, no request that     *)
(* starts later is served anything of it, unless its writer or a delayed   *)
(* PUT has stored an object since: neither while the tombstone refuses it, *)
(* nor after the tombstone is dropped, although a fetch in flight may have *)
(* filled the cache after the deletion.                                    *)
DeletedNotServed ==
    Served /\ answer.afterDelete => orphans

=============================================================================
