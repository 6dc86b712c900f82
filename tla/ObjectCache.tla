----------------------------- MODULE ObjectCache -----------------------------
(***************************************************************************)
(* The in-memory LRU cache of the delivery path (storage/cache.rs) as a    *)
(* data type: a cache is a record of the entries, least recently used      *)
(* first, and of the byte counter that bounds them.  Every operation runs  *)
(* under one mutex, so each is a single operator.  An entry carries its    *)
(* age, which the code computes as inserted_at.elapsed().                  *)
(***************************************************************************)
EXTENDS Integers, SequencesExt

CONSTANTS
    CacheEnabled,       \* CacheConfig.enabled
    MaxSizeBytes,       \* CacheConfig.max_size_bytes
    MaxEntries,         \* capacity of the LruCache
    SegmentTtl,         \* CacheConfig.segment_ttl_secs
    ManifestTtl,        \* CacheConfig.ttl_secs
    SegmentKeys         \* paths of segments and init segments

ASSUME CacheConstants ==
    /\ CacheEnabled \in BOOLEAN
    /\ MaxSizeBytes \in Nat
    /\ MaxEntries \in Nat \ {0}
    /\ SegmentTtl \in Nat
    /\ ManifestTtl \in Nat
    /\ "media.m3u8" \notin SegmentKeys

\* Seconds a live media playlist may be served from the cache.
MediaTtl == 1

\* The result of a lookup that found nothing.
Miss == <<>>

Saturating(a, b) == IF a < b THEN 0 ELSE a - b

EmptyCache == [lru |-> <<>>, size |-> 0]

TtlForKey(key) ==
    CASE key \in SegmentKeys -> SegmentTtl
      [] key = "media.m3u8"   -> MediaTtl
      [] OTHER                -> ManifestTtl

IsExpired(entry) == entry.age > entry.ttl

\* Time passes; an entry is not observed to be older than expired.
Aged(entry) == IF IsExpired(entry) THEN entry ELSE [entry EXCEPT !.age = @ + 1]

\* The LRU map holds at most one entry of a key.
Holds(cache, key) == \E i \in DOMAIN cache.lru : cache.lru[i].key = key

PositionOf(cache, key) == CHOOSE i \in DOMAIN cache.lru : cache.lru[i].key = key

EntryOf(cache, key) == cache.lru[PositionOf(cache, key)]

\* The entry of key, if there is one, is taken out and its size given back.
Pop(cache, key) ==
    IF Holds(cache, key)
    THEN [lru  |-> RemoveAt(cache.lru, PositionOf(cache, key)),
          size |-> Saturating(cache.size, EntryOf(cache, key).size)]
    ELSE cache

\* The entry becomes the most recently used one.
Touch(cache, key, entry) ==
    [lru |-> Append(Pop(cache, key).lru, entry), size |-> cache.size]

\* Faulty variant: a hit starts the entry's time to live anew.
GetRefreshes(cache, key) ==
    LET entry == EntryOf(cache, key)
    IN  CASE ~Holds(cache, key) ->
                [cache |-> cache, hit |-> Miss]
          [] Holds(cache, key) /\ IsExpired(entry) ->
                [cache |-> Pop(cache, key), hit |-> Miss]
          [] OTHER ->
                [cache |-> Touch(cache, key, [entry EXCEPT !.age = 0]), hit |-> entry.data]

\* A lookup makes the entry the most recently used one and removes it when
\* it has expired.
Get(cache, key) ==
    LET entry == EntryOf(cache, key)
    IN  CASE ~Holds(cache, key) ->
                [cache |-> cache, hit |-> Miss]
          [] Holds(cache, key) /\ IsExpired(entry) ->
                [cache |-> Pop(cache, key), hit |-> Miss]
          [] OTHER ->
                [cache |-> Touch(cache, key, entry), hit |-> entry.data]

\* The byte counter after the n least recently used entries have gone.
Left(cache) ==
    LET left[n \in 0..Len(cache.lru)] ==
            IF n = 0 THEN cache.size ELSE Saturating(left[n - 1], cache.lru[n].size)
    IN  left

\* Least recently used entries go until an object of the given size fits.
Evict(cache, size) ==
    LET enough == {n \in 0..Len(cache.lru) :
                      Left(cache)[n] + size <= MaxSizeBytes \/ n = Len(cache.lru)}
        evicted == CHOOSE n \in enough : \A m \in enough : n <= m
    IN  [lru  |-> SubSeq(cache.lru, evicted + 1, Len(cache.lru)),
         size |-> Left(cache)[evicted]]

\* The map has a capacity of its own: when it is full, its put() drops the
\* least recently used entry, and nobody gives back that entry's size.
Squeezed(lru) == IF Len(lru) < MaxEntries THEN lru ELSE Tail(lru)

Insert(cache, key, data, size) ==
    [lru  |-> Append(Squeezed(cache.lru),
                     [key |-> key, data |-> data, age |-> 0,
                      ttl |-> TtlForKey(key), size |-> size]),
     size |-> cache.size + size]

Cacheable(size) == CacheEnabled /\ size <= MaxSizeBytes \div 2

\* Faulty variant: the old entry is replaced without giving its size back.
PutForgetsOld(cache, key, data, size) ==
    IF Cacheable(size)
    THEN LET room == Evict(cache, size)
         IN  Insert([room EXCEPT !.lru = Pop(room, key).lru], key, data, size)
    ELSE cache

\* Room is made before the old entry of the same key is taken out.
Room(cache, key, size) == Pop(Evict(cache, size), key)

Put(cache, key, data, size) ==
    IF Cacheable(size) THEN Insert(Room(cache, key, size), key, data, size) ELSE cache

\* The bytes that Put drops without giving them back.
DroppedBy(cache, key, size) ==
    LET lru == Room(cache, key, size).lru
    IN  IF Cacheable(size) /\ Len(lru) >= MaxEntries THEN Head(lru).size ELSE 0

=============================================================================
