--------------------------- MODULE StorageCleanup ---------------------------
(***************************************************************************)
(* The first phase of a cleanup cycle (storage/cleanup.rs) against the     *)
(* storage writer of a LIVE stream and its object store (storage/s3.rs).   *)
(*                                                                         *)
(* The packager cuts segment n and hands over the segment and a playlist   *)
(* of the last Window segments; writes of a batch run concurrently, are    *)
(* retried, and an attempt that timed out may still land, so they land in  *)
(* any order and more than once.  The cleaner lists the objects, reads the *)
(* playlist and deletes expired segments it does not find listed, while    *)
(* writes go on.  One rendition stands for all: they share no object.      *)
(***************************************************************************)
EXTENDS Integers, FiniteSets

CONSTANTS
    MaxSegments,  \* bound: segments of the stream
    Window,       \* live_window_segments
    Retention,    \* segment_retention_minutes, in units of time
    Gap,          \* bound: time between two segments of a live stream
    Lag           \* bound: time until the last attempt of a write has landed

\* A listed segment does not expire while writes succeed.  The defaults are an
\* hour against five segments of six seconds; nothing in the code checks it.
ASSUME CleanupAssumption ==
    /\ {MaxSegments, Window, Retention, Gap, Lag} \subseteq Nat \ {0}
    /\ Retention >= Window * Gap + Lag

VARIABLES
    live,      \* the record is LIVE
    cut,       \* segments cut so far
    sinceCut,  \* time since then
    pending,   \* writes that may land: [kind, seq, age]
    age,       \* stored segments and the time since they were written
    playlist,  \* last segment of the stored playlist; 0 when there is none
    cleaner,   \* [pc, found, expired, listed]: what the cycle found
    blind      \* history: the cycle could not read the playlist

vars == <<live, cut, sinceCut, pending, age, playlist, cleaner, blind>>

Segments == 1..MaxSegments

Listed(n) == {k \in Segments : n - Window < k /\ k <= n}

Idle == [pc |-> "idle", found |-> FALSE, expired |-> {}, listed |-> {}]

Init ==
    /\ live = TRUE
    /\ cut = 0 /\ sinceCut = 0
    /\ pending = {}
    /\ age = [k \in {} |-> 0]
    /\ playlist = 0
    /\ cleaner = Idle
    /\ blind = FALSE

----------------------------------------------------------------------------
(* Packager and storage writer *)

\* A segment takes a unit of time at least.
Cut ==
    /\ live
    /\ cut < MaxSegments
    /\ cut > 0 => sinceCut > 0
    /\ cut' = cut + 1 /\ sinceCut' = 0
    /\ pending' = pending \cup {[kind |-> "segment", seq |-> cut', age |-> 0],
                                [kind |-> "playlist", seq |-> cut', age |-> 0]}
    /\ UNCHANGED <<live, age, playlist, cleaner, blind>>

StreamEnds ==
    /\ live
    /\ live' = FALSE
    /\ UNCHANGED <<cut, sinceCut, pending, age, playlist, cleaner, blind>>

\* A PUT takes effect.  When its answer is late the attempt counts as failed,
\* and the next one writes the same object again.
PutLands(w) ==
    /\ w \in pending
    /\ \/ pending' = pending \ {w}
       \/ UNCHANGED pending
    /\ IF w.kind = "segment"
       THEN /\ age' = [k \in DOMAIN age \cup {w.seq} |-> IF k = w.seq THEN 0 ELSE age[k]]
            /\ UNCHANGED playlist
       ELSE playlist' = w.seq /\ UNCHANGED age
    /\ UNCHANGED <<live, cut, sinceCut, cleaner, blind>>

\* Retries are exhausted, or the store forbids the write.
PutFails(w) ==
    /\ w \in pending
    /\ pending' = pending \ {w}
    /\ UNCHANGED <<live, cut, sinceCut, age, playlist, cleaner, blind>>

\* Time passes; a live stream goes on producing segments.
Tick ==
    /\ live /\ cut < MaxSegments => sinceCut < Gap
    /\ \A w \in pending : w.age < Lag
    /\ pending' = {[w EXCEPT !.age = @ + 1] : w \in pending}
    /\ age' = [k \in DOMAIN age |-> IF age[k] > Retention THEN age[k] ELSE age[k] + 1]
    /\ sinceCut' = IF sinceCut = Gap THEN Gap ELSE sinceCut + 1
    /\ UNCHANGED <<live, cut, playlist, cleaner, blind>>

----------------------------------------------------------------------------
(* run_cleanup_cycle(), phase 1 *)

\* Faulty variant: the retention is not looked at.
ListObjectsOfAnyAge ==
    /\ live
    /\ cleaner.pc = "idle"
    /\ cleaner' = [pc |-> "read", found |-> playlist # 0, expired |-> DOMAIN age,
                   listed |-> {}]
    /\ blind' = FALSE
    /\ UNCHANGED <<live, cut, sinceCut, pending, age, playlist>>

\* Whether there is a playlist, and the segments that have outlived the
\* retention, when the cycle begins.
ListObjects ==
    /\ live
    /\ cleaner.pc = "idle"
    /\ cleaner' = [pc |-> "read", found |-> playlist # 0,
                   expired |-> {k \in DOMAIN age : age[k] > Retention},
                   listed |-> {}]
    /\ blind' = FALSE
    /\ UNCHANGED <<live, cut, sinceCut, pending, age, playlist>>

\* Only a playlist that was among the objects is read; one that cannot be
\* read lists nothing.
ReadPlaylist ==
    /\ cleaner.pc = "read"
    /\ \/ /\ cleaner' = [cleaner EXCEPT !.pc = "delete",
                              !.listed = IF cleaner.found THEN Listed(playlist) ELSE {}]
          /\ UNCHANGED blind
       \/ /\ cleaner.found
          /\ cleaner' = [cleaner EXCEPT !.pc = "delete"]
          /\ blind' = TRUE
    /\ UNCHANGED <<live, cut, sinceCut, pending, age, playlist>>

\* Faulty variant: what the playlist lists is not looked at.
DeleteListedToo(k) ==
    /\ cleaner.pc = "delete"
    /\ k \in cleaner.expired
    /\ cleaner' = [cleaner EXCEPT !.expired = @ \ {k}]
    /\ age' = [j \in DOMAIN age \ {k} |-> age[j]]
    /\ UNCHANGED <<live, cut, sinceCut, pending, playlist, blind>>

\* A delete that fails is only logged.
DeleteObject(k) ==
    /\ cleaner.pc = "delete"
    /\ k \in cleaner.expired \ cleaner.listed
    /\ cleaner' = [cleaner EXCEPT !.expired = @ \ {k}]
    /\ \/ age' = [j \in DOMAIN age \ {k} |-> age[j]]
       \/ UNCHANGED age
    /\ UNCHANGED <<live, cut, sinceCut, pending, playlist, blind>>

EndCycle ==
    /\ cleaner.pc = "delete"
    /\ cleaner.expired \subseteq cleaner.listed
    /\ cleaner' = Idle
    /\ UNCHANGED <<live, cut, sinceCut, pending, age, playlist, blind>>

Next ==
    \/ Cut \/ StreamEnds \/ Tick
    \/ \E w \in pending : PutLands(w) \/ PutFails(w)
    \/ ListObjects \/ ReadPlaylist
    \/ \E k \in Segments : DeleteObject(k)
    \/ EndCycle

Spec == Init /\ [][Next]_vars

----------------------------------------------------------------------------
(* Properties *)

\* The cleaner deletes no segment that the stored playlist lists or that a
\* playlist still under way lists, unless it could not read the playlist:
\* neither by what it read before the playlist moved on, nor by playlists that
\* land late, out of order or not at all (run_cleanup_cycle()).
CleanerSparesListed ==
    [][\A k \in DOMAIN age \ DOMAIN age' :
          \/ blind
          \/ /\ k \notin Listed(playlist)
             /\ \A w \in pending : w.kind = "playlist" => k \notin Listed(w.seq)]_vars

\* A segment that was deleted does not come back by a late attempt of its write:
\* nothing would delete it again once the stream has ended (put_with_retry(),
\* run_cleanup_cycle()).
DeletedStaysDeleted ==
    [][\A k \in DOMAIN age \ DOMAIN age' :
          \A w \in pending : w.kind = "segment" => w.seq # k]_vars

=============================================================================
