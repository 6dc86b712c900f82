-------------------------- MODULE LivePipelineProofs --------------------------
(***************************************************************************)
(* Proofs about LivePipeline, for any number of renditions, any capacities *)
(* of the channels and any number of packets, and about the accumulator it *)
(* has for each rendition (AccumulatorFeed), for any packets and any       *)
(* target duration.                                                        *)
(***************************************************************************)
EXTENDS LivePipeline, AccumulatorFeed, FiniteSetTheorems, SequenceTheorems, TLAPS

-----------------------------------------------------------------------------
(* The segments of a rendition in a queue.                                 *)

IsSegmentOf(m, r) == m.kind = "segment" /\ m.rendition = r

\* Their positions are finitely many.
LEMMA CountType ==
    ASSUME NEW S, NEW q \in Seq(S), NEW r
    PROVE  /\ At(r, q) \subseteq 1..Len(q) /\ IsFiniteSet(At(r, q)) /\ Count(r, q) \in Nat
           /\ \A i : /\ IsFiniteSet({j \in At(r, q) : j < i})
                     /\ Cardinality({j \in At(r, q) : j < i}) \in Nat
<1>1. At(r, q) \subseteq 1..Len(q) /\ Len(q) \in Nat
  BY DEF At
<1>2. IsFiniteSet(1..Len(q))
  BY <1>1, FS_Interval
<1>3. IsFiniteSet(At(r, q))
  BY <1>1, <1>2, FS_Subset
<1>4. \A i : IsFiniteSet({j \in At(r, q) : j < i})
  BY <1>3, FS_Subset
<1>. QED  BY <1>1, <1>3, <1>4, FS_CardinalityType DEF Count

\* An empty queue has none.
LEMMA CountEmpty ==
    ASSUME NEW q, NEW r, At(r, q) = {}
    PROVE  Count(r, q) = 0 /\ \A n : Numbered(r, q, n)
BY FS_EmptySet DEF Count, Numbered

\* One position counts for one, with nothing before it.
LEMMA CountOne ==
    ASSUME NEW q, NEW r, NEW p \in Int, At(r, q) = {p}
    PROVE  Count(r, q) = 1 /\ \A n \in Nat : q[p].seq = n => Numbered(r, q, n)
<1>1. Count(r, q) = 1
  BY FS_Singleton DEF Count
<1>2. {j \in At(r, q) : j < p} = {}
  OBVIOUS
<1>3. Cardinality({j \in At(r, q) : j < p}) = 0
  BY <1>2, FS_EmptySet
<1>4. ASSUME NEW n \in Nat, q[p].seq = n  PROVE Numbered(r, q, n)
  BY <1>3, <1>4 DEF Numbered
<1>. QED  BY <1>1, <1>4

\* A message joins the queue.
LEMMA AppendCounts ==
    ASSUME NEW S, NEW q \in Seq(S), NEW m \in S, NEW r
    PROVE  /\ IsSegmentOf(m, r) => Count(r, Append(q, m)) = Count(r, q) + 1
           /\ ~IsSegmentOf(m, r) => /\ Count(r, Append(q, m)) = Count(r, q)
                                    /\ At(r, Append(q, m)) = At(r, q)
           /\ \A n \in Nat :
                 Numbered(r, q, n) /\ (IsSegmentOf(m, r) => m.seq = n + Count(r, q)) =>
                    Numbered(r, Append(q, m), n)
<1>. DEFINE t == Append(q, m)
            k == Len(q) + 1
<1>1. /\ DOMAIN q = 1..Len(q) /\ Len(q) \in Nat /\ DOMAIN t = 1..k
      /\ \A i \in DOMAIN q : t[i] = q[i]
      /\ t[k] = m
  OBVIOUS
<1>. HIDE DEF t
<1>2. At(r, q) \subseteq 1..Len(q) /\ k \notin At(r, q) /\ IsFiniteSet(At(r, q))
  BY <1>1, CountType
<1>3. /\ IsSegmentOf(m, r) => At(r, t) = At(r, q) \cup {k}
      /\ ~IsSegmentOf(m, r) => At(r, t) = At(r, q)
  BY <1>1 DEF At, IsSegmentOf
<1>4. Cardinality(At(r, q) \cup {k}) = Cardinality(At(r, q)) + 1
  BY <1>2, FS_AddElement
<1>5. /\ IsSegmentOf(m, r) => Count(r, t) = Count(r, q) + 1
      /\ ~IsSegmentOf(m, r) => Count(r, t) = Count(r, q)
  BY <1>3, <1>4 DEF Count
<1>6. ASSUME NEW n \in Nat, Numbered(r, q, n), IsSegmentOf(m, r) => m.seq = n + Count(r, q)
      PROVE  Numbered(r, t, n)
  <2>. SUFFICES ASSUME NEW i \in At(r, t)
                PROVE  t[i].seq = n + Cardinality({j \in At(r, t) : j < i})
    BY DEF Numbered
  <2>1. CASE i = k
    <3>1. IsSegmentOf(m, r)
      BY <1>2, <1>3, <2>1
    <3>2. {j \in At(r, t) : j < i} = At(r, q)
      BY <1>1, <1>2, <1>3, <2>1, <3>1
    <3>. QED  BY <1>1, <1>6, <2>1, <3>1, <3>2 DEF Count
  <2>2. CASE i # k
    <3>1. i \in At(r, q) /\ i \in 1..Len(q)
      BY <1>2, <1>3, <2>2
    <3>2. {j \in At(r, t) : j < i} = {j \in At(r, q) : j < i}
      BY <1>1, <1>2, <1>3, <3>1
    <3>. QED  BY <1>1, <1>6, <3>1, <3>2 DEF Numbered
  <2>. QED  BY <2>1, <2>2
<1>. QED  BY <1>3, <1>5, <1>6 DEF t

\* Positions that all move up by one are as many as before.
LEMMA ShiftCounts ==
    ASSUME NEW T \in SUBSET Nat, IsFiniteSet(T)
    PROVE  Cardinality({i - 1 : i \in T}) = Cardinality(T)
<1>. DEFINE U == {i - 1 : i \in T}
            f == [i \in T |-> i - 1]
<1>1. f \in [T -> U] /\ \A u \in U : \E i \in T : f[i] = u
  OBVIOUS
<1>2. \A i, j \in T : f[i] = f[j] => i = j
  OBVIOUS
<1>3. f \in Surjection(T, U)
  <2>. HIDE DEF f, U
  <2>. QED  BY <1>1 DEF Surjection
<1>4. f \in Injection(T, U)
  <2>. HIDE DEF f, U
  <2>. QED  BY <1>1, <1>2 DEF Injection, IsInjective
<1>5. Cardinality(U) = Cardinality(T)
  <2>. HIDE DEF f, U
  <2>. QED  BY <1>3, <1>4, FS_Surjection
<1>. QED  BY <1>5

\* The first message leaves the queue.
LEMMA TailCounts ==
    ASSUME NEW S, NEW q \in Seq(S), q # <<>>, NEW r
    PROVE  /\ IsSegmentOf(Head(q), r) => Count(r, q) = Count(r, Tail(q)) + 1
           /\ ~IsSegmentOf(Head(q), r) => Count(r, q) = Count(r, Tail(q))
           /\ \A n \in Nat : Numbered(r, q, n) =>
                 /\ IsSegmentOf(Head(q), r) => Head(q).seq = n /\ Numbered(r, Tail(q), n + 1)
                 /\ ~IsSegmentOf(Head(q), r) => Numbered(r, Tail(q), n)
<1>. DEFINE t == Tail(q)
<1>1. /\ DOMAIN q = 1..Len(q) /\ Len(q) \in Nat \ {0} /\ DOMAIN t = 1..(Len(q) - 1)
      /\ \A i \in DOMAIN t : t[i] = q[i + 1]
      /\ Head(q) = q[1] /\ t \in Seq(S)
  OBVIOUS
<1>. HIDE DEF t
<1>2. At(r, q) \subseteq 1..Len(q) /\ IsFiniteSet(At(r, q))
  BY CountType
<1>3. At(r, t) = {i - 1 : i \in At(r, q) \ {1}}
  <2>1. \A i \in At(r, t) : i + 1 \in At(r, q) \ {1} /\ i = (i + 1) - 1
    BY <1>1 DEF At
  <2>2. \A i \in At(r, q) \ {1} : i - 1 \in At(r, t)
    <3>. TAKE i \in At(r, q) \ {1}
    <3>1. i \in 1..Len(q) /\ i # 1
      BY <1>2
    <3>2. i - 1 \in DOMAIN t /\ t[i - 1] = q[i]
      BY <1>1, <3>1
    <3>. QED  BY <3>2 DEF At
  <2>. QED  BY <2>1, <2>2
<1>4. 1 \in At(r, q) <=> IsSegmentOf(Head(q), r)
  BY <1>1 DEF At, IsSegmentOf
<1>5. IsFiniteSet(At(r, q) \ {1}) /\ At(r, q) \ {1} \in SUBSET Nat
  BY <1>1, <1>2, FS_RemoveElement
<1>6. Cardinality(At(r, t)) = Cardinality(At(r, q) \ {1})
  BY <1>3, <1>5, ShiftCounts
<1>7. /\ 1 \in At(r, q) => Cardinality(At(r, q) \ {1}) = Cardinality(At(r, q)) - 1
      /\ 1 \notin At(r, q) => At(r, q) \ {1} = At(r, q)
  BY <1>2, FS_RemoveElement
<1>8. /\ 1 \in At(r, q) => Count(r, q) = Count(r, t) + 1
      /\ 1 \notin At(r, q) => Count(r, q) = Count(r, t)
  <2>1. Cardinality(At(r, q)) \in Nat
    BY <1>2, FS_CardinalityType
  <2>2. CASE 1 \in At(r, q)
    <3>1. Cardinality(At(r, q) \ {1}) = Cardinality(At(r, q)) - 1
      BY <1>7, <2>2
    <3>. QED  BY <1>6, <2>1, <2>2, <3>1 DEF Count
  <2>3. CASE 1 \notin At(r, q)
    BY <1>6, <1>7, <2>3 DEF Count
  <2>. QED  BY <2>2, <2>3
<1>9. ASSUME NEW n \in Nat, Numbered(r, q, n)
      PROVE  /\ 1 \in At(r, q) => Head(q).seq = n /\ Numbered(r, t, n + 1)
             /\ 1 \notin At(r, q) => Numbered(r, t, n)
  <2>1. 1 \in At(r, q) => Head(q).seq = n
    <3>1. {j \in At(r, q) : j < 1} = {}
      BY <1>2
    <3>2. Cardinality({j \in At(r, q) : j < 1}) = 0
      BY <3>1, FS_EmptySet
    <3>3. 1 \in At(r, q) => q[1].seq = n + 0
      BY <1>9, <3>2 DEF Numbered
    <3>. QED  BY <1>1, <3>3
  <2>2. ASSUME NEW i \in At(r, t)
        PROVE  t[i].seq = (IF 1 \in At(r, q) THEN n + 1 ELSE n)
                             + Cardinality({j \in At(r, t) : j < i})
    <3>1. i \in DOMAIN t /\ i + 1 \in At(r, q) /\ t[i] = q[i + 1] /\ i \in Nat /\ i >= 1
      BY <1>1, <2>2 DEF At
    <3>. DEFINE T == {j \in At(r, q) : j < i + 1}
    <3>2. IsFiniteSet(T) /\ T \in SUBSET Nat /\ Cardinality(T) \in Nat
      <4>1. IsFiniteSet(T) /\ Cardinality(T) \in Nat
        BY CountType
      <4>. QED  BY <1>1, <1>2, <4>1
    <3>3. {j \in At(r, t) : j < i} = {j - 1 : j \in T \ {1}}
      <4>1. \A j \in At(r, q) : j \in Nat
        BY <1>1, <1>2
      <4>2. \A j \in At(r, q) \ {1} : j - 1 < i <=> j < i + 1
        BY <3>1, <4>1
      <4>. QED  BY <1>3, <4>2
    <3>4. 1 \in T <=> 1 \in At(r, q)
      BY <3>1
    <3>. HIDE DEF T
    <3>5. /\ IsFiniteSet(T \ {1}) /\ T \ {1} \in SUBSET Nat
          /\ Cardinality(T \ {1}) = IF 1 \in T THEN Cardinality(T) - 1 ELSE Cardinality(T)
      BY <3>2, FS_RemoveElement
    <3>6. Cardinality({j \in At(r, t) : j < i}) = Cardinality(T \ {1})
      BY <3>3, <3>5, ShiftCounts
    <3>7. q[i + 1].seq = n + Cardinality(T)
      BY <1>9, <3>1 DEF Numbered, T
    <3>. QED  BY <3>1, <3>2, <3>4, <3>5, <3>6, <3>7
  <2>. QED  BY <2>1, <2>2 DEF Numbered
<1>. QED  BY <1>4, <1>8, <1>9 DEF t

-----------------------------------------------------------------------------
(* The inductive invariant.                                                *)

Packets == [pts : Nat, key : BOOLEAN, audio : BOOLEAN]

Types ==
    /\ TypeOK
    /\ ingest \in Seq(Packets)
    /\ DOMAIN acc = Renditions
    /\ \A r \in Renditions :
          /\ DOMAIN acc[r] = {"start", "last", "video", "audio", "next"}
          /\ acc[r].next \in Nat
    /\ index \in [Renditions -> [segments : Seq(Nat), next : Nat]]
    /\ Unsent \subseteq DOMAIN RenditionList
    /\ \A i \in Unsent : txOut[i] \in Segments /\ txOut[i].rendition = RenditionList[i]
    /\ DOMAIN store = {"inits", "segments", "master", "playlists"}
    /\ DOMAIN rec = {"state", "expected", "known", "complete"}
    /\ rec.expected \in {0, Len(RenditionList)}
    /\ wr \notin {"drain", "exec"} => batch = <<>>

\* The tasks start with the connection; the transcoder flushes when the channel
\* of the packets is closed and empty; the record follows the connection.
Phases ==
    /\ conn = "start" => tx = "off" /\ wr = "off"
    /\ tx \in {"flush", "done"} => IngestClosed /\ ingest = <<>>
    /\ \A i \in DOMAIN events : events[i].kind = "StreamEnded" => conn = "done"
    /\ \A i \in DOMAIN pkOut : pkOut[i].kind # "StreamEnded"
    /\ rec.state \in {"Processing", "Ready"} => conn = "done"

\* No segment of r is left upstream of the packager, nor will there be one.
Upstream(r) ==
    /\ tx \in {"flush", "done"}
    /\ At(r, txOut) = {} /\ At(r, segments) = {}
    /\ r \in inits

\* The last segment of a rendition is the last one at every stage ...
LastUnsent == \A i \in Unsent : txOut[i].last => tx = "flush"

LastQueued ==
    \A i \in DOMAIN segments : segments[i].last =>
        /\ tx \in {"flush", "done"}
        /\ At(segments[i].rendition, txOut) = {}
        /\ \A j \in At(segments[i].rendition, segments) : j <= i

\* ... and what the packager says of it comes after it.
CompleteSaid ==
    \A i \in DOMAIN pkOut : pkOut[i].kind = "RenditionComplete" =>
        /\ Upstream(pkOut[i].rendition)
        /\ \A j \in At(pkOut[i].rendition, pkOut) : j < i

CompleteReported ==
    \A i \in DOMAIN events : events[i].kind = "RenditionComplete" =>
        /\ Upstream(events[i].rendition)
        /\ At(events[i].rendition, pkOut) = {}

CompleteRecorded ==
    /\ \A r \in rec.complete : Upstream(r) /\ At(r, pkOut) = {}
    /\ rec.state = "Ready" => rec.complete = Renditions

Finality == LastUnsent /\ LastQueued /\ CompleteSaid /\ CompleteReported /\ CompleteRecorded

\* The cardinalities in SegmentsConserved are numbers.
Countable == \A r \in Renditions : IsFiniteSet(Landed(r) \cup Executing(r))

Inv == Types /\ Phases /\ Finality /\ Countable /\ SegmentsConserved

-----------------------------------------------------------------------------
(* What travels through the channels.                                      *)

\* A write goes to the store and is no event.
LEMMA WriteKinds ==
    ASSUME NEW m \in Writes
    PROVE  /\ m.to = "store"
           /\ m.kind \in {"init", "segment", "playlist", "master"}
           /\ m.kind = "segment" => m.rendition \in Renditions /\ m.seq \in Nat
BY DEF Writes

\* An event goes to the control plane and is no segment.
LEMMA EventKinds ==
    ASSUME NEW m \in Events
    PROVE  /\ m.to = "control"
           /\ m.kind \in {"StreamStarted", "StreamEnded", "StreamError",
                          "SegmentProduced", "RenditionComplete"}
           /\ m.kind \in {"SegmentProduced", "RenditionComplete"} => m.rendition \in Renditions
BY DEF Events

\* push() numbers the segment it emits with the next number, and never marks it
\* as the last.
LEMMA PushEffect ==
    ASSUME NEW a, DOMAIN a = {"start", "last", "video", "audio", "next"}, a.next \in Nat, NEW p
    PROVE  /\ DOMAIN Push(a, p).acc = {"start", "last", "video", "audio", "next"}
           /\ Push(a, p).acc.next = IF Push(a, p).out = <<>> THEN a.next ELSE a.next + 1
           /\ Push(a, p).out # <<>> =>
                 Push(a, p).out[1].seq = a.next /\ Push(a, p).out[1].last = FALSE
<1>. DEFINE g == Accumulate(a, p)
<1>1. DOMAIN g = {"start", "last", "video", "audio", "next"} /\ g.next = a.next
  BY DEF Accumulate
<1>. HIDE DEF g
<1>2. /\ DOMAIN Reset(g) = {"start", "last", "video", "audio", "next"}
      /\ Reset(g).next = a.next + 1
  BY <1>1 DEF Reset
<1>3. Emitted(g, FALSE).seq = a.next /\ Emitted(g, FALSE).last = FALSE
  BY <1>1 DEF Emitted
<1>4. CASE IsBoundary(g, p)
  <2>1. Push(a, p).acc = Reset(g) /\ Push(a, p).out = <<Emitted(g, FALSE)>>
    BY <1>4 DEF Push, g
  <2>2. Push(a, p).out # <<>> /\ Push(a, p).out[1] = Emitted(g, FALSE)
    BY <2>1
  <2>. QED  BY <1>2, <1>3, <2>1, <2>2
<1>5. CASE ~IsBoundary(g, p)
  <2>1. Push(a, p).acc = g /\ Push(a, p).out = <<>>
    BY <1>5 DEF Push, g
  <2>. QED  BY <1>1, <2>1
<1>. QED  BY <1>4, <1>5

\* flush() numbers what is left with the next number, as the last segment.
LEMMA FlushEffect ==
    ASSUME NEW a, DOMAIN a = {"start", "last", "video", "audio", "next"}, a.next \in Nat
    PROVE  /\ DOMAIN Reset(a) = DOMAIN a /\ Reset(a).next = a.next + 1
           /\ Flush(a) # <<>> => Flush(a)[1].seq = a.next /\ Flush(a)[1].last = TRUE
<1>1. DOMAIN Reset(a) = DOMAIN a /\ Reset(a).next = a.next + 1
  BY DEF Reset
<1>2. Emitted(a, TRUE).seq = a.next /\ Emitted(a, TRUE).last = TRUE
  BY DEF Emitted
<1>3. Flush(a) # <<>> => Flush(a)[1] = Emitted(a, TRUE)
  BY DEF Flush
<1>. QED  BY <1>1, <1>2, <1>3

\* The index entry of a segment makes a playlist.
LEMMA PlaylistType ==
    ASSUME NEW ix \in [segments : Seq(Nat), next : Nat], NEW b \in BOOLEAN
    PROVE  /\ AddSegment(ix) \in [segments : Seq(Nat), next : Nat]
           /\ GeneratePlaylist(AddSegment(ix), b) \in Playlists
<1>1. Append(ix.segments, ix.next) \in Seq(Nat) /\ Append(ix.segments, ix.next) # <<>>
  <2>1. ix.segments \in Seq(Nat) /\ ix.next \in Nat
    OBVIOUS
  <2>2. ASSUME NEW q \in Seq(Nat), NEW n \in Nat
        PROVE  Append(q, n) \in Seq(Nat) /\ Append(q, n) # <<>>
    <3>1. Append(q, n) \in Seq(Nat)
      OBVIOUS
    <3>2. Len(Append(q, n)) = Len(q) + 1 /\ Len(q) \in Nat /\ Len(<<>>) = 0
      OBVIOUS
    <3>3. Len(Append(q, n)) # Len(<<>>)
      BY <3>2
    <3>. QED  BY <3>1, <3>3
  <2>. QED  BY <2>1, <2>2
<1>2. Tail(Append(ix.segments, ix.next)) \in Seq(Nat)
  BY <1>1
<1>3. AddSegment(ix) \in [segments : Seq(Nat), next : Nat]
  BY <1>1, <1>2 DEF AddSegment
<1>. QED  BY <1>3 DEF GeneratePlaylist, Playlists

\* The elements of a concatenation.
LEMMA ConcatElements ==
    ASSUME NEW S, NEW u \in Seq(S), NEW v \in Seq(S)
    PROVE  /\ u \o v \in Seq(S) /\ Len(u \o v) = Len(u) + Len(v)
           /\ \A j \in 1..Len(u) : (u \o v)[j] = u[j]
           /\ \A j \in 1..Len(v) : (u \o v)[Len(u) + j] = v[j]
OBVIOUS

\* One segment becomes one segment write; its completion is said after it.
LEMMA MessagesEffect ==
    ASSUME Types, NEW seg \in Segments
    PROVE  /\ Messages(seg) \in Seq(Writes \cup Events)
           /\ \A i \in DOMAIN Messages(seg) : Messages(seg)[i].kind # "StreamEnded"
           /\ \A r : r # seg.rendition => At(r, Messages(seg)) = {}
           /\ \E p \in DOMAIN Messages(seg) :
                 /\ At(seg.rendition, Messages(seg)) = {p}
                 /\ Messages(seg)[p].seq = seg.seq
                 /\ \A i \in DOMAIN Messages(seg) :
                       Messages(seg)[i].kind = "RenditionComplete" =>
                          seg.last /\ Messages(seg)[i].rendition = seg.rendition /\ p < i
<1>. DEFINE r == seg.rendition
            M == Messages(seg)
            a == InitWrite(r)
            b == MasterWrite(inits \cup {r})
            c == SegmentWrite(r, seg.seq)
            d == PlaylistWrite(r, GeneratePlaylist(AddSegment(index[r]), seg.last))
            e == RenditionEvent("SegmentProduced", r)
            f == RenditionEvent("RenditionComplete", r)
<1>1. r \in Renditions /\ seg.seq \in Nat /\ seg.last \in BOOLEAN
  BY DEF Segments
<1>2. a \in Writes /\ a.kind = "init"
  BY <1>1 DEF InitWrite, Writes
<1>3. b \in Writes /\ b.kind = "master"
  BY <1>1 DEF MasterWrite, Writes, Types, TypeOK
<1>4. c \in Writes /\ c.kind = "segment" /\ c.rendition = r /\ c.seq = seg.seq
  BY <1>1 DEF SegmentWrite, Writes
<1>5. d \in Writes /\ d.kind = "playlist"
  <2>1. GeneratePlaylist(AddSegment(index[r]), seg.last) \in Playlists
    BY <1>1, PlaylistType DEF Types
  <2>. QED  BY <1>1, <2>1 DEF PlaylistWrite, Writes
<1>6. e \in Events /\ e.kind = "SegmentProduced"
  BY <1>1 DEF RenditionEvent, Events
<1>7. f \in Events /\ f.kind = "RenditionComplete" /\ f.rendition = r
  BY <1>1 DEF RenditionEvent, Events
<1>. DEFINE S == Writes \cup Events
            first == IF r \in inits THEN <<>> ELSE <<a, b>>
            mid == <<c, d, e>>
            done == IF seg.last THEN <<f>> ELSE <<>>
            k == Len(first)
<1>8. M = (first \o mid) \o done
  BY DEF Messages
<1>9. /\ first \in Seq(S) /\ k \in {0, 2}
      /\ \A i \in 1..k : first[i].kind \in {"init", "master"}
  <2>1. CASE r \in inits
    BY <2>1
  <2>2. CASE r \notin inits
    <3>1. first = <<a, b>>
      BY <2>2
    <3>. HIDE DEF first, a, b
    <3>2. first \in Seq(S) /\ Len(first) = 2 /\ first[1] = a /\ first[2] = b
      BY <1>2, <1>3, <3>1
    <3>. QED  BY <1>2, <1>3, <3>2
  <2>. QED  BY <2>1, <2>2
<1>10. mid \in Seq(S) /\ Len(mid) = 3 /\ mid[1] = c /\ mid[2] = d /\ mid[3] = e
  <2>. HIDE DEF c, d, e
  <2>. QED  BY <1>4, <1>5, <1>6
<1>11. /\ done \in Seq(S) /\ Len(done) \in {0, 1}
       /\ seg.last => Len(done) = 1 /\ done[1] = f
       /\ ~seg.last => Len(done) = 0
  <2>. HIDE DEF f
  <2>1. CASE seg.last
    <3>1. done = <<f>>
      BY <2>1
    <3>. QED  BY <1>7, <2>1, <3>1
  <2>2. CASE ~seg.last
    BY <2>2
  <2>. QED  BY <2>1, <2>2
<1>. HIDE DEF r, M, a, b, c, d, e, f, first, mid, done, k, S
<1>. DEFINE h == first \o mid
<1>12. /\ h \in Seq(S) /\ Len(h) = k + 3
       /\ \A i \in 1..k : h[i] = first[i]
       /\ h[k + 1] = c /\ h[k + 2] = d /\ h[k + 3] = e
  <2>1. first \in Seq(S) /\ mid \in Seq(S)
    BY <1>9, <1>10
  <2>2. /\ h \in Seq(S) /\ Len(h) = Len(first) + Len(mid)
        /\ \A i \in 1..Len(first) : h[i] = first[i]
        /\ \A i \in 1..Len(mid) : h[Len(first) + i] = mid[i]
    BY <2>1, ConcatElements
  <2>. HIDE DEF h
  <2>3. \A i \in 1..3 : h[k + i] = mid[i]
    BY <1>10, <2>2 DEF k
  <2>4. h[k + 1] = c /\ h[k + 2] = d /\ h[k + 3] = e
    BY <1>10, <2>3
  <2>. QED  BY <1>10, <2>2, <2>4 DEF k
<1>. HIDE DEF h
<1>13. /\ M \in Seq(S) /\ Len(M) = k + 3 + Len(done)
       /\ \A i \in 1..(k + 3) : M[i] = h[i]
       /\ seg.last => M[k + 4] = f
  <2>1. /\ M \in Seq(S) /\ Len(M) = Len(h) + Len(done)
        /\ \A i \in 1..Len(h) : M[i] = h[i]
        /\ \A i \in 1..Len(done) : M[Len(h) + i] = done[i]
    <3>1. h \in Seq(S) /\ done \in Seq(S) /\ M = h \o done
      BY <1>8, <1>11, <1>12 DEF h
    <3>. QED  BY <3>1, ConcatElements
  <2>2. Len(h) = k + 3 /\ (k + 3) + 1 = k + 4
    BY <1>9, <1>12
  <2>3. seg.last => M[k + 4] = done[1]
    <3>1. SUFFICES ASSUME seg.last  PROVE M[k + 4] = done[1]
      OBVIOUS
    <3>2. 1 \in 1..Len(done)
      BY <1>11, <3>1
    <3>. QED  BY <2>1, <2>2, <3>2
  <2>. QED  BY <1>11, <2>1, <2>2, <2>3
<1>14. /\ \A i \in 1..k : M[i].kind \in {"init", "master"}
       /\ M[k + 1] = c /\ M[k + 2] = d /\ M[k + 3] = e
  BY <1>9, <1>12, <1>13
<1>15. DOMAIN M = IF seg.last THEN 1..(k + 4) ELSE 1..(k + 3)
  <2>1. DOMAIN M = 1..Len(M)
    BY <1>13
  <2>2. (k + 3) + 1 = k + 4 /\ (k + 3) + 0 = k + 3
    BY <1>9
  <2>3. Len(M) = IF seg.last THEN k + 4 ELSE k + 3
    BY <1>11, <1>13, <2>2
  <2>. QED  BY <2>1, <2>3
<1>16. \A i \in DOMAIN M :
          \/ i <= k /\ M[i].kind \in {"init", "master"}
          \/ i = k + 1 /\ M[i] = c
          \/ i > k + 1 /\ M[i].kind \in {"playlist", "SegmentProduced"}
          \/ i > k + 1 /\ seg.last /\ M[i] = f
  <2>. TAKE i \in DOMAIN M
  <2>1. \/ i \in 1..k \/ i = k + 1 \/ i = k + 2 \/ i = k + 3 \/ (i = k + 4 /\ seg.last)
    BY <1>9, <1>15
  <2>2. k + 2 > k + 1 /\ k + 3 > k + 1 /\ k + 4 > k + 1 /\ \A x \in 1..k : x <= k
    BY <1>9
  <2>. QED  BY <1>5, <1>6, <1>13, <1>14, <2>1, <2>2
<1>17. k + 1 \in DOMAIN M
  BY <1>9, <1>15
<1>18. At(r, M) = {k + 1} /\ \A x : x # r => At(x, M) = {}
  BY <1>4, <1>7, <1>9, <1>14, <1>16, <1>17 DEF At
<1>19. \A i \in DOMAIN M : M[i].kind = "RenditionComplete" =>
          seg.last /\ M[i].rendition = r /\ k + 1 < i
  BY <1>4, <1>7, <1>9, <1>16
<1>20. \A i \in DOMAIN M : M[i].kind # "StreamEnded"
  BY <1>4, <1>7, <1>16
<1>. QED  BY <1>4, <1>13, <1>14, <1>17, <1>18, <1>19, <1>20 DEF M, r, S

\* Removing a position shifts the later ones.
LEMMA RemoveAtEffect ==
    ASSUME NEW S, NEW q \in Seq(S), NEW i \in DOMAIN q
    PROVE  /\ RemoveAt(q, i) \in Seq(S)
           /\ Len(RemoveAt(q, i)) = Len(q) - 1
           /\ \A j \in 1..(Len(q) - 1) :
                 RemoveAt(q, i)[j] = IF j < i THEN q[j] ELSE q[j + 1]
<1>1. i \in 1..Len(q) /\ Len(q) \in Nat /\ \A j \in 1..Len(q) : q[j] \in S
  OBVIOUS
<1>. DEFINE u == SubSeq(q, 1, i - 1)
            v == SubSeq(q, i + 1, Len(q))
<1>2. u \in Seq(S) /\ Len(u) = i - 1 /\ \A j \in 1..(i - 1) : u[j] = q[j]
  BY <1>1
<1>3. v \in Seq(S) /\ Len(v) = Len(q) - i /\ \A j \in 1..(Len(q) - i) : v[j] = q[i + j]
  BY <1>1
<1>. HIDE DEF u, v
<1>4. u \o v \in Seq(S) /\ Len(u \o v) = Len(q) - 1
  BY <1>1, <1>2, <1>3
<1>5. ASSUME NEW j \in 1..(Len(q) - 1)
      PROVE  (u \o v)[j] = IF j < i THEN q[j] ELSE q[j + 1]
  <2>1. CASE j < i
    BY <1>1, <1>2, <1>3, <2>1
  <2>2. CASE ~(j < i)
    <3>1. /\ j - (i - 1) \in 1..(Len(q) - i) /\ i + (j - (i - 1)) = j + 1
          /\ (i - 1) + (j - (i - 1)) = j
      BY <1>1, <2>2
    <3>2. (u \o v)[Len(u) + (j - (i - 1))] = v[j - (i - 1)]
      <4>0. u \in Seq(S) /\ v \in Seq(S)
        BY <1>2, <1>3
      <4>1. \A x \in 1..Len(v) : (u \o v)[Len(u) + x] = v[x]
        BY <4>0, ConcatElements
      <4>. QED  BY <1>3, <3>1, <4>1
    <3>. QED  BY <1>2, <1>3, <2>2, <3>1, <3>2
  <2>. QED  BY <2>1, <2>2
<1>6. RemoveAt(q, i) = u \o v
  BY DEF RemoveAt, u, v
<1>. QED  BY <1>4, <1>5, <1>6

\* The elements of a queue without its first one.
LEMMA TailAt ==
    ASSUME NEW S, NEW q \in Seq(S), q # <<>>
    PROVE  /\ Tail(q) \in Seq(S) /\ Len(Tail(q)) = Len(q) - 1 /\ Len(q) \in Nat \ {0}
           /\ Head(q) \in S /\ Head(q) = q[1] /\ 1 \in DOMAIN q
           /\ \A j \in DOMAIN Tail(q) : j \in Nat \ {0} /\ j + 1 \in DOMAIN q /\ Tail(q)[j] = q[j + 1]
           /\ \A r : \A j \in At(r, Tail(q)) : j \in Nat \ {0} /\ j + 1 \in At(r, q)
<1>1. /\ Tail(q) \in Seq(S) /\ Len(Tail(q)) = Len(q) - 1 /\ Len(q) \in Nat \ {0}
      /\ Head(q) \in S /\ Head(q) = q[1] /\ 1 \in DOMAIN q
  OBVIOUS
<1>2. \A j \in DOMAIN Tail(q) : j \in Nat \ {0} /\ j + 1 \in DOMAIN q /\ Tail(q)[j] = q[j + 1]
  OBVIOUS
<1>3. \A r : \A j \in At(r, Tail(q)) : j \in Nat \ {0} /\ j + 1 \in At(r, q)
  BY <1>2 DEF At
<1>. QED  BY <1>1, <1>2, <1>3

\* The elements of a queue with one more at its end.
LEMMA AppendAt ==
    ASSUME NEW S, NEW q \in Seq(S), NEW m \in S
    PROVE  /\ Append(q, m) \in Seq(S) /\ Len(Append(q, m)) = Len(q) + 1 /\ Len(q) \in Nat
           /\ DOMAIN Append(q, m) = DOMAIN q \cup {Len(q) + 1} /\ DOMAIN q = 1..Len(q)
           /\ \A j \in DOMAIN q : Append(q, m)[j] = q[j]
           /\ Append(q, m)[Len(q) + 1] = m
           /\ \A r : \A j \in At(r, Append(q, m)) :
                 j \in At(r, q) \/ (j = Len(q) + 1 /\ IsSegmentOf(m, r))
<1>1. /\ Append(q, m) \in Seq(S) /\ Len(Append(q, m)) = Len(q) + 1 /\ Len(q) \in Nat
      /\ DOMAIN Append(q, m) = DOMAIN q \cup {Len(q) + 1} /\ DOMAIN q = 1..Len(q)
      /\ \A j \in DOMAIN q : Append(q, m)[j] = q[j]
      /\ Append(q, m)[Len(q) + 1] = m
  OBVIOUS
<1>2. \A r : \A j \in At(r, Append(q, m)) :
         j \in At(r, q) \/ (j = Len(q) + 1 /\ IsSegmentOf(m, r))
  BY <1>1 DEF At, IsSegmentOf
<1>. QED  BY <1>1, <1>2

\* The renditions are as many as their list is long.
LEMMA RenditionCount ==
    /\ RenditionList \in Seq(STRING) /\ Len(RenditionList) \in Nat \ {0}
    /\ DOMAIN RenditionList = 1..Len(RenditionList)
    /\ \A i, j \in DOMAIN RenditionList : RenditionList[i] = RenditionList[j] => i = j
    /\ \A i \in DOMAIN RenditionList : RenditionList[i] \in Renditions
    /\ IsFiniteSet(Renditions) /\ Cardinality(Renditions) = Len(RenditionList)
    /\ Renditions # {}
<1>1. /\ RenditionList \in Seq(STRING) /\ Len(RenditionList) \in Nat \ {0}
      /\ DOMAIN RenditionList = 1..Len(RenditionList)
  BY LivePipelineAssumption
<1>2. \A i, j \in DOMAIN RenditionList : RenditionList[i] = RenditionList[j] => i = j
  BY LivePipelineAssumption DEF IsInjective
<1>3. \A i \in DOMAIN RenditionList : RenditionList[i] \in Renditions
  BY DEF Renditions
<1>4. RenditionList \in Surjection(1..Len(RenditionList), Renditions)
  <2>1. RenditionList \in [1..Len(RenditionList) -> Renditions]
    BY <1>1, <1>3
  <2>. QED  BY <1>1, <2>1 DEF Surjection, Renditions
<1>5. RenditionList \in Injection(1..Len(RenditionList), Renditions)
  BY <1>1, <1>2, <1>4 DEF Injection, Surjection, IsInjective
<1>6. IsFiniteSet(1..Len(RenditionList)) /\ Cardinality(1..Len(RenditionList)) = Len(RenditionList)
  <2>1. \A n \in Nat : IsFiniteSet(1..n) /\ Cardinality(1..n) = n
    BY FS_Interval
  <2>. QED  BY <1>1, <2>1
<1>7. IsFiniteSet(Renditions) /\ Cardinality(Renditions) = Len(RenditionList)
  BY <1>4, <1>5, <1>6, FS_Surjection
<1>8. Renditions # {}
  BY <1>1, <1>3
<1>. QED  BY <1>1, <1>2, <1>3, <1>7, <1>8

\* What the accumulators emit is a segment per rendition that emits one.
LEMMA Emission ==
    ASSUME NEW out,
           \A r \in Renditions : out[r] # <<>> => out[r][1].seq \in Nat /\ out[r][1].last \in BOOLEAN
    PROVE  LET q == ByPosition(out)
           IN  /\ DOMAIN q \subseteq DOMAIN RenditionList
               /\ \A i \in DOMAIN q :
                     /\ q[i] \in Segments /\ q[i].rendition = RenditionList[i]
                     /\ out[RenditionList[i]] # <<>>
                     /\ q[i].last = out[RenditionList[i]][1].last
               /\ \A r \in Renditions :
                     /\ out[r] = <<>> => At(r, q) = {}
                     /\ out[r] # <<>> =>
                           \E p \in DOMAIN q : At(r, q) = {p} /\ q[p].seq = out[r][1].seq
<1>. DEFINE q == ByPosition(out)
            D == {j \in DOMAIN RenditionList : out[RenditionList[j]] # <<>>}
<1>1. /\ DOMAIN q = D
      /\ \A i \in D : q[i] = Segment(RenditionList[i], out[RenditionList[i]][1].seq,
                                     out[RenditionList[i]][1].last)
  BY DEF ByPosition
<1>2. \A i \in D : /\ q[i].kind = "segment" /\ q[i].rendition = RenditionList[i]
                   /\ q[i].seq = out[RenditionList[i]][1].seq
                   /\ q[i].last = out[RenditionList[i]][1].last
                   /\ q[i] \in Segments
  <2>. HIDE DEF q
  <2>. TAKE i \in D
  <2>. DEFINE o == out[RenditionList[i]][1]
  <2>1. RenditionList[i] \in Renditions
    BY RenditionCount
  <2>2. o.seq \in Nat /\ o.last \in BOOLEAN
    BY <2>1
  <2>3. q[i] = Segment(RenditionList[i], o.seq, o.last)
    BY <1>1
  <2>. HIDE DEF o
  <2>. QED  BY <2>1, <2>2, <2>3 DEF Segment, Segments, o
<1>. HIDE DEF q
<1>3. ASSUME NEW r \in Renditions
      PROVE  /\ out[r] = <<>> => At(r, q) = {}
             /\ out[r] # <<>> => \E p \in DOMAIN q : At(r, q) = {p} /\ q[p].seq = out[r][1].seq
  <2>1. PICK p \in DOMAIN RenditionList : RenditionList[p] = r
    BY DEF Renditions
  <2>2. \A i \in D : RenditionList[i] = r => i = p
    BY <2>1, RenditionCount
  <2>3. At(r, q) = {i \in D : RenditionList[i] = r}
    BY <1>1, <1>2 DEF At
  <2>4. CASE out[r] = <<>>
    BY <2>1, <2>3, <2>4
  <2>5. CASE out[r] # <<>>
    <3>1. p \in D
      BY <2>1, <2>5
    <3>2. At(r, q) = {p}
      BY <2>1, <2>2, <2>3, <3>1
    <3>. QED  BY <1>1, <1>2, <2>1, <2>5, <3>1, <3>2
  <2>. QED  BY <2>4, <2>5
<1>4. DOMAIN q \subseteq DOMAIN RenditionList
  BY <1>1
<1>5. \A i \in DOMAIN q : /\ q[i] \in Segments /\ q[i].rendition = RenditionList[i]
                          /\ out[RenditionList[i]] # <<>>
                          /\ q[i].last = out[RenditionList[i]][1].last
  BY <1>1, <1>2
<1>. QED  BY <1>3, <1>4, <1>5, Zenon DEF q

\* The emitted segments that are still with the transcoder.
LEMMA UnsentAt ==
    ASSUME Types
    PROVE  /\ \A i \in Unsent : txOut[i].rendition \in Renditions
                                /\ At(txOut[i].rendition, txOut) = {i}
           /\ \A r : At(r, txOut) \subseteq Unsent /\ IsFiniteSet(At(r, txOut))
                     /\ Count(r, txOut) \in Nat
           /\ \A r : \A i \in At(r, txOut) : txOut[i].rendition = r
<1>1. \A i \in Unsent : /\ txOut[i].kind = "segment" /\ txOut[i].rendition = RenditionList[i]
                        /\ i \in DOMAIN RenditionList
  BY DEF Types, Segments
<1>2. \A i \in Unsent : txOut[i].rendition \in Renditions
                        /\ At(txOut[i].rendition, txOut) = {i}
  BY <1>1, RenditionCount DEF At, Unsent
<1>3. \A r : At(r, txOut) \subseteq Unsent
  BY DEF At, Unsent
<1>4. IsFiniteSet(DOMAIN RenditionList)
  <2>1. \A n \in Nat : IsFiniteSet(1..n)
    BY FS_Interval
  <2>. QED  BY <2>1, RenditionCount
<1>5. \A r : At(r, txOut) \subseteq DOMAIN RenditionList
  BY <1>1, <1>3
<1>6. \A r : IsFiniteSet(At(r, txOut))
  BY <1>4, <1>5, FS_Subset
<1>7. \A r : Count(r, txOut) \in Nat
  BY <1>6, FS_CardinalityType DEF Count
<1>. QED  BY <1>2, <1>3, <1>6, <1>7 DEF At

-----------------------------------------------------------------------------
(* Types.                                                                  *)

\* The invariant holds before the connection starts.
LEMMA InitInv == Init => Inv
<1>. SUFFICES ASSUME Init  PROVE Inv
  OBVIOUS
<1>. USE DEF Init
<1>1. \A r : At(r, ingest) = {} /\ At(r, txOut) = {} /\ At(r, segments) = {} /\ At(r, pkOut) = {}
             /\ At(r, writes) = {} /\ At(r, batch) = {}
  BY DEF At
<1>2. Types
  <2>1. TypeOK
    BY LivePipelineAssumption DEF TypeOK
  <2>2. \A r \in Renditions : /\ DOMAIN acc[r] = {"start", "last", "video", "audio", "next"}
                              /\ acc[r].next \in Nat
    BY DEF NewAccumulator
  <2>3. index \in [Renditions -> [segments : Seq(Nat), next : Nat]]
    BY DEF NewIndex
  <2>. QED  BY <2>1, <2>2, <2>3 DEF Types, Unsent
<1>3. Phases
  BY DEF Phases
<1>4. Finality
  BY <1>1 DEF Finality, LastUnsent, LastQueued, CompleteSaid, CompleteReported, CompleteRecorded,
              Unsent
<1>5. ASSUME NEW r \in Renditions
      PROVE  Landed(r) = {} /\ Executing(r) = {} /\ acc[r].next = 0
  BY <1>1 DEF Landed, Stored, Abandoned, Executing, NewAccumulator
<1>6. Countable
  BY <1>5, FS_EmptySet DEF Countable
<1>7. SegmentsConserved
  <2>. SUFFICES ASSUME NEW r \in Renditions
       PROVE  LET settled == Landed(r) \cup Executing(r)
                  atWrites == Cardinality(settled)
                  atPackager == atWrites + Count(r, writes)
                  atSegments == atPackager + Count(r, pkOut)
                  atTranscoder == atSegments + Count(r, segments)
              IN  /\ settled = 0..(atWrites - 1)
                  /\ Landed(r) \cap Executing(r) = {}
                  /\ \A i, j \in At(r, batch) : batch[i].seq = batch[j].seq => i = j
                  /\ Numbered(r, writes, atWrites)
                  /\ Numbered(r, pkOut, atPackager)
                  /\ Numbered(r, segments, atSegments)
                  /\ Numbered(r, txOut, atTranscoder)
                  /\ tx # "failed" => atTranscoder + Count(r, txOut) = acc[r].next
    BY DEF SegmentsConserved
  <2>1. \A q : At(r, q) = {} => Count(r, q) = 0 /\ \A n : Numbered(r, q, n)
    BY CountEmpty
  <2>2. Landed(r) \cup Executing(r) = {} /\ Cardinality(Landed(r) \cup Executing(r)) = 0
    BY <1>5, FS_EmptySet
  <2>3. 0..(0 - 1) = {}
    OBVIOUS
  <2>4. /\ Count(r, writes) = 0 /\ Count(r, pkOut) = 0 /\ Count(r, segments) = 0
        /\ Count(r, txOut) = 0
        /\ \A n : Numbered(r, writes, n) /\ Numbered(r, pkOut, n) /\ Numbered(r, segments, n)
                  /\ Numbered(r, txOut, n)
    BY <1>1, <2>1
  <2>. QED  BY <1>1, <1>5, <2>2, <2>3, <2>4
<1>. QED  BY <1>2, <1>3, <1>4, <1>6, <1>7 DEF Inv

\* A step of the connection keeps the types.
LEMMA ConnectionTypes ==
    ASSUME Types, Phases, Connection
    PROVE  Types'
<1>1. CASE StartStream
  <2>1. Event("StreamStarted") \in Events
    BY DEF Event, Events
  <2>2. events' \in Seq(Events) /\ Len(events') <= EventCap
    BY <1>1, <2>1, LivePipelineAssumption DEF StartStream, Types, TypeOK
  <2>. QED  BY <1>1, <2>2 DEF StartStream, Types, TypeOK, Phases, Unsent
<1>2. CASE \E k \in Kinds : SendFrame(k)
  <2>1. PICK k \in Kinds : SendFrame(k)
    BY <1>2
  <2>2. sent' \in 0..MaxFrames
    BY <2>1, LivePipelineAssumption DEF SendFrame, Types, TypeOK
  <2>3. [pts |-> sent, key |-> k = "key", audio |-> k = "audio"] \in Packets
    BY DEF Packets, Types, TypeOK
  <2>4. ingest' \in Seq(Packets) /\ Len(ingest') <= IngestCap
    BY <2>1, <2>3, LivePipelineAssumption DEF SendFrame, Types, TypeOK
  <2>. QED
    BY <2>1, <2>2, <2>4
    DEF SendFrame, Types, TypeOK, txVars, pkVars, wrVars, Unsent
<1>3. CASE StopDemux
  BY <1>3 DEF StopDemux, Types, TypeOK, txVars, pkVars, wrVars, Unsent
<1>4. CASE FailDemux
  BY <1>4 DEF FailDemux, Types, TypeOK, txVars, pkVars, wrVars, Unsent
<1>5. CASE ReportEnd
  <2>1. Event(IF conn = "ended" THEN "StreamEnded" ELSE "StreamError") \in Events
    BY DEF Event, Events
  <2>2. events' \in Seq(Events) /\ Len(events') <= EventCap
    BY <1>5, <2>1, LivePipelineAssumption DEF ReportEnd, Types, TypeOK
  <2>. QED  BY <1>5, <2>2 DEF ReportEnd, Types, TypeOK, txVars, pkVars, wrVars, Unsent
<1>. QED  BY <1>1, <1>2, <1>3, <1>4, <1>5 DEF Connection

\* A step of the transcoder keeps the types, and says what the accumulators
\* have emitted.
LEMMA FrameEmits ==
    ASSUME Types, TranscodeFrame
    PROVE  /\ DOMAIN acc' = Renditions
           /\ \A r \in Renditions :
                 /\ DOMAIN acc'[r] = {"start", "last", "video", "audio", "next"}
                 /\ acc'[r].next \in Nat
                 /\ \/ At(r, txOut') = {} /\ acc'[r].next = acc[r].next
                    \/ /\ \E p \in DOMAIN txOut' : At(r, txOut') = {p} /\ txOut'[p].seq = acc[r].next
                       /\ acc'[r].next = acc[r].next + 1
           /\ DOMAIN txOut' \subseteq DOMAIN RenditionList
           /\ \A i \in DOMAIN txOut' :
                 txOut'[i] \in Segments /\ txOut'[i].rendition = RenditionList[i] /\ ~txOut'[i].last
<1>. DEFINE p == Head(ingest)
            out == [r \in Renditions |-> Push(acc[r], p).out]
<1>1. /\ acc' = [r \in Renditions |-> Push(acc[r], p).acc]
      /\ txOut' = ByPosition(out)
  BY DEF TranscodeFrame
<1>2. \A r \in Renditions :
         /\ DOMAIN acc[r] = {"start", "last", "video", "audio", "next"}
         /\ acc[r].next \in Nat
  BY DEF Types
<1>3. \A r \in Renditions :
         /\ DOMAIN Push(acc[r], p).acc = {"start", "last", "video", "audio", "next"}
         /\ Push(acc[r], p).acc.next = IF out[r] = <<>> THEN acc[r].next ELSE acc[r].next + 1
         /\ out[r] # <<>> => out[r][1].seq = acc[r].next /\ out[r][1].last = FALSE
  BY <1>2, PushEffect
<1>. HIDE DEF p, out
<1>4. /\ DOMAIN txOut' \subseteq DOMAIN RenditionList
      /\ \A i \in DOMAIN txOut' :
            /\ txOut'[i] \in Segments /\ txOut'[i].rendition = RenditionList[i]
            /\ out[RenditionList[i]] # <<>>
            /\ txOut'[i].last = out[RenditionList[i]][1].last
      /\ \A r \in Renditions :
            /\ out[r] = <<>> => At(r, txOut') = {}
            /\ out[r] # <<>> =>
                  \E x \in DOMAIN txOut' : At(r, txOut') = {x} /\ txOut'[x].seq = out[r][1].seq
  <2>1. \A r \in Renditions : out[r] # <<>> => out[r][1].seq \in Nat /\ out[r][1].last \in BOOLEAN
    BY <1>2, <1>3
  <2>. QED  BY <1>1, <2>1, Emission
<1>5. \A i \in DOMAIN txOut' : ~txOut'[i].last
  BY <1>3, <1>4, RenditionCount
<1>6. ASSUME NEW r \in Renditions
      PROVE  /\ DOMAIN acc'[r] = {"start", "last", "video", "audio", "next"}
             /\ acc'[r].next \in Nat
             /\ \/ At(r, txOut') = {} /\ acc'[r].next = acc[r].next
                \/ /\ \E x \in DOMAIN txOut' : At(r, txOut') = {x} /\ txOut'[x].seq = acc[r].next
                   /\ acc'[r].next = acc[r].next + 1
  <2>1. acc'[r] = Push(acc[r], p).acc
    BY <1>1
  <2>2. CASE out[r] = <<>>
    <3>1. At(r, txOut') = {}
      BY <1>4, <2>2
    <3>. QED  BY <1>2, <1>3, <2>1, <2>2, <3>1
  <2>3. CASE out[r] # <<>>
    <3>1. /\ DOMAIN acc'[r] = {"start", "last", "video", "audio", "next"}
          /\ acc'[r].next = acc[r].next + 1 /\ out[r][1].seq = acc[r].next
      BY <1>3, <2>1, <2>3
    <3>2. \E x \in DOMAIN txOut' : At(r, txOut') = {x} /\ txOut'[x].seq = acc[r].next
      BY <1>4, <2>3, <3>1
    <3>. QED  BY <1>2, <3>1, <3>2
  <2>. QED  BY <2>2, <2>3
<1>. QED  BY <1>1, <1>4, <1>5, <1>6

\* The same for the final flush.
LEMMA FlushEmits ==
    ASSUME Types, FlushTranscoder
    PROVE  /\ DOMAIN acc' = Renditions
           /\ \A r \in Renditions :
                 /\ DOMAIN acc'[r] = {"start", "last", "video", "audio", "next"}
                 /\ acc'[r].next \in Nat
                 /\ \/ At(r, txOut') = {} /\ acc'[r].next = acc[r].next
                    \/ /\ \E p \in DOMAIN txOut' : At(r, txOut') = {p} /\ txOut'[p].seq = acc[r].next
                       /\ acc'[r].next = acc[r].next + 1
           /\ DOMAIN txOut' \subseteq DOMAIN RenditionList
           /\ \A i \in DOMAIN txOut' :
                 txOut'[i] \in Segments /\ txOut'[i].rendition = RenditionList[i]
<1>. DEFINE out == [r \in Renditions |-> Flush(acc[r])]
<1>1. /\ DOMAIN acc' = Renditions
      /\ \A r \in Renditions : acc'[r] = IF out[r] = <<>> THEN acc[r] ELSE Reset(acc[r])
      /\ txOut' = ByPosition(out)
  BY DEF FlushTranscoder
<1>2. \A r \in Renditions :
         /\ DOMAIN acc[r] = {"start", "last", "video", "audio", "next"}
         /\ acc[r].next \in Nat
  BY DEF Types
<1>3. \A r \in Renditions :
         /\ DOMAIN Reset(acc[r]) = {"start", "last", "video", "audio", "next"}
         /\ Reset(acc[r]).next = acc[r].next + 1
         /\ out[r] # <<>> => out[r][1].seq = acc[r].next /\ out[r][1].last = TRUE
  BY <1>2, FlushEffect
<1>. HIDE DEF out
<1>4. /\ DOMAIN txOut' \subseteq DOMAIN RenditionList
      /\ \A i \in DOMAIN txOut' :
            /\ txOut'[i] \in Segments /\ txOut'[i].rendition = RenditionList[i]
            /\ out[RenditionList[i]] # <<>>
            /\ txOut'[i].last = out[RenditionList[i]][1].last
      /\ \A r \in Renditions :
            /\ out[r] = <<>> => At(r, txOut') = {}
            /\ out[r] # <<>> =>
                  \E x \in DOMAIN txOut' : At(r, txOut') = {x} /\ txOut'[x].seq = out[r][1].seq
  <2>1. \A r \in Renditions : out[r] # <<>> => out[r][1].seq \in Nat /\ out[r][1].last \in BOOLEAN
    BY <1>2, <1>3
  <2>. QED  BY <1>1, <2>1, Emission
<1>5. ASSUME NEW r \in Renditions
      PROVE  /\ DOMAIN acc'[r] = {"start", "last", "video", "audio", "next"}
             /\ acc'[r].next \in Nat
             /\ \/ At(r, txOut') = {} /\ acc'[r].next = acc[r].next
                \/ /\ \E x \in DOMAIN txOut' : At(r, txOut') = {x} /\ txOut'[x].seq = acc[r].next
                   /\ acc'[r].next = acc[r].next + 1
  <2>1. CASE out[r] = <<>>
    BY <1>1, <1>2, <1>4, <2>1
  <2>2. CASE out[r] # <<>>
    BY <1>1, <1>2, <1>3, <1>4, <2>2
  <2>. QED  BY <2>1, <2>2
<1>. QED  BY <1>1, <1>4, <1>5

\* A step of the transcoder keeps the types.
LEMMA TranscoderTypes ==
    ASSUME Types, Transcoder
    PROVE  Types'
<1>. USE DEF connVars, pkVars, wrVars
<1>1. CASE SetExpected
  <2>1. /\ DOMAIN rec' = DOMAIN rec
        /\ rec'.state = rec.state /\ rec'.known = rec.known /\ rec'.complete = rec.complete
        /\ rec'.expected = Len(RenditionList)
    BY <1>1 DEF SetExpected, Types
  <2>. QED  BY <1>1, <2>1 DEF SetExpected, Types, TypeOK, Unsent
<1>2. CASE TranscodeFrame
  <2>1. ingest' \in Seq(Packets) /\ Len(ingest') <= IngestCap
    BY <1>2, LivePipelineAssumption DEF TranscodeFrame, Types, TypeOK
  <2>2. TypeOK'
    BY <1>2, <2>1 DEF TranscodeFrame, Types, TypeOK
  <2>. QED  BY <1>2, <2>1, <2>2, FrameEmits DEF TranscodeFrame, Types, Unsent
<1>3. CASE FlushTranscoder
  <2>1. TypeOK'
    BY <1>3 DEF FlushTranscoder, Types, TypeOK
  <2>. QED  BY <1>3, <2>1, FlushEmits DEF FlushTranscoder, Types, Unsent
<1>4. CASE SendSegment
  <2>1. PICK i \in Unsent : /\ segments' = Append(segments, txOut[i])
                            /\ txOut' = [j \in Unsent \ {i} |-> txOut[j]]
    BY <1>4 DEF SendSegment
  <2>2. txOut[i] \in Segments
    BY <2>1 DEF Types
  <2>3. segments' \in Seq(Segments) /\ Len(segments') <= SegmentCap
    BY <1>4, <2>1, <2>2, LivePipelineAssumption DEF SendSegment, Types, TypeOK
  <2>4. TypeOK'
    BY <1>4, <2>3 DEF SendSegment, Types, TypeOK
  <2>5. /\ Unsent' = Unsent \ {i} /\ \A j \in Unsent' : txOut'[j] = txOut[j]
    BY <2>1 DEF Unsent
  <2>. QED  BY <1>4, <2>4, <2>5 DEF SendSegment, Types
<1>5. CASE EndTranscoder
  BY <1>5 DEF EndTranscoder, Types, TypeOK, Unsent
<1>6. CASE FailTranscoder
  <2>1. Unsent' = {}
    BY <1>6 DEF FailTranscoder, Unsent
  <2>2. ingest' \in Seq(Packets) /\ Len(ingest') = 0
    BY <1>6 DEF FailTranscoder
  <2>3. TypeOK'
    BY <1>6, <2>2, LivePipelineAssumption DEF FailTranscoder, Types, TypeOK
  <2>. QED  BY <1>6, <2>1, <2>2, <2>3 DEF FailTranscoder, Types
<1>. QED  BY <1>1, <1>2, <1>3, <1>4, <1>5, <1>6 DEF Transcoder

\* A step of the packager keeps the types.
LEMMA PackagerTypes ==
    ASSUME Types, Packager
    PROVE  Types'
<1>. USE DEF connVars, txVars, wrVars
<1>1. CASE PackageSegment
  <2>. DEFINE seg == Head(segments)
  <2>1. segments \in Seq(Segments) /\ segments # <<>>
    BY <1>1 DEF PackageSegment, Types, TypeOK
  <2>2. /\ seg \in Segments /\ Tail(segments) \in Seq(Segments)
        /\ Len(Tail(segments)) = Len(segments) - 1 /\ Len(segments) \in Nat
    BY <2>1, TailAt
  <2>3. seg.rendition \in Renditions
    BY <2>2 DEF Segments
  <2>4. Messages(seg) \in Seq(Writes \cup Events)
    BY <2>2, MessagesEffect
  <2>5. /\ segments' = Tail(segments) /\ pkOut' = Messages(seg)
        /\ index' = [index EXCEPT ![seg.rendition] = AddSegment(@)]
        /\ inits' = inits \cup {seg.rendition}
    BY <1>1 DEF PackageSegment
  <2>. HIDE DEF seg
  <2>6. Len(segments') <= SegmentCap
    <3>1. Len(segments) <= SegmentCap /\ SegmentCap \in Nat
      BY LivePipelineAssumption DEF Types, TypeOK
    <3>. QED  BY <2>2, <2>5, <3>1
  <2>7. index' \in [Renditions -> [segments : Seq(Nat), next : Nat]]
    <3>1. index \in [Renditions -> [segments : Seq(Nat), next : Nat]]
      BY DEF Types
    <3>2. AddSegment(index[seg.rendition]) \in [segments : Seq(Nat), next : Nat]
      <4>1. index[seg.rendition] \in [segments : Seq(Nat), next : Nat] /\ TRUE \in BOOLEAN
        BY <2>3, <3>1
      <4>. QED  BY <4>1, PlaylistType
    <3>. QED  BY <2>3, <2>5, <3>1, <3>2
  <2>8. TypeOK'
    BY <1>1, <2>2, <2>3, <2>4, <2>5, <2>6 DEF PackageSegment, Types, TypeOK
  <2>. QED  BY <1>1, <2>7, <2>8 DEF PackageSegment, Types, Unsent
<1>2. CASE SendMessage
  <2>1. pkOut \in Seq(Writes \cup Events) /\ pkOut # <<>>
    BY <1>2 DEF SendMessage, Types, TypeOK
  <2>2. Head(pkOut) \in Writes \cup Events /\ Tail(pkOut) \in Seq(Writes \cup Events)
    BY <2>1, TailAt
  <2>3. /\ Head(pkOut).to = "store" => Head(pkOut) \in Writes
        /\ Head(pkOut).to = "control" => Head(pkOut) \in Events
    <3>1. \A m \in Writes : m.to = "store"
      BY WriteKinds
    <3>2. \A m \in Events : m.to = "control"
      BY EventKinds
    <3>. QED  BY <2>2, <3>1, <3>2
  <2>4. /\ writes' \in Seq(Writes) /\ Len(writes') <= StorageCap
        /\ events' \in Seq(Events) /\ Len(events') <= EventCap
    <3>1. CASE Head(pkOut).to = "store" /\ Len(writes) < StorageCap
               /\ writes' = Append(writes, Head(pkOut)) /\ UNCHANGED events
      BY <2>3, <3>1, LivePipelineAssumption DEF Types, TypeOK
    <3>2. CASE Head(pkOut).to = "control" /\ Len(events) < EventCap
               /\ events' = Append(events, Head(pkOut)) /\ UNCHANGED writes
      BY <2>3, <3>2, LivePipelineAssumption DEF Types, TypeOK
    <3>. QED  BY <1>2, <3>1, <3>2 DEF SendMessage
  <2>5. TypeOK'
    BY <1>2, <2>2, <2>4 DEF SendMessage, Types, TypeOK
  <2>. QED  BY <1>2, <2>5 DEF SendMessage, Types, Unsent
<1>3. CASE FinishPackager
  <2>1. pkOut' \in Seq(Writes \cup Events)
    <3>1. MasterWrite(inits) \in Writes
      BY DEF MasterWrite, Writes, Types, TypeOK
    <3>2. \A m \in Writes : <<m>> \in Seq(Writes \cup Events)
      OBVIOUS
    <3>3. <<MasterWrite(inits)>> \in Seq(Writes \cup Events) /\ <<>> \in Seq(Writes \cup Events)
      BY <3>1, <3>2
    <3>4. pkOut' = <<>> \/ pkOut' = <<MasterWrite(inits)>>
      BY <1>3 DEF FinishPackager
    <3>. QED  BY <3>3, <3>4
  <2>2. TypeOK'
    BY <1>3, <2>1 DEF FinishPackager, Types, TypeOK
  <2>. QED  BY <1>3, <2>2 DEF FinishPackager, Types, Unsent
<1>4. CASE EndPackager
  BY <1>4 DEF EndPackager, Types, TypeOK, Unsent
<1>. QED  BY <1>1, <1>2, <1>3, <1>4 DEF Packager

\* A step of the writer keeps the types.
LEMMA WriterTypes ==
    ASSUME Types, Writer
    PROVE  Types'
<1>. USE DEF connVars, txVars, pkVars
<1>1. CASE ReceiveWrite \/ DrainWrite
  <2>1. writes \in Seq(Writes) /\ writes # <<>>
    BY <1>1 DEF ReceiveWrite, DrainWrite, Types, TypeOK
  <2>2. /\ Head(writes) \in Writes /\ Tail(writes) \in Seq(Writes)
        /\ Len(Tail(writes)) = Len(writes) - 1 /\ Len(writes) \in Nat
    BY <2>1, TailAt
  <2>3. Len(Tail(writes)) <= StorageCap
    <3>1. Len(writes) <= StorageCap /\ StorageCap \in Nat
      BY LivePipelineAssumption DEF Types, TypeOK
    <3>. QED  BY <2>2, <3>1
  <2>4. batch' \in Seq(Writes) /\ wr' = "drain" /\ writes' = Tail(writes)
    <3>1. \A m \in Writes : <<m>> \in Seq(Writes)
      OBVIOUS
    <3>2. <<Head(writes)>> \in Seq(Writes)
      BY <2>2, <3>1
    <3>3. batch \in Seq(Writes)
      BY DEF Types, TypeOK
    <3>4. Append(batch, Head(writes)) \in Seq(Writes)
      BY <2>2, <3>3
    <3>5. batch' = <<Head(writes)>> \/ batch' = Append(batch, Head(writes))
      BY <1>1 DEF ReceiveWrite, DrainWrite
    <3>6. wr' = "drain" /\ writes' = Tail(writes)
      BY <1>1 DEF ReceiveWrite, DrainWrite
    <3>. QED  BY <3>2, <3>4, <3>5, <3>6
  <2>5. TypeOK'
    BY <1>1, <2>2, <2>3, <2>4 DEF ReceiveWrite, DrainWrite, Types, TypeOK
  <2>. QED  BY <1>1, <2>4, <2>5 DEF ReceiveWrite, DrainWrite, Types, Unsent
<1>2. CASE ExecuteBatch
  BY <1>2 DEF ExecuteBatch, Types, TypeOK, Unsent
<1>3. CASE NextBatch
  BY <1>3 DEF NextBatch, Types, TypeOK, Unsent
<1>4. CASE EndWriter
  BY <1>4 DEF EndWriter, Types, TypeOK, Unsent
<1>5. ASSUME NEW i \in DOMAIN batch, PutObject(i) \/ AbandonObject(i)
      PROVE  Types'
  <2>1. batch' \in Seq(Writes) /\ wr' = "exec"
    <3>1. batch \in Seq(Writes)
      BY DEF Types, TypeOK
    <3>2. RemoveAt(batch, i) \in Seq(Writes)
      BY <3>1, RemoveAtEffect
    <3>. QED  BY <1>5, <3>2 DEF PutObject, AbandonObject
  <2>2. DOMAIN store' = {"inits", "segments", "master", "playlists"}
    <3>1. batch[i].kind \in {"init", "segment", "playlist", "master"}
      BY WriteKinds DEF Types, TypeOK
    <3>2. DOMAIN store = {"inits", "segments", "master", "playlists"}
      BY DEF Types
    <3>3. DOMAIN AfterPut(batch[i]) = DOMAIN store
      <4>. DEFINE w == batch[i]
      <4>1. w.kind \in {"init", "segment", "playlist", "master"}
        BY <3>1
      <4>. HIDE DEF w
      <4>2. DOMAIN AfterPut(w) = DOMAIN store
        BY <4>1 DEF AfterPut
      <4>. QED  BY <4>2 DEF w
    <3>4. store' = AfterPut(batch[i]) \/ store' = store
      BY <1>5 DEF PutObject, AbandonObject
    <3>. QED  BY <3>2, <3>3, <3>4
  <2>3. TypeOK'
    BY <1>5, <2>1 DEF PutObject, AbandonObject, Types, TypeOK
  <2>. QED  BY <1>5, <2>1, <2>2, <2>3 DEF PutObject, AbandonObject, Types, Unsent
<1>. QED  BY <1>1, <1>2, <1>3, <1>4, <1>5 DEF Writer

\* What handling the first event does to the record.
LEMMA HandleEffect ==
    ASSUME Types, HandleEvent
    PROVE  LET e == Head(events)
           IN  /\ e \in Events /\ events # <<>> /\ events' = Tail(events)
               /\ DOMAIN rec' = DOMAIN rec /\ rec'.expected = rec.expected
               /\ rec'.known \subseteq Renditions
               /\ rec'.complete \subseteq rec'.known
               /\ rec.complete \subseteq rec'.complete
               /\ rec'.complete # rec.complete =>
                     e.kind = "RenditionComplete" /\ rec'.complete = rec.complete \cup {e.rendition}
               /\ \/ rec'.state = rec.state
                  \/ rec'.state \in {"Live", "Error"}
                  \/ rec'.state = "Processing" /\ e.kind = "StreamEnded"
                  \/ /\ rec'.state = "Ready" /\ rec.state = "Processing" /\ rec.expected > 0
                     /\ Cardinality(rec'.complete) >= rec.expected
<1>. DEFINE e == Head(events)
<1>1. events \in Seq(Events) /\ events # <<>> /\ events' = Tail(events)
  <2>1. events # <<>> /\ events' = Tail(events)
    BY DEF HandleEvent
  <2>. QED  BY <2>1 DEF Types, TypeOK
<1>2. e \in Events
  BY <1>1, TailAt
<1>3. /\ e.kind \in {"StreamStarted", "StreamEnded", "StreamError",
                     "SegmentProduced", "RenditionComplete"}
      /\ e.kind \in {"SegmentProduced", "RenditionComplete"} => e.rendition \in Renditions
  BY <1>2, EventKinds
<1>4. /\ DOMAIN rec = {"state", "expected", "known", "complete"}
      /\ rec.known \subseteq Renditions /\ rec.complete \subseteq rec.known
  BY DEF Types, TypeOK
<1>5. /\ e.kind = "StreamStarted" => rec' = Transitioned("Pending", "Live")
      /\ e.kind = "StreamEnded" => rec' = Transitioned("Live", "Processing")
      /\ e.kind = "StreamError" => rec' = [rec EXCEPT !.state = "Error"]
      /\ e.kind = "SegmentProduced" => rec' = [rec EXCEPT !.known = @ \cup {e.rendition}]
      /\ e.kind = "RenditionComplete" => rec' = MarkComplete(e.rendition)
  BY DEF HandleEvent
<1>. HIDE DEF e
<1>6. CASE e.kind \in {"StreamStarted", "StreamEnded", "StreamError"}
  <2>1. /\ DOMAIN rec' = DOMAIN rec /\ rec'.expected = rec.expected
        /\ rec'.known = rec.known /\ rec'.complete = rec.complete
        /\ \/ rec'.state = rec.state
           \/ rec'.state \in {"Live", "Error"}
           \/ rec'.state = "Processing" /\ e.kind = "StreamEnded"
    BY <1>4, <1>5, <1>6 DEF Transitioned
  <2>. QED  BY <1>1, <1>2, <1>4, <2>1 DEF e
<1>7. CASE e.kind = "SegmentProduced"
  <2>1. /\ DOMAIN rec' = DOMAIN rec /\ rec'.expected = rec.expected
        /\ rec'.known = rec.known \cup {e.rendition} /\ rec'.complete = rec.complete
        /\ rec'.state = rec.state
    BY <1>4, <1>5, <1>7
  <2>. QED  BY <1>1, <1>2, <1>3, <1>4, <1>7, <2>1 DEF e
<1>8. CASE e.kind = "RenditionComplete"
  <2>. DEFINE done == rec.complete \cup ({e.rendition} \cap rec.known)
              full == rec.expected > 0 /\ Cardinality(done) >= rec.expected
  <2>1. /\ DOMAIN rec' = DOMAIN rec /\ rec'.expected = rec.expected
        /\ rec'.known = rec.known /\ rec'.complete = done
        /\ rec'.state = IF rec.state = "Processing" /\ full THEN "Ready" ELSE rec.state
    BY <1>4, <1>5, <1>8 DEF MarkComplete
  <2>2. done = rec.complete \/ done = rec.complete \cup {e.rendition}
    OBVIOUS
  <2>3. done \subseteq rec.known
    BY <1>4
  <2>4. rec'.state = rec.state \/ (rec'.state = "Ready" /\ rec.state = "Processing" /\ full)
    BY <2>1
  <2>. HIDE DEF done
  <2>. QED  BY <1>1, <1>2, <1>4, <1>8, <2>1, <2>2, <2>3, <2>4 DEF e
<1>. QED  BY <1>3, <1>6, <1>7, <1>8

\* Every step keeps the types.
LEMMA TypesStep ==
    ASSUME Types, Phases, [Next]_vars
    PROVE  Types'
<1>1. CASE HandleEvent
  <2>1. /\ DOMAIN rec' = DOMAIN rec /\ rec'.expected = rec.expected
        /\ rec'.known \subseteq Renditions /\ rec'.complete \subseteq rec'.known
        /\ \/ rec'.state = rec.state
           \/ rec'.state \in {"Live", "Error", "Processing", "Ready"}
    BY <1>1, HandleEffect
  <2>2. events \in Seq(Events) /\ events # <<>> /\ events' = Tail(events)
    <3>1. events # <<>> /\ events' = Tail(events)
      BY <1>1 DEF HandleEvent
    <3>. QED  BY <3>1 DEF Types, TypeOK
  <2>3. /\ events' \in Seq(Events) /\ Len(events') = Len(events) - 1 /\ Len(events) \in Nat
    BY <2>2, TailAt
  <2>4. Len(events') <= EventCap
    <3>1. Len(events) <= EventCap /\ EventCap \in Nat
      BY LivePipelineAssumption DEF Types, TypeOK
    <3>. QED  BY <2>3, <3>1
  <2>5. UNCHANGED <<connVars, txVars, segments, pkVars, writes, wrVars>>
    BY <1>1 DEF HandleEvent
  <2>6. TypeOK'
    BY <2>1, <2>3, <2>4, <2>5 DEF Types, TypeOK, connVars, txVars, pkVars, wrVars
  <2>. QED  BY <2>1, <2>5, <2>6 DEF Types, Unsent, connVars, txVars, pkVars, wrVars
<1>2. CASE UNCHANGED vars
  BY <1>2 DEF vars, connVars, txVars, pkVars, wrVars, Types, TypeOK, Unsent
<1>. QED
  BY <1>1, <1>2, ConnectionTypes, TranscoderTypes, PackagerTypes, WriterTypes DEF Next

-----------------------------------------------------------------------------
(* Phases.                                                                 *)

\* Every step keeps the order of the phases.
LEMMA PhasesStep ==
    ASSUME Types, Phases, [Next]_vars
    PROVE  Phases'
<1>. USE DEF connVars, txVars, pkVars, wrVars, IngestClosed
<1>1. CASE StartStream
  <2>1. \A i \in DOMAIN events' : events'[i].kind # "StreamEnded"
    <3>1. events \in Seq(Events) /\ Event("StreamStarted") \in Events
      BY DEF Types, TypeOK, Event, Events
    <3>2. /\ DOMAIN events' = DOMAIN events \cup {Len(events) + 1}
          /\ \A j \in DOMAIN events : events'[j] = events[j]
          /\ events'[Len(events) + 1] = Event("StreamStarted")
      BY <1>1, <3>1, AppendAt DEF StartStream
    <3>3. \A i \in DOMAIN events : events[i].kind # "StreamEnded"
      BY <1>1 DEF StartStream, Phases
    <3>. QED  BY <3>2, <3>3 DEF Event
  <2>2. /\ conn' = "demux" /\ tx' = "start" /\ UNCHANGED <<ingest, pkOut, rec>> /\ conn = "start"
    BY <1>1 DEF StartStream
  <2>. QED  BY <2>1, <2>2 DEF Phases
<1>2. CASE \E k \in Kinds : SendFrame(k)
  <2>1. PICK k \in Kinds : SendFrame(k)
    BY <1>2
  <2>. QED  BY <2>1 DEF SendFrame, Phases
<1>3. CASE StopDemux
  BY <1>3 DEF StopDemux, Phases
<1>4. CASE FailDemux
  BY <1>4 DEF FailDemux, Phases
<1>5. CASE ReportEnd
  <2>1. conn' = "done" /\ conn \in {"ended", "failed"} /\ UNCHANGED <<ingest, tx, pkOut, wr, rec>>
    BY <1>5 DEF ReportEnd
  <2>. QED  BY <2>1 DEF Phases
<1>6. CASE SetExpected
  <2>1. rec'.state = rec.state
    BY <1>6 DEF SetExpected, Types
  <2>2. tx' = "run" /\ tx = "start" /\ UNCHANGED <<conn, ingest, events, pkOut, wr>>
    BY <1>6 DEF SetExpected
  <2>. QED  BY <2>1, <2>2 DEF Phases
<1>7. CASE TranscodeFrame
  <2>1. tx' = "run" /\ tx = "run" /\ UNCHANGED <<conn, events, pkOut, wr, rec>>
    BY <1>7 DEF TranscodeFrame
  <2>. QED  BY <2>1 DEF Phases
<1>8. CASE FlushTranscoder
  <2>1. /\ tx' = "flush" /\ tx = "run" /\ IngestClosed /\ ingest = <<>>
        /\ UNCHANGED <<conn, ingest, events, pkOut, wr, rec>>
    BY <1>8 DEF FlushTranscoder
  <2>. QED  BY <2>1 DEF Phases
<1>9. CASE SendSegment
  <2>1. UNCHANGED <<conn, tx, ingest, events, pkOut, wr, rec>>
    BY <1>9 DEF SendSegment
  <2>. QED  BY <2>1 DEF Phases
<1>10. CASE EndTranscoder
  BY <1>10 DEF EndTranscoder, Phases
<1>11. CASE FailTranscoder
  BY <1>11 DEF FailTranscoder, Phases
<1>12. CASE PackageSegment
  <2>1. UNCHANGED <<conn, tx, ingest, events, wr, rec>> /\ segments # <<>>
        /\ pkOut' = Messages(Head(segments))
    BY <1>12 DEF PackageSegment
  <2>2. segments \in Seq(Segments)
    BY DEF Types, TypeOK
  <2>3. Head(segments) \in Segments
    BY <2>1, <2>2
  <2>4. \A i \in DOMAIN pkOut' : pkOut'[i].kind # "StreamEnded"
    BY <2>1, <2>3, MessagesEffect
  <2>. QED  BY <2>1, <2>4 DEF Phases
<1>13. CASE FinishPackager \/ EndPackager
  <2>1. UNCHANGED <<conn, tx, ingest, events, wr, rec>>
        /\ (pkOut' = <<>> \/ pkOut' = <<MasterWrite(inits)>>)
    BY <1>13 DEF FinishPackager, EndPackager
  <2>2. \A i \in DOMAIN pkOut' : pkOut'[i].kind # "StreamEnded"
    BY <2>1 DEF MasterWrite
  <2>. QED  BY <2>1, <2>2 DEF Phases
<1>14. CASE SendMessage
  <2>1. UNCHANGED <<conn, tx, ingest, wr, rec>> /\ pkOut' = Tail(pkOut) /\ pkOut # <<>>
    BY <1>14 DEF SendMessage
  <2>2. pkOut \in Seq(Writes \cup Events) /\ events \in Seq(Events)
    BY DEF Types, TypeOK
  <2>3. /\ Head(pkOut) = pkOut[1] /\ 1 \in DOMAIN pkOut
        /\ \A j \in DOMAIN pkOut' : j + 1 \in DOMAIN pkOut /\ pkOut'[j] = pkOut[j + 1]
        /\ Head(pkOut) \in Writes \cup Events
    BY <2>1, <2>2, TailAt
  <2>4. \A i \in DOMAIN pkOut' : pkOut'[i].kind # "StreamEnded"
    BY <2>3 DEF Phases
  <2>5. ASSUME events' # events
        PROVE  \A i \in DOMAIN events' : events'[i].kind = "StreamEnded" => conn = "done"
    <3>1. Head(pkOut).to = "control" /\ events' = Append(events, Head(pkOut))
      BY <1>14, <2>5 DEF SendMessage
    <3>2. Head(pkOut) \in Events
      <4>1. \A m \in Writes : m.to = "store"
        BY WriteKinds
      <4>. QED  BY <2>3, <3>1, <4>1
    <3>3. Head(pkOut).kind # "StreamEnded"
      BY <2>3 DEF Phases
    <3>4. /\ DOMAIN events' = DOMAIN events \cup {Len(events) + 1}
          /\ \A j \in DOMAIN events : events'[j] = events[j]
          /\ events'[Len(events) + 1] = Head(pkOut)
      BY <2>2, <3>1, <3>2, AppendAt
    <3>. QED  BY <3>3, <3>4 DEF Phases
  <2>. QED  BY <2>1, <2>4, <2>5 DEF Phases
<1>15. CASE Writer
  <2>1. UNCHANGED <<conn, tx, ingest, events, pkOut, rec>> /\ wr # "off"
    BY <1>15 DEF Writer, ReceiveWrite, DrainWrite, ExecuteBatch, PutObject, AbandonObject,
                 NextBatch, EndWriter
  <2>. QED  BY <2>1 DEF Phases
<1>16. CASE HandleEvent
  <2>1. UNCHANGED <<conn, tx, ingest, wr, pkOut>>
    BY <1>16 DEF HandleEvent
  <2>2. events \in Seq(Events) /\ events # <<>> /\ events' = Tail(events)
    <3>1. events # <<>> /\ events' = Tail(events)
      BY <1>16 DEF HandleEvent
    <3>. QED  BY <3>1 DEF Types, TypeOK
  <2>3. /\ Head(events) = events[1] /\ 1 \in DOMAIN events
        /\ \A j \in DOMAIN events' : j + 1 \in DOMAIN events /\ events'[j] = events[j + 1]
    BY <2>2, TailAt
  <2>4. rec'.state \in {"Processing", "Ready"} =>
           rec.state \in {"Processing", "Ready"} \/ Head(events).kind = "StreamEnded"
    BY <1>16, HandleEffect
  <2>. QED  BY <2>1, <2>3, <2>4 DEF Phases
<1>17. CASE UNCHANGED vars
  BY <1>17 DEF vars, Phases
<1>. QED
  BY <1>1, <1>2, <1>3, <1>4, <1>5, <1>6, <1>7, <1>8, <1>9, <1>10, <1>11, <1>12, <1>13, <1>14,
     <1>15, <1>16, <1>17
  DEF Next, Connection, Transcoder, Packager

-----------------------------------------------------------------------------
(* Finality.                                                               *)

\* Nothing is final while the transcoder runs.
LEMMA NothingFinalYet ==
    ASSUME Finality, tx \notin {"flush", "done"}
    PROVE  /\ \A i \in Unsent : ~txOut[i].last
           /\ \A i \in DOMAIN segments : ~segments[i].last
           /\ \A i \in DOMAIN pkOut : pkOut[i].kind # "RenditionComplete"
           /\ \A i \in DOMAIN events : events[i].kind # "RenditionComplete"
           /\ rec.complete = {}
BY DEF Finality, LastUnsent, LastQueued, CompleteSaid, CompleteReported, CompleteRecorded, Upstream

\* A step that leaves the channels alone, and does not take the transcoder back.
LEMMA FinalityFrame ==
    ASSUME Finality, UNCHANGED <<txOut, segments, pkOut, events, inits>>,
           rec'.complete = rec.complete, rec'.state = rec.state,
           tx' = tx \/ tx \notin {"flush", "done"} \/ (Unsent = {} /\ tx' = "done")
    PROVE  Finality'
<1>1. CASE tx' = tx
  BY <1>1 DEF Finality, LastUnsent, LastQueued, CompleteSaid, CompleteReported, CompleteRecorded,
              Upstream, Unsent, At
<1>2. CASE tx \notin {"flush", "done"}
  BY <1>2, NothingFinalYet
  DEF Finality, LastUnsent, LastQueued, CompleteSaid, CompleteReported, CompleteRecorded, Unsent
<1>3. CASE Unsent = {} /\ tx' = "done"
  BY <1>3 DEF Finality, LastUnsent, LastQueued, CompleteSaid, CompleteReported, CompleteRecorded,
              Upstream, Unsent, At
<1>. QED  BY <1>1, <1>2, <1>3

\* A step of the running transcoder: nothing downstream is final.
LEMMA FinalityTranscode ==
    ASSUME Types, Finality, tx = "run", UNCHANGED <<segments, pkOut, events, rec>>,
           \A i \in DOMAIN txOut' : txOut'[i].last => tx' = "flush"
    PROVE  Finality'
BY NothingFinalYet
DEF Finality, LastUnsent, LastQueued, CompleteSaid, CompleteReported, CompleteRecorded, Unsent

\* The transcoder sends a segment: the last one of its rendition is the last queued.
LEMMA FinalitySendSegment ==
    ASSUME Types, Finality, SendSegment
    PROVE  Finality'
<1>. DEFINE n == Len(segments) + 1
<1>1. PICK i \in Unsent : /\ segments' = Append(segments, txOut[i])
                          /\ txOut' = [j \in Unsent \ {i} |-> txOut[j]]
  BY DEF SendSegment
<1>2. UNCHANGED <<tx, pkOut, events, inits, rec>>
  BY DEF SendSegment, pkVars
<1>3. segments \in Seq(Segments) /\ txOut[i] \in Segments
  BY <1>1 DEF Types, TypeOK
<1>. DEFINE s == txOut[i].rendition
<1>4. s \in Renditions /\ At(s, txOut) = {i} /\ \A r : At(r, txOut) \subseteq Unsent
  BY UnsentAt
<1>5. /\ Unsent' = Unsent \ {i} /\ \A j \in Unsent' : txOut'[j] = txOut[j]
  BY <1>1 DEF Unsent
<1>6. \A r : At(r, txOut') = At(r, txOut) \ {i}
  BY <1>5 DEF At, Unsent
<1>7. At(s, txOut') = {}
  BY <1>4, <1>6
<1>8. /\ DOMAIN segments' = DOMAIN segments \cup {n} /\ DOMAIN segments = 1..Len(segments)
      /\ \A j \in DOMAIN segments : segments'[j] = segments[j]
      /\ segments'[n] = txOut[i] /\ Len(segments) \in Nat
      /\ \A r : \A j \in At(r, segments') :
            j \in At(r, segments) \/ (j = n /\ IsSegmentOf(txOut[i], r))
  BY <1>1, <1>3, AppendAt
<1>9. \A r : At(r, txOut) = {} => r # s /\ At(r, txOut') = {}
  BY <1>4, <1>6
<1>10. \A r : \A j \in At(r, segments') : j \in At(r, segments) \/ (j = n /\ r = s)
  BY <1>8 DEF IsSegmentOf
<1>11. \A r : Upstream(r) => Upstream(r)'
  BY <1>2, <1>9, <1>10 DEF Upstream
<1>12. LastUnsent'
  BY <1>2, <1>5 DEF Finality, LastUnsent
<1>13. LastQueued'
  <2>. SUFFICES ASSUME NEW k \in DOMAIN segments', segments'[k].last
                PROVE  /\ tx' \in {"flush", "done"}
                       /\ At(segments'[k].rendition, txOut') = {}
                       /\ \A j \in At(segments'[k].rendition, segments') : j <= k
    BY DEF LastQueued
  <2>1. CASE k = n
    <3>1. segments'[k] = txOut[i] /\ tx = "flush"
      BY <1>8, <2>1 DEF Finality, LastUnsent
    <3>2. \A j \in DOMAIN segments' : j <= n
      BY <1>8
    <3>3. \A j \in At(s, segments') : j <= n
      BY <3>2 DEF At
    <3>. QED  BY <1>2, <1>7, <2>1, <3>1, <3>3
  <2>2. CASE k # n
    <3>1. k \in DOMAIN segments /\ segments'[k] = segments[k]
      BY <1>8, <2>2
    <3>2. /\ tx \in {"flush", "done"} /\ At(segments[k].rendition, txOut) = {}
          /\ \A j \in At(segments[k].rendition, segments) : j <= k
      BY <3>1 DEF Finality, LastQueued
    <3>. QED  BY <1>2, <1>9, <1>10, <3>1, <3>2
  <2>. QED  BY <2>1, <2>2
<1>14. CompleteSaid'
  BY <1>2, <1>11 DEF Finality, CompleteSaid, At
<1>15. CompleteReported'
  BY <1>2, <1>11 DEF Finality, CompleteReported, At
<1>16. CompleteRecorded'
  BY <1>2, <1>11 DEF Finality, CompleteRecorded, At
<1>. QED  BY <1>12, <1>13, <1>14, <1>15, <1>16 DEF Finality

\* The packager takes a segment: it announces completion only of a last one.
LEMMA FinalityPackageSegment ==
    ASSUME Types, Finality, PackageSegment
    PROVE  Finality'
<1>. DEFINE seg == Head(segments)
            s == seg.rendition
<1>1. /\ pkOut = <<>> /\ segments # <<>> /\ segments' = Tail(segments) /\ pkOut' = Messages(seg)
      /\ inits' = inits \cup {s} /\ UNCHANGED <<tx, txOut, events, rec>>
  BY DEF PackageSegment, txVars
<1>2. segments \in Seq(Segments)
  BY DEF Types, TypeOK
<1>3. /\ seg \in Segments /\ seg = segments[1] /\ 1 \in DOMAIN segments
      /\ \A j \in DOMAIN segments' : /\ j \in Nat \ {0} /\ j + 1 \in DOMAIN segments
                                     /\ segments'[j] = segments[j + 1]
      /\ \A r : \A j \in At(r, segments') : j \in Nat \ {0} /\ j + 1 \in At(r, segments)
  BY <1>1, <1>2, TailAt
<1>4. 1 \in At(s, segments)
  BY <1>3 DEF At, Segments
<1>5. /\ \A r : r # s => At(r, pkOut') = {}
      /\ \E p \in DOMAIN pkOut' :
            /\ At(s, pkOut') = {p}
            /\ \A i \in DOMAIN pkOut' : pkOut'[i].kind = "RenditionComplete" =>
                  seg.last /\ pkOut'[i].rendition = s /\ p < i
  <2>. HIDE DEF seg
  <2>1. seg \in Segments
    BY <1>3
  <2>2. /\ \A r : r # seg.rendition => At(r, Messages(seg)) = {}
        /\ \E p \in DOMAIN Messages(seg) :
              /\ At(seg.rendition, Messages(seg)) = {p}
              /\ Messages(seg)[p].seq = seg.seq
              /\ \A i \in DOMAIN Messages(seg) :
                    Messages(seg)[i].kind = "RenditionComplete" =>
                       seg.last /\ Messages(seg)[i].rendition = seg.rendition /\ p < i
    BY <2>1, MessagesEffect
  <2>3. pkOut' = Messages(seg)
    BY <1>1
  <2>. QED  BY <2>2, <2>3
<1>. HIDE DEF seg, s
<1>6. \A r : At(r, segments) = {} => r # s /\ At(r, segments') = {}
  BY <1>3, <1>4
<1>7. \A r : Upstream(r) => Upstream(r)' /\ At(r, pkOut') = {}
  BY <1>1, <1>5, <1>6 DEF Upstream
<1>8. LastUnsent'
  BY <1>1 DEF Finality, LastUnsent, Unsent
<1>9. LastQueued'
  <2>. SUFFICES ASSUME NEW k \in DOMAIN segments', segments'[k].last
                PROVE  /\ tx' \in {"flush", "done"}
                       /\ At(segments'[k].rendition, txOut') = {}
                       /\ \A j \in At(segments'[k].rendition, segments') : j <= k
    BY DEF LastQueued
  <2>1. k \in Nat /\ k + 1 \in DOMAIN segments /\ segments'[k] = segments[k + 1]
    BY <1>3
  <2>2. /\ tx \in {"flush", "done"} /\ At(segments'[k].rendition, txOut) = {}
        /\ \A j \in At(segments'[k].rendition, segments) : j <= k + 1
    BY <2>1 DEF Finality, LastQueued
  <2>3. \A j \in At(segments'[k].rendition, segments') : j \in Nat /\ j + 1 <= k + 1
    BY <1>3, <2>2
  <2>4. \A j \in At(segments'[k].rendition, segments') : j <= k
    BY <2>1, <2>3
  <2>. QED  BY <1>1, <2>2, <2>4
<1>10. CompleteSaid'
  <2>. SUFFICES ASSUME NEW i \in DOMAIN pkOut', pkOut'[i].kind = "RenditionComplete"
                PROVE  /\ tx' \in {"flush", "done"}
                       /\ At(pkOut'[i].rendition, txOut') = {}
                       /\ At(pkOut'[i].rendition, segments') = {}
                       /\ pkOut'[i].rendition \in inits'
                       /\ \A j \in At(pkOut'[i].rendition, pkOut') : j < i
    BY DEF CompleteSaid, Upstream
  <2>1. seg.last /\ pkOut'[i].rendition = s /\ \A j \in At(s, pkOut') : j < i
    BY <1>5
  <2>2. /\ tx \in {"flush", "done"} /\ At(s, txOut) = {}
        /\ \A j \in At(s, segments) : j <= 1
    BY <1>3, <2>1 DEF Finality, LastQueued, s
  <2>3. At(s, segments') = {}
    BY <1>3, <2>2
  <2>4. tx' \in {"flush", "done"} /\ At(s, txOut') = {} /\ At(s, segments') = {} /\ s \in inits'
    BY <1>1, <2>2, <2>3
  <2>. QED  BY <2>1, <2>4
<1>11. CompleteReported'
  BY <1>1, <1>7 DEF Finality, CompleteReported
<1>12. CompleteRecorded'
  BY <1>1, <1>7 DEF Finality, CompleteRecorded
<1>. QED  BY <1>8, <1>9, <1>10, <1>11, <1>12 DEF Finality

\* The packager sends a message: completion leaves after the segment it is about.
LEMMA FinalitySendMessage ==
    ASSUME Types, Finality, SendMessage
    PROVE  Finality'
<1>1. /\ pkOut # <<>> /\ pkOut' = Tail(pkOut)
      /\ UNCHANGED <<tx, txOut, segments, inits, rec>>
  BY DEF SendMessage, txVars
<1>2. pkOut \in Seq(Writes \cup Events) /\ events \in Seq(Events)
  BY DEF Types, TypeOK
<1>3. /\ Head(pkOut) \in Writes \cup Events /\ Head(pkOut) = pkOut[1] /\ 1 \in DOMAIN pkOut
      /\ \A j \in DOMAIN pkOut' : /\ j \in Nat \ {0} /\ j + 1 \in DOMAIN pkOut
                                  /\ pkOut'[j] = pkOut[j + 1]
      /\ \A r : \A j \in At(r, pkOut') : j \in Nat \ {0} /\ j + 1 \in At(r, pkOut)
  BY <1>1, <1>2, TailAt
<1>4. \A r : At(r, pkOut) = {} => At(r, pkOut') = {}
  BY <1>3
<1>5. \A r : Upstream(r) => Upstream(r)'
  BY <1>1 DEF Upstream
<1>6. LastUnsent'
  BY <1>1 DEF Finality, LastUnsent, Unsent
<1>7. LastQueued'
  BY <1>1 DEF Finality, LastQueued
<1>8. CompleteSaid'
  <2>. SUFFICES ASSUME NEW i \in DOMAIN pkOut', pkOut'[i].kind = "RenditionComplete"
                PROVE  /\ tx' \in {"flush", "done"}
                       /\ At(pkOut'[i].rendition, txOut') = {}
                       /\ At(pkOut'[i].rendition, segments') = {}
                       /\ pkOut'[i].rendition \in inits'
                       /\ \A j \in At(pkOut'[i].rendition, pkOut') : j < i
    BY DEF CompleteSaid, Upstream
  <2>1. PICK r : r = pkOut'[i].rendition
    OBVIOUS
  <2>2. i \in Nat /\ i + 1 \in DOMAIN pkOut /\ pkOut'[i] = pkOut[i + 1]
    BY <1>3
  <2>3. Upstream(r) /\ \A j \in At(r, pkOut) : j < i + 1
    BY <2>1, <2>2 DEF Finality, CompleteSaid
  <2>4. \A j \in At(r, pkOut') : j \in Nat /\ j + 1 < i + 1
    BY <1>3, <2>3
  <2>5. \A j \in At(r, pkOut') : j < i
    BY <2>2, <2>4
  <2>. QED  BY <1>1, <2>1, <2>3, <2>5 DEF Upstream
<1>9. CompleteRecorded'
  BY <1>1, <1>4, <1>5 DEF Finality, CompleteRecorded
<1>10. CompleteReported'
  <2>1. CASE events' = events
    BY <1>4, <1>5, <2>1 DEF Finality, CompleteReported
  <2>2. CASE events' # events
    <3>. DEFINE n == Len(events) + 1
    <3>1. Head(pkOut).to = "control" /\ events' = Append(events, Head(pkOut))
      BY <2>2 DEF SendMessage
    <3>2. Head(pkOut) \in Events
      <4>1. \A m \in Writes : m.to = "store"
        BY WriteKinds
      <4>. QED  BY <1>3, <3>1, <4>1
    <3>3. /\ DOMAIN events' = DOMAIN events \cup {n}
          /\ \A j \in DOMAIN events : events'[j] = events[j]
          /\ events'[n] = Head(pkOut)
      BY <1>2, <3>1, <3>2, AppendAt
    <3>4. ASSUME NEW k \in DOMAIN events', events'[k].kind = "RenditionComplete"
          PROVE  /\ tx' \in {"flush", "done"}
                 /\ At(events'[k].rendition, txOut') = {}
                 /\ At(events'[k].rendition, segments') = {}
                 /\ events'[k].rendition \in inits'
                 /\ At(events'[k].rendition, pkOut') = {}
      <4>1. PICK r : r = events'[k].rendition
        OBVIOUS
      <4>2. Upstream(r) /\ At(r, pkOut') = {}
        <5>1. CASE k = n
          <6>1. pkOut[1].kind = "RenditionComplete" /\ pkOut[1].rendition = r
            BY <1>3, <3>3, <3>4, <4>1, <5>1
          <6>2. Upstream(r) /\ \A j \in At(r, pkOut) : j < 1
            BY <1>3, <6>1 DEF Finality, CompleteSaid
          <6>. QED  BY <1>3, <6>2
        <5>2. CASE k # n
          <6>1. k \in DOMAIN events /\ events'[k] = events[k]
            BY <3>3, <5>2
          <6>2. Upstream(r) /\ At(r, pkOut) = {}
            BY <3>4, <4>1, <6>1 DEF Finality, CompleteReported
          <6>. QED  BY <1>4, <6>2
        <5>. QED  BY <5>1, <5>2
      <4>. QED  BY <1>1, <4>1, <4>2 DEF Upstream
    <3>. QED  BY <3>4 DEF CompleteReported, Upstream
  <2>. QED  BY <2>1, <2>2
<1>. QED  BY <1>6, <1>7, <1>8, <1>9, <1>10 DEF Finality

\* The closing master playlist is neither a segment nor a completion.
LEMMA FinalityFinishPackager ==
    ASSUME Types, Finality, FinishPackager
    PROVE  Finality'
<1>1. /\ pkOut' = <<>> \/ pkOut' = <<MasterWrite(inits)>>
      /\ UNCHANGED <<tx, txOut, segments, inits, events, rec>>
  BY DEF FinishPackager, txVars
<1>2. \A i \in DOMAIN pkOut' : pkOut'[i].kind = "master"
  BY <1>1 DEF MasterWrite
<1>3. \A r : At(r, pkOut') = {}
  BY <1>2 DEF At
<1>4. \A r : Upstream(r) => Upstream(r)'
  BY <1>1 DEF Upstream
<1>5. LastUnsent' /\ LastQueued'
  BY <1>1 DEF Finality, LastUnsent, LastQueued, Unsent
<1>6. CompleteSaid'
  BY <1>2 DEF CompleteSaid
<1>7. CompleteReported' /\ CompleteRecorded'
  BY <1>1, <1>3, <1>4 DEF Finality, CompleteReported, CompleteRecorded
<1>. QED  BY <1>5, <1>6, <1>7 DEF Finality

\* The control plane learns of completions, and is READY with all of them.
LEMMA FinalityHandleEvent ==
    ASSUME Types, Finality, HandleEvent
    PROVE  Finality'
<1>. DEFINE e == Head(events)
<1>1. UNCHANGED <<tx, txOut, segments, pkOut, inits>>
  BY DEF HandleEvent, txVars, pkVars
<1>2. events \in Seq(Events) /\ events # <<>> /\ events' = Tail(events)
  <2>1. events # <<>> /\ events' = Tail(events)
    BY DEF HandleEvent
  <2>. QED  BY <2>1 DEF Types, TypeOK
<1>3. /\ e = events[1] /\ 1 \in DOMAIN events
      /\ \A j \in DOMAIN events' : j + 1 \in DOMAIN events /\ events'[j] = events[j + 1]
  BY <1>2, TailAt
<1>4. /\ rec'.known \subseteq Renditions /\ rec'.complete \subseteq rec'.known
      /\ rec.complete \subseteq rec'.complete
      /\ rec'.complete # rec.complete =>
            e.kind = "RenditionComplete" /\ rec'.complete = rec.complete \cup {e.rendition}
      /\ rec'.state = "Ready" =>
            \/ rec.state = "Ready"
            \/ rec.expected > 0 /\ Cardinality(rec'.complete) >= rec.expected
  BY HandleEffect
<1>. HIDE DEF e
<1>5. \A r : Upstream(r) => Upstream(r)'
  BY <1>1 DEF Upstream
<1>6. LastUnsent' /\ LastQueued' /\ CompleteSaid'
  BY <1>1, <1>5 DEF Finality, LastUnsent, LastQueued, CompleteSaid, Unsent
<1>7. CompleteReported'
  <2>. SUFFICES ASSUME NEW k \in DOMAIN events', events'[k].kind = "RenditionComplete"
                PROVE  /\ tx' \in {"flush", "done"}
                       /\ At(events'[k].rendition, txOut') = {}
                       /\ At(events'[k].rendition, segments') = {}
                       /\ events'[k].rendition \in inits'
                       /\ At(events'[k].rendition, pkOut') = {}
    BY DEF CompleteReported, Upstream
  <2>1. k + 1 \in DOMAIN events /\ events'[k] = events[k + 1]
    BY <1>3
  <2>2. Upstream(events'[k].rendition) /\ At(events'[k].rendition, pkOut) = {}
    BY <2>1 DEF Finality, CompleteReported
  <2>. QED  BY <1>1, <2>2 DEF Upstream
<1>8. \A r \in rec'.complete : Upstream(r) /\ At(r, pkOut) = {}
  <2>1. e.kind = "RenditionComplete" => Upstream(e.rendition) /\ At(e.rendition, pkOut) = {}
    BY <1>3 DEF Finality, CompleteReported
  <2>. QED  BY <1>4, <2>1 DEF Finality, CompleteRecorded
<1>9. rec'.state = "Ready" => rec'.complete = Renditions
  <2>1. CASE rec.state = "Ready"
    BY <1>4, <2>1 DEF Finality, CompleteRecorded
  <2>2. CASE rec.expected > 0 /\ Cardinality(rec'.complete) >= rec.expected
    <3>1. rec.expected = Len(RenditionList)
      BY <2>2 DEF Types
    <3>2. rec'.complete \subseteq Renditions
      BY <1>4
    <3>3. IsFiniteSet(Renditions) /\ Cardinality(Renditions) = rec.expected
      BY <3>1, RenditionCount
    <3>4. /\ IsFiniteSet(rec'.complete) /\ Cardinality(rec'.complete) <= Cardinality(Renditions)
          /\ Cardinality(rec'.complete) = Cardinality(Renditions) => rec'.complete = Renditions
      BY <3>2, <3>3, FS_Subset
    <3>5. Cardinality(rec'.complete) \in Nat /\ Cardinality(Renditions) \in Nat
      BY <3>3, <3>4, FS_CardinalityType
    <3>6. Cardinality(rec'.complete) = Cardinality(Renditions)
      BY <2>2, <3>3, <3>4, <3>5
    <3>. QED  BY <3>4, <3>6
  <2>. QED  BY <1>4, <2>1, <2>2
<1>10. CompleteRecorded'
  BY <1>1, <1>5, <1>8, <1>9 DEF CompleteRecorded
<1>. QED  BY <1>6, <1>7, <1>10 DEF Finality

\* Every step keeps finality.
LEMMA FinalityStep ==
    ASSUME Types, Phases, Finality, [Next]_vars
    PROVE  Finality'
<1>. USE DEF connVars, txVars, pkVars, wrVars
<1>1. CASE StartStream
  <2>1. tx = "off"
    BY <1>1 DEF StartStream, Phases
  <2>2. /\ UNCHANGED <<txOut, segments, pkOut, inits, rec>>
        /\ events' = Append(events, Event("StreamStarted"))
    BY <1>1 DEF StartStream
  <2>3. \A i \in DOMAIN events' : events'[i].kind # "RenditionComplete"
    <3>1. events \in Seq(Events) /\ Event("StreamStarted") \in Events
      BY DEF Types, TypeOK, Event, Events
    <3>2. /\ DOMAIN events' = DOMAIN events \cup {Len(events) + 1}
          /\ \A j \in DOMAIN events : events'[j] = events[j]
          /\ events'[Len(events) + 1] = Event("StreamStarted")
      BY <2>2, <3>1, AppendAt
    <3>3. \A i \in DOMAIN events : events[i].kind # "RenditionComplete"
      BY <2>1, NothingFinalYet
    <3>. QED  BY <3>2, <3>3 DEF Event
  <2>. QED
    BY <2>1, <2>2, <2>3, NothingFinalYet
    DEF Finality, LastUnsent, LastQueued, CompleteSaid, CompleteReported, CompleteRecorded, Unsent
<1>2. CASE (\E k \in Kinds : SendFrame(k)) \/ StopDemux \/ FailDemux
  <2>1. UNCHANGED <<tx, txOut, segments, pkOut, events, inits, rec>>
    BY <1>2 DEF SendFrame, StopDemux, FailDemux
  <2>. QED  BY <2>1, FinalityFrame
<1>3. CASE ReportEnd
  <2>. DEFINE m == Event(IF conn = "ended" THEN "StreamEnded" ELSE "StreamError")
  <2>1. UNCHANGED <<tx, txOut, segments, pkOut, inits, rec>> /\ events' = Append(events, m)
    BY <1>3 DEF ReportEnd
  <2>2. events \in Seq(Events) /\ m \in Events /\ m.kind # "RenditionComplete"
    BY DEF Types, TypeOK, Event, Events
  <2>. HIDE DEF m
  <2>3. /\ DOMAIN events' = DOMAIN events \cup {Len(events) + 1}
        /\ \A j \in DOMAIN events : events'[j] = events[j]
        /\ events'[Len(events) + 1] = m
    BY <2>1, <2>2, AppendAt
  <2>4. \A k \in DOMAIN events' : events'[k].kind = "RenditionComplete" =>
           k \in DOMAIN events /\ events'[k] = events[k]
    BY <2>2, <2>3
  <2>5. \A r : Upstream(r) => Upstream(r)'
    BY <2>1 DEF Upstream
  <2>6. CompleteReported'
    <3>. SUFFICES ASSUME NEW k \in DOMAIN events', events'[k].kind = "RenditionComplete"
                  PROVE  /\ tx' \in {"flush", "done"}
                         /\ At(events'[k].rendition, txOut') = {}
                         /\ At(events'[k].rendition, segments') = {}
                         /\ events'[k].rendition \in inits'
                         /\ At(events'[k].rendition, pkOut') = {}
      BY DEF CompleteReported, Upstream
    <3>1. Upstream(events'[k].rendition) /\ At(events'[k].rendition, pkOut) = {}
      BY <2>4 DEF Finality, CompleteReported
    <3>. QED  BY <2>1, <3>1 DEF Upstream
  <2>7. LastUnsent' /\ LastQueued' /\ CompleteSaid' /\ CompleteRecorded'
    BY <2>1, <2>5 DEF Finality, LastUnsent, LastQueued, CompleteSaid, CompleteRecorded, Unsent
  <2>. QED  BY <2>6, <2>7 DEF Finality
<1>4. CASE SetExpected
  <2>1. /\ UNCHANGED <<txOut, segments, pkOut, events, inits>> /\ tx = "start"
        /\ rec'.complete = rec.complete /\ rec'.state = rec.state
    BY <1>4 DEF SetExpected, Types
  <2>. QED  BY <2>1, FinalityFrame
<1>5. CASE TranscodeFrame
  <2>1. tx = "run" /\ UNCHANGED <<segments, pkOut, events, rec>>
    BY <1>5 DEF TranscodeFrame
  <2>2. \A i \in DOMAIN txOut' : ~txOut'[i].last
    BY <1>5, FrameEmits
  <2>. QED  BY <2>1, <2>2, FinalityTranscode
<1>6. CASE FlushTranscoder
  <2>1. tx = "run" /\ tx' = "flush" /\ UNCHANGED <<segments, pkOut, events, rec>>
    BY <1>6 DEF FlushTranscoder
  <2>. QED  BY <2>1, FinalityTranscode
<1>7. CASE EndTranscoder
  <2>1. /\ UNCHANGED <<txOut, segments, pkOut, events, inits, rec>> /\ Unsent = {} /\ tx' = "done"
    BY <1>7 DEF EndTranscoder
  <2>. QED  BY <2>1, FinalityFrame
<1>8. CASE FailTranscoder
  <2>1. /\ tx = "run" /\ UNCHANGED <<segments, pkOut, events, rec>> /\ DOMAIN txOut' = {}
    BY <1>8 DEF FailTranscoder
  <2>. QED  BY <2>1, FinalityTranscode
<1>9. CASE EndPackager
  <2>1. UNCHANGED <<tx, txOut, segments, pkOut, events, inits, rec>>
    BY <1>9 DEF EndPackager
  <2>. QED  BY <2>1, FinalityFrame
<1>10. CASE Writer
  <2>1. UNCHANGED <<tx, txOut, segments, pkOut, events, inits, rec>>
    BY <1>10 DEF Writer, ReceiveWrite, DrainWrite, ExecuteBatch, PutObject, AbandonObject,
                 NextBatch, EndWriter
  <2>. QED  BY <2>1, FinalityFrame
<1>11. CASE UNCHANGED vars
  <2>1. UNCHANGED <<tx, txOut, segments, pkOut, events, inits, rec>>
    BY <1>11 DEF vars
  <2>. QED  BY <2>1, FinalityFrame
<1>. QED
  BY <1>1, <1>2, <1>3, <1>4, <1>5, <1>6, <1>7, <1>8, <1>9, <1>10, <1>11, FinalitySendSegment,
     FinalityPackageSegment, FinalitySendMessage, FinalityFinishPackager, FinalityHandleEvent
  DEF Next, Connection, Transcoder, Packager

-----------------------------------------------------------------------------
(* The ledger of a rendition: SegmentsConserved, stage by stage.           *)

Settled(r) == Landed(r) \cup Executing(r)

AtWrites(r) == Cardinality(Settled(r))

AtPackager(r) == AtWrites(r) + Count(r, writes)

AtSegments(r) == AtPackager(r) + Count(r, pkOut)

AtTranscoder(r) == AtSegments(r) + Count(r, segments)

Settling(r) ==
    /\ IsFiniteSet(Settled(r))
    /\ Settled(r) = 0..(AtWrites(r) - 1)
    /\ Landed(r) \cap Executing(r) = {}
    /\ \A i, j \in At(r, batch) : batch[i].seq = batch[j].seq => i = j

Ledger(r) ==
    /\ Settling(r)
    /\ Numbered(r, writes, AtWrites(r))
    /\ Numbered(r, pkOut, AtPackager(r))
    /\ Numbered(r, segments, AtSegments(r))
    /\ Numbered(r, txOut, AtTranscoder(r))
    /\ tx # "failed" => AtTranscoder(r) + Count(r, txOut) = acc[r].next

\* The ledgers of all renditions are what SegmentsConserved states.
LEMMA LedgerMeaning == Countable /\ SegmentsConserved <=> \A r \in Renditions : Ledger(r)
BY DEF Countable, SegmentsConserved, Ledger, Settling, Settled, AtWrites, AtPackager, AtSegments,
       AtTranscoder

\* The entries of the ledger are numbers.
LEMMA LedgerTypes ==
    ASSUME Types, NEW r \in Renditions, Settling(r)
    PROVE  /\ Count(r, writes) \in Nat /\ Count(r, pkOut) \in Nat /\ Count(r, segments) \in Nat
           /\ Count(r, txOut) \in Nat
           /\ AtWrites(r) \in Nat /\ AtPackager(r) \in Nat /\ AtSegments(r) \in Nat
           /\ AtTranscoder(r) \in Nat
<1>1. /\ writes \in Seq(Writes) /\ pkOut \in Seq(Writes \cup Events) /\ segments \in Seq(Segments)
  BY DEF Types, TypeOK
<1>2. Count(r, writes) \in Nat
  BY <1>1, CountType
<1>3. Count(r, pkOut) \in Nat
  BY <1>1, CountType
<1>4. Count(r, segments) \in Nat
  BY <1>1, CountType
<1>5. Count(r, txOut) \in Nat
  BY UnsentAt
<1>6. AtWrites(r) \in Nat
  BY FS_CardinalityType DEF AtWrites, Settling
<1>. QED  BY <1>2, <1>3, <1>4, <1>5, <1>6 DEF AtPackager, AtSegments, AtTranscoder

\* A step that is not the writer's leaves what has settled alone.
LEMMA SettlingFrame ==
    ASSUME UNCHANGED <<batch, store, gaveUp>>, NEW r, Settling(r)
    PROVE  Settling(r)' /\ AtWrites(r)' = AtWrites(r)
BY DEF Settling, AtWrites, Settled, Landed, Stored, Abandoned, Executing, At

\* A step that moves no segment.
LEMMA LedgerFrame ==
    ASSUME UNCHANGED <<batch, store, gaveUp, writes, pkOut, segments, txOut, acc>>,
           tx' # "failed" => tx # "failed", NEW r, Ledger(r)
    PROVE  Ledger(r)'
<1>1. Settling(r)' /\ AtWrites(r)' = AtWrites(r)
  BY SettlingFrame DEF Ledger
<1>. QED  BY <1>1 DEF Ledger, AtPackager, AtSegments, AtTranscoder

\* The transcoder gives up what it had not sent.
LEMMA LedgerFail ==
    ASSUME UNCHANGED <<batch, store, gaveUp, writes, pkOut, segments>>,
           txOut' = <<>>, tx' = "failed", NEW r, Ledger(r)
    PROVE  Ledger(r)'
<1>1. Settling(r)' /\ AtWrites(r)' = AtWrites(r)
  BY SettlingFrame DEF Ledger
<1>2. At(r, txOut') = {}
  BY DEF At
<1>3. \A n : Numbered(r, txOut', n)
  BY <1>2, CountEmpty
<1>. QED  BY <1>1, <1>3 DEF Ledger, AtPackager, AtSegments, AtTranscoder

\* The accumulators emit: none or one segment of r, with the next number.
LEMMA LedgerEmit ==
    ASSUME Types, Unsent = {}, tx = "run", NEW r \in Renditions, Ledger(r),
           UNCHANGED <<batch, store, gaveUp, writes, pkOut, segments>>,
           DOMAIN txOut' \subseteq DOMAIN RenditionList,
           \/ At(r, txOut') = {} /\ acc'[r].next = acc[r].next
           \/ /\ \E p \in DOMAIN txOut' : At(r, txOut') = {p} /\ txOut'[p].seq = acc[r].next
              /\ acc'[r].next = acc[r].next + 1
    PROVE  Ledger(r)'
<1>1. Settling(r)' /\ AtWrites(r)' = AtWrites(r)
  BY SettlingFrame DEF Ledger
<1>2. /\ AtTranscoder(r)' = AtTranscoder(r) /\ AtSegments(r)' = AtSegments(r)
      /\ AtPackager(r)' = AtPackager(r)
  BY <1>1 DEF AtPackager, AtSegments, AtTranscoder
<1>3. Count(r, txOut) = 0
  <2>1. At(r, txOut) = {}
    BY UnsentAt
  <2>. QED  BY <2>1, CountEmpty
<1>4. AtTranscoder(r) \in Nat
  BY LedgerTypes DEF Ledger
<1>5. acc[r].next = AtTranscoder(r)
  BY <1>3, <1>4 DEF Ledger
<1>6. Numbered(r, txOut', AtTranscoder(r)) /\ AtTranscoder(r) + Count(r, txOut') = acc'[r].next
  <2>1. CASE At(r, txOut') = {} /\ acc'[r].next = acc[r].next
    <3>1. Count(r, txOut') = 0 /\ Numbered(r, txOut', AtTranscoder(r))
      BY <2>1, CountEmpty
    <3>. QED  BY <1>4, <1>5, <2>1, <3>1
  <2>2. CASE /\ \E p \in DOMAIN txOut' : At(r, txOut') = {p} /\ txOut'[p].seq = acc[r].next
             /\ acc'[r].next = acc[r].next + 1
    <3>1. PICK p \in DOMAIN txOut' : At(r, txOut') = {p} /\ txOut'[p].seq = acc[r].next
      BY <2>2
    <3>2. p \in Int
      BY RenditionCount
    <3>3. Count(r, txOut') = 1 /\ Numbered(r, txOut', AtTranscoder(r))
      BY <1>4, <1>5, <3>1, <3>2, CountOne
    <3>. QED  BY <1>5, <2>2, <3>3
  <2>. QED  BY <2>1, <2>2
<1>. QED  BY <1>1, <1>2, <1>6 DEF Ledger

\* A segment moves from the transcoder to the packager's channel.
LEMMA LedgerSendSegment ==
    ASSUME Types, SendSegment, NEW r \in Renditions, Ledger(r)
    PROVE  Ledger(r)'
<1>1. PICK i \in Unsent : /\ segments' = Append(segments, txOut[i])
                          /\ txOut' = [j \in Unsent \ {i} |-> txOut[j]]
  BY DEF SendSegment
<1>2. UNCHANGED <<batch, store, gaveUp, writes, pkOut, tx, acc>>
  BY DEF SendSegment, pkVars, wrVars
<1>3. Settling(r)' /\ AtWrites(r)' = AtWrites(r)
  BY <1>2, SettlingFrame DEF Ledger
<1>4. AtPackager(r)' = AtPackager(r) /\ AtSegments(r)' = AtSegments(r)
  BY <1>2, <1>3 DEF AtPackager, AtSegments
<1>5. segments \in Seq(Segments) /\ txOut[i] \in Segments
  BY <1>1 DEF Types, TypeOK
<1>6. /\ AtSegments(r) \in Nat /\ AtTranscoder(r) \in Nat /\ Count(r, segments) \in Nat
      /\ Count(r, txOut) \in Nat
  BY LedgerTypes DEF Ledger
<1>7. At(txOut[i].rendition, txOut) = {i} /\ i \in Int
  <2>1. i \in DOMAIN RenditionList
    BY DEF Types
  <2>2. i \in Int
    BY <2>1, RenditionCount
  <2>. QED  BY <2>2, UnsentAt
<1>8. /\ DOMAIN txOut' = Unsent \ {i} /\ \A j \in DOMAIN txOut' : txOut'[j] = txOut[j]
      /\ At(r, txOut') = At(r, txOut) \ {i}
  BY <1>1 DEF At, Unsent
<1>9. IsSegmentOf(txOut[i], r) <=> r = txOut[i].rendition
  BY <1>5 DEF IsSegmentOf, Segments
<1>10. Numbered(r, segments, AtSegments(r)) /\ Numbered(r, txOut, AtTranscoder(r))
  BY DEF Ledger
<1>11. CASE r = txOut[i].rendition
  <2>1. txOut[i].seq = AtTranscoder(r) /\ Count(r, txOut) = 1
    <3>1. At(r, txOut) = {i}
      BY <1>7, <1>11
    <3>2. {j \in At(r, txOut) : j < i} = {}
      BY <1>7, <3>1
    <3>3. Cardinality({j \in At(r, txOut) : j < i}) = 0
      BY <3>2, FS_EmptySet
    <3>4. txOut[i].seq = AtTranscoder(r) + 0
      BY <1>10, <3>1, <3>3 DEF Numbered
    <3>5. Count(r, txOut) = 1
      BY <1>7, <3>1, CountOne
    <3>. QED  BY <1>6, <3>4, <3>5
  <2>2. Count(r, segments') = Count(r, segments) + 1
    BY <1>1, <1>5, <1>9, <1>11, AppendCounts
  <2>3. Numbered(r, segments', AtSegments(r))
    <3>1. txOut[i].seq = AtSegments(r) + Count(r, segments)
      BY <2>1 DEF AtTranscoder
    <3>2. Numbered(r, Append(segments, txOut[i]), AtSegments(r))
      BY <1>5, <1>6, <1>10, <3>1, AppendCounts
    <3>. QED  BY <1>1, <3>2
  <2>4. Count(r, txOut') = 0 /\ \A n : Numbered(r, txOut', n)
    <3>1. At(r, txOut') = {}
      BY <1>7, <1>8, <1>11
    <3>. QED  BY <3>1, CountEmpty
  <2>5. AtTranscoder(r)' + Count(r, txOut') = AtTranscoder(r) + Count(r, txOut)
    BY <1>4, <1>6, <2>1, <2>2, <2>4 DEF AtTranscoder
  <2>. QED  BY <1>2, <1>3, <1>4, <2>3, <2>4, <2>5 DEF Ledger
<1>12. CASE r # txOut[i].rendition
  <2>1. ~IsSegmentOf(txOut[i], r)
    BY <1>9, <1>12
  <2>2. Count(r, segments') = Count(r, segments)
    BY <1>1, <1>5, <2>1, AppendCounts
  <2>3. Numbered(r, segments', AtSegments(r))
    <3>1. Numbered(r, Append(segments, txOut[i]), AtSegments(r))
      BY <1>5, <1>6, <1>10, <2>1, AppendCounts
    <3>. QED  BY <1>1, <3>1
  <2>4. At(r, txOut') = At(r, txOut) /\ \A j \in At(r, txOut) : txOut'[j] = txOut[j]
    <3>1. i \notin At(r, txOut)
      BY <1>12 DEF At
    <3>. QED  BY <1>8, <3>1 DEF At
  <2>5. Count(r, txOut') = Count(r, txOut) /\ Numbered(r, txOut', AtTranscoder(r))
    BY <1>10, <2>4 DEF Count, Numbered
  <2>6. AtTranscoder(r)' = AtTranscoder(r)
    BY <1>4, <2>2 DEF AtTranscoder
  <2>. QED  BY <1>2, <1>3, <1>4, <2>3, <2>5, <2>6 DEF Ledger
<1>. QED  BY <1>11, <1>12

\* A segment moves from the packager's channel to its messages.
LEMMA LedgerPackageSegment ==
    ASSUME Types, PackageSegment, NEW r \in Renditions, Ledger(r)
    PROVE  Ledger(r)'
<1>. DEFINE seg == Head(segments)
            n == AtPackager(r)
<1>1. /\ pkOut = <<>> /\ segments # <<>> /\ segments' = Tail(segments) /\ pkOut' = Messages(seg)
      /\ UNCHANGED <<batch, store, gaveUp, writes, txOut, tx, acc>>
  BY DEF PackageSegment, txVars, wrVars
<1>2. Settling(r)' /\ AtWrites(r)' = AtWrites(r)
  BY <1>1, SettlingFrame DEF Ledger
<1>3. AtPackager(r)' = n
  BY <1>1, <1>2 DEF AtPackager
<1>4. /\ n \in Nat /\ Count(r, segments) \in Nat
  BY LedgerTypes DEF Ledger
<1>5. Count(r, pkOut) = 0
  <2>1. At(r, pkOut) = {}
    BY <1>1 DEF At
  <2>. QED  BY <2>1, CountEmpty
<1>6. AtSegments(r) = n
  BY <1>4, <1>5 DEF AtSegments
<1>7. segments \in Seq(Segments)
  BY DEF Types, TypeOK
<1>8. seg \in Segments /\ segments' \in Seq(Segments)
  BY <1>1, <1>7
<1>9. IsSegmentOf(seg, r) <=> r = seg.rendition
  BY <1>8 DEF IsSegmentOf, Segments
<1>10. Numbered(r, segments, n)
  BY <1>6 DEF Ledger
<1>11. /\ IsSegmentOf(seg, r) => Count(r, segments) = Count(r, segments') + 1
       /\ ~IsSegmentOf(seg, r) => Count(r, segments) = Count(r, segments')
       /\ IsSegmentOf(seg, r) => seg.seq = n /\ Numbered(r, segments', n + 1)
       /\ ~IsSegmentOf(seg, r) => Numbered(r, segments', n)
  <2>1. \A k \in Nat : Numbered(r, segments, k) =>
            /\ IsSegmentOf(Head(segments), r) =>
                  Head(segments).seq = k /\ Numbered(r, Tail(segments), k + 1)
            /\ ~IsSegmentOf(Head(segments), r) => Numbered(r, Tail(segments), k)
    BY <1>1, <1>7, TailCounts
  <2>2. /\ IsSegmentOf(Head(segments), r) => Count(r, segments) = Count(r, Tail(segments)) + 1
        /\ ~IsSegmentOf(Head(segments), r) => Count(r, segments) = Count(r, Tail(segments))
    BY <1>1, <1>7, TailCounts
  <2>. HIDE DEF n
  <2>. QED  BY <1>1, <1>4, <1>10, <2>1, <2>2
<1>12. Count(r, segments') \in Nat
  BY <1>8, CountType
<1>. HIDE DEF seg, n
<1>13. CASE r = seg.rendition
  <2>1. \E p \in DOMAIN Messages(seg) :
           At(seg.rendition, Messages(seg)) = {p} /\ Messages(seg)[p].seq = seg.seq
    BY <1>8, MessagesEffect
  <2>2. PICK p \in DOMAIN pkOut' : At(r, pkOut') = {p} /\ pkOut'[p].seq = seg.seq
    BY <1>1, <1>13, <2>1
  <2>3. p \in Int
    <3>1. pkOut' \in Seq(Writes \cup Events)
      BY <1>1, <1>8, MessagesEffect
    <3>. QED  BY <3>1
  <2>4. Count(r, pkOut') = 1 /\ Numbered(r, pkOut', n)
    BY <1>4, <1>9, <1>11, <1>13, <2>2, <2>3, CountOne
  <2>5. AtSegments(r)' = n + 1
    BY <1>3, <2>4 DEF AtSegments
  <2>6. AtTranscoder(r)' = AtTranscoder(r)
    BY <1>4, <1>6, <1>9, <1>11, <1>12, <1>13, <2>5 DEF AtTranscoder
  <2>7. Numbered(r, segments', n + 1)
    BY <1>9, <1>11, <1>13
  <2>. QED  BY <1>1, <1>2, <1>3, <2>4, <2>5, <2>6, <2>7 DEF Ledger
<1>14. CASE r # seg.rendition
  <2>1. At(r, pkOut') = {}
    BY <1>1, <1>8, <1>14, MessagesEffect
  <2>2. Count(r, pkOut') = 0 /\ Numbered(r, pkOut', n)
    BY <2>1, CountEmpty
  <2>3. AtSegments(r)' = n
    BY <1>3, <1>4, <2>2 DEF AtSegments
  <2>4. AtTranscoder(r)' = AtTranscoder(r)
    BY <1>6, <1>9, <1>11, <1>14, <2>3 DEF AtTranscoder
  <2>5. Numbered(r, segments', n)
    BY <1>9, <1>11, <1>14
  <2>. QED  BY <1>1, <1>2, <1>3, <2>2, <2>3, <2>4, <2>5 DEF Ledger
<1>. QED  BY <1>13, <1>14

\* A message moves from the packager to the writer's channel, or to the control plane.
LEMMA LedgerSendMessage ==
    ASSUME Types, SendMessage, NEW r \in Renditions, Ledger(r)
    PROVE  Ledger(r)'
<1>. DEFINE m == Head(pkOut)
            n == AtWrites(r)
<1>1. /\ pkOut # <<>> /\ pkOut' = Tail(pkOut)
      /\ UNCHANGED <<batch, store, gaveUp, segments, txOut, tx, acc>>
  BY DEF SendMessage, txVars, wrVars
<1>2. Settling(r)' /\ AtWrites(r)' = n
  BY <1>1, SettlingFrame DEF Ledger
<1>3. /\ n \in Nat /\ Count(r, writes) \in Nat /\ Count(r, pkOut) \in Nat /\ AtPackager(r) \in Nat
  BY LedgerTypes DEF Ledger
<1>4. writes \in Seq(Writes) /\ pkOut \in Seq(Writes \cup Events)
  BY DEF Types, TypeOK
<1>5. m \in Writes \cup Events /\ pkOut' \in Seq(Writes \cup Events)
  BY <1>1, <1>4, TailAt
<1>6. Count(r, pkOut') \in Nat
  BY <1>5, CountType
<1>7. Numbered(r, writes, n) /\ Numbered(r, pkOut, AtPackager(r))
  BY DEF Ledger
<1>8. /\ IsSegmentOf(m, r) => Count(r, pkOut) = Count(r, pkOut') + 1
      /\ ~IsSegmentOf(m, r) => Count(r, pkOut) = Count(r, pkOut')
      /\ IsSegmentOf(m, r) => m.seq = AtPackager(r) /\ Numbered(r, pkOut', AtPackager(r) + 1)
      /\ ~IsSegmentOf(m, r) => Numbered(r, pkOut', AtPackager(r))
  <2>1. \A k \in Nat : Numbered(r, pkOut, k) =>
            /\ IsSegmentOf(Head(pkOut), r) =>
                  Head(pkOut).seq = k /\ Numbered(r, Tail(pkOut), k + 1)
            /\ ~IsSegmentOf(Head(pkOut), r) => Numbered(r, Tail(pkOut), k)
    BY <1>1, <1>4, TailCounts
  <2>2. /\ IsSegmentOf(Head(pkOut), r) => Count(r, pkOut) = Count(r, Tail(pkOut)) + 1
        /\ ~IsSegmentOf(Head(pkOut), r) => Count(r, pkOut) = Count(r, Tail(pkOut))
    BY <1>1, <1>4, TailCounts
  <2>. QED  BY <1>1, <1>3, <1>7, <2>1, <2>2
<1>. HIDE DEF m, n
<1>9. /\ Numbered(r, writes', n)
      /\ Numbered(r, pkOut', n + Count(r, writes'))
      /\ Count(r, writes') + Count(r, pkOut') = Count(r, writes) + Count(r, pkOut)
      /\ Count(r, writes') \in Nat
  <2>1. CASE m.to = "store" /\ writes' = Append(writes, m)
    <3>1. m \in Writes
      <4>1. \A e \in Events : e.to = "control"
        BY EventKinds
      <4>. QED  BY <1>5, <2>1, <4>1
    <3>2. CASE IsSegmentOf(m, r)
      <4>1. m.seq = n + Count(r, writes) /\ AtPackager(r) = n + Count(r, writes)
        BY <1>8, <3>2 DEF AtPackager, n
      <4>2. Numbered(r, Append(writes, m), n)
        BY <1>3, <1>4, <1>7, <3>1, <4>1, AppendCounts
      <4>3. Count(r, Append(writes, m)) = Count(r, writes) + 1
        BY <1>4, <3>1, <3>2, AppendCounts
      <4>4. n + (Count(r, writes) + 1) = AtPackager(r) + 1
        BY <1>3, <4>1
      <4>5. Numbered(r, pkOut', AtPackager(r) + 1) /\ Count(r, pkOut) = Count(r, pkOut') + 1
        BY <1>8, <3>2
      <4>6. (Count(r, writes) + 1) + Count(r, pkOut') = Count(r, writes) + Count(r, pkOut)
        BY <1>3, <1>6, <4>5
      <4>. QED  BY <1>3, <2>1, <4>2, <4>3, <4>4, <4>5, <4>6
    <3>3. CASE ~IsSegmentOf(m, r)
      <4>1. Numbered(r, Append(writes, m), n)
        BY <1>3, <1>4, <1>7, <3>1, <3>3, AppendCounts
      <4>2. Count(r, Append(writes, m)) = Count(r, writes)
        BY <1>4, <3>1, <3>3, AppendCounts
      <4>3. Numbered(r, pkOut', n + Count(r, writes)) /\ Count(r, pkOut) = Count(r, pkOut')
        BY <1>8, <3>3 DEF AtPackager, n
      <4>. QED  BY <1>3, <2>1, <4>1, <4>2, <4>3
    <3>. QED  BY <3>2, <3>3
  <2>2. CASE m.to = "control" /\ writes' = writes
    <3>1. m \in Events
      <4>1. \A e \in Writes : e.to = "store"
        BY WriteKinds
      <4>. QED  BY <1>5, <2>2, <4>1
    <3>2. ~IsSegmentOf(m, r)
      BY <3>1, EventKinds DEF IsSegmentOf
    <3>3. Numbered(r, pkOut', n + Count(r, writes)) /\ Count(r, pkOut) = Count(r, pkOut')
      BY <1>8, <3>2 DEF AtPackager, n
    <3>. QED  BY <1>3, <1>7, <2>2, <3>3
  <2>. QED  BY <2>1, <2>2 DEF SendMessage, m
<1>10. AtPackager(r)' = n + Count(r, writes')
  BY <1>2 DEF AtPackager
<1>11. AtSegments(r)' = AtSegments(r)
  <2>1. AtSegments(r)' = (n + Count(r, writes')) + Count(r, pkOut')
    BY <1>10 DEF AtSegments
  <2>2. AtSegments(r) = (n + Count(r, writes)) + Count(r, pkOut)
    BY DEF AtSegments, AtPackager, n
  <2>. QED  BY <1>3, <1>6, <1>9, <2>1, <2>2
<1>12. AtTranscoder(r)' = AtTranscoder(r)
  BY <1>1, <1>11 DEF AtTranscoder
<1>. QED  BY <1>1, <1>2, <1>9, <1>10, <1>11, <1>12 DEF Ledger

\* The closing master playlist is not a segment.
LEMMA LedgerFinishPackager ==
    ASSUME FinishPackager, NEW r \in Renditions, Ledger(r)
    PROVE  Ledger(r)'
<1>1. /\ pkOut = <<>> /\ (pkOut' = <<>> \/ pkOut' = <<MasterWrite(inits)>>)
      /\ UNCHANGED <<batch, store, gaveUp, writes, segments, txOut, tx, acc>>
  BY DEF FinishPackager, txVars, wrVars
<1>2. At(r, pkOut) = {} /\ At(r, pkOut') = {}
  BY <1>1 DEF At, MasterWrite
<1>3. Count(r, pkOut') = Count(r, pkOut) /\ \A n : Numbered(r, pkOut', n)
  BY <1>2, CountEmpty
<1>4. Settling(r)' /\ AtWrites(r)' = AtWrites(r)
  BY <1>1, SettlingFrame DEF Ledger
<1>5. /\ AtPackager(r)' = AtPackager(r) /\ AtSegments(r)' = AtSegments(r)
      /\ AtTranscoder(r)' = AtTranscoder(r)
  BY <1>1, <1>3, <1>4 DEF AtPackager, AtSegments, AtTranscoder
<1>. QED  BY <1>1, <1>3, <1>4, <1>5 DEF Ledger

\* A write joins the batch, and with it the number that comes next.
LEMMA LedgerCollect ==
    ASSUME Types, ReceiveWrite \/ DrainWrite, NEW r \in Renditions, Ledger(r)
    PROVE  Ledger(r)'
<1>. DEFINE m == Head(writes)
            n == AtWrites(r)
            k == Len(batch) + 1
<1>1. /\ writes # <<>> /\ writes' = Tail(writes)
      /\ UNCHANGED <<store, gaveUp, pkOut, segments, txOut, tx, acc>>
  BY DEF ReceiveWrite, DrainWrite, txVars, pkVars
<1>2. writes \in Seq(Writes) /\ batch \in Seq(Writes)
  BY DEF Types, TypeOK
<1>3. m \in Writes /\ writes' \in Seq(Writes)
  BY <1>1, <1>2, TailAt
<1>4. /\ DOMAIN batch' = DOMAIN batch \cup {k} /\ k \notin DOMAIN batch
      /\ \A j \in DOMAIN batch : batch'[j] = batch[j]
      /\ batch'[k] = m
  <2>1. CASE DrainWrite
    <3>1. batch' = Append(batch, m)
      BY <2>1 DEF DrainWrite
    <3>. HIDE DEF m
    <3>. QED  BY <1>2, <1>3, <3>1
  <2>2. CASE ReceiveWrite
    <3>1. batch' = <<m>> /\ batch = <<>>
      BY <2>2 DEF ReceiveWrite, Types
    <3>. HIDE DEF m
    <3>. QED  BY <3>1
  <2>. QED  BY <2>1, <2>2
<1>5. /\ n \in Nat /\ Count(r, writes) \in Nat /\ AtPackager(r) \in Nat
  BY LedgerTypes DEF Ledger
<1>6. Count(r, writes') \in Nat
  BY <1>3, CountType
<1>7. /\ IsSegmentOf(m, r) => Count(r, writes) = Count(r, writes') + 1
      /\ ~IsSegmentOf(m, r) => Count(r, writes) = Count(r, writes')
      /\ IsSegmentOf(m, r) => m.seq = n /\ Numbered(r, writes', n + 1)
      /\ ~IsSegmentOf(m, r) => Numbered(r, writes', n)
  <2>1. \A x \in Nat : Numbered(r, writes, x) =>
            /\ IsSegmentOf(Head(writes), r) =>
                  Head(writes).seq = x /\ Numbered(r, Tail(writes), x + 1)
            /\ ~IsSegmentOf(Head(writes), r) => Numbered(r, Tail(writes), x)
    BY <1>1, <1>2, TailCounts
  <2>2. /\ IsSegmentOf(Head(writes), r) => Count(r, writes) = Count(r, Tail(writes)) + 1
        /\ ~IsSegmentOf(Head(writes), r) => Count(r, writes) = Count(r, Tail(writes))
    BY <1>1, <1>2, TailCounts
  <2>3. Numbered(r, writes, n)
    BY DEF Ledger
  <2>. HIDE DEF n
  <2>. QED  BY <1>1, <1>5, <2>1, <2>2, <2>3
<1>8. /\ IsFiniteSet(Settled(r)) /\ Settled(r) = 0..(n - 1) /\ Cardinality(Settled(r)) = n
      /\ Landed(r) \cap Executing(r) = {}
      /\ \A i, j \in At(r, batch) : batch[i].seq = batch[j].seq => i = j
      /\ \A i \in At(r, batch) : batch[i].seq \in Settled(r)
  BY DEF Ledger, Settling, AtWrites, Settled, Executing
<1>9. Landed(r)' = Landed(r)
  BY <1>1 DEF Landed, Stored, Abandoned
<1>. HIDE DEF m, n, k
<1>10. AtPackager(r)' = AtPackager(r) /\ Settling(r)' /\ Numbered(r, writes', AtWrites(r)')
  <2>1. CASE IsSegmentOf(m, r)
    <3>1. At(r, batch') = At(r, batch) \cup {k}
      BY <1>4, <2>1 DEF At, IsSegmentOf
    <3>2. \A j \in At(r, batch) : j # k /\ batch'[j] = batch[j]
      BY <1>4 DEF At
    <3>3. m.seq = n /\ n \notin Settled(r)
      BY <1>5, <1>7, <1>8, <2>1
    <3>4. Executing(r)' = Executing(r) \cup {n}
      BY <1>4, <3>1, <3>2, <3>3 DEF Executing
    <3>5. Settled(r)' = Settled(r) \cup {n}
      BY <1>9, <3>4 DEF Settled
    <3>6. IsFiniteSet(Settled(r)') /\ Cardinality(Settled(r)') = n + 1
      BY <1>8, <3>3, <3>5, FS_AddElement
    <3>7. Settled(r)' = 0..((n + 1) - 1)
      BY <1>5, <1>8, <3>5
    <3>8. Landed(r)' \cap Executing(r)' = {}
      BY <1>8, <1>9, <3>3, <3>4 DEF Settled
    <3>9. \A i, j \in At(r, batch') : batch'[i].seq = batch'[j].seq => i = j
      BY <1>4, <1>8, <3>1, <3>2, <3>3
    <3>10. AtWrites(r)' = n + 1
      BY <3>6 DEF AtWrites
    <3>11. Settling(r)'
      BY <3>6, <3>7, <3>8, <3>9, <3>10 DEF Settling
    <3>12. AtPackager(r)' = AtPackager(r)
      <4>1. AtPackager(r) = n + Count(r, writes)
        BY DEF AtPackager, n
      <4>2. AtPackager(r)' = (n + 1) + Count(r, writes')
        BY <3>10 DEF AtPackager
      <4>. QED  BY <1>5, <1>6, <1>7, <2>1, <4>1, <4>2
    <3>. QED  BY <1>7, <2>1, <3>10, <3>11, <3>12
  <2>2. CASE ~IsSegmentOf(m, r)
    <3>1. At(r, batch') = At(r, batch) /\ \A j \in At(r, batch) : batch'[j] = batch[j]
      BY <1>4, <2>2 DEF At, IsSegmentOf
    <3>2. Executing(r)' = Executing(r)
      BY <3>1 DEF Executing
    <3>3. Settled(r)' = Settled(r)
      BY <1>9, <3>2 DEF Settled
    <3>4. AtWrites(r)' = n
      BY <3>3 DEF AtWrites, n
    <3>5. \A i, j \in At(r, batch') : batch'[i].seq = batch'[j].seq => i = j
      BY <1>8, <3>1
    <3>6. Settling(r)'
      BY <1>8, <1>9, <3>2, <3>3, <3>4, <3>5 DEF Settling
    <3>7. AtPackager(r)' = AtPackager(r)
      <4>1. AtPackager(r) = n + Count(r, writes)
        BY DEF AtPackager, n
      <4>2. AtPackager(r)' = n + Count(r, writes')
        BY <3>4 DEF AtPackager
      <4>. QED  BY <1>7, <2>2, <4>1, <4>2
    <3>. QED  BY <1>7, <2>2, <3>4, <3>6, <3>7
  <2>. QED  BY <2>1, <2>2
<1>11. AtSegments(r)' = AtSegments(r) /\ AtTranscoder(r)' = AtTranscoder(r)
  BY <1>1, <1>10 DEF AtSegments, AtTranscoder
<1>. QED  BY <1>1, <1>10, <1>11 DEF Ledger

\* A write leaves the batch: its number has landed, in the store or not.
LEMMA LedgerSettle ==
    ASSUME Types, NEW i \in DOMAIN batch, PutObject(i) \/ AbandonObject(i),
           NEW r \in Renditions, Ledger(r)
    PROVE  Ledger(r)'
<1>. DEFINE b == batch[i]
            S(j) == IF j < i THEN j ELSE j + 1
<1>1. UNCHANGED <<writes, pkOut, segments, txOut, tx, acc>> /\ batch' = RemoveAt(batch, i)
  BY DEF PutObject, AbandonObject, txVars, pkVars
<1>2. batch \in Seq(Writes) /\ b \in Writes
  BY DEF Types, TypeOK
<1>3. /\ i \in 1..Len(batch) /\ Len(batch) \in Nat /\ DOMAIN batch = 1..Len(batch)
      /\ DOMAIN batch' = 1..(Len(batch) - 1)
      /\ \A j \in DOMAIN batch' : batch'[j] = batch[S(j)]
  <2>1. /\ batch' \in Seq(Writes) /\ Len(batch') = Len(batch) - 1
        /\ \A j \in 1..(Len(batch) - 1) : batch'[j] = IF j < i THEN batch[j] ELSE batch[j + 1]
    BY <1>1, <1>2, RemoveAtEffect
  <2>2. i \in 1..Len(batch) /\ Len(batch) \in Nat /\ DOMAIN batch = 1..Len(batch)
    BY <1>2
  <2>3. DOMAIN batch' = 1..(Len(batch) - 1)
    BY <2>1
  <2>. QED  BY <2>1, <2>2, <2>3
<1>4. \A j \in DOMAIN batch' : S(j) \in DOMAIN batch \ {i}
  BY <1>3
<1>5. \A x, y \in DOMAIN batch' : S(x) = S(y) => x = y
  BY <1>3
<1>6. \A x \in DOMAIN batch \ {i} : \E j \in DOMAIN batch' : S(j) = x
  <2>. TAKE x \in DOMAIN batch \ {i}
  <2>1. CASE x < i
    BY <1>3, <2>1
  <2>2. CASE ~(x < i)
    <3>1. x - 1 \in DOMAIN batch' /\ S(x - 1) = x
      BY <1>3, <2>2
    <3>. QED  BY <3>1
  <2>. QED  BY <2>1, <2>2
<1>. HIDE DEF b, S
<1>7. /\ \A j \in At(r, batch') : S(j) \in At(r, batch) \ {i} /\ batch'[j] = batch[S(j)]
      /\ \A x \in At(r, batch) \ {i} : \E j \in At(r, batch') : S(j) = x /\ batch'[j] = batch[x]
  BY <1>3, <1>4, <1>6 DEF At
<1>8. Executing(r)' = {batch[x].seq : x \in At(r, batch) \ {i}}
  BY <1>7 DEF Executing
<1>9. i \in At(r, batch) <=> IsSegmentOf(b, r)
  BY DEF At, IsSegmentOf, b
<1>10. /\ IsFiniteSet(Settled(r)) /\ Settled(r) = 0..(AtWrites(r) - 1)
       /\ Landed(r) \cap Executing(r) = {}
       /\ \A x, y \in At(r, batch) : batch[x].seq = batch[y].seq => x = y
  BY DEF Ledger, Settling
<1>11. \A x, y \in At(r, batch') : batch'[x].seq = batch'[y].seq => x = y
  <2>1. At(r, batch') \subseteq DOMAIN batch'
    BY DEF At
  <2>. QED  BY <1>5, <1>7, <1>10, <2>1
<1>12. Landed(r)' = IF IsSegmentOf(b, r) THEN Landed(r) \cup {b.seq} ELSE Landed(r)
  <2>1. CASE PutObject(i)
    <3>1. store' = AfterPut(b) /\ gaveUp' = gaveUp
      BY <2>1 DEF PutObject, b
    <3>2. /\ b.kind \in {"init", "segment", "playlist", "master"}
      BY <1>2, WriteKinds
    <3>3. DOMAIN store = {"inits", "segments", "master", "playlists"}
      BY DEF Types
    <3>4. CASE b.kind = "segment"
      <4>1. store'.segments = store.segments \cup {<<b.rendition, b.seq>>}
        BY <3>1, <3>3, <3>4 DEF AfterPut
      <4>2. Stored(r)' = IF b.rendition = r THEN Stored(r) \cup {b.seq} ELSE Stored(r)
        <5>1. PICK w : w = <<b.rendition, b.seq>>
          OBVIOUS
        <5>2. w[1] = b.rendition /\ w[2] = b.seq
          BY <5>1
        <5>3. store'.segments = store.segments \cup {w}
          BY <4>1, <5>1
        <5>. QED  BY <5>2, <5>3 DEF Stored
      <4>. QED  BY <3>1, <3>4, <4>2 DEF Landed, Abandoned, IsSegmentOf
    <3>5. CASE b.kind # "segment"
      <4>1. store'.segments = store.segments
        BY <3>1, <3>2, <3>3, <3>5 DEF AfterPut
      <4>. QED  BY <3>1, <3>5, <4>1 DEF Landed, Stored, Abandoned, IsSegmentOf
    <3>. QED  BY <3>4, <3>5
  <2>2. CASE AbandonObject(i)
    <3>1. store' = store /\ gaveUp' = gaveUp \cup {b}
      BY <2>2 DEF AbandonObject, b
    <3>2. Abandoned(r)' = IF IsSegmentOf(b, r) THEN Abandoned(r) \cup {b.seq} ELSE Abandoned(r)
      BY <3>1 DEF Abandoned, IsSegmentOf
    <3>. QED  BY <3>1, <3>2 DEF Landed, Stored
  <2>. QED  BY <2>1, <2>2
<1>13. Settled(r)' = Settled(r) /\ Landed(r)' \cap Executing(r)' = {}
  <2>1. CASE IsSegmentOf(b, r)
    <3>1. Executing(r) = Executing(r)' \cup {b.seq}
      BY <1>8, <1>9, <2>1 DEF Executing, b
    <3>2. b.seq \notin Executing(r)'
      BY <1>8, <1>9, <1>10, <2>1 DEF b
    <3>3. Landed(r)' = Landed(r) \cup {b.seq}
      BY <1>12, <2>1
    <3>. QED  BY <1>10, <3>1, <3>2, <3>3 DEF Settled
  <2>2. CASE ~IsSegmentOf(b, r)
    <3>1. Executing(r)' = Executing(r) /\ Landed(r)' = Landed(r)
      BY <1>8, <1>9, <1>12, <2>2 DEF Executing
    <3>. QED  BY <1>10, <3>1 DEF Settled
  <2>. QED  BY <2>1, <2>2
<1>14. AtWrites(r)' = AtWrites(r)
  BY <1>13 DEF AtWrites
<1>15. Settling(r)'
  BY <1>10, <1>11, <1>13, <1>14 DEF Settling
<1>16. /\ AtPackager(r)' = AtPackager(r) /\ AtSegments(r)' = AtSegments(r)
       /\ AtTranscoder(r)' = AtTranscoder(r)
  BY <1>1, <1>14 DEF AtPackager, AtSegments, AtTranscoder
<1>. QED  BY <1>1, <1>14, <1>15, <1>16 DEF Ledger

\* Every step keeps the ledger of every rendition.
LEMMA LedgerStep ==
    ASSUME Types, Phases, [Next]_vars, NEW r \in Renditions, Ledger(r)
    PROVE  Ledger(r)'
<1>. USE DEF connVars, txVars, pkVars, wrVars
<1>1. CASE Connection
  <2>1. UNCHANGED <<batch, store, gaveUp, writes, pkOut, segments, txOut, acc>>
    BY <1>1 DEF Connection, StartStream, SendFrame, StopDemux, FailDemux, ReportEnd
  <2>2. tx' # "failed" => tx # "failed"
    BY <1>1 DEF Connection, StartStream, SendFrame, StopDemux, FailDemux, ReportEnd, Phases
  <2>. QED  BY <2>1, <2>2, LedgerFrame
<1>2. CASE SetExpected \/ EndTranscoder \/ EndPackager
  <2>1. \/ /\ UNCHANGED <<batch, store, gaveUp, writes, pkOut, segments, txOut, acc>>
           /\ tx # "failed"
        \/ UNCHANGED <<batch, store, gaveUp, writes, pkOut, segments, txOut, acc, tx>>
    BY <1>2 DEF SetExpected, EndTranscoder, EndPackager
  <2>. QED  BY <2>1, LedgerFrame
<1>3. CASE TranscodeFrame
  <2>1. /\ Unsent = {} /\ tx = "run"
        /\ UNCHANGED <<batch, store, gaveUp, writes, pkOut, segments>>
    BY <1>3 DEF TranscodeFrame
  <2>2. /\ DOMAIN txOut' \subseteq DOMAIN RenditionList
        /\ \/ At(r, txOut') = {} /\ acc'[r].next = acc[r].next
           \/ /\ \E p \in DOMAIN txOut' : At(r, txOut') = {p} /\ txOut'[p].seq = acc[r].next
              /\ acc'[r].next = acc[r].next + 1
    BY <1>3, FrameEmits
  <2>. QED  BY <2>1, <2>2, LedgerEmit
<1>4. CASE FlushTranscoder
  <2>1. /\ Unsent = {} /\ tx = "run"
        /\ UNCHANGED <<batch, store, gaveUp, writes, pkOut, segments>>
    BY <1>4 DEF FlushTranscoder
  <2>2. /\ DOMAIN txOut' \subseteq DOMAIN RenditionList
        /\ \/ At(r, txOut') = {} /\ acc'[r].next = acc[r].next
           \/ /\ \E p \in DOMAIN txOut' : At(r, txOut') = {p} /\ txOut'[p].seq = acc[r].next
              /\ acc'[r].next = acc[r].next + 1
    BY <1>4, FlushEmits
  <2>. QED  BY <2>1, <2>2, LedgerEmit
<1>5. CASE FailTranscoder
  <2>1. /\ UNCHANGED <<batch, store, gaveUp, writes, pkOut, segments>>
        /\ txOut' = <<>> /\ tx' = "failed"
    BY <1>5 DEF FailTranscoder
  <2>. QED  BY <2>1, LedgerFail
<1>6. CASE ExecuteBatch \/ NextBatch \/ EndWriter
  <2>1. UNCHANGED <<batch, store, gaveUp, writes, pkOut, segments, txOut, acc, tx>>
    BY <1>6 DEF ExecuteBatch, NextBatch, EndWriter
  <2>. QED  BY <2>1, LedgerFrame
<1>7. CASE HandleEvent
  <2>1. UNCHANGED <<batch, store, gaveUp, writes, pkOut, segments, txOut, acc, tx>>
    BY <1>7 DEF HandleEvent
  <2>. QED  BY <2>1, LedgerFrame
<1>8. CASE UNCHANGED vars
  <2>1. UNCHANGED <<batch, store, gaveUp, writes, pkOut, segments, txOut, acc, tx>>
    BY <1>8 DEF vars
  <2>. QED  BY <2>1, LedgerFrame
<1>. QED
  BY <1>1, <1>2, <1>3, <1>4, <1>5, <1>6, <1>7, <1>8, LedgerSendSegment, LedgerPackageSegment,
     LedgerSendMessage, LedgerFinishPackager, LedgerCollect, LedgerSettle
  DEF Next, Transcoder, Packager, Writer

-----------------------------------------------------------------------------
(* The theorems.                                                           *)

\* Inv is inductive.
THEOREM Invariance == Spec => []Inv
<1>1. Init => Inv
  BY InitInv
<1>2. Inv /\ [Next]_vars => Inv'
  <2>. SUFFICES ASSUME Inv, [Next]_vars  PROVE Inv'
    OBVIOUS
  <2>1. Types' /\ Phases' /\ Finality'
    BY TypesStep, PhasesStep, FinalityStep DEF Inv
  <2>2. \A r \in Renditions : Ledger(r)
    BY LedgerMeaning DEF Inv
  <2>3. \A r \in Renditions : Ledger(r)'
    BY <2>2, LedgerStep DEF Inv
  <2>4. Countable' /\ SegmentsConserved'
    BY <2>3
    DEF Countable, SegmentsConserved, Ledger, Settling, Settled, AtWrites, AtPackager, AtSegments,
        AtTranscoder
  <2>. QED  BY <2>1, <2>4 DEF Inv
<1>. QED  BY <1>1, <1>2, PTL DEF Spec

\* The four channels never exceed their capacities, only messages of their
\* kinds travel through them, and a rendition is marked complete only once a
\* segment of it was announced, for any capacities and any number of renditions.
THEOREM TypeCorrect == Spec => []TypeOK
<1>1. Inv => TypeOK
  BY DEF Inv, Types
<1>. QED  BY <1>1, Invariance, PTL

\* From the accumulator to the store no segment is lost, duplicated or
\* overtaken, whatever the interleaving of the tasks, the failures of the store
\* and the moment the transcoder fails.
THEOREM SegmentsAreConserved == Spec => []SegmentsConserved
<1>1. Inv => SegmentsConserved
  BY DEF Inv
<1>. QED  BY <1>1, Invariance, PTL

\* A rendition that the control plane takes for complete has its last segment
\* past the packager.
THEOREM CompleteRenditionsArePackaged == Spec => []CompleteMeansPackaged
<1>1. Inv => CompleteMeansPackaged
  BY DEF Inv, Finality, CompleteRecorded, Upstream, CompleteMeansPackaged
<1>. QED  BY <1>1, Invariance, PTL

\* A stream is READY only after its connection has ended, with every rendition
\* packaged and nothing left in the channels before the packager.
THEOREM ReadyStreamsArePackaged == Spec => []ReadyIsPackaged
<1>1. Inv => ReadyIsPackaged
  <2>. SUFFICES ASSUME Inv, rec.state = "Ready"
                PROVE  /\ conn = "done" /\ ingest = <<>> /\ segments = <<>> /\ Unsent = {}
                       /\ rec.complete = Renditions
    BY DEF ReadyIsPackaged
  <2>1. conn = "done" /\ rec.complete = Renditions
    BY DEF Inv, Phases, Finality, CompleteRecorded
  <2>2. \A r \in Renditions : Upstream(r)
    BY <2>1 DEF Inv, Finality, CompleteRecorded
  <2>3. ingest = <<>>
    BY <2>2, RenditionCount DEF Upstream, Inv, Phases
  <2>4. Unsent = {}
    <3>1. Types
      BY DEF Inv
    <3>2. \A i \in Unsent : txOut[i].rendition \in Renditions /\ At(txOut[i].rendition, txOut) = {i}
      BY <3>1, UnsentAt
    <3>. QED  BY <2>2, <3>2 DEF Upstream
  <2>5. segments = <<>>
    <3>1. segments \in Seq(Segments)
      BY DEF Inv, Types, TypeOK
    <3>2. \A i \in DOMAIN segments : segments[i].rendition \in Renditions
                                     /\ i \in At(segments[i].rendition, segments)
      <4>. TAKE i \in DOMAIN segments
      <4>1. segments[i] \in Segments
        BY <3>1
      <4>2. segments[i].kind = "segment" /\ segments[i].rendition \in Renditions
        BY <4>1 DEF Segments
      <4>. QED  BY <4>2 DEF At
    <3>3. DOMAIN segments = {}
      BY <2>2, <3>2 DEF Upstream
    <3>. QED  BY <3>1, <3>3
  <2>. QED  BY <2>1, <2>3, <2>4, <2>5
<1>. QED  BY <1>1, Invariance, PTL

-----------------------------------------------------------------------------
(* One accumulator over its life (AccumulatorFeed): sequences and splits.  *)

\* The parts of a sequence that grows at its end.
LEMMA SubSeqAppend ==
    ASSUME NEW S, NEW w \in Seq(S), NEW x \in S, NEW m \in Nat, m <= Len(w)
    PROVE  /\ \A n \in Nat : n <= Len(w) => SubSeq(Append(w, x), m + 1, n) = SubSeq(w, m + 1, n)
           /\ SubSeq(Append(w, x), m + 1, Len(w) + 1) = Append(SubSeq(w, m + 1, Len(w)), x)
<1> DEFINE v == Append(w, x)
<1>1. v \in Seq(S) /\ Len(v) = Len(w) + 1 /\ Len(w) \in Nat
  OBVIOUS
<1>2. \A k \in 1..Len(w) : v[k] = w[k]
  OBVIOUS
<1>3. v[Len(w) + 1] = x
  OBVIOUS
<1> HIDE DEF v
<1>4. ASSUME NEW n \in Nat, n <= Len(w)
      PROVE  SubSeq(v, m + 1, n) = SubSeq(w, m + 1, n)
  <2>1. \A k \in (m + 1)..n : v[k] = w[k]
    BY <1>2, <1>4
  <2>. QED  BY <1>1, <1>4, <2>1
<1>5. SubSeq(v, m + 1, Len(w) + 1) = Append(SubSeq(w, m + 1, Len(w)), x)
  <2> DEFINE a == SubSeq(v, m + 1, Len(w) + 1)
             b == SubSeq(w, m + 1, Len(w))
  <2>1. b \in Seq(S) /\ Len(b) = Len(w) - m
        /\ \A k \in 1..(Len(w) - m) : b[k] = w[m + k]
    BY <1>1
  <2>2. a \in Seq(S) /\ Len(a) = Len(w) + 1 - m
        /\ \A k \in 1..(Len(w) + 1 - m) : a[k] = v[m + k]
    BY <1>1
  <2> HIDE DEF a, b
  <2>3. /\ Append(b, x) \in Seq(S) /\ Len(Append(b, x)) = Len(w) + 1 - m
        /\ \A k \in 1..(Len(w) - m) : Append(b, x)[k] = w[m + k]
        /\ Append(b, x)[Len(w) + 1 - m] = x
    BY <1>1, <2>1
  <2>4. ASSUME NEW k \in 1..Len(a)
        PROVE  a[k] = Append(b, x)[k]
    <3>1. CASE k <= Len(w) - m
      <4>1. m + k \in 1..Len(w) /\ k \in 1..(Len(w) + 1 - m) /\ k \in 1..(Len(w) - m)
        BY <1>1, <2>2, <3>1
      <4>. QED  BY <1>2, <2>2, <2>3, <4>1
    <3>2. CASE k = Len(w) + 1 - m
      <4>1. k \in 1..(Len(w) + 1 - m) /\ m + k = Len(w) + 1
        BY <1>1, <2>2, <3>2
      <4>. QED  BY <1>3, <2>2, <2>3, <3>2, <4>1
    <3>3. k <= Len(w) - m \/ k = Len(w) + 1 - m
      <4> DEFINE l == Len(w)
      <4>1. l \in Nat /\ k \in 1..(l + 1 - m)
        BY <1>1, <2>2
      <4> HIDE DEF l
      <4>2. k <= l - m \/ k = l + 1 - m
        BY <4>1
      <4>. QED  BY <4>2 DEF l
    <3>. QED  BY <3>1, <3>2, <3>3
  <2>5. a = Append(b, x)
    BY <2>2, <2>3, <2>4, SeqEqual
  <2>. QED  BY <2>5 DEF a, b
<1>. QED  BY <1>4, <1>5 DEF v

\* A sequence that grows is split as before, with a longer rest.
LEMMA SplitGrows ==
    ASSUME NEW S, NEW w \in Seq(S), NEW x \in S, NEW parts, NEW ends \in Seq(Nat), NEW rest,
           IsSplit(w, parts, ends, rest)
    PROVE  IsSplit(Append(w, x), parts, ends, Append(rest, x))
<1> DEFINE from(i) == IF i = 1 THEN 0 ELSE ends[i - 1]
           n == Len(ends)
<1>1. /\ Len(parts) = n
      /\ \A i \in 1..n : /\ from(i) <= ends[i] /\ ends[i] <= Len(w)
                         /\ parts[i] = SubSeq(w, from(i) + 1, ends[i])
      /\ rest = SubSeq(w, from(n + 1) + 1, Len(w))
  BY DEF IsSplit
<1>2. n \in Nat /\ Len(w) \in Nat /\ Len(Append(w, x)) = Len(w) + 1
  OBVIOUS
<1>3. \A i \in 1..n : ends[i] \in Nat
  OBVIOUS
<1>4. ASSUME NEW i \in 1..(n + 1)
      PROVE  from(i) \in Nat /\ from(i) <= Len(w)
  <2>1. CASE i = 1
    BY <1>2, <2>1
  <2>2. CASE i # 1
    <3>1. i - 1 \in 1..n
      BY <1>2, <2>2
    <3>2. from(i) = ends[i - 1]
      BY <2>2
    <3>. QED  BY <1>1, <1>3, <3>1, <3>2
  <2>. QED  BY <2>1, <2>2
<1> HIDE DEF from, n
<1>5. \A i \in 1..n : SubSeq(Append(w, x), from(i) + 1, ends[i]) = SubSeq(w, from(i) + 1, ends[i])
  <2>. SUFFICES ASSUME NEW i \in 1..n
                PROVE  SubSeq(Append(w, x), from(i) + 1, ends[i]) = SubSeq(w, from(i) + 1, ends[i])
    OBVIOUS
  <2>1. from(i) \in Nat /\ from(i) <= Len(w) /\ ends[i] \in Nat /\ ends[i] <= Len(w)
    BY <1>1, <1>2, <1>3, <1>4
  <2>2. \A m, k \in Nat : m <= Len(w) /\ k <= Len(w) =>
            SubSeq(Append(w, x), m + 1, k) = SubSeq(w, m + 1, k)
    BY SubSeqAppend
  <2>. QED  BY <2>1, <2>2, Zenon
<1>6. SubSeq(Append(w, x), from(n + 1) + 1, Len(w) + 1) = Append(rest, x)
  <2>1. from(n + 1) \in Nat /\ from(n + 1) <= Len(w)
    BY <1>2, <1>4
  <2>. QED  BY <1>1, <2>1, SubSeqAppend
<1>7. ASSUME NEW i \in 1..n
      PROVE  /\ from(i) <= ends[i] /\ ends[i] <= Len(Append(w, x))
             /\ parts[i] = SubSeq(Append(w, x), from(i) + 1, ends[i])
  <2>1. ends[i] \in Nat /\ ends[i] <= Len(w) /\ from(i) <= ends[i]
    BY <1>1, <1>3
  <2>2. ends[i] <= Len(Append(w, x))
    BY <1>2, <2>1
  <2>. QED  BY <1>1, <1>5, <2>1, <2>2
<1>. QED  BY <1>1, <1>2, <1>6, <1>7 DEF IsSplit, from, n

\* The rest may be cut off as the next part.
LEMMA SplitCuts ==
    ASSUME NEW S, NEW w \in Seq(S), NEW ends \in Seq(Nat), NEW rest,
           NEW parts, NEW more, IsSplit(w, parts, ends, rest),
           Len(more) = Len(parts) + 1, \A i \in 1..Len(parts) : more[i] = parts[i],
           more[Len(parts) + 1] = rest
    PROVE  IsSplit(w, more, Append(ends, Len(w)), <<>>)
<1> DEFINE from(i) == IF i = 1 THEN 0 ELSE ends[i - 1]
           n == Len(ends)
           longer == Append(ends, Len(w))
           start(i) == IF i = 1 THEN 0 ELSE longer[i - 1]
<1>1. /\ Len(parts) = n
      /\ \A i \in 1..n : /\ from(i) <= ends[i] /\ ends[i] <= Len(w)
                         /\ parts[i] = SubSeq(w, from(i) + 1, ends[i])
      /\ rest = SubSeq(w, from(n + 1) + 1, Len(w))
  BY DEF IsSplit
<1>2. n \in Nat /\ Len(w) \in Nat
  OBVIOUS
<1>3. /\ longer \in Seq(Nat) /\ Len(longer) = n + 1
      /\ \A i \in 1..n : longer[i] = ends[i] /\ ends[i] \in Nat
      /\ longer[n + 1] = Len(w)
  BY <1>2
<1>4. ASSUME NEW i \in 1..(n + 1)
      PROVE  start(i) = from(i) /\ from(i) \in Nat /\ from(i) <= Len(w)
  <2>1. CASE i = 1
    BY <1>2, <2>1
  <2>2. CASE i # 1
    <3>1. i - 1 \in 1..n
      BY <1>2, <2>2
    <3>2. from(i) = ends[i - 1] /\ start(i) = longer[i - 1]
      BY <2>2
    <3>. QED  BY <1>1, <1>3, <3>1, <3>2
  <2>. QED  BY <2>1, <2>2
<1>5. start(n + 2) = Len(w)
  BY <1>2, <1>3
<1>6. SubSeq(w, Len(w) + 1, Len(w)) = <<>>
  BY <1>2, SubSeqEmpty
<1> HIDE DEF from, n, longer, start
<1>7. ASSUME NEW i \in 1..(n + 1)
      PROVE  /\ start(i) <= longer[i] /\ longer[i] <= Len(w)
             /\ more[i] = SubSeq(w, start(i) + 1, longer[i])
  <2>1. CASE i \in 1..n
    BY <1>1, <1>2, <1>3, <1>4, <2>1
  <2>2. CASE i = n + 1
    BY <1>1, <1>2, <1>3, <1>4, <2>2, SMTT(30)
  <2>. QED  BY <1>2, <2>1, <2>2
<1>8. Len(more) = Len(longer)
  BY <1>1, <1>3
<1>9. <<>> = SubSeq(w, start(Len(longer) + 1) + 1, Len(w))
  <2>1. Len(longer) + 1 = n + 2
    BY <1>2, <1>3
  <2>. QED  BY <1>5, <1>6, <2>1
<1>. QED  BY <1>3, <1>7, <1>8, <1>9 DEF IsSplit, longer, start

\* The types of an accumulator and of what it emits.
Accumulators ==
    [start : Int \cup {NoPts}, last : Int, video : Seq(Arriving), audio : Seq(Arriving),
     next : Nat]

Emissions ==
    [seq : Nat, start : Int, duration : Int, video : Seq(Arriving), audio : Seq(Arriving),
     last : BOOLEAN]

Tracks  == [video : Seq(Arriving), audio : Seq(Arriving)]
Lengths == [video : Seq(Nat), audio : Seq(Nat)]

\* TracksConserved, of any packets, segments, lengths and accumulator.
Conserved(packets, segs, ends, a) ==
    /\ IsSplit(packets.video, [i \in 1..Len(segs) |-> segs[i].video], ends.video, a.video)
    /\ IsSplit(packets.audio, [i \in 1..Len(segs) |-> segs[i].audio], ends.audio, a.audio)
    /\ \A i \in 1..Len(segs) : segs[i].seq = i - 1

\* The packets with one more, on its track.
Joined(packets, p) ==
    IF p.audio THEN [packets EXCEPT !.audio = Append(@, p)]
               ELSE [packets EXCEPT !.video = Append(@, p)]

\* push() adds the packet to its track and is ready for the next.
LEMMA AccumulateEffect ==
    ASSUME NEW a \in Accumulators, NEW p \in Arriving
    PROVE  /\ Accumulate(a, p) \in Accumulators
           /\ Accumulate(a, p).next = a.next /\ Accumulate(a, p).last = p.pts
           /\ Accumulate(a, p).audio = IF p.audio THEN Append(a.audio, p) ELSE a.audio
           /\ Accumulate(a, p).video = IF p.audio THEN a.video ELSE Append(a.video, p)
<1>1. p.pts \in Int /\ p.audio \in BOOLEAN
  BY DEF Arriving
<1>2. Append(a.audio, p) \in Seq(Arriving) /\ Append(a.video, p) \in Seq(Arriving)
  BY DEF Accumulators
<1>. QED  BY <1>1, <1>2 DEF Accumulate, Accumulators

\* emit_segment() hands out both buffers and empties them.
LEMMA EmitEffect ==
    ASSUME NEW a \in Accumulators, NEW isLast \in BOOLEAN
    PROVE  /\ Reset(a) \in Accumulators
           /\ Reset(a).next = a.next + 1 /\ Reset(a).video = <<>> /\ Reset(a).audio = <<>>
           /\ Emitted(a, isLast) \in Emissions
           /\ Emitted(a, isLast).seq = a.next
           /\ Emitted(a, isLast).video = a.video /\ Emitted(a, isLast).audio = a.audio
<1>1. <<>> \in Seq(Arriving)
  OBVIOUS
<1>2. StartOf(a) \in Int
  BY DEF StartOf, Accumulators
<1>3. /\ Reset(a) \in Accumulators
      /\ Reset(a).next = a.next + 1 /\ Reset(a).video = <<>> /\ Reset(a).audio = <<>>
  <2> DEFINE none == NoPts
             empty == <<>>
             n == a.next + 1
  <2>1. none \in Int \cup {NoPts} /\ empty \in Seq(Arriving) /\ n \in Nat
    BY <1>1 DEF Accumulators
  <2>2. Reset(a) = [a EXCEPT !.start = none, !.video = empty, !.audio = empty, !.next = n]
    BY DEF Reset
  <2> HIDE DEF none, empty, n
  <2>3. Reset(a) \in Accumulators /\ Reset(a).next = n /\ Reset(a).video = empty
        /\ Reset(a).audio = empty
    BY <2>1, <2>2 DEF Accumulators
  <2>. QED  BY <2>3 DEF empty, n
<1>. QED  BY <1>2, <1>3 DEF Emitted, Emissions, Accumulators

\* A packet that joins is conserved.
LEMMA JoinConserved ==
    ASSUME NEW packets \in Tracks, NEW segs, NEW ends \in Lengths,
           NEW a \in Accumulators, NEW p \in Arriving, Conserved(packets, segs, ends, a)
    PROVE  /\ Joined(packets, p) \in Tracks
           /\ Conserved(Joined(packets, p), segs, ends, Accumulate(a, p))
<1> DEFINE w == Joined(packets, p)
           g == Accumulate(a, p)
<1>1. /\ packets.video \in Seq(Arriving) /\ packets.audio \in Seq(Arriving)
      /\ ends.video \in Seq(Nat) /\ ends.audio \in Seq(Nat)
  BY DEF Tracks, Lengths
<1>2. /\ Append(packets.video, p) \in Seq(Arriving) /\ Append(packets.audio, p) \in Seq(Arriving)
  BY <1>1
<1>3. /\ w \in Tracks
      /\ w.audio = IF p.audio THEN Append(packets.audio, p) ELSE packets.audio
      /\ w.video = IF p.audio THEN packets.video ELSE Append(packets.video, p)
  BY <1>2 DEF Joined, Tracks
<1>4. /\ g.audio = IF p.audio THEN Append(a.audio, p) ELSE a.audio
      /\ g.video = IF p.audio THEN a.video ELSE Append(a.video, p)
  BY AccumulateEffect
<1> HIDE DEF w, g
<1> DEFINE vs == [i \in 1..Len(segs) |-> segs[i].video]
           as == [i \in 1..Len(segs) |-> segs[i].audio]
<1>5. IsSplit(packets.video, vs, ends.video, a.video) /\ IsSplit(packets.audio, as, ends.audio, a.audio)
  BY DEF Conserved
<1> HIDE DEF vs, as
<1>6. IsSplit(w.video, vs, ends.video, g.video)
  <2>1. CASE p.audio
    BY <1>3, <1>4, <1>5, <2>1
  <2>2. CASE ~p.audio
    BY <1>1, <1>3, <1>4, <1>5, <2>2, SplitGrows
  <2>. QED  BY <2>1, <2>2
<1>7. IsSplit(w.audio, as, ends.audio, g.audio)
  <2>1. CASE p.audio
    BY <1>1, <1>3, <1>4, <1>5, <2>1, SplitGrows
  <2>2. CASE ~p.audio
    BY <1>3, <1>4, <1>5, <2>2
  <2>. QED  BY <2>1, <2>2
<1>. QED  BY <1>3, <1>6, <1>7 DEF Conserved, w, g, vs, as

\* What is emitted is conserved.
LEMMA EmitConserved ==
    ASSUME NEW packets \in Tracks, NEW segs \in Seq(Emissions), NEW ends \in Lengths,
           NEW a \in Accumulators, NEW isLast \in BOOLEAN, Conserved(packets, segs, ends, a),
           a.next = Len(segs), NEW longer,
           longer = [video |-> Append(ends.video, Len(packets.video)),
                     audio |-> Append(ends.audio, Len(packets.audio))]
    PROVE  /\ longer \in Lengths
           /\ Conserved(packets, segs \o <<Emitted(a, isLast)>>, longer, Reset(a))
<1> DEFINE e == Emitted(a, isLast)
           more == segs \o <<e>>
           z == Reset(a)
<1>1. /\ packets.video \in Seq(Arriving) /\ packets.audio \in Seq(Arriving)
      /\ ends.video \in Seq(Nat) /\ ends.audio \in Seq(Nat)
  BY DEF Tracks, Lengths
<1>2. Len(packets.video) \in Nat /\ Len(packets.audio) \in Nat /\ Len(segs) \in Nat
  BY <1>1
<1>3. longer \in Lengths
  BY <1>1, <1>2 DEF Lengths
<1>4. /\ e \in Emissions /\ e.seq = Len(segs) /\ e.video = a.video /\ e.audio = a.audio
      /\ z.video = <<>> /\ z.audio = <<>>
  BY EmitEffect
<1> HIDE DEF e, z
<1>5. /\ Len(more) = Len(segs) + 1
      /\ \A i \in 1..Len(segs) : more[i] = segs[i]
      /\ more[Len(segs) + 1] = e
  BY <1>2, <1>4
<1> HIDE DEF more
<1> DEFINE vs == [i \in 1..Len(segs) |-> segs[i].video]
           as == [i \in 1..Len(segs) |-> segs[i].audio]
           vm == [i \in 1..Len(more) |-> more[i].video]
           am == [i \in 1..Len(more) |-> more[i].audio]
<1>6. /\ IsSplit(packets.video, vs, ends.video, a.video)
      /\ IsSplit(packets.audio, as, ends.audio, a.audio)
      /\ \A i \in 1..Len(segs) : segs[i].seq = i - 1
  BY DEF Conserved
<1>7. /\ Len(vs) = Len(segs) /\ Len(as) = Len(segs)
      /\ Len(vm) = Len(segs) + 1 /\ Len(am) = Len(segs) + 1
  BY <1>2, <1>5
<1>8. ASSUME NEW i \in 1..Len(segs)
      PROVE  vm[i] = vs[i] /\ am[i] = as[i]
  BY <1>2, <1>5
<1>9. vm[Len(segs) + 1] = a.video /\ am[Len(segs) + 1] = a.audio
  BY <1>2, <1>4, <1>5
<1> HIDE DEF vs, as, vm, am
<1>10. IsSplit(packets.video, vm, longer.video, z.video)
  <2>1. longer.video = Append(ends.video, Len(packets.video))
    OBVIOUS
  <2>2. /\ Len(vm) = Len(vs) + 1 /\ vm[Len(vs) + 1] = a.video
        /\ \A i \in 1..Len(vs) : vm[i] = vs[i]
    BY <1>7, <1>8, <1>9
  <2>3. IsSplit(packets.video, vm, Append(ends.video, Len(packets.video)), <<>>)
    BY <1>1, <1>6, <2>2, SplitCuts
  <2>. QED  BY <1>4, <2>1, <2>3
<1>11. IsSplit(packets.audio, am, longer.audio, z.audio)
  <2>1. longer.audio = Append(ends.audio, Len(packets.audio))
    OBVIOUS
  <2>2. /\ Len(am) = Len(as) + 1 /\ am[Len(as) + 1] = a.audio
        /\ \A i \in 1..Len(as) : am[i] = as[i]
    BY <1>7, <1>8, <1>9
  <2>3. IsSplit(packets.audio, am, Append(ends.audio, Len(packets.audio)), <<>>)
    BY <1>1, <1>6, <2>2, SplitCuts
  <2>. QED  BY <1>4, <2>1, <2>3
<1>12. ASSUME NEW i \in 1..Len(more)
       PROVE  more[i].seq = i - 1
  <2>1. CASE i = Len(segs) + 1
    BY <1>2, <1>4, <1>5, <2>1
  <2>2. CASE i \in 1..Len(segs)
    BY <1>5, <1>6, <2>2
  <2>. QED  BY <1>2, <1>5, <2>1, <2>2
<1>. QED  BY <1>3, <1>10, <1>11, <1>12 DEF Conserved, vm, am, more, e, z

-----------------------------------------------------------------------------
(* The accumulator's invariant and theorems.                               *)

FeedTypes ==
    /\ accumulator \in Accumulators
    /\ emitted \in Seq(Emissions)
    /\ fed \in Tracks /\ cuts \in Lengths

\* The accumulator's next number is that of the segments it has emitted.
FeedInv ==
    /\ FeedTypes /\ accumulator.next = Len(emitted)
    /\ TracksConserved /\ MinimumDuration

\* An emission appends a segment that is long enough or the last.
LEMMA EmitStep ==
    ASSUME FeedTypes, MinimumDuration, NEW w \in Tracks, NEW a \in Accumulators,
           NEW isLast \in BOOLEAN, a.next = Len(emitted),
           Conserved(w, emitted, cuts, a), fed' = w, accumulator' = Reset(a),
           Hands(<<Emitted(a, isLast)>>),
           ~isLast => Emitted(a, isLast).duration >= Target
    PROVE  FeedInv'
<1> DEFINE e == Emitted(a, isLast)
<1>1. /\ Reset(a) \in Accumulators /\ Reset(a).next = a.next + 1 /\ e \in Emissions
  BY EmitEffect
<1>2. /\ emitted' = emitted \o <<e>>
      /\ cuts' = [video |-> Append(cuts.video, Len(fed'.video)),
                  audio |-> Append(cuts.audio, Len(fed'.audio))]
  BY DEF Hands
<1>3. emitted \in Seq(Emissions) /\ cuts \in Lengths
  BY DEF FeedTypes
<1>4. e.last = isLast
  BY DEF Emitted
<1>5. cuts' \in Lengths /\ Conserved(w, emitted', cuts', Reset(a))
  <2>1. cuts' = [video |-> Append(cuts.video, Len(w.video)),
                 audio |-> Append(cuts.audio, Len(w.audio))]
    BY <1>2
  <2>2. cuts' \in Lengths /\ Conserved(w, emitted \o <<Emitted(a, isLast)>>, cuts', Reset(a))
    BY <1>3, <2>1, EmitConserved, SMTT(30)
  <2>. QED  BY <1>2, <2>2
<1> HIDE DEF e
<1>6. /\ emitted' \in Seq(Emissions) /\ Len(emitted') = Len(emitted) + 1
      /\ Len(emitted) \in Nat
      /\ \A i \in 1..Len(emitted) : emitted'[i] = emitted[i]
      /\ emitted'[Len(emitted) + 1] = e
  BY <1>1, <1>2, <1>3
<1>7. FeedTypes' /\ (accumulator.next = Len(emitted))'
  BY <1>1, <1>5, <1>6 DEF FeedTypes
<1>8. TracksConserved'
  BY <1>5 DEF TracksConserved, Conserved
<1>9. MinimumDuration'
  <2>. SUFFICES ASSUME NEW i \in 1..Len(emitted'), ~emitted'[i].last
                PROVE  emitted'[i].duration >= Target
    BY DEF MinimumDuration
  <2>1. CASE i \in 1..Len(emitted)
    BY <1>6, <2>1 DEF MinimumDuration
  <2>2. CASE i = Len(emitted) + 1
    BY <1>4, <1>6, <2>2 DEF e
  <2>. QED  BY <1>6, <2>1, <2>2
<1>. QED  BY <1>7, <1>8, <1>9 DEF FeedInv

\* A step that emits nothing.
LEMMA QuietFeed ==
    ASSUME FeedTypes, MinimumDuration, NEW w \in Tracks, NEW a \in Accumulators,
           a.next = Len(emitted), Conserved(w, emitted, cuts, a),
           fed' = w, accumulator' = a, UNCHANGED <<emitted, cuts>>
    PROVE  FeedInv'
BY DEF FeedInv, FeedTypes, MinimumDuration, TracksConserved, Conserved

\* Nothing emitted leaves the segments and the lengths as they were.
LEMMA HandsNothing ==
    ASSUME FeedTypes, Hands(<<>>)
    PROVE  UNCHANGED <<emitted, cuts>>
BY DEF Hands, FeedTypes

\* push() and flush() keep the invariant.
LEMMA FeedStep ==
    ASSUME FeedInv, [FeedNext]_feedVars
    PROVE  FeedInv'
<1>1. /\ FeedTypes /\ MinimumDuration /\ accumulator.next = Len(emitted)
      /\ Conserved(fed, emitted, cuts, accumulator)
  BY DEF FeedInv, TracksConserved, Conserved
<1>2. accumulator \in Accumulators /\ fed \in Tracks /\ cuts \in Lengths
  BY <1>1 DEF FeedTypes
<1>3. ASSUME NEW p \in Arriving, Feed(p)
      PROVE  FeedInv'
  <2> DEFINE g == Accumulate(accumulator, p)
  <2>1. /\ g \in Accumulators /\ g.next = accumulator.next /\ g.last = p.pts
    BY <1>2, AccumulateEffect
  <2>2. /\ fed' = Joined(fed, p) /\ Joined(fed, p) \in Tracks
        /\ Conserved(Joined(fed, p), emitted, cuts, g)
    BY <1>1, <1>2, <1>3, JoinConserved DEF Feed, Joined
  <2> HIDE DEF g
  <2>3. CASE IsBoundary(g, p)
    <3>1. accumulator' = Reset(g) /\ Hands(<<Emitted(g, FALSE)>>)
      BY <1>3, <2>3 DEF Feed, Push, g
    <3>2. Emitted(g, FALSE).duration >= Target
      BY <2>1, <2>3 DEF Emitted, IsBoundary
    <3>. QED  BY <1>1, <2>1, <2>2, <3>1, <3>2, EmitStep
  <2>4. CASE ~IsBoundary(g, p)
    <3>1. accumulator' = g /\ Hands(<<>>)
      BY <1>3, <2>4 DEF Feed, Push, g
    <3>. QED  BY <1>1, <2>1, <2>2, <3>1, HandsNothing, QuietFeed
  <2>. QED  BY <2>3, <2>4
<1>4. ASSUME Finish
      PROVE  FeedInv'
  <2>1. fed' = fed
    BY <1>4 DEF Finish
  <2>2. CASE accumulator.video = <<>>
    <3>1. accumulator' = accumulator /\ Hands(<<>>)
      BY <1>4, <2>2 DEF Finish, Flush
    <3>. QED  BY <1>1, <1>2, <2>1, <3>1, HandsNothing, QuietFeed
  <2>3. CASE accumulator.video # <<>>
    <3>1. accumulator' = Reset(accumulator) /\ Hands(<<Emitted(accumulator, TRUE)>>)
      BY <1>4, <2>3 DEF Finish, Flush
    <3>. QED  BY <1>1, <1>2, <2>1, <3>1, EmitStep
  <2>. QED  BY <2>2, <2>3
<1>5. CASE UNCHANGED feedVars
  BY <1>1, <1>2, <1>5, QuietFeed DEF feedVars
<1>. QED  BY <1>3, <1>4, <1>5 DEF FeedNext

\* A new accumulator has been fed nothing and has emitted nothing.
LEMMA FeedInitInv == FeedInit => FeedInv
<1>. SUFFICES ASSUME FeedInit PROVE FeedInv
  OBVIOUS
<1>1. accumulator = NewAccumulator /\ emitted = <<>>
      /\ fed = [video |-> <<>>, audio |-> <<>>] /\ cuts = [video |-> <<>>, audio |-> <<>>]
  BY DEF FeedInit
<1>2. FeedTypes /\ accumulator.next = Len(emitted)
  BY <1>1 DEF FeedTypes, NewAccumulator, Accumulators, Tracks, Lengths
<1>3. SubSeq(<<>>, 1, 0) = <<>>
  BY SubSeqEmpty
<1>4. ASSUME NEW parts, Len(parts) = 0
      PROVE  IsSplit(<<>>, parts, <<>>, <<>>)
  BY <1>3, <1>4 DEF IsSplit
<1>5. TracksConserved
  BY <1>1, <1>4 DEF TracksConserved, NewAccumulator
<1>6. MinimumDuration
  BY <1>1 DEF MinimumDuration
<1>. QED  BY <1>2, <1>5, <1>6 DEF FeedInv

\* So the invariant holds for ever.
LEMMA FeedInvariance == FeedSpec => []FeedInv
<1>1. FeedInv /\ [FeedNext]_feedVars => FeedInv'
  BY FeedStep
<1>. QED  BY <1>1, FeedInitInv, PTL DEF FeedSpec

\* For every sequence of packets of the two tracks, any target duration and any
\* timestamps: the segments and the buffer are what was pushed, on both tracks.
THEOREM NoPacketLost == FeedSpec => []TracksConserved
<1>1. FeedInv => TracksConserved
  BY DEF FeedInv
<1>. QED  BY <1>1, FeedInvariance, PTL

\* However the timestamps go back, a segment that push() emits is at least as
\* long as the target.
THEOREM SegmentsAreLongEnough == FeedSpec => []MinimumDuration
<1>1. FeedInv => MinimumDuration
  BY DEF FeedInv
<1>. QED  BY <1>1, FeedInvariance, PTL

=============================================================================
