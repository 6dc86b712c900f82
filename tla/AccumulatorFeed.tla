--------------------------- MODULE AccumulatorFeed ---------------------------
(***************************************************************************)
(* One SegmentAccumulator over its life (transcode/segment.rs): packets of *)
(* both tracks are pushed in any order and what is left is flushed once.   *)
(* Timestamps may go back a little, as they do with reordered (B) frames   *)
(* and with audio interleaved with video.                                  *)
(***************************************************************************)
EXTENDS SegmentAccumulator

CONSTANTS
    MaxPackets,   \* bound: packets fed
    MaxPts,       \* bound: largest timestamp
    MaxReorder    \* bound: how far a timestamp may go back

VARIABLES
    accumulator,  \* the SegmentAccumulator
    flushed,      \* flush() has consumed it
    emitted,      \* the segments it emitted
    fed,          \* history: the packets pushed, per track
    cuts          \* history: how many of them there were at each emission

feedVars == <<accumulator, flushed, emitted, fed, cuts>>

Arriving == [pts : 0..MaxPts, key : BOOLEAN, audio : BOOLEAN]

FeedInit ==
    /\ accumulator = NewAccumulator
    /\ flushed = FALSE
    /\ emitted = <<>>
    /\ fed = [video |-> <<>>, audio |-> <<>>]
    /\ cuts = [video |-> <<>>, audio |-> <<>>]

\* Segments, none or one, are emitted.
Hands(new) ==
    /\ emitted' = emitted \o new
    /\ cuts' = IF new = <<>> THEN cuts
               ELSE [video |-> Append(cuts.video, Len(fed'.video)),
                     audio |-> Append(cuts.audio, Len(fed'.audio))]

Feed(p) ==
    /\ ~flushed
    /\ Len(fed.video) + Len(fed.audio) < MaxPackets
    /\ p.pts >= accumulator.last - MaxReorder
    /\ fed' = IF p.audio THEN [fed EXCEPT !.audio = Append(@, p)]
                         ELSE [fed EXCEPT !.video = Append(@, p)]
    /\ accumulator' = Push(accumulator, p).acc
    /\ Hands(Push(accumulator, p).out)
    /\ UNCHANGED flushed

\* Sound without a picture is dropped with the accumulator.
Finish ==
    /\ ~flushed
    /\ flushed' = TRUE
    /\ UNCHANGED fed
    /\ accumulator' = IF Flush(accumulator) = <<>> THEN accumulator ELSE Reset(accumulator)
    /\ Hands(Flush(accumulator))

FeedNext == (\E p \in Arriving : Feed(p)) \/ Finish

FeedSpec == FeedInit /\ [][FeedNext]_feedVars

-----------------------------------------------------------------------------
\* The parts, cut off one after the other where ends says, and the rest are the
\* whole.
IsSplit(whole, parts, ends, rest) ==
    LET from(i) == IF i = 1 THEN 0 ELSE ends[i - 1]
    IN  /\ Len(parts) = Len(ends)
        /\ \A i \in 1..Len(ends) :
              /\ from(i) <= ends[i] /\ ends[i] <= Len(whole)
              /\ parts[i] = SubSeq(whole, from(i) + 1, ends[i])
        /\ rest = SubSeq(whole, from(Len(ends) + 1) + 1, Len(whole))

\* push() and flush() neither lose, duplicate nor reorder packets of either
\* track: the segments, numbered from zero, and what is still buffered are what
\* was fed, cut where each segment was emitted.
TracksConserved ==
    /\ IsSplit(fed.video, [i \in 1..Len(emitted) |-> emitted[i].video], cuts.video, accumulator.video)
    /\ IsSplit(fed.audio, [i \in 1..Len(emitted) |-> emitted[i].audio], cuts.audio, accumulator.audio)
    /\ \A i \in 1..Len(emitted) : emitted[i].seq = i - 1

\* "Cutting at/after ensures segments are at least the target duration."
\* (transcode/segment.rs): every segment but a flushed one.
MinimumDuration ==
    \A i \in 1..Len(emitted) : ~emitted[i].last => emitted[i].duration >= Target

=============================================================================
