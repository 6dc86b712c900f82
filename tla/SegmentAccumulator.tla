------------------------- MODULE SegmentAccumulator -------------------------
(***************************************************************************)
(* SegmentAccumulator (transcode/segment.rs): groups the packets of one    *)
(* rendition into segments.  An accumulator is a value; push() and flush() *)
(* are operators that return the new accumulator and the segments they     *)
(* emit (none or one).  Packet data is abstracted to the packet itself.    *)
(***************************************************************************)
EXTENDS Integers, Sequences

CONSTANTS
    Target,   \* target_duration_secs, in ticks of the timestamps
    NoPts     \* segment_start_pts = None

ASSUME TargetAssumption == Target \in Nat

NewAccumulator ==
    [start |-> NoPts, last |-> 0, video |-> <<>>, audio |-> <<>>, next |-> 0]

StartOf(acc) == IF acc.start = NoPts THEN 0 ELSE acc.start

\* emit_segment(): the segment handed out ...
Emitted(acc, isLast) ==
    [seq      |-> acc.next,
     start    |-> StartOf(acc),
     duration |-> acc.last - StartOf(acc),
     video    |-> acc.video,
     audio    |-> acc.audio,
     last     |-> isLast]

\* Faulty variant: the emitted video stays in the buffer.
ResetKeepsVideo(acc) ==
    [acc EXCEPT !.start = NoPts, !.audio = <<>>, !.next = @ + 1]

\* ... and the accumulator it leaves behind.
Reset(acc) ==
    [acc EXCEPT !.start = NoPts, !.video = <<>>, !.audio = <<>>, !.next = @ + 1]

\* push(), first half: the packet joins the current segment, whatever it is.
Accumulate(acc, p) ==
    [acc EXCEPT !.start = IF @ = NoPts THEN p.pts ELSE @,
                !.last  = p.pts,
                !.audio = IF p.audio THEN Append(@, p) ELSE @,
                !.video = IF p.audio THEN @ ELSE Append(@, p)]

\* Faulty variant: one tick too early.
IsBoundaryEarly(acc, p) ==
    /\ ~p.audio
    /\ p.key
    /\ p.pts - StartOf(acc) >= Target - 1

\* push(), second half: a video keyframe at or past the target duration closes
\* the segment it has just joined.
IsBoundary(acc, p) ==
    /\ ~p.audio
    /\ p.key
    /\ p.pts - StartOf(acc) >= Target

Push(acc, p) ==
    LET grown == Accumulate(acc, p)
    IN  IF IsBoundary(grown, p)
        THEN [acc |-> Reset(grown), out |-> <<Emitted(grown, FALSE)>>]
        ELSE [acc |-> grown, out |-> <<>>]

\* flush(): what is left becomes the final segment, unless it has no video.
Flush(acc) == IF acc.video = <<>> THEN <<>> ELSE <<Emitted(acc, TRUE)>>
=============================================================================
