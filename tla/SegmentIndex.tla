---------------------------- MODULE SegmentIndex ----------------------------
(***************************************************************************)
(* SegmentIndex (package/segment_index.rs) and the media playlist made     *)
(* from it (package/manifest.rs): the sliding window of one rendition.     *)
(***************************************************************************)
EXTENDS Integers, Sequences

CONSTANT Window   \* live_window_segments

ASSUME WindowAssumption == Window \in Nat \ {0}

NewIndex == [segments |-> <<>>, next |-> 0]

\* add_segment(): the index numbers its entries itself, independently of the
\* sequence number in the segment's file name.
AddSegment(ix) ==
    LET grown == Append(ix.segments, ix.next)
    IN  [segments |-> IF Len(grown) > Window THEN Tail(grown) ELSE grown,
         next     |-> ix.next + 1]

\* generate_playlist(): the files of the window, and whether ENDLIST follows.
GeneratePlaylist(ix, isFinished) ==
    [files |-> ix.segments, endlist |-> isFinished]
=============================================================================
