--------------------------- MODULE MCStreamState ---------------------------
(* Small instances of StreamState for TLC. *)
EXTENDS StreamState, TLC

CONSTANTS s1, s2, w1, w2, r1, r2

Symmetry == Permutations(Workers) \cup Permutations(Renditions) \cup Permutations(StreamIds)
=============================================================================
