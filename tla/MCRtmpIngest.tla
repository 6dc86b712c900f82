---------------------------- MODULE MCRtmpIngest ----------------------------
(* RtmpIngest for model checking: few connections, streams and keys.       *)
EXTENDS RtmpIngest, TLC

\* Connections are interchangeable, and so are streams.
Symmetry == Permutations(Connections) \cup Permutations(StreamIds)
=============================================================================
