--------------------------- MODULE MCLivePipeline ---------------------------
(* Small instances of LivePipeline for TLC. *)
EXTENDS LivePipeline

OneRendition == <<"high">>
=============================================================================
