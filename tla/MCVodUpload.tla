----------------------------- MODULE MCVodUpload -----------------------------
(* Uploads against no ladder, one of three rungs, and one whose rungs have  *)
(* names that become the same identifier, for TLC.                          *)
EXTENDS VodUpload

SmallLadders ==
    {<<>>, <<[name |-> "high", height |-> 3], [name |-> "medium", height |-> 2],
             [name |-> "low", height |-> 1]>>,
     <<[name |-> "1080p", height |-> 3], [name |-> "720p", height |-> 2]>>}

=============================================================================
