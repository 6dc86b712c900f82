SPECIFICATION FeedSpec
CONSTANTS
    Target = 2
    NoPts = NoPts
    MaxPackets = 5
    MaxPts = 4
    MaxReorder = 1
INVARIANTS
    TracksConserved
    MinimumDuration
CHECK_DEADLOCK FALSE
