SPECIFICATION Spec
CONSTANTS
    Limits = {0, 1}
    MaxRatio = 1
    MaxDepth = 2
INVARIANTS
    TypeOK
    DownloadCompleteOnce
    CompleteBeforeAnnounced
    MetadataBeforeProgress
    SeedingWasReported
PROPERTIES
    StateFollowsLibtorrent
    CompletionIsReported
    RatioLimitPauses
