SPECIFICATION DocsSpec
CONSTANTS
    Limits = {0}
    MaxRatio = 0
    MaxDepth = 1
PROPERTY
    PauseIsReported
