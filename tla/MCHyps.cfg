\* N-best lists aligned, chosen from and rescored.
SPECIFICATION Spec
CONSTANTS
    Files <- MCFiles
    Settings <- MCSettings
    Meshes <- MCMeshes
    Reference <- MCReference
    Suppressed <- MCSuppressed
    PrimePosterior = 3
    Parts <- MCParts
    Noise <- MCNoise
    LMScore <- MCLMScore
    Penalty <- MCPenalty
    Distance <- MCDistance
    WordOrder <- MCWordOrder
INVARIANTS AlignmentHolds ErrorsReported FilesReadBack
CHECK_DEADLOCK FALSE
