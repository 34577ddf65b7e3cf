\* Every lattice, and up to MaxOps of lattice-tool's options.
SPECIFICATION Spec
CONSTANTS
    Pause = "-pau-"
    SentStart = "<s>"
    SentEnd = "</s>"
    Parts <- MCParts
    Model <- MCModel
    LMOrder = 3
    Lattices <- MCLattices
    HTKLattices <- MCHTKLattices
    Dictionary <- MCDictionary
    Pronunciations <- MCPronunciations
    Others <- MCOthers
    Thresholds <- MCThresholds
    Limits <- MCLimits
    MaxNodes = {0, 8}
    References <- MCReferences
    Stray <- MCStray
    MaxOps = 2
    MaxSize = 5
INVARIANTS GraphConsistent ScoresAreModels PosteriorsArePathSums DecodingIsExact
PROPERTIES SpeechKept
CHECK_DEADLOCK FALSE
