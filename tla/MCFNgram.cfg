CONSTANTS
    Tags <- MCTags
    TagOf <- MCTagOf
    UnkIsWord = FALSE
    NullIsWord = TRUE
    OpenVocab = TRUE
    VirtualBegin = TRUE
    VirtualEnd = TRUE
    AddStart = TRUE
    AddEnd = TRUE
    SpecChoices <- MCSpecChoices
    TrainingLines <- MCTrainingLines
    TestLines <- MCTestLines
    MaxTraining = 2
    MaxTests = 2
    NoiseWords = {}
    SkipOOVs = FALSE
    NoScoreMarks = FALSE
    MaxRetries = 4
SPECIFICATION Spec
INVARIANTS Normalized AnswersKept
CHECK_DEADLOCK FALSE
