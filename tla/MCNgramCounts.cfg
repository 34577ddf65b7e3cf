SPECIFICATION ToolSpec
CONSTANTS
    Words = {"<s>", "</s>", "<unk>", "a", "b", "c"}
    SentStart = "<s>"
    SentEnd = "</s>"
    Unknown = "<unk>"
    MetaTag <- MCMeta
    BaseVocab = {"<s>", "</s>", "<unk>", "a", "b"}
    StopWords = {"a"}
    Index <- MCIndex
    Collation <- MCCollation
    Directories <- MCDirectories
    NonEvents = {"<s>", "<unk>"}
    Discountings <- MCDiscountings
    ShortBits = 4
    Order = 3
    Kinds = {"plain", "stop"}
    Texts <- MCTexts
    Factors = {1, 2}
    Files <- MCFiles
    Minimums <- MCMinimums
    MaxOps = 2
INVARIANTS
    CountsRight
    ContinuationCounts
    MassConserved
PROPERTIES
    FilteredExactly
\* A run ends when the model is estimated or the program exits.
CHECK_DEADLOCK FALSE
