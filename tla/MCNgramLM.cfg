\* Five corpora, one with counts of zero, and three ways of discounting; up to two operations after the estimate.
SPECIFICATION Spec
CONSTANTS
    a = a
    b = b
    bos = bos
    eos = eos
    Words = {bos, a, b, eos}
    SentStart = bos
    SentEnd = eos
    Order = 3
    Corpora <- MCCorpora
    Discounting <- MCDiscounting
    Lambdas <- MCLambdas
    MinMasses <- MCMinMasses
    MinPrunes = {2, 3}
    MaxPruned = 1
    MaxRetries = 3
    MaxOps = 3
INVARIANTS
    Normalized
    ReadsBack
    ContextIDSuffices
    UnseenWordsGetMass
PROPERTIES
    MixIsMixture
    LowProbsPruned
\* The operations come to an end.
CHECK_DEADLOCK FALSE
