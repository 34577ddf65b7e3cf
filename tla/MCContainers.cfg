SPECIFICATION AllSpec
CONSTANTS
    ka = ka
    kb = kb
    kc = kc
    kd = kd
    it1 = it1
    Keys <- MCKeys
    Values = {0, 1}
    Zero = 0
    NoKey = NoKey
    Junk = Junk
    Iters = {it1}
    RawHash <- MCRawHash
    HashShift = 4
    MinHashBits = 2
    SizeHints = {0, 5}
    Rank <- MCRank
    Order <- MCRank
    GrowNum = 2
    GrowDen = 1
    Items <- MCItems
    ItemRank <- MCItemRank
    NoItem = NoItem
    MaxNodes = 4
    Objects = {1, 2, 3}
    MaxInline = 4
    Amounts = {2, 5}
    Threads = {t1, t2}
    Blocks = {b1, b2}
    Sizes = {0, 8, 9}
    WordSize = 8
    BlkSize = 4
    MaxWords = 3
    SizeRange = 65536
    NoTLS = FALSE
    HandOver = FALSE
    Exiting = {t1, t2}
SYMMETRY Symmetry
\* A heap that is empty goes on with a push, a table with any call, a thread with
\* BM_freeThread.
CHECK_DEADLOCK TRUE
INVARIANTS TablesSound CountsKept SingleOwner NoUseAfterFree
PROPERTIES ImplementsMap ArrayImplementsMap ImplementsQueue Allocates
