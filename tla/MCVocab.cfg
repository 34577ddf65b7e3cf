\* Two more indices than the special words need; every call, in any order.
SPECIFICATION Spec
CONSTANTS
    unk = unk
    ss = ss
    se = se
    pau = pau
    A = A
    a = a
    b = b
    c = c
    meta1 = meta1
    metax = metax
    Names <- MixedNames
    WordArgs <- MixedWordArgs
    AliasNames = {a, unk}
    RemoveArgs = {a, meta1, 0, 4}
    NonEventArgs = {0, 4, 5}
    Lower <- MCLower
    MetaType <- MCMetaType
    Unknown = unk
    SentStart = ss
    SentEnd = se
    Pause = pau
    Start = 0
    End = 6
    NoName = NoName
    None = None
INVARIANTS
    RoundTrip
    IndexMapReadsBack
PROPERTIES
    IndexStable
\* The program dies when a null string reaches strcmp().
CHECK_DEADLOCK FALSE
