\* A client without caches: what comes back is what the server answered.
SPECIFICATION RemoteSpec
CONSTANTS
    Words = {"a", "b"}
    NoWord = "none"
    EOL = "EOL"
    Clients = {c1}
    MaxClients = 2
    Messages <- Silent
    MaxInbox = 0
    MaxOutbox = 0
    Splits = FALSE
    Failures = FALSE
    Kills = TRUE
    Queries <- MCQueries
    Order = 3
    CacheOrder = 0
INVARIANT AnswersAreModels
CHECK_DEADLOCK FALSE
