\* A client with caches.
SPECIFICATION RemoteSpec
CONSTANTS
    Words = {"a", "b"}
    NoWord = "none"
    EOL = "EOL"
    Clients = {c1}
    MaxClients = 2
    Messages <- Silent
    MaxInbox = 0
    MaxOutbox = 0
    Splits = FALSE
    Failures = FALSE
    Kills = TRUE
    Queries <- MCQueries
    Order = 3
    CacheOrder = 3
PROPERTIES ImplementsService AnswersAsServed
CHECK_DEADLOCK FALSE
