\* Three clients for two places.
SPECIFICATION Spec
CONSTANTS
    c1 = c1
    c2 = c2
    c3 = c3
    Words = {"a"}
    NoWord = "none"
    EOL = "EOL"
    Clients = {c1, c2, c3}
    MaxClients = 2
    Messages <- MCMessages
    MaxInbox = 2
    MaxOutbox = 0
    Splits = FALSE
    Failures = TRUE
    Kills = TRUE
INVARIANTS ClientLimit ChildrenCounted
PROPERTY ConnectionsMoveOn
CHECK_DEADLOCK FALSE
