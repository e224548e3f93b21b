\* Two targets, the prefix of one a prefix of the other's and of a channel; liveness needs every client told apart.
SPECIFICATION FairSpec
CONSTANTS
    c1 = c1
    c2 = c2
    None = None
    Letters <- MCLetters
    Targets <- MCTargets
    Prefix <- MCPrefix
    Subjects <- MCSubjects
    Events = {"a", "b"}
    Clients <- MCClients
    ClientCapacity = 1
    MaxLosses = 1
INVARIANTS TypeOK OnlyOwnEvents OffersOnlyToOpen InOrder NoOneSkipped
PROPERTY HubKeepsUp
CHECK_DEADLOCK FALSE
