\* A notification that asks for every channel beside one that follows the preferences.
SPECIFICATION Spec
CONSTANTS
    n1 = n1
    n2 = n2
    alice = alice
    bob = bob
    e1 = e1
    None = None
    Notes <- MCNotes
    Users <- MCUsers
    Endpoints <- MCEndpoints
    Owner <- MCOwner
    InitialPrefs <- MCPrefs
    InitialSubs <- MCEndpoints
    Providers <- MCProviders
    Asked <- MCAsked
    Audience <- MCAudience
    Broadcast <- MCBroadcast
    WithId <- MCBroadcast
    MaxTries <- MCTries
    MaxChanges = 1
INVARIANTS TypeOK AckedReachedEveryone OneRowPerRecipient GoneIsDropped OptOutIsRespected
PROPERTY FlagsAreKept
CHECK_DEADLOCK FALSE
