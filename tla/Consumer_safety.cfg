\* A limit of redeliveries that one redelivery does not reach; the failing message leaves room in the window.
SPECIFICATION FairSpec
CONSTANTS
    Msgs <- MCMsgs
    Undecodable <- MCUndecodable
    Deaths <- MCDeaths
    Verdicts <- MCVerdicts
    Prefetch = 3
    BatchSize = 2
    MaxRedeliveries = 2
    AttemptCap = 0
    MaxLosses = 2
INVARIANTS TypeOK HeldDeliveriesAreUnacked OnlyBuryableAreDead StopLeavesNothingHeld
PROPERTIES KeepsPromise EveryMessageSettled CancelStops
CHECK_DEADLOCK FALSE
