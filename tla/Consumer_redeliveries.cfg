\* The default limit, and a message whose dispatch always fails.
SPECIFICATION Spec
CONSTANTS
    Msgs <- MCOne
    Undecodable <- MCNone
    Deaths <- MCOneNoDeaths
    Verdicts <- MCOneFails
    Prefetch = 1
    BatchSize = 1
    MaxRedeliveries = 3
    AttemptCap = 5
    MaxLosses = 0
INVARIANT RedeliveryLimit
CHECK_DEADLOCK FALSE
