\* Every start-up failure, two lost connections, dials that fail, a shutdown at any moment.
SPECIFICATION FairSpec
CONSTANTS
    Callers <- MCCallers
    MaxConns = 3
    InitialDelay = 1
    MaxDelay = 3
INVARIANTS TypeOK AtMostOneOpen NothingLeftOpen ServedWhileUsed
PROPERTIES ConnectionComesBack ExitCompletes
CHECK_DEADLOCK FALSE
