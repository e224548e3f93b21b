\* Tokens are renewed within a dispatch and between two; every mix of failures.
SPECIFICATION Spec
CONSTANTS
    u1 = u1
    u2 = u2
    e1 = e1
    e2 = e2
    e3 = e3
    a1 = a1
    a2 = a2
    None = None
    Endpoints <- MCEndpoints
    Audiences <- MCAudiences
    Audience <- MCAudience
    Lifetime = 6
    Skew = 2
    Flight = 1
    MaxTime = 8
    Recipients <- MCRecipients
    Subs <- MCSubs
    Statuses <- MCStatuses
INVARIANTS TokenGoodOnArrival VerdictIsExact
PROPERTY TokensChangeSlowly
CHECK_DEADLOCK FALSE
