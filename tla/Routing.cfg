\* Three PUTs, two notifications, five configurations.
SPECIFICATION Spec
CONSTANTS
    Trim <- MCTrim
    Wildcard <- MCWildcard
    Uuids <- MCUuids
    Base = "notify:"
    PublicApi = "api"
    Configs <- MCConfigs
    Sends <- MCSends
    Puts <- MCPuts
    MaxPuts = 3
    MaxSends = 2
INVARIANTS ShownIsUsed DefaultsNeverFail OneSendEach
CHECK_DEADLOCK FALSE
