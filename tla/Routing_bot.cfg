\* README.md:57 against telegram.go:80.
SPECIFICATION Spec
CONSTANTS
    Trim <- MCTrim
    Wildcard <- MCWildcard
    Uuids <- MCUuids
    Base = "notify:"
    PublicApi = "api"
    Configs <- MCConfigs
    Sends <- MCSends
    Puts <- MCPuts
    MaxPuts = 2
    MaxSends = 1
INVARIANT MetadataOverridesBot
CHECK_DEADLOCK FALSE
