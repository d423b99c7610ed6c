CONSTANTS
    WorkloadCodes = {0, 7}
    StopCode = 143
    AutoCleanup = TRUE
    MaxAttempts = 2
    Faults <- MCNoFaults
    Configs <- MCDenyConfigs
    Destinations <- MCDestinations
    DPorts <- MCDPorts
    None = None
SPECIFICATION Spec
INVARIANT PortRangeReachable
