CONSTANTS
    WorkloadCodes = {0, 7}
    StopCode = 143
    AutoCleanup = TRUE
    MaxAttempts = 3
    Faults <- MCAllFaults
    Configs <- MCConfigs
    Destinations <- MCDestinations
    DPorts <- MCDPorts
    None = None
SPECIFICATION SweepSpec
INVARIANT SweepTypeOK
INVARIANT SupervisedWorkloadFiltered
INVARIANT CompletedRunLeavesNothing
INVARIANT MetadataUnreachable
INVARIANT DenyAcceptsOnlyWhitelisted
INVARIANT WhitelistReachable
